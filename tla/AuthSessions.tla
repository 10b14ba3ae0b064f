---------------------------- MODULE AuthSessions ----------------------------
(***************************************************************************)
(* The sessions of one user in one browser: the login, refresh and logout  *)
(* handlers (backend/app/api/auth.py), the tokens and the Redis blacklist  *)
(* (services/auth.py), the check every request passes (dependencies.py),   *)
(* and the tabs that call them (frontend/src/lib/api.ts, auth-context.tsx, *)
(* components/providers.tsx).                                              *)
(*                                                                         *)
(* All tabs share the cookie with the refresh token; each keeps an access  *)
(* token of its own in memory, which all its fetches use.  A slot is one   *)
(* fetch of a tab together with its handler in the server, and a step one  *)
(* answer of Redis, PostgreSQL or the server.  An administrator may        *)
(* activate or deactivate the user between any two steps (Accounts), so    *)
(* each query may find the row active or not.  The clock ticks twice in a  *)
(* second: a time to live in Redis is a whole number of seconds.           *)
(***************************************************************************)
EXTENDS Integers, FiniteSets

CONSTANTS
    Tabs,
    Slots,          \* fetches under way at once
    AccessLife,     \* ACCESS_TOKEN_EXPIRE_MINUTES, in ticks
    RefreshLife,    \* REFRESH_TOKEN_EXPIRE_DAYS, in ticks
    MaxTokens,      \* bound: refresh tokens issued
    Faults          \* a subset of {"redis", "lost"}

ASSUME SessionAssumption ==
    /\ AccessLife \in Nat \ {0}
    /\ RefreshLife \in Nat \ {0}
    /\ MaxTokens \in Nat
    /\ Faults \subseteq {"redis", "lost"}

Second == 2

Token == 1..MaxTokens
NoToken == 0
NoTab == "none"

VARIABLES
    issued,     \* refresh tokens created so far; they are numbered
    left,       \* ticks until each refresh token expires
    blacklist,  \* ticks until token_blacklist:<jti> expires; 0: no such key
    login_of,   \* the first token of the login each token descends from
    cookie,     \* the refresh_token cookie of the browser
    tab,        \* out: login form; loading: first render; in: a user is set
    access,     \* ticks the access token of each tab has left; 0: no valid one
    pc,         \* the await each slot is at
    of,         \* the tab of each slot
    kind,       \* why it was started
    sent,       \* the refresh token it sent
    new,        \* the refresh token the server made for it
    fresh,      \* ticks left of the access token it carries
    orphan,     \* its tab has left the page that waits for it
    spent,      \* history: blacklisted once
    loose,      \* history, by login: two refreshes overlapped, an answer or a
                \* Redis call failed, or a token was used in its last second
    quit,       \* history, by login: a logout blacklisted one of its tokens
    ended,      \* history, by login: ... that had not been blacklisted, while
                \* no refresh of the login was under way
    dropped     \* history, by login: a refresh was refused as logged out

tokens == <<issued, left, blacklist, login_of>>
browser == <<cookie, tab, access>>
slots == <<pc, of, kind, sent, new, fresh, orphan>>
history == <<spent, loose, quit, ended, dropped>>
vars == <<tokens, browser, slots, history>>

PCs == {"idle", "refused", "check", "load_user", "rotate", "answer",
        "me", "login", "logout", "bye"}

Init ==
    /\ issued = 0
    /\ left = [t \in Token |-> 0]
    /\ blacklist = [t \in Token |-> 0]
    /\ login_of = [t \in Token |-> t]
    /\ cookie = NoToken
    /\ tab = [b \in Tabs |-> "out"]
    /\ access = [b \in Tabs |-> 0]
    /\ pc = [s \in Slots |-> "idle"]
    /\ of = [s \in Slots |-> NoTab]
    /\ kind = [s \in Slots |-> "call"]
    /\ sent = [s \in Slots |-> NoToken]
    /\ new = [s \in Slots |-> NoToken]
    /\ fresh = [s \in Slots |-> 0]
    /\ orphan = [s \in Slots |-> FALSE]
    /\ spent = [t \in Token |-> FALSE]
    /\ loose = [t \in Token |-> FALSE]
    /\ quit = [t \in Token |-> FALSE]
    /\ ended = [t \in Token |-> FALSE]
    /\ dropped = [t \in Token |-> FALSE]

-----------------------------------------------------------------------------
(***************************************************************************)
(* services/auth.py and dependencies.py                                    *)
(***************************************************************************)

Valid(t) == t # NoToken /\ left[t] > 0

\* Mutant: rounded up.
WholeSeconds_up(n) == ((n + Second - 1) \div Second) * Second

\* int(exp - now), in ticks: what is left, without the last fraction of a second.
WholeSeconds(n) == (n \div Second) * Second

\* A token that opens a session, now and for a second at least.
Live(t) == left[t] >= Second /\ blacklist[t] = 0

\* get_current_user may accept the access token of slot s: it has not expired.
\* (Its jti is looked up in the blacklist, where no access token ever is; the row
\* may be inactive, or Redis not answer.)
Authorised(s) == fresh[s] > 0

\* create_refresh_token and create_access_token, for the handler of slot s.
CreateTokens(s, t, root) ==
    /\ issued' = t
    /\ left' = [left EXCEPT ![t] = RefreshLife]
    /\ login_of' = [login_of EXCEPT ![t] = root]
    /\ new' = [new EXCEPT ![s] = t]
    /\ fresh' = [fresh EXCEPT ![s] = AccessLife]
    /\ UNCHANGED blacklist

\* blacklist_token, if there is a second left: setex token_blacklist:<jti>.
Blacklist(t) ==
    LET ttl == WholeSeconds(left[t])
    IN  IF ttl > 0
        THEN /\ blacklist' = [blacklist EXCEPT ![t] = ttl]
             /\ spent' = [spent EXCEPT ![t] = TRUE]
        ELSE UNCHANGED <<blacklist, spent>>

Goto(s, label) == pc' = [pc EXCEPT ![s] = label]

-----------------------------------------------------------------------------
(***************************************************************************)
(* Fetches                                                                 *)
(***************************************************************************)

\* The fetch is over and its slot free.
Free(s) ==
    /\ pc' = [pc EXCEPT ![s] = "idle"]
    /\ of' = [of EXCEPT ![s] = NoTab]
    /\ kind' = [kind EXCEPT ![s] = "call"]
    /\ sent' = [sent EXCEPT ![s] = NoToken]
    /\ new' = [new EXCEPT ![s] = NoToken]
    /\ fresh' = [fresh EXCEPT ![s] = 0]
    /\ orphan' = [orphan EXCEPT ![s] = FALSE]

\* A fetch of tab b, with the cookie (if its path is /api/auth) and an access
\* token.
Send(s, b, k, label, token, ttl) ==
    /\ pc[s] = "idle"
    /\ pc' = [pc EXCEPT ![s] = label]
    /\ of' = [of EXCEPT ![s] = b]
    /\ kind' = [kind EXCEPT ![s] = k]
    /\ sent' = [sent EXCEPT ![s] = token]
    /\ fresh' = [fresh EXCEPT ![s] = ttl]
    /\ UNCHANGED <<new, orphan>>

\* Bound: every fetch under way could still create a refresh token.
TokensRemain == issued + Cardinality({s \in Slots : pc[s] # "idle"}) < MaxTokens

Waiting(b) == {s \in Slots : pc[s] # "idle" /\ of[s] = b /\ ~orphan[s]}

\* The slots with a refresh of login f.
Refreshing(f) ==
    {s \in Slots : /\ pc[s] \in {"check", "load_user", "rotate", "answer"}
                   /\ sent[s] # NoToken
                   /\ login_of[sent[s]] = f}

\* POST /api/auth/refresh is sent with the cookie.
NoteOverlap ==
    loose' = IF cookie # NoToken /\ Refreshing(login_of[cookie]) # {}
             THEN [loose EXCEPT ![login_of[cookie]] = TRUE]
             ELSE loose

\* The page of tab b is loaded anew; nobody waits for its fetches any more.
Navigate(b) ==
    /\ tab' = [tab EXCEPT ![b] = "loading"]
    /\ access' = [access EXCEPT ![b] = 0]

Abandon(b, o) == [s \in Slots |-> o[s] \/ (pc[s] # "idle" /\ of[s] = b)]

\* onAuthFailure: logout() is called and not awaited, and the page goes to /login.
AuthFailure(s) ==
    /\ Navigate(of[s])
    /\ pc' = [pc EXCEPT ![s] = "logout"]
    /\ kind' = [kind EXCEPT ![s] = "logout"]
    /\ sent' = [sent EXCEPT ![s] = cookie]
    /\ new' = [new EXCEPT ![s] = NoToken]
    /\ fresh' = [fresh EXCEPT ![s] = access[of[s]]]
    /\ orphan' = Abandon(of[s], orphan)
    /\ UNCHANGED <<of, cookie>>

\* refreshAccessToken returns null: the first render shows the login form, and
\* fetchJSON gives up.
RefreshFailed(s) ==
    \/ /\ orphan[s]
       /\ Free(s)
       /\ UNCHANGED browser
    \/ /\ ~orphan[s] /\ kind[s] = "load"
       /\ Free(s)
       /\ tab' = [tab EXCEPT ![of[s]] = "out"]
       /\ UNCHANGED <<cookie, access>>
    \/ /\ ~orphan[s] /\ kind[s] = "call"
       /\ AuthFailure(s)

\* A tab is opened or reloaded.
Reload(b) ==
    /\ tab[b] # "loading"
    /\ Navigate(b)
    /\ orphan' = Abandon(b, orphan)
    /\ UNCHANGED <<tokens, cookie, pc, of, kind, sent, new, fresh, history>>

\* AuthProvider's first effect: a new access token for the cookie.
BeginLoad(s, b) ==
    /\ tab[b] = "loading"
    /\ Waiting(b) = {}
    /\ TokensRemain
    /\ Send(s, b, "load", "check", cookie, 0)
    /\ NoteOverlap
    /\ UNCHANGED <<tokens, browser, spent, quit, ended, dropped>>

\* fetchJSON with an access token that get_current_user does not accept, because
\* it has expired or the row is inactive: 401.
\* (A call that is served, and the repetition of one, change nothing here.)
BeginCall(s, b) ==
    /\ tab[b] = "in"
    /\ TokensRemain
    /\ Send(s, b, "call", "refused", NoToken, 0)
    /\ UNCHANGED <<tokens, browser, history>>

\* The 401 arrives: fetchJSON asks for a new access token, for itself, whatever
\* the other fetches of the tab are doing.
CallRefused(s) ==
    /\ pc[s] = "refused"
    /\ ~orphan[s]
    /\ Goto(s, "check")
    /\ sent' = [sent EXCEPT ![s] = cookie]
    /\ NoteOverlap
    /\ UNCHANGED <<tokens, browser, of, kind, new, fresh, orphan,
                   spent, quit, ended, dropped>>

CallAbandoned(s) ==
    /\ pc[s] = "refused"
    /\ orphan[s]
    /\ Free(s)
    /\ UNCHANGED <<tokens, browser, history>>

-----------------------------------------------------------------------------
(***************************************************************************)
(* POST /api/auth/refresh                                                  *)
(***************************************************************************)

\* No cookie, an expired one, or Redis does not answer.
CheckFails(s) ==
    /\ pc[s] = "check"
    /\ ~Valid(sent[s]) \/ "redis" \in Faults
    /\ RefreshFailed(s)
    /\ UNCHANGED <<tokens, history>>

\* is_token_blacklisted: 401.
CheckRefuses(s) ==
    /\ pc[s] = "check"
    /\ Valid(sent[s])
    /\ blacklist[sent[s]] > 0
    /\ dropped' = [dropped EXCEPT ![login_of[sent[s]]] = TRUE]
    /\ RefreshFailed(s)
    /\ UNCHANGED <<tokens, spent, loose, quit, ended>>

CheckPasses(s) ==
    /\ pc[s] = "check"
    /\ Valid(sent[s])
    /\ blacklist[sent[s]] = 0
    /\ Goto(s, "load_user")
    /\ loose' = IF spent[sent[s]]
                THEN [loose EXCEPT ![login_of[sent[s]]] = TRUE]
                ELSE loose
    /\ UNCHANGED <<tokens, browser, of, kind, sent, new, fresh, orphan,
                   spent, quit, ended, dropped>>

\* The row is gone or inactive: 401.
LoadUserFails(s) ==
    /\ pc[s] = "load_user"
    /\ RefreshFailed(s)
    /\ UNCHANGED <<tokens, history>>

\* The row is active: both tokens are created.
LoadUser(s) ==
    /\ pc[s] = "load_user"
    /\ issued < MaxTokens
    /\ Goto(s, "rotate")
    /\ CreateTokens(s, issued + 1, login_of[sent[s]])
    /\ UNCHANGED <<browser, of, kind, sent, orphan, history>>

\* Mutant: the old token stays good.
Rotate_keeps_old(s) ==
    /\ pc[s] = "rotate"
    /\ Goto(s, "answer")
    /\ UNCHANGED <<tokens, browser, of, kind, sent, new, fresh, orphan, history>>

\* The old token is blacklisted, if it has a second left.
Rotate(s) ==
    /\ pc[s] = "rotate"
    /\ Goto(s, "answer")
    /\ Blacklist(sent[s])
    /\ loose' = IF left[sent[s]] \in 1..(Second - 1)
                THEN [loose EXCEPT ![login_of[sent[s]]] = TRUE]
                ELSE loose
    /\ UNCHANGED <<issued, left, login_of, browser,
                   of, kind, sent, new, fresh, orphan, quit, ended, dropped>>

\* setex raises: 500, and the answer does not carry the new cookie.
RotateFails(s) ==
    /\ pc[s] = "rotate"
    /\ "redis" \in Faults
    /\ loose' = [loose EXCEPT ![login_of[sent[s]]] = TRUE]
    /\ RefreshFailed(s)
    /\ UNCHANGED <<tokens, spent, quit, ended, dropped>>

\* Mutant: the answer of refresh has no cookie.
Answered_keeps_cookie(s) ==
    /\ pc[s] = "answer"
    /\ cookie' = IF kind[s] = "login" THEN new[s] ELSE cookie
    /\ ~orphan[s]
    /\ access' = [access EXCEPT ![of[s]] = fresh[s]]
    /\ tab' = [tab EXCEPT ![of[s]] = "in"]
    /\ Free(s)
    /\ UNCHANGED <<tokens, history>>

\* The answer of refresh or login reaches the browser.  fetchJSON repeats its
\* call once, which changes nothing; the others go on to fetchMe.
Answered(s) ==
    /\ pc[s] = "answer"
    /\ cookie' = new[s]
    /\ IF orphan[s]
       THEN Free(s) /\ UNCHANGED <<tab, access>>
       ELSE /\ access' = [access EXCEPT ![of[s]] = fresh[s]]
            /\ UNCHANGED tab
            /\ IF kind[s] = "call" THEN Free(s)
               ELSE /\ Goto(s, "me")
                    /\ sent' = [sent EXCEPT ![s] = NoToken]
                    /\ new' = [new EXCEPT ![s] = NoToken]
                    /\ UNCHANGED <<of, kind, fresh, orphan>>
    /\ UNCHANGED <<tokens, history>>

\* The connection breaks, or the page was left before the answer came.
AnswerLost(s) ==
    /\ pc[s] = "answer"
    /\ orphan[s] \/ "lost" \in Faults
    /\ loose' = [loose EXCEPT ![login_of[new[s]]] = TRUE]
    /\ IF kind[s] = "login"
       THEN Free(s) /\ UNCHANGED browser
       ELSE RefreshFailed(s)
    /\ UNCHANGED <<tokens, spent, quit, ended, dropped>>

\* fetchMe: a user is set, or null.
Me(s) ==
    /\ pc[s] = "me"
    /\ Free(s)
    /\ IF orphan[s] THEN UNCHANGED tab
       ELSE \/ Authorised(s) /\ tab' = [tab EXCEPT ![of[s]] = "in"]
            \/ tab' = [tab EXCEPT ![of[s]] = "out"]
    /\ UNCHANGED <<tokens, cookie, access, history>>

-----------------------------------------------------------------------------
(***************************************************************************)
(* POST /api/auth/login and /api/auth/logout                               *)
(***************************************************************************)

BeginLogin(s, b) ==
    /\ tab[b] = "out"
    /\ Waiting(b) = {}
    /\ TokensRemain
    /\ Send(s, b, "login", "login", NoToken, 0)
    /\ UNCHANGED <<tokens, browser, history>>

Login(s) ==
    /\ pc[s] = "login"
    /\ issued < MaxTokens
    /\ Goto(s, "answer")
    /\ CreateTokens(s, issued + 1, issued + 1)
    /\ UNCHANGED <<browser, of, kind, sent, orphan, history>>

\* 401 without a row, 403 for an inactive one.
LoginFails(s) ==
    /\ pc[s] = "login"
    /\ Free(s)
    /\ UNCHANGED <<tokens, browser, history>>

BeginLogout(s, b) ==
    /\ tab[b] = "in"
    /\ Send(s, b, "logout", "logout", cookie, access[b])
    /\ UNCHANGED <<tokens, browser, history>>

\* auth-context.tsx: the tab forgets its user, whatever the server answered.
SignOut(s) ==
    /\ Free(s)
    /\ IF orphan[s] THEN UNCHANGED <<tab, access>>
       ELSE /\ tab' = [tab EXCEPT ![of[s]] = "out"]
            /\ access' = [access EXCEPT ![of[s]] = 0]

\* The access token has expired, the row is inactive, Redis does not answer, or
\* the fetch was cancelled.
LogoutFails(s) ==
    /\ pc[s] = "logout"
    /\ SignOut(s)
    /\ UNCHANGED <<tokens, cookie, history>>

\* Mutant: the cookie goes and the token stays good.
Logout_forgets(s) ==
    /\ pc[s] = "logout"
    /\ Authorised(s)
    /\ Valid(sent[s])
    /\ Goto(s, "bye")
    /\ quit' = [quit EXCEPT ![login_of[sent[s]]] = TRUE]
    /\ ended' = [ended EXCEPT ![login_of[sent[s]]] =
                    @ \/ (~spent[sent[s]] /\ Refreshing(login_of[sent[s]]) = {})]
    /\ UNCHANGED <<tokens, browser, of, kind, sent, new, fresh, orphan,
                   spent, loose, dropped>>

\* The token of the cookie is blacklisted.
Logout(s) ==
    /\ pc[s] = "logout"
    /\ Authorised(s)
    /\ Valid(sent[s])
    /\ Goto(s, "bye")
    /\ Blacklist(sent[s])
    /\ LET f == login_of[sent[s]]
       IN  /\ quit' = [quit EXCEPT ![f] = TRUE]
           /\ ended' = IF /\ ~spent[sent[s]]
                          /\ left[sent[s]] >= Second
                          /\ Refreshing(f) = {}
                       THEN [ended EXCEPT ![f] = TRUE]
                       ELSE ended
    /\ UNCHANGED <<issued, left, login_of, browser,
                   of, kind, sent, new, fresh, orphan, loose, dropped>>

\* There is no cookie, it has expired, or the exception of Redis is swallowed.
LogoutOnly(s) ==
    /\ pc[s] = "logout"
    /\ Authorised(s)
    /\ ~Valid(sent[s]) \/ "redis" \in Faults
    /\ Goto(s, "bye")
    /\ UNCHANGED <<tokens, browser, of, kind, sent, new, fresh, orphan, history>>

\* The answer deletes the cookie; a page that was left may not get it.
Bye(s) ==
    /\ pc[s] = "bye"
    /\ \/ cookie' = NoToken
       \/ (orphan[s] \/ "lost" \in Faults) /\ UNCHANGED cookie
    /\ SignOut(s)
    /\ UNCHANGED <<tokens, history>>

-----------------------------------------------------------------------------
Down(n) == IF n > 0 THEN n - 1 ELSE 0

Tick ==
    /\ \E t \in Token : left[t] > 0
    /\ left' = [t \in Token |-> Down(left[t])]
    /\ blacklist' = [t \in Token |-> Down(blacklist[t])]
    /\ access' = [b \in Tabs |-> Down(access[b])]
    /\ fresh' = [s \in Slots |-> Down(fresh[s])]
    /\ UNCHANGED <<issued, login_of, cookie, tab,
                   pc, of, kind, sent, new, orphan, history>>

Page(s, b) ==
    \/ BeginLoad(s, b) \/ BeginCall(s, b) \/ BeginLogin(s, b) \/ BeginLogout(s, b)

Step(s) ==
    \/ CallRefused(s) \/ CallAbandoned(s)
    \/ CheckFails(s) \/ CheckRefuses(s) \/ CheckPasses(s)
    \/ LoadUserFails(s) \/ LoadUser(s)
    \/ Rotate(s) \/ RotateFails(s)
    \/ Answered(s) \/ AnswerLost(s) \/ Me(s)
    \/ Login(s) \/ LoginFails(s)
    \/ LogoutFails(s) \/ Logout(s) \/ LogoutOnly(s) \/ Bye(s)

Next ==
    \/ \E b \in Tabs : Reload(b)
    \/ \E s \in Slots, b \in Tabs : Page(s, b)
    \/ \E s \in Slots : Step(s)
    \/ Tick

Spec == Init /\ [][Next]_vars

-----------------------------------------------------------------------------
(***************************************************************************)
(* Properties                                                              *)
(***************************************************************************)

\* Every token, fetch and tab keeps its type; a token descends from an older one.
TypeOK ==
    /\ issued \in 0..MaxTokens
    /\ left \in [Token -> 0..RefreshLife]
    /\ blacklist \in [Token -> 0..RefreshLife]
    /\ login_of \in [Token -> Token]
    /\ \A t \in Token : login_of[t] <= t
    /\ cookie \in 0..issued
    /\ tab \in [Tabs -> {"out", "loading", "in"}]
    /\ access \in [Tabs -> 0..AccessLife]
    /\ pc \in [Slots -> PCs]
    /\ of \in [Slots -> Tabs \cup {NoTab}]
    /\ \A s \in Slots : pc[s] # "idle" => of[s] \in Tabs
    /\ kind \in [Slots -> {"load", "call", "login", "logout"}]
    /\ sent \in [Slots -> 0..issued]
    /\ new \in [Slots -> 0..issued]
    /\ fresh \in [Slots -> 0..AccessLife]
    /\ orphan \in [Slots -> BOOLEAN]
    /\ spent \in [Token -> BOOLEAN]
    /\ loose \in [Token -> BOOLEAN]
    /\ quit \in [Token -> BOOLEAN]
    /\ ended \in [Token -> BOOLEAN]
    /\ dropped \in [Token -> BOOLEAN]

\* A token that refresh or logout blacklisted stays in the blacklist until its
\* last second, and no key of the blacklist outlives its token: the time to live
\* is what the token has left without the fraction of a second (auth.py:222).
BlacklistCoversToken ==
    \A t \in Token :
        /\ spent[t] => blacklist[t] > 0 \/ left[t] < Second
        /\ blacklist[t] <= left[t]

\* Rotation leaves one token of a login that opens a session, apart from one
\* that is being replaced, unless two refreshes of the login overlapped, one
\* failed between creating a token and handing it over, or a token was used in
\* its last second: lookup, creation and blacklisting are three steps (auth.py:195).
OneLiveToken ==
    \A t1, t2 \in Token :
        /\ login_of[t1] = login_of[t2] /\ ~loose[login_of[t1]]
        /\ Live(t1) /\ Live(t2)
        /\ \A s \in Slots : pc[s] = "rotate" => sent[s] \notin {t1, t2}
        => t1 = t2

\* Once a logout has blacklisted the last token of a login, no token opens a
\* session of that login again, with the same exceptions: a refresh that is under
\* way during the logout makes a token the logout does not know of.
LogoutEndsLogin ==
    \A f \in Token :
        ended[f] /\ ~loose[f] => \A t \in Token : login_of[t] = f => ~Live(t)

\* A tab is not refused a new access token as logged out ("로그아웃된 토큰입니다.")
\* unless the user logged out, or the refreshes of several fetches overlapped or
\* an answer was lost: fetchJSON refreshes for itself (api.ts:110), whatever the
\* other fetches and tabs with the same cookie do.
RefusedOnlyAfterLogout ==
    \A f \in Token : dropped[f] => quit[f] \/ loose[f]
=============================================================================

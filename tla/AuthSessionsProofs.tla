------------------------- MODULE AuthSessionsProofs -------------------------
(***************************************************************************)
(* TLAPS proofs about AuthSessions, for any tabs, fetches, life times,     *)
(* bound and faults.                                                       *)
(*                                                                         *)
(* Most steps only give a fetch up, or begin one.  So each step is first   *)
(* put down to what it does to the tokens, the cookie and the fetches      *)
(* (StepEffects), and the invariant is proved for the effects.             *)
(***************************************************************************)
EXTENDS AuthSessions, TLAPS

Busy == {"check", "load_user", "rotate", "answer"}
Replacing == {"rotate", "answer"}

-----------------------------------------------------------------------------
(***************************************************************************)
(* The inductive invariant                                                 *)
(***************************************************************************)

\* Nothing has happened to a token that is not there yet.
Untouched ==
    \A t \in Token : t > issued =>
        left[t] = 0 /\ blacklist[t] = 0 /\ ~spent[t] /\ ~ended[t] /\ login_of[t] = t

\* A time to live misses at most the last fraction of a second of its token.
BlacklistExact ==
    \A t \in Token : /\ blacklist[t] <= left[t]
                     /\ spent[t] => left[t] - 1 <= blacklist[t]
                     /\ blacklist[t] > 0 => spent[t]

\* Only a fetch that carries a token gets past the check; a login carries none.
CarriesToken ==
    \A s \in Slots : /\ pc[s] \in {"load_user", "rotate"} => sent[s] \in Token
                     /\ pc[s] = "login" => sent[s] = NoToken

\* The token a fetch brings is known to nobody else, and of the same login.
NewIsUnknown ==
    \A s \in Slots : pc[s] \in Replacing =>
        /\ new[s] \in Token /\ ~spent[new[s]] /\ cookie # new[s]
        /\ \A r \in Slots : sent[r] # new[s]
        /\ \A r \in Slots : r # s /\ pc[r] \in Replacing => new[r] # new[s]
        /\ sent[s] # NoToken => login_of[sent[s]] = login_of[new[s]]

\* At most one refresh of a login is under way.
OneRefresh ==
    \A f \in Token : ~loose[f] => \A s, r \in Refreshing(f) : s = r

\* The rotation of t is under way.
BeingReplaced(t) == \E s \in Slots : pc[s] = "rotate" /\ sent[s] = t

\* A token that is not the newest of its login is used up, or about to be.
OlderAreSpent ==
    \A t, u \in Token :
        t < u /\ u <= issued /\ login_of[t] = login_of[u] /\ ~loose[login_of[t]]
            => spent[t] \/ left[t] = 0 \/ BeingReplaced(t)

\* The token a new one is made for is the newest of its login.
NewestIsReplaced ==
    \A s \in Slots : pc[s] = "load_user" /\ ~loose[login_of[sent[s]]] =>
        \A u \in Token :
            u <= issued /\ login_of[u] = login_of[sent[s]] => u <= sent[s]

\* After the logout of a login its tokens are used up, and none is coming.
EndedIsOver ==
    \A f \in Token : ended[f] /\ ~loose[f] =>
        /\ \A t \in Token : t <= issued /\ login_of[t] = f => spent[t] \/ left[t] = 0
        /\ \A s \in Slots : pc[s] = "load_user" => login_of[sent[s]] # f

\* A used token is held only until the answer with the new one is there.
SpentIsNotHeld ==
    \A t \in Token : spent[t] /\ ~quit[login_of[t]] /\ ~loose[login_of[t]] =>
        /\ cookie = t => \E s \in Slots : pc[s] = "answer" /\ sent[s] = t
        /\ \A s \in Slots : pc[s] = "check" => sent[s] # t

\* The inductive invariant, but for the history of refusals.
CoreInv ==
    /\ TypeOK /\ Untouched /\ BlacklistExact /\ CarriesToken /\ NewIsUnknown
    /\ OneRefresh /\ OlderAreSpent /\ NewestIsReplaced /\ EndedIsOver /\ SpentIsNotHeld

-----------------------------------------------------------------------------
(***************************************************************************)
(* Arithmetic and types                                                    *)
(***************************************************************************)

LEMMA WholeSecondsFacts ==
    ASSUME NEW n \in Nat
    PROVE  /\ WholeSeconds(n) \in Nat
           /\ n - 1 <= WholeSeconds(n)
           /\ WholeSeconds(n) <= n
           /\ n >= Second => WholeSeconds(n) > 0
           /\ WholeSeconds(n) = 0 => n \in 0..(Second - 1)
  BY DEF WholeSeconds, Second

LEMMA InitTypes == Init => TypeOK
  BY SessionAssumption DEF Init, TypeOK, PCs, Token, NoToken, NoTab

TokenTypes ==
    /\ issued \in 0..MaxTokens
    /\ left \in [Token -> 0..RefreshLife]
    /\ blacklist \in [Token -> 0..RefreshLife]
    /\ login_of \in [Token -> Token]
    /\ \A t \in Token : login_of[t] <= t

BrowserTypes ==
    /\ cookie \in 0..issued
    /\ tab \in [Tabs -> {"out", "loading", "in"}]
    /\ access \in [Tabs -> 0..AccessLife]

SlotTypes ==
    /\ pc \in [Slots -> PCs]
    /\ of \in [Slots -> Tabs \cup {NoTab}]
    /\ \A s \in Slots : pc[s] # "idle" => of[s] \in Tabs
    /\ kind \in [Slots -> {"load", "call", "login", "logout"}]
    /\ sent \in [Slots -> 0..issued]
    /\ new \in [Slots -> 0..issued]
    /\ fresh \in [Slots -> 0..AccessLife]
    /\ orphan \in [Slots -> BOOLEAN]

HistoryTypes ==
    /\ spent \in [Token -> BOOLEAN]
    /\ loose \in [Token -> BOOLEAN]
    /\ quit \in [Token -> BOOLEAN]
    /\ ended \in [Token -> BOOLEAN]
    /\ dropped \in [Token -> BOOLEAN]

LEMMA TypePartsNext ==
    ASSUME TokenTypes', BrowserTypes', SlotTypes', HistoryTypes'
    PROVE  TypeOK'
  BY DEF TypeOK, TokenTypes, BrowserTypes, SlotTypes, HistoryTypes

LEMMA TokenRange ==
    ASSUME TypeOK
    PROVE  /\ issued \in Nat /\ MaxTokens \in Nat /\ issued <= MaxTokens
           /\ \A t \in 0..issued : t = NoToken \/ t \in Token
           /\ \A t \in Token : t \in Nat /\ t # NoToken
  BY SessionAssumption DEF TypeOK, Token, NoToken

LEMMA FreeTypes ==
    ASSUME TypeOK, NEW s \in Slots, Free(s), issued' = issued
    PROVE  SlotTypes'
  BY TokenRange, SessionAssumption DEF Free, TypeOK, SlotTypes, PCs, NoToken

LEMMA RefreshFailedTypes ==
    ASSUME TypeOK, NEW s \in Slots, pc[s] # "idle", RefreshFailed(s), issued' = issued
    PROVE  BrowserTypes' /\ SlotTypes'
  <1>1. CASE orphan[s] /\ Free(s) /\ UNCHANGED browser
    BY <1>1, FreeTypes DEF browser, TypeOK, BrowserTypes
  <1>2. CASE /\ Free(s)
             /\ tab' = [tab EXCEPT ![of[s]] = "out"]
             /\ UNCHANGED <<cookie, access>>
    BY <1>2, FreeTypes DEF TypeOK, BrowserTypes
  <1>3. CASE AuthFailure(s)
    <2>1. of[s] \in Tabs /\ fresh' = [fresh EXCEPT ![s] = access[of[s]]]
          /\ access[of[s]] \in 0..AccessLife
      BY <1>3 DEF AuthFailure, TypeOK
    <2>2. orphan' \in [Slots -> BOOLEAN]
      BY <1>3 DEF AuthFailure, Abandon, TypeOK
    <2>3. BrowserTypes'
      BY <1>3, <2>1, SessionAssumption DEF AuthFailure, Navigate, TypeOK, BrowserTypes
    <2>4. fresh' \in [Slots -> 0..AccessLife]
      BY <2>1 DEF TypeOK
    <2>5. sent' \in [Slots -> 0..issued'] /\ new' \in [Slots -> 0..issued']
      BY <1>3, TokenRange DEF AuthFailure, TypeOK, NoToken
    <2>6. /\ pc' \in [Slots -> PCs]
          /\ \A r \in Slots : pc'[r] # "idle" => of'[r] \in Tabs
          /\ kind' \in [Slots -> {"load", "call", "login", "logout"}]
          /\ of' \in [Slots -> Tabs \cup {NoTab}]
      BY <1>3, <2>1 DEF AuthFailure, TypeOK, PCs
    <2> QED
      BY <2>2, <2>3, <2>4, <2>5, <2>6 DEF SlotTypes
  <1> QED
    BY <1>1, <1>2, <1>3 DEF RefreshFailed

LEMMA SendTypes ==
    ASSUME TypeOK, NEW s \in Slots, NEW b \in Tabs, issued' = issued,
           NEW k \in {"load", "call", "login", "logout"}, NEW label \in PCs,
           NEW token \in 0..issued, NEW ttl \in 0..AccessLife,
           Send(s, b, k, label, token, ttl)
    PROVE  SlotTypes'
  BY DEF Send, TypeOK, SlotTypes

LEMMA UnchangedTypes ==
    ASSUME TypeOK
    PROVE  /\ UNCHANGED tokens => TokenTypes' /\ issued' = issued
           /\ issued' = issued /\ UNCHANGED browser => BrowserTypes'
           /\ UNCHANGED history => HistoryTypes'
  BY DEF TypeOK, tokens, browser, history, TokenTypes, BrowserTypes, HistoryTypes

LEMMA CreateTypes ==
    ASSUME TypeOK, NEW s \in Slots, issued < MaxTokens, NEW root \in Token,
           root <= issued + 1, CreateTokens(s, issued + 1, root),
           pc' = [pc EXCEPT ![s] = "rotate"] \/ pc' = [pc EXCEPT ![s] = "answer"],
           pc[s] # "idle", UNCHANGED <<of, kind, sent, orphan>>
    PROVE  TokenTypes' /\ SlotTypes'
  <1>1. /\ issued' = issued + 1 /\ issued' \in 0..MaxTokens /\ issued' \in Token
        /\ RefreshLife \in 0..RefreshLife /\ AccessLife \in 0..AccessLife
    BY TokenRange, SessionAssumption DEF CreateTokens, Token
  <1>2. TokenTypes'
    BY <1>1 DEF CreateTokens, TypeOK, TokenTypes
  <1>3. 0..issued \subseteq 0..issued' /\ issued' \in 0..issued'
    BY <1>1, TokenRange
  <1>4. sent' \in [Slots -> 0..issued'] /\ new' \in [Slots -> 0..issued']
    BY <1>1, <1>3 DEF CreateTokens, TypeOK
  <1> QED
    BY <1>1, <1>2, <1>4 DEF CreateTokens, TypeOK, SlotTypes, PCs

LEMMA BlacklistTypes ==
    ASSUME TypeOK, NEW t \in Token, Blacklist(t)
    PROVE  /\ blacklist' \in [Token -> 0..RefreshLife]
           /\ spent' \in [Token -> BOOLEAN]
  <1>1. left[t] \in Nat /\ WholeSeconds(left[t]) \in 0..RefreshLife
    BY WholeSecondsFacts, SessionAssumption DEF TypeOK
  <1> QED
    BY <1>1 DEF Blacklist, TypeOK

LEMMA LoginOfToken ==
    ASSUME TypeOK, NEW t \in 0..issued, t # NoToken
    PROVE  t \in Token /\ login_of[t] \in Token /\ login_of[t] <= issued
  <1>1. t \in Token /\ t <= issued
    BY TokenRange
  <1>2. login_of[t] \in Token /\ login_of[t] <= t
    BY <1>1 DEF TypeOK
  <1>3. login_of[t] \in Nat /\ t \in Nat /\ issued \in Nat
    BY <1>1, <1>2, TokenRange
  <1> QED
    BY <1>1, <1>2, <1>3

LEMMA PageTypes ==
    ASSUME TypeOK, NEW s \in Slots, NEW b \in Tabs, Page(s, b)
    PROVE  TypeOK'
  <1> USE DEF PCs, NoToken
  <1>0. cookie \in 0..issued /\ 0 \in 0..issued /\ 0 \in 0..AccessLife
        /\ access[b] \in 0..AccessLife
    BY TokenRange, SessionAssumption DEF TypeOK
  <1>1. CASE BeginLoad(s, b)
    <2>1. UNCHANGED <<tokens, browser, spent, quit, ended, dropped>> /\ SlotTypes'
      BY <1>0, <1>1, SendTypes DEF BeginLoad, tokens
    <2>2. loose' \in [Token -> BOOLEAN]
      BY <1>1 DEF BeginLoad, NoteOverlap, TypeOK
    <2>3. HistoryTypes'
      BY <2>1, <2>2 DEF HistoryTypes, TypeOK
    <2> QED
      BY <2>1, <2>3, UnchangedTypes, TypePartsNext
  <1>2. CASE BeginCall(s, b)
    <2>1. UNCHANGED <<tokens, browser, history>> /\ SlotTypes'
      BY <1>0, <1>2, SendTypes DEF BeginCall, tokens
    <2> QED
      BY <2>1, UnchangedTypes, TypePartsNext
  <1>3. CASE BeginLogin(s, b)
    <2>1. UNCHANGED <<tokens, browser, history>> /\ SlotTypes'
      BY <1>0, <1>3, SendTypes DEF BeginLogin, tokens
    <2> QED
      BY <2>1, UnchangedTypes, TypePartsNext
  <1>4. CASE BeginLogout(s, b)
    <2>1. UNCHANGED <<tokens, browser, history>> /\ SlotTypes'
      BY <1>0, <1>4, SendTypes DEF BeginLogout, tokens
    <2> QED
      BY <2>1, UnchangedTypes, TypePartsNext
  <1> QED
    BY <1>1, <1>2, <1>3, <1>4 DEF Page

\* The steps that end in RefreshFailed.
LEMMA FailureTypes ==
    ASSUME TypeOK, NEW s \in Slots,
           CheckFails(s) \/ CheckRefuses(s) \/ LoadUserFails(s) \/ RotateFails(s)
             \/ AnswerLost(s)
    PROVE  TypeOK'
  <1>1. UNCHANGED tokens /\ pc[s] # "idle"
    BY DEF CheckFails, CheckRefuses, LoadUserFails, RotateFails, AnswerLost
  <1>2. RefreshFailed(s) \/ (Free(s) /\ UNCHANGED browser)
    BY DEF CheckFails, CheckRefuses, LoadUserFails, RotateFails, AnswerLost
  <1>3. issued' = issued /\ TokenTypes'
    BY <1>1, UnchangedTypes
  <1>4. BrowserTypes' /\ SlotTypes'
    BY <1>1, <1>2, <1>3, FreeTypes, RefreshFailedTypes, UnchangedTypes
  <1>5. loose' \in [Token -> BOOLEAN] /\ dropped' \in [Token -> BOOLEAN]
        /\ UNCHANGED <<spent, quit, ended>>
    <2>1. CASE CheckFails(s) \/ LoadUserFails(s)
      BY <2>1 DEF CheckFails, LoadUserFails, history, TypeOK
    <2>2. CASE CheckRefuses(s)
      BY <2>2 DEF CheckRefuses, TypeOK
    <2>3. CASE RotateFails(s)
      BY <2>3 DEF RotateFails, TypeOK
    <2>4. CASE AnswerLost(s)
      BY <2>4 DEF AnswerLost, TypeOK
    <2> QED
      BY <2>1, <2>2, <2>3, <2>4
  <1>6. HistoryTypes'
    BY <1>5 DEF HistoryTypes, TypeOK
  <1> QED
    BY <1>3, <1>4, <1>6, TypePartsNext

\* The steps that leave the fetch where it is in the browser, or end it.
LEMMA GotoTypes ==
    ASSUME TypeOK, NEW s \in Slots, NEW label \in PCs, pc[s] # "idle",
           Goto(s, label), UNCHANGED <<issued, of, kind, new, fresh, orphan>>,
           sent' \in [Slots -> 0..issued]
    PROVE  SlotTypes'
  BY DEF Goto, TypeOK, SlotTypes

LEMMA SignOutTypes ==
    ASSUME TypeOK, NEW s \in Slots, pc[s] # "idle", SignOut(s), issued' = issued,
           cookie' \in 0..issued
    PROVE  BrowserTypes' /\ SlotTypes'
  <1>1. SlotTypes'
    BY FreeTypes DEF SignOut
  <1>2. of[s] \in Tabs /\ 0 \in 0..AccessLife
    BY SessionAssumption DEF TypeOK
  <1>3. BrowserTypes'
    BY <1>2 DEF SignOut, BrowserTypes, TypeOK
  <1> QED
    BY <1>1, <1>3

LEMMA StepTypes ==
    ASSUME TypeOK, CarriesToken, NEW s \in Slots, Step(s)
    PROVE  TypeOK'
  <1>0. 0 \in 0..issued /\ cookie \in 0..issued
    BY TokenRange DEF TypeOK
  <1>1. CASE CallRefused(s)
    <2>1. UNCHANGED <<tokens, browser>> /\ sent' \in [Slots -> 0..issued]
      BY <1>0, <1>1 DEF CallRefused, TypeOK
    <2>2. SlotTypes'
      BY <1>1, <2>1, GotoTypes DEF CallRefused, tokens, PCs
    <2>3. HistoryTypes'
      BY <1>1 DEF CallRefused, NoteOverlap, TypeOK, HistoryTypes
    <2> QED
      BY <2>1, <2>2, <2>3, UnchangedTypes, TypePartsNext
  <1>2. CASE CallAbandoned(s) \/ LoginFails(s)
    <2>1. UNCHANGED <<tokens, browser, history>> /\ Free(s)
      BY <1>2 DEF CallAbandoned, LoginFails
    <2> QED
      BY <2>1, UnchangedTypes, FreeTypes, TypePartsNext
  <1>3. CASE CheckFails(s) \/ CheckRefuses(s) \/ LoadUserFails(s) \/ RotateFails(s)
               \/ AnswerLost(s)
    BY <1>3, FailureTypes
  <1>4. CASE CheckPasses(s)
    <2>1. UNCHANGED <<tokens, browser, sent>> /\ sent' \in [Slots -> 0..issued]
      BY <1>4 DEF CheckPasses, TypeOK
    <2>2. SlotTypes'
      BY <1>4, <2>1, GotoTypes DEF CheckPasses, tokens, PCs
    <2>3. HistoryTypes'
      BY <1>4 DEF CheckPasses, TypeOK, HistoryTypes
    <2> QED
      BY <2>1, <2>2, <2>3, UnchangedTypes, TypePartsNext
  <1>5. CASE LoadUser(s)
    <2>0. sent[s] \in Token
      BY <1>5 DEF CarriesToken, LoadUser
    <2>1. sent[s] \in Token /\ login_of[sent[s]] \in Token /\ login_of[sent[s]] <= issued
      BY <2>0, LoginOfToken, TokenRange DEF TypeOK
    <2>2. login_of[sent[s]] <= issued + 1
      BY <2>1, TokenRange
    <2>3. TokenTypes' /\ SlotTypes'
      BY <1>5, <2>1, <2>2, CreateTypes DEF LoadUser, Goto
    <2>4. UNCHANGED <<browser, history>> /\ issued' = issued + 1
      BY <1>5 DEF LoadUser, CreateTokens
    <2>5. BrowserTypes'
      BY <2>4, TokenRange DEF browser, BrowserTypes, TypeOK
    <2> QED
      BY <2>3, <2>4, <2>5, UnchangedTypes, TypePartsNext
  <1>6. CASE Login(s)
    <2>1. issued + 1 \in Token /\ issued + 1 <= issued + 1
      BY <1>6, TokenRange DEF Login, Token
    <2>2. TokenTypes' /\ SlotTypes'
      BY <1>6, <2>1, CreateTypes DEF Login, Goto
    <2>3. UNCHANGED <<browser, history>> /\ issued' = issued + 1
      BY <1>6 DEF Login, CreateTokens
    <2>4. BrowserTypes'
      BY <2>3, TokenRange DEF browser, BrowserTypes, TypeOK
    <2> QED
      BY <2>2, <2>3, <2>4, UnchangedTypes, TypePartsNext
  <1>7. CASE Rotate(s)
    <2>0. sent[s] \in Token
      BY <1>7 DEF CarriesToken, Rotate
    <2>1. /\ UNCHANGED <<issued, left, login_of, browser, sent>>
          /\ blacklist' \in [Token -> 0..RefreshLife]
          /\ spent' \in [Token -> BOOLEAN]
      BY <1>7, <2>0, BlacklistTypes DEF Rotate
    <2>2. SlotTypes'
      BY <1>7, <2>1, GotoTypes DEF Rotate, PCs, TypeOK
    <2>3. HistoryTypes'
      BY <1>7, <2>1 DEF Rotate, TypeOK, HistoryTypes
    <2>4. TokenTypes'
      BY <2>1 DEF TypeOK, TokenTypes
    <2> QED
      BY <2>1, <2>2, <2>3, <2>4, UnchangedTypes, TypePartsNext
  <1>8. CASE Answered(s)
    <2>1. UNCHANGED <<tokens, history>> /\ issued' = issued /\ pc[s] # "idle"
      BY <1>8 DEF Answered, tokens
    <2>2. of[s] \in Tabs /\ fresh[s] \in 0..AccessLife /\ new[s] \in 0..issued
      BY <2>1 DEF TypeOK
    <2>3. BrowserTypes'
      BY <1>8, <2>1, <2>2 DEF Answered, BrowserTypes, TypeOK
    <2>4. CASE Free(s)
      BY <2>1, <2>3, <2>4, FreeTypes, UnchangedTypes, TypePartsNext
    <2>5. CASE /\ Goto(s, "me")
               /\ sent' = [sent EXCEPT ![s] = NoToken]
               /\ new' = [new EXCEPT ![s] = NoToken]
               /\ UNCHANGED <<of, kind, fresh, orphan>>
      <3>1. SlotTypes'
        BY <1>0, <2>1, <2>5 DEF Goto, TypeOK, SlotTypes, PCs, NoToken
      <3> QED
        BY <2>1, <2>3, <3>1, UnchangedTypes, TypePartsNext
    <2> QED
      BY <1>8, <2>4, <2>5 DEF Answered
  <1>9. CASE Me(s)
    <2>1. UNCHANGED <<tokens, history, cookie, access>> /\ Free(s) /\ pc[s] # "idle"
      BY <1>9 DEF Me
    <2>2. of[s] \in Tabs
      BY <2>1 DEF TypeOK
    <2>3. tab' \in [Tabs -> {"out", "loading", "in"}]
      BY <1>9, <2>2 DEF Me, TypeOK
    <2>4. BrowserTypes'
      BY <2>1, <2>3, UnchangedTypes DEF BrowserTypes, TypeOK
    <2> QED
      BY <2>1, <2>4, UnchangedTypes, FreeTypes, TypePartsNext
  <1>10. CASE LogoutFails(s) \/ Bye(s)
    <2>1. /\ UNCHANGED <<tokens, history>> /\ SignOut(s) /\ pc[s] # "idle"
          /\ cookie' \in {cookie, NoToken}
      BY <1>10 DEF LogoutFails, Bye
    <2>2. cookie' \in 0..issued
      BY <1>0, <2>1 DEF NoToken
    <2> QED
      BY <2>1, <2>2, SignOutTypes, UnchangedTypes, TypePartsNext
  <1>11. CASE Logout(s)
    <2>0. sent[s] \in Token
      BY <1>11, TokenRange DEF Logout, Valid, TypeOK
    <2>1. /\ UNCHANGED <<issued, left, login_of, browser, sent>>
          /\ blacklist' \in [Token -> 0..RefreshLife]
          /\ spent' \in [Token -> BOOLEAN]
      BY <1>11, <2>0, BlacklistTypes DEF Logout
    <2>2. SlotTypes'
      BY <1>11, <2>1, GotoTypes DEF Logout, PCs, TypeOK
    <2>3. quit' \in [Token -> BOOLEAN] /\ ended' \in [Token -> BOOLEAN]
          /\ UNCHANGED <<loose, dropped>>
      BY <1>11 DEF Logout, TypeOK
    <2>4. HistoryTypes'
      BY <2>1, <2>3 DEF TypeOK, HistoryTypes
    <2>5. TokenTypes'
      BY <2>1 DEF TypeOK, TokenTypes
    <2> QED
      BY <2>1, <2>2, <2>4, <2>5, UnchangedTypes, TypePartsNext
  <1>12. CASE LogoutOnly(s)
    <2>1. UNCHANGED <<tokens, browser, history, sent>> /\ sent' \in [Slots -> 0..issued]
      BY <1>12 DEF LogoutOnly, TypeOK
    <2>2. SlotTypes'
      BY <1>12, <2>1, GotoTypes DEF LogoutOnly, tokens, PCs
    <2> QED
      BY <2>1, <2>2, UnchangedTypes, TypePartsNext
  <1> QED
    BY <1>1, <1>2, <1>3, <1>4, <1>5, <1>6, <1>7, <1>8, <1>9, <1>10, <1>11, <1>12 DEF Step

LEMMA TickTypes ==
    ASSUME TypeOK, Tick
    PROVE  TypeOK'
  <1>1. \A n \in Nat, m \in Nat : n \in 0..m => Down(n) \in 0..m
    BY DEF Down
  <1>2. AccessLife \in Nat /\ RefreshLife \in Nat
    BY SessionAssumption
  <1>3. /\ left' \in [Token -> 0..RefreshLife] /\ blacklist' \in [Token -> 0..RefreshLife]
        /\ access' \in [Tabs -> 0..AccessLife] /\ fresh' \in [Slots -> 0..AccessLife]
    BY <1>1, <1>2 DEF Tick, TypeOK
  <1> QED
    BY <1>3 DEF Tick, TypeOK, history

LEMMA ReloadTypes ==
    ASSUME TypeOK, NEW b \in Tabs, Reload(b)
    PROVE  TypeOK'
  <1>1. orphan' \in [Slots -> BOOLEAN]
    BY DEF Reload, Abandon, TypeOK
  <1>2. /\ tab' \in [Tabs -> {"out", "loading", "in"}]
        /\ access' \in [Tabs -> 0..AccessLife]
    BY SessionAssumption DEF Reload, Navigate, TypeOK
  <1> QED
    BY <1>1, <1>2 DEF Reload, TypeOK, tokens, history

LEMMA TypeStep == TypeOK /\ CarriesToken /\ [Next]_vars => TypeOK'
  <1> SUFFICES ASSUME TypeOK, CarriesToken, [Next]_vars PROVE TypeOK'
    OBVIOUS
  <1>1. CASE UNCHANGED vars
    BY <1>1 DEF vars, tokens, browser, slots, history, TypeOK
  <1> QED
    BY <1>1, ReloadTypes, PageTypes, StepTypes, TickTypes DEF Next

-----------------------------------------------------------------------------
(***************************************************************************)
(* What a step does to the tokens, the cookie and the fetches              *)
(***************************************************************************)

Core == <<tokens, cookie, pc, sent, new, spent, loose, quit, ended>>

SetSlot(s, label, token, brought) ==
    /\ pc' = [pc EXCEPT ![s] = label]
    /\ sent' = [sent EXCEPT ![s] = token]
    /\ new' = [new EXCEPT ![s] = brought]

LooseGrows == \A f \in Token : loose[f] => loose'[f]

\* Fetch s is no refresh, or ends as one; if it had made a token, the login is loose.
GivesUp(s) ==
    /\ \E label \in PCs \ Busy, token \in {NoToken, cookie, sent[s]},
          brought \in {NoToken, new[s]} :
             SetSlot(s, label, token, brought) /\ (label = "login" => token = NoToken)
    /\ cookie' \in {cookie, NoToken}
    /\ LooseGrows
    /\ pc[s] = "rotate" => loose'[login_of[sent[s]]]
    /\ pc[s] = "answer" => loose'[login_of[new[s]]]
    /\ UNCHANGED <<tokens, spent, quit, ended>>

\* Fetch s asks for a new access token.
Asks(s) ==
    /\ pc[s] \notin Busy
    /\ SetSlot(s, "check", cookie, new[s])
    /\ NoteOverlap
    /\ UNCHANGED <<tokens, cookie, spent, quit, ended>>

LEMMA FreeSets ==
    ASSUME TypeOK, NEW s \in Slots, Free(s)
    PROVE  SetSlot(s, "idle", NoToken, NoToken)
  BY DEF Free, SetSlot

LEMMA RefreshFailedSets ==
    ASSUME TypeOK, NEW s \in Slots, RefreshFailed(s)
    PROVE  /\ \E label \in PCs \ Busy, token \in {NoToken, cookie} :
                 SetSlot(s, label, token, NoToken) /\ label # "login"
           /\ cookie' = cookie
  <1>1. CASE Free(s) /\ cookie' = cookie
    BY <1>1, FreeSets DEF PCs, Busy
  <1>2. CASE AuthFailure(s)
    <2>1. SetSlot(s, "logout", cookie, NoToken) /\ cookie' = cookie
      BY <1>2 DEF AuthFailure, SetSlot
    <2> QED
      BY <2>1 DEF PCs, Busy
  <1> QED
    BY <1>1, <1>2 DEF RefreshFailed, browser

LEMMA GotoSets ==
    ASSUME TypeOK, NEW s \in Slots, NEW label, Goto(s, label), UNCHANGED <<sent, new>>
    PROVE  SetSlot(s, label, sent[s], new[s])
  BY DEF Goto, SetSlot, TypeOK

LEMMA LooseKept == UNCHANGED loose => LooseGrows
  BY DEF LooseGrows

LEMMA PageEffects ==
    ASSUME TypeOK, NEW s \in Slots, NEW b \in Tabs, Page(s, b)
    PROVE  GivesUp(s) \/ Asks(s)
  <1>1. CASE BeginLoad(s, b)
    <2>1. SetSlot(s, "check", cookie, new[s]) /\ pc[s] \notin Busy
      BY <1>1 DEF BeginLoad, Send, SetSlot, Busy, TypeOK
    <2> QED
      BY <1>1, <2>1 DEF BeginLoad, Asks, browser
  <1>2. ASSUME BeginCall(s, b) \/ BeginLogin(s, b) \/ BeginLogout(s, b)
        PROVE  GivesUp(s)
    <2>1. \E label \in PCs \ Busy, token \in {NoToken, cookie} :
             SetSlot(s, label, token, new[s]) /\ (label = "login" => token = NoToken)
      <3>1. CASE BeginCall(s, b)
        <4>1. SetSlot(s, "refused", NoToken, new[s])
          BY <3>1 DEF BeginCall, Send, SetSlot, TypeOK
        <4> QED
          BY <4>1 DEF PCs, Busy
      <3>2. CASE BeginLogin(s, b)
        <4>1. SetSlot(s, "login", NoToken, new[s])
          BY <3>2 DEF BeginLogin, Send, SetSlot, TypeOK
        <4> QED
          BY <4>1 DEF PCs, Busy
      <3>3. CASE BeginLogout(s, b)
        <4>1. SetSlot(s, "logout", cookie, new[s])
          BY <3>3 DEF BeginLogout, Send, SetSlot, TypeOK
        <4> QED
          BY <4>1 DEF PCs, Busy
      <3> QED
        BY <1>2, <3>1, <3>2, <3>3
    <2>2. pc[s] = "idle" /\ UNCHANGED <<tokens, cookie, spent, loose, quit, ended>>
      BY <1>2 DEF BeginCall, BeginLogin, BeginLogout, Send, browser, history
    <2> QED
      BY <2>1, <2>2, LooseKept DEF GivesUp
  <1> QED
    BY <1>1, <1>2 DEF Page

LEMMA FailureEffects ==
    ASSUME TypeOK, CarriesToken, NewIsUnknown, NEW s \in Slots,
           CheckFails(s) \/ CheckRefuses(s) \/ LoadUserFails(s) \/ RotateFails(s)
             \/ AnswerLost(s)
    PROVE  GivesUp(s)
  <1>1. /\ \E label \in PCs \ Busy, token \in {NoToken, cookie} :
              SetSlot(s, label, token, NoToken) /\ label # "login"
        /\ cookie' = cookie
    <2>1. RefreshFailed(s) \/ (Free(s) /\ UNCHANGED browser)
      BY DEF CheckFails, CheckRefuses, LoadUserFails, RotateFails, AnswerLost
    <2>2. CASE Free(s) /\ UNCHANGED browser
      BY <2>2, FreeSets DEF browser, PCs, Busy
    <2> QED
      BY <2>1, <2>2, RefreshFailedSets
  <1>2. /\ LooseGrows
        /\ pc[s] = "rotate" => loose'[login_of[sent[s]]]
        /\ pc[s] = "answer" => loose'[login_of[new[s]]]
        /\ UNCHANGED <<tokens, spent, quit, ended>>
    <2>1. CASE CheckFails(s) \/ CheckRefuses(s) \/ LoadUserFails(s)
      BY <2>1, LooseKept DEF CheckFails, CheckRefuses, LoadUserFails, history
    <2>2. CASE RotateFails(s) /\ sent[s] \in Token
      BY <2>2 DEF RotateFails, LooseGrows, TypeOK
    <2>3. CASE AnswerLost(s) /\ new[s] \in Token
      BY <2>3 DEF AnswerLost, LooseGrows, TypeOK
    <2>4. RotateFails(s) => sent[s] \in Token
      BY DEF CarriesToken, RotateFails
    <2>5. AnswerLost(s) => new[s] \in Token
      BY DEF NewIsUnknown, AnswerLost, Replacing
    <2> QED
      BY <2>1, <2>2, <2>3, <2>4, <2>5
  <1> QED
    BY <1>1, <1>2 DEF GivesUp

LEMMA StepEffects ==
    ASSUME TypeOK, CarriesToken, NewIsUnknown, NEW s \in Slots, Step(s)
    PROVE  \/ GivesUp(s) \/ Asks(s) \/ CheckPasses(s) \/ LoadUser(s) \/ Rotate(s)
           \/ Answered(s) \/ Login(s) \/ Logout(s)
  <1>1. CASE CallRefused(s)
    <2>1. SetSlot(s, "check", cookie, new[s]) /\ pc[s] \notin Busy
      BY <1>1 DEF CallRefused, Goto, SetSlot, Busy, TypeOK
    <2> QED
      BY <1>1, <2>1 DEF CallRefused, Asks, browser
  <1>2. CASE CallAbandoned(s) \/ LoginFails(s) \/ Me(s) \/ LogoutFails(s) \/ Bye(s)
    <2>1. SetSlot(s, "idle", NoToken, NoToken)
      BY <1>2, FreeSets DEF CallAbandoned, LoginFails, Me, LogoutFails, Bye, SignOut
    <2>2. cookie' \in {cookie, NoToken} /\ pc[s] \notin Busy
      BY <1>2 DEF CallAbandoned, LoginFails, Me, LogoutFails, Bye, browser, Busy
    <2>3. UNCHANGED <<tokens, spent, loose, quit, ended>>
      BY <1>2 DEF CallAbandoned, LoginFails, Me, LogoutFails, Bye, history
    <2> QED
      BY <2>1, <2>2, <2>3, LooseKept DEF GivesUp, PCs, Busy
  <1>3. CASE LogoutOnly(s)
    <2>1. SetSlot(s, "bye", sent[s], new[s])
      BY <1>3, GotoSets DEF LogoutOnly
    <2>2. UNCHANGED <<tokens, cookie, spent, loose, quit, ended>> /\ pc[s] \notin Busy
      BY <1>3 DEF LogoutOnly, browser, history, Busy
    <2> QED
      BY <2>1, <2>2, LooseKept DEF GivesUp, PCs, Busy
  <1>4. CASE CheckFails(s) \/ CheckRefuses(s) \/ LoadUserFails(s) \/ RotateFails(s)
               \/ AnswerLost(s)
    BY <1>4, FailureEffects
  <1> QED
    BY <1>1, <1>2, <1>3, <1>4 DEF Step

LEMMA NextEffects ==
    ASSUME TypeOK, CarriesToken, NewIsUnknown, [Next]_vars
    PROVE  \/ UNCHANGED Core
           \/ Tick
           \/ \E s \in Slots : \/ GivesUp(s) \/ Asks(s) \/ CheckPasses(s)
                               \/ LoadUser(s) \/ Rotate(s) \/ Answered(s)
                               \/ Login(s) \/ Logout(s)
  <1>1. CASE UNCHANGED vars
    BY <1>1 DEF vars, Core, tokens, browser, slots, history
  <1>2. CASE \E b \in Tabs : Reload(b)
    BY <1>2 DEF Reload, Core, history
  <1> QED
    BY <1>1, <1>2, PageEffects, StepEffects DEF Next

-----------------------------------------------------------------------------
(***************************************************************************)
(* The same effects, read off at each fetch and token                      *)
(***************************************************************************)

LEMMA SlotAfter ==
    ASSUME TypeOK, NEW s \in Slots, NEW label, NEW token, NEW brought,
           SetSlot(s, label, token, brought)
    PROVE  /\ pc'[s] = label /\ sent'[s] = token /\ new'[s] = brought
           /\ \A r \in Slots : r # s =>
                 pc'[r] = pc[r] /\ sent'[r] = sent[r] /\ new'[r] = new[r]
  BY DEF SetSlot, TypeOK

\* A refresh that goes on, and what the check and the rotation do meanwhile.
LEMMA CheckPassesEffect ==
    ASSUME TypeOK, BlacklistExact, NEW s \in Slots, CheckPasses(s)
    PROVE  /\ pc[s] = "check" /\ sent[s] \in Token /\ left[sent[s]] # 0
           /\ SetSlot(s, "load_user", sent[s], new[s])
           /\ LooseGrows
           /\ spent[sent[s]] => loose'[login_of[sent[s]]]
           /\ UNCHANGED <<tokens, cookie, spent, quit, ended>>
  <1>1. sent[s] \in Token /\ left[sent[s]] # 0 /\ login_of[sent[s]] \in Token
    BY TokenRange DEF CheckPasses, Valid, TypeOK
  <1>2. SetSlot(s, "load_user", sent[s], new[s])
    BY GotoSets DEF CheckPasses
  <1>3. LooseGrows /\ (spent[sent[s]] => loose'[login_of[sent[s]]])
    BY <1>1 DEF CheckPasses, LooseGrows, TypeOK
  <1> QED
    BY <1>1, <1>2, <1>3 DEF CheckPasses, browser

LEMMA BlacklistEffect ==
    ASSUME TypeOK, NEW t \in Token, Blacklist(t)
    PROVE  /\ \A u \in Token : u # t => spent'[u] = spent[u] /\ blacklist'[u] = blacklist[u]
           /\ \/ spent'[t] /\ blacklist'[t] = WholeSeconds(left[t]) /\ blacklist'[t] # 0
              \/ /\ left[t] \in 0..(Second - 1)
                 /\ spent'[t] = spent[t] /\ blacklist'[t] = blacklist[t]
  <1>1. left[t] \in Nat /\ WholeSeconds(left[t]) \in Nat
        /\ (WholeSeconds(left[t]) = 0 => left[t] \in 0..(Second - 1))
    BY WholeSecondsFacts, SessionAssumption DEF TypeOK
  <1> QED
    BY <1>1 DEF Blacklist, TypeOK

LEMMA RotateEffect ==
    ASSUME TypeOK, CarriesToken, NEW s \in Slots, Rotate(s)
    PROVE  /\ pc[s] = "rotate" /\ sent[s] \in Token
           /\ SetSlot(s, "answer", sent[s], new[s])
           /\ LooseGrows
           /\ Blacklist(sent[s])
           /\ spent'[sent[s]] \/ left[sent[s]] = 0 \/ loose'[login_of[sent[s]]]
           /\ UNCHANGED <<issued, left, login_of, cookie, quit, ended>>
  <1>1. sent[s] \in Token /\ pc[s] = "rotate" /\ login_of[sent[s]] \in Token
    BY DEF CarriesToken, Rotate, TypeOK
  <1>2. SetSlot(s, "answer", sent[s], new[s])
    BY GotoSets DEF Rotate
  <1>3. LooseGrows
        /\ (left[sent[s]] \in 1..(Second - 1) => loose'[login_of[sent[s]]])
    BY <1>1 DEF Rotate, LooseGrows, TypeOK
  <1>4. Blacklist(sent[s])
    BY DEF Rotate
  <1>5. spent'[sent[s]] \/ left[sent[s]] = 0 \/ left[sent[s]] \in 1..(Second - 1)
    BY <1>1, <1>4, BlacklistEffect DEF Second
  <1> QED
    BY <1>1, <1>2, <1>3, <1>4, <1>5 DEF Rotate, browser

LEMMA AnsweredEffect ==
    ASSUME TypeOK, NEW s \in Slots, Answered(s)
    PROVE  /\ pc[s] = "answer"
           /\ cookie' = new[s]
           /\ \E label \in {"idle", "me"} : SetSlot(s, label, NoToken, NoToken)
           /\ UNCHANGED <<tokens, spent, loose, quit, ended>>
  <1>1. CASE Free(s)
    BY <1>1, FreeSets DEF Answered, history
  <1>2. CASE /\ Goto(s, "me")
             /\ sent' = [sent EXCEPT ![s] = NoToken]
             /\ new' = [new EXCEPT ![s] = NoToken]
    BY <1>2 DEF Answered, history, Goto, SetSlot
  <1> QED
    BY <1>1, <1>2 DEF Answered

LEMMA CreateEffect ==
    ASSUME TypeOK, NEW s \in Slots, NEW root \in Token, issued < MaxTokens,
           CreateTokens(s, issued + 1, root)
    PROVE  /\ issued + 1 \in Token /\ issued' = issued + 1
           /\ login_of'[issued + 1] = root
           /\ left'[issued + 1] \in Nat
           /\ \A t \in Token : t # issued + 1 =>
                 login_of'[t] = login_of[t] /\ left'[t] = left[t]
           /\ \A t \in 0..issued : t # issued + 1
           /\ UNCHANGED blacklist
  <1>1. issued + 1 \in Token
    BY TokenRange DEF Token
  <1>2. \A t \in 0..issued : t # issued + 1
    BY TokenRange
  <1> QED
    BY <1>1, <1>2, SessionAssumption DEF CreateTokens, TypeOK

LEMMA LoadUserEffect ==
    ASSUME TypeOK, CarriesToken, NEW s \in Slots, LoadUser(s)
    PROVE  /\ pc[s] = "load_user" /\ issued < MaxTokens
           /\ sent[s] \in Token /\ login_of[sent[s]] \in Token
           /\ login_of[sent[s]] <= issued
           /\ SetSlot(s, "rotate", sent[s], issued + 1)
           /\ CreateTokens(s, issued + 1, login_of[sent[s]])
           /\ UNCHANGED <<cookie, spent, loose, quit, ended>>
  <1>1. pc[s] = "load_user" /\ sent[s] \in Token
    BY DEF LoadUser, CarriesToken
  <1>2. login_of[sent[s]] \in Token /\ login_of[sent[s]] <= issued
    BY <1>1, LoginOfToken, TokenRange DEF TypeOK
  <1>3. SetSlot(s, "rotate", sent[s], issued + 1)
    BY DEF LoadUser, CreateTokens, Goto, SetSlot, TypeOK
  <1> QED
    BY <1>1, <1>2, <1>3 DEF LoadUser, browser, history

LEMMA LoginEffect ==
    ASSUME TypeOK, CarriesToken, NEW s \in Slots, Login(s)
    PROVE  /\ pc[s] = "login" /\ sent[s] = NoToken /\ issued < MaxTokens
           /\ SetSlot(s, "answer", sent[s], issued + 1)
           /\ CreateTokens(s, issued + 1, issued + 1)
           /\ issued + 1 \in Token
           /\ UNCHANGED <<cookie, spent, loose, quit, ended>>
  <1>1. pc[s] = "login" /\ sent[s] = NoToken
    BY DEF Login, CarriesToken
  <1>2. SetSlot(s, "answer", sent[s], issued + 1)
    BY DEF Login, CreateTokens, Goto, SetSlot, TypeOK
  <1> QED
    BY <1>1, <1>2, TokenRange DEF Login, browser, history, Token

LEMMA LogoutEffect ==
    ASSUME TypeOK, NEW s \in Slots, Logout(s)
    PROVE  /\ pc[s] = "logout" /\ sent[s] \in Token /\ sent[s] <= issued
           /\ login_of[sent[s]] \in Token /\ login_of[sent[s]] <= issued
           /\ SetSlot(s, "bye", sent[s], new[s])
           /\ Blacklist(sent[s])
           /\ quit' = [quit EXCEPT ![login_of[sent[s]]] = TRUE]
           /\ \/ UNCHANGED ended
              \/ /\ ended' = [ended EXCEPT ![login_of[sent[s]]] = TRUE]
                 /\ ~spent[sent[s]] /\ left[sent[s]] >= Second
                 /\ Refreshing(login_of[sent[s]]) = {}
           /\ UNCHANGED <<issued, left, login_of, cookie, loose>>
  <1>1. pc[s] = "logout" /\ sent[s] \in Token /\ sent[s] <= issued
    BY TokenRange DEF Logout, Valid, TypeOK
  <1>2. login_of[sent[s]] \in Token /\ login_of[sent[s]] <= issued
    BY <1>1, LoginOfToken, TokenRange DEF TypeOK
  <1>3. SetSlot(s, "bye", sent[s], new[s])
    BY GotoSets DEF Logout
  <1> QED
    BY <1>1, <1>2, <1>3 DEF Logout, browser

OthersWait(s) ==
    \A r \in Slots : r # s => pc'[r] = pc[r] /\ sent'[r] = sent[r] /\ new'[r] = new[r]

LEMMA GivesUpEffect ==
    ASSUME TypeOK, NEW s \in Slots, GivesUp(s)
    PROVE  /\ pc'[s] \notin Busy
           /\ pc'[s] = "login" => sent'[s] = NoToken
           /\ sent'[s] \in {NoToken, cookie, sent[s]} /\ new'[s] \in {NoToken, new[s]}
           /\ OthersWait(s)
           /\ cookie' \in {cookie, NoToken}
           /\ LooseGrows
           /\ pc[s] = "rotate" => loose'[login_of[sent[s]]]
           /\ pc[s] = "answer" => loose'[login_of[new[s]]]
           /\ UNCHANGED <<tokens, spent, quit, ended>>
  <1>1. PICK label \in PCs \ Busy, token \in {NoToken, cookie, sent[s]},
             brought \in {NoToken, new[s]} :
                SetSlot(s, label, token, brought) /\ (label = "login" => token = NoToken)
    BY DEF GivesUp
  <1>2. /\ pc'[s] = label /\ sent'[s] = token /\ new'[s] = brought
        /\ OthersWait(s)
    BY <1>1, SlotAfter DEF OthersWait
  <1> QED
    BY <1>1, <1>2 DEF GivesUp

LEMMA AsksEffect ==
    ASSUME TypeOK, NEW s \in Slots, Asks(s)
    PROVE  /\ pc[s] \notin Busy
           /\ pc'[s] = "check" /\ sent'[s] = cookie /\ new'[s] = new[s]
           /\ OthersWait(s)
           /\ LooseGrows
           /\ cookie # NoToken =>
                 /\ cookie \in Token
                 /\ Refreshing(login_of[cookie]) # {} => loose'[login_of[cookie]]
           /\ UNCHANGED <<tokens, cookie, spent, quit, ended>>
  <1>1. /\ pc'[s] = "check" /\ sent'[s] = cookie /\ new'[s] = new[s]
        /\ OthersWait(s)
    BY SlotAfter DEF Asks, OthersWait
  <1>2. cookie # NoToken => cookie \in Token /\ login_of[cookie] \in Token
    BY TokenRange DEF TypeOK
  <1>3. LooseGrows /\ (cookie # NoToken /\ Refreshing(login_of[cookie]) # {}
                          => loose'[login_of[cookie]])
    BY <1>2 DEF Asks, NoteOverlap, LooseGrows, TypeOK
  <1> QED
    BY <1>1, <1>2, <1>3 DEF Asks

\* One of the steps that NextEffects names.
Effect(s) ==
    \/ GivesUp(s) \/ Asks(s) \/ CheckPasses(s) \/ LoadUser(s) \/ Rotate(s)
    \/ Answered(s) \/ Login(s) \/ Logout(s)

-----------------------------------------------------------------------------
(***************************************************************************)
(* Tokens and the blacklist                                                *)
(***************************************************************************)

LEMMA UntouchedEffect ==
    ASSUME TypeOK, CarriesToken, BlacklistExact, Untouched, NEW s \in Slots, Effect(s)
    PROVE  Untouched'
  <1> USE DEF Untouched
  <1>1. CASE GivesUp(s)
    BY <1>1, GivesUpEffect DEF tokens
  <1>2. CASE Asks(s)
    BY <1>2, AsksEffect DEF tokens
  <1>3. CASE CheckPasses(s)
    BY <1>3, CheckPassesEffect DEF tokens
  <1>4. ASSUME NEW root \in Token, issued < MaxTokens,
               CreateTokens(s, issued + 1, root), UNCHANGED <<spent, ended>>
        PROVE  Untouched'
    <2> SUFFICES ASSUME NEW t \in Token, t > issued'
                 PROVE  /\ left'[t] = 0 /\ blacklist'[t] = 0 /\ ~spent'[t] /\ ~ended'[t]
                        /\ login_of'[t] = t
      OBVIOUS
    <2>1. t > issued /\ t # issued + 1
      BY <1>4, CreateEffect, TokenRange
    <2> QED
      BY <1>4, <2>1, CreateEffect
  <1>5. CASE LoadUser(s)
    BY <1>4, <1>5, LoadUserEffect
  <1>6. CASE Login(s)
    BY <1>4, <1>6, LoginEffect
  <1>7. CASE Rotate(s)
    <2>1. sent[s] <= issued
      BY TokenRange DEF TypeOK
    <2> QED
      BY <1>7, <2>1, RotateEffect, BlacklistEffect, TokenRange
  <1>8. CASE Answered(s)
    BY <1>8, AnsweredEffect DEF tokens
  <1>9. CASE Logout(s)
    <2> SUFFICES ASSUME NEW t \in Token, t > issued
                 PROVE  /\ left'[t] = 0 /\ blacklist'[t] = 0 /\ ~spent'[t] /\ ~ended'[t]
                        /\ login_of'[t] = t
      BY <1>9, LogoutEffect
    <2>1. t # sent[s] /\ t # login_of[sent[s]]
      BY <1>9, LogoutEffect, TokenRange
    <2> QED
      BY <1>9, <2>1, LogoutEffect, BlacklistEffect DEF TypeOK
  <1> QED
    BY <1>1, <1>2, <1>3, <1>5, <1>6, <1>7, <1>8, <1>9 DEF Effect

LEMMA BlacklistedExactly ==
    ASSUME TypeOK, BlacklistExact, NEW t \in Token, Blacklist(t), UNCHANGED left
    PROVE  BlacklistExact'
  <1>1. /\ \A u \in Token : left[u] \in Nat /\ left'[u] = left[u]
        /\ WholeSeconds(left[t]) \in Nat
        /\ WholeSeconds(left[t]) <= left[t] /\ left[t] - 1 <= WholeSeconds(left[t])
    BY WholeSecondsFacts, SessionAssumption DEF TypeOK
  <1> SUFFICES ASSUME NEW u \in Token
               PROVE  /\ blacklist'[u] <= left'[u]
                      /\ spent'[u] => left'[u] - 1 <= blacklist'[u]
                      /\ blacklist'[u] > 0 => spent'[u]
    BY DEF BlacklistExact
  <1>2. CASE u # t
    BY <1>1, <1>2, BlacklistEffect DEF BlacklistExact
  <1>3. CASE u = t
    BY <1>1, <1>3, BlacklistEffect DEF BlacklistExact
  <1> QED
    BY <1>2, <1>3

LEMMA BlacklistExactEffect ==
    ASSUME TypeOK, CarriesToken, Untouched, BlacklistExact, NEW s \in Slots, Effect(s)
    PROVE  BlacklistExact'
  <1>1. CASE GivesUp(s)
    BY <1>1, GivesUpEffect DEF tokens, BlacklistExact
  <1>2. CASE Asks(s)
    BY <1>2, AsksEffect DEF tokens, BlacklistExact
  <1>3. CASE CheckPasses(s)
    BY <1>3, CheckPassesEffect DEF tokens, BlacklistExact
  <1>4. ASSUME NEW root \in Token, issued < MaxTokens,
               CreateTokens(s, issued + 1, root), UNCHANGED spent
        PROVE  BlacklistExact'
    <2>1. issued + 1 \in Token /\ issued + 1 > issued
      BY <1>4, CreateEffect, TokenRange
    <2>2. ~spent[issued + 1] /\ blacklist[issued + 1] = 0
      BY <2>1 DEF Untouched
    <2> SUFFICES ASSUME NEW t \in Token
                 PROVE  /\ blacklist'[t] <= left'[t]
                        /\ spent'[t] => left'[t] - 1 <= blacklist'[t]
                        /\ blacklist'[t] > 0 => spent'[t]
      BY DEF BlacklistExact
    <2>3. CASE t = issued + 1
      BY <1>4, <2>2, <2>3, CreateEffect
    <2>4. CASE t # issued + 1
      BY <1>4, <2>4, CreateEffect DEF BlacklistExact
    <2> QED
      BY <2>3, <2>4
  <1>5. CASE LoadUser(s)
    BY <1>4, <1>5, LoadUserEffect
  <1>6. CASE Login(s)
    BY <1>4, <1>6, LoginEffect
  <1>7. CASE Rotate(s)
    BY <1>7, RotateEffect, BlacklistedExactly
  <1>8. CASE Answered(s)
    BY <1>8, AnsweredEffect DEF tokens, BlacklistExact
  <1>9. CASE Logout(s)
    BY <1>9, LogoutEffect, BlacklistedExactly
  <1> QED
    BY <1>1, <1>2, <1>3, <1>5, <1>6, <1>7, <1>8, <1>9 DEF Effect

LEMMA BlacklistExactTick ==
    ASSUME TypeOK, BlacklistExact, Tick
    PROVE  BlacklistExact'
  <1> SUFFICES ASSUME NEW t \in Token
               PROVE  /\ blacklist'[t] <= left'[t]
                      /\ spent'[t] => left'[t] - 1 <= blacklist'[t]
                      /\ blacklist'[t] > 0 => spent'[t]
    BY DEF BlacklistExact
  <1>1. /\ left[t] \in Nat /\ blacklist[t] \in Nat
        /\ left'[t] = Down(left[t]) /\ blacklist'[t] = Down(blacklist[t])
        /\ spent' = spent
    BY SessionAssumption DEF Tick, TypeOK, history
  <1> QED
    BY <1>1 DEF Down, BlacklistExact

-----------------------------------------------------------------------------
(***************************************************************************)
(* What a fetch carries and brings                                         *)
(***************************************************************************)

\* A fetch that goes on with the token it sent.
LEMMA SetSlotWaits ==
    ASSUME TypeOK, NEW s \in Slots, NEW label, NEW token, NEW brought,
           SetSlot(s, label, token, brought)
    PROVE  /\ pc'[s] = label /\ sent'[s] = token /\ new'[s] = brought
           /\ OthersWait(s)
  BY SlotAfter DEF OthersWait

LEMMA CarriesTokenEffect ==
    ASSUME TypeOK, BlacklistExact, CarriesToken, NEW s \in Slots, Effect(s)
    PROVE  CarriesToken'
  <1>1. OthersWait(s) /\ (pc'[s] \in {"load_user", "rotate"} => sent'[s] \in Token)
        /\ (pc'[s] = "login" => sent'[s] = NoToken)
    <2>1. CASE GivesUp(s)
      BY <2>1, GivesUpEffect DEF Busy
    <2>2. CASE Asks(s)
      BY <2>2, AsksEffect
    <2>3. CASE CheckPasses(s)
      BY <2>3, CheckPassesEffect, SetSlotWaits
    <2>4. CASE LoadUser(s)
      <3>1. sent[s] \in Token /\ SetSlot(s, "rotate", sent[s], issued + 1)
        BY <2>4, LoadUserEffect
      <3> QED
        BY <3>1, SetSlotWaits
    <2>5. CASE Login(s)
      <3>1. SetSlot(s, "answer", sent[s], issued + 1)
        BY <2>5, LoginEffect
      <3> QED
        BY <3>1, SetSlotWaits
    <2>6. CASE Rotate(s)
      BY <2>6, RotateEffect, SetSlotWaits
    <2>7. CASE Answered(s)
      <3>1. PICK label \in {"idle", "me"} : SetSlot(s, label, NoToken, NoToken)
        BY <2>7, AnsweredEffect
      <3> QED
        BY <3>1, SetSlotWaits
    <2>8. CASE Logout(s)
      BY <2>8, LogoutEffect, SetSlotWaits
    <2> QED
      BY <2>1, <2>2, <2>3, <2>4, <2>5, <2>6, <2>7, <2>8 DEF Effect
  <1> QED
    BY <1>1 DEF CarriesToken, OthersWait

LEMMA NewIsUnknownPartsNext ==
    ASSUME \A r \in Slots : pc'[r] \in Replacing =>
             /\ new'[r] \in Token /\ ~spent'[new'[r]] /\ cookie' # new'[r]
             /\ \A q \in Slots : sent'[q] # new'[r]
             /\ \A q \in Slots : q # r /\ pc'[q] \in Replacing => new'[q] # new'[r]
             /\ sent'[r] # NoToken => login_of'[sent'[r]] = login_of'[new'[r]]
    PROVE  NewIsUnknown'
  BY DEF NewIsUnknown

\* The step of s makes no token and spends none that another fetch brings.
LEMMA NothingMade ==
    ASSUME TypeOK, NewIsUnknown, NEW s \in Slots, OthersWait(s),
           UNCHANGED login_of,
           sent'[s] \in {NoToken, cookie, sent[s]},
           pc'[s] \in Replacing =>
              pc[s] \in Replacing /\ new'[s] = new[s] /\ sent'[s] = sent[s],
           cookie' \in {cookie, NoToken}
             \/ (cookie' = new[s] /\ pc[s] \in Replacing /\ pc'[s] \notin Replacing),
           \A t \in Token : spent'[t] => spent[t] \/ t = sent[s]
    PROVE  NewIsUnknown'
  <1>1. ASSUME NEW r \in Slots, pc'[r] \in Replacing
        PROVE  /\ new'[r] \in Token /\ ~spent'[new'[r]] /\ cookie' # new'[r]
               /\ \A q \in Slots : sent'[q] # new'[r]
               /\ \A q \in Slots : q # r /\ pc'[q] \in Replacing => new'[q] # new'[r]
               /\ sent'[r] # NoToken => login_of'[sent'[r]] = login_of'[new'[r]]
    <2>1. pc[r] \in Replacing /\ new'[r] = new[r] /\ sent'[r] = sent[r]
      BY <1>1 DEF OthersWait
    <2>2. /\ new[r] \in Token /\ ~spent[new[r]] /\ cookie # new[r]
          /\ \A q \in Slots : sent[q] # new[r]
          /\ \A q \in Slots : q # r /\ pc[q] \in Replacing => new[q] # new[r]
          /\ sent[r] # NoToken => login_of[sent[r]] = login_of[new[r]]
      BY <2>1 DEF NewIsUnknown
    <2>3. new[r] # NoToken
      BY <2>2, TokenRange
    <2>4. ~spent'[new[r]]
      BY <2>2
    <2>5. cookie' # new[r]
      BY <1>1, <2>2, <2>3
    <2>6. \A q \in Slots : sent'[q] # new[r]
      BY <2>2, <2>3 DEF OthersWait
    <2>7. \A q \in Slots : q # r /\ pc'[q] \in Replacing => new'[q] # new[r]
      BY <2>2 DEF OthersWait
    <2> QED
      BY <2>1, <2>2, <2>4, <2>5, <2>6, <2>7
  <1> QED
    BY <1>1, NewIsUnknownPartsNext

\* The step of s makes the next token.
LEMMA OneMade ==
    ASSUME TypeOK, Untouched, NewIsUnknown, NEW s \in Slots, OthersWait(s),
           NEW root \in Token, issued < MaxTokens, CreateTokens(s, issued + 1, root),
           sent'[s] = sent[s], new'[s] = issued + 1,
           sent[s] # NoToken => login_of[sent[s]] = root,
           UNCHANGED <<cookie, spent>>
    PROVE  NewIsUnknown'
  <1> DEFINE n == issued + 1
  <1>1. /\ n \in Token /\ ~spent[n] /\ cookie # n
        /\ \A q \in Slots : sent[q] # n /\ new[q] # n
        /\ login_of'[n] = root
        /\ \A t \in Token : t # n => login_of'[t] = login_of[t]
    BY CreateEffect, TokenRange DEF TypeOK, Untouched
  <1>2. ASSUME NEW r \in Slots, pc'[r] \in Replacing
        PROVE  /\ new'[r] \in Token /\ ~spent'[new'[r]] /\ cookie' # new'[r]
               /\ \A q \in Slots : sent'[q] # new'[r]
               /\ \A q \in Slots : q # r /\ pc'[q] \in Replacing => new'[q] # new'[r]
               /\ sent'[r] # NoToken => login_of'[sent'[r]] = login_of'[new'[r]]
    <2>0. \A q \in Slots : sent'[q] = sent[q]
                            /\ (sent[q] # NoToken => login_of'[sent[q]] = login_of[sent[q]])
      <3>1. \A q \in Slots : sent[q] = NoToken \/ sent[q] \in Token
        BY TokenRange DEF TypeOK
      <3> QED
        BY <1>1, <3>1 DEF OthersWait
    <2>1. CASE r = s
      BY <1>1, <2>0, <2>1 DEF OthersWait
    <2>2. CASE r # s
      <3>1. /\ pc[r] \in Replacing /\ new'[r] = new[r]
        BY <1>2, <2>2 DEF OthersWait
      <3>2. /\ new[r] \in Token /\ ~spent[new[r]] /\ cookie # new[r]
            /\ \A q \in Slots : sent[q] # new[r]
            /\ \A q \in Slots : q # r /\ pc[q] \in Replacing => new[q] # new[r]
            /\ sent[r] # NoToken => login_of[sent[r]] = login_of[new[r]]
        BY <3>1 DEF NewIsUnknown
      <3>3. \A q \in Slots : q # r /\ pc'[q] \in Replacing => new'[q] # new[r]
        BY <1>1, <3>2 DEF OthersWait
      <3>4. login_of'[new[r]] = login_of[new[r]]
        BY <1>1, <3>2
      <3> QED
        BY <2>0, <3>1, <3>2, <3>3, <3>4
    <2> QED
      BY <2>1, <2>2
  <1> QED
    BY <1>2, NewIsUnknownPartsNext

LEMMA NewIsUnknownEffect ==
    ASSUME TypeOK, Untouched, BlacklistExact, CarriesToken, NewIsUnknown,
           NEW s \in Slots, Effect(s)
    PROVE  NewIsUnknown'
  <1> USE DEF Replacing, Busy
  <1>1. CASE GivesUp(s)
    BY <1>1, GivesUpEffect, NothingMade DEF tokens
  <1>2. CASE Asks(s)
    BY <1>2, AsksEffect, NothingMade DEF tokens
  <1>3. CASE CheckPasses(s)
    BY <1>3, CheckPassesEffect, SetSlotWaits, NothingMade DEF tokens
  <1>4. CASE LoadUser(s)
    <2>1. OthersWait(s) /\ sent'[s] = sent[s] /\ new'[s] = issued + 1
      BY <1>4, LoadUserEffect, SetSlotWaits
    <2> QED
      BY <1>4, <2>1, LoadUserEffect, OneMade
  <1>5. CASE Login(s)
    <2>1. OthersWait(s) /\ sent'[s] = sent[s] /\ new'[s] = issued + 1
      BY <1>5, LoginEffect, SetSlotWaits
    <2> QED
      BY <1>5, <2>1, LoginEffect, OneMade
  <1>6. CASE Rotate(s)
    <2>1. OthersWait(s) /\ sent'[s] = sent[s] /\ new'[s] = new[s]
      BY <1>6, RotateEffect, SetSlotWaits
    <2>2. \A t \in Token : spent'[t] => spent[t] \/ t = sent[s]
      BY <1>6, RotateEffect, BlacklistEffect
    <2> QED
      BY <1>6, <2>1, <2>2, RotateEffect, NothingMade
  <1>7. CASE Answered(s)
    <2>1. PICK label \in {"idle", "me"} : SetSlot(s, label, NoToken, NoToken)
      BY <1>7, AnsweredEffect
    <2>2. OthersWait(s) /\ sent'[s] = NoToken /\ pc'[s] = label
      BY <2>1, SetSlotWaits
    <2> QED
      BY <1>7, <2>2, AnsweredEffect, NothingMade DEF tokens
  <1>8. CASE Logout(s)
    <2>1. OthersWait(s) /\ sent'[s] = sent[s] /\ pc'[s] = "bye"
      BY <1>8, LogoutEffect, SetSlotWaits
    <2>2. \A t \in Token : spent'[t] => spent[t] \/ t = sent[s]
      BY <1>8, LogoutEffect, BlacklistEffect
    <2> QED
      BY <1>8, <2>1, <2>2, LogoutEffect, NothingMade
  <1> QED
    BY <1>1, <1>2, <1>3, <1>4, <1>5, <1>6, <1>7, <1>8 DEF Effect

-----------------------------------------------------------------------------
(***************************************************************************)
(* Refreshes under way                                                     *)
(***************************************************************************)

LEMMA OneFetchMoves ==
    ASSUME TypeOK, CarriesToken, BlacklistExact, NEW s \in Slots, Effect(s)
    PROVE  OthersWait(s)
  <1>1. CASE LoadUser(s)
    BY <1>1, LoadUserEffect, SetSlotWaits
  <1>2. CASE Login(s)
    BY <1>2, LoginEffect, SetSlotWaits
  <1>3. CASE Answered(s)
    BY <1>3, AnsweredEffect, SetSlotWaits
  <1>4. CASE CheckPasses(s) \/ Rotate(s) \/ Logout(s)
    BY <1>4, CheckPassesEffect, RotateEffect, LogoutEffect, SetSlotWaits
  <1> QED
    BY <1>1, <1>2, <1>3, <1>4, GivesUpEffect, AsksEffect DEF Effect

LoginsKept == \A t \in Token : t <= issued => login_of'[t] = login_of[t]

LEMMA LoginsAreKept ==
    ASSUME TypeOK, CarriesToken, BlacklistExact, NEW s \in Slots, Effect(s)
    PROVE  LoginsKept
  <1>1. CASE LoadUser(s) \/ Login(s)
    <2>1. \A t \in Token : t # issued + 1 => login_of'[t] = login_of[t]
      <3>1. CASE LoadUser(s)
        BY <3>1, LoadUserEffect, CreateEffect
      <3>2. CASE Login(s)
        BY <3>2, LoginEffect, CreateEffect
      <3> QED
        BY <1>1, <3>1, <3>2
    <2> QED
      BY <2>1, TokenRange DEF LoginsKept
  <1>2. CASE GivesUp(s) \/ Asks(s) \/ CheckPasses(s) \/ Rotate(s) \/ Answered(s)
               \/ Logout(s)
    <2>1. UNCHANGED login_of
      BY <1>2, GivesUpEffect, AsksEffect, CheckPassesEffect, RotateEffect,
         AnsweredEffect, LogoutEffect DEF tokens
    <2> QED
      BY <2>1 DEF LoginsKept
  <1> QED
    BY <1>1, <1>2 DEF Effect

\* Of a refresh that is still under way after the step.
LEMMA RefreshingShrinks ==
    ASSUME TypeOK, NEW s \in Slots, OthersWait(s), LoginsKept,
           pc'[s] \in Busy /\ sent'[s] # NoToken => pc[s] \in Busy /\ sent'[s] = sent[s],
           NEW f \in Token
    PROVE  Refreshing(f)' \subseteq Refreshing(f)
  <1> SUFFICES ASSUME NEW r \in Refreshing(f)' PROVE r \in Refreshing(f)
    OBVIOUS
  <1>1. r \in Slots /\ pc'[r] \in Busy /\ sent'[r] # NoToken /\ login_of'[sent'[r]] = f
    BY DEF Refreshing, Busy
  <1>2. pc[r] \in Busy /\ sent'[r] = sent[r]
    BY <1>1 DEF OthersWait
  <1>3. sent[r] \in Token /\ sent[r] <= issued
    BY <1>1, <1>2, TokenRange DEF TypeOK
  <1> QED
    BY <1>1, <1>2, <1>3 DEF LoginsKept, Refreshing, Busy

\* Except when a fetch asks for an access token, no refresh begins.
LEMMA NoRefreshBegins ==
    ASSUME TypeOK, CarriesToken, BlacklistExact, NEW s \in Slots, Effect(s), ~Asks(s),
           NEW f \in Token
    PROVE  Refreshing(f)' \subseteq Refreshing(f) /\ LooseGrows
  <1> USE DEF Busy
  <1>0. LoginsKept
    BY LoginsAreKept
  <1>1. CASE GivesUp(s)
    BY <1>0, <1>1, GivesUpEffect, RefreshingShrinks
  <1>2. CASE CheckPasses(s)
    BY <1>0, <1>2, CheckPassesEffect, SetSlotWaits, RefreshingShrinks
  <1>3. CASE LoadUser(s)
    <2>1. OthersWait(s) /\ sent'[s] = sent[s] /\ pc[s] = "load_user" /\ LooseGrows
      BY <1>3, LoadUserEffect, SetSlotWaits, LooseKept
    <2> QED
      BY <1>0, <2>1, RefreshingShrinks
  <1>4. CASE Login(s)
    <2>1. OthersWait(s) /\ sent'[s] = NoToken /\ LooseGrows
      BY <1>4, LoginEffect, SetSlotWaits, LooseKept
    <2> QED
      BY <1>0, <2>1, RefreshingShrinks
  <1>5. CASE Rotate(s)
    BY <1>0, <1>5, RotateEffect, SetSlotWaits, RefreshingShrinks
  <1>6. CASE Answered(s)
    <2>1. PICK label \in {"idle", "me"} : SetSlot(s, label, NoToken, NoToken)
      BY <1>6, AnsweredEffect
    <2>2. OthersWait(s) /\ sent'[s] = NoToken /\ LooseGrows
      BY <1>6, <2>1, AnsweredEffect, SetSlotWaits, LooseKept
    <2> QED
      BY <1>0, <2>2, RefreshingShrinks
  <1>7. CASE Logout(s)
    BY <1>0, <1>7, LogoutEffect, SetSlotWaits, LooseKept, RefreshingShrinks
  <1> QED
    BY <1>1, <1>2, <1>3, <1>4, <1>5, <1>6, <1>7 DEF Effect

LEMMA OneRefreshEffect ==
    ASSUME TypeOK, CarriesToken, BlacklistExact, OneRefresh, NEW s \in Slots, Effect(s)
    PROVE  OneRefresh'
  <1>1. CASE ~Asks(s)
    <2>1. \A f \in Token : Refreshing(f)' \subseteq Refreshing(f) /\ (loose[f] => loose'[f])
      BY <1>1, NoRefreshBegins DEF LooseGrows
    <2> QED
      BY <2>1 DEF OneRefresh
  <1>2. CASE Asks(s)
    <2> SUFFICES ASSUME NEW f \in Token, ~loose'[f],
                        NEW q \in Refreshing(f)', NEW r \in Refreshing(f)'
                 PROVE  q = r
      BY DEF OneRefresh
    <2>1. \A p \in Refreshing(f)' : p # s => p \in Refreshing(f)
      BY <1>2, AsksEffect DEF Refreshing, OthersWait, tokens
    <2>2. s \in Refreshing(f)' => Refreshing(f) = {}
      BY <1>2, AsksEffect DEF Refreshing, tokens
    <2>3. ~loose[f]
      BY <1>2, AsksEffect DEF LooseGrows
    <2>4. CASE q = s \/ r = s
      BY <2>1, <2>2, <2>4
    <2>5. CASE q # s /\ r # s
      BY <2>1, <2>3, <2>5 DEF OneRefresh
    <2> QED
      BY <2>4, <2>5
  <1> QED
    BY <1>1, <1>2

-----------------------------------------------------------------------------
(***************************************************************************)
(* Rotation                                                                *)
(***************************************************************************)

\* A token that is used up, or about to be, stays so.
UsedUp(t) == spent[t] \/ left[t] = 0 \/ BeingReplaced(t)

LEMMA SpentStays ==
    ASSUME TypeOK, CarriesToken, BlacklistExact, NEW s \in Slots, Effect(s),
           NEW t \in Token, t <= issued
    PROVE  (spent[t] => spent'[t]) /\ (left[t] = 0 => left'[t] = 0)
  <1>1. spent[t] => spent'[t]
    <2>1. CASE Rotate(s)
      BY <2>1, RotateEffect, BlacklistEffect
    <2>2. CASE Logout(s)
      BY <2>2, LogoutEffect, BlacklistEffect
    <2>3. CASE UNCHANGED spent
      BY <2>3
    <2> QED
      BY <2>1, <2>2, <2>3, GivesUpEffect, AsksEffect, CheckPassesEffect, LoadUserEffect,
         LoginEffect, AnsweredEffect DEF Effect
  <1>2. left[t] = 0 => left'[t] = 0
    <2>1. CASE LoadUser(s) \/ Login(s)
      <3>1. t # issued + 1
        BY TokenRange
      <3>2. \A u \in Token : u # issued + 1 => left'[u] = left[u]
        <4>1. CASE LoadUser(s)
          BY <4>1, LoadUserEffect, CreateEffect
        <4>2. CASE Login(s)
          BY <4>2, LoginEffect, CreateEffect
        <4> QED
          BY <2>1, <4>1, <4>2
      <3> QED
        BY <3>1, <3>2
    <2>2. CASE UNCHANGED left
      BY <2>2
    <2> QED
      BY <2>1, <2>2, GivesUpEffect, AsksEffect, CheckPassesEffect, RotateEffect,
         LogoutEffect, AnsweredEffect DEF Effect, tokens
  <1> QED
    BY <1>1, <1>2

LEMMA UsedUpStays ==
    ASSUME TypeOK, CarriesToken, BlacklistExact, NEW s \in Slots, Effect(s),
           NEW t \in Token, t <= issued, UsedUp(t)
    PROVE  UsedUp(t)' \/ loose'[login_of[t]]
  <1>2. (spent[t] => spent'[t]) /\ (left[t] = 0 => left'[t] = 0)
    BY SpentStays
  <1>3. ASSUME NEW r \in Slots, pc[r] = "rotate", sent[r] = t
        PROVE  \/ pc'[r] = "rotate" /\ sent'[r] = t
               \/ spent'[t] \/ left'[t] = 0 \/ loose'[login_of[t]]
    <2>1. CASE r # s
      BY <1>3, <2>1, OneFetchMoves DEF OthersWait
    <2>2. CASE r = s
      <3>1. GivesUp(s) \/ Rotate(s)
        BY <1>3, <2>2, AsksEffect, CheckPassesEffect, LoadUserEffect, LoginEffect,
           AnsweredEffect, LogoutEffect DEF Effect, Busy
      <3> QED
        BY <1>2, <1>3, <2>2, <3>1, GivesUpEffect, RotateEffect
    <2> QED
      BY <2>1, <2>2
  <1> QED
    BY <1>2, <1>3 DEF UsedUp, BeingReplaced

LEMMA LooseStays ==
    ASSUME TypeOK, CarriesToken, BlacklistExact, NEW s \in Slots, Effect(s)
    PROVE  LooseGrows
  <1>1. CASE Asks(s)
    BY <1>1, AsksEffect
  <1>2. CASE GivesUp(s) \/ CheckPasses(s) \/ Rotate(s)
    BY <1>2, GivesUpEffect, CheckPassesEffect, RotateEffect
  <1>3. CASE LoadUser(s) \/ Login(s) \/ Answered(s) \/ Logout(s)
    BY <1>3, LoadUserEffect, LoginEffect, AnsweredEffect, LogoutEffect, LooseKept
  <1> QED
    BY <1>1, <1>2, <1>3 DEF Effect

\* Which steps make a token.
LEMMA Issues ==
    ASSUME TypeOK, CarriesToken, BlacklistExact, NEW s \in Slots, Effect(s)
    PROVE  \/ issued' = issued
           \/ /\ issued' = issued + 1 /\ issued + 1 \in Token
              /\ \/ LoadUser(s) /\ login_of'[issued + 1] = login_of[sent[s]]
                 \/ Login(s) /\ login_of'[issued + 1] = issued + 1
  <1>1. CASE LoadUser(s)
    BY <1>1, LoadUserEffect, CreateEffect
  <1>2. CASE Login(s)
    BY <1>2, LoginEffect, CreateEffect
  <1> QED
    BY <1>1, <1>2, GivesUpEffect, AsksEffect, CheckPassesEffect, RotateEffect,
       AnsweredEffect, LogoutEffect DEF Effect, tokens

\* Which steps lead to the check, and past it.
LEMMA Arrivals ==
    ASSUME TypeOK, CarriesToken, BlacklistExact, NEW s \in Slots, Effect(s)
    PROVE  /\ pc'[s] = "check" => Asks(s)
           /\ pc'[s] = "load_user" => CheckPasses(s)
  <1>1. LoadUser(s) => pc'[s] = "rotate"
    BY LoadUserEffect, SetSlotWaits
  <1>2. Login(s) => pc'[s] = "answer"
    BY LoginEffect, SetSlotWaits
  <1>3. Rotate(s) => pc'[s] = "answer"
    BY RotateEffect, SetSlotWaits
  <1>4. Answered(s) => pc'[s] \in {"idle", "me"}
    BY AnsweredEffect, SetSlotWaits
  <1>5. Logout(s) => pc'[s] = "bye"
    BY LogoutEffect, SetSlotWaits
  <1>6. CheckPasses(s) => pc'[s] = "load_user"
    BY CheckPassesEffect, SetSlotWaits
  <1>7. Asks(s) => pc'[s] = "check"
    BY AsksEffect
  <1> QED
    BY <1>1, <1>2, <1>3, <1>4, <1>5, <1>6, <1>7, GivesUpEffect DEF Effect, Busy

LEMMA OlderAreSpentEffect ==
    ASSUME TypeOK, Untouched, BlacklistExact, CarriesToken, OlderAreSpent,
           NewestIsReplaced, NEW s \in Slots, Effect(s)
    PROVE  OlderAreSpent'
  <1> SUFFICES ASSUME NEW t \in Token, NEW u \in Token,
                      t < u, u <= issued', login_of'[t] = login_of'[u],
                      ~loose'[login_of'[t]]
               PROVE  UsedUp(t)'
    BY DEF OlderAreSpent, UsedUp, BeingReplaced
  <1>1. t \in Nat /\ u \in Nat /\ issued \in Nat /\ login_of[t] <= t
        /\ login_of[t] \in Token /\ login_of[t] \in Nat
    BY TokenRange DEF TypeOK
  <1>2. u <= issued \/ u = issued + 1
    BY <1>1, Issues
  <1>3. t <= issued /\ login_of'[t] = login_of[t] /\ ~loose[login_of[t]]
    BY <1>1, <1>2, LoginsAreKept, LooseStays DEF LoginsKept, LooseGrows
  <1>4. ASSUME UsedUp(t)
        PROVE  UsedUp(t)'
    BY <1>3, <1>4, UsedUpStays
  <1>5. CASE u <= issued
    <2>1. login_of'[u] = login_of[u]
      BY <1>5, LoginsAreKept DEF LoginsKept
    <2>2. UsedUp(t)
      BY <1>3, <1>5, <2>1 DEF OlderAreSpent, UsedUp
    <2> QED
      BY <1>4, <2>2
  <1>6. CASE u = issued + 1
    <2>1. CASE Login(s) /\ login_of'[u] = u
      <3>1. login_of[t] = u
        BY <1>3, <2>1
      <3>2. FALSE
        BY <1>1, <3>1
      <3> QED
        BY <3>2
    <2>2. CASE LoadUser(s) /\ login_of'[u] = login_of[sent[s]]
      <3>1. /\ pc[s] = "load_user" /\ sent[s] \in Token /\ sent[s] <= issued
            /\ login_of[sent[s]] = login_of[t] /\ sent[s] \in Nat
        <4>1. pc[s] = "load_user" /\ sent[s] \in Token
          BY <2>2, LoadUserEffect
        <4>2. sent[s] <= issued /\ sent[s] \in Nat
          BY <4>1, TokenRange DEF TypeOK
        <4>3. login_of[sent[s]] = login_of[t]
          BY <1>3, <2>2
        <4> QED
          BY <4>1, <4>2, <4>3
      <3>2. t <= sent[s]
        BY <1>3, <3>1 DEF NewestIsReplaced
      <3>3. CASE t = sent[s]
        <4>1. pc'[s] = "rotate" /\ sent'[s] = t
          BY <2>2, <3>3, LoadUserEffect, SetSlotWaits
        <4> QED
          BY <4>1 DEF UsedUp, BeingReplaced
      <3>4. CASE t < sent[s]
        BY <1>3, <1>4, <3>1, <3>4 DEF OlderAreSpent, UsedUp
      <3> QED
        BY <1>1, <3>1, <3>2, <3>3, <3>4
    <2> QED
      BY <1>1, <1>6, <2>1, <2>2, Issues
  <1> QED
    BY <1>2, <1>5, <1>6

LEMMA NewestIsReplacedEffect ==
    ASSUME TypeOK, Untouched, BlacklistExact, CarriesToken, OneRefresh, OlderAreSpent,
           NewestIsReplaced, NEW s \in Slots, Effect(s)
    PROVE  NewestIsReplaced'
  <1> SUFFICES ASSUME NEW r \in Slots, pc'[r] = "load_user",
                      ~loose'[login_of'[sent'[r]]],
                      NEW u \in Token, u <= issued', login_of'[u] = login_of'[sent'[r]]
               PROVE  u <= sent'[r]
    BY DEF NewestIsReplaced
  <1>1. u \in Nat /\ issued \in Nat /\ (u <= issued \/ u = issued + 1)
    BY Issues, TokenRange
  <1>2. ASSUME sent'[r] = sent[r], sent[r] \in Token
        PROVE  /\ sent[r] \in Nat /\ sent[r] <= issued
               /\ login_of'[sent[r]] = login_of[sent[r]]
               /\ login_of[sent[r]] \in Token /\ login_of[sent[r]] <= issued
               /\ ~loose[login_of[sent[r]]]
    <2>1. sent[r] \in Nat /\ sent[r] <= issued /\ login_of[sent[r]] \in Token
          /\ login_of[sent[r]] <= issued
      BY <1>2, TokenRange, LoginOfToken DEF TypeOK
    <2> QED
      BY <1>2, <2>1, LoginsAreKept, LooseStays DEF LoginsKept, LooseGrows
  <1>3. CASE r # s
    <2>1. /\ pc[r] = "load_user" /\ sent'[r] = sent[r] /\ sent[r] \in Token
      BY <1>3, OneFetchMoves DEF OthersWait, CarriesToken
    <2>2. CASE u <= issued
      <3>1. login_of[u] = login_of[sent[r]]
        BY <1>2, <2>1, <2>2, LoginsAreKept DEF LoginsKept
      <3> QED
        BY <1>2, <2>1, <2>2, <3>1 DEF NewestIsReplaced
    <2>3. CASE u = issued + 1
      <3>1. CASE Login(s) /\ login_of'[u] = u
        BY <1>1, <1>2, <2>1, <2>3, <3>1
      <3>2. CASE LoadUser(s) /\ login_of'[u] = login_of[sent[s]]
        <4>1. login_of[sent[s]] = login_of[sent[r]] /\ pc[s] = "load_user"
              /\ sent[s] \in Token
          BY <1>2, <2>1, <3>2, LoadUserEffect
        <4>2. s \in Refreshing(login_of[sent[r]]) /\ r \in Refreshing(login_of[sent[r]])
          BY <2>1, <4>1, TokenRange DEF Refreshing
        <4> QED
          BY <1>2, <1>3, <2>1, <4>2 DEF OneRefresh
      <3> QED
        BY <1>1, <2>3, <3>1, <3>2, Issues
    <2> QED
      BY <1>1, <2>2, <2>3
  <1>4. CASE r = s
    <2>1. CheckPasses(s)
      BY <1>4, Arrivals
    <2>2. /\ pc[s] = "check" /\ sent[s] \in Token /\ left[sent[s]] # 0
          /\ sent'[s] = sent[s] /\ UNCHANGED <<issued, login_of>>
          /\ (spent[sent[s]] => loose'[login_of[sent[s]]])
      BY <2>1, CheckPassesEffect, SetSlotWaits DEF tokens
    <2>3. ~spent[sent[s]] /\ ~loose[login_of[sent[s]]] /\ login_of[u] = login_of[sent[s]]
          /\ u <= issued /\ login_of[sent[s]] \in Token
      BY <1>2, <1>4, <2>2
    <2>4. ~BeingReplaced(sent[s])
      <3> SUFFICES ASSUME NEW q \in Slots, pc[q] = "rotate", sent[q] = sent[s]
                   PROVE  FALSE
        BY DEF BeingReplaced
      <3>1. s \in Refreshing(login_of[sent[s]]) /\ q \in Refreshing(login_of[sent[s]])
        BY <2>2, TokenRange DEF Refreshing
      <3> QED
        BY <2>2, <2>3, <3>1 DEF OneRefresh
    <2>5. ~(sent[s] < u)
      BY <2>2, <2>3, <2>4 DEF OlderAreSpent
    <2>6. sent[s] \in Nat
      BY <2>2, TokenRange
    <2> QED
      BY <1>1, <1>4, <2>2, <2>5, <2>6
  <1> QED
    BY <1>3, <1>4

-----------------------------------------------------------------------------
(***************************************************************************)
(* Logout, and who still holds a token that was replaced                   *)
(***************************************************************************)

\* A login that is over stays so.
LEMMA EndedStaysOver ==
    ASSUME TypeOK, Untouched, BlacklistExact, CarriesToken, EndedIsOver,
           NEW s \in Slots, Effect(s), NEW f \in Token, ended[f], ~loose'[f]
    PROVE  /\ \A t \in Token : t <= issued' /\ login_of'[t] = f => spent'[t] \/ left'[t] = 0
           /\ \A r \in Slots : pc'[r] = "load_user" => login_of'[sent'[r]] # f
  <1>1. /\ ~loose[f]
        /\ \A t \in Token : t <= issued /\ login_of[t] = f => spent[t] \/ left[t] = 0
        /\ \A r \in Slots : pc[r] = "load_user" => login_of[sent[r]] # f
    BY LooseStays DEF LooseGrows, EndedIsOver
  <1>2. ASSUME NEW t \in Token, t <= issued', login_of'[t] = f
        PROVE  spent'[t] \/ left'[t] = 0
    <2>1. CASE t <= issued
      <3>1. login_of[t] = f
        BY <1>2, <2>1, LoginsAreKept DEF LoginsKept
      <3> QED
        BY <1>1, <2>1, <3>1, SpentStays
    <2>2. CASE t = issued + 1
      <3>1. issued + 1 > issued
        BY TokenRange
      <3>2. ~ended[t]
        BY <2>2, <3>1 DEF Untouched
      <3>3. ~(Login(s) /\ login_of'[issued + 1] = issued + 1)
        BY <1>2, <2>2, <3>2
      <3>4. ~(LoadUser(s) /\ login_of'[issued + 1] = login_of[sent[s]])
        BY <1>1, <1>2, <2>2, LoadUserEffect
      <3>5. issued' = issued
        BY <3>3, <3>4, Issues
      <3> QED
        BY <1>2, <2>2, <3>1, <3>5, TokenRange
    <2>3. t <= issued \/ t = issued + 1
      BY <1>2, Issues, TokenRange
    <2> QED
      BY <2>1, <2>2, <2>3
  <1>3. ASSUME NEW r \in Slots, pc'[r] = "load_user", login_of'[sent'[r]] = f
        PROVE  FALSE
    <2>1. CASE r # s
      <3>1. pc[r] = "load_user" /\ sent'[r] = sent[r]
        BY <1>3, <2>1, OneFetchMoves DEF OthersWait
      <3>2. sent[r] \in Token /\ sent[r] <= issued
        BY <3>1, TokenRange DEF CarriesToken, TypeOK
      <3>3. login_of'[sent[r]] = login_of[sent[r]]
        BY <3>2, LoginsAreKept DEF LoginsKept
      <3> QED
        BY <1>1, <1>3, <3>1, <3>3
    <2>2. CASE r = s
      <3>1. CheckPasses(s)
        BY <1>3, <2>2, Arrivals
      <3>2. /\ sent[s] \in Token /\ left[sent[s]] # 0 /\ sent'[s] = sent[s]
            /\ UNCHANGED login_of
            /\ (spent[sent[s]] => loose'[login_of[sent[s]]])
        BY <3>1, CheckPassesEffect, SetSlotWaits DEF tokens
      <3>3. sent[s] <= issued /\ login_of[sent[s]] = f
        BY <1>3, <2>2, <3>2, TokenRange DEF TypeOK
      <3> QED
        BY <1>1, <3>2, <3>3
    <2> QED
      BY <2>1, <2>2
  <1> QED
    BY <1>2, <1>3

\* The logout with the newest token of a login ends it.
LEMMA LogoutEnds ==
    ASSUME TypeOK, Untouched, BlacklistExact, CarriesToken, OlderAreSpent,
           NEW s \in Slots, Logout(s), NEW f \in Token, f = login_of[sent[s]],
           ~spent[sent[s]], left[sent[s]] >= Second, Refreshing(f) = {}, ~loose[f]
    PROVE  /\ \A t \in Token : t <= issued /\ login_of[t] = f => spent'[t] \/ left[t] = 0
           /\ \A r \in Slots : pc'[r] = "load_user" => login_of[sent'[r]] # f
  <1>1. /\ sent[s] \in Token /\ sent[s] <= issued /\ sent[s] \in Nat
        /\ Blacklist(sent[s]) /\ OthersWait(s) /\ pc'[s] = "bye"
    BY LogoutEffect, SetSlotWaits, TokenRange
  <1>2. \A t \in Token : login_of[t] = f => ~BeingReplaced(t)
    BY TokenRange DEF BeingReplaced, Refreshing
  <1>3. spent'[sent[s]]
    BY <1>1, BlacklistEffect, SessionAssumption DEF Second, TypeOK
  <1>4. ASSUME NEW t \in Token, t <= issued, login_of[t] = f
        PROVE  spent'[t] \/ left[t] = 0
    <2>1. t \in Nat
      BY TokenRange
    <2>2. CASE t < sent[s]
      <3>1. spent[t] \/ left[t] = 0
        BY <1>1, <1>2, <1>4, <2>2 DEF OlderAreSpent
      <3>2. spent[t] => spent'[t]
        BY <1>1, <1>3, BlacklistEffect
      <3> QED
        BY <3>1, <3>2
    <2>3. CASE sent[s] < t
      <3>1. spent[sent[s]] \/ left[sent[s]] = 0
        BY <1>1, <1>2, <1>4, <2>3 DEF OlderAreSpent
      <3> QED
        BY <3>1 DEF Second
    <2> QED
      BY <1>1, <1>3, <2>1, <2>2, <2>3
  <1>5. ASSUME NEW r \in Slots, pc'[r] = "load_user"
        PROVE  login_of[sent'[r]] # f
    <2>1. pc[r] = "load_user" /\ sent'[r] = sent[r] /\ sent[r] \in Token
      BY <1>1, <1>5 DEF OthersWait, CarriesToken
    <2> QED
      BY <2>1, TokenRange DEF Refreshing
  <1> QED
    BY <1>4, <1>5

LEMMA EndedIsOverEffect ==
    ASSUME TypeOK, Untouched, BlacklistExact, CarriesToken, OlderAreSpent, EndedIsOver,
           NEW s \in Slots, Effect(s)
    PROVE  EndedIsOver'
  <1> SUFFICES ASSUME NEW f \in Token, ended'[f], ~loose'[f]
               PROVE  /\ \A t \in Token : t <= issued' /\ login_of'[t] = f
                                              => spent'[t] \/ left'[t] = 0
                      /\ \A r \in Slots : pc'[r] = "load_user" => login_of'[sent'[r]] # f
    BY DEF EndedIsOver
  <1>1. CASE ended[f]
    BY <1>1, EndedStaysOver
  <1>2. CASE ~ended[f]
    <2>1. Logout(s)
      BY <1>2, GivesUpEffect, AsksEffect, CheckPassesEffect, LoadUserEffect, RotateEffect,
         AnsweredEffect, LoginEffect DEF Effect
    <2>2. /\ ended' # ended
          /\ UNCHANGED <<issued, left, login_of, loose>>
      BY <1>2, <2>1, LogoutEffect
    <2>3. /\ ended' = [ended EXCEPT ![login_of[sent[s]]] = TRUE]
          /\ ~spent[sent[s]] /\ left[sent[s]] >= Second
          /\ Refreshing(login_of[sent[s]]) = {}
      BY <2>1, <2>2, LogoutEffect
    <2>4. f = login_of[sent[s]]
      BY <1>2, <2>3 DEF TypeOK
    <2> QED
      BY <2>1, <2>2, <2>3, <2>4, LogoutEnds
  <1> QED
    BY <1>1, <1>2

LEMMA QuitStays ==
    ASSUME TypeOK, CarriesToken, BlacklistExact, NEW s \in Slots, Effect(s), NEW f \in Token
    PROVE  quit[f] => quit'[f]
  <1>1. CASE Logout(s)
    BY <1>1, LogoutEffect DEF TypeOK
  <1> QED
    BY <1>1, GivesUpEffect, AsksEffect, CheckPassesEffect, LoadUserEffect, RotateEffect,
       AnsweredEffect, LoginEffect DEF Effect

LEMMA SpentIsNotHeldEffect ==
    ASSUME TypeOK, Untouched, BlacklistExact, CarriesToken, NewIsUnknown, OneRefresh,
           SpentIsNotHeld, NEW s \in Slots, Effect(s)
    PROVE  SpentIsNotHeld'
  <1> SUFFICES ASSUME NEW t \in Token, spent'[t], ~quit'[login_of'[t]],
                      ~loose'[login_of'[t]]
               PROVE  /\ cookie' = t => \E r \in Slots : pc'[r] = "answer" /\ sent'[r] = t
                      /\ \A r \in Slots : pc'[r] = "check" => sent'[r] # t
    BY DEF SpentIsNotHeld
  <1>1. spent[t] \/ (t = sent[s] /\ (Rotate(s) \/ Logout(s)))
    <2>1. Rotate(s) \/ Logout(s) => spent[t] \/ t = sent[s]
      BY RotateEffect, LogoutEffect, BlacklistEffect
    <2> QED
      BY <2>1, GivesUpEffect, AsksEffect, CheckPassesEffect, LoadUserEffect,
         AnsweredEffect, LoginEffect DEF Effect
  <1>2. t <= issued /\ t # NoToken
    <2>1. spent[t] => t <= issued
      BY TokenRange DEF Untouched
    <2> QED
      BY <1>1, <2>1, TokenRange DEF TypeOK
  <1> DEFINE g == login_of[t]
  <1>3. g \in Token /\ login_of'[t] = g /\ ~quit[g] /\ ~loose[g]
        /\ ~quit'[g] /\ ~loose'[g]
    BY <1>2, LoginsAreKept, LooseStays, QuitStays DEF LoginsKept, LooseGrows, TypeOK
  <1>4. OthersWait(s)
    BY OneFetchMoves
  <1> HIDE DEF g
  <1>5. CASE spent[t]
    <2>1. cookie = t => \E r \in Slots : pc[r] = "answer" /\ sent[r] = t
      BY <1>3, <1>5 DEF SpentIsNotHeld, g
    <2>2. \A r \in Slots : pc[r] = "check" => sent[r] # t
      BY <1>3, <1>5 DEF SpentIsNotHeld, g
    <2>3. ASSUME cookie' = t
          PROVE  \E r \in Slots : pc'[r] = "answer" /\ sent'[r] = t
      <3>1. ~Answered(s)
        BY <1>5, <2>3, AnsweredEffect DEF NewIsUnknown, Replacing
      <3>2. cookie = t
        BY <1>2, <2>3, <3>1, GivesUpEffect, AsksEffect, CheckPassesEffect, LoadUserEffect,
           RotateEffect, LoginEffect, LogoutEffect DEF Effect
      <3>3. PICK r \in Slots : pc[r] = "answer" /\ sent[r] = t
        BY <2>1, <3>2
      <3>4. r # s
        <4>1. ASSUME r = s
              PROVE  GivesUp(s)
          BY <3>1, <3>3, <4>1, AsksEffect, CheckPassesEffect, LoadUserEffect,
             RotateEffect, LoginEffect, LogoutEffect DEF Effect, Busy
        <4>2. login_of[new[r]] = g
          BY <1>2, <3>3 DEF NewIsUnknown, Replacing, g
        <4> QED
          BY <1>3, <3>3, <4>1, <4>2, GivesUpEffect
      <3> QED
        BY <1>4, <3>3, <3>4 DEF OthersWait
    <2>4. ASSUME NEW r \in Slots, pc'[r] = "check", sent'[r] = t
          PROVE  FALSE
      <3>1. r = s
        BY <1>4, <2>2, <2>4 DEF OthersWait
      <3>2. Asks(s) /\ cookie = t
        BY <2>4, <3>1, Arrivals, AsksEffect
      <3>3. PICK q \in Slots : pc[q] = "answer" /\ sent[q] = t
        BY <2>1, <3>2
      <3>4. q \in Refreshing(g)
        BY <1>2, <3>3 DEF Refreshing, g
      <3> QED
        BY <1>2, <1>3, <3>2, <3>4, AsksEffect DEF g
    <2> QED
      BY <2>3, <2>4
  <1>6. CASE t = sent[s] /\ Rotate(s)
    <2>1. pc[s] = "rotate" /\ pc'[s] = "answer" /\ sent'[s] = t
      BY <1>6, RotateEffect, SetSlotWaits
    <2>2. ASSUME NEW r \in Slots, pc'[r] = "check", sent'[r] = t
          PROVE  FALSE
      <3>1. r # s /\ pc[r] = "check" /\ sent[r] = t
        BY <1>4, <2>1, <2>2 DEF OthersWait
      <3>2. r \in Refreshing(g) /\ s \in Refreshing(g)
        BY <1>2, <1>6, <2>1, <3>1 DEF Refreshing, g
      <3> QED
        BY <1>3, <3>1, <3>2 DEF OneRefresh
    <2> QED
      BY <2>1, <2>2
  <1>7. CASE t = sent[s] /\ Logout(s)
    <2>1. quit'[g]
      BY <1>3, <1>7, LogoutEffect DEF g, TypeOK
    <2> QED
      BY <1>3, <2>1
  <1> QED
    BY <1>1, <1>5, <1>6, <1>7

-----------------------------------------------------------------------------
(***************************************************************************)
(* All steps                                                               *)
(***************************************************************************)

LEMMA InitCoreInv == Init => CoreInv
  <1> SUFFICES ASSUME Init PROVE CoreInv
    OBVIOUS
  <1>1. TypeOK
    BY InitTypes
  <1>2. Untouched /\ BlacklistExact
    BY DEF Init, Untouched, BlacklistExact
  <1>3. CarriesToken /\ NewIsUnknown /\ NewestIsReplaced
    BY DEF Init, CarriesToken, NewIsUnknown, NewestIsReplaced, Replacing
  <1>4. OneRefresh
    BY DEF Init, OneRefresh, Refreshing
  <1>5. OlderAreSpent /\ EndedIsOver /\ SpentIsNotHeld
    BY DEF Init, OlderAreSpent, EndedIsOver, SpentIsNotHeld
  <1> QED
    BY <1>1, <1>2, <1>3, <1>4, <1>5 DEF CoreInv

\* The clock takes no token's life but its own, and moves no fetch.
LEMMA TickCore ==
    ASSUME CoreInv, Tick
    PROVE  Untouched' /\ CarriesToken' /\ NewIsUnknown' /\ OneRefresh' /\ OlderAreSpent'
           /\ NewestIsReplaced' /\ EndedIsOver' /\ SpentIsNotHeld'
  <1>1. /\ UNCHANGED <<issued, login_of, cookie, pc, sent, new,
                       spent, loose, quit, ended>>
        /\ \A t \in Token : /\ left[t] = 0 => left'[t] = 0
                            /\ blacklist[t] = 0 => blacklist'[t] = 0
    BY DEF Tick, history, Down
  <1>2. Untouched'
    BY <1>1 DEF CoreInv, Untouched
  <1>3. CarriesToken' /\ NewIsUnknown' /\ NewestIsReplaced' /\ SpentIsNotHeld'
    BY <1>1 DEF CoreInv, CarriesToken, NewIsUnknown, NewestIsReplaced, SpentIsNotHeld
  <1>4. OneRefresh'
    BY <1>1 DEF CoreInv, OneRefresh, Refreshing
  <1>5. OlderAreSpent' /\ EndedIsOver'
    BY <1>1 DEF CoreInv, OlderAreSpent, EndedIsOver, BeingReplaced
  <1> QED
    BY <1>2, <1>3, <1>4, <1>5

LEMMA CoreStep == CoreInv /\ [Next]_vars => CoreInv'
  <1> SUFFICES ASSUME CoreInv, [Next]_vars PROVE CoreInv'
    OBVIOUS
  <1> USE DEF CoreInv
  <1>1. TypeOK'
    BY TypeStep
  <1>2. CASE UNCHANGED Core
    <2>1. UNCHANGED <<issued, left, blacklist, login_of, cookie, pc, sent, new,
                      spent, loose, quit, ended>>
      BY <1>2 DEF Core, tokens
    <2>2. Untouched' /\ BlacklistExact' /\ CarriesToken' /\ NewIsUnknown'
      BY <2>1 DEF Untouched, BlacklistExact, CarriesToken, NewIsUnknown
    <2>3. OneRefresh' /\ OlderAreSpent' /\ NewestIsReplaced'
      BY <2>1 DEF OneRefresh, OlderAreSpent, NewestIsReplaced, Refreshing, BeingReplaced
    <2>4. EndedIsOver' /\ SpentIsNotHeld'
      BY <2>1 DEF EndedIsOver, SpentIsNotHeld
    <2> QED
      BY <1>1, <2>2, <2>3, <2>4
  <1>3. CASE Tick
    BY <1>1, <1>3, TickCore, BlacklistExactTick
  <1>4. ASSUME NEW s \in Slots, Effect(s)
        PROVE  CoreInv'
    <2>1. Untouched' /\ BlacklistExact' /\ CarriesToken' /\ NewIsUnknown'
      BY <1>4, UntouchedEffect, BlacklistExactEffect, CarriesTokenEffect,
         NewIsUnknownEffect
    <2>2. OneRefresh' /\ OlderAreSpent' /\ NewestIsReplaced'
      BY <1>4, OneRefreshEffect, OlderAreSpentEffect, NewestIsReplacedEffect
    <2>3. EndedIsOver' /\ SpentIsNotHeld'
      BY <1>4, EndedIsOverEffect, SpentIsNotHeldEffect
    <2> QED
      BY <1>1, <2>1, <2>2, <2>3
  <1> QED
    BY <1>2, <1>3, <1>4, NextEffects DEF Effect

LEMMA CoreInvariance == Spec => []CoreInv
  BY InitCoreInv, CoreStep, PTL DEF Spec

\* Only the check of a refresh refuses a fetch as logged out.
LEMMA Drops ==
    ASSUME CoreInv, [Next]_vars
    PROVE  UNCHANGED dropped \/ \E s \in Slots : CheckRefuses(s)
  <1>1. CASE UNCHANGED vars
    BY <1>1 DEF vars, history
  <1>2. CASE Tick \/ \E b \in Tabs : Reload(b)
    BY <1>2 DEF Tick, Reload, history
  <1>3. ASSUME NEW s \in Slots, NEW b \in Tabs, Page(s, b)
        PROVE  UNCHANGED dropped
    BY <1>3 DEF Page, BeginLoad, BeginCall, BeginLogin, BeginLogout, history
  <1>4. ASSUME NEW s \in Slots, Step(s), ~CheckRefuses(s)
        PROVE  UNCHANGED dropped
    <2>1. CASE CallRefused(s) \/ CallAbandoned(s) \/ CheckFails(s) \/ CheckPasses(s)
                 \/ LoadUserFails(s) \/ LoadUser(s)
      BY <2>1 DEF CallRefused, CallAbandoned, CheckFails, CheckPasses, LoadUserFails,
                  LoadUser, history
    <2>2. CASE Rotate(s) \/ RotateFails(s) \/ Answered(s) \/ AnswerLost(s) \/ Me(s)
      BY <2>2 DEF Rotate, RotateFails, Answered, AnswerLost, Me, history
    <2>3. CASE Login(s) \/ LoginFails(s) \/ LogoutFails(s) \/ Logout(s) \/ LogoutOnly(s)
                 \/ Bye(s)
      BY <2>3 DEF Login, LoginFails, LogoutFails, Logout, LogoutOnly, Bye, history
    <2> QED
      BY <1>4, <2>1, <2>2, <2>3 DEF Step
  <1> QED
    BY <1>1, <1>2, <1>3, <1>4 DEF Next

\* What explains a refusal is not forgotten.
LEMMA ExplanationStays ==
    ASSUME CoreInv, [Next]_vars, NEW f \in Token, quit[f] \/ loose[f]
    PROVE  quit'[f] \/ loose'[f]
  <1> USE DEF CoreInv
  <1>1. CASE UNCHANGED Core \/ Tick
    BY <1>1 DEF Core, Tick, history
  <1>2. ASSUME NEW s \in Slots, Effect(s)
        PROVE  quit'[f] \/ loose'[f]
    BY <1>2, QuitStays, LooseStays DEF LooseGrows
  <1> QED
    BY <1>1, <1>2, NextEffects DEF Effect

LEMMA RefusedStep ==
    CoreInv /\ RefusedOnlyAfterLogout /\ [Next]_vars => RefusedOnlyAfterLogout'
  <1> SUFFICES ASSUME CoreInv, RefusedOnlyAfterLogout, [Next]_vars,
                      NEW f \in Token, dropped'[f]
               PROVE  quit'[f] \/ loose'[f]
    BY DEF RefusedOnlyAfterLogout
  <1>1. CASE dropped[f]
    BY <1>1, ExplanationStays DEF RefusedOnlyAfterLogout
  <1>2. ASSUME NEW s \in Slots, CheckRefuses(s), ~dropped[f]
        PROVE  quit[f] \/ loose[f]
    <2>1. /\ pc[s] = "check" /\ sent[s] \in Token /\ blacklist[sent[s]] > 0
          /\ f = login_of[sent[s]]
      BY <1>2, TokenRange DEF CheckRefuses, Valid, CoreInv, TypeOK
    <2>2. spent[sent[s]]
      BY <2>1 DEF CoreInv, BlacklistExact
    <2> QED
      BY <2>1, <2>2 DEF CoreInv, SpentIsNotHeld
  <1> QED
    BY <1>1, <1>2, Drops, ExplanationStays

-----------------------------------------------------------------------------
(***************************************************************************)
(* Theorems                                                                *)
(***************************************************************************)

\* Every token, fetch and tab keeps its type.
THEOREM TypeCorrect == Spec => []TypeOK
  BY CoreInvariance, PTL DEF CoreInv

\* A token that was blacklisted stays in the blacklist until its last second, and
\* no key of the blacklist outlives its token.
THEOREM BlacklistHolds == Spec => []BlacklistCoversToken
  <1>1. CoreInv => BlacklistCoversToken
    <2> SUFFICES ASSUME CoreInv, NEW t \in Token
                 PROVE  /\ spent[t] => blacklist[t] > 0 \/ left[t] < Second
                        /\ blacklist[t] <= left[t]
      BY DEF BlacklistCoversToken
    <2>1. left[t] \in Nat /\ blacklist[t] \in Nat
      BY SessionAssumption DEF CoreInv, TypeOK
    <2> QED
      BY <2>1 DEF CoreInv, BlacklistExact, Second
  <1> QED
    BY <1>1, CoreInvariance, PTL

\* However many tabs and fetches use a login: one token of it opens a session, and
\* one that is being replaced, unless refreshes overlapped, one failed half-way, or
\* a token was used in its last second.
THEOREM RotationReplaces == Spec => []OneLiveToken
  <1>1. CoreInv => OneLiveToken
    <2> SUFFICES ASSUME CoreInv, NEW t \in Token, NEW u \in Token,
                        login_of[t] = login_of[u], ~loose[login_of[t]],
                        Live(t), Live(u),
                        \A s \in Slots : pc[s] = "rotate" => sent[s] \notin {t, u},
                        t # u
                 PROVE  FALSE
      BY DEF OneLiveToken
    <2>1. \A v \in Token : Live(v) => v <= issued /\ ~spent[v] /\ left[v] # 0
      <3> SUFFICES ASSUME NEW v \in Token, Live(v)
                   PROVE  v <= issued /\ ~spent[v] /\ left[v] # 0
        OBVIOUS
      <3>1. left[v] \in Nat /\ left[v] >= 2 /\ blacklist[v] = 0
        BY SessionAssumption DEF CoreInv, TypeOK, Live, Second
      <3>2. ~(v > issued)
        BY <3>1 DEF CoreInv, Untouched
      <3>3. ~spent[v]
        BY <3>1 DEF CoreInv, BlacklistExact
      <3> QED
        BY <3>1, <3>2, <3>3, TokenRange DEF CoreInv
    <2>2. ~BeingReplaced(t) /\ ~BeingReplaced(u)
      BY DEF BeingReplaced
    <2>3. t < u \/ u < t
      BY TokenRange DEF CoreInv
    <2> QED
      BY <2>1, <2>2, <2>3 DEF CoreInv, OlderAreSpent
  <1> QED
    BY <1>1, CoreInvariance, PTL

\* After a logout with the last token of a login, and no refresh of it under way,
\* no token opens a session of that login again, with the same exceptions.
THEOREM LogoutIsFinal == Spec => []LogoutEndsLogin
  <1>1. CoreInv => LogoutEndsLogin
    <2> SUFFICES ASSUME CoreInv, NEW f \in Token, ended[f], ~loose[f],
                        NEW t \in Token, login_of[t] = f, Live(t)
                 PROVE  FALSE
      BY DEF LogoutEndsLogin
    <2>1. left[t] \in Nat /\ left[t] >= 2 /\ blacklist[t] = 0
      BY SessionAssumption DEF CoreInv, TypeOK, Live, Second
    <2>2. t <= issued
      BY <2>1, TokenRange DEF CoreInv, Untouched
    <2>3. ~spent[t]
      BY <2>1 DEF CoreInv, BlacklistExact
    <2> QED
      BY <2>1, <2>2, <2>3 DEF CoreInv, EndedIsOver
  <1> QED
    BY <1>1, CoreInvariance, PTL

\* A tab is refused as logged out only after a logout, overlapping refreshes, or a
\* refresh whose answer was lost.
THEOREM RefusalIsExplained == Spec => []RefusedOnlyAfterLogout
  <1>1. Init => RefusedOnlyAfterLogout
    BY DEF Init, RefusedOnlyAfterLogout
  <1> QED
    BY <1>1, RefusedStep, CoreInvariance, PTL DEF Spec
=============================================================================

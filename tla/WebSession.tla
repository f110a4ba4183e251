----------------------------- MODULE WebSession -----------------------------
(***************************************************************************)
(* The session of one user in a browser (auth-store.ts, api/client.ts,     *)
(* the stream hooks): pages of the same app share the refresh cookie, and  *)
(* each page holds an access token in memory.  Whoever meets a 401 on a    *)
(* page - bootstrap, a fetch, a stream - waits for that page's one refresh *)
(* and logs out if it fails.                                               *)
(*                                                                         *)
(* A page gives a refresh up after REFRESH_TIMEOUT_MS, and a reload forgets *)
(* all of it; the request then goes on in the service and nobody sees its  *)
(* answer.                                                                 *)
(***************************************************************************)
EXTENDS RefreshTokens

CONSTANTS
  Pages,               \* pages of the app
  Callers, Streams,    \* the fetches of a page and its event streams; the latter
  AccessTtl            \* jwtAccessTtl, in ticks

ASSUME SessionAssumption ==
  Streams \subseteq Callers /\ AccessTtl \in Nat /\ Grace <= AccessTtl

VARIABLES
  jar,                 \* the refresh cookie, 0 if there is none
  open,                \* pages that were loaded
  access,              \* the tick a page's access token ends, 0 if it has none
  refreshing,          \* the request a page's single flight waits for, or 0
  caller,              \* what each fetch or stream of a page is doing
  login,               \* a login under way: its page and the token it was issued
  logout,              \* a logout under way, with the cookie it carries
  lost,                \* a page has given a refresh up, or forgot it
  signedOut            \* a logout has revoked a token

history == <<lost, signedOut>>
pageVars == <<jar, open, access, refreshing, caller, login, logout, history>>
vars == <<tokenVars, pageVars>>

\* "stale": it sent a token that is not valid (any more); "retry": the refresh
\* it waited for succeeded; "failed": it did not, or the retry met a 401.
CallerSteps == {"idle", "stale", "waiting", "retry", "failed"}

TypeOK ==
  /\ TokensTypeOK
  /\ jar \in Token /\ open \subseteq Pages
  /\ access \in [Pages -> 0 .. MaxClock + AccessTtl]
  /\ refreshing \in [Pages -> Requests \cup {0}]
  /\ caller \in [Pages \X Callers -> CallerSteps]
  /\ login \in [page : Pages, token : Token]
  /\ logout \in [step : {"none", "sent", "revoked"}, token : Token]
  /\ lost \in BOOLEAN /\ signedOut \in BOOLEAN

Init ==
  /\ TokensInit
  /\ jar = 1 /\ open = {} /\ lost = FALSE /\ signedOut = FALSE
  /\ access = [p \in Pages |-> 0]
  /\ refreshing = [p \in Pages |-> 0]
  /\ caller = [x \in Pages \X Callers |-> "idle"]
  /\ login = [page |-> CHOOSE p \in Pages : TRUE, token |-> 0]
  /\ logout = [step |-> "none", token |-> 0]

Valid(p) == access[p] > clock

-----------------------------------------------------------------------------
(* The page.                                                               *)

\* refreshAuthSession: start a refresh with the cookie as it is now, or share
\* the one under way.
FreshRequest(r) ==
  /\ refresh[r].step = "unsent"
  /\ \A s \in Requests : refresh[s].step = "unsent" => r <= s

StartRefresh(p) ==
  \E r \in Requests :
    FreshRequest(r) /\ SendRefresh(r, jar) /\ refreshing' = [refreshing EXCEPT ![p] = r]

\* (RefreshAlone is the form in which each caller refreshes for itself.)
RefreshAlone(p) == StartRefresh(p)
refreshAuthSession(p) ==
  IF refreshing[p] = 0 THEN StartRefresh(p) ELSE UNCHANGED <<refresh, refreshing>>

\* Load, or reload, a page: its memory is gone, bootstrap refreshes.
Load(p) ==
  /\ lost' = (lost \/ p \in open)
  /\ open' = open \cup {p}
  /\ access' = [access EXCEPT ![p] = 0]
  /\ caller' = [x \in Pages \X Callers |-> IF x[1] = p THEN "idle" ELSE caller[x]]
  /\ login' = IF login.page = p THEN [login EXCEPT !.token = 0] ELSE login
  /\ StartRefresh(p)
  /\ UNCHANGED <<rows, clock, jar, logout, signedOut>>

\* A fetch may have no token at all; a stream is opened with one.
Call(p, c) ==
  /\ p \in open /\ caller[<<p, c>>] = "idle" /\ ~Valid(p)
  /\ c \in Streams => access[p] # 0
  /\ caller' = [caller EXCEPT ![<<p, c>>] = "stale"]
  /\ UNCHANGED <<tokenVars, jar, open, access, refreshing, login, logout, history>>

\* The 401 arrives, possibly after the page has a new token.
Unauthorized(p, c) ==
  /\ caller[<<p, c>>] = "stale"
  /\ refreshAuthSession(p)
  /\ caller' = [caller EXCEPT ![<<p, c>>] = "waiting"]
  /\ UNCHANGED <<rows, clock, jar, open, access, login, logout, history>>

\* The answer arrives: its cookie is stored or cleared, and everyone who
\* shared the refresh goes on.
Settle(p, ok) ==
  /\ refreshing' = [refreshing EXCEPT ![p] = 0]
  /\ caller' = [x \in Pages \X Callers |->
       IF x[1] = p /\ caller[x] = "waiting" THEN IF ok THEN "retry" ELSE "failed"
       ELSE caller[x]]

\* (KeepCookie is the form in which the new cookie is not stored, NeverGivesUp
\* the one in which the fetch has no time limit.)
KeepCookie(p) ==
  /\ refreshing[p] # 0
  /\ LET answer == refresh[refreshing[p]]
     IN /\ answer.step = "ok"
        /\ access' = [access EXCEPT ![p] = clock + AccessTtl]
        /\ Settle(p, TRUE)
  /\ UNCHANGED <<tokenVars, jar, open, login, logout, history>>

RefreshAnswered(p) ==
  /\ refreshing[p] # 0
  /\ LET answer == refresh[refreshing[p]]
     IN /\ answer.step \in Answers
        /\ jar' = answer.row
        /\ access' = IF answer.step = "ok"
                       THEN [access EXCEPT ![p] = clock + AccessTtl] ELSE access
        /\ Settle(p, answer.step = "ok")
  /\ UNCHANGED <<tokenVars, open, login, logout, history>>

NeverGivesUp(p) == FALSE
RefreshTimeout(p) ==
  /\ refreshing[p] # 0
  /\ Settle(p, FALSE)
  /\ lost' = TRUE
  /\ UNCHANGED <<tokenVars, jar, open, access, login, logout, signedOut>>

\* A fetch is repeated once; a stream is opened anew by the new token.
Retry(p, c) ==
  /\ caller[<<p, c>>] = "retry"
  /\ caller' = [caller EXCEPT ![<<p, c>>] =
                  IF Valid(p) \/ c \in Streams THEN "idle" ELSE "failed"]
  /\ UNCHANGED <<tokenVars, jar, open, access, refreshing, login, logout, history>>

\* logout(): the page forgets its token at once; the request is not awaited.
\* (Bound: one such request, and one login, is under way at a time.)
SignOut(p) ==
  /\ logout.step = "none"
  /\ access' = [access EXCEPT ![p] = 0]
  /\ logout' = [step |-> "sent", token |-> jar]
  /\ UNCHANGED <<tokenVars, jar, open, refreshing, login, history>>

CallerSignsOut(p, c) ==
  /\ caller[<<p, c>>] = "failed" /\ SignOut(p)
  /\ caller' = [caller EXCEPT ![<<p, c>>] = "idle"]

UserSignsOut(p) == Valid(p) /\ SignOut(p) /\ UNCHANGED caller

LogoutServed ==
  /\ logout.step = "sent"
  /\ Revoke(logout.token)
  /\ logout' = [logout EXCEPT !.step = "revoked"]
  /\ signedOut' = (signedOut \/ logout.token # 0)
  /\ UNCHANGED <<refresh, clock, jar, open, access, refreshing, caller, login, lost>>

LogoutAnswered ==
  /\ logout.step = "revoked"
  /\ jar' = 0
  /\ logout' = [step |-> "none", token |-> 0]
  /\ UNCHANGED <<tokenVars, open, access, refreshing, caller, login, history>>

\* The login screen is up once bootstrap has settled without a token.
Login(p) ==
  /\ p \in open /\ access[p] = 0 /\ refreshing[p] = 0 /\ login.token = 0
  /\ Issue
  /\ login' = [page |-> p, token |-> Len(rows) + 1]
  /\ UNCHANGED <<refresh, clock, jar, open, access, refreshing, caller, logout, history>>

LoginAnswered ==
  /\ login.token # 0
  /\ jar' = login.token
  /\ access' = [access EXCEPT ![login.page] = clock + AccessTtl]
  /\ login' = [login EXCEPT !.token = 0]
  /\ UNCHANGED <<tokenVars, open, refreshing, caller, logout, history>>

PageStep(p) ==
  \/ RefreshAnswered(p) \/ RefreshTimeout(p)
  \/ \E c \in Callers : Unauthorized(p, c) \/ Retry(p, c) \/ CallerSignsOut(p, c)

People ==
  \E p \in Pages :
    \/ Load(p) \/ UserSignsOut(p) \/ Login(p)
    \/ \E c \in Callers : Call(p, c)

Identity ==
  \/ \E r \in Requests : HandleRefresh(r) /\ UNCHANGED <<clock, pageVars>>
  \/ LogoutServed \/ LogoutAnswered \/ LoginAnswered

TimePasses == Tick /\ UNCHANGED <<rows, refresh, pageVars>>

Next == (\E p \in Pages : PageStep(p)) \/ People \/ Identity \/ TimePasses

Spec == Init /\ [][Next]_vars

\* The timer of a refresh runs in the page, so it fires whatever the service
\* does.  Nothing is assumed of the service or of people.
FairSpec ==
  Spec /\ \A p \in Pages : WF_vars(RefreshAnswered(p) \/ RefreshTimeout(p))

-----------------------------------------------------------------------------
(* Properties.                                                             *)

Sent(r) == refresh[r].step # "unsent" /\ refresh[r].token # 0
Family(t) == {u \in DOMAIN rows : rows[u].family = rows[t].family}

\* The grace window does what its service says it is for (refresh-token.service.ts:36,
\* "a benign race"): within it, pages that race, reload or give up never end a
\* session, only a sign-out does.  The web packages' own comments expect the opposite
\* (SecondUseIsRefused, below); the code of the service decides.
BenignRaceKeepsSession ==
  clock < Grace /\ ~signedOut => \A t \in DOMAIN rows : rows[t].status # "revoked"

\* What auth-store.ts:89 says of the cookie: "a second *concurrent* use is treated as
\* token reuse and revokes the whole family" (and :75, "double-spending ... would
\* revoke the family").  TLC refutes this: both are answered with a new token, within
\* the window or when both read the row before either rotates it.
SecondUseIsRefused ==
  \A r, s \in Requests :
    r # s /\ Sent(r) /\ refresh[r].token # 0 /\ refresh[r].token = refresh[s].token
      => ~(refresh[r].step = "ok" /\ refresh[s].step = "ok")

\* A family nobody revoked and that has not run out always has a live token,
\* in the middle of any number of rotations: a graced request finds one.
FamilyStaysUsable ==
  \A t \in DOMAIN rows :
    (\A u \in Family(t) : rows[u].status \in {"active", "rotated"} /\ ~Expired(u))
      => LiveOf(t) # {}

\* The single flight: on one page whose refreshes are all answered, no token
\* is presented twice, however many fetches and streams meet a 401 and
\* whenever their answers arrive ("share ONE /auth/refresh").
SpentOnce ==
  (\E p \in Pages : open = {p}) /\ ~lost =>
    \A r, s \in Requests :
      Sent(r) /\ Sent(s) /\ r # s => refresh[r].token # refresh[s].token

\* On such a page, and while nobody signs out, the cookie at rest is the live
\* token of its family or one that has run out.
CookieIsLive ==
  \A p \in Pages :
    open = {p} /\ ~lost /\ jar # 0 /\ refreshing[p] = 0 /\ login.token = 0
      /\ logout.step = "none" /\ ~signedOut
    => rows[jar].status = "active" \/ Expired(jar)

\* Together: no cookie is spent twice, and the one left behind is good.
CookieIsGood == SpentOnce /\ CookieIsLive

\* Whoever waits for a refresh stops waiting: an identity service that hangs
\* wedges neither bootstrap nor a fetch nor a stream.
WaitersSettle ==
  \A p \in Pages, c \in Callers :
    (caller[<<p, c>>] = "waiting") ~> (caller[<<p, c>>] # "waiting")
=============================================================================

------------------------------ MODULE LoginFlow ------------------------------
(***************************************************************************)
(* The login of a browser (api/auth): a frontend hands out a signed state   *)
(* and keeps it in a cookie, the identity provider sends the browser back   *)
(* with a code, any frontend behind the load balancer takes the callback    *)
(* and exchanges the code for an IAM token, which it keeps in a cookie.     *)
(* Each frontend process signs with a key of its own.                       *)
(***************************************************************************)
EXTENDS GoValues, Integers

CONSTANTS
    Tabs,          \* tabs of one browser, which share its cookies
    Frontends,     \* frontend processes
    StateTTL,      \* lifetime of the state and of its cookies, in ticks
    MaxLoginClock  \* bound: ticks

VARIABLES
    clock,          \* the clock
    stateCookie,   \* [state, until], state None when the cookie is not set
    nextCookie,    \* the tab whose target is in the cookie, or None
    tokenCookie,   \* "none", "token", "expired": the token may outlive its cookie or not
    answered,      \* the status of the last request that is no login
    granted,       \* target tenants the token proxy obtained a token for
    tabs,          \* [Tabs -> where the tab is: its state is [tab, by, at]]
    outcome        \* [Tabs -> what its callback was answered, and where it led]

loginVars == <<clock, stateCookie, nextCookie, tokenCookie, tabs, outcome, answered, granted>>
flowOnly == <<answered, granted>>

NoOutcome == [answer |-> "none", next |-> None, timely |-> FALSE, same |-> FALSE]
NoState == [tab |-> None, by |-> None, at |-> 0]
MoveTab(t, pc, state) == tabs' = [tabs EXCEPT ![t] = [pc |-> pc, state |-> state]]
Cookie == IF clock <= stateCookie.until THEN stateCookie.state ELSE NoState

\* getAuthURLFromIAM: the browser goes to the provider, or stays on a failure.
GetAuthURLFromIAM(t, ok, state) == MoveTab(t, IF ok THEN "provider" ELSE "start", IF ok THEN state ELSE NoState)

\* LoginHandler and RegisterHandler: the cookies are set before IAM is asked for the URL.
Login(t, f, ok) ==
    /\ tabs[t].pc = "start"
    /\ LET s == [tab |-> t, by |-> f, at |-> clock]
       IN  /\ stateCookie' = [state |-> s, until |-> clock + StateTTL]
           /\ GetAuthURLFromIAM(t, ok, s)
    /\ nextCookie' = t
    /\ UNCHANGED <<clock, tokenCookie, outcome, flowOnly>>

\* Faulty variant: only the cookie counts.
CookieOnly(s, f) == s = Cookie

\* isValidOAuthState: the state of the cookie, or one this process has signed and that
\* is not too old.
IsValidOAuthState(s, f) == s = Cookie \/ (s.by = f /\ clock - s.at <= StateTTL)

\* exchangeCodeForIamToken: no code is no exchange, and IAM may refuse it.
ExchangeCodeForIamToken(code) == IF code = "ok" THEN "in" ELSE "failed"

\* CallbackHandler: both cookies go as soon as the state is accepted; the code may be
\* missing (the user refused) or its exchange fail.
Callback(t, f, code) ==
    /\ tabs[t].pc = "provider"
    /\ LET s == tabs[t].state
           valid == IsValidOAuthState(s, f)
       IN  /\ outcome' = [outcome EXCEPT ![t] =
                  [answer |-> IF valid THEN ExchangeCodeForIamToken(code) ELSE "invalid state",
                   next |-> IF valid /\ code = "ok" THEN nextCookie ELSE None,
                   timely |-> clock - s.at <= StateTTL, same |-> s.by = f]]
           /\ IF valid THEN /\ stateCookie' = [state |-> NoState, until |-> 0] /\ nextCookie' = None
                            /\ tokenCookie' = IF code = "ok" THEN "token" ELSE tokenCookie
              ELSE UNCHANGED <<stateCookie, nextCookie, tokenCookie>>
    /\ MoveTab(t, "back", NoState)
    /\ UNCHANGED <<clock, flowOnly>>

\* LogoutHandler
Logout ==
    /\ tokenCookie # "none" /\ tokenCookie' = "none"
    /\ UNCHANGED <<clock, stateCookie, nextCookie, tabs, outcome, flowOnly>>

\* loginWithPassword
LoginWithPassword(ok) == IF ok THEN [token |-> "token", status |-> 200] ELSE [token |-> tokenCookie, status |-> 401]

\* DirectTokenHandler: the password login sets the cookie as well.
DirectToken(ok) ==
    /\ tokenCookie' = LoginWithPassword(ok).token
    /\ answered' = LoginWithPassword(ok).status
    /\ UNCHANGED <<clock, stateCookie, nextCookie, tabs, outcome, granted>>

\* exchangeForIamToken
ExchangeForIamToken(iam) == IF iam = "ok" THEN 200 ELSE 500

\* TokenExchangeHandler: the token is answered and not kept in the cookie.
TokenExchange(iam) ==
    /\ answered' = IF iam = "bad body" THEN 400 ELSE ExchangeForIamToken(iam)
    /\ UNCHANGED <<clock, stateCookie, nextCookie, tokenCookie, tabs, outcome, granted>>

\* The token in the cookie is over before the cookie is.
TokenExpires ==
    /\ tokenCookie = "token" /\ tokenCookie' = "expired"
    /\ UNCHANGED <<clock, stateCookie, nextCookie, tabs, outcome, flowOnly>>

\* UserHandler
User ==
    /\ answered' = IF tokenCookie = "token" THEN 200 ELSE 401
    /\ UNCHANGED <<clock, stateCookie, nextCookie, tokenCookie, tabs, outcome, granted>>

\* validateOperatorToken: a valid developer token of tenant 0.
ValidateOperatorToken(token) ==
    CASE token.parsed /\ token.valid /\ token.sub = "0" /\ token.role = "developer" -> 200
      [] ~(token.parsed /\ token.valid) -> 401
      [] OTHER -> 403

\* parseTokenProxyTTL: -1 is a token that never expires.
ParseTokenProxyTTL(ttl) == ttl = None \/ ttl = -1 \/ ttl > 0

\* validateTargetTokenProxyTenantID: tenant 0 cannot be asked for.
ValidTarget(tenant) == tenant \notin {"", "0"}

\* writeTokenProxyIAMError: the statuses passed on; every other one is a bad gateway.
ProxyStatus(iam) == IF iam \in {200, 400, 403, 404, 500} THEN iam ELSE 502

\* RequireTokenProxyHandler
RequireTokenProxy(token, tenant, role, ttl, iam) ==
    /\ LET operator == ValidateOperatorToken(token)
           status == CASE operator # 200 -> operator
                       [] ~(ValidTarget(tenant) /\ role = "developer" /\ ParseTokenProxyTTL(ttl)) -> 400
                       [] OTHER -> ProxyStatus(iam)
       IN  /\ answered' = status
           /\ granted' = IF status = 200 THEN granted \cup {tenant} ELSE granted
    /\ UNCHANGED <<clock, stateCookie, nextCookie, tokenCookie, tabs, outcome>>

\* AbandonTokenProxyHandler: not supported, a token ends with its lifetime.
AbandonTokenProxy(tenant) ==
    /\ answered' = IF ValidTarget(tenant) THEN 501 ELSE 400
    /\ UNCHANGED <<clock, stateCookie, nextCookie, tokenCookie, tabs, outcome, granted>>

\* The tab is used for another login.
Again(t) ==
    /\ tabs[t].pc = "back"
    /\ MoveTab(t, "start", NoState)
    /\ outcome' = [outcome EXCEPT ![t] = NoOutcome]
    /\ UNCHANGED <<clock, stateCookie, nextCookie, tokenCookie, flowOnly>>

ClockTick ==
    /\ clock < MaxLoginClock /\ clock' = clock + 1
    /\ UNCHANGED <<stateCookie, nextCookie, tokenCookie, tabs, outcome, flowOnly>>

\* The tokens a caller of the token proxy may bring, and what an operator may ask for.
Operator == [parsed |-> TRUE, valid |-> TRUE, sub |-> "0", role |-> "developer"]
OperatorTokens == {Operator, [Operator EXCEPT !.parsed = FALSE], [Operator EXCEPT !.valid = FALSE],
                   [Operator EXCEPT !.sub = "t"], [Operator EXCEPT !.role = "user"]}
ProxyRequest == [tenant |-> "t", role |-> "developer", ttl |-> -1, iam |-> 200]
ProxyRequests == {ProxyRequest, [ProxyRequest EXCEPT !.tenant = "0"], [ProxyRequest EXCEPT !.role = "user"],
                  [ProxyRequest EXCEPT !.ttl = 0], [ProxyRequest EXCEPT !.iam = 404],
                  [ProxyRequest EXCEPT !.iam = 503]}

LoginInit ==
    /\ clock = 0 /\ stateCookie = [state |-> NoState, until |-> 0] /\ nextCookie = None
    /\ tokenCookie = "none" /\ answered = 0 /\ granted = {}
    /\ tabs = [t \in Tabs |-> [pc |-> "start", state |-> NoState]]
    /\ outcome = [t \in Tabs |-> NoOutcome]

LoginNext ==
    \/ Logout \/ ClockTick \/ TokenExpires \/ User
    \/ \E iam \in {"bad body", "failed", "ok"} : TokenExchange(iam)
    \/ \E tenant \in {"0", "t"} : AbandonTokenProxy(tenant)
    \/ \E token \in OperatorTokens : RequireTokenProxy(token, "t", "developer", None, 200)
    \/ \E r \in ProxyRequests : RequireTokenProxy(Operator, r.tenant, r.role, r.ttl, r.iam)
    \/ \E ok \in BOOLEAN : DirectToken(ok)
    \/ \E t \in Tabs :
           \/ Again(t)
           \/ \E f \in Frontends : \/ \E ok \in BOOLEAN : Login(t, f, ok)
                                   \/ \E code \in {"ok", "none", "refused"} : Callback(t, f, code)

LoginSpec == LoginInit /\ [][LoginNext]_loginVars

------------------------------------------------------------------------------
\* Properties

\* A login that comes back in time to the process that began it is never refused for
\* its state, whatever the other tabs of the browser did to the cookies in between.
OwnLoginCompletes ==
    \A t \in Tabs : (outcome[t].timely /\ outcome[t].same) => outcome[t].answer # "invalid state"

\* A login ends where its tab was going.
LeadsToOwnTarget == \A t \in Tabs : outcome[t].answer = "in" => outcome[t].next \in {t, None}
=============================================================================

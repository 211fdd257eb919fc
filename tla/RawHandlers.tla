----------------------------- MODULE RawHandlers -----------------------------
(***************************************************************************)
(* The raw function-system API (api/functionsystem): create, invoke and kill *)
(* requests passed on as bytes. A kill that carries an identity is decoded    *)
(* and checked against the summaries of the instances first, which the watch  *)
(* changes meanwhile. Every request is counted by the code it ends with.      *)
(***************************************************************************)
EXTENDS GoValues, Integers

CONSTANTS
    RawRequests,      \* requests, each served once
    RawInputs,        \* what they may be: [op, readable, json, target, killAll, client, identity]
                      \*   target: an instance, "" or None (cannot be decoded)
                      \*   identity: None, or [tenant, role] with role "invalid" for a bad token
    SystemTenantID,   \* the tenant of the system
    OwnerOfInstance   \* [instances -> tenants]

VARIABLES
    rawPc,            \* [RawRequests -> "new", "received", "checked", "called", "answered", "counted"]
    rawIn,            \* [RawRequests -> the input, or None]
    rawCode,          \* [RawRequests -> httpCode, or 0]
    rawSeen,          \* [RawRequests -> the client's status, or 0]
    rawMetric,        \* [RawRequests -> the code it was counted with, or 0]
    cachedSummaries,  \* instances of the endpoint cache
    rawKills          \* <<request, target>> of kills sent (history)

rawVars == <<rawPc, rawIn, rawCode, rawSeen, rawMetric, cachedSummaries, rawKills>>

RawReceive(q, in) ==
    /\ rawPc[q] = "new"
    /\ rawPc' = [rawPc EXCEPT ![q] = "received"] /\ rawIn' = [rawIn EXCEPT ![q] = in]
    /\ UNCHANGED <<rawCode, rawSeen, rawMetric, cachedSummaries, rawKills>>

\* SetCtxResponse; the handler keeps the code for its deferred report.
RawAnswer(q, code) ==
    /\ rawPc' = [rawPc EXCEPT ![q] = "answered"]
    /\ rawSeen' = [rawSeen EXCEPT ![q] = code] /\ rawCode' = [rawCode EXCEPT ![q] = code]
    /\ UNCHANGED <<rawIn, rawMetric, cachedSummaries, rawKills>>

\* authorizeKillRequest: developers may kill instances of their tenant, the system tenant any
\* instance that is known; a kill of all instances names the client itself.
AuthorizeKill(in) ==
    CASE in.identity.role # "developer" -> 403
      [] in.target = "" -> 400
      [] in.killAll -> IF in.client = in.target THEN 200 ELSE 403
      [] in.target \notin cachedSummaries -> 404
      [] in.identity.tenant \in {SystemTenantID, OwnerOfInstance[in.target]} -> 200
      [] OTHER -> 403

\* buildKillRequestBody, decodeKillRequest: bytes or JSON to a KillRequest.
Decodes(in) == in.target # None

\* ensureKillJWTContext: an identity of the middleware, or of a token that is authenticated here.
NeedsKillAuthorization(in) == in.identity # None
Authenticates(in) == in.identity.role # "invalid"

\* handleKillRequest up to the call: JSON is transcoded; only a request with an identity is
\* decoded again and authorized.
KillVerdict(in) ==
    CASE ~in.readable -> 500
      [] in.json /\ ~Decodes(in) -> 400
      [] ~NeedsKillAuthorization(in) -> 200
      [] ~Authenticates(in) -> 401
      [] ~Decodes(in) -> 400
      [] OTHER -> AuthorizeKill(in)

\* CreateHandler and InvokeHandler only read the body.
Verdict(in) == IF in.op = "kill" THEN KillVerdict(in) ELSE IF in.readable THEN 200 ELSE 500

RawCheck(q) ==
    /\ rawPc[q] = "received"
    /\ LET code == Verdict(rawIn[q])
       IN  IF code # 200 THEN RawAnswer(q, code)
           ELSE /\ rawPc' = [rawPc EXCEPT ![q] = "checked"]
                /\ UNCHANGED <<rawIn, rawCode, rawSeen, rawMetric, cachedSummaries, rawKills>>

\* CreateRaw, InvokeRaw or KillRaw with the bytes that were checked.
RawCall(q) ==
    /\ rawPc[q] = "checked" /\ rawPc' = [rawPc EXCEPT ![q] = "called"]
    /\ rawKills' = IF rawIn[q].op = "kill" THEN rawKills \cup {<<q, rawIn[q].target>>} ELSE rawKills
    /\ UNCHANGED <<rawIn, rawCode, rawSeen, rawMetric, cachedSummaries>>

\* writeKillResponse: the answer to a JSON kill is transcoded, which may fail.
KillAnswerCode(in, transcodes) == IF in.json /\ ~transcodes THEN 500 ELSE 200

\* A failed call is answered 400.
RawReturns(q, ok, transcodes) ==
    /\ rawPc[q] = "called"
    /\ RawAnswer(q, IF ~ok THEN 400 ELSE IF rawIn[q].op = "kill" THEN KillAnswerCode(rawIn[q], transcodes) ELSE 200)

\* Faulty variant: the deferred report is given the code of the time of the defer.
ReportByValue(q) == 200

\* The deferred report: the code of the variable at the end, and 200 if nothing set it.
ReportedCode(q) == IF rawCode[q] = 0 THEN 200 ELSE rawCode[q]

RawReport(q) ==
    /\ rawPc[q] = "answered" /\ rawPc' = [rawPc EXCEPT ![q] = "counted"]
    /\ rawMetric' = [rawMetric EXCEPT ![q] = ReportedCode(q)]
    /\ UNCHANGED <<rawIn, rawCode, rawSeen, cachedSummaries, rawKills>>

\* The watch adds and removes summaries.
SummaryChanges(i) ==
    /\ cachedSummaries' = IF i \in cachedSummaries THEN cachedSummaries \ {i} ELSE cachedSummaries \cup {i}
    /\ UNCHANGED <<rawPc, rawIn, rawCode, rawSeen, rawMetric, rawKills>>

------------------------------------------------------------------------------
RawInit ==
    /\ rawPc = [q \in RawRequests |-> "new"] /\ rawIn = [q \in RawRequests |-> None]
    /\ rawCode = [q \in RawRequests |-> 0] /\ rawSeen = rawCode /\ rawMetric = rawCode
    /\ cachedSummaries = {} /\ rawKills = {}

RawNext ==
    \/ \E q \in RawRequests : \/ RawCheck(q) \/ RawCall(q) \/ RawReport(q)
                              \/ \E in \in RawInputs : RawReceive(q, in)
                              \/ \E ok, transcodes \in BOOLEAN : RawReturns(q, ok, transcodes)
    \/ \E i \in DOMAIN OwnerOfInstance : SummaryChanges(i)

RawSpec == RawInit /\ [][RawNext]_rawVars

------------------------------------------------------------------------------
\* Properties

\* A request is counted with the code its client has seen, on every path through the handler.
CountedAsAnswered == \A q \in RawRequests : rawPc[q] = "counted" => rawMetric[q] = rawSeen[q]

\* A kill with an identity only reaches an instance of its tenant, unless it is the system's.
KillStaysInTenant ==
    \A k \in rawKills : LET in == rawIn[k[1]] IN
        (in.identity # None /\ ~in.killAll) => in.identity.tenant \in {SystemTenantID, OwnerOfInstance[k[2]]}
=============================================================================

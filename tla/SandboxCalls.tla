---------------------------- MODULE SandboxCalls ----------------------------
(***************************************************************************)
(* The sandbox handlers that make one call each: delete and snapshot        *)
(* creation, which authenticate a developer token (common/tenantauth) and    *)
(* check the tenant first, invoke, and the queries passed on to the active   *)
(* master; and the list of instances of the web terminal. Meanwhile the      *)
(* watch changes the cached summaries, the IAM server revokes tokens and     *)
(* time passes, between the steps of a handler.                              *)
(***************************************************************************)
EXTENDS GoValues, Integers, Sequences, SequencesExt, FiniteSets

CONSTANTS
    SbxRequests,       \* requests, each served once
    SbxInputs,         \* [SbxRequests -> what they may be]
    SbxOutcomes,       \* what the call of a handler may end with
    SbxInstances,      \* all instances, in the order of their IDs
    SummaryOf,         \* [instances -> what their summary holds]
    DevTokens,         \* [developer tokens -> [parses, tenant, role, exp]]; exp 0 never expires
    SystemDeveloper,   \* SystemTenantID
    FuncTokenAuth,     \* IamConfig.EnableFuncTokenAuth
    JwtCacheSize,      \* validatedDeveloperJWTCacheSize
    JwtCacheTTL,       \* validatedDeveloperJWTCacheTTL
    CheckpointMax,     \* sandboxCheckpointMaxTimeoutSeconds
    CheckpointDefault, \* sandboxCheckpointDefaultTimeoutSeconds
    IntBits,           \* width of an int
    MaxSbxClock,       \* bound of the clock
    MaxSbxEvents       \* bound of summaries changed and tokens revoked

VARIABLES
    sbx,          \* [SbxRequests -> the request]
    observedAt,   \* [instances -> ObservedRunningAt of the cached summary, or None]
    jwtItems,     \* developerJWTCache.items: [tokens -> [identity, at, exp], or None]
    jwtOrder,     \* developerJWTCache.order, the most recently used first
    revoked,      \* tokens the IAM server refuses
    iamOk,        \* [tokens -> when the IAM server last accepted them, or None] (history)
    sbxClock,
    sbxEvents

sbxVars == <<sbx, observedAt, jwtItems, jwtOrder, revoked, iamOk, sbxClock, sbxEvents>>

DeveloperTokens == DOMAIN DevTokens
Owner(i) == SummaryOf[i].tenant
NoSbxRequest == [pc |-> "new", in |-> None, who |-> None, age |-> 0, code |-> 0, reply |-> None]

SbxGo(q, r) == sbx' = [sbx EXCEPT ![q] = r]
SbxAnswer(q, code) == SbxGo(q, [sbx[q] EXCEPT !.pc = "answered", !.code = code])

------------------------------------------------------------------------------
(* Developer tokens *)

JwtExpired(exp, now) == exp > 0 /\ now > exp
JwtGet(t, now) ==
    IF jwtItems[t] # None /\ now - jwtItems[t].at < JwtCacheTTL /\ ~JwtExpired(jwtItems[t].exp, now) THEN jwtItems[t].identity ELSE None

\* get: an entry that is too old or expired is dropped, another one is moved to the front.
JwtTouch(t, now) ==
    /\ jwtItems' = IF JwtGet(t, now) = None THEN [jwtItems EXCEPT ![t] = None] ELSE jwtItems
    /\ jwtOrder' = (IF JwtGet(t, now) = None THEN <<>> ELSE <<t>>) \o SelectSeq(jwtOrder, LAMBDA x : x # t)

\* add: to the front; the last one leaves a full cache.
JwtAdd(t, identity, now) ==
    LET order == <<t>> \o SelectSeq(jwtOrder, LAMBDA x : x # t)
        full == Len(order) > JwtCacheSize
        items == [jwtItems EXCEPT ![t] = [identity |-> identity, at |-> now, exp |-> DevTokens[t].exp]]
    IN  /\ jwtOrder' = IF full THEN SubSeq(order, 1, Len(order) - 1) ELSE order
        /\ jwtItems' = IF full THEN [items EXCEPT ![order[Len(order)]] = None] ELSE items

Identity(t) == [tenant |-> DevTokens[t].tenant, role |-> DevTokens[t].role]

\* Who is asked for next: the list of instances needs an identity, the others its right.
AfterIdentity(in) == IF in.op = "list" THEN "list" ELSE "authorize"
Identified(q, identity, age) ==
    SbxGo(q, [sbx[q] EXCEPT !.pc = AfterIdentity(sbx[q].in), !.who = identity, !.age = age])

\* AuthenticateDeveloperToken, up to the question to the IAM server.
AuthenticateDeveloperToken(q) ==
    LET t == sbx[q].in.token
        claims == DevTokens[t]
    IN  /\ sbx[q].pc = "token"
        /\ \/ t = None /\ SbxAnswer(q, 403) /\ UNCHANGED <<jwtItems, jwtOrder>>
           \/ /\ t # None /\ JwtTouch(t, sbxClock)
              /\ CASE JwtGet(t, sbxClock) # None -> Identified(q, JwtGet(t, sbxClock), sbxClock - iamOk[t])
                   [] JwtGet(t, sbxClock) = None /\ ~claims.parses -> SbxAnswer(q, 401)
                   [] JwtGet(t, sbxClock) = None /\ claims.parses /\ claims.tenant = "" -> SbxAnswer(q, 403)
                   [] JwtGet(t, sbxClock) = None /\ claims.parses /\ claims.tenant # "" /\ JwtExpired(claims.exp, sbxClock) -> SbxAnswer(q, 401)
                   [] OTHER -> SbxGo(q, [sbx[q] EXCEPT !.pc = "asking"])
        /\ UNCHANGED <<observedAt, revoked, iamOk, sbxClock, sbxEvents>>

\* ValidateWithIamServer answers; only a developer is kept in the cache.
IamAnswers(q) ==
    LET t == sbx[q].in.token
    IN  /\ sbx[q].pc = "asking"
        /\ IF t \in revoked \/ DevTokens[t].role # "developer"
           THEN /\ SbxAnswer(q, IF t \in revoked THEN 401 ELSE 403)
                /\ UNCHANGED <<jwtItems, jwtOrder, iamOk>>
           ELSE /\ Identified(q, Identity(t), 0)
                /\ JwtAdd(t, Identity(t), sbxClock) /\ iamOk' = [iamOk EXCEPT ![t] = sbxClock]
        /\ UNCHANGED <<observedAt, revoked, sbxClock, sbxEvents>>

------------------------------------------------------------------------------
(* Delete, snapshot, invoke and the queries *)

NeedsDeleteAuthorization(in) == FuncTokenAuth /\ (in.sub # None \/ in.role # None \/ in.token # None)

\* What each handler checks before anything else; a snapshot takes the checks of a lifecycle call.
CheckpointTimeout(requested) == IF requested = 0 THEN CheckpointDefault ELSE requested
ValidTimeout(requested) == requested \in 0..CheckpointMax
Malformed(in) ==
    CASE in.op = "delete" -> in.instance = ""
      [] in.op = "snapshot" -> ~in.body \/ in.name = "blank" \/ ~ValidTimeout(in.timeout) \/ in.instance = "" \/ ~in.requestID
      [] in.op = "invoke" -> in.instance = "" \/ ~in.body \/ in.action = ""
      [] in.op = "query" -> (in.method # "list" /\ in.snapshot = "") \/ (in.method = "delete" /\ ~in.requestID)
      [] OTHER -> in.page = 0 \/ in.size = 0

\* ensureDeleteJWTContext: the identity of the middleware, or the one of a token.
FirstStep(in) ==
    CASE in.op \in {"invoke", "query"} -> "call"
      [] in.op = "list" -> IF in.token = None THEN "list" ELSE "token"
      [] OTHER -> IF ~NeedsDeleteAuthorization(in) THEN "call"
                  ELSE IF in.sub # None /\ in.role # None THEN "authorize" ELSE "token"

\* The list authenticates before it looks at the page.
SbxReceive(q, in) ==
    /\ sbx[q].pc = "new"
    /\ IF Malformed(in) /\ in.op # "list" THEN SbxGo(q, [NoSbxRequest EXCEPT !.in = in, !.pc = "answered", !.code = 400])
       ELSE SbxGo(q, [NoSbxRequest EXCEPT !.in = in, !.pc = FirstStep(in),
                         !.who = IF FirstStep(in) = "authorize" THEN [tenant |-> in.sub, role |-> in.role] ELSE None])
    /\ UNCHANGED <<observedAt, jwtItems, jwtOrder, revoked, iamOk, sbxClock, sbxEvents>>

\* authorizeSandboxDelete: the cached summary tells the owner, else the authoritative read, which
\* may find nothing or fail.
AuthorizeCode(who, i, read) ==
    CASE who.tenant = "" \/ who.role # "developer" -> 403
      [] who.tenant = SystemDeveloper -> 200
      [] observedAt[i] = None /\ read = "missing" -> 404
      [] observedAt[i] = None /\ read = "failed" -> 503
      [] who.tenant = Owner(i) -> 200
      [] OTHER -> 403

AuthorizeSandboxDelete(q, read) ==
    LET code == AuthorizeCode(sbx[q].who, sbx[q].in.instance, read)
    IN  /\ sbx[q].pc = "authorize"
        /\ IF code = 200 THEN SbxGo(q, [sbx[q] EXCEPT !.pc = "call"]) ELSE SbxAnswer(q, code)
        /\ UNCHANGED <<observedAt, jwtItems, jwtOrder, revoked, iamOk, sbxClock, sbxEvents>>

\* The tenant a call is made for: a header, for the queries a claim too, else "default".
TenantHeader(in) ==
    CASE in.header # "" -> in.header
      [] in.header = "" /\ in.op = "query" /\ in.claim # "" -> in.claim
      [] OTHER -> "default"

\* A whole float becomes an int.
NormalArg(v) == IF v.kind = "float" /\ v.whole THEN [v EXCEPT !.kind = "int"] ELSE v

\* Bytes that are UTF-8 become a string.
NormalResult(v) == IF v.kind = "bytes" /\ v.utf8 THEN [v EXCEPT !.kind = "string"] ELSE v

\* decodeYRValue: what follows a header of zeros; else everything, whose first byte is decoded as
\* the number 0 when a header with a length stands before it, and then what follows 16 bytes.
Zero == [kind |-> "int", whole |-> TRUE, utf8 |-> FALSE, error |-> None]
DecodeYRValue(data) ==
    CASE data.header = "zero" -> data.rest
      [] data.header = "length" -> Zero
      [] data.header = "none" /\ data.whole # None -> data.whole
      [] OTHER -> data.rest

ResponseHasError(v) == v.kind = "map" /\ v.error \notin {None, ""}

InvokeResult(x) ==
    IF x.err \/ ~x.parses \/ x.code # 0 \/ x.objects # 1 THEN None ELSE DecodeYRValue(x.data)

\* What the handler answers to the end of its call.
CallCode(in, x) ==
    CASE in.op = "delete" -> IF x.err THEN 500 ELSE 200
      [] in.op = "snapshot" -> IF x.err THEN 503 ELSE IF x.code # 0 THEN 409 ELSE IF ~x.parses \/ x.snapshot = "" THEN 500 ELSE 200
      [] in.op = "invoke" -> IF InvokeResult(x) = None THEN 500 ELSE 200
      [] in.op = "query" -> IF x.master = "" THEN 503 ELSE IF x.err THEN 502
                            ELSE IF x.status >= 400 THEN x.status ELSE IF ~x.parses THEN 502 ELSE x.status

\* What is sent: the kill of a delete, the checkpoint of a snapshot, the envelope of an invoke,
\* and the query with the tenant added.
Sent(in) ==
    CASE in.op = "delete" -> [to |-> in.instance, tenant |-> TenantHeader(in)]
      [] in.op = "snapshot" -> [to |-> in.instance, tenant |-> TenantHeader(in), timeout |-> CheckpointTimeout(in.timeout) * 1000]
      [] in.op = "invoke" -> [to |-> in.instance, action |-> in.action, args |-> [k \in DOMAIN in.args |-> NormalArg(in.args[k])]]
      [] in.op = "query" -> [to |-> "master", tenant |-> TenantHeader(in), snapshot |-> in.snapshot]

SbxCall(q, x) ==
    LET in == sbx[q].in
        v == InvokeResult(x)
    IN  /\ sbx[q].pc = "call"
        /\ SbxGo(q, [sbx[q] EXCEPT !.pc = "answered", !.code = CallCode(in, x),
               !.reply = [sent |-> Sent(in), value |-> IF in.op # "invoke" \/ v = None THEN None ELSE NormalResult(v),
                          failed |-> in.op = "invoke" /\ v # None /\ ResponseHasError(v)]])
        /\ UNCHANGED <<observedAt, jwtItems, jwtOrder, revoked, iamOk, sbxClock, sbxEvents>>

------------------------------------------------------------------------------
(* The list of instances *)

\* resolveInstancesTenantID: without a token the tenant that was asked for; the system tenant may
\* ask for any, and for all; a developer sees the own tenant.
ListTenant(in, who) ==
    LET asked == IF in.tenant = "" THEN "default" ELSE in.tenant
    IN  CASE who = None -> asked
          [] who # None /\ who.tenant = SystemDeveloper -> IF in.tenant \in {"", SystemDeveloper} THEN "" ELSE asked
          [] OTHER -> who.tenant

\* ListSummaries, in the order of the IDs.
ListSummaries(tenant, instance) ==
    SelectSeq(SbxInstances, LAMBDA i : observedAt[i] # None /\ tenant \in {"", Owner(i)} /\ instance \in {"", i})

\* An int of IntBits bits.
Wrap(n) == LET m == n % 2^IntBits IN IF m >= 2^(IntBits - 1) THEN m - 2^IntBits ELSE m

\* Faulty variant: the first page begins at its own size.
PageFromItsEnd(list, page, size) == SubSeq(list, page * size + 1, page * size + size)

\* paginateInstanceSummaries; a slice that begins below zero or ends before it begins panics.
PageStart(page, size) == Wrap((page - 1) * size)
PageEnd(list, page, size) == Min({Wrap(PageStart(page, size) + size), Len(list)})
Paginate(list, page, size) ==
    IF PageStart(page, size) >= Len(list) THEN <<>> ELSE SubSeq(list, PageStart(page, size) + 1, PageEnd(list, page, size))
Panics(list, page, size) ==
    PageStart(page, size) < Len(list) /\ (PageStart(page, size) < 0 \/ PageEnd(list, page, size) < PageStart(page, size))

\* A status without a name is shown as its message.
NamedStatus == {"exited", "new", "scheduling", "creating", "running", "failed", "exiting", "fatal", "schedule_failed", "evicting",
                "evicted", "sub_health"}
StatusText(s) == IF s.status \in NamedStatus THEN s.status ELSE s.message

\* What may be shown for a resource: the one of that name, else any of the GPUs or NPUs, in the
\* order of a map; else 0.
ResourceValues(kind, resources) ==
    LET exact == {r \in resources : r.kind = kind /\ r.exact}
        similar == {r \in resources : r.kind = kind /\ kind \in {"GPU", "NPU"}}
        values == {r.value : r \in IF exact # {} THEN exact ELSE similar}
    IN  IF values = {} THEN {0} ELSE values

\* The start time of the instance when there is one, whether or not it can be parsed; else the
\* time the frontend first saw it.
StartTime(i) == IF SummaryOf[i].start # None THEN SummaryOf[i].start ELSE [form |-> "time", at |-> observedAt[i]]

\* A time or a Unix number of seconds or milliseconds; no duration is negative.
RuntimeSeconds(start, now) ==
    LET at == IF start.form = "millis" THEN start.at \div 1000 ELSE start.at
    IN  IF start.form = "other" \/ now < at THEN 0 ELSE now - at

Shown(i) ==
    LET s == SummaryOf[i]
    IN  [id |-> i, tenant |-> s.tenant, status |-> StatusText(s), cpu |-> ResourceValues("CPU", s.resources),
         gpu |-> ResourceValues("GPU", s.resources), seconds |-> RuntimeSeconds(StartTime(i), sbxClock)]

\* parseInstancesPagination
Pagination(in) == [on |-> in.page # None \/ in.size # None, page |-> IF in.page = None THEN 1 ELSE in.page,
                   size |-> IF in.size = None THEN 10 ELSE in.size]

HandleInstances(q) ==
    LET in == sbx[q].in
        list == ListSummaries(ListTenant(in, sbx[q].who), in.instance)
        p == Pagination(in)
        shown == IF p.on THEN Paginate(list, p.page, p.size) ELSE list
    IN  /\ sbx[q].pc = "list"
        /\ CASE Malformed(in) -> SbxAnswer(q, 400)
             [] ~Malformed(in) /\ p.on /\ Panics(list, p.page, p.size) -> SbxAnswer(q, 500)
             [] OTHER -> SbxGo(q, [sbx[q] EXCEPT !.pc = "answered", !.code = 200,
                            !.reply = [count |-> Len(list), instances |-> [k \in DOMAIN shown |-> Shown(shown[k])]]])
        /\ UNCHANGED <<observedAt, jwtItems, jwtOrder, revoked, iamOk, sbxClock, sbxEvents>>

------------------------------------------------------------------------------
(* What happens meanwhile *)

\* PutSummary keeps the time of the first observation; a delete forgets it.
SbxSummaryChanges(i) ==
    /\ sbxEvents < MaxSbxEvents /\ sbxEvents' = sbxEvents + 1
    /\ observedAt' = [observedAt EXCEPT ![i] = IF @ = None THEN sbxClock ELSE None]
    /\ UNCHANGED <<sbx, jwtItems, jwtOrder, revoked, iamOk, sbxClock>>

RevokeToken(t) ==
    /\ t \notin revoked /\ sbxEvents < MaxSbxEvents /\ sbxEvents' = sbxEvents + 1 /\ revoked' = revoked \cup {t}
    /\ UNCHANGED <<sbx, observedAt, jwtItems, jwtOrder, iamOk, sbxClock>>

SbxTick ==
    /\ sbxClock < MaxSbxClock /\ sbxClock' = sbxClock + 1
    /\ UNCHANGED <<sbx, observedAt, jwtItems, jwtOrder, revoked, iamOk, sbxEvents>>

SbxInit ==
    /\ sbx = [q \in SbxRequests |-> NoSbxRequest] /\ observedAt = [i \in Range(SbxInstances) |-> 0]
    /\ jwtItems = [t \in DeveloperTokens |-> None] /\ jwtOrder = <<>> /\ revoked = {} /\ iamOk = [t \in DeveloperTokens |-> None]
    /\ sbxClock = 0 /\ sbxEvents = 0

SbxNext ==
    \/ \E q \in SbxRequests :
          \/ \E in \in SbxInputs[q] : SbxReceive(q, in)
          \/ AuthenticateDeveloperToken(q)
          \/ IamAnswers(q)
          \/ \E read \in {"found", "missing", "failed"} : AuthorizeSandboxDelete(q, read)
          \/ \E x \in SbxOutcomes : SbxCall(q, x)
          \/ HandleInstances(q)
    \/ \E i \in Range(SbxInstances) : SbxSummaryChanges(i)
    \/ \E t \in DeveloperTokens : RevokeToken(t)
    \/ SbxTick

SbxSpec == SbxInit /\ [][SbxNext]_sbxVars

------------------------------------------------------------------------------
(* Properties *)

\* A developer is believed for as long as the cache says after the IAM server accepted the token,
\* and no longer: the age of the identity stays below the TTL whatever else used the cache
\* (developer.go:72-130).
DeveloperIsFresh == \A q \in SbxRequests : sbx[q].who # None => sbx[q].age \in 0..(JwtCacheTTL - 1)

\* The cache holds what its order says, never more than its size.
JwtCacheBounded ==
    Len(jwtOrder) <= JwtCacheSize /\ Range(jwtOrder) = {t \in DeveloperTokens : jwtItems[t] # None} /\ IsInjective(jwtOrder)

\* With token authentication a delete or a snapshot of an identified caller reaches an instance of
\* its tenant only, though the summary the check read may be gone by the time of the call; and a
\* developer is shown instances of the own tenant only.
SandboxStaysInTenant ==
    \A q \in SbxRequests : (sbx[q].reply # None /\ sbx[q].who # None /\ sbx[q].who.tenant # SystemDeveloper) =>
       IF sbx[q].in.op = "list" THEN \A k \in DOMAIN sbx[q].reply.instances : sbx[q].reply.instances[k].tenant = sbx[q].who.tenant
       ELSE Owner(sbx[q].reply.sent.to) = sbx[q].who.tenant

\* The pages of a list show each of its instances once, in order.
PagesCover ==
    LET list == ListSummaries("", "")
    IN  \A size \in 1..Len(SbxInstances) : FlattenSeq([p \in 1..Len(SbxInstances) |-> Paginate(list, p, size)]) = list

SandboxCallsSound == DeveloperIsFresh /\ JwtCacheBounded /\ SandboxStaysInTenant /\ PagesCover
==============================================================================

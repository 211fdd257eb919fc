----------------------------- MODULE RequestGate ------------------------------
(***************************************************************************)
(* What a request passes before its handler runs (middleware, jwtauth,      *)
(* aliasroute): an invocation is looked at first, since all the versions it *)
(* may be routed to can be public; the token is parsed, its role checked    *)
(* and the IAM server asked, through a cache and one call per token; then   *)
(* the alias chooses the version, by weight or by rule.                     *)
(***************************************************************************)
EXTENDS GoValues, Integers, Sequences, FiniteSets

CONSTANTS
    GateRequests,     \* requests in progress
    IamCacheTTL,      \* in ticks of the clock
    IamCacheSize,
    MaxTicks,         \* bound: ticks of the clock
    MaxAliasEvents    \* bound: changes of the alias and of the functions

\* Tokens by role and subject; IAM may stop to accept one.
Tokens == {[role |-> "developer", sub |-> "t1"], [role |-> "user", sub |-> "t2"]}

\* A route: does the whitelist (or the tunnel) exempt it, and is it an invocation, which
\* users may call as well.
Routes ==
    [docs    |-> [exempt |-> TRUE,  invoke |-> FALSE],
     tunnel  |-> [exempt |-> TRUE,  invoke |-> FALSE],
     api     |-> [exempt |-> FALSE, invoke |-> FALSE],
     direct  |-> [exempt |-> FALSE, invoke |-> TRUE],
     invoke  |-> [exempt |-> FALSE, invoke |-> TRUE]]

\* The alias: by rule (a default version and a gray one), by weight, or absent. Versions
\* are numbers; weights are given in the order of the routing configurations.
FirstAlias ==
    [type |-> "weight", main |-> 1, gray |-> 0, weights |-> <<[urn |-> 1, w |-> 2], [urn |-> 2, w |-> 1]>>]
Aliases ==
    {FirstAlias,
     [type |-> "rule", main |-> 1, gray |-> 2, weights |-> <<>>],
     [type |-> "weight", main |-> 2, gray |-> 0, weights |-> <<[urn |-> 1, w |-> 0], [urn |-> 2, w |-> 1]>>],
     [type |-> "absent", main |-> 0, gray |-> 0, weights |-> <<>>]}

VARIABLES
    gate,          \* [GateRequests -> the request]
    alias,         \* of Aliases
    rr,            \* the current weights of its round robin
    picks,         \* [versions -> picks since the last full cycle] (ghost)
    public,        \* the versions whose metadata says they are public
    aliasEvents,
    ticks,
    iamRejects,    \* the tokens IAM refuses now
    iamCache,      \* sequence of [token, at], the most recent first
    iamFlights,    \* [Tokens -> the request that asks IAM, or None]
    lastOk         \* [Tokens -> when the last acceptance of IAM was applied, or None] (ghost)

routing == <<alias, rr, picks, public, aliasEvents>>
iamVars == <<ticks, iamRejects, iamCache, iamFlights, lastOk>>
gateVars == <<gate, routing, iamVars>>

\* Versions 0 stands for the URN itself, when there is no alias.
Versions == 0 .. 2

NoRequest == [pc |-> "new", route |-> "docs", token |-> None, skip |-> FALSE,
              stale |-> FALSE, tenant |-> None, version |-> 0, leader |-> None]

GateMoves(r, pc) == gate' = [gate EXCEPT ![r].pc = pc]
In(r, pc) == gate[r].pc = pc
GateEnded(r) == gate[r].pc \in {"new", "invoked"}

------------------------------------------------------------------------------
\* The alias

Weights(a) == [i \in DOMAIN a.weights |-> a.weights[i].w]
Total(a) == LET w == Weights(a) IN IF Len(w) = 0 THEN 0 ELSE IF Len(w) = 1 THEN w[1] ELSE w[1] + w[2]

\* Faulty variant: the candidates of a weighted alias leave the configurations out.
MainOnly(a) == IF a.type = "absent" THEN {0} ELSE {a.main} \union (IF a.type = "rule" THEN {a.gray} ELSE {})

\* getCandidateFuncVersionURNs
Candidates(a) ==
    CASE a.type = "absent" -> {0}
      [] a.type = "rule" -> {a.main, a.gray}
      [] OTHER -> {a.main} \union {a.weights[i].urn : i \in {j \in DOMAIN a.weights : a.weights[j].w > 0}}

\* Faulty variant: the best node is taken before the weights are raised.
BestBefore == CHOOSE i \in DOMAIN rr : /\ \A j \in DOMAIN rr : rr[i] >= rr[j]
                                       /\ \A j \in 1 .. i - 1 : rr[j] < rr[i]

\* nextWeightedNode: the first of the greatest weights, after every weight was raised.
Best == LET up == [i \in DOMAIN rr |-> rr[i] + Weights(alias)[i]]
        IN  CHOOSE i \in DOMAIN rr : /\ \A j \in DOMAIN rr : up[i] >= up[j]
                                     /\ \A j \in 1 .. i - 1 : up[j] < up[i]

\* The ghost starts again when every version was picked as often as its weight says.
Counted(p) == IF \A i \in DOMAIN rr : p[alias.weights[i].urn] = Weights(alias)[i] THEN [v \in Versions |-> 0] ELSE p

\* AddAlias and RemoveAlias: the fields, then the round robin is filled again.
AliasEvent(a) ==
    /\ aliasEvents < MaxAliasEvents /\ a # alias
    /\ aliasEvents' = aliasEvents + 1
    /\ alias' = a /\ rr' = [i \in DOMAIN a.weights |-> 0]
    /\ picks' = [v \in Versions |-> 0]
    /\ gate' = [r \in GateRequests |-> IF GateEnded(r) THEN NoRequest ELSE [gate[r] EXCEPT !.stale = TRUE]]
    /\ UNCHANGED <<public, iamVars>>

FunctionEvent(v) ==
    /\ aliasEvents < MaxAliasEvents
    /\ aliasEvents' = aliasEvents + 1
    /\ public' = IF v \in public THEN public \ {v} ELSE public \union {v}
    /\ gate' = [r \in GateRequests |-> IF GateEnded(r) THEN NoRequest ELSE [gate[r] EXCEPT !.stale = TRUE]]
    /\ UNCHANGED <<alias, rr, picks, iamVars>>

------------------------------------------------------------------------------
\* The middlewares

AllowedRoles(route) == IF Routes[route].invoke THEN {"user", "developer"} ELSE {"developer"}

\* InvokePreprocessMiddleware: an invocation is public if every candidate is.
InvokePreprocess(route) == route = "invoke" /\ Candidates(alias) \subseteq public

\* GlobalJWTAuthMiddleware and the checks of JWTAuthMiddlewareWithRoles before IAM.
GlobalJWTAuth(route, token) ==
    IF Routes[route].exempt \/ InvokePreprocess(route) THEN "handler"
    ELSE IF token # None /\ token.role \in AllowedRoles(route) THEN "iam"
    ELSE "refused"

\* A request arrives; an earlier one of the same slot has ended. What the middlewares
\* read of the alias and of the functions is read once, in the first of them.
ArriveAtGate(r, route, token) ==
    /\ GateEnded(r)
    /\ Routes[route].exempt => token = None    \* not looked at
    /\ LET pc == GlobalJWTAuth(route, token)
       IN  gate' = [gate EXCEPT ![r] = IF pc = "refused" THEN NoRequest
                                       ELSE [NoRequest EXCEPT !.pc = pc, !.route = route, !.token = token,
                                                              !.skip = InvokePreprocess(route)]]
    /\ UNCHANGED <<routing, iamVars>>

\* The validated tenant replaces the one the request names.
AcceptToken(r) == gate' = [gate EXCEPT ![r] = [@ EXCEPT !.pc = "handler", !.tenant = gate[r].token.sub]]

------------------------------------------------------------------------------
\* ValidateWithIamServer

\* Faulty variant: an entry is used whatever its age.
AnyAge(t) == {i \in DOMAIN iamCache : iamCache[i].token = t}

\* The entry of the token, unless it is as old as the TTL.
FreshEntries(t) == {i \in DOMAIN iamCache : iamCache[i].token = t /\ ticks - iamCache[i].at < IamCacheTTL}

Others(t) == SelectSeq(iamCache, LAMBDA e : e.token # t)

CacheHit(r) ==
    /\ In(r, "iam")
    /\ LET t == gate[r].token
       IN  \E i \in FreshEntries(t) : iamCache' = <<iamCache[i]>> \o Others(t)
    /\ AcceptToken(r)
    /\ UNCHANGED <<routing, ticks, iamRejects, iamFlights, lastOk>>

\* A miss drops an old entry; another request may be asking already.
CacheMiss(r) ==
    /\ In(r, "iam") /\ FreshEntries(gate[r].token) = {}
    /\ iamCache' = Others(gate[r].token)
    /\ IF iamFlights[gate[r].token] = None
       THEN GateMoves(r, "ask") /\ iamFlights' = [iamFlights EXCEPT ![gate[r].token] = r]
       ELSE /\ gate' = [gate EXCEPT ![r] = [@ EXCEPT !.pc = "join", !.leader = iamFlights[gate[r].token]]]
            /\ UNCHANGED iamFlights
    /\ UNCHANGED <<routing, ticks, iamRejects, lastOk>>

\* doValidateWithIamServer: IAM decides; ok is FALSE if it cannot be reached.
AskIam(r, ok) ==
    /\ In(r, "ask")
    /\ GateMoves(r, IF ok /\ gate[r].token \notin iamRejects THEN "valid" ELSE "invalid")
    /\ UNCHANGED <<routing, iamVars>>

\* Only an acceptance is cached; beyond the capacity the oldest entry leaves.
IamAnswered(r) ==
    /\ gate[r].pc \in {"valid", "invalid"}
    /\ LET t == gate[r].token
           all == <<[token |-> t, at |-> ticks]>> \o Others(t)
           good == In(r, "valid")
       IN  /\ iamCache' = IF good THEN SubSeq(all, 1, IF Len(all) > IamCacheSize THEN IamCacheSize ELSE Len(all))
                          ELSE iamCache
           /\ lastOk' = IF good THEN [lastOk EXCEPT ![t] = ticks] ELSE lastOk
           /\ iamFlights' = [iamFlights EXCEPT ![t] = None]
           /\ gate' = [q \in GateRequests |->
                  IF q # r /\ ~(In(q, "join") /\ gate[q].leader = r) THEN gate[q]
                  ELSE IF good THEN [gate[q] EXCEPT !.pc = "handler", !.tenant = t.sub]
                  ELSE NoRequest]
    /\ UNCHANGED <<routing, ticks, iamRejects>>

Tick ==
    /\ ticks < MaxTicks
    /\ ticks' = ticks + 1
    /\ UNCHANGED <<gate, routing, iamRejects, iamCache, iamFlights, lastOk>>

\* IAM stops to accept a token.
Revoke(t) ==
    /\ iamRejects' = iamRejects \union {t}
    /\ UNCHANGED <<gate, routing, ticks, iamCache, iamFlights, lastOk>>

------------------------------------------------------------------------------
\* The handlers

\* buildProcessContext: the alias chooses. m: the parameters of the request match the
\* rules of the alias.
Choose(r, m) ==
    /\ In(r, "handler") /\ gate[r].route = "invoke"
    /\ LET v == CASE alias.type = "absent" -> 0
                  [] alias.type = "rule" -> IF m THEN alias.gray ELSE alias.main
                  [] OTHER -> alias.weights[Best].urn
       IN  /\ gate' = [gate EXCEPT ![r] = [@ EXCEPT !.pc = "invoked", !.version = v, !.token = None, !.tenant = None, !.leader = None]]
           /\ IF alias.type # "weight" THEN UNCHANGED <<rr, picks>>
              ELSE /\ rr' = [i \in DOMAIN rr |->
                         rr[i] + Weights(alias)[i] - IF i = Best THEN Total(alias) ELSE 0]
                   /\ picks' = Counted([picks EXCEPT ![v] = @ + 1])
    /\ UNCHANGED <<alias, public, aliasEvents, iamVars>>

\* Any other handler. sandboxDirectServeHandler rebuilds the tenant marker for the
\* router from the validated identity.
ServeGate(r) ==
    /\ In(r, "handler") /\ gate[r].route # "invoke"
    /\ gate' = [gate EXCEPT ![r] = NoRequest]
    /\ UNCHANGED <<routing, iamVars>>

------------------------------------------------------------------------------
GateInit ==
    /\ gate = [r \in GateRequests |-> NoRequest]
    /\ alias = FirstAlias /\ rr = [i \in DOMAIN alias.weights |-> 0] /\ picks = [v \in Versions |-> 0]
    /\ public = {1, 2} /\ aliasEvents = 0
    /\ ticks = 0 /\ iamRejects = {} /\ iamCache = <<>>
    /\ iamFlights = [t \in Tokens |-> None] /\ lastOk = [t \in Tokens |-> None]

GateNext ==
    \/ \E a \in Aliases : AliasEvent(a)
    \/ \E v \in {1, 2} : FunctionEvent(v)
    \/ \E t \in Tokens : Revoke(t)
    \/ Tick
    \/ \E r \in GateRequests :
           \/ \E route \in DOMAIN Routes, t \in Tokens \union {None} : ArriveAtGate(r, route, t)
           \/ CacheHit(r) \/ CacheMiss(r) \/ IamAnswered(r) \/ ServeGate(r)
           \/ \E ok \in BOOLEAN : AskIam(r, ok) \/ Choose(r, ok)

GateSpec == GateInit /\ [][GateNext]_gateVars

------------------------------------------------------------------------------
\* Properties

\* A request that skipped the token check because every version it could be routed to
\* was public is routed to a public version, unless the alias or the functions changed
\* in between (publicfunc_jwt_skip.go, aliasroute/alias.go).
ChosenWasChecked ==
    \A r \in GateRequests :
        (In(r, "invoked") /\ gate[r].skip /\ ~gate[r].stale) => gate[r].version \in public

\* Every step that lets a request with a token through follows an acceptance of that
\* token by IAM that is younger than the TTL: not a cached refusal, not an entry that
\* survived its time or its eviction, not the answer to another token's call
\* (common/jwtauth/jwtauth.go ValidateWithIamServer).
AcceptedWasValidated ==
    [][\A r \in GateRequests :
           gate[r].tenant = None /\ gate'[r].tenant # None
               => LET t == gate[r].token
                  IN lastOk'[t] # None /\ ticks - lastOk'[t] < IamCacheTTL]_gateVars

\* Over every full cycle of the round robin each version is picked as often as its
\* weight says (loadbalance/roundrobin.go nextWeightedNode).
PicksFollowWeights == alias.type = "weight" => picks[1] + picks[2] < Total(alias)
=============================================================================

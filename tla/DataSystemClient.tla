-------------------------- MODULE DataSystemClient ---------------------------
(***************************************************************************)
(* The client of the data system: the cache of worker nodes that etcd       *)
(* events, failed connections and health checks keep, the clients made for  *)
(* a tenant and a node, and the uploads, downloads, deletes and KV calls    *)
(* that retry on another node (datasystemclient/cache.go,                   *)
(* concurrent_map.go, api.go, kvclient.go). One cluster.                    *)
(***************************************************************************)
EXTENDS GoValues, Integers, Sequences, FiniteSets

CONSTANTS
    Nodes,          \* IPs of data system workers
    Tenants,
    DsOps,          \* operations in progress
    OpTenant,       \* [DsOps -> Tenants]
    OpKind,         \* [DsOps -> Kinds]
    GivenNode,      \* [DsOps -> Nodes \union {None}]: Config.NodeIP
    Codes,          \* the status codes a call may come back with
    MaxNodeEvents,  \* bound: etcd events
    MaxFailures     \* bound: clients that cannot be made

\* What an operation does with its client. last: useLastUsedNode (the KV calls);
\* calls: how many calls it makes, each of which may ask for a retry of the whole;
\* gen: a key is generated first.
Operation(last, calls, gen) == [last |-> last, calls |-> calls, gen |-> gen]

UploadWithoutKey == Operation(FALSE, 1, FALSE)
UploadWithKey == Operation(FALSE, 1, TRUE)
DownloadArray == Operation(FALSE, 2, FALSE)   \* KVQuerySize, then KVGetMulti
DeleteArray == Operation(FALSE, 1, FALSE)
KVWithRetry == Operation(TRUE, 1, FALSE)      \* KVPut, KVGet and KVDel

Kinds == [upload |-> UploadWithoutKey, uploadWithKey |-> UploadWithKey, download |-> DownloadArray,
          delete |-> DeleteArray, kv |-> KVWithRetry]

ASSUME KindAssumption == \A o \in DsOps : OpKind[o] \in DOMAIN Kinds
ASSUME OpAssumption == /\ OpTenant \in [DsOps -> Tenants] /\ GivenNode \in [DsOps -> Nodes \union {None}]
                       /\ None \notin Nodes /\ None \notin Nat

VARIABLES
    nodeList,   \* [Nodes -> how often the node is in Cache.nodeList]
    invalidMap, \* the nodes that wait for a health check
    lastUsed,   \* Cache.lastUsedNode
    checkers,   \* [Nodes -> the health check goroutines of the node]
    etcd,       \* [Nodes -> "ready", "starting" or "gone"]
    handler,    \* the event whose clients are still to be deleted, or None
    clients,    \* [Tenants -> [Nodes -> the client in clientMap, or None]]
    made,       \* how many clients were made
    destroyed,  \* the clients DestroyClient was called on
    failures,   \* clients that could not be made so far
    nodeEvents, \* etcd events so far
    dsOp        \* [DsOps -> the operation]

dsVars == <<nodeList, invalidMap, lastUsed, checkers, etcd, handler, clients, made, destroyed,
            failures, nodeEvents, dsOp>>
cacheVars == <<nodeList, invalidMap, lastUsed, checkers>>
clientVars == <<clients, made, destroyed>>
eventVars == <<etcd, handler, nodeEvents>>

Listed == {n \in Nodes : nodeList[n] > 0}

\* node: Config.NodeIP; bad: Config.invalidIP; called: the nodes a call was made on.
NewOp(o) == [pc |-> "pick", node |-> GivenNode[o], bad |-> {}, client |-> None, done |-> 0,
             called |-> <<>>, res |-> None]

------------------------------------------------------------------------------
\* The node cache

\* delete: one entry of the node, if there is any.
DeleteNode(n) == nodeList' = [nodeList EXCEPT ![n] = IF @ > 0 THEN @ - 1 ELSE 0]

\* deleteNode: a node that is not in the list stays in invalidMap.
DropNode(n) ==
    /\ DeleteNode(n)
    /\ invalidMap' = IF n \in Listed THEN invalidMap \ {n} ELSE invalidMap

\* processAddEvent of a node that is ready.
AddNode(n) ==
    /\ handler = None /\ nodeEvents < MaxNodeEvents
    /\ nodeEvents' = nodeEvents + 1
    /\ etcd' = [etcd EXCEPT ![n] = "ready"]
    /\ nodeList' = IF n \in Listed THEN nodeList ELSE [nodeList EXCEPT ![n] = 1]
    /\ UNCHANGED <<invalidMap, lastUsed, checkers, handler, clientVars, failures, dsOp>>

\* processAddEvent of a node that is not ready, and processDeleteEvent: the node
\* leaves the cache, and, in a second step, its clients are destroyed. A delete that
\* empties the cache throws it away; a health check of it finds no invalid node.
RemoveNode(n, status) ==
    LET thrown == status = "gone" /\ invalidMap' = {} /\ \A m \in Nodes : nodeList'[m] = 0 IN
    /\ handler = None /\ nodeEvents < MaxNodeEvents /\ etcd[n] # status
    /\ nodeEvents' = nodeEvents + 1
    /\ etcd' = [etcd EXCEPT ![n] = status]
    /\ DropNode(n)
    /\ handler' = n
    /\ lastUsed' = IF thrown THEN None ELSE lastUsed
    /\ checkers' = IF thrown THEN [m \in Nodes |-> 0] ELSE checkers
    /\ UNCHANGED <<clientVars, failures, dsOp>>

\* deleteNodeIp: every tenant's client of the node.
RemoveClients ==
    /\ handler # None
    /\ handler' = None
    /\ destroyed' = destroyed \union ({clients[t][handler] : t \in Tenants} \ {None})
    /\ clients' = [t \in Tenants |-> [clients[t] EXCEPT ![handler] = None]]
    /\ UNCHANGED <<cacheVars, etcd, nodeEvents, made, failures, dsOp>>

\* healthCheckProcess: a tick finds the node deleted, or reachable again.
HealthCheck(n) ==
    /\ checkers[n] > 0
    /\ checkers' = [checkers EXCEPT ![n] = @ - 1]
    /\ IF n \in invalidMap
       THEN invalidMap' = invalidMap \ {n} /\ nodeList' = [nodeList EXCEPT ![n] = @ + 1]
       ELSE UNCHANGED <<invalidMap, nodeList>>
    /\ UNCHANGED <<lastUsed, clientVars, eventVars, failures, dsOp>>

------------------------------------------------------------------------------
\* One attempt of an operation

\* Faulty variant: the node is taken although it failed already.
PickAny(bad) == Listed

\* The nodes getRandomNodeWithInvalidNode chooses from.
Pick(bad) == Listed \ bad

\* getClient: the node of the configuration if it is in the cache, the last used
\* node of a KV call, or a random one.
ChooseNode(o, n) ==
    LET c == dsOp[o]  kind == Kinds[OpKind[o]] IN
    /\ c.pc = "pick"
    /\ \/ n = c.node /\ n \in Listed /\ lastUsed' = lastUsed
       \/ /\ c.node \notin Listed /\ kind.last /\ lastUsed \notin c.bad \union {None}
          /\ n = lastUsed /\ lastUsed' = lastUsed
       \/ /\ c.node \notin Listed /\ n \in Pick(c.bad)
          /\ kind.last => lastUsed \in c.bad \union {None}
          /\ lastUsed' = IF kind.last THEN n ELSE lastUsed
    /\ dsOp' = [dsOp EXCEPT ![o].pc = "client", ![o].node = n]
    /\ UNCHANGED <<nodeList, invalidMap, checkers, clientVars, eventVars, failures>>

\* No node is left: the operation fails, without a retry.
NoNode(o) ==
    LET c == dsOp[o]  kind == Kinds[OpKind[o]] IN
    /\ c.pc = "pick" /\ c.node \notin Listed /\ Pick(c.bad) = {}
    /\ kind.last => lastUsed \in c.bad \union {None}
    /\ dsOp' = [dsOp EXCEPT ![o].pc = "ended", ![o].res = "noNode"]
    /\ UNCHANGED <<cacheVars, clientVars, eventVars, failures>>

\* clientMap.get and getOrCreate.
GetOrCreate(o) ==
    LET c == dsOp[o]  t == OpTenant[o] IN
    /\ c.pc = "client"
    /\ IF clients[t][c.node] # None
       THEN UNCHANGED <<clients, made>> /\ dsOp' = [dsOp EXCEPT ![o].pc = "call", ![o].client = clients[t][c.node]]
       ELSE /\ made' = made + 1
            /\ clients' = [clients EXCEPT ![t][c.node] = made']
            /\ dsOp' = [dsOp EXCEPT ![o].pc = "call", ![o].client = made']
    /\ UNCHANGED <<cacheVars, destroyed, eventVars, failures>>

\* The client cannot be made: the node is invalidated, with a health check ...
Invalidate(o) ==
    LET n == dsOp[o].node IN
    /\ dsOp[o].pc = "client" /\ clients[OpTenant[o]][n] = None /\ failures < MaxFailures
    /\ failures' = failures + 1
    /\ DeleteNode(n)
    /\ IF n \in Listed
       THEN invalidMap' = invalidMap \union {n} /\ checkers' = [checkers EXCEPT ![n] = @ + 1]
       ELSE UNCHANGED <<invalidMap, checkers>>
    /\ dsOp' = [dsOp EXCEPT ![o].pc = "drop"]
    /\ UNCHANGED <<lastUsed, clientVars, eventVars>>

\* The loops of UploadWithKeyRetry, DownloadArrayRetry, DeleteArrayRetry, KVGetWithRetry ...:
\* the node joins invalidIP and the next attempt takes another.
Again(c) == [c EXCEPT !.pc = "pick", !.bad = @ \union {c.node}, !.node = None, !.client = None, !.done = 0]

\* Faulty variant: the client is destroyed and stays in the map.
DestroyOnly(t, n) ==
    /\ destroyed' = destroyed \union ({clients[t][n]} \ {None})
    /\ UNCHANGED clients

\* deleteClient: whatever client is there now leaves the map and is destroyed.
DeleteClient(t, n) ==
    /\ destroyed' = destroyed \union ({clients[t][n]} \ {None})
    /\ clients' = [clients EXCEPT ![t][n] = None]

\* ... and the client of the tenant and the node, which another operation may have made
\* in between, is deleted.
DropClient(o) ==
    /\ dsOp[o].pc = "drop"
    /\ DeleteClient(OpTenant[o], dsOp[o].node)
    /\ dsOp' = [dsOp EXCEPT ![o] = Again(dsOp[o])]
    /\ UNCHANGED <<cacheVars, made, eventVars, failures>>

RetryCodes == {"outOfMemory", "asyncQueueFull", "rpcCancelled", "tryAgain", "dsClientNil",
               "rpcUnavailable", "workerNotReady"}

shouldRetry(code) == code \in RetryCodes

\* The code a call comes back with: a client that was destroyed is nil.
Answered(o, code) ==
    /\ dsOp[o].pc = "call"
    /\ IF dsOp[o].client \in destroyed THEN code = "dsClientNil" ELSE code \in Codes

NodeCalled(c) == [c EXCEPT !.called = Append(@, c.node)]

\* What the operation does with it. A key that could not be generated is retried.
Outcome(o, code) ==
    LET c == NodeCalled(dsOp[o]) IN
    CASE code = "noKey" \/ shouldRetry(code)              -> Again(c)
      [] code = "ok" /\ c.done + 1 < Kinds[OpKind[o]].calls -> [dsOp[o] EXCEPT !.done = @ + 1]
      [] OTHER                                            -> [c EXCEPT !.pc = "ended", !.res = code]

Call(o, code) ==
    /\ code = "noKey" => Kinds[OpKind[o]].gen
    /\ Answered(o, code)
    /\ dsOp' = [dsOp EXCEPT ![o] = Outcome(o, code)]
    /\ UNCHANGED <<cacheVars, clientVars, eventVars, failures>>

------------------------------------------------------------------------------
DsInit ==
    /\ nodeList = [n \in Nodes |-> 1] /\ invalidMap = {} /\ lastUsed = None
    /\ checkers = [n \in Nodes |-> 0]
    /\ etcd = [n \in Nodes |-> "ready"] /\ handler = None /\ nodeEvents = 0
    /\ clients = [t \in Tenants |-> [n \in Nodes |-> None]] /\ made = 0 /\ destroyed = {}
    /\ failures = 0
    /\ dsOp = [o \in DsOps |-> NewOp(o)]

DsEvent == \E n \in Nodes : AddNode(n) \/ HealthCheck(n) \/ \E s \in {"starting", "gone"} : RemoveNode(n, s)

DsStep(o) ==
    \/ \E n \in Nodes : ChooseNode(o, n)
    \/ NoNode(o) \/ GetOrCreate(o) \/ Invalidate(o) \/ DropClient(o)
    \/ \E code \in Codes \union {"dsClientNil"} : Call(o, code)

DsNext == DsEvent \/ RemoveClients \/ \E o \in DsOps : DsStep(o)

DsSpec == DsInit /\ [][DsNext]_dsVars

------------------------------------------------------------------------------
\* Properties

\* However nodes come, go, are invalidated and restored meanwhile, the retries of one
\* operation never call a node twice: the loops end after at most one call per node
\* (the invalidIP list of api.go and kvclient.go, the choice of cache.go).
NoNodeTwice ==
    \A o \in DsOps : \A i, j \in DOMAIN dsOp[o].called : i # j => dsOp[o].called[i] # dsOp[o].called[j]

\* Every client that was made is reachable for its tenant and node or was destroyed,
\* never both: a failed connection, a node event and a concurrent operation neither
\* leak a client nor leave a destroyed one to be handed out (concurrent_map.go).
ClientsSound ==
    /\ {clients[t][n] : t \in Tenants, n \in Nodes} \ {None} = (1..made) \ destroyed
    /\ \A t, u \in Tenants : \A n, m \in Nodes :
           clients[t][n] # None /\ clients[t][n] = clients[u][m] => t = u /\ n = m

\* The cache offers the nodes etcd calls ready, each once ("only ready status can
\* add"). A node that was invalidated when its key was deleted is restored by its
\* health check, and one that was added again meanwhile is listed twice.
ListFollowsEtcd ==
    handler = None => \A n \in Nodes : nodeList[n] = IF etcd[n] = "ready" /\ n \notin invalidMap THEN 1 ELSE 0

------------------------------------------------------------------------------
(***************************************************************************)
(* The data system API of the frontend (api/datasystem) and the stream      *)
(* subscription (stream/subscriber.go): every request is checked and run    *)
(* through the one libruntime client, whose tenant is a setting of the      *)
(* operating system thread (datasystemclient/api.go ObjPut ... Del,         *)
(* SubscribeStream). A subscriber then receives, acknowledges and flushes   *)
(* the elements of the stream.                                              *)
(***************************************************************************)

CONSTANTS
    Callers,        \* requests
    CallOps,        \* the operations they may be
    CallTenant,     \* [Callers -> the tenant header]
    Threads,        \* operating system threads
    Messages,       \* request bodies: the sizes of the first and second field, or None
    Stream,         \* the elements of the stream; "end" is StreamEndElement
    MaxFlushErrors  \* bound: failed flushes

ASSUME CallerAssumption == None \notin Callers /\ Stream \in Seq({Stream[i] : i \in DOMAIN Stream})

VARIABLES
    caller,     \* [Callers -> the goroutine]
    pinned,     \* [Threads -> the goroutine LockOSThread bound to it, or None]
    tenantOf,   \* [Threads -> the tenant set last]
    ran,        \* the libruntime calls: a set of [by, tenant, api]
    consumer,   \* the subscription: elements received, flushed, lost; times closed
    flushErrors

accessVars == <<caller, pinned, tenantOf, ran, consumer, flushErrors>>

------------------------------------------------------------------------------
\* The handlers' checks of a decoded message; all answer 400 otherwise.

PutHandler(m) == m.first # None /\ m.second # None
GetHandler(m) == m.first # None
IncreaseRefHandler(m) == m.first # None /\ m.second # None
DecreaseRefHandler(m) == m.first # None /\ m.second # None
KvSetHandler(m) == m.first # None /\ m.second # None
KvMSetTxHandler(m) == m.first # None /\ m.second # None /\ m.first = m.second
KvGetHandler(m) == m.first # None
KvDelHandler(m) == m.first # None
SubscribeHandler(m) == m.first # None /\ m.second # None   \* the name and the timeout

\* The libruntime call a request ends in, and the check before it.
Local(api, ok) == [api |-> api, ok |-> ok]

ObjPut(m) == Local("PutRaw", PutHandler(m))
ObjGet(m) == Local("GetRaw", GetHandler(m))
GIncreaseRef(m) == Local("GIncreaseRefRaw", IncreaseRefHandler(m))
GDecreaseRef(m) == Local("GDecreaseRefRaw", DecreaseRefHandler(m))
Set(m) == Local("KVSet", KvSetHandler(m))
MSetTx(m) == Local("KVMSetTx", KvMSetTxHandler(m))
Get(m) == Local("KVGetMulti", KvGetHandler(m))
Del(m) == Local("KVDelMulti", KvDelHandler(m))
SubscribeStream(m) == Local("Subscribe", SubscribeHandler(m))

Request(name, m) ==
    CASE name = "put" -> ObjPut(m) [] name = "get" -> ObjGet(m)
      [] name = "incref" -> GIncreaseRef(m) [] name = "decref" -> GDecreaseRef(m)
      [] name = "kvset" -> Set(m) [] name = "kvmset" -> MSetTx(m)
      [] name = "kvget" -> Get(m) [] name = "kvdel" -> Del(m)
      [] name = "subscribe" -> SubscribeStream(m)

\* The request arrives; one that is not well formed is answered.
Receive(g, name, m) ==
    LET r == Request(name, m) IN
    /\ caller[g].pc = "new"
    /\ name = "subscribe" => \A h \in Callers : caller[h].api # "Subscribe"
    /\ caller' = [caller EXCEPT ![g] = [@ EXCEPT !.pc = IF r.ok THEN "lock" ELSE "done", !.api = r.api]]
    /\ UNCHANGED <<pinned, tenantOf, ran, consumer, flushErrors>>

\* A goroutine may run on a thread no other goroutine is bound to, and one that is
\* bound only on its own.
RunsOn(g, th) ==
    /\ pinned[th] \in {None, g}
    /\ \A u \in Threads : pinned[u] = g => u = th

\* Faulty variant: the thread is not bound.
Unbound(g, th) == pinned' = pinned

\* runtime.LockOSThread
LockOSThread(g, th) == pinned' = [pinned EXCEPT ![th] = g]

Lock(g, th) ==
    /\ caller[g].pc = "lock" /\ RunsOn(g, th)
    /\ LockOSThread(g, th)
    /\ caller' = [caller EXCEPT ![g].pc = "tenant"]
    /\ UNCHANGED <<tenantOf, ran, consumer, flushErrors>>

Unlocked(g) == [th \in Threads |-> IF pinned[th] = g THEN None ELSE pinned[th]]

\* localClientLibruntime.SetTenantID; an error ends the request.
SetTenantID(g, th, ok) ==
    /\ caller[g].pc = "tenant" /\ RunsOn(g, th)
    /\ tenantOf' = IF ok THEN [tenantOf EXCEPT ![th] = CallTenant[g]] ELSE tenantOf
    /\ pinned' = IF ok THEN pinned ELSE Unlocked(g)
    /\ caller' = [caller EXCEPT ![g].pc = IF ok THEN "run" ELSE "done"]
    /\ UNCHANGED <<ran, consumer, flushErrors>>

\* The libruntime call, under the tenant of the thread, and UnlockOSThread.
RunLocal(g, th, ok) ==
    /\ caller[g].pc = "run" /\ RunsOn(g, th)
    /\ ran' = ran \union {[by |-> g, tenant |-> tenantOf[th], api |-> caller[g].api]}
    /\ pinned' = Unlocked(g)
    /\ caller' = [caller EXCEPT ![g].pc = IF ok /\ caller[g].api = "Subscribe" THEN "open" ELSE "done"]
    /\ UNCHANGED <<tenantOf, consumer, flushErrors>>

------------------------------------------------------------------------------
\* receiveStream

\* The deferred streamFinishedHandler closes the consumer, whatever ended the loop.
\* gin calls the step again when it returned true and the client is still there.
CloseConsumer(g, pc) ==
    /\ caller' = [caller EXCEPT ![g].pc = pc]
    /\ consumer' = [consumer EXCEPT !.closed = @ + 1]

Opened(g, ok) ==
    /\ caller[g].pc = "open"
    /\ IF ok THEN caller' = [caller EXCEPT ![g].pc = "receive"] /\ UNCHANGED <<consumer, flushErrors>>
       ELSE /\ flushErrors < MaxFlushErrors /\ flushErrors' = flushErrors + 1
            /\ CloseConsumer(g, "done")
    /\ UNCHANGED <<pinned, tenantOf, ran>>

\* The client left, the time is up, or the consumer fails (always, once closed).
StreamStops(g) ==
    /\ caller[g].pc = "receive"
    /\ CloseConsumer(g, "done")
    /\ UNCHANGED <<pinned, tenantOf, ran, flushErrors>>

\* Faulty variant: the end element is an element like the others.
WholeBatch(batch) == [data |-> batch, acked |-> Len(batch), end |-> \E i \in DOMAIN batch : batch[i] = "end"]

\* processElements: elements are acknowledged one by one up to the end element; what is
\* behind it in the batch is left.
ProcessElements(batch) ==
    LET ends == {i \in DOMAIN batch : batch[i] = "end"} IN
    IF ends = {} THEN [data |-> batch, acked |-> Len(batch), end |-> FALSE]
    ELSE LET e == CHOOSE i \in ends : \A j \in ends : i <= j IN
         [data |-> SubSeq(batch, 1, e - 1), acked |-> e, end |-> TRUE]

\* A batch is received and acknowledged, then flushed. When the flush fails for another
\* reason than a closed connection the loop goes on without the batch.
ReceiveBatch(g, n, flush) ==
    LET from == consumer.received
        p == ProcessElements(SubSeq(Stream, from + 1, from + n))
        next == [consumer EXCEPT !.received = from + n, !.acked = @ + p.acked,
                                 !.flushed = IF flush = "ok" THEN @ \o p.data ELSE @,
                                 !.lost = IF flush = "ok" THEN @ ELSE @ + Len(p.data)]
    IN
    /\ caller[g].pc = "receive" /\ consumer.closed = 0
    /\ n \in 1 .. Len(Stream) - from
    /\ flush # "ok" => flushErrors < MaxFlushErrors
    /\ flushErrors' = IF flush = "ok" THEN flushErrors ELSE flushErrors + 1
    /\ IF flush = "closed" \/ p.end
       THEN /\ consumer' = [next EXCEPT !.closed = @ + 1]
            /\ caller' = [caller EXCEPT ![g].pc = IF flush = "closed" THEN "open" ELSE "done"]
       ELSE consumer' = next /\ caller' = caller
    /\ UNCHANGED <<pinned, tenantOf, ran>>

------------------------------------------------------------------------------
AccessInit ==
    /\ caller = [g \in Callers |-> [pc |-> "new", api |-> None]]
    /\ pinned = [th \in Threads |-> None]
    /\ tenantOf = [th \in Threads |-> None]
    /\ ran = {}
    /\ consumer = [received |-> 0, acked |-> 0, flushed |-> <<>>, lost |-> 0, closed |-> 0]
    /\ flushErrors = 0

AccessNext ==
    \E g \in Callers :
        \/ \E name \in CallOps, m \in Messages : Receive(g, name, m)
        \/ \E th \in Threads : Lock(g, th) \/ \E ok \in BOOLEAN : SetTenantID(g, th, ok) \/ RunLocal(g, th, ok)
        \/ \E ok \in BOOLEAN : Opened(g, ok)
        \/ StreamStops(g)
        \/ \E n \in 1 .. Len(Stream), f \in {"ok", "error", "closed"} : ReceiveBatch(g, n, f)

AccessSpec == AccessInit /\ [][AccessNext]_accessVars

------------------------------------------------------------------------------
\* Properties

\* The tenant is a property of the thread and goroutines move between threads: still
\* every call of the libruntime is made under the tenant of the request it serves
\* (LockOSThread around SetTenantID and the call, datasystemclient/api.go).
CallUsesOwnTenant == \A c \in ran : c.tenant = CallTenant[c.by]

\* A subscriber that was acknowledged for got it: nothing behind the end element is acknowledged,
\* and as long as no flush failed what was flushed is the beginning of the stream as far as it was
\* acknowledged, the end element excluded (processElements acknowledges before the flush).
StreamPrefix ==
    LET acked == consumer.acked
        kept == IF acked > 0 /\ Stream[acked] = "end" THEN acked - 1 ELSE acked
    IN
    /\ \A i \in 1 .. kept : Stream[i] # "end"
    /\ consumer.lost = 0 => consumer.flushed = SubSeq(Stream, 1, kept)
    /\ Len(consumer.flushed) + consumer.lost = kept

\* No client is leaked or handed out after it was destroyed, a retry never goes back to a node that
\* failed, a call runs under the tenant of its request, and what a subscriber was given is the
\* acknowledged beginning of its stream (datasystemclient/api.go, stream/subscriber.go).
DataSystemCallsSound == ClientsSound /\ NoNodeTwice /\ CallUsesOwnTenant /\ StreamPrefix
==============================================================================

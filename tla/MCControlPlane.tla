---------------------------- MODULE MCControlPlane ----------------------------
(***************************************************************************)
(* The components behind the handlers, checked in one run: the watch of etcd *)
(* with its cache file and its lock, the tables it fills, the clients of the *)
(* data system and of the kernel, rings and timers. They share no variable,  *)
(* so an invariant of one of them holds of the whole exactly when it holds   *)
(* while that one moves: part says which one does, the others stay in their  *)
(* initial states. Two modules hold several components of their own          *)
(* (schedulers and configurations beside the instances, two kinds of ring)   *)
(* and are split further.                                                    *)
(***************************************************************************)
EXTENDS SessionContext, DataSystemClient, RemoteClientLease, EtcdWatch, FunctionMeta,
        InstanceManager, CommonLibraries, StreamConnection, TimeWheel, NodeHealth, TLC

VARIABLE part

CONSTANTS c1, c2, d1, d2, g1, g2, n1, n2, r1, t1, tA, tB, w1

------------------------------------------------------------------------------
\* SessionContext
MCCalls == [op : {"get", "list", "turn", "events", "filtered", "sessions", "delete"}, error : {None}]
           \union {[op |-> "get", error |-> "forbidden"]}

\* DataSystemClient: a download from a node that is given, a call of the key-value store.
MCOpTenant == (d1 :> t1 @@ d2 :> t1)
MCOpKind == (d1 :> "download" @@ d2 :> "kv")
MCGiven == (d1 :> n1 @@ d2 :> None)

\* DataSystemClient: two callers of two tenants, a stream with a second end.
MCCallTenant == (g1 :> tA @@ g2 :> tB)
MCMessages == {[first |-> 1, second |-> 2], [first |-> None, second |-> 1], [first |-> 1, second |-> 1]}
MCStream == <<"a", "b", "end", "c">>

\* EtcdLock: a key that is a prefix of no other.
MCExtends == [k \in LockKeys |-> {k}]

\* InstanceManager: two instances of different resource keys.
MCInstances == {<<"k1", "i1">>, <<"k2", "i1">>}

\* CommonLibraries: three nodes of two virtual points, some of which collide.
MCVirtualHash == <<<<10, 40>>, <<20, 40>>, <<10, 30>>>>
MCNodeHash == <<10, 20, 30>>
MCKeyHash == [k \in {"k1", "k2", "k3"} |-> CASE k = "k1" -> 5 [] k = "k2" -> 25 [] OTHER -> 40]

\* StreamConnection: two calls under one request ID.
MCRequestOf == (c1 :> r1) @@ (c2 :> r1)

\* TimeWheel: for ever, or once.
MCTimes == {-1, 1}

\* CommonLibraries: a request with two parameters and signed headers of both kinds; it arrives as it was,
\* with another order and connection, or with something that was signed changed.
MCHmacRequest ==
    [method |-> "GET", path |-> "p", query |-> <<"x", "y", "x">>, body |-> "b",
     signedHeaders |-> <<"h", "connection", "authorization">>,
     headers |-> ("h" :> "v" @@ "connection" :> "close" @@ "authorization" :> "")]
MCHmacRequests == {MCHmacRequest}
MCAltered(req) ==
    LET arrived == [req EXCEPT !.headers["authorization"] = "signed"]
    IN  {arrived, [arrived EXCEPT !.query = Reverse(@), !.headers["connection"] = ""],
         [arrived EXCEPT !.query = <<"y", "x">>], [arrived EXCEPT !.query = <<"x", "x", "y">>],
         [arrived EXCEPT !.path = "q"], [arrived EXCEPT !.body = "c"], [arrived EXCEPT !.headers["h"] = "w"],
         [arrived EXCEPT !.headers["h"] = ""]}

------------------------------------------------------------------------------
Stays(ps, vars) == IF part \in ps THEN TRUE ELSE UNCHANGED vars

\* Only the component p may move.
Only(p) ==
    /\ part = p /\ UNCHANGED part
    /\ Stays({"session"}, sessionVars) /\ Stays({"dsClient"}, dsVars) /\ Stays({"dsAccess"}, accessVars)
    /\ Stays({"lease"}, leaseVars) /\ Stays({"watch"}, watchVars) /\ Stays({"cache"}, fileVars)
    /\ Stays({"lock"}, lockVars) /\ Stays({"meta"}, metaVars)
    /\ Stays({"instances", "schedulers", "configs"}, managerVars)
    /\ Stays({"simpleRing", "anchorRing"}, ringVars) /\ Stays({"rpc"}, rpcVars) /\ Stays({"server"}, srvVars)
    /\ Stays({"wheel"}, wheelVars) /\ Stays({"health"}, healthVars) /\ Stays({"queue"}, pqVars)
    /\ Stays({"sign", "hmac"}, authVars)

ControlInit ==
    /\ part \in {"session", "dsClient", "dsAccess", "lease", "watch", "cache", "lock", "meta", "instances",
                 "schedulers", "configs", "simpleRing", "anchorRing", "rpc", "server", "wheel", "health", "queue",
                 "sign", "hmac"}
    /\ SessionInit /\ DsInit /\ AccessInit /\ LeaseInit /\ WatchInit /\ CacheInit /\ LockInit /\ MetaInit
    /\ ManagerInit /\ RingInit /\ RpcInit /\ SrvInit /\ WheelInit /\ HealthInit /\ PqInit /\ AuthInit
    \* A watch that does not move stays in one of its initial states.
    /\ part # "watch" => revision = 1 /\ runs[w1].pc = "list"

ControlNext ==
    \/ Only("session") /\ SessionNext
    \/ Only("dsClient") /\ DsNext
    \/ Only("dsAccess") /\ AccessNext
    \/ Only("lease") /\ LeaseNext
    \/ Only("watch") /\ WatchNext
    \/ Only("cache") /\ CacheNext
    \/ Only("lock") /\ LockNext
    \/ Only("meta") /\ MetaNext
    \/ Only("instances") /\ InstanceNext
    \/ Only("schedulers") /\ SchedulerEvent
    \/ Only("configs") /\ ConfigNext
    \/ Only("simpleRing") /\ SimpleRingNext
    \/ Only("anchorRing") /\ AnchorRingNext
    \/ Only("rpc") /\ RpcNext
    \/ Only("server") /\ SrvNext
    \/ Only("wheel") /\ WheelNext
    \/ Only("health") /\ HealthNext
    \/ Only("queue") /\ PqNext
    \/ Only("sign") /\ SharedNext
    \/ Only("hmac") /\ HmacNext
controlVars == <<part, sessionVars, dsVars, accessVars, leaseVars, watchVars, fileVars, lockVars, metaVars,
                 managerVars, ringVars, rpcVars, srvVars, wheelVars, healthVars, pqVars, authVars>>
ControlSpec == ControlInit /\ [][ControlNext]_controlVars

------------------------------------------------------------------------------
\* The libraries keep what their callers rely on: every frontend sends a name to the same node, and
\* to a node that is there (loadbalance/hash.go); the ends of a priority queue are its extremes
\* (queue/priorityqueue.go); a signature is honoured in time, and for what was signed
\* (localauth/authcheck.go).
LibrariesSound ==
    FrontendsAgree /\ ChosenIsPresent /\ QueueOrdered /\ SharedSignHonoured /\ SignatureCoversRequest

==============================================================================

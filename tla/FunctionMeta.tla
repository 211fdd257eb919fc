----------------------------- MODULE FunctionMeta -----------------------------
(***************************************************************************)
(* What the frontend knows of one function (functionmeta, the watchers of   *)
(* the meta etcd, of the CAE etcd and of the function custom resources):    *)
(* each source has its own goroutine, which applies its events in order,    *)
(* and a request that does not find the function reads the meta etcd        *)
(* itself, once for all the requests that wait. Metadata is a version.      *)
(***************************************************************************)
EXTENDS GoValues, Integers, Sequences

CONSTANTS
    Loads,              \* calls of LoadFuncSpec
    MaxVersions,        \* bound: versions written
    MaxPendingEvents    \* bound: events of one source not yet handled

Sources == {"meta", "cae"}

ASSUME SourcesAssumption == None \notin Sources

FuncSpec(from, v) == [from |-> from, v |-> v]

VARIABLES
    stored,        \* [Sources \union {"silent"} -> the version in etcd, or None]
    lastVersion,   \* the versions written so far
    events,        \* [Sources -> the events its watcher has not handled; a deletion is None]
    handling,      \* [Sources -> the event in ProcessUpdate or ProcessDelete]
    funcSpecMap,   \* the spec, or None
    funcRouteMap,  \* [route prefixes -> the spec, or None], the trie has the same prefixes
    sf,            \* the item of the function in the single flight cache, or None
    items,         \* [Loads -> the item that call made]
    loads,         \* [Loads -> where the call is, and with what]
    resource,      \* the version of the custom resource, or None
    crQueue,       \* the work queue of its watcher
    funcCrSpecMap, crKey2FuncKeyMap

etcdData == <<stored, lastVersion>>
crVars == <<resource, crQueue, funcCrSpecMap, crKey2FuncKeyMap>>
loadVars == <<items, loads>>
metaVars == <<etcdData, events, handling, funcSpecMap, funcRouteMap, sf, loadVars, crVars>>

NotHandling == [pc |-> "idle", ev |-> None, pre |-> None]
Pending == [from |-> "pending", v |-> 0]
NotFound == [from |-> "none", v |-> 0]

\* The route prefix a version of a serve function declares.
RoutePrefix(v) == v % 2

------------------------------------------------------------------------------
\* etcd

\* A version is written or deleted; the silent key is under a prefix nobody watches.
Write(s, v) ==
    /\ IF v = None THEN stored[s] # None /\ UNCHANGED lastVersion
       ELSE v = lastVersion + 1 /\ v <= MaxVersions /\ lastVersion' = v
    /\ s \in Sources => Len(events[s]) < MaxPendingEvents
    /\ stored' = [stored EXCEPT ![s] = v]
    /\ events' = IF s \in Sources THEN [events EXCEPT ![s] = Append(@, v)] ELSE events
    /\ UNCHANGED <<handling, funcSpecMap, funcRouteMap, sf, loadVars, crVars>>

------------------------------------------------------------------------------
\* ProcessUpdate and ProcessDelete

\* Only meta may replace or delete what came from meta.
Skips(s, pre) == s = "cae" /\ pre # None /\ pre.from # "cae"

\* The handler takes the next event and looks the function up.
Handle(s) ==
    /\ handling[s].pc = "idle" /\ events[s] # <<>>
    /\ events' = [events EXCEPT ![s] = Tail(@)]
    /\ handling' = [handling EXCEPT ![s] =
           IF Skips(s, funcSpecMap) THEN NotHandling
           ELSE [pc |-> IF Head(events[s]) = None THEN "delete" ELSE "store",
                 ev |-> Head(events[s]), pre |-> funcSpecMap]]
    /\ UNCHANGED <<etcdData, funcSpecMap, funcRouteMap, sf, loadVars, crVars>>

\* updateRoute: the route of the spec that was there goes, if it is another one.
UpdateRoute(pre, curr) ==
    [p \in {0, 1} |-> IF p = RoutePrefix(curr.v) THEN curr
                      ELSE IF pre # None /\ p = RoutePrefix(pre.v) THEN None ELSE funcRouteMap[p]]

ProcessUpdate(s) ==
    /\ handling[s].pc = "store"
    /\ LET curr == FuncSpec(s, handling[s].ev)
       IN  /\ funcSpecMap' = curr
           /\ funcRouteMap' = UpdateRoute(handling[s].pre, curr)
    /\ handling' = [handling EXCEPT ![s].pc = "remove"]
    /\ UNCHANGED <<etcdData, events, sf, loadVars, crVars>>

\* The spec that was found goes with its route; the observers clear the queues and the
\* metrics, the balancers and the lease pools of the function.
ProcessDelete(s) ==
    /\ handling[s].pc = "delete"
    /\ IF handling[s].pre = None THEN UNCHANGED <<funcSpecMap, funcRouteMap>>
       ELSE /\ funcSpecMap' = None
            /\ funcRouteMap' = [funcRouteMap EXCEPT ![RoutePrefix(handling[s].pre.v)] = None]
    /\ handling' = [handling EXCEPT ![s].pc = "remove"]
    /\ UNCHANGED <<etcdData, events, sf, loadVars, crVars>>

\* Faulty variant: the remembered answer stays.
KeepItem(s) ==
    /\ handling[s].pc = "remove"
    /\ sf' = sf
    /\ handling' = [handling EXCEPT ![s] = NotHandling]
    /\ UNCHANGED <<etcdData, events, funcSpecMap, funcRouteMap, loadVars, crVars>>

\* sf.Remove, at the end of both: the next call reads etcd again.
RemoveItem(s) ==
    /\ handling[s].pc = "remove"
    /\ sf' = None
    /\ handling' = [handling EXCEPT ![s] = NotHandling]
    /\ UNCHANGED <<etcdData, events, funcSpecMap, funcRouteMap, loadVars, crVars>>

------------------------------------------------------------------------------
\* LoadFuncSpec

Goes(l, pc, arg) == loads' = [loads EXCEPT ![l] = [pc |-> pc, arg |-> arg]]

Returns(l, spec) == Goes(l, "done", spec)

\* The custom resource first, then the map; a serve function may be loaded by its path.
LoadKnown(l) ==
    /\ loads[l].pc = "new"
    /\ \/ /\ funcCrSpecMap # None /\ Returns(l, FuncSpec("cr", funcCrSpecMap))
       \/ /\ funcCrSpecMap = None /\ funcSpecMap # None /\ Returns(l, funcSpecMap)
    /\ UNCHANGED <<etcdData, events, handling, funcSpecMap, funcRouteMap, sf, items, crVars>>

LoadFuncSpecWithPath(l, p) ==
    /\ loads[l].pc = "new"
    /\ Returns(l, IF funcRouteMap[p] = None THEN NotFound ELSE funcRouteMap[p])
    /\ UNCHANGED <<etcdData, events, handling, funcSpecMap, funcRouteMap, sf, items, crVars>>

\* The first call of the flight makes the item, the others wait for it; an item that is
\* done answers at once.
Do(l) ==
    /\ loads[l].pc = "new" /\ funcCrSpecMap = None /\ funcSpecMap = None
    /\ IF sf = None THEN sf' = l /\ Goes(l, "silent", None)
       ELSE sf' = sf /\ Goes(l, "wait", sf)
    /\ UNCHANGED <<etcdData, events, handling, funcSpecMap, funcRouteMap, items, crVars>>

Waits(l) ==
    /\ loads[l].pc = "wait" /\ items[loads[l].arg] # Pending
    /\ Returns(l, items[loads[l].arg])
    /\ UNCHANGED <<etcdData, events, handling, funcSpecMap, funcRouteMap, sf, items, crVars>>

\* The item gets its result, which stays until it is removed.
EndFlight(l, spec) == items' = [items EXCEPT ![l] = spec] /\ Returns(l, spec)

\* fetchMetaEtcdWithSingleFlight: the silent key, then the meta key.
Fetch(l, key, next) ==
    /\ loads[l].pc = key
    /\ IF stored[key] # None THEN Goes(l, "store", stored[key]) /\ UNCHANGED items
       ELSE IF next # None THEN Goes(l, next, None) /\ UNCHANGED items
       ELSE EndFlight(l, NotFound)
    /\ UNCHANGED <<etcdData, events, handling, funcSpecMap, funcRouteMap, sf, crVars>>

\* What was read is stored, whatever happened since.
StoreFetched(l) ==
    /\ loads[l].pc = "store"
    /\ funcSpecMap' = FuncSpec("meta", loads[l].arg)
    /\ EndFlight(l, FuncSpec("meta", loads[l].arg))
    /\ UNCHANGED <<etcdData, events, handling, funcRouteMap, sf, crVars>>

\* etcd does not answer: the item is removed ten seconds later.
FetchFails(l) ==
    /\ loads[l].pc \in {"silent", "meta"}
    /\ EndFlight(l, [NotFound EXCEPT !.from = "error"])
    /\ UNCHANGED <<etcdData, events, handling, funcSpecMap, funcRouteMap, sf, crVars>>

ItemExpires ==
    /\ sf # None /\ items[sf].from = "error"
    /\ sf' = None
    /\ UNCHANGED <<etcdData, events, handling, funcSpecMap, funcRouteMap, loadVars, crVars>>

------------------------------------------------------------------------------
\* The custom resources

\* The informer: the lister has the new state before the event is queued.
ResourceChanges(v) ==
    /\ IF v = None THEN resource # None /\ UNCHANGED lastVersion
       ELSE v = lastVersion + 1 /\ v <= MaxVersions /\ lastVersion' = v
    /\ resource' = v
    /\ crQueue' = Append(crQueue, IF v = None THEN "delete" ELSE "update")
    /\ UNCHANGED <<stored, events, handling, funcSpecMap, funcRouteMap, sf, loadVars,
                   funcCrSpecMap, crKey2FuncKeyMap>>

\* processEvent asks the lister again. When the resource is gone the lister returns no
\* object, and the assertion on its type ends the call before the deletion; ok: the
\* resource can be parsed, else it is queued again up to the retry limit and dropped.
ProcessCrEvent(ok) ==
    /\ crQueue # <<>>
    /\ crQueue' = Tail(crQueue)
    /\ IF resource # None /\ ok
       THEN /\ funcCrSpecMap' = resource /\ crKey2FuncKeyMap' = TRUE
            /\ sf' = None
       ELSE UNCHANGED <<funcCrSpecMap, crKey2FuncKeyMap, sf>>
    /\ UNCHANGED <<etcdData, events, handling, funcSpecMap, funcRouteMap, loadVars, resource>>

------------------------------------------------------------------------------
MetaInit ==
    /\ stored = [s \in Sources \union {"silent"} |-> None] /\ lastVersion = 0
    /\ events = [s \in Sources |-> <<>>] /\ handling = [s \in Sources |-> NotHandling]
    /\ funcSpecMap = None /\ funcRouteMap = [p \in {0, 1} |-> None] /\ sf = None
    /\ items = [l \in Loads |-> Pending] /\ loads = [l \in Loads |-> [pc |-> "new", arg |-> None]]
    /\ resource = None /\ crQueue = <<>> /\ funcCrSpecMap = None /\ crKey2FuncKeyMap = FALSE

MetaNext ==
    \/ \E v \in 1 .. MaxVersions \union {None} :
           ResourceChanges(v) \/ \E s \in Sources \union {"silent"} : Write(s, v)
    \/ \E s \in Sources : Handle(s) \/ ProcessUpdate(s) \/ ProcessDelete(s) \/ RemoveItem(s)
    \/ \E l \in Loads :
           \/ LoadKnown(l) \/ Do(l) \/ Waits(l) \/ StoreFetched(l) \/ FetchFails(l)
           \/ Fetch(l, "silent", "meta") \/ Fetch(l, "meta", None)
           \/ \E p \in {0, 1} : LoadFuncSpecWithPath(l, p)
    \/ ItemExpires
    \/ \E ok \in BOOLEAN : ProcessCrEvent(ok)

MetaSpec == MetaInit /\ [][MetaNext]_metaVars

------------------------------------------------------------------------------
\* Properties

\* A function that is in the meta etcd and whose last event was handled is found by the
\* next request, whatever the CAE events, the flights and their stale answers left
\* behind: it is in the map, or no remembered "not found" stands in the way of reading
\* etcd (functionmeta/metadata.go ProcessUpdate, ProcessDelete, LoadFuncSpec).
KnownFunctionLoads ==
    (stored["meta"] # None /\ events["meta"] = <<>> /\ handling["meta"] = NotHandling)
        => (funcSpecMap # None \/ sf = None \/ items[sf].from # "none")

\* Metadata of the CAE etcd never replaces that of the meta etcd.
CaeNeverOverwrites ==
    [][funcSpecMap # None /\ funcSpecMap.from = "meta"
       => funcSpecMap' = None \/ funcSpecMap'.from = "meta"]_metaVars

\* A custom resource that was deleted is forgotten once its events are processed.
DeletedResourceForgotten == (resource = None /\ crQueue = <<>>) => funcCrSpecMap = None
=============================================================================

--------------------------- MODULE CommonLibraries ---------------------------
(***************************************************************************)
(* Libraries of faas_common, in three parts that share no variable: the      *)
(* consistent hash rings (loadbalance/hash.go), the priority queue           *)
(* (queue/priorityqueue.go) and the signatures between the components of the  *)
(* platform (localauth).                                                      *)
(*                                                                           *)
(* The two hash rings: SimpleCHGeneric, of the scheduler proxy, puts every   *)
(* node on the ring many times and is the same ring in every frontend;       *)
(* CHGeneric, of the bus proxies, puts a node on the ring once and remembers *)
(* an anchor for every name that asked.                                      *)
(***************************************************************************)
EXTENDS GoValues, Integers, Sequences, SequencesExt, FiniteSets

CONSTANTS
    RingNodes,      \* nodes, numbered in the order of their names
    RingKeys,       \* names that are hashed onto the ring
    Frontends,      \* frontends, each with a SimpleCHGeneric of its own
    VirtualHash,    \* [RingNodes -> sequence of hashes]: buildVirtualNodes, collisions included
    NodeHash,       \* [RingNodes -> hash]
    KeyHash         \* [RingKeys -> hash]

\* CHGeneric keeps one node for a hash: two addresses never collide.
ASSUME NodeHashIsInjective == \A m, n \in RingNodes : NodeHash[m] = NodeHash[n] => m = n
ASSUME KeyHashIsNat == \A k \in RingKeys : KeyHash[k] \in Nat

VARIABLES
    rings,          \* [Frontends -> sequence of virtual nodes]
    owners,         \* [Frontends -> set of nodes]
    instanceMap,    \* CHGeneric: [hash -> node], its domain is the hash pool
    anchorPoint,    \* CHGeneric: [RingKeys -> [hash, node], or None]
    chosen          \* <<what CHGeneric.Next answered>>, None after any other step

simpleVars == <<rings, owners>>
anchorVars == <<instanceMap, anchorPoint, chosen>>
ringVars == <<simpleVars, anchorVars>>

------------------------------------------------------------------------------
\* SimpleCHGeneric

\* buildVirtualNodes
BuildVirtualNodes(n) == [i \in DOMAIN VirtualHash[n] |-> [hash |-> VirtualHash[n][i], owner |-> n, index |-> i]]

\* Faulty variant: points with the same hash stay in the order they were added in.
SortByHash(nodes) == SortSeq(nodes, LAMBDA a, b : a.hash < b.hash)

\* sortVirtualNodes: by hash, owner and index.
SortVirtualNodes(nodes) ==
    SortSeq(nodes, LAMBDA a, b : \/ a.hash < b.hash
                                 \/ a.hash = b.hash /\ a.owner < b.owner
                                 \/ a.hash = b.hash /\ a.owner = b.owner /\ a.index < b.index)

\* SimpleCHGeneric.Next: the first point after the key, or the first of all.
SimpleNext(ring, key) ==
    IF ring = <<>> THEN None
    ELSE LET after == {i \in DOMAIN ring : ring[i].hash > KeyHash[key]}
         IN  ring[IF after = {} THEN 1 ELSE CHOOSE i \in after : \A j \in after : i <= j].owner

SimpleAdd(f, n) ==
    /\ n \notin owners[f]
    /\ owners' = [owners EXCEPT ![f] = @ \cup {n}]
    /\ rings' = [rings EXCEPT ![f] = SortVirtualNodes(@ \o BuildVirtualNodes(n))]
    /\ UNCHANGED anchorVars

SimpleRemove(f, n) ==
    /\ n \in owners[f]
    /\ owners' = [owners EXCEPT ![f] = @ \ {n}]
    /\ rings' = [rings EXCEPT ![f] = SelectSeq(@, LAMBDA v : v.owner # n)]
    /\ UNCHANGED anchorVars

SimpleRemoveAll(f) ==
    /\ owners' = [owners EXCEPT ![f] = {}]
    /\ rings' = [rings EXCEPT ![f] = <<>>]
    /\ UNCHANGED anchorVars

------------------------------------------------------------------------------
\* CHGeneric

HashPool == DOMAIN instanceMap
NodeAt(h) == IF h \in HashPool THEN instanceMap[h] ELSE None

\* getNextHashKey: 0 when the pool is empty.
GetNextHashKey(h) ==
    IF HashPool = {} THEN 0
    ELSE LET after == {v \in HashPool : v > h}
             least(S) == CHOOSE v \in S : \A w \in S : v <= w
         IN  IF after = {} THEN least(HashPool) ELSE least(after)

\* addAnchorPoint and moveAnchorPoint: the node after a hash.
AnchorAfter(h) == [hash |-> GetNextHashKey(h), node |-> NodeAt(GetNextHashKey(h))]

\* Faulty variant: an anchor is trusted until it is moved.
TrustAnchor(key, move) == IF move THEN AnchorAfter(anchorPoint[key].hash) ELSE anchorPoint[key]

\* CHGeneric.Next for a name with an anchor: it moves when asked to, and when its node has left.
MovedAnchor(key, move) ==
    LET anchor == IF move THEN AnchorAfter(anchorPoint[key].hash) ELSE anchorPoint[key]
    IN  IF anchor.hash \in HashPool THEN anchor ELSE AnchorAfter(anchor.hash)

CHNext(key, move) ==
    /\ anchorPoint' = [anchorPoint EXCEPT
           ![key] = IF anchorPoint[key] = None THEN AnchorAfter(KeyHash[key]) ELSE MovedAnchor(key, move)]
    /\ chosen' = <<anchorPoint'[key].node>>
    /\ UNCHANGED <<simpleVars, instanceMap>>

\* CHGeneric.Add; what was chosen before is no longer of interest.
CHAdd(n) ==
    /\ NodeHash[n] \notin HashPool
    /\ instanceMap' = [h \in HashPool \cup {NodeHash[n]} |-> IF h = NodeHash[n] THEN n ELSE instanceMap[h]]
    /\ chosen' = None
    /\ UNCHANGED <<simpleVars, anchorPoint>>

CHRemove(n) ==
    /\ NodeHash[n] \in HashPool
    /\ instanceMap' = [h \in HashPool \ {NodeHash[n]} |-> instanceMap[h]]
    /\ chosen' = None
    /\ UNCHANGED <<simpleVars, anchorPoint>>

CHRemoveAll ==
    /\ instanceMap' = << >> /\ chosen' = None
    /\ UNCHANGED <<simpleVars, anchorPoint>>

CHReset ==
    /\ anchorPoint' = [k \in RingKeys |-> None] /\ chosen' = None
    /\ UNCHANGED <<simpleVars, instanceMap>>

DeleteBalancer(key) ==
    /\ anchorPoint' = [anchorPoint EXCEPT ![key] = None] /\ chosen' = None
    /\ UNCHANGED <<simpleVars, instanceMap>>

------------------------------------------------------------------------------
RingInit ==
    /\ rings = [f \in Frontends |-> <<>>] /\ owners = [f \in Frontends |-> {}]
    /\ instanceMap = << >> /\ anchorPoint = [k \in RingKeys |-> None] /\ chosen = None

SimpleRingNext ==
    \E f \in Frontends : SimpleRemoveAll(f) \/ \E n \in RingNodes : SimpleAdd(f, n) \/ SimpleRemove(f, n)

AnchorRingNext ==
    \/ \E n \in RingNodes : CHAdd(n) \/ CHRemove(n)
    \/ \E k \in RingKeys : DeleteBalancer(k) \/ \E move \in BOOLEAN : CHNext(k, move)
    \/ CHRemoveAll \/ CHReset

RingNext == SimpleRingNext \/ AnchorRingNext

RingSpec == RingInit /\ [][RingNext]_ringVars

------------------------------------------------------------------------------
\* Properties

\* Two frontends that know the same nodes send a name to the same one, in whatever order the
\* nodes came and went, also where two points of the ring collide (sortVirtualNodes).
FrontendsAgree ==
    \A f, g \in Frontends : owners[f] = owners[g] =>
        \A k \in RingKeys : SimpleNext(rings[f], k) = SimpleNext(rings[g], k)

\* A node that joins takes names over and moves no other: every name stays where it was or
\* goes to the new node.
OnlyNewNodeTakes ==
    [][\A f \in Frontends, n \in RingNodes :
           (owners[f] # {} /\ owners'[f] = owners[f] \cup {n}) =>
               \A k \in RingKeys : SimpleNext(rings'[f], k) \in {SimpleNext(rings[f], k), n}]_ringVars

\* CHGeneric answers with a node of the ring as long as there is one, although the anchor it
\* starts from may be of a node that left, or of the time the ring was empty.
ChosenIsPresent ==
    chosen # None => IF HashPool = {} THEN chosen[1] = None ELSE \E h \in HashPool : instanceMap[h] = chosen[1]

------------------------------------------------------------------------------
(***************************************************************************)
(* The two-ended priority queue (faas_common/queue): a max-min heap in an    *)
(* array, whose even levels hold maxima and whose odd levels hold minima.    *)
(* An item is its priority; its ID is the place it has in the array.         *)
(***************************************************************************)

CONSTANTS
    Priorities,   \* priorities priorityFunc gives
    MaxItems      \* bound: items in the queue

VARIABLES
    heap,         \* DeHeap.items; places are counted from 0, as in the code
    disturbed     \* since the queue was last empty an item was "deleted" by its ID, or an item's
                  \* priority changed and was left "unfixed" (history)

pqVars == <<heap, disturbed>>

------------------------------------------------------------------------------
\* Places

ItemAt(h, i) == h[i + 1]
RECURSIVE Level(_)
Level(i) == IF i = 0 THEN 0 ELSE 1 + Level((i - 1) \div 2)
IsMaxLevel(i) == Level(i) % 2 = 0
Parent(i) == IF i = 0 THEN 0 ELSE (i - 1) \div 2
Grandparent(i) == ((i + 1) \div 4) - 1
LeftChild(i) == 2 * i + 1
RightChild(i) == 2 * i + 2

\* A place beyond the end compares as not greater and is not swapped.
Compare(h, i, j) == i < Len(h) /\ j < Len(h) /\ ItemAt(h, i) > ItemAt(h, j)
Swap(h, i, j) == IF i >= Len(h) \/ j >= Len(h) THEN h ELSE [h EXCEPT ![i + 1] = ItemAt(h, j), ![j + 1] = ItemAt(h, i)]

------------------------------------------------------------------------------
\* DeHeap

\* The second part of shiftUp: along the grandparents, which are on levels of the same kind.
RECURSIVE ShiftUpSame(_, _, _)
ShiftUpSame(h, i, isMax) ==
    LET g == Grandparent(i)
    IN  IF g < 0 \/ Compare(h, g, i) = isMax THEN h ELSE ShiftUpSame(Swap(h, g, i), g, isMax)

ShiftUp(h, i) ==
    LET p == Parent(i)
        isMax == IsMaxLevel(i)
    IN  IF Compare(h, p, i) = isMax THEN ShiftUpSame(Swap(h, p, i), p, ~isMax) ELSE ShiftUpSame(h, i, isMax)

\* The child or grandchild of i that belongs in its place, the first of several, or i.
Extreme(h, i) ==
    LET isMax == IsMaxLevel(i)
        near == <<LeftChild(i), RightChild(i)>> \o [k \in 1 .. 4 |-> LeftChild(LeftChild(i)) + k - 1]
        below == SelectSeq(near, LAMBDA k : k < Len(h))
    IN  FoldLeft(LAMBDA t, k : IF Compare(h, k, t) = isMax THEN k ELSE t, i, below)

\* shiftDown: the heap, and where the item ended. A grandchild that came up may have to change
\* with its new parent, and the walk goes on from there.
RECURSIVE ShiftDown(_, _)
ShiftDown(h, i) ==
    LET t == Extreme(h, i)
        moved == Swap(h, i, t)
        p == Parent(t)
    IN  IF i >= Len(h) \/ LeftChild(i) >= Len(h) \/ t = i THEN [heap |-> h, at |-> i]
        ELSE IF t \in {LeftChild(i), RightChild(i)} THEN [heap |-> moved, at |-> t]
        ELSE IF Compare(moved, p, t) = IsMaxLevel(i) THEN ShiftDown(Swap(moved, p, t), p)
        ELSE ShiftDown(moved, t)

\* The last item takes the place of the one that leaves and goes down from there.
TakeOut(h, i) == ShiftDown(Front(Swap(h, i, Len(h) - 1)), i).heap

\* Fix: down, and from where it ended up.
Fix(h, i) == LET d == ShiftDown(h, i) IN IF d.at > 0 THEN ShiftUp(d.heap, d.at) ELSE d.heap

\* The place of GetMin and PopMin: the lesser of the children of the root.
MinPlace(h) == IF Len(h) = 1 THEN 0 ELSE IF Len(h) > 2 /\ Compare(h, 1, 2) THEN 2 ELSE 1

GetMax(h) == ItemAt(h, 0)
GetMin(h) == ItemAt(h, MinPlace(h))

------------------------------------------------------------------------------
\* The queue

\* SortedRange: what PopMax of a copy gives, one after the other.
RECURSIVE SortedRange(_)
SortedRange(h) == IF h = <<>> THEN <<>> ELSE <<GetMax(h)>> \o SortedRange(TakeOut(h, 0))

Leaves(i, how) ==
    /\ i < Len(heap)
    /\ heap' = TakeOut(heap, i)
    /\ disturbed' = IF Len(heap) = 1 THEN {} ELSE disturbed \union how

\* PushBack, of an object that has a priority.
PushBack(p) ==
    /\ Len(heap) < MaxItems
    /\ heap' = ShiftUp(Append(heap, p), Len(heap))
    /\ UNCHANGED disturbed

\* PopFront and PopBack
PopFront == Leaves(0, {})
PopBack == heap # <<>> /\ Leaves(MinPlace(heap), {})

\* DelByID: the item that takes the place goes down and never up.
DelByID(i) == Leaves(i, {"deleted"})

\* UpdateObjByID: the object's new priority, and Fix. When priorityFunc fails, what it returned with
\* its error is the priority all the same, and the item stays where it is.
UpdateObjByID(i, p, fails) ==
    /\ i < Len(heap)
    /\ LET changed == [heap EXCEPT ![i + 1] = p]
       IN  heap' = IF fails THEN changed ELSE Fix(changed, i)
    /\ disturbed' = IF fails THEN disturbed \union {"unfixed"} ELSE disturbed

PqInit == heap = <<>> /\ disturbed = {}

PqNext ==
    \/ PopFront \/ PopBack
    \/ \E p \in Priorities : PushBack(p)
    \/ \E i \in 0 .. MaxItems - 1 : 
          \/ DelByID(i)
          \/ \E p \in Priorities, fails \in BOOLEAN : UpdateObjByID(i, p, fails)

------------------------------------------------------------------------------
\* Properties

\* The front is the item with the greatest priority whatever was pushed, popped, updated or deleted
\* before, the range in order is one of descending priorities, and the back is the item with the
\* least priority as long as none was deleted by its ID. An update whose priorityFunc failed leaves
\* no order to rely on until the queue is empty again (queue/priorityqueue.go).
QueueOrdered ==
    heap # <<>> /\ "unfixed" \notin disturbed =>
        /\ \A i \in DOMAIN heap : heap[i] <= GetMax(heap)
        /\ "deleted" \notin disturbed => \A i \in DOMAIN heap : GetMin(heap) <= heap[i]
        /\ LET sorted == SortedRange(heap) IN \A i \in 2 .. Len(sorted) : sorted[i] <= sorted[i - 1]

------------------------------------------------------------------------------
(***************************************************************************)
(* Signatures between the components of the platform (faas_common/localauth):*)
(* a signature that is made once a minute and shared by every request until  *)
(* the next, its check with a cache of the ones that were good, and the       *)
(* signature of a whole request with HMAC. Hashes are tuples of what goes in. *)
(* The keys are encrypted; crypto.go is a stand-in for a library that may     *)
(* fail.                                                                      *)
(***************************************************************************)

CONSTANTS
    AppIDs,            \* application IDs of the callers
    Durations,         \* minutes the receiver caches a good signature, 0 for no cache
    TimestampLimit,    \* timestampDiffLimit in minutes
    SignExpiration,    \* signExpirationTime in minutes
    AccessKeys,        \* "plain", "joined" (has a blank or a comma in it), "padded" (has a = in it)
    HmacRequests,      \* requests that are signed, as the sender has them
    Altered(_),        \* the forms in which a request may arrive
    MaxSigned,         \* bound: signatures given out that are checked
    MaxMinutes         \* bound: the clock

VARIABLES
    minute,            \* the clock
    refreshDue,        \* the ticker of the sender cache fired
    localCache,        \* None before doOnce
    signed,            \* what SignLocally gave out, and when: [sign, timestamp, at]
    authChecked,       \* the last AuthCheckLocally: [of, timestamp, decrypts, at, verdict],
                       \* or None (history)
    hmacSent,          \* signed requests: [req, auth]
    hmacChecked        \* the last VerifySignWithHmacSha256: [of, got, at, verdict],
                       \* or None (history)

senderVars == <<refreshDue, localCache, signed, authChecked>>
hmacVars == <<hmacSent, hmacChecked>>
authVars == <<minute, senderVars, hmacVars>>

Distance(a, b) == IF a < b THEN b - a ELSE a - b

------------------------------------------------------------------------------
\* The shared signature

\* buildCanonicalRequest of an empty URL and no data, for which a default body is signed; the date
\* is one of its headers.
CanonicalRequest(timestamp) == <<"POST", "/", <<"application/json", timestamp>>, "signature verification">>

\* buildStringToSign and buildSignature
BuildSignature(timestamp) == <<"sKey", timestamp, CanonicalRequest(timestamp)>>

\* signLocalAuthRequest and sign
SignLocalAuthRequest(timestamp, appID) ==
    [credential |-> <<"aKey", timestamp>>, signature |-> BuildSignature(timestamp), appid |-> appID]

NoSign == [auth |-> None, time |-> None]

\* CreateAuthorization
CreateAuthorization(appID, decrypts) ==
    IF decrypts THEN [auth |-> SignLocalAuthRequest(minute, appID), time |-> minute] ELSE NoSign

\* GetLocalAuthCache: the first caller's application and duration are those of the process.
GetLocalAuthCache(appID, duration, decrypts) ==
    IF localCache # None THEN localCache
    ELSE [appID |-> appID, duration |-> duration, sender |-> CreateAuthorization(appID, decrypts), receiver |-> {}]

\* What GetByKey and List of the TTL store keep.
Unexpired(c) == {e \in c.receiver : minute - e.since <= c.duration}

\* SignLocally: the shared signature, or one of its own where there is none.
SignLocally(appID, duration, first, decrypts) ==
    /\ Cardinality(signed) < MaxSigned
    /\ localCache' = GetLocalAuthCache(appID, duration, first)
    /\ LET shared == localCache'.sender
           s == IF shared = NoSign THEN CreateAuthorization(appID, decrypts) ELSE shared
       IN  signed' = signed \union {[sign |-> s.auth, timestamp |-> s.time, at |-> minute]}
    /\ UNCHANGED <<minute, refreshDue, authChecked, hmacVars>>

\* waitForDoneSignal: createAndUpdateSender of every minute.
RefreshSender(decrypts) ==
    /\ refreshDue /\ refreshDue' = FALSE
    /\ localCache' = [localCache EXCEPT !.sender = CreateAuthorization(localCache.appID, decrypts)]
    /\ UNCHANGED <<minute, signed, authChecked, hmacVars>>

\* startCleanExpiredKeysByTicker
CleanExpiredKeys ==
    /\ localCache # None /\ localCache.duration > 0
    /\ localCache' = [localCache EXCEPT !.receiver = Unexpired(localCache)]
    /\ UNCHANGED <<minute, refreshDue, signed, authChecked, hmacVars>>

\* getAppIDFromRequestSign fails on a signature that names no application.
HasAppID(sign) == sign.appid # ""

\* AuthCheckLocally of a request whose timestamp may be missing. Only the last two verdicts follow
\* a use of the cache.
AuthCheckLocally(m, timestamp, duration, first, decrypts) ==
    LET c == GetLocalAuthCache(m.sign.appid, duration, first)
        cached == c.duration > 0 /\ \E e \in Unexpired(c) : e.sign = m.sign
        early == CASE m.sign = None -> "no signature"
                   [] timestamp = None -> "invalid timestamp"
                   [] Distance(minute, timestamp) >= TimestampLimit -> "timeout"
                   [] ~HasAppID(m.sign) -> "no appid"
                   [] OTHER -> None
        good == cached \/ (decrypts /\ m.sign = SignLocalAuthRequest(timestamp, m.sign.appid))
    IN  /\ localCache' = IF early # None THEN localCache
                         ELSE IF c.duration = 0 THEN c
                         ELSE [c EXCEPT !.receiver = Unexpired(c) \union
                                   IF good /\ ~cached THEN {[sign |-> m.sign, since |-> minute]} ELSE {}]
        /\ authChecked' = [of |-> m, timestamp |-> timestamp, decrypts |-> decrypts, at |-> minute,
                           verdict |-> IF early # None THEN early ELSE IF good THEN "ok" ELSE "failed"]
        /\ UNCHANGED <<minute, refreshDue, signed, hmacVars>>

------------------------------------------------------------------------------
\* The signature of a request

\* A sequence whose order does not count: sorted, duplicates stay.
Sorted(s) == [x \in Range(s) |-> Cardinality({i \in DOMAIN s : s[i] = x})]

\* getHeaders: the signed headers the request has.
SignedKeys(req) == SelectSeq(req.signedHeaders, LAMBDA h : req.headers[h] # "")

\* buildSignedHeadersString: the headers that change on the way are left out.
StableKeys(req) == SelectSeq(SignedKeys(req), LAMBDA h : h \notin {"connection", "authorization"})

\* buildCanonicalString
CanonicalString(req) ==
    <<req.method, req.path, Sorted(req.query), Sorted([i \in DOMAIN StableKeys(req) |->
        <<StableKeys(req)[i], req.headers[StableKeys(req)[i]]>>]), Sorted(StableKeys(req)), req.body>>

\* sign
Sign(req, timestamp) == <<"sk", timestamp, CanonicalString(req)>>

\* SignWithHmacSha256
SignWithHmacSha256(req, ak) ==
    /\ Cardinality(hmacSent) < MaxSigned
    /\ hmacSent' = hmacSent \union
           {[req |-> req, auth |-> [timestamp |-> minute, ak |-> ak, signature |-> Sign(req, minute)]]}
    /\ UNCHANGED <<minute, senderVars, hmacChecked>>

\* VerifySignWithHmacSha256: the header is cut at blanks and commas into four fields, and each at =
\* into two.
VerifySignWithHmacSha256(m, got) ==
    LET auth == m.auth
        verdict == CASE auth.ak = "joined" -> "missing"
                     [] Distance(minute, auth.timestamp) > SignExpiration -> "timestamp"
                     [] auth.ak = "padded" -> "ak"
                     [] Sign(got, auth.timestamp) # auth.signature -> "signature"
                     [] OTHER -> "ok"
    IN  /\ hmacChecked' = [of |-> m, got |-> got, verdict |-> verdict, at |-> minute]
        /\ UNCHANGED <<minute, senderVars, hmacSent>>

------------------------------------------------------------------------------
\* A minute passes; the ticker's goroutine had the last one to run in.
Minute ==
    /\ minute < MaxMinutes /\ ~refreshDue
    /\ minute' = minute + 1
    /\ refreshDue' = (localCache # None)
    /\ UNCHANGED <<localCache, signed, authChecked, hmacVars>>

AuthInit ==
    /\ minute = 0 /\ refreshDue = FALSE /\ localCache = None /\ signed = {} /\ authChecked = None
    /\ hmacSent = {} /\ hmacChecked = None

SharedNext ==
    \/ Minute
    \/ CleanExpiredKeys
    \/ \E decrypts \in BOOLEAN : RefreshSender(decrypts)
    \/ \E duration \in Durations, first, decrypts \in BOOLEAN :
           \/ \E appID \in AppIDs : SignLocally(appID, duration, first, decrypts)
           \/ \E m \in signed : \E timestamp \in {None, m.timestamp} :
                  AuthCheckLocally(m, timestamp, duration, first, decrypts)

HmacNext ==
    \/ Minute
    \/ \E req \in HmacRequests, ak \in AccessKeys : SignWithHmacSha256(req, ak)
    \/ \E m \in hmacSent : \E got \in Altered(m.req) : VerifySignWithHmacSha256(m, got)

------------------------------------------------------------------------------
\* Properties

\* A signature that SignLocally gives out is old by a minute at most, so a request that takes less
\* than the limit without that minute passes the check, whichever way the cache was filled or
\* emptied before; one that is as old as the limit never does (localauth/authcheck.go).
SharedSignHonoured ==
    authChecked # None /\ authChecked.of.sign # None /\ authChecked.timestamp # None =>
        LET m == authChecked.of
        IN  /\ authChecked.at - m.at < TimestampLimit - 1 /\ authChecked.decrypts
               => authChecked.verdict = "ok"
            /\ authChecked.at - m.at >= TimestampLimit => authChecked.verdict # "ok"

\* A request passes exactly when nothing that was signed changed on its way: the order of its
\* query and of its headers, its connection header and the authorization that signing added do
\* not count. An access key with a separator in it never passes (localauth/authcheck.go).
SignatureCoversRequest ==
    hmacChecked # None =>
        LET sent == hmacChecked.of.req
            got == hmacChecked.got
            same == /\ sent.method = got.method /\ sent.path = got.path /\ sent.body = got.body
                    /\ Sorted(sent.query) = Sorted(got.query)
                    /\ \A h \in Range(sent.signedHeaders) \ {"connection", "authorization"} :
                           sent.headers[h] = got.headers[h]
        IN  hmacChecked.verdict = "ok" <=>
                /\ same /\ hmacChecked.of.auth.ak = "plain"
                /\ hmacChecked.at - hmacChecked.of.auth.timestamp <= SignExpiration
==============================================================================

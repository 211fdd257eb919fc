------------------------------ MODULE EtcdWatch ------------------------------
(***************************************************************************)
(* The etcd client and the watchers on it (etcd3): a heartbeat rebuilds     *)
(* the client when etcd does not answer, a watcher lists the keys of its    *)
(* prefix once, follows their changes, and starts again from the revision   *)
(* it has reached when its channel or the client is lost. An event is its   *)
(* revision; what a handler makes of it is in the modules of the handlers.  *)
(* The file cache of the watcher is off, as in every caller.                *)
(***************************************************************************)
EXTENDS GoValues, Integers, FiniteSets, Sequences, SequencesExt, FiniteSetsExt

CONSTANTS
    WatchRuns,      \* goroutines of run(): recoverWatch starts another one without waiting
    MaxRevision,    \* bound: changes under the prefix
    MaxOutages      \* bound: failed heartbeats

VARIABLES
    revision,       \* the revision of etcd
    outages,
    etcdStatusNow,  \* the last heartbeat was answered
    exitOpen,       \* clientExitCh is open
    connection,     \* counts the clients: restart() closes the channels of the last one
    lostContact,    \* etcdStatusAfterLostContact is false: the alarm timer has fired
    initialRev, historyRev,   \* of the watcher, shared by its goroutines
    runs,           \* [WatchRuns -> the run]
    sent,           \* the revisions put into ResultChan, as events of any type
    synced,         \* the synced event was sent
    excused         \* a list or a replay has failed, or two runs have overlapped (ghost)

watchVars == <<revision, outages, etcdStatusNow, exitOpen, connection, lostContact,
               initialRev, historyRev, runs, sent, synced, excused>>

etcdClientVars == <<outages, etcdStatusNow, exitOpen, connection, lostContact>>

\* A run: where it is, the first revision of its channel that it has not received, the
\* client the channel belongs to and the events of the batch that it still has to send.
Idle == [pc |-> "idle", from |-> 0, on |-> 0, batch |-> {}]

WatchGoes(w, r) == runs' = [runs EXCEPT ![w] = r]
At(w, pc) == runs[w].pc = pc

------------------------------------------------------------------------------
\* etcd

\* A key under the prefix changes.
Change ==
    /\ revision < MaxRevision
    /\ revision' = revision + 1
    /\ UNCHANGED etcdClientVars
    /\ UNCHANGED <<initialRev, historyRev, runs, sent, synced, excused>>

------------------------------------------------------------------------------
\* The client

\* restart: the channels of the old client are closed; it may fail to be rebuilt.
RestartClient(ok) == connection' = IF ok THEN connection + 1 ELSE connection

\* checkConnState, no answer
HeartbeatFails(ok) ==
    /\ outages < MaxOutages
    /\ outages' = outages + 1
    /\ etcdStatusNow' = FALSE /\ exitOpen' = FALSE
    /\ RestartClient(ok)
    /\ UNCHANGED lostContact
    /\ UNCHANGED <<revision, initialRev, historyRev, runs, sent, synced, excused>>

\* The timer the first failure armed.
LosesContact ==
    /\ ~etcdStatusNow /\ ~lostContact
    /\ lostContact' = TRUE
    /\ UNCHANGED <<revision, outages, etcdStatusNow, exitOpen, connection>>
    /\ UNCHANGED <<initialRev, historyRev, runs, sent, synced, excused>>

\* checkConnState, answered after an outage
Reconnect == ~etcdStatusNow /\ etcdStatusNow' = TRUE /\ exitOpen' = TRUE /\ lostContact' = FALSE

\* recoverWatch: a new exit channel, and the broadcast recoverWatch
\* waits for starts one more run; the earlier one has seen the exit channel closed only
\* if it was in its select.
HeartbeatRecovers(w) ==
    /\ Reconnect
    /\ At(w, "idle")
    /\ WatchGoes(w, [Idle EXCEPT !.pc = "list"])
    /\ excused' = (excused \/ \E x \in WatchRuns : ~At(x, "idle"))
    /\ UNCHANGED <<revision, outages, connection, initialRev, historyRev, sent, synced>>

------------------------------------------------------------------------------
\* The watcher

\* etcdList moves initialRev to the revision it was answered at.
EtcdList(h) == initialRev' = revision /\ historyRev' = h

\* StartList, only while nothing was listed: the keys are sent with their last change,
\* which accounts for every revision so far.
StartList(w, ok) ==
    /\ At(w, "list")
    /\ WatchGoes(w, [runs[w] EXCEPT !.pc = "create"])
    /\ IF initialRev # 0 THEN UNCHANGED <<initialRev, historyRev, sent, synced, excused>>
       ELSE /\ synced' = TRUE
            /\ IF ok THEN EtcdList(revision) /\ sent' = sent \union 1 .. revision /\ UNCHANGED excused
               ELSE UNCHANGED <<initialRev, historyRev, sent>> /\ excused' = TRUE
    /\ UNCHANGED <<revision, etcdClientVars>>

\* Faulty variant: the replay starts at the revision of the list.
ListMovesHistory(w, ok) ==
    /\ IF ok THEN /\ EtcdList(revision)
                  /\ WatchGoes(w, [Idle EXCEPT !.pc = "select", !.on = connection,
                                          !.from = IF initialRev = 0 THEN revision + 1 ELSE initialRev])
       ELSE WatchGoes(w, Idle) /\ UNCHANGED <<initialRev, historyRev>>
    /\ UNCHANGED <<revision, etcdClientVars, sent, synced, excused>>

\* createWatchChan: the options take initialRev before the list moves it, so that the
\* channel starts at the last revision that was received. Revision 0 means from now on.
\* A list that fails ends the run.
CreateWatchChan(w, ok) ==
    /\ IF ok THEN /\ EtcdList(historyRev)
                  /\ WatchGoes(w, [Idle EXCEPT !.pc = "select", !.on = connection,
                                          !.from = IF initialRev = 0 THEN revision + 1 ELSE initialRev])
       ELSE WatchGoes(w, Idle) /\ UNCHANGED <<initialRev, historyRev>>
    /\ UNCHANGED <<revision, etcdClientVars, sent, synced, excused>>

FirstChan(w, ok) == At(w, "create") /\ CreateWatchChan(w, ok)

\* The channel of a client that was closed.
ChannelCloses(w, ok) == At(w, "select") /\ runs[w].on # connection /\ CreateWatchChan(w, ok)

\* The select of run: the client was lost.
ClientExits(w) ==
    /\ At(w, "select") /\ ~exitOpen
    /\ WatchGoes(w, Idle)
    /\ UNCHANGED <<revision, etcdClientVars, initialRev, historyRev, sent, synced, excused>>

\* A batch: everything that happened since the last one, up to some revision.
ReceiveEvents(w, upTo) ==
    /\ At(w, "select") /\ upTo \in runs[w].from .. revision
    /\ WatchGoes(w, [runs[w] EXCEPT !.pc = "replay", !.batch = runs[w].from .. upTo, !.from = upTo + 1])
    /\ UNCHANGED <<revision, etcdClientVars, initialRev, historyRev, sent, synced, excused>>

\* EtcdHistory: what a list has skipped is sent as history events, from the last event
\* that was received; its own channel may be closed at once.
EtcdHistory(w, ok) ==
    /\ At(w, "replay")
    /\ WatchGoes(w, [runs[w] EXCEPT !.pc = "send"])
    /\ IF historyRev = 0 \/ historyRev >= initialRev THEN UNCHANGED <<sent, excused>>
       ELSE IF ok THEN sent' = sent \union historyRev .. revision /\ UNCHANGED excused
       ELSE excused' = TRUE /\ UNCHANGED sent
    /\ UNCHANGED <<revision, etcdClientVars, initialRev, historyRev, synced>>

\* One event of the batch, in the order of the revisions. ResultChan may be full: the
\* other goroutines move meanwhile.
SendEvent(w) ==
    /\ At(w, "send")
    /\ LET e == CHOOSE x \in runs[w].batch : \A y \in runs[w].batch : x <= y
           rest == runs[w].batch \ {e}
       IN  /\ initialRev' = e /\ historyRev' = e
           /\ sent' = sent \union {e}
           /\ WatchGoes(w, [runs[w] EXCEPT !.batch = rest, !.pc = IF rest = {} THEN "select" ELSE "send"])
    /\ UNCHANGED <<revision, etcdClientVars, synced, excused>>

------------------------------------------------------------------------------
\* StartWatch: the keys that exist were written before; the client answers.
WatchInit ==
    /\ revision \in {1, 2} /\ outages = 0
    /\ etcdStatusNow = TRUE /\ exitOpen = TRUE /\ connection = 1 /\ lostContact = FALSE
    /\ initialRev = 0 /\ historyRev = 0
    /\ \E w \in WatchRuns : runs = [x \in WatchRuns |-> IF x = w THEN [Idle EXCEPT !.pc = "list"] ELSE Idle]
    /\ sent = {} /\ synced = FALSE /\ excused = FALSE

WatchNext ==
    \/ Change
    \/ LosesContact
    \/ \E ok \in BOOLEAN :
           \/ HeartbeatFails(ok)
           \/ \E w \in WatchRuns : StartList(w, ok) \/ FirstChan(w, ok) \/ ChannelCloses(w, ok)
                                   \/ EtcdHistory(w, ok)
    \/ \E w \in WatchRuns : HeartbeatRecovers(w) \/ ClientExits(w) \/ SendEvent(w)
                            \/ \E r \in 1 .. MaxRevision : ReceiveEvents(w, r)

WatchSpec == WatchInit /\ [][WatchNext]_watchVars

------------------------------------------------------------------------------
\* Properties

\* Whatever the order of outages, restarts, lists and batches: up to the last revision
\* the watcher has received, every change was sent to the handler, if only as a history
\* event - unless the first list or a replay has failed, which the code only logs, or
\* a run that missed the exit of the client works on beside its successor, each moving
\* the revisions of the other (etcd3/watcher.go run, createWatchChan, EtcdHistory).
NoGap == excused \/ 1 .. historyRev \subseteq sent

------------------------------------------------------------------------------
(***************************************************************************)
(* The file cache of an etcd watcher (etcd3/cache.go): the last event of     *)
(* every key is merged from time to time into a data file, through a backup  *)
(* of the previous one and a meta file that holds the revision and the MD5   *)
(* of the data. After a restart the watcher takes the keys from the file     *)
(* and watches from the revision of the meta file. The process may crash     *)
(* between any two file operations.                                          *)
(***************************************************************************)

CONSTANTS
    CacheKeys,       \* keys 1..n, in the order of the data file
    LongKeys,        \* keys whose line is longer than a bufio.Scanner reads
    Cachers,         \* goroutines of processETCDCache: one for every run()
    MaxEtcdRev,      \* bound: changes in etcd
    MaxCrashes       \* bound

\* None is neither a file nor an event.
ASSUME FilesAssumption == /\ MaxEtcdRev \in Nat /\ None \notin [rev : Nat, put : BOOLEAN]
                          /\ \A f \in SUBSET [key : CacheKeys, rev : 1 .. MaxEtcdRev] : f # None

VARIABLES
    hist,            \* the changes of etcd: [key, put]; the index is the revision
    fed,             \* the last revision put into CacheChan
    eventCache,      \* [Cachers -> [CacheKeys -> the last event, or None]]
    data, backup,    \* files, in the order of their keys: the set of their lines [key, rev], or None
    meta,            \* file: [state, rev, md5]; state is "none", "torn" (in a write) or "whole"
    flush,           \* the flush in progress
    restored,        \* what the last start took from the file: [rev, kv], or None
    crashes,
    faulted          \* a file could not be opened for writing (at most once)

fileVars == <<hist, fed, eventCache, data, backup, meta, flush, restored, crashes, faulted>>
files == <<data, backup, meta>>

NoFlush == [pc |-> "idle", by |-> None, out |-> {}, rev |-> 0, restoring |-> FALSE]
NoMeta == [state |-> "none", rev |-> 0, md5 |-> None]
NoEvents == [k \in CacheKeys |-> None]
Md5(file) == file

\* The change a key had at a revision, 0 for none.
LastChange(k, r) == Max({0} \cup {i \in 1..r : hist[i].key = k})
\* The keys at a revision, as lines of the file.
Snapshot(r) == {l \in [key : CacheKeys, rev : 1..r] : l.rev = LastChange(l.key, r) /\ hist[l.rev].put}

------------------------------------------------------------------------------
\* etcd and the watcher

ChangeKey(k, put) ==
    /\ Len(hist) < MaxEtcdRev
    /\ ~put => LastChange(k, Len(hist)) # 0 /\ hist[LastChange(k, Len(hist))].put
    /\ hist' = Append(hist, [key |-> k, put |-> put])
    /\ UNCHANGED <<fed, eventCache, files, flush, restored, crashes, faulted>>

\* processETCDCache keeps the event with the latest revision.
KeepEvents(cache, events) == [k \in CacheKeys |-> LET new == {e \in events : e.key = k}
                                            IN  IF new = {} THEN cache[k]
                                                ELSE LET e == CHOOSE x \in new : \A y \in new : y.rev <= x.rev
                                                     IN  IF cache[k] = None THEN [rev |-> e.rev, put |-> e.put]
                                                         ELSE IF cache[k].rev < e.rev THEN [rev |-> e.rev, put |-> e.put] ELSE cache[k]]

\* sendEvent: the events go through CacheChan to whichever goroutine reads it.
CacheEvent(p) ==
    /\ fed < Len(hist) /\ flush.by # p /\ ~flush.restoring
    /\ fed' = fed + 1
    /\ eventCache' = [eventCache EXCEPT ![p] = KeepEvents(@, {[key |-> hist[fed + 1].key, rev |-> fed + 1, put |-> hist[fed + 1].put]})]
    /\ UNCHANGED <<hist, files, flush, restored, crashes, faulted>>

------------------------------------------------------------------------------
\* flushCacheToFile

\* cleanCacheFile
Clean(m, d, b) ==
    /\ meta' = IF m THEN NoMeta ELSE meta
    /\ data' = IF d THEN None ELSE data
    /\ backup' = IF b THEN None ELSE backup

\* The loop's reaction: events are forgotten after a flush without error.
EndFlush(ok) ==
    /\ flush' = IF flush.restoring THEN [NoFlush EXCEPT !.pc = "restore", !.restoring = TRUE] ELSE NoFlush
    /\ eventCache' = IF ok /\ ~flush.restoring THEN [eventCache EXCEPT ![flush.by] = NoEvents] ELSE eventCache

\* The ticker or the threshold. A flush beside another one does nothing and counts as done.
StartFlush(p) ==
    /\ flush.by # p /\ ~flush.restoring
    /\ IF flush.pc # "idle"
       THEN eventCache' = [eventCache EXCEPT ![p] = NoEvents] /\ UNCHANGED flush
       ELSE flush' = [NoFlush EXCEPT !.pc = "backup", !.by = p] /\ UNCHANGED eventCache
    /\ UNCHANGED <<hist, fed, files, restored, crashes, faulted>>

\* getCacheMeta, processDataBackup: the data file becomes the backup, unless a backup was left
\* by a flush that was interrupted; the backup must be the file the meta file describes.
ProcessDataBackup ==
    /\ flush.pc = "backup"
    /\ LET b == IF backup # None THEN backup ELSE data
       IN  IF meta.state = "torn" \/ (b # None /\ Md5(b) # meta.md5)
           THEN Clean(TRUE, TRUE, TRUE) /\ EndFlush(FALSE)
           ELSE /\ backup' = b /\ data' = None /\ UNCHANGED <<meta, eventCache>>
                /\ flush' = [flush EXCEPT !.pc = "open", !.rev = meta.rev]
    /\ UNCHANGED <<hist, fed, restored, crashes, faulted>>

\* The lines bufio.Scanner delivers.
Scan(file) == IF file = None THEN {} ELSE {l \in file : \A m \in file : m.key \in LongKeys => l.key < m.key}

\* flushCacheToFile's merge: both lists are in the order of the keys; an event replaces or
\* removes the line of its key if it is newer.
Merge(lines, events) ==
    LET newer(k) == events[k] # None /\ \A l \in lines : l.key = k => events[k].rev > l.rev
    IN  {l \in lines : ~newer(l.key)}
        \union {[key |-> k, rev |-> events[k].rev] : k \in {x \in CacheKeys : newer(x) /\ events[x].put}}
NewRevision(rev, lines, events) ==
    Max({rev} \cup {l.rev : l \in lines} \cup {events[k].rev : k \in {x \in CacheKeys : events[x] # None}})

\* The data file is created, empty; an error removes the backup with it.
OpenData ==
    /\ flush.pc = "open"
    /\ LET events == IF flush.restoring THEN NoEvents ELSE eventCache[flush.by]
       IN  \/ /\ data' = {} /\ UNCHANGED <<backup, meta, eventCache, faulted>>
              /\ flush' = [flush EXCEPT !.pc = "write", !.out = Merge(Scan(backup), events),
                                        !.rev = NewRevision(@, Scan(backup), events)]
           \/ ~faulted /\ faulted' = TRUE /\ backup' = None /\ UNCHANGED <<data, meta>> /\ EndFlush(FALSE)
    /\ UNCHANGED <<hist, fed, restored, crashes>>

\* flushEventToFile: one line after the other.
WriteLine ==
    /\ flush.pc = "write"
    /\ \E l \in flush.out : /\ \A m \in flush.out : l.key <= m.key
                            /\ data' = data \union {l} /\ flush' = [flush EXCEPT !.out = @ \ {l}]
    /\ UNCHANGED <<hist, fed, eventCache, backup, meta, restored, crashes, faulted>>

\* The file is closed. One without a line is removed, and the backup goes when the function
\* returns.
CloseData ==
    /\ flush.pc = "write" /\ flush.out = {}
    /\ IF data = {} THEN Clean(FALSE, TRUE, TRUE) /\ EndFlush(FALSE)
       ELSE UNCHANGED <<files, eventCache>> /\ flush' = [flush EXCEPT !.pc = "meta"]
    /\ UNCHANGED <<hist, fed, restored, crashes, faulted>>

\* os.WriteFile of the meta file: truncated, then written.
TruncateMeta ==
    /\ flush.pc = "meta"
    /\ \/ meta' = [NoMeta EXCEPT !.state = "torn"] /\ flush' = [flush EXCEPT !.pc = "metaData"] /\ UNCHANGED <<data, backup, eventCache, faulted>>
       \/ ~faulted /\ faulted' = TRUE /\ Clean(FALSE, TRUE, TRUE) /\ EndFlush(FALSE)
    /\ UNCHANGED <<hist, fed, restored, crashes>>
WriteMeta ==
    /\ flush.pc = "metaData"
    /\ meta' = [state |-> "whole", rev |-> flush.rev, md5 |-> Md5(data)] /\ flush' = [flush EXCEPT !.pc = "remove"]
    /\ UNCHANGED <<hist, fed, eventCache, data, backup, restored, crashes, faulted>>

\* The deferred removal of the backup.
RemoveBackup ==
    /\ flush.pc = "remove"
    /\ backup' = None /\ EndFlush(TRUE)
    /\ UNCHANGED <<hist, fed, data, meta, restored, crashes, faulted>>

------------------------------------------------------------------------------
\* Crash and restart

Crash ==
    /\ crashes < MaxCrashes /\ crashes' = crashes + 1
    /\ eventCache' = [p \in Cachers |-> NoEvents]
    /\ flush' = [NoFlush EXCEPT !.pc = IF backup # None THEN "backup" ELSE "restore", !.restoring = TRUE]
    /\ restored' = None
    /\ UNCHANGED <<hist, fed, files, faulted>>

\* StartList: the keys come from etcd when the file is of no use.
List(p) ==
    /\ restored' = None /\ fed' = Len(hist)
    /\ eventCache' = [eventCache EXCEPT ![p] = KeepEvents(NoEvents, {[key |-> l.key, rev |-> l.rev, put |-> TRUE] : l \in Snapshot(Len(hist))})]

\* Faulty variant: the file is taken as it is.
AcceptData == data # None /\ meta.state # "torn"

\* restoreCacheFromFile: the file is the one the meta file describes.
DataIsValid == data # None /\ meta.state # "torn" /\ Md5(data) = meta.md5

\* restoreCacheFromFile, after the flush of a backup that was left; the keys are sent as
\* events and the watch starts at the revision of the meta file.
Restore(p) ==
    /\ flush.pc = "restore" /\ flush' = NoFlush
    /\ IF DataIsValid
       THEN LET kv == Scan(data)
            IN  /\ restored' = [rev |-> meta.rev, kv |-> kv] /\ fed' = Max({meta.rev - 1, 0})
                /\ eventCache' = [eventCache EXCEPT ![p] = KeepEvents(NoEvents, {[key |-> l.key, rev |-> l.rev, put |-> TRUE] : l \in kv})]
                /\ UNCHANGED files
       ELSE List(p) /\ IF data = None THEN UNCHANGED files ELSE Clean(TRUE, TRUE, TRUE)
    /\ UNCHANGED <<hist, crashes, faulted>>

------------------------------------------------------------------------------
CacheInit ==
    /\ hist = <<>> /\ fed = 0 /\ eventCache = [p \in Cachers |-> NoEvents]
    /\ data = None /\ backup = None /\ meta = NoMeta
    /\ flush = NoFlush /\ restored = None /\ crashes = 0 /\ faulted = FALSE

CacheNext ==
    \/ \E k \in CacheKeys, put \in BOOLEAN : ChangeKey(k, put)
    \/ \E p \in Cachers : CacheEvent(p) \/ StartFlush(p) \/ Restore(p)
    \/ ProcessDataBackup \/ OpenData \/ WriteLine \/ CloseData \/ TruncateMeta \/ WriteMeta \/ RemoveBackup
    \/ Crash

CacheSpec == CacheInit /\ [][CacheNext]_fileVars

------------------------------------------------------------------------------
\* Properties

CaughtUp(k) ==
    LET last == LastChange(k, Len(hist))
    IN  \/ last >= restored.rev
        \/ {l \in restored.kv : l.key = k} = IF last = 0 \/ ~hist[last].put THEN {} ELSE {[key |-> k, rev |-> last]}

\* What a start takes from the file, followed by the events from the revision it watches from,
\* is what etcd holds, wherever the last process crashed: a key whose last change is older has
\* exactly the line of that change, or none if it was deleted. One file that cannot be opened
\* spoils it: the backup is removed all the same (cache.go 218-235). So does a second goroutine
\* that reads CacheChan, which a run() after a reconnect starts (watcher.go 161), and a line that
\* is too long for the Scanner.
RestoredCatchesUp == restored = None \/ faulted \/ \A k \in CacheKeys : CaughtUp(k)

\* Nothing that etcd reported is missed: neither by a watch that was cut off, moved to another
\* connection or set up twice, nor by a process that starts from its cache file (etcd3/watcher.go,
\* etcd3/cache.go).
EtcdIsFollowed == NoGap /\ RestoredCatchesUp

\* The same after such a fault.
FaultIsHarmless == restored = None \/ \A k \in CacheKeys : CaughtUp(k)

------------------------------------------------------------------------------
(***************************************************************************)
(* EtcdLocker (etcd3/lock.go): a process takes one of the identities the     *)
(* control plane has put under a prefix by writing a holder key below it,    *)
(* bound to a lease, and reading which holder was first. A keeper loop       *)
(* refreshes the lease and takes the identity again when it was lost.        *)
(***************************************************************************)

CONSTANTS
    Lockers,          \* processes
    LockKeys,         \* identities
    Extends,          \* [key -> the keys that begin with its characters]
    FailCountLimit,   \* lockFailCountLimit
    MaxLockRev,       \* bound: writes to etcd
    MaxGrants         \* bound: leases

ASSUME KeysAssumption ==
    /\ IsFiniteSet(LockKeys)
    /\ Extends \in [LockKeys -> SUBSET LockKeys] /\ \A k \in LockKeys : k \in Extends[k]

VARIABLES
    origin,           \* [LockKeys -> revision of the control plane's write, 0 when deleted]
    holders,          \* holder keys: [key, lease, rev]
    lockRev,          \* the revision of etcd
    granted, leases,  \* leases granted so far, and those alive
    lk                \* [Lockers -> the EtcdLocker]

lockVars == <<origin, holders, lockRev, granted, leases, lk>>
etcdVars == <<origin, holders, lockRev, granted, leases>>

\* pc: "idle", "txn", "cleanup" (tryLock failed), "callback"; locked is LockedKey; keeper: the
\* loop runs; err: the error of the last tryLock.
NoLocker == [pc |-> "idle", want |-> None, locked |-> None, lease |-> 0, keeper |-> FALSE, fails |-> 0, err |-> None, failed |-> FALSE]

------------------------------------------------------------------------------
\* tryLock

\* TryLockWithPrefix, TryLock and the first lines of tryLock: a lease, unless one is left.
Grant(l, k) ==
    IF lk[l].lease # 0
    THEN lk' = [lk EXCEPT ![l].pc = "txn", ![l].want = k] /\ UNCHANGED etcdVars
    ELSE /\ granted < MaxGrants /\ granted' = granted + 1 /\ leases' = leases \cup {granted + 1}
         /\ lk' = [lk EXCEPT ![l].pc = "txn", ![l].want = k, ![l].lease = granted + 1]
         /\ UNCHANGED <<origin, holders, lockRev>>
TryLock(l, k) == lk[l].pc = "idle" /\ ~lk[l].keeper /\ ~lk[l].failed /\ Grant(l, k)

\* The first two keys by creation that begin with the key: the identity and its first holder.
Below(hs, k) ==
    {[rev |-> origin[x], is |-> IF x = k THEN "origin" ELSE "sibling"] : x \in {y \in Extends[k] : origin[y] # 0}}
    \cup {[rev |-> h.rev, is |-> "holder"] : h \in {x \in hs : x.key \in Extends[k]}}
Earliest(S) == {x \in S : \A y \in S : x.rev <= y.rev}

\* Faulty variant: another holder is not looked for.
FoundOnly(hs, k, rev) == \E x \in Earliest(Below(hs, k)) : x.is = "origin"

\* The identity comes first, and the next key is the holder key of this process.
Mine(hs, k, rev) ==
    LET all == Below(hs, k) IN
    /\ \E x \in Earliest(all) : x.is = "origin"
    /\ \A x \in Earliest(all \ Earliest(all)) : x.rev = rev

\* The transaction: the holder key is put unless it is there already. It may be applied and
\* its answer lost; a lease that has expired makes it fail.
LockTxn(l) ==
    /\ lk[l].pc = "txn"
    /\ LET k == lk[l].want
           own == {h \in holders : h.key = k /\ h.lease = lk[l].lease}
           put == own = {} /\ lk[l].lease \in leases
           new == holders \cup {[key |-> k, lease |-> lk[l].lease, rev |-> lockRev + 1]}
           hs == IF put THEN new ELSE holders
           rev == IF put THEN lockRev + 1 ELSE Max({0} \cup {h.rev : h \in own})
       IN  /\ put => lockRev < MaxLockRev
           /\ \/ /\ holders' = hs /\ lockRev' = IF put THEN lockRev + 1 ELSE lockRev
                 /\ \/ /\ put \/ own # {}
                       /\ lk' = [lk EXCEPT ![l].pc = IF Mine(hs, k, rev) THEN "callback" ELSE "cleanup",
                                           ![l].err = IF Mine(hs, k, rev) THEN None ELSE "locked"]
                    \/ lk' = [lk EXCEPT ![l].pc = "cleanup", ![l].err = "etcd"]
              \/ /\ lk' = [lk EXCEPT ![l].pc = "cleanup", ![l].err = "etcd"]
                 /\ UNCHANGED <<holders, lockRev>>
    /\ UNCHANGED <<origin, granted, leases>>

\* LockCallback may refuse; otherwise the identity is taken, and TryLock starts the loop.
LockCallback(l) ==
    /\ lk[l].pc = "callback"
    /\ \/ lk' = [lk EXCEPT ![l].pc = "idle", ![l].locked = lk[l].want, ![l].keeper = TRUE, ![l].fails = 0]
       \/ lk' = [lk EXCEPT ![l].pc = "cleanup", ![l].err = "callback", ![l].locked = lk[l].want]
    /\ UNCHANGED etcdVars

\* The deferred cleanup: the lease is revoked, which may fail, and forgotten; the keeper loop
\* counts a key that is gone or taken and gives up in the end.
Cleanup(l, ok) ==
    /\ lk[l].pc = "cleanup"
    /\ IF ok THEN leases' = leases \ {lk[l].lease} /\ holders' = {h \in holders : h.lease # lk[l].lease}
       ELSE UNCHANGED <<leases, holders>>
    /\ LET counted == lk[l].keeper /\ lk[l].err = "locked"
           given == counted /\ lk[l].fails >= FailCountLimit
       IN  lk' = [lk EXCEPT ![l] = [lk[l] EXCEPT !.pc = "idle", !.lease = 0, !.want = None,
                      !.fails = IF ~lk[l].keeper THEN 0 ELSE IF counted THEN lk[l].fails + 1 ELSE 0,
                      !.failed = given, !.keeper = lk[l].keeper /\ ~given]]
    /\ UNCHANGED <<origin, lockRev, granted>>

------------------------------------------------------------------------------
\* The keeper loop and Unlock

\* A tick: the identity is read and the lease refreshed. An error of either, such as a lease
\* that has expired, forgets the lease.
KeepFails(l) ==
    /\ lk[l].keeper /\ lk[l].pc = "idle" /\ lk[l].lease # 0
    /\ lk' = [lk EXCEPT ![l].lease = 0]
    /\ UNCHANGED etcdVars

\* A tick without a lease takes the identity again.
Relock(l) == lk[l].keeper /\ lk[l].pc = "idle" /\ lk[l].lease = 0 /\ Grant(l, lk[l].locked)

\* Unlock: the holder key is deleted, or stays until its lease ends.
Unlock(l, ok, failed) ==
    /\ lk[l].keeper /\ lk[l].pc = "idle"
    /\ holders' = IF ok THEN {h \in holders : ~(h.key = lk[l].locked /\ h.lease = lk[l].lease)} ELSE holders
    /\ lk' = [lk EXCEPT ![l] = [NoLocker EXCEPT !.failed = failed]]
    /\ UNCHANGED <<origin, lockRev, granted, leases>>

\* A tick that finds the identity deleted: FailCallback.
KeyDeleted(l, ok) == lk[l].lease # 0 /\ lk[l].keeper /\ origin[lk[l].locked] = 0 /\ Unlock(l, ok, TRUE)

------------------------------------------------------------------------------
\* etcd and the control plane

LeaseExpires(x) ==
    /\ x \in leases /\ leases' = leases \ {x}
    /\ holders' = {h \in holders : h.lease # x}
    /\ UNCHANGED <<origin, lockRev, granted, lk>>
ControlPlane(k) ==
    /\ IF origin[k] = 0 THEN /\ lockRev < MaxLockRev /\ lockRev' = lockRev + 1
                             /\ origin' = [origin EXCEPT ![k] = lockRev + 1]
       ELSE origin' = [origin EXCEPT ![k] = 0] /\ UNCHANGED lockRev
    /\ UNCHANGED <<holders, granted, leases, lk>>

------------------------------------------------------------------------------
LockInit ==
    /\ origin \in {f \in [LockKeys -> 1..Cardinality(LockKeys)] : \A a, b \in LockKeys : a # b => f[a] # f[b]}
    /\ lockRev = Cardinality(LockKeys)
    /\ holders = {} /\ granted = 0 /\ leases = {}
    /\ lk = [l \in Lockers |-> NoLocker]

LockNext ==
    \/ \E l \in Lockers : \/ \E k \in LockKeys : TryLock(l, k)
                          \/ LockTxn(l) \/ LockCallback(l) \/ KeepFails(l) \/ Relock(l)
                          \/ \E ok \in BOOLEAN : Cleanup(l, ok) \/ Unlock(l, ok, FALSE) \/ KeyDeleted(l, ok)
    \/ \E x \in leases : LeaseExpires(x)
    \/ \E k \in LockKeys : ControlPlane(k)

LockSpec == LockInit /\ [][LockNext]_lockVars

------------------------------------------------------------------------------
\* Properties

HoldsLease(l) == lk[l].lease \in leases /\ lk[l].pc = "idle" /\ \E h \in holders : h.lease = lk[l].lease /\ h.key = lk[l].locked

\* Two processes whose leases are alive never have the same identity, whatever answers were
\* lost, leases expired and holder keys stayed behind.
LockExclusive == \A a, b \in Lockers : (a # b /\ HoldsLease(a) /\ HoldsLease(b)) => lk[a].locked # lk[b].locked

\* Two processes never believe to have the same identity (LockedKey) while their loops run.
IdentityExclusive == \A a, b \in Lockers : (a # b /\ lk[a].keeper /\ lk[b].keeper) => lk[a].locked # lk[b].locked

\* A key nobody holds can be taken: a transaction that etcd answers succeeds.
FreeKeyIsTaken ==
    [][\A l \in Lockers :
        (lk[l].pc = "txn" /\ lk'[l].err = "locked" /\ lk'[l].pc = "cleanup" /\ origin[lk[l].want] # 0)
            => \E h \in holders : h.key = lk[l].want /\ h.lease # lk[l].lease]_lockVars
==============================================================================

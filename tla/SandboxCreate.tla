---------------------------- MODULE SandboxCreate ----------------------------
(***************************************************************************)
(* Concurrent create calls of the sandbox API (createSandbox,              *)
(* pkg/frontend/api/sandbox/handler.go) between the request and its        *)
(* answer: the replay store that recognises a retry, the single flight per *)
(* sandbox name, the raw create call and what becomes of its outcome, and  *)
(* the event stream with its heartbeats.                                   *)
(*                                                                         *)
(* A call arrives prepared (module SandboxRequest): of its contents only   *)
(* the digest, the identity (tenant and request ID) and the name are left. *)
(* One step is one hold of the store's or the group's mutex, or one        *)
(* exchange with the function system.  An entry of the replay store and a  *)
(* flight are Go objects that waiters keep a reference to: both are        *)
(* identified with the call that created them.                             *)
(***************************************************************************)
EXTENDS Naturals, FiniteSets, TLAPS

CONSTANTS
    Calls,        \* create calls, retries included
    NoCall,       \* the nil reference
    Tenant,       \* tenant of a call (token or body)
    RequestIDs,   \* possible assignments of X-Request-Ids to calls
    Name,         \* namespace and name it asks for
    Generated,    \* calls whose name the frontend generated
    Retries,      \* calls that may repeat an ID with another decoded request
    Streams,      \* calls that accept an event stream
    TTL,          \* sandboxCreateReplayTTL
    MaxEntries,   \* sandboxCreateReplayMaxEntries
    MaxTime,      \* bound: clock ticks
    MaxBeats      \* bound: heartbeats of a stream

ASSUME CallAssumption ==
    /\ NoCall \notin Calls /\ Retries \subseteq Calls /\ Generated \subseteq Calls /\ Streams \subseteq Calls
    /\ {DOMAIN Tenant, DOMAIN Name} = {Calls}
    /\ \A f \in RequestIDs : DOMAIN f = Calls
    /\ TTL \in Nat \ {0} /\ MaxEntries \in Nat \ {0}
    /\ MaxTime \in Nat /\ MaxBeats \in Nat

Names == {Name[c] : c \in Calls}
Keys == {<<Tenant[c], f[c]>> : c \in Calls, f \in RequestIDs}

VARIABLES
    requestID,   \* X-Request-Id of each call
    altered,     \* retries whose decoded request is not the first one's
    pc,          \* where createSandbox stands
    leader,      \* the call whose entry or flight a call waits for
    entries,     \* createReplayStore.entries: the entry of a key, or NoCall
    completedAt, \* completion time of a call's entry, 0 while it is open
    result,      \* result and error of a call's create function
    flights,     \* createSingleflight.calls: the flight of a name, or NoCall
    beats,       \* heartbeat goroutine of a stream: "none", "on", "stop", "off"
    beatCount,   \* heartbeats written
    answer,      \* what the client got: 0, or a status
    gone,        \* calls whose client has disconnected
    clock

Key(c) == <<Tenant[c], requestID[c]>>

storeVars == <<entries, completedAt>>
callVars == <<pc, leader, result>>
streamVars == <<beats, beatCount, answer>>
worldVars == <<requestID, altered, gone, clock>>
vars == <<storeVars, callVars, flights, streamVars, worldVars>>

\* Results of a create function are "running", "exists" (both errors that are
\* answered with a conflict) and "failed" (the statuses failed and timeout).
NoResult == "none"

Init ==
    /\ requestID \in RequestIDs /\ altered \in SUBSET Retries
    /\ pc = [c \in Calls |-> "idle"]
    /\ leader = [c \in Calls |-> NoCall]
    /\ entries = [k \in Keys |-> NoCall]
    /\ completedAt = [c \in Calls |-> 0]
    /\ result = [c \in Calls |-> NoResult]
    /\ flights = [n \in Names |-> NoCall]
    /\ beats = [c \in Calls |-> "none"]
    /\ beatCount = [c \in Calls |-> 0]
    /\ answer = [c \in Calls |-> 0]
    /\ gone = {} /\ clock = 1

-----------------------------------------------------------------------------
(* The replay store *)

\* Faulty variant: the oldest entries go, whether or not they are complete.
PruneAny(es, done) ==
    LET fresh == {k \in DOMAIN es : es[k] # NoCall /\ (done[es[k]] = 0 \/ clock - done[es[k]] < TTL)}
        excess == IF Cardinality(fresh) > MaxEntries THEN Cardinality(fresh) - MaxEntries ELSE 0 IN
    {[k \in DOMAIN es |-> IF k \in fresh \ drop THEN es[k] ELSE NoCall] :
        drop \in {d \in SUBSET fresh : /\ Cardinality(d) = excess
                                       /\ \A k \in d, o \in fresh \ d : done[es[k]] <= done[es[o]]}}

\* The ways pruneLocked can leave the entries: expired entries go, then the
\* oldest complete ones as long as there are too many; open ones stay. Which of
\* two equally old ones goes first is up to the iteration over the map.
Pruned(es, done) ==
    LET fresh == {k \in DOMAIN es : es[k] # NoCall /\ (done[es[k]] = 0 \/ clock - done[es[k]] < TTL)}
        complete == {k \in fresh : done[es[k]] # 0}
        excess == IF Cardinality(fresh) > MaxEntries THEN Cardinality(fresh) - MaxEntries ELSE 0
        number == IF excess < Cardinality(complete) THEN excess ELSE Cardinality(complete) IN
    {[k \in DOMAIN es |-> IF k \in fresh \ drop THEN es[k] ELSE NoCall] :
        drop \in {d \in SUBSET complete :
                    /\ Cardinality(d) = number
                    /\ \A k \in d, o \in complete \ d : done[es[k]] <= done[es[o]]}}

\* A call with its result: the handler answers, a stream stops its
\* heartbeats first.
Return(c, r, at) ==
    /\ result' = [result EXCEPT ![c] = r]
    /\ pc' = [pc EXCEPT ![c] = at]

\* streamSandboxCreate: the accepted event, then the heartbeat goroutine.
\* A client that is gone makes the write fail, and the handler returns.
AcceptStream(c) ==
    /\ pc[c] = "idle" /\ c \in Streams
    /\ \/ /\ pc' = [pc EXCEPT ![c] = "accepted"]
          /\ beats' = [beats EXCEPT ![c] = "on"]
       \/ /\ c \in gone
          /\ pc' = [pc EXCEPT ![c] = "done"]
          /\ UNCHANGED beats
    /\ UNCHANGED <<storeVars, leader, result, flights, beatCount, answer,
                   worldVars>>

SameDigest(c, d) == (c \in altered) = (d \in altered)

\* createReplayStore.do up to the first unlock.
EnterReplay(c) ==
    /\ pc[c] = IF c \in Streams THEN "accepted" ELSE "idle"
    /\ \E es \in Pruned(entries, completedAt) : LET e == es[Key(c)] IN
       \/ /\ e = NoCall
          /\ entries' = [es EXCEPT ![Key(c)] = c]
          /\ pc' = [pc EXCEPT ![c] = "check"]
          /\ UNCHANGED <<leader, result>>
       \/ /\ e # NoCall /\ ~SameDigest(e, c)
          /\ entries' = es
          /\ Return(c, "exists", "answer")
          /\ UNCHANGED leader
       \/ /\ e # NoCall /\ SameDigest(e, c)
          /\ entries' = es
          /\ leader' = [leader EXCEPT ![c] = e]
          /\ IF completedAt[e] # 0 THEN Return(c, result[e], "answer")
             ELSE pc' = [pc EXCEPT ![c] = "waitEntry"] /\ UNCHANGED result
    /\ UNCHANGED <<completedAt, flights, streamVars, worldVars>>

\* <-entry.done
WakeFromEntry(c) ==
    /\ pc[c] = "waitEntry" /\ completedAt[leader[c]] # 0
    /\ Return(c, result[leader[c]], "answer")
    /\ UNCHANGED <<storeVars, leader, flights, streamVars, worldVars>>

\* Faulty variant: a failed create forgets its entry and wakes nobody.
ForgetFailure(c) ==
    /\ pc[c] = "finish"
    /\ IF result[c] = "failed"
       THEN entries' = [entries EXCEPT ![Key(c)] = NoCall] /\ UNCHANGED completedAt
       ELSE /\ completedAt' = [completedAt EXCEPT ![c] = clock]
            /\ entries' \in Pruned(entries, completedAt')
    /\ pc' = [pc EXCEPT ![c] = "answer"]
    /\ UNCHANGED <<leader, result, flights, streamVars, worldVars>>

\* The create function returned: the entry is completed and the store pruned.
CompleteEntry(c) ==
    /\ pc[c] = "finish"
    /\ completedAt' = [completedAt EXCEPT ![c] = clock]
    /\ entries' \in Pruned(entries, completedAt')
    /\ pc' = [pc EXCEPT ![c] = "answer"]
    /\ UNCHANGED <<leader, result, flights, streamVars, worldVars>>

-----------------------------------------------------------------------------
(* The single flight of a name and the raw create call *)

\* sandboxInstanceExists, asked only for names the caller chose.  The summary
\* follows the function system with a delay: either answer is possible.
CheckExists(c) ==
    /\ pc[c] = "check"
    /\ \/ c \notin Generated /\ Return(c, "exists", "finish")
       \/ pc' = [pc EXCEPT ![c] = "flight"] /\ UNCHANGED result
    /\ UNCHANGED <<storeVars, leader, flights, streamVars, worldVars>>

\* Faulty variant: the flight of a name is taken without looking.
TakeFlight(c) ==
    /\ pc[c] = "flight"
    /\ flights' = [flights EXCEPT ![Name[c]] = c]
    /\ pc' = [pc EXCEPT ![c] = "calling"]
    /\ UNCHANGED <<storeVars, leader, result, streamVars, worldVars>>

\* createSingleflight.do up to the first unlock: another request ID is told
\* the sandbox exists, the same one waits for the flight.
EnterFlight(c) ==
    /\ pc[c] = "flight"
    /\ LET f == flights[Name[c]] IN
       \/ /\ f = NoCall
          /\ flights' = [flights EXCEPT ![Name[c]] = c]
          /\ pc' = [pc EXCEPT ![c] = "calling"]
          /\ UNCHANGED <<leader, result>>
       \/ /\ f # NoCall /\ requestID[f] # requestID[c]
          /\ Return(c, "exists", "finish")
          /\ UNCHANGED <<leader, flights>>
       \/ /\ f # NoCall /\ requestID[f] = requestID[c]
          /\ leader' = [leader EXCEPT ![c] = f]
          /\ pc' = [pc EXCEPT ![c] = "waitFlight"]
          /\ UNCHANGED <<result, flights>>
    /\ UNCHANGED <<storeVars, streamVars, worldVars>>

\* CreateRaw under a context that outlives the client's: it succeeds, finds
\* the name taken (code 1004), runs into the function system's timeout (code
\* 3002, the sandbox may come up yet) or fails in any other way.
CreateRaw(c) ==
    /\ pc[c] = "calling"
    /\ \/ \E r \in {"running", "exists", "failed"} : Return(c, r, "leave")
       \/ Return(c, "failed", "polling")
    /\ UNCHANGED <<storeVars, leader, flights, streamVars, worldVars>>

\* waitForSandboxInstanceRunning: seen running, or the poll ends.
PollRunning(c) ==
    /\ pc[c] = "polling"
    /\ \E r \in {"running", "failed"} : Return(c, r, "leave")
    /\ UNCHANGED <<storeVars, leader, flights, streamVars, worldVars>>

\* The flight is deleted from the group and its done channel closed.
LeaveFlight(c) ==
    /\ pc[c] = "leave"
    /\ flights' = [flights EXCEPT ![Name[c]] = NoCall]
    /\ pc' = [pc EXCEPT ![c] = "finish"]
    /\ UNCHANGED <<storeVars, leader, result, streamVars, worldVars>>

\* <-call.done: the waiter returns the flight's result as its own.
WakeFromFlight(c) ==
    /\ pc[c] = "waitFlight"
    /\ pc[leader[c]] \notin {"calling", "polling", "leave"}
    /\ Return(c, result[leader[c]], "finish")
    /\ UNCHANGED <<storeVars, leader, flights, streamVars, worldVars>>

-----------------------------------------------------------------------------
(* Answers *)

Status(r) ==
    CASE r = "running" -> 200
      [] r = "exists" -> 409
      [] OTHER -> 500

\* An ordinary handler writes its response; a stream closes stopHeartbeat
\* and waits for the goroutine.
Respond(c) ==
    /\ pc[c] = "answer"
    /\ \/ /\ c \notin Streams
          /\ answer' = [answer EXCEPT ![c] = Status(result[c])]
          /\ pc' = [pc EXCEPT ![c] = "done"]
          /\ UNCHANGED beats
       \/ /\ c \in Streams
          /\ beats' = [beats EXCEPT ![c] = IF @ = "on" THEN "stop" ELSE @]
          /\ pc' = [pc EXCEPT ![c] = "closing"]
          /\ UNCHANGED answer
    /\ UNCHANGED <<storeVars, leader, result, flights, beatCount, worldVars>>

\* Faulty variant: the final event does not wait for the goroutine.
EagerFinal(c) ==
    /\ pc[c] = "closing"
    /\ answer' = [answer EXCEPT ![c] = Status(result[c])]
    /\ pc' = [pc EXCEPT ![c] = "done"]
    /\ UNCHANGED <<storeVars, leader, result, flights, beats, beatCount,
                   worldVars>>

\* <-heartbeatDone, then the final event.
FinalEvent(c) ==
    /\ pc[c] = "closing" /\ beats[c] = "off"
    /\ answer' = [answer EXCEPT ![c] = Status(result[c])]
    /\ pc' = [pc EXCEPT ![c] = "done"]
    /\ UNCHANGED <<storeVars, leader, result, flights, beats, beatCount,
                   worldVars>>

\* A tick wins the select although stop may be closed already.
Heartbeat(c) ==
    /\ beats[c] \in {"on", "stop"} /\ beatCount[c] < MaxBeats
    /\ beatCount' = [beatCount EXCEPT ![c] = @ + 1]
    /\ UNCHANGED <<storeVars, callVars, flights, beats, answer, worldVars>>

\* stop is closed, or the request's context is done.
StopHeartbeats(c) ==
    /\ beats[c] = "stop" \/ (beats[c] = "on" /\ c \in gone)
    /\ beats' = [beats EXCEPT ![c] = "off"]
    /\ UNCHANGED <<storeVars, callVars, flights, beatCount, answer, worldVars>>

-----------------------------------------------------------------------------
(* The world *)

ClientGone(c) ==
    /\ c \in Streams \ gone /\ pc[c] # "done"
    /\ gone' = gone \cup {c}
    /\ UNCHANGED <<storeVars, callVars, flights, streamVars, requestID, altered, clock>>

\* Time matters only to complete entries.
Tick ==
    /\ clock < MaxTime /\ clock' = clock + 1
    /\ \E c \in Calls : completedAt[c] # 0
    /\ UNCHANGED <<storeVars, callVars, flights, streamVars, requestID, altered, gone>>

\* A step of the frontend's own goroutines for a call.
Progress(c) ==
    \/ EnterReplay(c) \/ WakeFromEntry(c) \/ CompleteEntry(c)
    \/ CheckExists(c) \/ EnterFlight(c) \/ CreateRaw(c) \/ PollRunning(c)
    \/ LeaveFlight(c) \/ WakeFromFlight(c)
    \/ Respond(c) \/ FinalEvent(c) \/ StopHeartbeats(c)

Next ==
    \/ \E c \in Calls : \/ AcceptStream(c) \/ Progress(c)
                        \/ Heartbeat(c) \/ ClientGone(c)
    \/ Tick

\* Goroutines are scheduled and CreateRaw returns, by its timeout at latest.
Fairness == \A c \in Calls : WF_vars(Progress(c))

Spec == Init /\ [][Next]_vars /\ Fairness

-----------------------------------------------------------------------------
(* Properties *)

\* At most one raw create call per sandbox name is under way, whichever
\* tenants and request IDs compete for it (createSingleflight.do): two would
\* race for the designated instance ID.
OneCreatePerName ==
    \A c, d \in Calls :
        /\ c # d /\ Name[c] = Name[d]
        /\ {pc[c], pc[d]} \subseteq {"calling", "polling", "leave"}
        => FALSE

\* A retry under one identity never starts a second create while the first
\* one is open: pruneLocked may drop any complete entry but no open one.
OneCreatePerIdentity ==
    \A c, d \in Calls :
        /\ c # d /\ Key(c) = Key(d)
        => ~(/\ pc[c] \in {"check", "flight", "calling", "polling", "leave",
                           "waitFlight", "finish"}
             /\ pc[d] \in {"check", "flight", "calling", "polling", "leave",
                           "waitFlight", "finish"})

\* Both: neither two calls for one name nor two of one identity create at a time.
CreatesNeverOverlap == OneCreatePerName /\ OneCreatePerIdentity

\* Nothing is written to a stream after its final event: streamSandboxCreate
\* joins the heartbeat goroutine first.
SilentAfterFinal ==
    [][\A c \in Calls : answer[c] # 0 => beatCount'[c] = beatCount[c]]_vars

\* Every create call that was taken up is answered in the end, also one that
\* joined the entry or the flight of another call: again and again there is a
\* time when none is under way.
EveryCallAnswered == []<>(\A c \in Calls : pc[c] \in {"idle", "done"})

\* A named create in flight under another identity (tenant and request ID)
\* conflicts: no call takes over the result of another identity's flight.
ForeignFlightConflicts ==
    \A c \in Calls : pc[c] = "waitFlight" => Key(leader[c]) = Key(c)

-----------------------------------------------------------------------------
(* Proofs, for any calls, tenants, request IDs, names, limits and times: two *)
(* creates never overlap under one name or one identity, and a stream is     *)
(* silent after its final event.                                             *)


\* The call has an open entry in the replay store, and is or will be creating.
Open == {"check", "flight", "calling", "polling", "leave", "waitFlight", "finish"}

\* The call has the flight of its name.
Flying == {"calling", "polling", "leave"}

Pcs == Open \cup {"idle", "accepted", "waitEntry", "answer", "closing", "done"}

TypeInv ==
    /\ requestID \in RequestIDs
    /\ pc \in [Calls -> Pcs]
    /\ entries \in [Keys -> Calls \cup {NoCall}]
    /\ completedAt \in [Calls -> Nat]
    /\ flights \in [Names -> Calls \cup {NoCall}]
    /\ clock \in Nat \ {0}

\* An open call is the entry of its identity, and only entries whose call has
\* its result are complete.
EntryInv ==
    \A c \in Calls :
        /\ pc[c] \in Open => entries[Key(c)] = c
        /\ completedAt[c] # 0 => pc[c] \in {"answer", "closing", "done"}

\* A call that creates is the flight of its name.
FlightInv == \A c \in Calls : pc[c] \in Flying => flights[Name[c]] = c

\* The heartbeats of a stream have ended when it is answered; an ordinary call
\* has none.
BeatInv ==
    /\ beats \in [Calls -> {"none", "on", "stop", "off"}]
    /\ answer \in [Calls -> Nat]
    /\ \A c \in Calls :
         /\ c \notin Streams => beats[c] = "none"
         /\ answer[c] # 0 => pc[c] = "done" /\ beats[c] \in {"none", "off"}

Inv == TypeInv /\ EntryInv /\ FlightInv /\ BeatInv

-----------------------------------------------------------------------------
\* The identity and the name of a call are keys of the two tables.
LEMMA KeyType ==
    ASSUME TypeInv, NEW c \in Calls
    PROVE  Key(c) \in Keys /\ Name[c] \in Names
BY DEF TypeInv, Key, Keys, Names

\* pruneLocked drops no open entry and adds none.
LEMMA PrunedKeepsOpen ==
    ASSUME NEW done, NEW es \in Pruned(entries, done), TypeInv
    PROVE  /\ es \in [Keys -> Calls \cup {NoCall}]
           /\ \A k \in Keys : entries[k] # NoCall /\ done[entries[k]] = 0 => es[k] = entries[k]
<1> DEFINE fresh == {k \in DOMAIN entries : entries[k] # NoCall
                       /\ (done[entries[k]] = 0 \/ clock - done[entries[k]] < TTL)}
           complete == {k \in fresh : done[entries[k]] # 0}
<1>1. PICK drop \in SUBSET complete :
          es = [k \in DOMAIN entries |-> IF k \in fresh \ drop THEN entries[k] ELSE NoCall]
  BY DEF Pruned
<1>2. DOMAIN entries = Keys
  BY DEF TypeInv
<1>3. ASSUME NEW k \in Keys, entries[k] # NoCall, done[entries[k]] = 0
      PROVE  k \in fresh \ drop
  BY <1>1, <1>2, <1>3
<1> QED BY <1>1, <1>2, <1>3 DEF TypeInv

\* The invariant holds before the first call.
LEMMA InitInv == Init => Inv
BY CallAssumption DEF Init, Inv, TypeInv, EntryInv, FlightInv, BeatInv, Open, Flying, Pcs

\* EnterReplay: a new entry is made only where no call is open.
LEMMA EnterReplayInv ==
    ASSUME Inv, NEW c \in Calls, EnterReplay(c)
    PROVE  Inv'
<1>1. PICK es \in Pruned(entries, completedAt) :
          \/ /\ es[Key(c)] = NoCall /\ entries' = [es EXCEPT ![Key(c)] = c]
             /\ pc' = [pc EXCEPT ![c] = "check"]
          \/ /\ entries' = es
             /\ \E q \in {"answer", "waitEntry"} : pc' = [pc EXCEPT ![c] = q]
  BY DEF EnterReplay, Return
<1>2. /\ pc[c] \in {"idle", "accepted"}
      /\ UNCHANGED <<completedAt, flights, beats, answer, requestID, clock>>
  BY DEF EnterReplay, streamVars, worldVars
<1>3. /\ es \in [Keys -> Calls \cup {NoCall}]
      /\ \A k \in Keys : entries[k] # NoCall /\ completedAt[entries[k]] = 0 => es[k] = entries[k]
  BY PrunedKeepsOpen DEF Inv
<1>4. \A d \in Calls : /\ Key(d) \in Keys /\ Key(d)' = Key(d) /\ d # NoCall
                       /\ pc[d] \in Open => es[Key(d)] = d
  BY <1>2, <1>3, KeyType, CallAssumption DEF Inv, EntryInv, Key, Open
<1>5. TypeInv'
  BY <1>1, <1>2, <1>3, KeyType DEF Inv, TypeInv, Pcs, Open
<1>6. EntryInv'
  BY <1>1, <1>2, <1>3, <1>4 DEF Inv, TypeInv, EntryInv, Open
<1>7. FlightInv' /\ BeatInv'
  BY <1>1, <1>2 DEF Inv, TypeInv, FlightInv, BeatInv, Flying
<1> QED BY <1>5, <1>6, <1>7 DEF Inv

\* CompleteEntry: the entry of another open call survives the pruning.
LEMMA CompleteEntryInv ==
    ASSUME Inv, NEW c \in Calls, CompleteEntry(c)
    PROVE  Inv'
<1>1. /\ pc[c] = "finish" /\ pc' = [pc EXCEPT ![c] = "answer"]
      /\ completedAt' = [completedAt EXCEPT ![c] = clock]
      /\ entries' \in Pruned(entries, completedAt')
      /\ UNCHANGED <<flights, beats, answer, requestID, clock>>
  BY DEF CompleteEntry, streamVars, worldVars
<1>2. /\ entries' \in [Keys -> Calls \cup {NoCall}]
      /\ \A k \in Keys : entries[k] # NoCall /\ completedAt'[entries[k]] = 0 => entries'[k] = entries[k]
  BY <1>1, PrunedKeepsOpen DEF Inv
<1>3. \A d \in Calls : /\ Key(d) \in Keys /\ Key(d)' = Key(d) /\ d # NoCall
                       /\ d # c /\ pc[d] \in Open => entries'[Key(d)] = d
  BY <1>1, <1>2, KeyType, CallAssumption DEF Inv, TypeInv, EntryInv, Key, Open
<1>4. TypeInv'
  BY <1>1, <1>2 DEF Inv, TypeInv, Pcs
<1>5. EntryInv'
  BY <1>1, <1>3 DEF Inv, TypeInv, EntryInv, Open
<1>6. FlightInv' /\ BeatInv'
  BY <1>1 DEF Inv, TypeInv, FlightInv, BeatInv, Flying
<1> QED BY <1>4, <1>5, <1>6 DEF Inv

\* EnterFlight and LeaveFlight: only the call that has the flight changes it.
LEMMA FlightStepInv ==
    ASSUME Inv, NEW c \in Calls, EnterFlight(c) \/ LeaveFlight(c)
    PROVE  Inv'
<1>1. /\ UNCHANGED <<entries, completedAt, beats, answer, requestID, clock>>
      /\ pc[c] \in {"flight", "leave"}
      /\ \/ /\ flights[Name[c]] = NoCall /\ flights' = [flights EXCEPT ![Name[c]] = c]
            /\ pc' = [pc EXCEPT ![c] = "calling"]
         \/ /\ pc[c] = "flight" /\ UNCHANGED flights
            /\ \E q \in {"finish", "waitFlight"} : pc' = [pc EXCEPT ![c] = q]
         \/ /\ pc[c] = "leave" /\ flights' = [flights EXCEPT ![Name[c]] = NoCall]
            /\ pc' = [pc EXCEPT ![c] = "finish"]
  BY DEF EnterFlight, LeaveFlight, Return, storeVars, streamVars, worldVars
<1>2. \A d \in Calls : Name[d] \in Names /\ Key(d)' = Key(d) /\ d # NoCall
  BY <1>1, KeyType, CallAssumption DEF Inv, Key
<1>3. TypeInv'
  BY <1>1, <1>2 DEF Inv, TypeInv, Pcs, Open
<1>4. EntryInv'
  BY <1>1, <1>2 DEF Inv, TypeInv, EntryInv, Open
<1>5. FlightInv'
  BY <1>1, <1>2 DEF Inv, TypeInv, FlightInv, Flying
<1>6. BeatInv'
  BY <1>1 DEF Inv, TypeInv, BeatInv
<1> QED BY <1>3, <1>4, <1>5, <1>6 DEF Inv

\* The steps that move a call within its phase: it stays open, or stays closed.
LEMMA CallStepInv ==
    ASSUME Inv, NEW c \in Calls,
           \/ WakeFromEntry(c) \/ CheckExists(c) \/ CreateRaw(c) \/ PollRunning(c)
           \/ WakeFromFlight(c)
    PROVE  Inv'
<1>1. /\ UNCHANGED <<entries, completedAt, flights, beats, answer, requestID, clock>>
      /\ \E q \in Pcs : /\ pc' = [pc EXCEPT ![c] = q]
                        /\ pc[c] # "done" /\ q \in Open => pc[c] \in Open
                        /\ q \in Flying => pc[c] \in Flying
                        /\ pc[c] \notin {"answer", "closing", "done"}
  BY DEF WakeFromEntry, CheckExists, CreateRaw, PollRunning, WakeFromFlight, Return,
         storeVars, streamVars, worldVars, Pcs, Open, Flying
<1>2. \A d \in Calls : Key(d)' = Key(d)
  BY <1>1 DEF Key
<1>3. TypeInv' /\ EntryInv' /\ FlightInv'
  BY <1>1, <1>2 DEF Inv, TypeInv, EntryInv, FlightInv, Pcs, Open, Flying
<1>4. BeatInv'
  BY <1>1 DEF Inv, TypeInv, BeatInv
<1> QED BY <1>3, <1>4 DEF Inv

\* Accepting a stream, its heartbeats and the answers.
LEMMA StreamStepInv ==
    ASSUME Inv, NEW c \in Calls,
           \/ AcceptStream(c) \/ Respond(c) \/ FinalEvent(c) \/ StopHeartbeats(c)
           \/ Heartbeat(c) \/ ClientGone(c)
    PROVE  Inv'
<1>1. /\ UNCHANGED <<entries, completedAt, flights, requestID, clock>>
      /\ \/ UNCHANGED pc
         \/ \E q \in {"accepted", "closing", "done"} :
              /\ pc' = [pc EXCEPT ![c] = q] /\ pc[c] \in {"idle", "answer", "closing"}
              /\ pc[c] = "idle" \/ q \in {"closing", "done"}
  BY DEF AcceptStream, Respond, FinalEvent, StopHeartbeats, Heartbeat, ClientGone,
         storeVars, callVars, streamVars, worldVars
<1>2. \A d \in Calls : Key(d)' = Key(d)
  BY <1>1 DEF Key
<1>3. TypeInv' /\ EntryInv' /\ FlightInv'
  BY <1>1, <1>2 DEF Inv, TypeInv, EntryInv, FlightInv, Pcs, Open, Flying
<1>4. BeatInv'
  <2>1. CASE AcceptStream(c)
    BY <2>1 DEF AcceptStream, Inv, TypeInv, BeatInv
  <2>2. CASE Respond(c)
    BY <2>2 DEF Respond, Status, Inv, TypeInv, BeatInv
  <2>3. CASE FinalEvent(c)
    BY <2>3 DEF FinalEvent, Status, Inv, TypeInv, BeatInv
  <2>4. CASE StopHeartbeats(c)
    BY <2>4 DEF StopHeartbeats, callVars, Inv, TypeInv, BeatInv
  <2>5. CASE Heartbeat(c) \/ ClientGone(c)
    BY <2>5 DEF Heartbeat, ClientGone, callVars, streamVars, Inv, BeatInv
  <2> QED BY <2>1, <2>2, <2>3, <2>4, <2>5
<1> QED BY <1>3, <1>4 DEF Inv

\* Every step preserves the invariant.
LEMMA NextInv ==
    ASSUME Inv, [Next]_vars
    PROVE  Inv'
<1>1. ASSUME NEW c \in Calls, Progress(c) PROVE Inv'
  BY <1>1, EnterReplayInv, CompleteEntryInv, FlightStepInv, CallStepInv, StreamStepInv DEF Progress
<1>2. CASE Tick
  BY <1>2 DEF Tick, storeVars, callVars, streamVars, Inv, TypeInv, EntryInv, FlightInv, BeatInv, Key
<1>3. CASE UNCHANGED vars
  BY <1>3 DEF vars, storeVars, callVars, streamVars, worldVars, Inv, TypeInv, EntryInv, FlightInv,
     BeatInv, Key
<1> QED BY <1>1, <1>2, <1>3, StreamStepInv DEF Next

\* The inductive invariant holds in every reachable state.
THEOREM CreateInvariance == Spec => []Inv
BY InitInv, NextInv, PTL DEF Spec

-----------------------------------------------------------------------------
\* Neither two calls for one name nor two of one identity create at a time
\* (createSingleflight.do, createReplayStore.do, pruneLocked).
THEOREM CreatesNeverOverlapCorrect == Spec => []CreatesNeverOverlap
<1>1. Inv => CreatesNeverOverlap
  <2> SUFFICES ASSUME Inv PROVE OneCreatePerName /\ OneCreatePerIdentity
    BY DEF CreatesNeverOverlap
  <2>1. OneCreatePerName
    BY DEF Inv, FlightInv, Flying, OneCreatePerName
  <2>2. OneCreatePerIdentity
    BY DEF Inv, EntryInv, Open, OneCreatePerIdentity
  <2> QED BY <2>1, <2>2
<1> QED BY <1>1, CreateInvariance, PTL

\* No heartbeat is written after the final event (streamSandboxCreate).
THEOREM SilentAfterFinalCorrect == Spec => SilentAfterFinal
<1> DEFINE Silent == \A c \in Calls : answer[c] # 0 => beatCount'[c] = beatCount[c]
<1>1. Inv /\ [Next]_vars => [Silent]_vars
  <2> SUFFICES ASSUME Inv, Next, NEW c \in Calls, answer[c] # 0 PROVE beatCount'[c] = beatCount[c]
    OBVIOUS
  <2>1. beats[c] \in {"none", "off"}
    BY DEF Inv, BeatInv
  <2>2. CASE UNCHANGED beatCount
    BY <2>2
  <2>3. ASSUME NEW d \in Calls, Heartbeat(d) PROVE beatCount'[c] = beatCount[c]
    <3>1. c # d /\ beatCount' = [beatCount EXCEPT ![d] = beatCount[d] + 1]
      BY <2>1, <2>3 DEF Heartbeat
    <3> QED BY <3>1
  <2> QED BY <2>2, <2>3 DEF Next, Progress, AcceptStream, EnterReplay, WakeFromEntry, CompleteEntry,
       CheckExists, EnterFlight, CreateRaw, PollRunning, LeaveFlight, WakeFromFlight, Respond,
       FinalEvent, StopHeartbeats, ClientGone, Tick, streamVars
<1>2. Spec => [][Silent]_vars
  BY <1>1, CreateInvariance, PTL DEF Spec
<1> QED BY <1>2 DEF SilentAfterFinal
=============================================================================

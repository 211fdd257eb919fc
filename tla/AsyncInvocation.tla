--------------------------- MODULE AsyncInvocation ---------------------------
(***************************************************************************)
(* Asynchronous invocations: AsyncInvokeHandler takes a worker slot, stores *)
(* a pending result and answers 202; a goroutine runs the invocation, keeps *)
(* the stored result up to date and sends the webhook; pollers read the     *)
(* result (api/v1/async_invoke.go, asyncinvocation). The middleware chain   *)
(* and the invocation are InvokeChain's; here they end with an outcome.     *)
(***************************************************************************)
EXTENDS GoValues, Integers, Sequences

CONSTANTS
    Jobs,           \* asynchronous requests
    Backends,       \* the storage backends a frontend may be configured with
    MaxConcurrent,  \* worker slots
    Outcomes,       \* how Invoker.Handle may end: [code, err]
    MaxAttempts     \* webhook attempts

ASSUME SlotsAssumption == MaxConcurrent \in Nat \ {0}

VARIABLES
    workerSlots, \* WorkerPool.sem: how many slots are taken
    backend,    \* the storage backend, fixed at the first use
    heap,       \* [Jobs -> Seq of the AsyncResult objects made for it]
    store,      \* [Jobs -> the index of the stored object, 0 when absent]
    job,        \* [Jobs -> the goroutine that serves the request]
    poll        \* [Jobs -> the poller of its result]

asyncVars == <<workerSlots, backend, heap, store, job, poll>>

\* pc: where the goroutine is; out: what the chain left in the process context
\* and returned; ptr: the AsyncResult the worker holds; hook: the payload of the
\* webhook.
NewJob == [pc |-> "new", out |-> None, ptr |-> 0, hook |-> None, tries |-> 0]

AtStep(r, pc) == job[r].pc = pc
Step(r, pc) == job' = [job EXCEPT ![r].pc = pc]

------------------------------------------------------------------------------
\* The handler

\* The slot is taken, blocking, before the request is looked at ...
Acquire(r) ==
    /\ AtStep(r, "new") /\ workerSlots < MaxConcurrent
    /\ workerSlots' = workerSlots + 1
    /\ Step(r, "slot")
    /\ UNCHANGED <<backend, heap, store, poll>>

\* ... and kept when the process context cannot be built.
Reject(r) ==
    /\ AtStep(r, "slot")
    /\ Step(r, "rejected")
    /\ UNCHANGED <<workerSlots, backend, heap, store, poll>>

Result(status) == [status |-> status, code |-> 0, err |-> "none"]

\* Store keeps a copy of the result.
PutResult(r, res) ==
    /\ heap' = [heap EXCEPT ![r] = Append(@, res)]
    /\ store' = [store EXCEPT ![r] = Len(heap'[r])]

\* Only redis may fail to store.
PutFails == backend = "redis" /\ UNCHANGED <<heap, store>>

\* The pending result (an error of Store is not looked at), 202 with the request
\* ID, and a goroutine for the rest.
AcceptJob(r) ==
    /\ AtStep(r, "slot")
    /\ PutResult(r, Result("pending")) \/ PutFails
    /\ Step(r, "accepted")
    /\ UNCHANGED <<workerSlots, backend, poll>>

------------------------------------------------------------------------------
\* The worker of an asynchronous invocation

\* Load: memory hands out the stored pointer, redis a fresh object.
Loaded(r) ==
    IF backend = "memory" THEN heap' = heap /\ job' = [job EXCEPT ![r].pc = "loaded", ![r].ptr = store[r]]
    ELSE /\ heap' = [heap EXCEPT ![r] = Append(@, heap[r][store[r]])]
         /\ job' = [job EXCEPT ![r].pc = "loaded", ![r].ptr = Len(heap'[r])]

\* Nothing stored, or an error: the goroutine gives its slot back and ends.
Finish(r) == job' = [job EXCEPT ![r].pc = "ended"] /\ workerSlots' = workerSlots - 1

WorkerLoad(r) ==
    /\ AtStep(r, "accepted")
    /\ \/ store[r] # 0 /\ Loaded(r) /\ workerSlots' = workerSlots
       \/ (store[r] = 0 \/ backend = "redis") /\ Finish(r) /\ heap' = heap
    /\ UNCHANGED <<backend, store, poll>>

\* The status is set through the pointer; the copy of it is stored next.
SetRunning(r) ==
    /\ AtStep(r, "loaded")
    /\ heap' = [heap EXCEPT ![r][job[r].ptr].status = "running"]
    /\ Step(r, "setRunning")
    /\ UNCHANGED <<backend, workerSlots, store, poll>>

StoreRunning(r) ==
    /\ AtStep(r, "setRunning")
    /\ \/ PutResult(r, heap[r][job[r].ptr]) /\ Step(r, "invoke") /\ workerSlots' = workerSlots
       \/ PutFails /\ Finish(r)
    /\ UNCHANGED <<backend, poll>>

\* Invoker.Handle returns, or panics.
Panicked == [code |-> 0, err |-> "panic"]

Invoke(r, o) ==
    /\ AtStep(r, "invoke")
    /\ job' = [job EXCEPT ![r].pc = "invoked", ![r].out = o]
    /\ UNCHANGED <<backend, workerSlots, heap, store, poll>>

StatusByError(o) == IF o.err # "none" \/ o.code >= 400 THEN "failed" ELSE "completed"

\* The status an outcome earns: an error, no status code and an HTTP error are failures.
StatusOf(o) == IF o.err # "none" \/ o.code = 0 \/ o.code >= 400 THEN "failed" ELSE "completed"

\* The worker fills its object: the status first, the rest afterwards.
SetStatus(r) ==
    /\ AtStep(r, "invoked") /\ job[r].out # Panicked
    /\ heap' = [heap EXCEPT ![r][job[r].ptr].status = StatusOf(job[r].out)]
    /\ Step(r, "setStatus")
    /\ UNCHANGED <<backend, workerSlots, store, poll>>

SetRest(r) ==
    /\ AtStep(r, "setStatus")
    /\ heap' = [heap EXCEPT ![r][job[r].ptr] =
                    [status |-> @.status, code |-> job[r].out.code, err |-> job[r].out.err]]
    /\ Step(r, "setRest")
    /\ UNCHANGED <<backend, workerSlots, store, poll>>

\* The final Store; the webhook, when the request named one, runs on its own.
StoreFinal(r, hook) ==
    /\ AtStep(r, "setRest")
    /\ workerSlots' = workerSlots - 1
    /\ \/ /\ PutResult(r, heap[r][job[r].ptr])
          /\ job' = [job EXCEPT ![r].pc = "ended",
                                ![r].hook = IF hook THEN heap[r][job[r].ptr] ELSE None]
       \/ PutFails /\ Step(r, "ended")
    /\ UNCHANGED <<backend, poll>>

\* The recover of a panic: what is stored becomes failed, in place where Load
\* handed out the stored object, and is stored again.
Recovered(r) ==
    LET failed == [heap[r][store[r]] EXCEPT !.status = "failed", !.err = "panic"]
        seen == IF backend = "memory" THEN [heap[r] EXCEPT ![store[r]] = failed] ELSE heap[r]
    IN
    /\ AtStep(r, "invoked") /\ job[r].out = Panicked
    /\ \/ /\ store[r] # 0
          /\ heap' = [heap EXCEPT ![r] = Append(seen, failed)]
          /\ store' = [store EXCEPT ![r] = Len(heap'[r])]
       \/ (store[r] = 0 \/ backend = "redis") /\ UNCHANGED <<heap, store>>
    /\ Finish(r)
    /\ UNCHANGED <<backend, poll>>

\* sendWebhookWithRetry: until a 2xx answer, or the attempts are used up. The
\* payload was made from the result when it was stored.
Webhook(r, delivered) ==
    /\ job[r].hook # None /\ job[r].tries < MaxAttempts
    /\ job' = [job EXCEPT ![r].tries = IF delivered THEN MaxAttempts ELSE @ + 1]
    /\ UNCHANGED <<backend, workerSlots, heap, store, poll>>

\* The retention of a result ends: by the cleanup, or the key's TTL.
Expire(r) ==
    /\ store[r] # 0
    /\ store' = [store EXCEPT ![r] = 0]
    /\ UNCHANGED <<backend, workerSlots, heap, job, poll>>

------------------------------------------------------------------------------
\* GetAsyncResultHandler: the result is loaded, and read field by field later.

PollLoad(r) ==
    /\ poll[r] = None /\ job[r].pc \notin {"new", "slot"}
    /\ IF store[r] = 0 THEN poll' = [poll EXCEPT ![r] = [ptr |-> 0, ans |-> Result("not found")]] /\ heap' = heap
       ELSE IF backend = "memory"
       THEN poll' = [poll EXCEPT ![r] = [ptr |-> store[r], ans |-> None]] /\ heap' = heap
       ELSE /\ heap' = [heap EXCEPT ![r] = Append(@, heap[r][store[r]])]
            /\ poll' = [poll EXCEPT ![r] = [ptr |-> Len(heap'[r]), ans |-> None]]
    /\ UNCHANGED <<backend, workerSlots, store, job>>

PollAnswer(r) ==
    /\ poll[r] # None /\ poll[r].ptr # 0
    /\ poll' = [poll EXCEPT ![r] = [ptr |-> 0, ans |-> heap[r][poll[r].ptr]]]
    /\ UNCHANGED <<backend, workerSlots, heap, store, job>>

------------------------------------------------------------------------------
AsyncInit ==
    /\ workerSlots = 0
    /\ backend \in Backends
    /\ heap = [r \in Jobs |-> <<>>]
    /\ store = [r \in Jobs |-> 0]
    /\ job = [r \in Jobs |-> NewJob]
    /\ poll = [r \in Jobs |-> None]

Work(r) ==
    \/ Acquire(r) \/ Reject(r) \/ AcceptJob(r)
    \/ WorkerLoad(r) \/ SetRunning(r) \/ StoreRunning(r)
    \/ \E o \in Outcomes \union {Panicked} : Invoke(r, o)
    \/ SetStatus(r) \/ SetRest(r) \/ Recovered(r)
    \/ \E b \in BOOLEAN : StoreFinal(r, b) \/ Webhook(r, b)

AsyncNext == \E r \in Jobs : Work(r) \/ Expire(r) \/ PollLoad(r) \/ PollAnswer(r)

AsyncSpec == AsyncInit /\ [][AsyncNext]_asyncVars

------------------------------------------------------------------------------
\* Properties

\* What the outside was told about a job: by a webhook, by a poll.
Reports(r) == {job[r].hook, IF poll[r] = None THEN None ELSE poll[r].ans} \ {None}

\* Nobody is told of a success that did not happen: a result that a poller or a
\* webhook sees completed belongs to an invocation that returned without an error
\* and with a status code below 400, whichever object of the store it was read from
\* (async_invoke.go, "Check both invoke error and status code").
NoFalseSuccess ==
    \A r \in Jobs : \A a \in Reports(r) :
        a.status = "completed" => /\ job[r].out # None /\ job[r].out.err = "none"
                                  /\ job[r].out.code \in 1..399

\* A poller that is given a final result is given all of it: the status code of the
\* invocation comes with its status (storage.go: "Store a copy to avoid data race").
\* Load hands the stored object out, and the worker goes on writing to the one it
\* was given.
AnswerIsWhole ==
    \A r \in Jobs : \A a \in Reports(r) :
        a.status \in {"completed", "failed"} /\ job[r].out.err # "panic" => a.code = job[r].out.code

\* The slots that are taken are those of the requests in progress (async_invoke.go:
\* "Release worker slot and decrement concurrent count when done").
SlotsReturned ==
    (\A r \in Jobs : job[r].pc \in {"new", "rejected", "ended"}) => workerSlots = 0
=============================================================================

------------------------------- MODULE AppJobs -------------------------------
(***************************************************************************)
(* Jobs: the /api/jobs handlers (api/job, common/job) and the application    *)
(* handlers below them (api/app), the kernel that runs an application under  *)
(* its submission id, and the table of applications (appinfo.go) that the    *)
(* instance watch fills later.                                               *)
(***************************************************************************)
EXTENDS GoValues, Integers, Sequences, FiniteSets

CONSTANTS
    JobIds,        \* submission ids, as the kernel knows them
    FreshIds,      \* subset of JobIds: ids the frontend generates
    JobRequests,   \* bodies of submissions
    JobCalls,      \* calls of clients
    MaxJobEvents,  \* bound: events of the watch on their way
    MaxGens        \* bound: instances made

VARIABLES
    kernelJobs,    \* [JobIds -> instance of the kernel, or None]
    jobEvents,     \* events of the instance watch, in order
    apps,          \* appsInfo: [JobIds -> AppInfo, or None]
    jobCalls,      \* [JobCalls -> call]
    jobGens,       \* instances made so far
    signals        \* [sig, gen, was]: signals that reached an instance, and its status then

jobVars == <<kernelJobs, jobEvents, apps, jobCalls, jobGens, signals>>

NoJobCall == [pc |-> "idle", op |-> "none", id |-> None, req |-> None, status |-> "", answer |-> None]

------------------------------------------------------------------------------
\* The body of a submission

\* ValidateResources
ValidateResources(req) == req.cpu >= 0 /\ req.gpu >= 0 /\ req.mem >= 0

\* CheckSubmissionId: a prefix is put before an id without one; "driver" and letters outside
\* the pattern are refused. An id is [spelling, id]; the spelling is lost.
CheckSubmissionId(req) == req.id = None \/ req.id[1] \in {"app-", "bare"}

\* CheckField
CheckField(req) == req.entry # "" /\ req.dir # "" /\ ValidateResources(req) /\ CheckSubmissionId(req)

\* SubmitJobHandleReq: cores (here in tenths of a thousandth) become thousandths and bytes
\* mebibytes, both rounded up; the tenant and the pool labels come from the headers.
CeilDiv(a, b) == (a + b - 1) \div b
SubmitJobHandleReq(req) ==
    [req EXCEPT !.cpu = CeilDiv(@, 10), !.mem = CeilDiv(@, 1048576),
                !.opts = IF req.tenant = "" THEN @ ELSE [@ EXCEPT !.tenant = req.tenant]]

\* generateScheduleAffinity: one preferred affinity for each label; the label that says so
\* turns the avoidance of other labels off for all of them.
GenerateScheduleAffinity(labels) ==
    {[label |-> l, anti |-> "unUseAnti" \notin labels] : l \in labels \ {"unUseAnti"}}

\* Faulty variant: what the caller put into the options wins.
UserOptionsWin(req) ==
    [req.opts EXCEPT !.entry = IF @ = "" THEN req.entry ELSE @,
                     !.dir   = IF @ = "" THEN req.dir ELSE @]

\* buildCreateOpt: the caller's options, under those of the fields that are there.
BuildCreateOpt(req) ==
    [req.opts EXCEPT !.entry = req.entry,
                     !.pip  = IF req.pip # "" THEN req.pip ELSE @,
                     !.dir  = IF req.dir # "" THEN req.dir ELSE @,
                     !.env  = IF req.env # "" THEN req.env ELSE @,
                     !.meta = IF req.meta # "" THEN req.meta ELSE @]

\* createInvokeOpts
CreateInvokeOpts(req) ==
    [cpu |-> req.cpu, mem |-> req.mem, opt |-> BuildCreateOpt(req),
     affinities |-> GenerateScheduleAffinity(req.labels)]

------------------------------------------------------------------------------
\* The table of applications

\* switch2AppStatus
Switch2AppStatus(code, type) ==
    CASE code \in {"scheduling", "creating"} -> "PENDING"
      [] code \in {"running", "exiting", "subhealth"} -> "RUNNING"
      [] code \in {"failed", "scheduleFailed", "evicting", "evicted"} -> "FAILED"
      [] code = "fatal" -> (CASE type = "return" -> "SUCCEEDED" [] type = "userKill" -> "STOPPED" [] OTHER -> "FAILED")
      [] OTHER -> ""
Finished == {"FAILED", "STOPPED", "SUCCEEDED"}

\* StoreAppInfo: what the instance was created with, read back from its options.
StoreAppInfo(ins) ==
    LET status == Switch2AppStatus(ins.code, ins.type)
        opt == ins.invoke.opt
    IN  [status |-> status, gen |-> ins.gen, entry |-> opt.entry, meta |-> opt.meta,
         runtimeEnv |-> <<opt.pip, opt.dir, opt.env>>,
         error |-> IF status \in {"FAILED", "STOPPED"} THEN ins.type ELSE "",
         ended |-> status \in Finished]

\* ProcessAppInfoUpdate and ProcessAppInfoDelete, for the oldest event.
WatchApp ==
    /\ jobEvents # <<>>
    /\ LET e == Head(jobEvents)
       IN  apps' = [apps EXCEPT ![e.id] = IF e.ins = None THEN None ELSE StoreAppInfo(e.ins)]
    /\ jobEvents' = Tail(jobEvents)
    /\ UNCHANGED <<kernelJobs, jobCalls, jobGens, signals>>

\* GetAppStatusByID, GetAppDetailsByID
GetAppStatusByID(id) == IF apps[id] = None THEN "" ELSE apps[id].status

\* GetAppInfo
GetAppInfo(id) == IF apps[id] = None THEN 404 ELSE 200

------------------------------------------------------------------------------
\* The kernel: an instance for each name, written to etcd with each change

PutApp(id, ins) ==
    /\ Len(jobEvents) < MaxJobEvents
    /\ kernelJobs' = [kernelJobs EXCEPT ![id] = ins]
    /\ jobEvents' = Append(jobEvents, [id |-> id, ins |-> ins])

KernelMoves(code) ==
    CASE code = "scheduling" -> {<<"creating", "none">>, <<"scheduleFailed", "exception">>}
      [] code = "creating" -> {<<"running", "none">>, <<"failed", "exception">>}
      [] code = "running" -> {<<"exiting", "none">>, <<"evicting", "none">>, <<"fatal", "exception">>}
      [] code = "exiting" -> {<<"fatal", "return">>}
      [] code = "evicting" -> {<<"evicted", "none">>}
      [] OTHER -> {}
KernelMove(id) ==
    /\ kernelJobs[id] # None
    /\ \E m \in KernelMoves(kernelJobs[id].code) : PutApp(id, [kernelJobs[id] EXCEPT !.code = m[1], !.type = m[2]])
    /\ UNCHANGED <<apps, jobCalls, jobGens, signals>>

------------------------------------------------------------------------------
\* The handlers

JobGo(c, r) == jobCalls' = [jobCalls EXCEPT ![c] = r]

\* SubmitJobHandleRes, GetJobInfoHandleRes, DeleteJobHandleRes, StopJobHandleRes: a deletion or
\* a stop that is not allowed is told as false, with status 200.
HandleRes(op, code) ==
    IF op \in {"delete", "stop"} /\ code = 403 THEN [code |-> 200, ok |-> FALSE]
    ELSE [code |-> code, ok |-> code = 200]
Answered(call, code) == [call EXCEPT !.pc = "done", !.answer = HandleRes(call.op, code)]
Answer(c, code) == JobGo(c, Answered(jobCalls[c], code))

\* SubmitJobHandler up to the creation: a given id must not be in the table; an absent one
\* is generated (NewSubmissionID).
SubmitJob(c, req) ==
    /\ jobCalls[c].pc = "idle"
    /\ LET ask(id) == JobGo(c, [NoJobCall EXCEPT !.pc = "create", !.op = "submit", !.id = id,
                                                 !.req = SubmitJobHandleReq(req)])
       IN  IF ~CheckField(req) THEN JobGo(c, Answered([NoJobCall EXCEPT !.op = "submit"], 400))
           ELSE IF req.id = None
           THEN \E id \in FreshIds : /\ kernelJobs[id] = None /\ apps[id] = None
                                     /\ \A d \in JobCalls : jobCalls[d].id # id
                                     /\ ask(id)
           ELSE IF GetAppInfo(req.id[2]) = 200
           THEN JobGo(c, Answered([NoJobCall EXCEPT !.op = "submit", !.id = req.id[2]], 400))
           ELSE ask(req.id[2])
    /\ UNCHANGED <<kernelJobs, jobEvents, apps, jobGens, signals>>

\* CreateHandler: the application interface checks nothing of the body.
CreateApp(c, req) ==
    /\ jobCalls[c].pc = "idle" /\ req.id # None
    /\ JobGo(c, [NoJobCall EXCEPT !.pc = "create", !.op = "app", !.id = req.id[2], !.req = req])
    /\ UNCHANGED <<kernelJobs, jobEvents, apps, jobGens, signals>>

\* SubmitApp and SubmitJobHandleRes: the kernel refuses a name that is taken.
SubmitApp(c) ==
    /\ jobCalls[c].pc = "create"
    /\ \/ /\ kernelJobs[jobCalls[c].id] = None /\ jobGens < MaxGens
          /\ PutApp(jobCalls[c].id, [code |-> "scheduling", type |-> "none", gen |-> jobGens + 1,
                                  invoke |-> CreateInvokeOpts(jobCalls[c].req), req |-> jobCalls[c].req])
          /\ jobGens' = jobGens + 1
          /\ Answer(c, 200)
       \/ Answer(c, 500) /\ UNCHANGED <<kernelJobs, jobEvents, jobGens>>
    /\ UNCHANGED <<apps, signals>>

\* GetJobInfoHandler and ListJobsHandler read the table once.
GetJobInfo(c, id) ==
    /\ jobCalls[c].pc = "idle"
    /\ JobGo(c, Answered([NoJobCall EXCEPT !.op = "get", !.id = id, !.status = GetAppStatusByID(id)], GetAppInfo(id)))
    /\ UNCHANGED <<kernelJobs, jobEvents, apps, jobGens, signals>>

\* DeleteApp and StopApp, first half: the status in the table decides.
Allowed(op) == IF op = "delete" THEN Finished ELSE {"RUNNING"}
CheckStatus(c, op, id) ==
    /\ jobCalls[c].pc = "idle"
    /\ LET status == GetAppStatusByID(id)
           call == [NoJobCall EXCEPT !.op = op, !.id = id, !.status = status]
       IN  JobGo(c, CASE status = "" -> Answered(call, 404)
                      [] status # "" /\ status \notin Allowed(op) -> Answered(call, 403)
                      [] OTHER -> [call EXCEPT !.pc = "kill"])
    /\ UNCHANGED <<kernelJobs, jobEvents, apps, jobGens, signals>>

\* The second half: the kernel is sent the signal. A refused stop is answered as a success.
KillApp(c) ==
    /\ jobCalls[c].pc = "kill"
    /\ LET call == jobCalls[c]
           ins == kernelJobs[call.id]
       IN  \/ /\ ins # None
              /\ IF call.op = "delete" THEN PutApp(call.id, None)
                 ELSE PutApp(call.id, [ins EXCEPT !.code = "fatal", !.type = "userKill"])
              /\ signals' = signals \cup {[sig |-> call.op, gen |-> ins.gen, was |-> Switch2AppStatus(ins.code, ins.type)]}
              /\ Answer(c, 200)
           \/ /\ Answer(c, IF call.op = "delete" THEN 500 ELSE 200)
              /\ UNCHANGED <<kernelJobs, jobEvents, signals>>
    /\ UNCHANGED <<apps, jobGens>>

Respond(c) ==
    /\ jobCalls[c].pc = "done"
    /\ JobGo(c, NoJobCall)
    /\ UNCHANGED <<kernelJobs, jobEvents, apps, jobGens, signals>>

------------------------------------------------------------------------------
JobInit ==
    /\ kernelJobs = [i \in JobIds |-> None] /\ jobEvents = <<>> /\ apps = [i \in JobIds |-> None]
    /\ jobCalls = [c \in JobCalls |-> NoJobCall]
    /\ jobGens = 0 /\ signals = {}

JobNext ==
    \/ WatchApp \/ \E id \in JobIds : KernelMove(id)
    \/ \E c \in JobCalls :
           \/ \E req \in JobRequests : SubmitJob(c, req) \/ CreateApp(c, req)
           \/ \E id \in JobIds : GetJobInfo(c, id) \/ \E op \in {"delete", "stop"} : CheckStatus(c, op, id)
           \/ SubmitApp(c) \/ KillApp(c) \/ Respond(c)

JobSpec == JobInit /\ [][JobNext]_jobVars

------------------------------------------------------------------------------
\* Properties

\* What the table shows of an application is what was submitted: its entry point always, and
\* every field of its runtime environment that was given, whatever options came along, after
\* the way through the create options, the kernel and the watch.
InfoEchoesSubmit ==
    \A i \in JobIds :
        (apps[i] # None /\ kernelJobs[i] # None) => (apps[i].gen = kernelJobs[i].gen =>
            LET req == kernelJobs[i].req
            IN  /\ apps[i].entry = req.entry
                /\ req.pip # "" => apps[i].runtimeEnv[1] = req.pip
                /\ req.dir # "" => apps[i].runtimeEnv[2] = req.dir
                /\ req.env # "" => apps[i].runtimeEnv[3] = req.env
                /\ req.meta # "" => apps[i].meta = req.meta)

\* A deletion only ever reaches an application that has finished.
DeleteSparesRunning == \A s \in signals : s.sig = "delete" => s.was \in Finished
=============================================================================

-------------------------------- MODULE Agent --------------------------------
(***************************************************************************)
(* The agent API (pkg/frontend/api/agent/handler.go): one create request,  *)
(* in inline or registered mode, up to the create call sent to the         *)
(* FunctionProxy; delete, get and list of the instance; one file upload    *)
(* over the tunnel to the executor.                                        *)
(*                                                                         *)
(* In registered mode the handler reads the function's metadata four times *)
(* while the metadata watch may replace it, so the create is a sequence of *)
(* steps, one for each read. The proxy, the kernel, the executor and the   *)
(* two instance watches are external.                                      *)
(*                                                                         *)
(* An optional value is <<>> or a sequence of one element. A string is     *)
(* named for what the code tells apart: "blank" is made of spaces, and     *)
(* " h" is "h" with spaces around it. PH is the user's placeholder.        *)
(***************************************************************************)
EXTENDS Integers, Sequences, SequencesExt, FiniteSets, TLC

CONSTANTS
    Scenarios,      \* bodies of POST /api/agent, each with the form of an upload, <<>> for none
    FuncSpecs,      \* versions of the registered function's metadata
    MaxMeta,        \* bound: changes of the metadata
    SSHSource,      \* YR_SSH_BACKEND_PUBLIC_KEY_DIR, "" when SSH is disabled
    MaxFile,        \* maxFileUploadSize
    Overhead        \* maxMultipartOverhead

ASSUME SizeAssumption == MaxFile \in Nat /\ Overhead \in Nat

Nil == <<>>
Ptr(v) == <<v>>

VARIABLES
    meta, metaWrites,   \* functionmeta's entry of the function, or Nil
    req, pc,            \* the create request and how far its handler is
    retried,            \* the caller sent it again after an error
    runtime, spec,      \* what its first two reads of the metadata returned
    opts, args,         \* its invoke options and create arguments
    inst,               \* the instance in etcd: state and createOptions
    im, summary,        \* instancemanager has it; execendpoint's summary of it
    kill,               \* the background kill of DELETE
    detail,             \* the last answer of GET
    upload              \* the upload

createVars == <<req, pc, retried, runtime, spec, opts, args>>
instVars == <<inst, im, summary>>
agentVars == <<meta, metaWrites, createVars, instVars, kill, detail, upload>>

------------------------------------------------------------------------------
\* Request bodies

Runtimes == {"", "python3.6", "python3.9", "python3.10", "python3.11", "java8", "go"}
Strings == {"", "blank", "h", " h", "i", "p"}
Trimmed(s) == CASE s = "blank" -> "" [] s = " h" -> "h" [] OTHER -> s

ProbeActions == {"httpGet", "tcpSocket", "exec"}
ProbeSpec == [actions : SUBSET ProbeActions, port : Int, scheme : {"", "http", "ftp"},
              argv : Nat, delay : Int, period : Int]
RootfsSpec == [image : BOOLEAN, user : {"", "u", "sn"}, workdir : BOOLEAN, ports : Seq({"tcp:1", "2", "x"})]
Mount == [source : STRING, target : STRING, readonly : BOOLEAN]

RuntimeSpec ==
    [runtime : Runtimes, sandboxType : {"", "docker", "supervisor"},
     codePath : BOOLEAN, storageType : BOOLEAN,
     handler : Strings, initializer : Strings, preStop : Strings,
     initTimeout : Int, preStopTimeout : Int,
     rootfs : Seq(RootfsSpec), cmds : BOOLEAN,
     startup : Seq(ProbeSpec), liveness : Seq(ProbeSpec), cpu : Int, memory : Int]

\* A well-formed body: the fields the handler reads.
IsCreateRequest(r) ==
    /\ r.namespace \in STRING /\ r.name \in STRING
    /\ r.urn \in {"", "urn", "malformed"}
    /\ Len(r.runtimeSpec) <= 1
    /\ r.runtimeSpec \in Seq(RuntimeSpec) /\ r.mounts \in Seq(Mount)
    /\ r.env \in UNION {[ks -> {"dynamic"}] : ks \in SUBSET {"U", "CMD", "PROBE"}}

ASSUME RequestsAssumption == \A s \in Scenarios : IsCreateRequest(s[1])

Inline(r) == r.runtimeSpec # Nil /\ r.runtimeSpec[1].runtime # ""

------------------------------------------------------------------------------
\* Validation

ValidateIdentity(r) == r.namespace # "" /\ r.name # ""

\* The ID designated for the instance is a digest of the namespace and the
\* name with their lengths: equal for equal identities only.
InstanceID(r) == <<r.namespace, r.name>>

\* The executor function of a runtime; unknown ones run as PosixCustom.
ExecutorFuncKey(rt) ==
    CASE rt = "go" -> "Go1.x"
      [] rt \in Runtimes \ {"", "go"} -> rt
      [] OTHER -> "PosixCustom"

SupportedPython(rt) == rt \in {"python3.9", "python3.10", "python3.11"}

InitTimeoutSeconds == 305
PreStopTimeoutSeconds == 10
MaxPreStopTimeoutSec == 180
ShutdownReserveSeconds == 5
GracefulShutdownSeconds == 15

Positive(n, default) == IF n > 0 THEN n ELSE default

\* resolveAgentExtendedTimeouts: the registered values first, then the inline
\* ones; what is not positive takes the default.
ExtendedTimeouts(s, rs) ==
    LET given == CASE s # Nil -> [init |-> s[1].initTimeout, preStop |-> s[1].preStopTimeout]
                   [] s = Nil /\ rs # Nil -> [init |-> rs[1].initTimeout, preStop |-> rs[1].preStopTimeout]
                   [] OTHER -> [init |-> 0, preStop |-> 0]
    IN  [init |-> Positive(given.init, InitTimeoutSeconds),
         preStop |-> Positive(given.preStop, PreStopTimeoutSeconds)]

\* storageType and codePath: both or neither.
ValidCodeDescriptor(r, s) ==
    CASE Inline(r) -> r.runtimeSpec[1].codePath = r.runtimeSpec[1].storageType
      [] ~Inline(r) /\ s # Nil -> s[1].codePath = s[1].storageType
      [] OTHER -> TRUE

ValidPort(p) == p \in 1..65535
ValidHTTPGet(p) == ValidPort(p.port) /\ p.scheme \in {"", "http", "https"}
ValidTCPSocket(p) == ValidPort(p.port)
ValidExec(p) == p.argv > 0

\* Exactly one action, each one given valid; liveness has no schedule.
ValidProbeSpec(p, allowScheduling) ==
    /\ allowScheduling \/ (p.delay = 0 /\ p.period = 0)
    /\ "httpGet" \in p.actions => ValidHTTPGet(p)
    /\ "tcpSocket" \in p.actions => ValidTCPSocket(p)
    /\ "exec" \in p.actions => ValidExec(p)
    /\ Cardinality(p.actions) = 1

Probes(rs) == IF rs = Nil THEN Nil ELSE rs[1].startup \o rs[1].liveness

ValidProbes(r, platformExecutor) ==
    Probes(r.runtimeSpec) # Nil =>
        /\ platformExecutor
        /\ \A i \in DOMAIN r.runtimeSpec[1].startup : ValidProbeSpec(r.runtimeSpec[1].startup[i], TRUE)
        /\ \A i \in DOMAIN r.runtimeSpec[1].liveness : ValidProbeSpec(r.runtimeSpec[1].liveness[i], FALSE)

\* The platform's executor runs the instance when nobody named a handler.
PlatformExecutor(r, s) ==
    IF Inline(r) THEN Trimmed(r.runtimeSpec[1].handler) = ""
    ELSE s = Nil \/ Trimmed(s[1].handler) = ""

\* An image is needed but for the supervisor's sandboxes; metadata that is
\* not in the cache is let through.
ValidRootfsImage(r, s) ==
    IF Inline(r)
    THEN \/ r.runtimeSpec[1].sandboxType = "supervisor"
         \/ r.runtimeSpec[1].rootfs # Nil /\ r.runtimeSpec[1].rootfs[1].image
    ELSE s = Nil \/ s[1].image \/ s[1].sandboxType = "supervisor"

IsAbs(p) == p # "" /\ p # "rel"
IsSafeBindSource(p) == p \notin {"/", "/etc", "/proc", "/sys", "/dev", "/boot", "/docker.sock"}
ValidBindSource(p) == IsAbs(p) /\ IsSafeBindSource(p)

SSHMountDirectory == "/home/sn/ssh"
PathsOverlap(p) == p \in {SSHMountDirectory, "/home/sn/ssh/keys", "/home/sn", "/home"}

------------------------------------------------------------------------------
\* The invoke options

WorkspaceTarget == "/home/PH"
Bind(s, t, ro) == [source |-> s, target |-> t, readonly |-> ro]

\* The caller's mounts in order, the workspace first and the platform's last.
RootfsMounts(r) ==
    (IF r.workspace = "" THEN <<>> ELSE <<Bind(r.workspace, WorkspaceTarget, FALSE)>>) \o r.mounts
SSHMount == IF SSHSource = "" THEN <<>> ELSE <<Bind(SSHSource, SSHMountDirectory, TRUE)>>
ValidMounts(r) ==
    /\ \A m \in ToSet(RootfsMounts(r)) : ValidBindSource(m.source)
    /\ SSHSource # "" =>
         /\ ValidBindSource(SSHSource)
         /\ \A m \in ToSet(RootfsMounts(r)) : ~PathsOverlap(m.target)

\* The placeholder, wherever it occurs, becomes the user; without a user only
\* the home of the placeholder is replaced.
ReplaceUser(p, user) ==
    CASE user # "" /\ p = WorkspaceTarget -> "/home/" \o user
      [] user # "" /\ p = "/x/PH" -> "/x/" \o user
      [] user = "" /\ p = WorkspaceTarget -> "/home/agentos"
      [] OTHER -> p
ReplaceUserPlaceholder(mounts, user) ==
    [i \in DOMAIN mounts |-> [mounts[i] EXCEPT !.source = ReplaceUser(@, user),
                                               !.target = ReplaceUser(@, user)]]

\* What cannot be parsed as a port is dropped; the protocol defaults to TCP.
PortForwardings(ports) ==
    LET known == [p \in {"tcp:1", "2"} |-> [port |-> IF p = "2" THEN 2 ELSE 1, protocol |-> "TCP"]]
        valid == SelectSeq(ports, LAMBDA p : p \in DOMAIN known)
    IN  [i \in DOMAIN valid |-> known[valid[i]]]

StaticWins(dynamic, static) == IF static = Nil THEN dynamic ELSE static[1] @@ dynamic

\* mergeAgentStaticEnv: the dynamic environment wins; a static one that is not
\* a JSON object is ignored.
MergeStaticEnv(dynamic, static) ==
    IF static = Nil THEN dynamic ELSE dynamic @@ static[1]

\* mergeAgentBootstrapCmds and applyAgentProbeSpec: a key already set wins.
MergeBootstrapCmds(env, cmds) == IF cmds THEN env @@ ("CMD" :> "cmds") ELSE env
ApplyProbeSpec(env, rs) == IF Probes(rs) = Nil THEN env ELSE env @@ ("PROBE" :> "probes")

\* mergeRootfsJSON: the image joins the mounts already there.
MergeRootfs(mounts, image, workdir) == [image |-> image, workdir |-> image /\ workdir, mounts |-> mounts]

Download(kind, codePath) == IF codePath THEN kind ELSE ""

\* applyAgentFuncMeta with the metadata s.
ApplyFuncMeta(o, s) ==
    [o EXCEPT !.cpu = Positive(s.cpu, @), !.memory = Positive(s.memory, @),
              !.sandboxType = s.sandboxType, !.user = s.user,
              !.rootfs = MergeRootfs(ReplaceUserPlaceholder(@.mounts, s.user), s.image, FALSE),
              !.ports = PortForwardings(s.ports),
              !.env = MergeBootstrapCmds(MergeStaticEnv(@, s.env), s.cmds),
              !.download = IF s.s3 THEN "s3" ELSE Download("local", s.codePath)]

\* resolveInlineHandlerEntries
InlineEntries(rs) ==
    [init |-> Trimmed(rs.initializer), call |-> Trimmed(rs.handler), preStop |-> Trimmed(rs.preStop)]
Paths(init, call, preStop) == <<init, call>> \o (IF preStop = "" THEN <<>> ELSE <<preStop>>)

\* applyAgentInlineCode: the handler goes into CodePaths as it was written.
InlineCode(o, rs) ==
    LET e == InlineEntries(rs)
    IN  [o EXCEPT !.download = Download("inline", rs.codePath),
                  !.codePaths = IF rs.handler = "" THEN @ ELSE Paths(e.init, rs.handler, e.preStop)]

\* applyAgentInlineMeta: without a rootfs the rest is skipped.
ApplyInlineMeta(o, rs) ==
    LET coded == [InlineCode(o, rs) EXCEPT !.sandboxType = rs.sandboxType,
                                           !.env = MergeBootstrapCmds(@, rs.cmds)]
    IN  IF rs.rootfs = Nil THEN coded
        ELSE LET f == rs.rootfs[1]
             IN  [coded EXCEPT !.user = f.user, !.ports = PortForwardings(f.ports),
                    !.rootfs = MergeRootfs(ReplaceUserPlaceholder(@.mounts, f.user), f.image, f.workdir)]

ExecutorEntries == [init |-> "executor.init", call |-> "executor.call", preStop |-> "executor.preStop"]

\* Options as they are before the metadata is applied.
DefaultOptions(r) ==
    LET rs == r.runtimeSpec
    IN  [cpu |-> IF Inline(r) THEN Positive(rs[1].cpu, 1000) ELSE 1000,
         memory |-> IF Inline(r) THEN Positive(rs[1].memory, 2048) ELSE 2048,
         sandboxType |-> "", user |-> "", workspace |-> r.workspace,
         rootfs |-> [image |-> FALSE, workdir |-> FALSE, mounts |-> RootfsMounts(r) \o SSHMount],
         ports |-> <<>>, env |-> r.env, download |-> "", codePaths |-> <<>>,
         function |-> "", note |-> "", grace |-> 0, initCall |-> 0, resources |-> <<>>]

CachePaths(o, s) == IF meta = Nil THEN o ELSE [o EXCEPT !.codePaths = Paths(meta[1].initializer, meta[1].handler, meta[1].preStop)]

\* applyAgentCodePaths, with the metadata the handler decided on.
CodePaths(o, s) ==
    IF s = Nil THEN o
    ELSE [o EXCEPT !.codePaths = Paths(s[1].initializer, s[1].handler, s[1].preStop)]

ApplyExecutor(o, r) ==
    [o EXCEPT !.codePaths = Paths(ExecutorEntries.init, ExecutorEntries.call, ExecutorEntries.preStop),
              !.env = ApplyProbeSpec(@, r.runtimeSpec)]

FixedGrace(preStopTimeout) == GracefulShutdownSeconds

\* The shutdown window leaves room for the pre-stop handler.
GraceTime(preStopTimeout) ==
    IF preStopTimeout + ShutdownReserveSeconds > GracefulShutdownSeconds
    THEN preStopTimeout + ShutdownReserveSeconds ELSE GracefulShutdownSeconds

\* applyAgentCreateOpts
CreateOpts(o, r, rt, s) ==
    [o EXCEPT !.function = ExecutorFuncKey(rt),
              !.note = IF Inline(r) THEN r.name ELSE r.urn,
              !.grace = GraceTime(ExtendedTimeouts(s, r.runtimeSpec).preStop),
              !.initCall = InitTimeoutSeconds,
              !.resources = <<o.cpu, o.memory>>]

\* buildAgentCreateArgs: the function spec the runtime is started with.
CreateArgs(r, rt, s, o) ==
    LET t == ExtendedTimeouts(s, r.runtimeSpec)
        Args(e, tm) == [init |-> e.init, call |-> e.call, preStop |-> e.preStop, runtime |-> rt,
                        initTimeout |-> tm.init, preStopTimeout |-> tm.preStop,
                        resources |-> <<o.cpu, o.memory>>]
    IN  CASE PlatformExecutor(r, s) -> Args(ExecutorEntries, t)
          [] ~PlatformExecutor(r, s) /\ s # Nil ->
               Args([init |-> s[1].initializer, call |-> s[1].handler, preStop |-> s[1].preStop],
                    [init |-> s[1].initTimeout, preStop |-> s[1].preStopTimeout])
          [] OTHER -> Args(InlineEntries(r.runtimeSpec[1]), t)

------------------------------------------------------------------------------
\* POST /api/agent

Answer(p) == pc' = p /\ UNCHANGED <<req, retried, runtime, spec, opts, args>>

\* LoadFuncSpec, once for every read.
LoadFuncSpec == meta

Receive ==
    /\ pc = "received"
    /\ IF ~ValidateIdentity(req) \/ (~Inline(req) /\ req.urn \in {"", "malformed"})
       THEN Answer("400")
       ELSE /\ pc' = "resolved"
            /\ runtime' = CASE Inline(req) -> req.runtimeSpec[1].runtime
                            [] ~Inline(req) /\ LoadFuncSpec # Nil -> LoadFuncSpec[1].runtime
                            [] OTHER -> ""
            /\ UNCHANGED <<req, retried, spec, opts, args>>
    /\ UNCHANGED <<meta, metaWrites, instVars, kill, detail, upload>>

\* The second read decides who runs the instance.
Decide ==
    /\ pc = "resolved"
    /\ LET s == IF Inline(req) THEN Nil ELSE LoadFuncSpec
           platform == PlatformExecutor(req, s)
       IN  IF \/ ExtendedTimeouts(s, req.runtimeSpec).preStop > MaxPreStopTimeoutSec
              \/ platform /\ ~SupportedPython(runtime)
              \/ ~ValidCodeDescriptor(req, s)
              \/ ~ValidProbes(req, platform)
           THEN Answer("400")
           ELSE pc' = "decided" /\ spec' = s /\ UNCHANGED <<req, retried, runtime, opts, args>>
    /\ UNCHANGED <<meta, metaWrites, instVars, kill, detail, upload>>

\* The third read is for the image only.
Prepare ==
    /\ pc = "decided"
    /\ IF ~ValidRootfsImage(req, LoadFuncSpec) \/ ~ValidMounts(req) THEN Answer("400")
       ELSE pc' = "prepared" /\ opts' = Ptr(DefaultOptions(req)) /\ UNCHANGED <<req, retried, runtime, spec, args>>
    /\ UNCHANGED <<meta, metaWrites, instVars, kill, detail, upload>>

\* The fourth read fills the options.
BuildOptions ==
    /\ pc = "prepared"
    /\ LET filled == CASE Inline(req) -> ApplyInlineMeta(opts[1], req.runtimeSpec[1])
                       [] ~Inline(req) /\ LoadFuncSpec # Nil -> ApplyFuncMeta(opts[1], LoadFuncSpec[1])
                       [] OTHER -> opts[1]
           coded == IF PlatformExecutor(req, spec) THEN ApplyExecutor(filled, req) ELSE CodePaths(filled, spec)
           o == CreateOpts(coded, req, runtime, spec)
       IN  opts' = Ptr(o) /\ args' = Ptr(CreateArgs(req, runtime, spec, o))
    /\ pc' = "sent"
    /\ UNCHANGED <<req, retried, runtime, spec, meta, metaWrites, instVars, kill, detail, upload>>

\* The proxy creates the instance, finds that it exists, or fails; the
\* handler answers an instance that exists as if it had created it.
CreateResult ==
    /\ pc = "sent"
    /\ \/ /\ inst.state = "none"
          /\ inst' = [state |-> "running", opts |-> opts]
          /\ pc' \in {"200", "500"}
       \/ inst.state \in {"running", "fatal", "paused"} /\ pc' = "200" /\ UNCHANGED inst
       \/ pc' = "500" /\ UNCHANGED inst
    /\ UNCHANGED <<req, retried, runtime, spec, opts, args, meta, metaWrites, im, summary, kill, detail, upload>>

\* The caller sends the request once more; the identity is the same.
Retry ==
    /\ pc = "500" /\ ~retried
    /\ retried' = TRUE /\ pc' = "received" /\ runtime' = "" /\ spec' = Nil /\ opts' = Nil /\ args' = Nil
    /\ UNCHANGED <<req, meta, metaWrites, instVars, kill, detail, upload>>

------------------------------------------------------------------------------
\* External: the metadata watch, the instance and its two watches

UpdateMeta ==
    /\ metaWrites < MaxMeta /\ ~Inline(req) /\ pc \in {"received", "resolved", "decided", "prepared"}
    /\ \E s \in FuncSpecs : meta' = Ptr(s) /\ meta' # meta
    /\ metaWrites' = metaWrites + 1
    /\ UNCHANGED <<createVars, instVars, kill, detail, upload>>

DeleteMeta ==
    /\ metaWrites < MaxMeta /\ meta # Nil /\ pc \in {"received", "resolved", "decided", "prepared"}
    /\ meta' = Nil /\ metaWrites' = metaWrites + 1
    /\ UNCHANGED <<createVars, instVars, kill, detail, upload>>

InstanceFails ==
    /\ inst.state = "running" /\ inst' = [inst EXCEPT !.state = "fatal"]
    /\ UNCHANGED <<meta, metaWrites, createVars, im, summary, kill, detail, upload>>

InstanceExits ==
    /\ inst.state = "fatal" /\ inst' = [inst EXCEPT !.state = "gone"]
    /\ UNCHANGED <<meta, metaWrites, createVars, im, summary, kill, detail, upload>>

InstancePauses ==
    /\ inst.state = "running" /\ upload.pc # "none" /\ inst' = [inst EXCEPT !.state = "paused"]
    /\ UNCHANGED <<meta, metaWrites, createVars, im, summary, kill, detail, upload>>

WatchInstance ==
    /\ im' = (inst.state = "running") /\ im' # im
    /\ UNCHANGED <<meta, metaWrites, createVars, inst, summary, kill, detail, upload>>

\* The summary of a failed instance outlives its key.
WatchSummary ==
    /\ \/ inst.state \in {"running", "fatal", "paused"} /\ summary' = Ptr(inst)
       \/ /\ inst.state = "gone" /\ \A i \in DOMAIN summary : summary[i].state # "fatal"
          /\ summary' = Nil
    /\ summary' # summary
    /\ UNCHANGED <<meta, metaWrites, createVars, inst, im, kill, detail, upload>>

------------------------------------------------------------------------------
\* DELETE and GET /api/agent/:instanceId

DeleteHandler ==
    /\ kill = "idle" /\ (im \/ summary # Nil)
    /\ kill' = "sent"
    /\ UNCHANGED <<meta, metaWrites, createVars, instVars, detail, upload>>

\* killAgentInstanceInBackground: whatever the error, a summary that is left
\* is taken for a residue and dropped.
KillInBackground ==
    /\ kill = "sent"
    /\ \/ /\ inst.state # "none"
          /\ inst' = [inst EXCEPT !.state = "gone"]
          /\ kill' = "done" /\ UNCHANGED summary
       \/ inst' = inst /\ kill' = "failed" /\ summary' = Nil
    /\ UNCHANGED <<meta, metaWrites, createVars, im, detail, upload>>

LowerLabel(p) == IF p.port = 1 THEN "tcp:1" ELSE "tcp:2"

\* parseRootfs and its siblings read the createOptions back.
Detail(o) ==
    [rootfs |-> o.rootfs, user |-> o.user, workspace |-> o.workspace,
     ports |-> [i \in DOMAIN o.ports |-> LowerLabel(o.ports[i])], env |-> o.env]

GetHandler ==
    /\ detail' = IF summary = Nil THEN <<404>> ELSE <<200, Detail(summary[1].opts[1])>>
    /\ detail' # detail
    /\ UNCHANGED <<meta, metaWrites, createVars, instVars, kill, upload>>

------------------------------------------------------------------------------
\* The other requests about an instance: one of them is made. An upload is a
\* multipart form, a sequence of parts each with its size, in units of the
\* reader's buffer; the others are a single part, whose value is the path and
\* whose size is max_depth.

FormSize(f) == FoldLeft(LAMBDA n, p : n + p.size, 0, f)

NewUpload(form, declared) ==
    [form |-> form, declared |-> declared, part |-> 1, path |-> "", body |-> 0, count |-> 0,
     pc |-> IF form = <<>> THEN "none" ELSE "start", stored |-> 0]

Idle == UNCHANGED <<meta, metaWrites, createVars, instVars, kill, detail>>
Reply(code) == upload' = [upload EXCEPT !.pc = code]

Kind == IF upload.form[1].name \in {"list", "mkdir", "exec", "download", "invoke"}
        THEN upload.form[1].name ELSE "upload"

\* waitForAgentInstanceExist: a paused instance is not waited for. Upload and
\* download tell it from a missing one.
Paused == \E i \in DOMAIN summary : summary[i].state = "paused"
InstanceError == IF Paused /\ Kind \in {"upload", "download"} THEN "409" ELSE "404"

\* The declared length is checked before anything is read; then the instance
\* is waited for.
FileUploadHandler ==
    /\ upload.pc = "start" /\ Kind = "upload"
    /\ CASE upload.declared /\ FormSize(upload.form) > MaxFile + Overhead -> Reply("413")
         [] OTHER -> IF im /\ ~Paused THEN Reply("parts") ELSE Reply(InstanceError)
    /\ Idle

\* FileListHandler, FileMkdirHandler, FileDownloadHandler: the path first.
PathGiven == Trimmed(upload.form[1].value) # ""

\* forwardAgentExecutorHTTP: the tunnel may not open or may break; the
\* executor's own errors keep their status.
Forward == Reply("200") \/ Reply("executor error") \/ Reply("500")

FilePathHandlers ==
    /\ upload.pc = "start" /\ Kind \in {"list", "mkdir", "download"}
    /\ CASE ~PathGiven -> Reply("400")
         [] PathGiven /\ (~im \/ Paused) -> Reply(InstanceError)
         [] PathGiven /\ im /\ ~Paused /\ Kind = "list" /\ upload.form[1].size < 0 -> Reply("400")
         [] OTHER -> Forward
    /\ Idle

ExecHandler ==
    /\ upload.pc = "start" /\ Kind = "exec"
    /\ IF im /\ ~Paused THEN Forward ELSE Reply(InstanceError)
    /\ Idle

\* parseAgentInvokeResponse: a code, no result, or an inner code is an error.
InvokeResponses == [code : {0, 1}, objects : {0, 1}, innerCode : {"", "0", "1"}]
InvokeAnswer(n) ==
    IF n.code # 0 \/ n.objects = 0 \/ n.innerCode \notin {"", "0"} THEN "500" ELSE "200"

\* InvokeHandler goes by the summary, whatever its state.
InvokeHandler ==
    /\ upload.pc = "start" /\ Kind = "invoke"
    /\ IF summary = Nil THEN Reply("404")
       ELSE Reply("500") \/ \E n \in InvokeResponses : Reply(InvokeAnswer(n))
    /\ Idle

\* MaxBytesReader: the body ends in an error past the limit.
TooLarge(n) == upload.body + n > MaxFile + Overhead

NextPart ==
    /\ upload.pc = "parts"
    /\ IF upload.part > Len(upload.form) THEN Reply("400")
       ELSE LET p == upload.form[upload.part]
            IN  CASE p.name = "file" -> IF upload.path = "" THEN Reply("400") ELSE Reply("stream")
                  [] p.name # "file" /\ TooLarge(p.size) ->
                       Reply(IF p.name = "path" THEN "400" ELSE "413")
                  [] OTHER ->
                       upload' = [upload EXCEPT !.part = @ + 1, !.body = @ + p.size,
                                                !.path = IF p.name = "path" THEN Trimmed(p.value) ELSE @]
    /\ Idle

OnlyBodyLimited(n) == FALSE

\* countingReader: the error comes with the bytes that exceed the limit.
ReadExceeds(n) == n > MaxFile

\* One buffer of the file goes over the tunnel to the executor, which stores
\* the file under the path when the body is complete.
StreamChunk ==
    /\ upload.pc = "stream"
    /\ LET size == upload.form[upload.part].size
       IN  CASE upload.count < size /\ TooLarge(1) -> Reply("500")
             [] upload.count < size /\ ~TooLarge(1) ->
                  upload' = [upload EXCEPT !.body = @ + 1, !.count = @ + 1,
                                           !.pc = IF ReadExceeds(upload.count + 1) THEN "413" ELSE @]
             [] OTHER -> \/ upload' = [upload EXCEPT !.pc = "200", !.stored = upload.count]
                         \/ Reply("executor error")
    /\ Idle

\* The tunnel breaks while the body is written or the response is read.
TunnelBreaks ==
    /\ upload.pc = "stream" /\ Reply("500") /\ Idle

------------------------------------------------------------------------------
AgentInit ==
    /\ meta \in {Nil} \union {Ptr(s) : s \in FuncSpecs} /\ metaWrites = 0
    /\ \E s \in Scenarios : \E d \in {FALSE, s[2] # <<>>} : req = s[1] /\ upload = NewUpload(s[2], d)
    /\ pc = "received" /\ retried = FALSE /\ runtime = "" /\ spec = Nil /\ opts = Nil /\ args = Nil
    /\ Inline(req) => meta = Nil
    /\ inst = [state |-> "none", opts |-> Nil] /\ im = FALSE /\ summary = Nil
    /\ kill = "idle" /\ detail = Nil

AgentNext ==
    \/ Receive \/ Decide \/ Prepare \/ BuildOptions \/ CreateResult \/ Retry
    \/ UpdateMeta \/ DeleteMeta \/ InstanceFails \/ InstancePauses \/ InstanceExits \/ WatchInstance \/ WatchSummary
    \/ DeleteHandler \/ KillInBackground \/ GetHandler
    \/ FilePathHandlers \/ ExecHandler \/ InvokeHandler \/ FileUploadHandler \/ NextPart \/ StreamChunk \/ TunnelBreaks

AgentSpec == AgentInit /\ [][AgentNext]_agentVars

------------------------------------------------------------------------------
\* Properties

\* The code entries that travel as CodePaths are those of the function spec in
\* the create arguments, and the resources and the shutdown window fit it,
\* however often the metadata changed while the request was handled: both
\* sides are taken from one of the handler's reads.
WireConsistent ==
    pc = "sent" =>
        LET o == opts[1] a == args[1]
        IN  /\ [i \in DOMAIN o.codePaths |-> Trimmed(o.codePaths[i])]
                 = [i \in 1..Len(Paths(a.init, a.call, a.preStop)) |->
                      Trimmed(Paths(a.init, a.call, a.preStop)[i])]
            /\ o.resources = a.resources
            /\ o.grace >= a.preStopTimeout + ShutdownReserveSeconds

\* What GET answers of an instance is what its creator asked for: every
\* variable of env_vars with the caller's value whatever the function's own
\* environment says, the workspace, and all mounts in order.
GetEchoesCreate ==
    Len(detail) = 2 =>
        LET d == detail[2]
            asked == RootfsMounts(req) \o SSHMount
        IN  /\ \A k \in DOMAIN req.env : d.env[k] = req.env[k]
            /\ d.workspace = req.workspace
            /\ [i \in DOMAIN d.rootfs.mounts |-> <<d.rootfs.mounts[i].source, d.rootfs.mounts[i].readonly>>]
                 = [i \in DOMAIN asked |-> <<ReplaceUser(asked[i].source, d.user), asked[i].readonly>>]

\* An upload that is answered with success stored the whole file at the path
\* of the form, and never more than the cap, with or without a declared
\* length and whatever parts come first.
UploadComplete ==
    (upload.pc = "200" /\ Kind = "upload") =>
        /\ upload.stored = upload.form[upload.part].size /\ upload.stored <= MaxFile
        /\ upload.path # ""

\* GET answers 404 for an instance once it is gone (DeleteHandler).
NotFoundMeansGone ==
    (kill # "idle" /\ detail = <<404>>) => inst.state # "running"
==============================================================================

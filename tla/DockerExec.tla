----------------------------- MODULE DockerExec -----------------------------
(***************************************************************************)
(* The docker executor of one step attempt, internal/digraph/executor/     *)
(* docker.go: Run (lines 84-155) with execInContainer (157-224) and        *)
(* attachAndWait (226-259), racing Kill (77-82) called by the scheduler   *)
(* while the step is Running.                                              *)
(*                                                                         *)
(* Run makes a context and stores its cancel function in e.cancel (85-87); *)
(* once the container is created it replaces e.cancel by one that first   *)
(* removes the container (143-146).  Kill calls whatever e.cancel holds.   *)
(* The field is written by Run and read by Kill without synchronisation;   *)
(* with KillReadsStale, Kill's read of it and its call are two steps, so  *)
(* Kill may call a value that Run has since replaced.                      *)
(*                                                                         *)
(* A call to the docker daemon made with a cancelled context fails; one    *)
(* made before the cancellation completes (a request in flight is not     *)
(* modelled).  The step's process is the container Run creates or, when   *)
(* containerName is set, the process Run execs in that container.  It may *)
(* exit by itself, with exit status zero or not, or run on forever.        *)
(***************************************************************************)
EXTENDS Naturals

CONSTANTS
  AutoRemove,        \* e.autoRemove
  Pull,              \* e.pull
  ExecMode,          \* e.containerName is set: exec in a running container
  KillReadsStale,    \* Kill's read of e.cancel and its call are two steps
  MaxKills,          \* the scheduler's Kill calls: SIGTERM, SIGKILL, a second Cancel
  GraceOutlastsSetup \* a later Kill comes after Run has set e.cancel

ASSUME DockerAssumption ==
  /\ AutoRemove \in BOOLEAN
  /\ Pull \in BOOLEAN
  /\ ExecMode \in BOOLEAN
  /\ KillReadsStale \in BOOLEAN
  /\ MaxKills \in Nat \ {0}
  /\ GraceOutlastsSetup \in BOOLEAN

\* A step's executor config as newDocker reads it: each key absent, or the
\* kind of value it holds ("bad" does not decode into its Go struct; a
\* host config may set AutoRemove; "other" is a value of another type).
DockerConfig ==
  [container: {"absent", "ok", "bad"},
   host: {"absent", "ok", "autoRemove", "bad"},
   exec: {"absent", "ok", "bad"},
   autoRemove: {"absent", "true", "false", "other"},
   pull: {"absent", "true", "false", "other"},
   containerName: {"absent", "str", "other"},
   image: {"absent", "str", "other"}]

\* newDocker, lines 261-344: the three structs are decoded (an error ends
\* it); a host AutoRemove is cleared and becomes the executor's own
\* autoRemove, which a bool autoRemove key overrides; pull is true unless a
\* bool pull key says otherwise; a string containerName selects exec mode,
\* else a string image is required.  A value of another type is ignored.
NewDocker(c) ==
  LET decoded == \A k \in {"container", "host", "exec"} : c[k] # "bad"
      isBool(v) == v \in {"true", "false"}
  IN  [ok         |-> decoded /\ (c.containerName = "str" \/ c.image = "str"),
       autoRemove |-> IF isBool(c.autoRemove) THEN c.autoRemove = "true"
                      ELSE c.host = "autoRemove",
       pull       |-> ~isBool(c.pull) \/ c.pull = "true",
       execMode   |-> c.containerName = "str"]

\* Run's program counter: not yet called, the lines of Run and of
\* execInContainer, the deferred removeContainer, returned.
RunPC == {"idle", "client", "pull", "create", "setCancel", "start", "wait",
          "remove", "inspect", "execCreate", "execAttach", "execPoll", "done"}

\* e.cancel: nil, the context's cancel function, or the one of lines
\* 143-146 that removes the container first.
CancelFn == {"nil", "cancelOnly", "removeAndCancel"}

\* The step's process: not created, created, running, exited by itself,
\* removed (and so killed) by ContainerRemove with Force.
ProcState == {"none", "created", "running", "exited", "removed"}

VARIABLES
  rpc,        \* Run's program counter
  cancelFn,   \* e.cancel
  ctxDone,    \* Run's context has been cancelled
  proc,       \* the step's process
  exitZero,   \* the process exited with status 0
  removing,   \* removeContainer's removing flag
  runErr,     \* Run's result: "none" until it returns, then "nil" or "err"
  kpc,        \* the Kill call in progress: "idle", "read" (with kread),
              \* or "cancel" after removeContainer
  kread,      \* the value of e.cancel Kill read
  kills       \* the Kill calls made

vars == <<rpc, cancelFn, ctxDone, proc, exitZero, removing, runErr, kpc,
          kread, kills>>

-----------------------------------------------------------------------------

\* Run returns with result res.
Return(res) ==
  /\ rpc' = "done"
  /\ runErr' = res

\* removeContainer, lines 128-140: if autoRemove is set and no removal has
\* begun, ContainerRemove with Force, using Run's context: it fails once
\* the context is cancelled, and the container stays.
RemoveContainer ==
  IF AutoRemove /\ ~removing
  THEN /\ removing' = TRUE
       /\ proc' = IF ~ctxDone THEN "removed" ELSE proc
  ELSE UNCHANGED <<removing, proc>>

\* Lines 85-87: the context is made and its cancel function stored.
RunStart ==
  /\ rpc = "idle"
  /\ cancelFn' = "cancelOnly"
  /\ rpc' = "client"
  /\ UNCHANGED <<ctxDone, proc, exitZero, removing, runErr, kpc, kread,
                 kills>>

\* Lines 89-100: the client is made (it may fail); with containerName set
\* Run goes to execInContainer, else to the pull or the creation.
RunClient ==
  /\ rpc = "client"
  /\ \/ Return("err")
     \/ /\ rpc' = IF ExecMode THEN "inspect"
                  ELSE IF Pull THEN "pull"
                  ELSE "create"
        /\ UNCHANGED runErr
  /\ UNCHANGED <<cancelFn, ctxDone, proc, exitZero, removing, kpc, kread,
                 kills>>

\* Lines 103-112: ImagePull with the context; it may fail.
RunPull ==
  /\ rpc = "pull"
  /\ IF ctxDone THEN Return("err")
     ELSE \/ Return("err")
          \/ /\ rpc' = "create"
             /\ UNCHANGED runErr
  /\ UNCHANGED <<cancelFn, ctxDone, proc, exitZero, removing, kpc, kread,
                 kills>>

\* Lines 114-125: ContainerCreate with the context; it may fail.
RunCreate ==
  /\ rpc = "create"
  /\ \/ /\ Return("err")
        /\ UNCHANGED proc
     \/ /\ ~ctxDone
        /\ proc' = "created"
        /\ rpc' = "setCancel"
        /\ UNCHANGED runErr
  /\ UNCHANGED <<cancelFn, ctxDone, exitZero, removing, kpc, kread, kills>>

\* Mutant of RunSetCancel: e.cancel keeps the bare cancel function.
RunSetCancelMissing ==
  /\ rpc = "setCancel"
  /\ rpc' = "start"
  /\ UNCHANGED <<cancelFn, ctxDone, proc, exitZero, removing, runErr, kpc,
                 kread, kills>>

\* Lines 127-146: removeContainer is deferred, and e.cancel replaced.
RunSetCancel ==
  /\ rpc = "setCancel"
  /\ cancelFn' = "removeAndCancel"
  /\ rpc' = "start"
  /\ UNCHANGED <<ctxDone, proc, exitZero, removing, runErr, kpc, kread,
                 kills>>

\* Lines 148-152: ContainerStart with the context; it may fail, and fails
\* on a container Kill has removed; on error the deferred removeContainer
\* runs.
RunContainerStart ==
  /\ rpc = "start"
  /\ \/ /\ runErr' = "err"
        /\ rpc' = "remove"
        /\ UNCHANGED proc
     \/ /\ ~ctxDone /\ proc = "created"
        /\ proc' = "running"
        /\ rpc' = "wait"
        /\ UNCHANGED runErr
  /\ UNCHANGED <<cancelFn, ctxDone, exitZero, removing, kpc, kread, kills>>

\* Line 154, attachAndWait (226-259): ContainerWait with the context
\* returns once the container is not running (the exit status decides the
\* result) or the context is cancelled (an error).
RunWait ==
  /\ rpc = "wait"
  /\ ctxDone \/ proc # "running"
  /\ runErr' = IF ~ctxDone /\ proc = "exited" /\ exitZero THEN "nil"
               ELSE "err"
  /\ rpc' = "remove"
  /\ UNCHANGED <<cancelFn, ctxDone, proc, exitZero, removing, kpc, kread,
                 kills>>

\* attachAndWait, lines 227-236: ContainerLogs fails, and Run returns its
\* error while the container runs.
RunLogsFail ==
  /\ rpc = "wait"
  /\ runErr' = "err"
  /\ rpc' = "remove"
  /\ UNCHANGED <<cancelFn, ctxDone, proc, exitZero, removing, kpc, kread,
                 kills>>

\* Line 142: the deferred removeContainer, then Run returns.
RunRemove ==
  /\ rpc = "remove"
  /\ RemoveContainer
  /\ rpc' = "done"
  /\ UNCHANGED <<cancelFn, ctxDone, exitZero, runErr, kpc, kread, kills>>

\* execInContainer, lines 159-166: ContainerInspect with the context; the
\* container must be running.
ExecInspect ==
  /\ rpc = "inspect"
  /\ IF ctxDone THEN Return("err")
     ELSE \/ Return("err")
          \/ /\ rpc' = "execCreate"
             /\ UNCHANGED runErr
  /\ UNCHANGED <<cancelFn, ctxDone, proc, exitZero, removing, kpc, kread,
                 kills>>

\* Lines 168-185: ContainerExecCreate with the context.
ExecCreate ==
  /\ rpc = "execCreate"
  /\ IF ctxDone THEN Return("err")
     ELSE /\ rpc' = "execAttach"
          /\ UNCHANGED runErr
  /\ UNCHANGED <<cancelFn, ctxDone, proc, exitZero, removing, kpc, kread,
                 kills>>

\* Lines 187-199: ContainerExecAttach with the context starts the process.
ExecAttach ==
  /\ rpc = "execAttach"
  /\ IF ctxDone
     THEN /\ Return("err")
          /\ UNCHANGED proc
     ELSE /\ proc' = "running"
          /\ rpc' = "execPoll"
          /\ UNCHANGED runErr
  /\ UNCHANGED <<cancelFn, ctxDone, exitZero, removing, kpc, kread, kills>>

\* Mutant of ExecPoll: the loop does not look at the context.
ExecPollNoCtx ==
  /\ rpc = "execPoll"
  /\ proc # "running"
  /\ Return(IF ~ctxDone /\ exitZero THEN "nil" ELSE "err")
  /\ UNCHANGED <<cancelFn, ctxDone, proc, exitZero, removing, kpc, kread,
                 kills>>

\* Lines 201-223: ContainerExecInspect in a loop: a process that is no
\* longer running ends the loop with its exit code; a cancelled context,
\* seen by the inspection or by the select, returns ctx.Err().
ExecPoll ==
  /\ rpc = "execPoll"
  /\ ctxDone \/ proc # "running"
  /\ Return(IF ~ctxDone /\ exitZero THEN "nil" ELSE "err")
  /\ UNCHANGED <<cancelFn, ctxDone, proc, exitZero, removing, kpc, kread,
                 kills>>

-----------------------------------------------------------------------------
(* Kill, lines 77-82.                                                      *)

\* Calling the value read from e.cancel: the bare cancel function cancels
\* the context; the one of lines 143-146 runs removeContainer, a blocking
\* call, and cancels the context in a second step (KillCancel).
CallCancel(fn) ==
  CASE fn = "nil"        -> /\ kpc' = "idle"
                            /\ UNCHANGED <<ctxDone, removing, proc>>
    [] fn = "cancelOnly" -> /\ ctxDone' = TRUE
                            /\ kpc' = "idle"
                            /\ UNCHANGED <<removing, proc>>
    [] OTHER             -> /\ RemoveContainer
                            /\ kpc' = "cancel"
                            /\ UNCHANGED ctxDone

\* The scheduler signals the Running step: the first time at once, later
\* ones after the grace period.
MayKill ==
  /\ kpc = "idle"
  /\ kills < MaxKills
  /\ rpc # "done"
  /\ kills > 0 /\ GraceOutlastsSetup => rpc # "idle"

\* Mutant of Kill: e.cancel is called only once removeContainer is set.
KillOnlyRemover ==
  /\ MayKill
  /\ ~KillReadsStale
  /\ IF cancelFn = "removeAndCancel" THEN CallCancel(cancelFn)
     ELSE UNCHANGED <<ctxDone, removing, proc, kpc>>
  /\ kills' = kills + 1
  /\ UNCHANGED <<rpc, cancelFn, exitZero, runErr, kread>>

\* Kill with no window between reading e.cancel and calling it.
Kill ==
  /\ MayKill
  /\ ~KillReadsStale
  /\ CallCancel(cancelFn)
  /\ kills' = kills + 1
  /\ UNCHANGED <<rpc, cancelFn, exitZero, runErr, kread>>

\* Line 78: Kill reads e.cancel ...
KillRead ==
  /\ MayKill
  /\ KillReadsStale
  /\ kread' = cancelFn
  /\ kpc' = "read"
  /\ kills' = kills + 1
  /\ UNCHANGED <<rpc, cancelFn, ctxDone, proc, exitZero, removing, runErr>>

\* ... and line 79 calls what it read.
KillCall ==
  /\ kpc = "read"
  /\ CallCancel(kread)
  /\ UNCHANGED <<rpc, cancelFn, exitZero, runErr, kread, kills>>

\* Line 145: after removeContainer, the context is cancelled.
KillCancel ==
  /\ kpc = "cancel"
  /\ ctxDone' = TRUE
  /\ kpc' = "idle"
  /\ UNCHANGED <<rpc, cancelFn, proc, exitZero, removing, runErr, kread,
                 kills>>

-----------------------------------------------------------------------------
(* The step's process.                                                     *)

\* The process exits by itself, with status zero or not.
ProcExit ==
  /\ proc = "running"
  /\ proc' = "exited"
  /\ exitZero' \in BOOLEAN
  /\ UNCHANGED <<rpc, cancelFn, ctxDone, removing, runErr, kpc, kread,
                 kills>>

Init ==
  /\ rpc = "idle"
  /\ cancelFn = "nil"
  /\ ctxDone = FALSE
  /\ proc = "none"
  /\ exitZero = FALSE
  /\ removing = FALSE
  /\ runErr = "none"
  /\ kpc = "idle"
  /\ kread = "nil"
  /\ kills = 0

RunStep ==
  \/ RunStart \/ RunClient \/ RunPull \/ RunCreate \/ RunSetCancel
  \/ RunContainerStart \/ RunWait \/ RunRemove
  \/ ExecInspect \/ ExecCreate \/ ExecAttach \/ ExecPoll

KillStep == Kill \/ KillRead \/ KillCall \/ KillCancel

\* Run has returned and no Kill is in progress.
Quiescent ==
  /\ rpc = "done" /\ kpc = "idle"
  /\ UNCHANGED vars

Next == RunStep \/ RunLogsFail \/ KillStep \/ ProcExit \/ Quiescent

\* Go runs Run's goroutine; the scheduler keeps escalating while the step
\* runs.  The process need not exit by itself, nor a docker call fail.
Fairness == WF_vars(RunStep) /\ WF_vars(KillStep)

Spec == Init /\ [][Next]_vars

FairSpec == Spec /\ Fairness

-----------------------------------------------------------------------------
(* Properties.                                                             *)

TypeOK ==
  /\ rpc \in RunPC
  /\ cancelFn \in CancelFn
  /\ ctxDone \in BOOLEAN
  /\ proc \in ProcState
  /\ exitZero \in BOOLEAN
  /\ removing \in BOOLEAN
  /\ runErr \in {"none", "nil", "err"}
  /\ kpc \in {"idle", "read", "cancel"}
  /\ kread \in CancelFn
  /\ kills \in 0..MaxKills

\* Section 4.1: Kill causes Run to return: once the scheduler has called
\* Kill, and goes on escalating while the step runs, Run returns even if
\* the step's process would run forever.
KillEndsRun == (kills > 0) ~> (rpc = "done")

\* Section 4.1 and the Non-goals (signal delivery to the running process):
\* when Run returns after a Kill cancelled its context, the step's process
\* is no longer running.
NoOrphanProcess ==
  (rpc = "done" /\ ctxDone /\ kpc = "idle") => proc # "running"

=============================================================================

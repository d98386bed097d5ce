# A TLA+ model of dagu's scheduler, IPC socket, history store and executors

This directory holds TLA+ modules for the concurrent parts of the dagu repository in `../src`:
- TLC configurations that model-check them on small instances;
- proofs, checked by TLAPS, of the main safety properties for every value of the constants.

`PROJECT.json` is the machine-readable index. It lists:
- the components;
- the runs and what each one shows;
- the mutants that show each property can fail;
- the map from every definition to the source lines it models;
- the findings, the hazards and the theorems.

## 1. The system and how its parts interact

One run of a DAG involves these parts:

- **The agent** runs a DAG through the **scheduler** (`Scheduler.Schedule` over an `ExecutionGraph` of `Node`s). The spec covers it in sections 4.2–4.4. Its Go source is not in `src/`. The scheduler tests are, in `internal/digraph/executor/docker.go` lines 374–832.
- **Executors.** Each node runs its step through an executor:
  - the **docker executor** (`docker.go` 49–348);
  - the **ssh executor** (`unnamed/part_004` 256–469).
- **Preconditions.** The scheduler evaluates a node's preconditions with `EvalConditions` (`part_004` 142–255). It kills a running executor with `Kill` on cancel, signal or timeout.
- **The IPC socket.** While the agent runs, it serves its status on a unix socket through **`sock.Server`** (`internal/sock/server.go`). The engine (`unnamed/part_001`) asks this socket for the live status. `UpdateStatus` asks it too, before it edits a finished run.
- **The history store.** The agent records every status change in the **history store** (`internal/persistence/jsondb/jsondb.go`): `Open`, `Write` per change, then `Close`, which compacts the file. The engine and the web UI read it back:
  - `FindByRequestID`, for a run's status;
  - `latestToday`/`filterLatest`, for the DAG's latest status;
  - `Update`, for a user's edit of a past run;
  - `ReadStatusRecent`, for the list of recent runs;
  - `RemoveAll`, when the DAG is deleted.
- **The email reporter** (`internal/reporter/reporter.go`). The agent calls `ReportStep` as each step finishes and `SendMail` once Schedule has returned.
- **Parts without concurrency or persistent state:**
  - the DAG loader (`part_003`);
  - the fx wiring (`part_002`);
  - the generated REST code;
  - the UI (`menu.tsx`);
  - the docs.

## 2. Modules

| Module | Models | State | Actions |
|---|---|---|---|
| `Scheduler` | one `Schedule` call: selection loop, node workers, retry/repeat, Cancel, Signal, timeout, handlers | `status`, `pc` (each node's worker), `retryCount`, `doneCount`, `canceled`, `timedOut`, `lastError`, `phase` (graph/handlers/returned), `handlerQueue`, `events` | one per branch of a node's life (`Launch`, `ExecSucceed`, `ExecError`, `ExecRetry`, `RetryWake`, `RepeatAgain`, `UpstreamFailed`, `PreconditionNotMet`, …), `Cancel`, `Signal`, `Timeout`, `StartHandlers`, `HandlerSucceed/Fail`, `Finish` |
| `SockServer` | `Serve`, `Shutdown`, connection goroutines, clients, the owner | `spc` (Serve's line), `sockFile`, `lsock`, `listenerSet`, `quit`, `notified`, `conn[c]` | one per line group of Serve (`Remove` 64, `Listen`/`Assign` 66, `ListenFail` 67–72, `Notify` 73–75, `AcceptConn`/`AcceptClosed` 83, `Check` 84–97, `DeferShutdown` 79, `DeferRemove` 80), `Handle` 88–96, `Connect`, `OwnerShutdown` |
| `HistoryStore` | agent `Open/Write/Close/Compact`, engine `UpdateStatus` + store `Update`, reads | `present`, `lines[f]`, `tail[f]`, `gen[f]`, the agent's `apc[r]`, the updater's `upc/ureq/ufile/uinode` | `Open`, `Write`, `WriteFinal`, `Close`, `CompactOpen`, `CompactWrite`, `CompactWriteFail`, `CompactRemove`, `Crash`, `TornWrite`, `UpdateStatus`, `UpdateRefused`, `UpdateFind`, `UpdateOpen`, `UpdateWrite` |
| `RunHistory` | the abstract history of a run as a lookup by request ID shows it (what jsondb's Write and Update promise) | `shown[r]`: `none`, `running`, `final` or `edited` | `Progress` and `Finish` (a status line written by the agent), `Edit` (an Update of a run that has a status) |
| `HistoryReader` | HistoryStore, plus reads that glob and then parse (`FindByRequestID`, `ReadStatusRecent`, `ReadStatusToday`) and DeleteDAG's `RemoveAll` | the store's state, plus the read's `qpc/qop/qfiles` (the files globbed, not yet parsed), `qwant` (the runs with a status when the read began), `qgot`, and the delete's `dpc/dfiles/dstamp` | `FindGlob`, `RecentGlob`, `TodayGlob`, `FindParse`, `RecentParse`, `EmptyRead`, `ReadReturn`, `DeleteGlob`, `DeleteRemove` |
| `Reporter` | `ReportStep` and `SendMail`, on the scheduler's state | no state of its own: the mail is a function of the scheduler's status and `lastError` | none (the agent calls it once Schedule returns) |
| `SSHExec` | the ssh executor's `Run` and `Kill` (part_004 412–441) | `rpc`, `conn`, `session`, `eSession` (what `e.session` holds), `remote`, `runErr`, `kills` | `RunStart`, `RunDial`, `RunSession`, `RunReturn`, `RemoteExit`, `Kill` |
| `DockerExec` | `Run`, `execInContainer`, `attachAndWait`, `removeContainer`, `Kill`, and `newDocker`'s config decoding (`NewDocker`) | `rpc` (Run's line), `cancelFn` (what `e.cancel` holds), `ctxDone`, `proc`, `removing`, Kill's `kpc/kread`, `kills` | one per daemon call of Run (`RunClient`, `RunPull`, `RunCreate`, `RunSetCancel`, `RunContainerStart`, `RunWait`, `RunLogsFail`, `RunRemove`, `ExecInspect/Create/Attach/Poll`), `Kill` (or `KillRead`+`KillCall`), `KillCancel`, `ProcExit` |

The scheduler is modelled from the specification, and from what the scheduler tests assert where the two differ. The map points each definition at the subtest of `TestScheduler` (docker.go 377–808) that pins its behaviour down: `FailsDownstream` at SequentialStepsWithFailure, `ExecRetry` at RetryPolicyFail, `RepeatEnd` at StopRepetitiveTaskGracefully, and so on. `PreconditionNotMet` models `EvalConditions`. The definitions no test reaches (`Finished`, `WorkerStep`, …) stay `spec_modelled`.

Composition keeps the proved modules untouched. `Reporter` EXTENDS `Scheduler` with constants and state functions only. `HistoryReader` EXTENDS `HistoryStore` and interleaves its own steps with the store's `Next` in `ReaderSpec`.

**Abstraction of data:**
- A command's result is a nondeterministic outcome.
- A status line is one of `running`, `final`, `edited` or `Garbage`, the last being a line that does not parse.
- A file is a pair ⟨run, "dat" | "c"⟩, whose names sort in the order the code relies on.
- A daemon call is one step that succeeds or fails. It fails when the context has been cancelled.

**Which actions are atomic:** a step is atomic where the Go code holds a lock or makes one system call. It is split where the code reads shared state in one place and uses it later:
- `Assign` is separate from `Listen`;
- the updater's find, open and write are separate steps;
- with `KillReadsStale`, Kill's read and call of `e.cancel` are separate steps.

The `MC_*` modules supply the small graphs, client sets and timestamp functions that the `.cfg` files use.

## 3. Runs

**Scheduler** (`MC_Scheduler`, FairSpec). The graph is s1→s3, s2→s3, s3→s4, with:
- ContinueOn on s1 and s2;
- preconditions on s2 and s3;
- one retry of s1;
- MaxActiveRuns = 1;
- every handler configured;
- a timeout.

- a repeating s3 (at most MaxRuns = 2 executions);
- mail on failure and on success, with s1 mailing its own errors.

This graph reaches the interesting cases: a failure that is continued, a skip that is continued, a retry, a repetition stopped by Signal or Cancel, the cap blocking a ready node, and each handler. A cap of 2 hides no case the cap of 1 shows, and a mutant that admits one run too many is only caught with the cap at 1.

| run | checks | result |
|---|---|---|
| sched_graph | TypeOK, DependencyOrder, ConcurrencyCap, HandlersRunLast, HandlerMatchesOutcome, FailureMailed, TerminalIsFinal, Termination, StopTerminates | pass |

`FailureMailed` relates the reporter to the scheduler. A run in which a step failed or the timeout fired gets a failure mail, never a success mail, even when a later Cancel or Signal makes the status Cancel. It holds because SendMail tests Schedule's error as well as the status; the mutant that tests only the status breaks it. `Termination` allows a repeating step that is never stopped to keep the run alive. `StopTerminates` says that once it is stopped, Schedule returns.
| sched_cancel_pending | AllTerminalAtReturn | violation: after Cancel, unstarted nodes stay None. The CancelSchedule test (docker.go:494) expects this, while spec §8 says every node is terminal. |

**SockServer** (`MC_SockServer`, two clients, FairSpec).

| run | checks | result |
|---|---|---|
| sock_wait | SocketGoneAfterShutdown, ServeReturns | pass, when the owner waits on the listen channel |
| sock_nowait | ServeReturns | violation (deadlock not checked, since the stop is the bug): the owner's Shutdown comes first, sets quit and finds no listener to close. Serve then removes the stale file, listens, assigns `srv.listener`, notifies and blocks in Accept for good, since it checks quit only after Accept returns (line 84). The tests use a 50 ms sleep rather than the channel. A lock around line 66 would not help: Serve would also have to check quit before its first Accept. |

The trace of `sock_nowait` (TLC with `-difftrace`; clients may dial first and be refused):
1. `OwnerShutdown`: `opc = "done"`, `quit = TRUE`, with `listenerSet = FALSE`, so no listener is closed.
2. `Remove`, `Listen` (`sockFile = TRUE`, `lsock = "open"`), `Assign` (`listenerSet = TRUE`), `Notify`: Serve reaches Accept with quit already set.
3. Stuttering: Serve stays in Accept (`spc = "accept"`) and never returns, and the socket file stays.

**HistoryStore** (`MC_HistoryStore`; two runs, at most two agent writes each, Spec with no fairness). Two runs is the least that gives a "newest run" and a second run's files beside the first's. Two writes give a running and a final line.

| run | Failures / Torn / edits | checks | result |
|---|---|---|---|
| hist_seq | no / no / ≤2, only after exit | FindReturnsLastWrite, LatestStatusCurrent | pass |
| hist_fail | yes / yes / none | FindReturnsLastWrite | pass |
| hist_race | no / no / 1, any time the run is not live | FindReturnsLastWrite | violation: the edit races Close/Compact and is lost |

The trace of `hist_race`, one run, each step with the variables it changes:
1. `Open`: the original `<<1,"dat">>` exists. `Write`: it holds `<<"running">>`.
2. `Close`: Compact has parsed it (`cval = "running"`). `CompactOpen`: the `_c` file exists, empty.
3. `UpdateStatus` (the agent has closed, so the socket no longer answers Running), then `UpdateFind`: FindByRequestID skips the empty `_c` file and returns the original.
4. `CompactWrite`: the `_c` file holds `<<"running">>`.
5. `UpdateOpen`, `UpdateWrite`: the edit is appended to the original, which holds `<<"running","edited">>`; `lastWritten = "edited"`.
6. FindByRequestID now prefers the `_c` file and shows `running`, and CompactRemove will delete the original with the edit.


**DockerExec** (`MC_DockerExec`, FairSpec). At most three Kill calls: SIGTERM, SIGKILL after MaxCleanUpTime, and a second Cancel (spec §4.1, line 138).

| run | config | checks | result |
|---|---|---|---|
| docker_create | autoRemove, pull, atomic `e.cancel` | NoOrphanProcess, KillEndsRun | pass |
| docker_exec | exec mode, stale reads | KillEndsRun | pass |
| docker_stale | stale read of `e.cancel` | NoOrphanProcess | violation: the old cancel runs after ContainerStart, and the remove then fails on the cancelled context |


A Kill before Run assigns `e.cancel` (lines 85–87) is a no-op. The scheduler's next Kill comes after the grace period, when `e.cancel` is set, so `docker_create` still shows `KillEndsRun`.

**SSHExec** (`MC_SSHExec`, FairSpec, three Kill calls).

| run | checks | result |
|---|---|---|
| ssh_lost | KillEndsRun | violation: every Kill comes while `ssh.Dial` (no timeout) or `NewSession` is in progress, so each one is a no-op. The command then runs to its end, and the remote command need not exit. Spec §4.1 says a Kill makes Run return promptly. |

**HistoryReader** (`MC_HistoryReader`; one run, one agent write, no failures, one read). One run is enough for the read to miss a run, and keeps the trace short enough to read whole. `hist_race` runs one run for the same reason; the passing runs have two.

| run | checks | result |
|---|---|---|
| hist_glob | ReadSeesHistory | violation: a read globs while a run's Close compacts. It then parses the empty `_c` file, or finds the original gone, and misses a run that has a status both before and after the read. ReadStatusToday gives the shortest trace: Open, Write, Close, CompactOpen, then the read globs, latestToday picks the empty `_c` file of the same second, and the read returns no status. The glob-then-parse code of FindByRequestID (jsondb.go:179) and ReadStatusRecent (140) has the same window. |

The trace of `hist_glob`:
1. `Open`, `Write`: the original holds `<<"running">>`.
2. `Close` (Compact has parsed `running`), `CompactOpen`: the `_c` file exists, empty, in the same second.
3. `TodayGlob`: ReadStatusToday begins (`qwant = {1}`) and latestToday takes the `_c` file, which sorts first.
4. `RecentParse`: the `_c` file holds no line, so the read returns no status (`qgot = {}`) for a run that has shown `running` throughout.

`ReadSeesHistory` excuses a run whose status is gone when the read returns. A concurrent DeleteDAG may therefore remove files during a read without violating it. `DeleteRemove` removes a globbed file only if it has not been written since the glob (`ModTime().Before(ot)`).

Together, the passing runs fire every action of their modules.

Four more violations come from changing one constant of a passing run. `PROJECT.json` lists them as hazards, each with the property that catches it:
- **`sock_wait`:** checking `ClientAnswered` shows that a connection Accept returns just as quit is set is never closed (server.go:84–85).
- **`hist_seq`:**
  - `Failures = TRUE` breaks `LatestStatusCurrent`: a killed agent leaves an empty `_c` file, which latestToday may pick.
  - `Sec <- MCSecSame` breaks it too: two runs in the same second tie in filterLatest.
- **`hist_fail`:** `MaxUpdates = 1` breaks `FindReturnsLastWrite`: an edit appended after a torn line joins it into an unparsable line.
- **`docker_create`:** `AutoRemove = FALSE` breaks `NoOrphanProcess`: Kill only cancels the context, and the container keeps running.

Each property of a passing run has a mutant in `PROJECT.json`: a plausible bug in the code, such as a dropped guard, a missing reset or a wrong order. TLC finds that mutant in violation of the property.

## 4. Fairness

- **Scheduler:** weak fairness on:
  - the selection loop and each worker;
  - the end of each execution (the executor contract that Run returns);
  - retry and repeat wake-ups;
  - the handlers and `Finish`.

  There is no fairness on Cancel, Signal or the timeout, because they come from outside.
- **SockServer:** weak fairness on Serve's goroutine, on each connection goroutine and on the owner's Shutdown. Go runs runnable goroutines, and the agent does shut down. Clients need not connect.
- **DockerExec:** weak fairness on Run's goroutine and on Kill's caller. None on the container's own exit, which may never happen, or on a log-stream failure (`RunLogsFail`).
- **SSHExec:** weak fairness on Run's goroutine and on Kill's caller, which keeps escalating while the step runs. None on the remote command's exit.

## 5. What is proved

The proofs are checked by `tlapm`, for all values of the constants allowed by the named assumptions.

**`SchedulerProofs`:**
- `TypeCorrect`: Spec ⇒ □TypeOK.
- `InvariantHolds`: Spec ⇒ □IInv.
- `DependencyOrderHolds`.
- `ConcurrencyCapHolds`.
- `TerminalFinal`: Spec ⇒ □[TerminalKept]_status.

DependencyOrder is not inductive by itself. `RetryWake` resets a node to None, and that would break a downstream's precondition unless the retried node is known to be its worker's own Running node. IInv therefore adds two conjuncts:
- `WorkerNodeLive`: a busy worker's node is Running, or is Cancel after a cancel;
- `RunningHasWorker`.

ConcurrencyCap rests on IInv as well. While the run is not cancelled, the busy workers are exactly the Running nodes (lemma `BusyIsRunning`), and `Selectable` bounds the busy workers.

**`SchedulerOutcomeProofs`** (EXTENDS `Reporter` and `SchedulerProofs`):
- `OutcomeInvariant`: Spec ⇒ □OInv.
- `HandlersRunLastHolds`: Spec ⇒ □HandlersRunLast.
- `HandlerMatchesOutcomeHolds`: Spec ⇒ □HandlerMatchesOutcome.
- `FailureMailedHolds`: Spec ⇒ □FailureMailed.

None of the three properties is inductive as stated. A property about the event log says nothing about what is still queued, or about why `lastError` is set. The invariant `OInv` adds four conjuncts to IInv:
- `GraphShape`: in the graph phase the queue is empty and only nodes are logged; after it every worker is idle. This is why `StartHandlers` has to wait for all workers: the mutant that does not breaks it;
- `ExitLast`: onExit is last in the queue, and once it has run the queue is empty;
- `ErrorRecorded`: an Error node or the timeout sets `lastError`; a Cancel node has a cause (the cancel flag or `lastError`); and while the graph runs, `lastError` has a cause of its own (an Error node or the timeout);
- `OutcomeChosen`: the log and the queue together hold at most one outcome handler, and it is justified by the statuses and flags.

`OutcomeChosen` is what `StartHandlers` establishes. The lemma `SelectShape` says SelectHandlers holds at most the chosen outcome and then onExit. `ChosenJustified` says `ErrorRecorded` makes GraphStatus's choice right. The handler steps only move an element from the queue to the log, and they change no status or flag. `FailureMailed` follows from `ErrorRecorded` alone: a failed run has `lastError`, so SendMail's `err` argument selects the failure branch or none.

These proofs need one assumption that the model checker never needed to state: no node of the graph is named like a handler (`Node ∩ HandlerType = {}` in SchedulerAssumption). It holds in dagu because a handler is a node of its own, outside the graph, which the scheduler tests reach through `Scheduler.HandlerNode` (docker.go 1089–1090 and 1119–1120).

**`SockServerProofs`:**
- `SocketGone`: WaitListen ⇒ (Spec ⇒ □SocketGoneAfterShutdown).

The invariant `SockInv` ties four things together:
- quit to the owner having called Shutdown;
- that Shutdown to the notification;
- the notification to `listenerSet` or a listen error;
- Serve's line to which of these flags can hold.

From these, a Shutdown that runs with quit unset closes an assigned listener, and the socket file is gone.

**`DockerExecProofs`:**
- `TypeCorrect`: Spec ⇒ □TypeOK, for every configuration.
- `NoOrphan`: OwnContainer ⇒ (Spec ⇒ □NoOrphanProcess). `OwnContainer` means autoRemove is set, Kill reads `e.cancel` atomically, and Run creates the container rather than exec'ing into an existing one.

The hypothesis is needed: TLC shows NoOrphanProcess fails without autoRemove (§3, the `docker_create` variant) and with a stale read (`docker_stale`). In exec mode the container is not Run's own, and the exec'd process survives the cancel, so the property is not claimed there. The invariant `DInv` says:
- the context is cancelled only by the bare cancel function;
- `e.cancel` holds that function only while the container is at most created;
- once `removeContainer` is installed, a cancel first removes the container on a live context;
- `ContainerStart` needs a live context and a container that has not been removed.

So a cancelled context never coexists with a running container.

**`HistoryStoreProofs`:**
- `FindsLastWrite`: EditAfterExit ⇒ (Spec ⇒ □FindReturnsLastWrite), for any number of runs, writes and edits, with agent crashes and failed compaction writes. `EditAfterExit` means UpdateAfterClose holds and no write is torn.

Each hypothesis is one TLC refutes when it is dropped: `hist_race` drops the first, and the `hist_fail` variant with `MaxUpdates = 1` (§3) shows what a torn write does. The inductive invariant `HInv` adds three things to FindReturnsLastWrite:
- `Clean`: every line is complete and parses;
- `AgentFiles(r)`: for each stage of run r's agent, which of its two files exist and what the `_c` file holds. It is empty after CompactOpen and holds the copied status after CompactWrite. At every compaction stage the copied status is the last one written;
- `UpdaterState`: an edit in progress is of an exited run, with the file and inode FindByRequestID chose, and with a call left within MaxUpdates.

The proof has one lemma per action and a frame lemma (`RunFrame`) for the runs a step does not touch. ParseFile is restated at constant level (`PF`), so that the facts about it (`PFAppend`, `PFEmpty`) apply in both the current and the next state.

FindByRequestID prefers the `_c` file. The model writes that priority as IF/ELSE rather than as a CASE with overlapping guards, because TLA+ gives such a CASE no order between its arms.

**`HistoryViewProofs`** (EXTENDS `HistoryStoreProofs`):
- `HistoryRefinement`: EditAfterExit ⇒ (Spec ⇒ History!Spec), with `History == INSTANCE RunHistory WITH shown <- [r \in Run |-> FindStatus(r)]`. HistoryStore implements RunHistory under the mapping `shown = FindStatus`, for any number of runs, writes and edits, with agent crashes, failed compaction writes and no restriction on seconds.

The hypothesis is the one of `FindsLastWrite`; without it the `hist_race` trace breaks the refinement too, as the lookup shows the edit and then `running` once the pending CompactWrite lands. The refinement is not a property of a run: under this hypothesis it follows from FindReturnsLastWrite, which `hist_seq` and `hist_fail` check, and from the way `lastWritten` changes. The argument has two parts. First, the mapped state equals `lastWritten` (lemma `ShownIsLast`, and `ShownIsLastNext` for the next state). That rests on FindReturnsLastWrite and on the inductive invariant `VInv`, which adds to HInv, for every run:
- `Unwritten(r)`: a run with no status written has no `_c` file and an empty original, so FindByRequestID finds nothing;
- `OpenRunning(r)`: while the agent is open, the last status written is none or running.

Second, every step of HistoryStore changes `lastWritten` as a RunHistory step does, or leaves it alone (lemma `WrittenStep`). `Write` is `Progress`, `WriteFinal` is `Finish` (OpenRunning gives its guard), and `UpdateWrite` is `Edit`: UpdaterState says the edit writes to the file FindByRequestID chose, so the run shows a status (lemma `FoundShows`) and, by ShownIsLast, has one written. `RefineInit` maps the initial state. The QED combines them by PTL.

**Only model-checked:**
- LatestStatusCurrent. It holds only when no agent is killed and runs start in different seconds (§3), and the code ensures neither, so there is no theorem about it worth stating;
- all the liveness properties: Termination, StopTerminates, ServeReturns, KillEndsRun. TLAPS does not handle liveness under fairness or ENABLED;
- KillEndsRun in exec mode.

## 6. Not modelled

- **Scheduler:** the delay between launches, output variables, and the SIGTERM-to-SIGKILL escalation of a node.
- **SSH executor:** newSSHExec's config decoding and auth selection are abstracted to the initial state. The ssh client that is never closed (part_004:422) is recorded in `conn`, and no property is stated about it.
- **History store:** `Rename`, which moves files between DAG names, which the model does not have. The file cache is not modelled either, since filecache is not in `src/`. In `HistoryStore` reads are atomic; `HistoryReader` splits them.
- **Email reporter:** the HTML table, the attachment list and the mailer itself.
- **Socket server:** the response writer (server.go 118–152), which only buffers a status and a body.
- **Engine:** its process-spawning operations.
- **No concurrency or persistent state:** the loader, wiring, generated REST code, UI and docs.

------------------------------ MODULE Scheduler ------------------------------
(***************************************************************************)
(* One run of a DAG: Scheduler.Schedule driving the nodes of an           *)
(* ExecutionGraph to their terminal states, with its workers, the retry   *)
(* and repeat policies, Cancel, Signal, the overall timeout and the       *)
(* lifecycle handlers.  The scheduler's source is not part of the sources *)
(* at hand: the module follows the specification (sections 4.2 to 4.4)    *)
(* and, where the two disagree, what the scheduler tests assert of the    *)
(* code (internal/digraph/executor/docker.go, lines 374-832).             *)
(*                                                                         *)
(* A node's command is abstracted to its outcome: an execution ends in    *)
(* success or failure, chosen nondeterministically.                       *)
(***************************************************************************)
EXTENDS Naturals, FiniteSets, Sequences

CONSTANTS
  Node,               \* the steps of the DAG
  Depends,            \* Depends[n]: the direct predecessors of step n
  ContinueOnFailure,  \* steps whose ContinueOn.Failure is set
  ContinueOnSkipped,  \* steps whose ContinueOn.Skipped is set
  Preconditioned,     \* steps with preconditions, which may not be met
  Repeating,          \* steps whose RepeatPolicy.Repeat is set
  RetryLimit,         \* RetryLimit[n]: RetryPolicy.Limit of step n
  MaxActiveRuns,      \* Config.MaxActiveRuns
  HasTimeout,         \* Config.Timeout > 0
  Handlers,           \* the handlers the DAG configures
  MaxRuns             \* bound: executions of a repeating step

HandlerType == {"onSuccess", "onFailure", "onCancel", "onExit"}

NodeStatus == {"None", "Running", "Error", "Cancel", "Success", "Skipped"}

Terminal == {"Error", "Cancel", "Success", "Skipped"}

\* The worker of a node: idle, executing, sleeping before a retry or
\* sleeping before a repetition.
WorkerState == {"idle", "exec", "retryWait", "repeatWait"}

\* NewExecutionGraph rejects a cyclic graph: the steps have a topological
\* rank.
Acyclic ==
  \E rank \in [Node -> 1..Cardinality(Node)] :
    \A n \in Node : \A p \in Depends[n] : rank[p] < rank[n]

\* The handler nodes are nodes of their own (Scheduler.HandlerNode), never
\* steps of the graph: a handler and a step are told apart.
ASSUME SchedulerAssumption ==
  /\ IsFiniteSet(Node)
  /\ Node \cap HandlerType = {}
  /\ Depends \in [Node -> SUBSET Node]
  /\ Acyclic
  /\ ContinueOnFailure \subseteq Node
  /\ ContinueOnSkipped \subseteq Node
  /\ Preconditioned \subseteq Node
  /\ Repeating \subseteq Node
  /\ RetryLimit \in [Node -> Nat]
  /\ MaxActiveRuns \in Nat \ {0}
  /\ HasTimeout \in BOOLEAN
  /\ Handlers \subseteq HandlerType
  /\ MaxRuns \in Nat \ {0}

VARIABLES
  status,       \* Node.Status of every step
  pc,           \* the state of the worker of every step
  retryCount,   \* Node.RetryCount
  doneCount,    \* Node.DoneCount
  canceled,     \* the scheduler's cancel flag
  timedOut,     \* the overall timeout has elapsed
  lastError,    \* the scheduler's lastError is set
  phase,        \* "graph", then "handlers", then "done"
  handlerQueue, \* the handlers still to run, in order
  events        \* what was sent on the completion channel, in order

vars == <<status, pc, retryCount, doneCount, canceled, timedOut, lastError,
          phase, handlerQueue, events>>

-----------------------------------------------------------------------------
(* The graph queries of the selection loop.                                *)

\* A finished predecessor p lets its successors run (isReady).
Accepts(p) ==
  \/ status[p] = "Success"
  \/ status[p] = "Error" /\ p \in ContinueOnFailure
  \/ status[p] = "Skipped" /\ p \in ContinueOnSkipped

\* Mutant of Ready: a predecessor in any terminal state lets n run.
ReadyAnyTerminal(n) == \A p \in Depends[n] : status[p] \in Terminal

Ready(n) == \A p \in Depends[n] : Accepts(p)

\* A predecessor that cancels its successors, and one that skips them.
FailsDownstream(p) ==
  \/ status[p] = "Cancel"
  \/ status[p] = "Error" /\ p \notin ContinueOnFailure

SkipsDownstream(p) == status[p] = "Skipped" /\ p \notin ContinueOnSkipped

RunningNodes == {n \in Node : status[n] = "Running"}

\* isFinished: no step is None or Running.
Finished == \A n \in Node : status[n] \in Terminal

IsSucceed == \A n \in Node : status[n] \in {"Success", "Skipped"}

\* Scheduler.Status once the graph has stopped running.
GraphStatus ==
  IF canceled /\ ~IsSucceed THEN "Cancel"
  ELSE IF lastError THEN "Error"
  ELSE "Success"

\* A handler runs only when the DAG configures it.
IfConfigured(h) == IF h \in Handlers THEN <<h>> ELSE <<>>

\* The handlers run after the graph: the one for its outcome, then onExit.
SelectHandlers ==
  LET outcome == CASE GraphStatus = "Success" -> "onSuccess"
                   [] GraphStatus = "Error"   -> "onFailure"
                   [] GraphStatus = "Cancel"  -> "onCancel"
  IN  IfConfigured(outcome) \o IfConfigured("onExit")

Publish(x) == events' = Append(events, x)

-----------------------------------------------------------------------------
(* The selection loop of Schedule, one iteration over node n.              *)

\* Mutant of Selectable: the capacity test admits one run too many.
SelectableOverCap(n) ==
  /\ phase = "graph"
  /\ ~canceled
  /\ status[n] = "None"
  /\ Ready(n)
  /\ Cardinality(RunningNodes) <= MaxActiveRuns

\* The loop considers n: the run is not canceled, n is pending and all its
\* predecessors let it run, and fewer than MaxActiveRuns steps are Running.
Selectable(n) ==
  /\ phase = "graph"
  /\ ~canceled
  /\ status[n] = "None"
  /\ Ready(n)
  /\ Cardinality(RunningNodes) < MaxActiveRuns

\* The preconditions hold (or there are none): n is Running and its worker
\* starts executing it.
Launch(n) ==
  /\ Selectable(n)
  /\ status' = [status EXCEPT ![n] = "Running"]
  /\ pc' = [pc EXCEPT ![n] = "exec"]
  /\ UNCHANGED <<retryCount, doneCount, canceled, timedOut, lastError,
                 phase, handlerQueue, events>>

\* A precondition is not met: n is Skipped and never runs.
PreconditionNotMet(n) ==
  /\ n \in Preconditioned
  /\ Selectable(n)
  /\ status' = [status EXCEPT ![n] = "Skipped"]
  /\ UNCHANGED <<pc, retryCount, doneCount, canceled, timedOut, lastError,
                 phase, handlerQueue, events>>

\* A predecessor was canceled or failed without ContinueOn.Failure: the
\* pending node n is canceled.
UpstreamFailed(n) ==
  /\ phase = "graph"
  /\ ~canceled
  /\ status[n] = "None"
  /\ \E p \in Depends[n] : FailsDownstream(p)
  /\ status' = [status EXCEPT ![n] = "Cancel"]
  /\ UNCHANGED <<pc, retryCount, doneCount, canceled, timedOut, lastError,
                 phase, handlerQueue, events>>

\* Mutant of UpstreamSkipped: a skipped predecessor is never propagated.
UpstreamSkippedNever(n) == FALSE

\* A predecessor was skipped without ContinueOn.Skipped (and none failed):
\* the pending node n is skipped.
UpstreamSkipped(n) ==
  /\ phase = "graph"
  /\ ~canceled
  /\ status[n] = "None"
  /\ ~\E p \in Depends[n] : FailsDownstream(p)
  /\ \E p \in Depends[n] : SkipsDownstream(p)
  /\ status' = [status EXCEPT ![n] = "Skipped"]
  /\ UNCHANGED <<pc, retryCount, doneCount, canceled, timedOut, lastError,
                 phase, handlerQueue, events>>

-----------------------------------------------------------------------------
(* The worker of node n.  Every execution that ends is published on the    *)
(* completion channel; DoneCount counts the executions that did not end    *)
(* canceled.                                                               *)

\* Mutant of ExecSucceed: a success overwrites the Cancel of a node.
ExecSucceedOverwrite(n) ==
  /\ pc[n] = "exec"
  /\ ~timedOut
  /\ ~(n \in Repeating /\ ~canceled)
  /\ status' = [status EXCEPT ![n] = "Success"]
  /\ doneCount' = [doneCount EXCEPT ![n] = @ + 1]
  /\ pc' = [pc EXCEPT ![n] = "idle"]
  /\ Publish(n)
  /\ UNCHANGED <<retryCount, canceled, timedOut, lastError, phase,
                 handlerQueue>>

\* The command succeeded and the repeat policy does not apply: a Running
\* node becomes Success (a canceled one stays Cancel).
ExecSucceed(n) ==
  /\ pc[n] = "exec"
  /\ ~timedOut
  /\ ~(n \in Repeating /\ ~canceled)
  /\ status' = [status EXCEPT ![n] = IF @ = "Running" THEN "Success" ELSE @]
  /\ doneCount' = [doneCount EXCEPT ![n] = IF status[n] = "Cancel" THEN @
                                           ELSE @ + 1]
  /\ pc' = [pc EXCEPT ![n] = "idle"]
  /\ Publish(n)
  /\ UNCHANGED <<retryCount, canceled, timedOut, lastError, phase,
                 handlerQueue>>

\* The command of a repeating step succeeded and the run is not canceled:
\* the worker sleeps RepeatPolicy.Interval before the next execution.
ExecRepeat(n) ==
  /\ pc[n] = "exec"
  /\ ~timedOut
  /\ n \in Repeating
  /\ ~canceled
  /\ doneCount' = [doneCount EXCEPT ![n] = @ + 1]
  /\ pc' = [pc EXCEPT ![n] = "repeatWait"]
  /\ Publish(n)
  /\ UNCHANGED <<status, retryCount, canceled, timedOut, lastError, phase,
                 handlerQueue>>

\* The command was killed by the overall timeout: n is canceled and the
\* run records an error.
ExecTimedOut(n) ==
  /\ pc[n] = "exec"
  /\ timedOut
  /\ status' = [status EXCEPT ![n] = "Cancel"]
  /\ lastError' = TRUE
  /\ pc' = [pc EXCEPT ![n] = "idle"]
  /\ Publish(n)
  /\ UNCHANGED <<retryCount, doneCount, canceled, timedOut, phase,
                 handlerQueue>>

\* The command failed after the run was canceled: n ends canceled, and a
\* graceful cancel records no error.
ExecCanceled(n) ==
  /\ pc[n] = "exec"
  /\ ~timedOut
  /\ canceled
  /\ status' = [status EXCEPT ![n] = IF @ = "Running" THEN "Cancel" ELSE @]
  /\ pc' = [pc EXCEPT ![n] = "idle"]
  /\ Publish(n)
  /\ UNCHANGED <<retryCount, doneCount, canceled, timedOut, lastError,
                 phase, handlerQueue>>

\* Mutant of ExecRetry: the retry limit is not checked.
ExecRetryUnbounded(n) ==
  /\ pc[n] = "exec"
  /\ ~timedOut
  /\ ~canceled
  /\ n \notin Repeating
  /\ retryCount' = [retryCount EXCEPT ![n] = @ + 1]
  /\ doneCount' = [doneCount EXCEPT ![n] = @ + 1]
  /\ pc' = [pc EXCEPT ![n] = "retryWait"]
  /\ Publish(n)
  /\ UNCHANGED <<status, canceled, timedOut, lastError, phase, handlerQueue>>

\* The command failed and retries are left: RetryCount is incremented and
\* the worker sleeps RetryPolicy.Interval.  A repeating step is not retried.
ExecRetry(n) ==
  /\ pc[n] = "exec"
  /\ ~timedOut
  /\ ~canceled
  /\ n \notin Repeating
  /\ retryCount[n] < RetryLimit[n]
  /\ retryCount' = [retryCount EXCEPT ![n] = @ + 1]
  /\ doneCount' = [doneCount EXCEPT ![n] = @ + 1]
  /\ pc' = [pc EXCEPT ![n] = "retryWait"]
  /\ Publish(n)
  /\ UNCHANGED <<status, canceled, timedOut, lastError, phase, handlerQueue>>

\* Mutant of ExecError: the failure is not recorded in lastError.
ExecErrorUnrecorded(n) ==
  /\ pc[n] = "exec"
  /\ ~timedOut
  /\ ~canceled
  /\ n \in Repeating \/ retryCount[n] >= RetryLimit[n]
  /\ status' = [status EXCEPT ![n] = "Error"]
  /\ doneCount' = [doneCount EXCEPT ![n] = @ + 1]
  /\ pc' = [pc EXCEPT ![n] = "idle"]
  /\ Publish(n)
  /\ UNCHANGED <<retryCount, canceled, timedOut, lastError, phase,
                 handlerQueue>>

\* The command failed and no retry applies: n is Error and the run records
\* the error.
ExecError(n) ==
  /\ pc[n] = "exec"
  /\ ~timedOut
  /\ ~canceled
  /\ n \in Repeating \/ retryCount[n] >= RetryLimit[n]
  /\ status' = [status EXCEPT ![n] = "Error"]
  /\ lastError' = TRUE
  /\ doneCount' = [doneCount EXCEPT ![n] = @ + 1]
  /\ pc' = [pc EXCEPT ![n] = "idle"]
  /\ Publish(n)
  /\ UNCHANGED <<retryCount, canceled, timedOut, phase, handlerQueue>>

\* The retry interval elapsed: n is None again, for the loop to relaunch.
RetryWake(n) ==
  /\ pc[n] = "retryWait"
  /\ ~canceled
  /\ ~timedOut
  /\ status' = [status EXCEPT ![n] = "None"]
  /\ pc' = [pc EXCEPT ![n] = "idle"]
  /\ UNCHANGED <<retryCount, doneCount, canceled, timedOut, lastError,
                 phase, handlerQueue, events>>

\* A cancel or the timeout interrupts the retry wait: n is canceled.
RetryAbort(n) ==
  /\ pc[n] = "retryWait"
  /\ canceled \/ timedOut
  /\ status' = [status EXCEPT ![n] = "Cancel"]
  /\ pc' = [pc EXCEPT ![n] = "idle"]
  /\ UNCHANGED <<retryCount, doneCount, canceled, timedOut, lastError,
                 phase, handlerQueue, events>>

\* The repeat interval elapsed and the run is not canceled: execute again.
RepeatAgain(n) ==
  /\ pc[n] = "repeatWait"
  /\ ~canceled
  /\ doneCount[n] < MaxRuns
  /\ pc' = [pc EXCEPT ![n] = "exec"]
  /\ UNCHANGED <<status, retryCount, doneCount, canceled, timedOut,
                 lastError, phase, handlerQueue, events>>

\* Mutant of RepeatEnd: a stopped repetition always ends Success.
RepeatEndOverwrite(n) ==
  /\ pc[n] = "repeatWait"
  /\ canceled
  /\ status' = [status EXCEPT ![n] = "Success"]
  /\ pc' = [pc EXCEPT ![n] = "idle"]
  /\ UNCHANGED <<retryCount, doneCount, canceled, timedOut, lastError,
                 phase, handlerQueue, events>>

\* The run was canceled during the repeat interval: the repetition stops; a
\* node still Running (a Signal spares repeating steps) ends Success.
RepeatEnd(n) ==
  /\ pc[n] = "repeatWait"
  /\ canceled
  /\ status' = [status EXCEPT ![n] = IF @ = "Running" THEN "Success" ELSE @]
  /\ pc' = [pc EXCEPT ![n] = "idle"]
  /\ UNCHANGED <<retryCount, doneCount, canceled, timedOut, lastError,
                 phase, handlerQueue, events>>

-----------------------------------------------------------------------------
(* Requests from outside the run.                                          *)

\* Scheduler.Cancel: set the cancel flag and cancel every Running node.
Cancel ==
  /\ phase = "graph"
  /\ canceled' = TRUE
  /\ status' = [n \in Node |-> IF status[n] = "Running" THEN "Cancel"
                               ELSE status[n]]
  /\ UNCHANGED <<pc, retryCount, doneCount, timedOut, lastError, phase,
                 handlerQueue, events>>

\* Scheduler.Signal: set the cancel flag and signal every Running node
\* except the repeating ones, which finish their current execution.
Signal ==
  /\ phase = "graph"
  /\ canceled' = TRUE
  /\ status' = [n \in Node |-> IF status[n] = "Running" /\ n \notin Repeating
                               THEN "Cancel" ELSE status[n]]
  /\ UNCHANGED <<pc, retryCount, doneCount, timedOut, lastError, phase,
                 handlerQueue, events>>

\* The overall timeout elapses: the pending nodes are canceled, the running
\* commands will be killed, and the run's status becomes Error.
Timeout ==
  /\ HasTimeout
  /\ ~timedOut
  /\ phase = "graph"
  /\ timedOut' = TRUE
  /\ lastError' = TRUE
  /\ status' = [n \in Node |-> IF status[n] = "None" THEN "Cancel"
                               ELSE status[n]]
  /\ UNCHANGED <<pc, retryCount, doneCount, canceled, phase, handlerQueue,
                 events>>

-----------------------------------------------------------------------------
(* The end of Schedule: the handlers, then return.                         *)

\* Mutant of StartHandlers: the handlers start without waiting for the
\* workers.
StartHandlersNoWait ==
  /\ phase = "graph"
  /\ Finished \/ canceled
  /\ phase' = "handlers"
  /\ handlerQueue' = SelectHandlers
  /\ UNCHANGED <<status, pc, retryCount, doneCount, canceled, timedOut,
                 lastError, events>>

\* Mutant of StartHandlers: the loop exits only once every node finished.
StartHandlersFinishedOnly ==
  /\ phase = "graph"
  /\ Finished
  /\ \A n \in Node : pc[n] = "idle"
  /\ phase' = "handlers"
  /\ handlerQueue' = SelectHandlers
  /\ UNCHANGED <<status, pc, retryCount, doneCount, canceled, timedOut,
                 lastError, events>>

\* The loop exits (every node finished, or the run was canceled), all
\* workers have returned, and the handlers are chosen from the outcome.
StartHandlers ==
  /\ phase = "graph"
  /\ Finished \/ canceled
  /\ \A n \in Node : pc[n] = "idle"
  /\ phase' = "handlers"
  /\ handlerQueue' = SelectHandlers
  /\ UNCHANGED <<status, pc, retryCount, doneCount, canceled, timedOut,
                 lastError, events>>

\* The next handler runs and succeeds.
HandlerSucceed ==
  /\ phase = "handlers"
  /\ handlerQueue # <<>>
  /\ Publish(Head(handlerQueue))
  /\ handlerQueue' = Tail(handlerQueue)
  /\ UNCHANGED <<status, pc, retryCount, doneCount, canceled, timedOut,
                 lastError, phase>>

\* The next handler runs and fails: the run's status becomes Error.
HandlerFail ==
  /\ phase = "handlers"
  /\ handlerQueue # <<>>
  /\ lastError' = TRUE
  /\ Publish(Head(handlerQueue))
  /\ handlerQueue' = Tail(handlerQueue)
  /\ UNCHANGED <<status, pc, retryCount, doneCount, canceled, timedOut,
                 phase>>

\* Schedule returns.
Finish ==
  /\ phase = "handlers"
  /\ handlerQueue = <<>>
  /\ phase' = "done"
  /\ UNCHANGED <<status, pc, retryCount, doneCount, canceled, timedOut,
                 lastError, handlerQueue, events>>

-----------------------------------------------------------------------------

Init ==
  /\ status = [n \in Node |-> "None"]
  /\ pc = [n \in Node |-> "idle"]
  /\ retryCount = [n \in Node |-> 0]
  /\ doneCount = [n \in Node |-> 0]
  /\ canceled = FALSE
  /\ timedOut = FALSE
  /\ lastError = FALSE
  /\ phase = "graph"
  /\ handlerQueue = <<>>
  /\ events = <<>>

LoopStep(n) ==
  \/ Launch(n)
  \/ PreconditionNotMet(n)
  \/ UpstreamFailed(n)
  \/ UpstreamSkipped(n)

\* The end of one execution of n's command.
ExecEnd(n) ==
  \/ ExecSucceed(n)
  \/ ExecRepeat(n)
  \/ ExecTimedOut(n)
  \/ ExecCanceled(n)
  \/ ExecRetry(n)
  \/ ExecError(n)

WorkerStep(n) ==
  \/ ExecEnd(n)
  \/ RetryWake(n)
  \/ RetryAbort(n)
  \/ RepeatAgain(n)
  \/ RepeatEnd(n)

\* Once Schedule has returned nothing changes.
Returned == phase = "done" /\ UNCHANGED vars

Next ==
  \/ \E n \in Node : LoopStep(n) \/ WorkerStep(n)
  \/ Cancel
  \/ Signal
  \/ Timeout
  \/ StartHandlers
  \/ HandlerSucceed
  \/ HandlerFail
  \/ Finish
  \/ Returned

\* The selection loop and the workers keep running, and every command
\* eventually ends (the executor contract: Run returns, promptly once
\* killed).  Cancel, Signal and the timeout come from outside and may never
\* happen.
Fairness ==
  /\ \A n \in Node : WF_vars(LoopStep(n))
  /\ \A n \in Node : WF_vars(ExecEnd(n))
  /\ \A n \in Node : WF_vars(RetryWake(n) \/ RetryAbort(n))
  /\ \A n \in Node : WF_vars(RepeatAgain(n) \/ RepeatEnd(n))
  /\ WF_vars(StartHandlers)
  /\ WF_vars(HandlerSucceed \/ HandlerFail)
  /\ WF_vars(Finish)

Spec == Init /\ [][Next]_vars

FairSpec == Spec /\ Fairness

-----------------------------------------------------------------------------
(* Properties.                                                             *)

TypeOK ==
  /\ status \in [Node -> NodeStatus]
  /\ pc \in [Node -> WorkerState]
  /\ retryCount \in [Node -> Nat]
  /\ \A n \in Node : retryCount[n] \in 0..RetryLimit[n]
  /\ doneCount \in [Node -> Nat]
  /\ canceled \in BOOLEAN
  /\ timedOut \in BOOLEAN
  /\ lastError \in BOOLEAN
  /\ phase \in {"graph", "handlers", "done"}
  /\ handlerQueue \in Seq(HandlerType)
  /\ events \in Seq(Node \cup HandlerType)

\* Section 8: a node leaves None only after every predecessor has reached a
\* terminal state that permits it: Success, Error with ContinueOn.Failure,
\* or Skipped with ContinueOn.Skipped.  The selection loop's readiness test,
\* the retry path back to None and the stability of finished predecessors
\* all have to agree for this to hold.
DependencyOrder ==
  \A n \in Node :
    (pc[n] # "idle" \/ status[n] \in {"Running", "Success", "Error"}) =>
      \A p \in Depends[n] :
        \/ status[p] = "Success"
        \/ status[p] = "Error" /\ p \in ContinueOnFailure
        \/ status[p] = "Skipped" /\ p \in ContinueOnSkipped

\* Section 8: no more than MaxActiveRuns commands are being executed (or
\* waited on between retries and repetitions) at any instant, although the
\* loop counts Running statuses and a cancel changes statuses under the
\* workers' feet.
ConcurrencyCap ==
  Cardinality({n \in Node : pc[n] # "idle"}) <= MaxActiveRuns

EventSet == {events[i] : i \in DOMAIN events}

\* Sections 4.4 and 8: the handlers are the last events of a run and onExit
\* is the very last: no worker publishes a node after a handler, which needs
\* Schedule to wait for all workers before running the handlers.
HandlersRunLast ==
  /\ \A i, j \in DOMAIN events :
       i < j /\ events[i] \in HandlerType => events[j] \in HandlerType
  /\ \A i \in DOMAIN events : events[i] = "onExit" => i = Len(events)

\* Section 8: at most one of onSuccess, onFailure and onCancel runs, and the
\* one that runs matches the nodes: onSuccess only if every node succeeded
\* or was skipped, onFailure only if a node failed or the run timed out,
\* onCancel only if the run was canceled.
HandlerMatchesOutcome ==
  /\ Cardinality(EventSet \cap {"onSuccess", "onFailure", "onCancel"}) <= 1
  /\ "onSuccess" \in EventSet =>
       \A n \in Node : status[n] \in {"Success", "Skipped"}
  /\ "onFailure" \in EventSet =>
       timedOut \/ \E n \in Node : status[n] = "Error"
  /\ "onCancel" \in EventSet => canceled

\* Node state machine (section 3): a terminal status is never left; in
\* particular Cancel after a node finished is a no-op and a stopped
\* repetition does not overwrite Cancel.
TerminalIsFinal ==
  [][\A n \in Node : status[n] \in Terminal => status'[n] = status[n]]_status

\* Section 4.4: Schedule eventually returns unless a repeating step goes on
\* repeating: a step that waits for a dependency, a retry, a precondition
\* or a handler never keeps the run from ending.  (A repetition is capped at
\* MaxRuns executions, after which the step waits for a stop forever.)
Termination ==
  <>(phase = "done") \/ <>[](\E n \in Repeating : pc[n] = "repeatWait")

\* Section 4.4: once the run is canceled (Cancel or Signal), Schedule
\* eventually returns, even with repeating steps and retries pending.
StopTerminates == canceled ~> (phase = "done")

\* Section 8 claims every node is terminal when Schedule returns; the test
\* CancelSchedule asserts a pending node stays None after a cancel.
AllTerminalAtReturn == phase = "done" => Finished

=============================================================================

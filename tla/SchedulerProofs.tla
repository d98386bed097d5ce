--------------------------- MODULE SchedulerProofs ---------------------------
(***************************************************************************)
(* Proofs about Scheduler, for every graph and every value of the         *)
(* constants: type correctness, DependencyOrder, ConcurrencyCap and        *)
(* TerminalIsFinal.                                                        *)
(*                                                                         *)
(* DependencyOrder is not inductive by itself: a worker's node could be    *)
(* something other than Running or Cancel, and RetryWake would then move   *)
(* an accepted predecessor back to None.  The strengthening records what   *)
(* the workers guarantee about the status of their node.                   *)
(***************************************************************************)
EXTENDS Scheduler, FiniteSetTheorems, TLAPS

\* The node of a busy worker is Running, or Cancel once the run has been
\* canceled; while the run is not canceled it is Running.
WorkerNodeLive ==
  \A n \in Node :
    pc[n] # "idle" =>
      /\ status[n] \in {"Running", "Cancel"}
      /\ ~canceled => status[n] = "Running"

\* A Running node has a busy worker.
RunningHasWorker ==
  \A n \in Node : status[n] = "Running" => pc[n] # "idle"

\* The inductive invariant behind DependencyOrder and TerminalIsFinal.
IInv ==
  /\ TypeOK
  /\ WorkerNodeLive
  /\ RunningHasWorker
  /\ DependencyOrder

\* The busy workers.
Busy == {n \in Node : pc[n] # "idle"}

-----------------------------------------------------------------------------
(* Type correctness.                                                       *)

\* The facts about the constants the proofs use, each cited where needed.
LEMMA RetryLimitType == RetryLimit \in [Node -> Nat]
BY SchedulerAssumption

LEMMA NodeFinite == IsFiniteSet(Node)
BY SchedulerAssumption

LEMMA MaxActiveRunsType == MaxActiveRuns \in Nat
BY SchedulerAssumption

\* The handlers chosen at the end of the graph are handler names: the run's
\* status is one of three outcomes, each with its handler.
LEMMA SelectHandlersType == SelectHandlers \in Seq(HandlerType)
<1>1. GraphStatus \in {"Success", "Error", "Cancel"}
  BY DEF GraphStatus
<1>2. \A h \in HandlerType : IfConfigured(h) \in Seq(HandlerType)
  BY DEF IfConfigured
<1>3. CASE GraphStatus = "Success"
  BY <1>2, <1>3 DEF SelectHandlers, HandlerType
<1>4. CASE GraphStatus = "Error"
  BY <1>2, <1>4 DEF SelectHandlers, HandlerType
<1>5. CASE GraphStatus = "Cancel"
  BY <1>2, <1>5 DEF SelectHandlers, HandlerType
<1>. QED
  BY <1>1, <1>3, <1>4, <1>5

\* Incrementing a bounded retry counter below its limit keeps it bounded.
LEMMA RetryIncrement ==
  ASSUME NEW f \in [Node -> Nat], \A m \in Node : f[m] \in 0..RetryLimit[m],
         NEW n \in Node, f[n] < RetryLimit[n]
  PROVE  /\ [f EXCEPT ![n] = @ + 1] \in [Node -> Nat]
         /\ \A m \in Node : [f EXCEPT ![n] = @ + 1][m] \in 0..RetryLimit[m]
BY RetryLimitType

\* ExecRetry increments RetryCount only below RetryPolicy.Limit.
LEMMA ExecRetryType ==
  ASSUME TypeOK, NEW n \in Node, ExecRetry(n) PROVE TypeOK'
<1>1. retryCount' \in [Node -> Nat]
      /\ \A m \in Node : retryCount'[m] \in 0..RetryLimit[m]
  <2>1. /\ retryCount[n] < RetryLimit[n]
        /\ retryCount' = [retryCount EXCEPT ![n] = @ + 1]
    BY DEF ExecRetry
  <2>. QED
    BY <2>1, RetryIncrement DEF TypeOK
<1>2. /\ doneCount' \in [Node -> Nat]
      /\ pc' \in [Node -> WorkerState]
      /\ events' \in Seq(Node \cup HandlerType)
  BY DEF TypeOK, ExecRetry, WorkerState, Publish
<1>3. UNCHANGED <<status, canceled, timedOut, lastError, phase, handlerQueue>>
  BY DEF ExecRetry
<1>. QED
  BY <1>1, <1>2, <1>3 DEF TypeOK

\* Every step keeps the variables in their types; in particular the retry
\* path never takes RetryCount past RetryPolicy.Limit.
LEMMA TypeStep == TypeOK /\ [Next]_vars => TypeOK'
<1> SUFFICES ASSUME TypeOK, [Next]_vars PROVE TypeOK'
  OBVIOUS
<1> DEFINE Goal == TypeOK'
<1>1. ASSUME NEW n \in Node, LoopStep(n) \/ WorkerStep(n) PROVE Goal
  <2>2. CASE Launch(n)
    BY <2>2, RetryLimitType DEF TypeOK, NodeStatus, WorkerState, Launch, Selectable
  <2>3. CASE PreconditionNotMet(n)
    BY <2>3, RetryLimitType DEF TypeOK, NodeStatus, WorkerState, PreconditionNotMet, Selectable
  <2>4. CASE UpstreamFailed(n)
    BY <2>4, RetryLimitType DEF TypeOK, NodeStatus, WorkerState, UpstreamFailed
  <2>5. CASE UpstreamSkipped(n)
    BY <2>5, RetryLimitType DEF TypeOK, NodeStatus, WorkerState, UpstreamSkipped
  <2>6. CASE ExecSucceed(n)
    BY <2>6, RetryLimitType DEF TypeOK, NodeStatus, WorkerState, ExecSucceed, Publish
  <2>7. CASE ExecRepeat(n)
    BY <2>7, RetryLimitType DEF TypeOK, NodeStatus, WorkerState, ExecRepeat, Publish
  <2>8. CASE ExecTimedOut(n)
    BY <2>8, RetryLimitType DEF TypeOK, NodeStatus, WorkerState, ExecTimedOut, Publish
  <2>9. CASE ExecCanceled(n)
    BY <2>9, RetryLimitType DEF TypeOK, NodeStatus, WorkerState, ExecCanceled, Publish
  <2>10. CASE ExecRetry(n)
    BY <2>10, ExecRetryType
  <2>11. CASE ExecError(n)
    BY <2>11, RetryLimitType DEF TypeOK, NodeStatus, WorkerState, ExecError, Publish
  <2>12. CASE RetryWake(n)
    BY <2>12, RetryLimitType DEF TypeOK, NodeStatus, WorkerState, RetryWake
  <2>13. CASE RetryAbort(n)
    BY <2>13, RetryLimitType DEF TypeOK, NodeStatus, WorkerState, RetryAbort
  <2>14. CASE RepeatAgain(n)
    BY <2>14, RetryLimitType DEF TypeOK, NodeStatus, WorkerState, RepeatAgain
  <2>15. CASE RepeatEnd(n)
    BY <2>15, RetryLimitType DEF TypeOK, NodeStatus, WorkerState, RepeatEnd
  <2>. QED
    BY <1>1, <2>2, <2>3, <2>4, <2>5, <2>6, <2>7, <2>8, <2>9, <2>10, <2>11, <2>12, <2>13, <2>14, <2>15
       DEF LoopStep, WorkerStep, ExecEnd
<1>2. CASE Cancel
  BY <1>2, RetryLimitType DEF TypeOK, NodeStatus, WorkerState, Cancel
<1>3. CASE Signal
  BY <1>3, RetryLimitType DEF TypeOK, NodeStatus, WorkerState, Signal
<1>4. CASE Timeout
  BY <1>4, RetryLimitType DEF TypeOK, NodeStatus, WorkerState, Timeout
<1>5. CASE StartHandlers
  BY <1>5, RetryLimitType, SelectHandlersType
     DEF TypeOK, NodeStatus, WorkerState, HandlerType, StartHandlers
<1>6. CASE HandlerSucceed
  BY <1>6, RetryLimitType
     DEF TypeOK, NodeStatus, WorkerState, HandlerType, HandlerSucceed, Publish
<1>7. CASE HandlerFail
  BY <1>7, RetryLimitType
     DEF TypeOK, NodeStatus, WorkerState, HandlerType, HandlerFail, Publish
<1>8. CASE Finish
  BY <1>8, RetryLimitType
     DEF TypeOK, NodeStatus, WorkerState, HandlerType, Finish
<1>9. CASE Returned \/ UNCHANGED vars
  BY <1>9 DEF TypeOK, Returned, vars
<1>. QED
  BY <1>1, <1>2, <1>3, <1>4, <1>5, <1>6, <1>7, <1>8, <1>9 DEF Next

\* The initial state is well typed.
LEMMA InitType == ASSUME Init PROVE TypeOK
<1>1. /\ status \in [Node -> NodeStatus]
      /\ pc \in [Node -> WorkerState]
      /\ retryCount \in [Node -> Nat]
      /\ \A n \in Node : retryCount[n] \in 0..RetryLimit[n]
      /\ doneCount \in [Node -> Nat]
      /\ phase \in {"graph", "handlers", "done"}
      /\ handlerQueue \in Seq(HandlerType)
      /\ events \in Seq(Node \cup HandlerType)
  BY RetryLimitType DEF Init, NodeStatus, WorkerState
<1>2. canceled \in BOOLEAN /\ timedOut \in BOOLEAN /\ lastError \in BOOLEAN
  BY DEF Init
<1>. QED
  BY <1>1, <1>2 DEF TypeOK

\* Type correctness of the scheduler, for every graph.
THEOREM TypeCorrect == Spec => []TypeOK
<1>1. Init => TypeOK
  BY InitType
<1>. QED
  BY <1>1, TypeStep, PTL DEF Spec

-----------------------------------------------------------------------------
(* The inductive invariant.                                                *)

\* DependencyOrder, over a status and a worker function.
AcceptedIn(st, p) ==
  \/ st[p] = "Success"
  \/ st[p] = "Error" /\ p \in ContinueOnFailure
  \/ st[p] = "Skipped" /\ p \in ContinueOnSkipped

DepOrderIn(st, w) ==
  \A m \in Node :
    (w[m] # "idle" \/ st[m] \in {"Running", "Success", "Error"}) =>
      \A p \in Depends[m] : AcceptedIn(st, p)

LEMMA DependsType == Depends \in [Node -> SUBSET Node]
BY SchedulerAssumption

\* A step that changes only statuses no successor relies on, to statuses
\* that do not make a node busy, and makes no worker busy, keeps the
\* dependency order.
LEMMA DepOrderFrame ==
  ASSUME NEW st, NEW st2, NEW w, NEW w2, DepOrderIn(st, w),
         \A m \in Node : st2[m] # st[m] =>
            ~AcceptedIn(st, m) /\ st2[m] \notin {"Running", "Success", "Error"},
         \A m \in Node : w2[m] # "idle" => w[m] # "idle"
  PROVE  DepOrderIn(st2, w2)
BY DependsType DEF DepOrderIn, AcceptedIn

\* The same, for a step of the scheduler.
LEMMA DependencyOrderKept ==
  ASSUME DependencyOrder,
         \A m \in Node : status'[m] # status[m] =>
            ~AcceptedIn(status, m)
            /\ status'[m] \notin {"Running", "Success", "Error"},
         \A m \in Node : pc'[m] # "idle" => pc[m] # "idle"
  PROVE  DependencyOrder'
<1>1. DepOrderIn(status, pc)
  BY DEF DependencyOrder, DepOrderIn, AcceptedIn
<1>2. DepOrderIn(status', pc')
  BY <1>1, DepOrderFrame
<1>. QED
  BY <1>2 DEF DependencyOrder, DepOrderIn, AcceptedIn

\* Every step preserves the strengthened invariant.  A step changes the
\* status of one node from None or Running, or of the Running nodes, so a
\* predecessor a busy node relies on is never disturbed.
LEMMA InvStep == IInv /\ [Next]_vars => IInv'
<1> SUFFICES ASSUME IInv, [Next]_vars
             PROVE WorkerNodeLive' /\ RunningHasWorker' /\ DependencyOrder'
  BY TypeStep DEF IInv
<1> USE DEF IInv
<1>1. ASSUME NEW n \in Node, LoopStep(n) \/ WorkerStep(n)
      PROVE WorkerNodeLive' /\ RunningHasWorker' /\ DependencyOrder'
  <2>2. CASE Launch(n)
    BY <2>2 DEF WorkerNodeLive, RunningHasWorker, DependencyOrder, TypeOK, Launch, Selectable, Ready, Accepts
  <2>3. CASE PreconditionNotMet(n)
    BY <2>3 DEF WorkerNodeLive, RunningHasWorker, DependencyOrder, TypeOK, PreconditionNotMet, Selectable
  <2>4. CASE UpstreamFailed(n)
    BY <2>4 DEF WorkerNodeLive, RunningHasWorker, DependencyOrder, TypeOK, UpstreamFailed
  <2>5. CASE UpstreamSkipped(n)
    BY <2>5 DEF WorkerNodeLive, RunningHasWorker, DependencyOrder, TypeOK, UpstreamSkipped
  <2>6. CASE ExecSucceed(n)
    BY <2>6 DEF WorkerNodeLive, RunningHasWorker, DependencyOrder, TypeOK, ExecSucceed, Publish
  <2>7. CASE ExecRepeat(n)
    BY <2>7 DEF WorkerNodeLive, RunningHasWorker, DependencyOrder, TypeOK, ExecRepeat, Publish
  <2>8. CASE ExecTimedOut(n)
    <3>1. WorkerNodeLive' /\ RunningHasWorker'
      BY <2>8 DEF WorkerNodeLive, RunningHasWorker, TypeOK, ExecTimedOut, Publish
    <3>2. \A m \in Node : status'[m] # status[m] =>
             ~AcceptedIn(status, m)
             /\ status'[m] \notin {"Running", "Success", "Error"}
      BY <2>8 DEF WorkerNodeLive, TypeOK, AcceptedIn, ExecTimedOut, Publish
    <3>3. \A m \in Node : pc'[m] # "idle" => pc[m] # "idle"
      BY <2>8 DEF TypeOK, ExecTimedOut, Publish
    <3>. QED
      BY <3>1, <3>2, <3>3, DependencyOrderKept
  <2>9. CASE ExecCanceled(n)
    BY <2>9 DEF WorkerNodeLive, RunningHasWorker, DependencyOrder, TypeOK, ExecCanceled, Publish
  <2>10. CASE ExecRetry(n)
    BY <2>10 DEF WorkerNodeLive, RunningHasWorker, DependencyOrder, TypeOK, ExecRetry, Publish
  <2>11. CASE ExecError(n)
    BY <2>11 DEF WorkerNodeLive, RunningHasWorker, DependencyOrder, TypeOK, ExecError, Publish
  <2>12. CASE RetryWake(n)
    BY <2>12 DEF WorkerNodeLive, RunningHasWorker, DependencyOrder, TypeOK, RetryWake
  <2>13. CASE RetryAbort(n)
    <3>1. WorkerNodeLive' /\ RunningHasWorker'
      BY <2>13 DEF WorkerNodeLive, RunningHasWorker, TypeOK, RetryAbort
    <3>2. \A m \in Node : status'[m] # status[m] =>
             ~AcceptedIn(status, m)
             /\ status'[m] \notin {"Running", "Success", "Error"}
      BY <2>13 DEF WorkerNodeLive, TypeOK, AcceptedIn, RetryAbort
    <3>3. \A m \in Node : pc'[m] # "idle" => pc[m] # "idle"
      BY <2>13 DEF TypeOK, RetryAbort
    <3>. QED
      BY <3>1, <3>2, <3>3, DependencyOrderKept
  <2>14. CASE RepeatAgain(n)
    BY <2>14 DEF WorkerNodeLive, RunningHasWorker, DependencyOrder, TypeOK, RepeatAgain
  <2>15. CASE RepeatEnd(n)
    BY <2>15 DEF WorkerNodeLive, RunningHasWorker, DependencyOrder, TypeOK, RepeatEnd
  <2>. QED
    BY <1>1, <2>2, <2>3, <2>4, <2>5, <2>6, <2>7, <2>8, <2>9, <2>10, <2>11, <2>12, <2>13, <2>14, <2>15
       DEF LoopStep, WorkerStep, ExecEnd
<1>2. CASE Cancel
  <2>1. WorkerNodeLive' /\ RunningHasWorker'
    BY <1>2 DEF WorkerNodeLive, RunningHasWorker, TypeOK, Cancel
  <2>2. \A m \in Node : status'[m] # status[m] =>
           ~AcceptedIn(status, m)
           /\ status'[m] \notin {"Running", "Success", "Error"}
    BY <1>2 DEF WorkerNodeLive, TypeOK, AcceptedIn, Cancel
  <2>3. \A m \in Node : pc'[m] # "idle" => pc[m] # "idle"
    BY <1>2 DEF TypeOK, Cancel
  <2>. QED
    BY <2>1, <2>2, <2>3, DependencyOrderKept
<1>3. CASE Signal
  <2>1. WorkerNodeLive' /\ RunningHasWorker'
    BY <1>3 DEF WorkerNodeLive, RunningHasWorker, TypeOK, Signal
  <2>2. \A m \in Node : status'[m] # status[m] =>
           ~AcceptedIn(status, m)
           /\ status'[m] \notin {"Running", "Success", "Error"}
    BY <1>3 DEF WorkerNodeLive, TypeOK, AcceptedIn, Signal
  <2>3. \A m \in Node : pc'[m] # "idle" => pc[m] # "idle"
    BY <1>3 DEF TypeOK, Signal
  <2>. QED
    BY <2>1, <2>2, <2>3, DependencyOrderKept
<1>4. CASE Timeout
  <2>1. WorkerNodeLive' /\ RunningHasWorker'
    BY <1>4 DEF WorkerNodeLive, RunningHasWorker, TypeOK, Timeout
  <2>2. \A m \in Node : status'[m] # status[m] =>
           ~AcceptedIn(status, m)
           /\ status'[m] \notin {"Running", "Success", "Error"}
    BY <1>4 DEF WorkerNodeLive, TypeOK, AcceptedIn, Timeout
  <2>3. \A m \in Node : pc'[m] # "idle" => pc[m] # "idle"
    BY <1>4 DEF TypeOK, Timeout
  <2>. QED
    BY <2>1, <2>2, <2>3, DependencyOrderKept
<1>5. CASE StartHandlers
  BY <1>5 DEF WorkerNodeLive, RunningHasWorker, DependencyOrder, TypeOK, StartHandlers
<1>6. CASE HandlerSucceed
  BY <1>6 DEF WorkerNodeLive, RunningHasWorker, DependencyOrder, TypeOK, HandlerSucceed, Publish
<1>7. CASE HandlerFail
  BY <1>7 DEF WorkerNodeLive, RunningHasWorker, DependencyOrder, TypeOK, HandlerFail, Publish
<1>8. CASE Finish
  BY <1>8 DEF WorkerNodeLive, RunningHasWorker, DependencyOrder, TypeOK, Finish
<1>9. CASE Returned \/ UNCHANGED vars
  BY <1>9 DEF WorkerNodeLive, RunningHasWorker, DependencyOrder, TypeOK, Returned, vars
<1>. QED
  BY <1>1, <1>2, <1>3, <1>4, <1>5, <1>6, <1>7, <1>8, <1>9 DEF Next

\* The initial state satisfies the strengthened invariant: no node is busy
\* or has left None.
LEMMA InitInv == ASSUME Init PROVE IInv
<1>1. TypeOK
  BY InitType
<1>2. WorkerNodeLive /\ RunningHasWorker /\ DependencyOrder
  BY DEF Init, WorkerNodeLive, RunningHasWorker, DependencyOrder
<1>. QED
  BY <1>1, <1>2 DEF IInv

\* The strengthened invariant holds in every reachable state.
THEOREM InvariantHolds == Spec => []IInv
<1>1. Init => IInv
  BY InitInv
<1>. QED
  BY <1>1, InvStep, PTL DEF Spec

\* Section 8: a node leaves None only once each predecessor has finished in
\* a state that lets it run, for every graph and every policy.
THEOREM DependencyOrderHolds == Spec => []DependencyOrder
BY InvariantHolds, PTL DEF IInv

-----------------------------------------------------------------------------
(* A terminal status is never left.                                        *)

\* The step relation of TerminalIsFinal.
TerminalKept == \A n \in Node : status[n] \in Terminal => status'[n] = status[n]

\* Every step changes the status of a node only from None or Running: the
\* retry path back to None starts from Running, and the cancel paths from
\* Running or from a Cancel already set.
LEMMA TerminalStep == IInv /\ [Next]_vars => [TerminalKept]_status
<1> SUFFICES ASSUME IInv, [Next]_vars PROVE TerminalKept
  BY DEF TerminalKept
<1> USE DEF IInv
<1>1. ASSUME NEW n \in Node, LoopStep(n) \/ WorkerStep(n) PROVE TerminalKept
  <2>2. CASE Launch(n)
    BY <2>2 DEF TerminalKept, Terminal, TypeOK, Launch, Selectable
  <2>3. CASE PreconditionNotMet(n)
    BY <2>3 DEF TerminalKept, Terminal, TypeOK, PreconditionNotMet,
                 Selectable
  <2>4. CASE UpstreamFailed(n)
    BY <2>4 DEF TerminalKept, Terminal, TypeOK, WorkerNodeLive, UpstreamFailed
  <2>5. CASE UpstreamSkipped(n)
    BY <2>5 DEF TerminalKept, Terminal, TypeOK, WorkerNodeLive, UpstreamSkipped
  <2>6. CASE ExecSucceed(n)
    BY <2>6 DEF TerminalKept, Terminal, TypeOK, WorkerNodeLive, ExecSucceed
  <2>7. CASE ExecRepeat(n)
    BY <2>7 DEF TerminalKept, Terminal, TypeOK, WorkerNodeLive, ExecRepeat
  <2>8. CASE ExecTimedOut(n)
    BY <2>8 DEF TerminalKept, Terminal, TypeOK, WorkerNodeLive, ExecTimedOut
  <2>9. CASE ExecCanceled(n)
    BY <2>9 DEF TerminalKept, Terminal, TypeOK, WorkerNodeLive, ExecCanceled
  <2>10. CASE ExecRetry(n)
    BY <2>10 DEF TerminalKept, Terminal, TypeOK, WorkerNodeLive, ExecRetry
  <2>11. CASE ExecError(n)
    BY <2>11 DEF TerminalKept, Terminal, TypeOK, WorkerNodeLive, ExecError
  <2>12. CASE RetryWake(n)
    BY <2>12 DEF TerminalKept, Terminal, TypeOK, WorkerNodeLive, RetryWake
  <2>13. CASE RetryAbort(n)
    BY <2>13 DEF TerminalKept, Terminal, TypeOK, WorkerNodeLive, RetryAbort
  <2>14. CASE RepeatAgain(n)
    BY <2>14 DEF TerminalKept, Terminal, TypeOK, WorkerNodeLive, RepeatAgain
  <2>15. CASE RepeatEnd(n)
    BY <2>15 DEF TerminalKept, Terminal, TypeOK, WorkerNodeLive, RepeatEnd
  <2>. QED
    BY <1>1, <2>2, <2>3, <2>4, <2>5, <2>6, <2>7, <2>8, <2>9, <2>10, <2>11, <2>12, <2>13, <2>14, <2>15
       DEF LoopStep, WorkerStep, ExecEnd
<1>2. CASE Cancel
  BY <1>2 DEF TerminalKept, Terminal, TypeOK, Cancel
<1>3. CASE Signal
  BY <1>3 DEF TerminalKept, Terminal, TypeOK, Signal
<1>4. CASE Timeout
  BY <1>4 DEF TerminalKept, Terminal, TypeOK, Timeout
<1>5. CASE StartHandlers
  BY <1>5 DEF TerminalKept, Terminal, TypeOK, StartHandlers
<1>6. CASE HandlerSucceed
  BY <1>6 DEF TerminalKept, Terminal, TypeOK, HandlerSucceed
<1>7. CASE HandlerFail
  BY <1>7 DEF TerminalKept, Terminal, TypeOK, HandlerFail
<1>8. CASE Finish
  BY <1>8 DEF TerminalKept, Terminal, TypeOK, Finish
<1>9. CASE Returned \/ UNCHANGED vars
  BY <1>9 DEF TerminalKept, Returned, vars
<1>. QED
  BY <1>1, <1>2, <1>3, <1>4, <1>5, <1>6, <1>7, <1>8, <1>9 DEF Next

\* Section 3: once a node is Success, Error, Cancel or Skipped, it keeps that
\* status: Cancel after a node finished, a stopped repetition or a late
\* timeout never overwrites it.
THEOREM TerminalFinal == Spec => TerminalIsFinal
BY InvariantHolds, TerminalStep, PTL DEF Spec, TerminalIsFinal, TerminalKept

-----------------------------------------------------------------------------
(* At most MaxActiveRuns busy workers.                                     *)

\* While the run is not canceled the busy workers are exactly the Running
\* nodes, which is what the loop's capacity test counts.
LEMMA BusyIsRunning == ASSUME IInv, ~canceled PROVE Busy = RunningNodes
BY DEF IInv, WorkerNodeLive, RunningHasWorker, Busy, RunningNodes

\* Only Launch makes an idle worker busy.
LEMMA BusyStep ==
  ASSUME TypeOK, [Next]_vars, ~\E n \in Node : Launch(n)
  PROVE  \A m \in Node : pc'[m] # "idle" => pc[m] # "idle"
<1>1. ASSUME NEW n \in Node, LoopStep(n) \/ WorkerStep(n)
      PROVE \A m \in Node : pc'[m] # "idle" => pc[m] # "idle"
  <2>1. CASE Launch(n)
    BY <2>1
  <2>2. CASE PreconditionNotMet(n)
    BY <2>2 DEF TypeOK, PreconditionNotMet
  <2>3. CASE UpstreamFailed(n)
    BY <2>3 DEF TypeOK, UpstreamFailed
  <2>4. CASE UpstreamSkipped(n)
    BY <2>4 DEF TypeOK, UpstreamSkipped
  <2>5. CASE ExecSucceed(n)
    BY <2>5 DEF TypeOK, ExecSucceed
  <2>6. CASE ExecRepeat(n)
    BY <2>6 DEF TypeOK, ExecRepeat
  <2>7. CASE ExecTimedOut(n)
    BY <2>7 DEF TypeOK, ExecTimedOut
  <2>8. CASE ExecCanceled(n)
    BY <2>8 DEF TypeOK, ExecCanceled
  <2>9. CASE ExecRetry(n)
    BY <2>9 DEF TypeOK, ExecRetry
  <2>10. CASE ExecError(n)
    BY <2>10 DEF TypeOK, ExecError
  <2>11. CASE RetryWake(n)
    BY <2>11 DEF TypeOK, RetryWake
  <2>12. CASE RetryAbort(n)
    BY <2>12 DEF TypeOK, RetryAbort
  <2>13. CASE RepeatAgain(n)
    BY <2>13 DEF TypeOK, RepeatAgain
  <2>14. CASE RepeatEnd(n)
    BY <2>14 DEF TypeOK, RepeatEnd
  <2>. QED
    BY <1>1, <2>1, <2>2, <2>3, <2>4, <2>5, <2>6, <2>7, <2>8, <2>9, <2>10, <2>11, <2>12, <2>13, <2>14
       DEF LoopStep, WorkerStep, ExecEnd
<1>2. CASE Cancel
  BY <1>2 DEF Cancel
<1>3. CASE Signal
  BY <1>3 DEF Signal
<1>4. CASE Timeout
  BY <1>4 DEF Timeout
<1>5. CASE StartHandlers
  BY <1>5 DEF StartHandlers
<1>6. CASE HandlerSucceed
  BY <1>6 DEF HandlerSucceed
<1>7. CASE HandlerFail
  BY <1>7 DEF HandlerFail
<1>8. CASE Finish
  BY <1>8 DEF Finish
<1>9. CASE Returned \/ UNCHANGED vars
  BY <1>9 DEF Returned, vars
<1>. QED
  BY <1>1, <1>2, <1>3, <1>4, <1>5, <1>6, <1>7, <1>8, <1>9 DEF Next

\* Every step keeps the number of busy workers within MaxActiveRuns: Launch
\* adds one worker only below the cap, and only while the busy workers are
\* the Running nodes it counts; every other step only frees workers.
LEMMA CapStep ==
  ASSUME IInv, ConcurrencyCap, [Next]_vars PROVE ConcurrencyCap'
<1>1. IsFiniteSet(Busy) /\ IsFiniteSet(Busy')
  BY NodeFinite, FS_Subset DEF Busy
<1>2. CASE \E n \in Node : Launch(n)
  <2>1. PICK n \in Node : Launch(n)
    BY <1>2
  <2>2. Busy' = Busy \cup {n}
    BY <2>1 DEF Launch, IInv, TypeOK, Busy
  <2>3. Cardinality(Busy) < MaxActiveRuns
    BY <2>1, BusyIsRunning DEF Launch, Selectable
  <2>4. Cardinality(Busy) \in Nat
    BY <1>1, FS_CardinalityType
  <2>5. Cardinality(Busy \cup {n}) <= Cardinality(Busy) + 1
    <3>1. Cardinality(Busy \cup {n}) =
            IF n \in Busy THEN Cardinality(Busy) ELSE Cardinality(Busy) + 1
      BY <1>1, FS_AddElement
    <3>. QED
      BY <3>1, <2>4
  <2>6. /\ Cardinality(Busy') = Cardinality(Busy \cup {n})
        /\ Cardinality(Busy \cup {n}) \in Nat
    BY <1>1, <2>2, FS_CardinalityType
  <2>7. Cardinality(Busy') <= MaxActiveRuns
    BY <2>3, <2>4, <2>5, <2>6, MaxActiveRunsType
  <2>. QED
    BY <2>7 DEF ConcurrencyCap, Busy
<1>3. CASE ~\E n \in Node : Launch(n)
  <2>1. Busy' \subseteq Busy
    BY <1>3, BusyStep DEF IInv, Busy
  <2>2. Cardinality(Busy') <= Cardinality(Busy)
    BY <1>1, <2>1, FS_Subset
  <2>3. Cardinality(Busy) <= MaxActiveRuns
    BY DEF ConcurrencyCap, Busy
  <2>4. Cardinality(Busy') \in Nat /\ Cardinality(Busy) \in Nat
    BY <1>1, FS_CardinalityType
  <2>. QED
    BY <2>2, <2>3, <2>4, MaxActiveRunsType DEF ConcurrencyCap, Busy
<1>. QED
  BY <1>2, <1>3

\* Section 8: no more than MaxActiveRuns commands run (or wait to be
\* retried or repeated) at once, for every graph and every cap.
THEOREM ConcurrencyCapHolds == Spec => []ConcurrencyCap
<1>1. Init => ConcurrencyCap
  <2> SUFFICES ASSUME Init PROVE ConcurrencyCap
    OBVIOUS
  <2>1. Busy = {}
    BY DEF Init, Busy
  <2>. QED
    BY <2>1, FS_EmptySet, MaxActiveRunsType DEF ConcurrencyCap, Busy
<1>2. IInv /\ ConcurrencyCap /\ [Next]_vars => ConcurrencyCap'
  BY CapStep
<1>. QED
  BY <1>1, <1>2, InvariantHolds, PTL DEF Spec

=============================================================================

------------------------ MODULE SchedulerOutcomeProofs ------------------------
(***************************************************************************)
(* Proofs about the end of a run, for every graph and every value of the  *)
(* constants: the handlers run last and onExit is the very last event     *)
(* (HandlersRunLast), the handler that runs matches the nodes             *)
(* (HandlerMatchesOutcome), and a failed run is mailed as a failure        *)
(* (FailureMailed of Reporter).                                            *)
(*                                                                         *)
(* None of the three is inductive.  The handlers are chosen once, by       *)
(* StartHandlers, from Scheduler.Status; that the choice is right needs    *)
(* what the run records of its failures: a failed node or a timeout sets  *)
(* lastError, a canceled node comes from a cancel or a failure, and while *)
(* the graph runs lastError has a cause among the nodes or the timeout.    *)
(* That the handlers are last needs the workers to be idle once the graph *)
(* phase is over, and onExit to be queued last.                            *)
(***************************************************************************)
EXTENDS Reporter, SchedulerProofs

\* The outcome handlers: at most one of them runs.
Outcome == {"onSuccess", "onFailure", "onCancel"}

\* The handlers queued and not yet run.
QueueSet == {handlerQueue[i] : i \in DOMAIN handlerQueue}

\* The nodes justify the outcome handler o.
Justified(o) ==
  /\ o = "onSuccess" => \A n \in Node : status[n] \in {"Success", "Skipped"}
  /\ o = "onFailure" => timedOut \/ \E n \in Node : status[n] = "Error"
  /\ o = "onCancel" => canceled

\* While the graph runs, only nodes are published and nothing is queued;
\* after it, every worker is idle.
GraphShape ==
  /\ phase = "graph" =>
       /\ handlerQueue = <<>>
       /\ \A i \in DOMAIN events : events[i] \in Node
  /\ phase # "graph" => \A n \in Node : pc[n] = "idle"

\* onExit is queued last, and nothing is queued once it has run.
ExitLast ==
  /\ "onExit" \in EventSet => handlerQueue = <<>>
  /\ \A i \in DOMAIN handlerQueue :
       handlerQueue[i] = "onExit" => i = Len(handlerQueue)

\* What the run records of its failures.
ErrorRecorded ==
  /\ (\E n \in Node : status[n] = "Error") => lastError
  /\ timedOut => lastError
  /\ (\E n \in Node : status[n] = "Cancel") => canceled \/ lastError
  /\ phase = "graph" /\ lastError =>
       timedOut \/ \E n \in Node : status[n] = "Error"

\* One outcome handler at most is run or queued, and it is justified.
OutcomeChosen ==
  /\ \A o1, o2 \in (EventSet \cup QueueSet) \cap Outcome : o1 = o2
  /\ \A o \in (EventSet \cup QueueSet) \cap Outcome : Justified(o)

\* The inductive invariant behind HandlersRunLast, HandlerMatchesOutcome
\* and FailureMailed.
OInv ==
  /\ IInv
  /\ GraphShape
  /\ HandlersRunLast
  /\ ExitLast
  /\ ErrorRecorded
  /\ OutcomeChosen

-----------------------------------------------------------------------------
(* Facts about the constants and the event log.                            *)

LEMMA NodesNotHandlers == Node \cap HandlerType = {}
BY SchedulerAssumption

\* A log of nodes holds no handler and no outcome handler.
LEMMA NodeLog ==
  ASSUME NEW ev \in Seq(Node \cup HandlerType),
         \A i \in DOMAIN ev : ev[i] \in Node
  PROVE  /\ \A i \in DOMAIN ev : ev[i] \notin HandlerType
         /\ {ev[i] : i \in DOMAIN ev} \cap HandlerType = {}
BY NodesNotHandlers

\* A set of outcome handlers whose members are all equal has at most one
\* member.
LEMMA AtMostOne ==
  ASSUME NEW S, S \subseteq Outcome, \A x, y \in S : x = y
  PROVE  Cardinality(S) <= 1
<1>1. CASE S = {}
  BY <1>1, FS_EmptySet
<1>2. CASE S # {}
  <2>1. PICK x \in S : TRUE
    BY <1>2
  <2>2. S = {x}
    BY <2>1
  <2>. QED
    BY <2>2, FS_Singleton
<1>. QED
  BY <1>1, <1>2

-----------------------------------------------------------------------------
(* A step of the graph phase.                                              *)

\* A step of the graph phase publishes at most a node and queues nothing:
\* the log holds nodes only, so the shape and the outcome conjuncts hold
\* for want of a handler.
LEMMA GraphStep ==
  ASSUME OInv, TypeOK', phase = "graph", phase' = "graph",
         handlerQueue' = handlerQueue,
         \/ events' = events
         \/ \E n \in Node : events' = Append(events, n)
  PROVE  (GraphShape /\ HandlersRunLast /\ ExitLast /\ OutcomeChosen)'
<1>1. handlerQueue' = <<>>
  BY DEF OInv, GraphShape
<1>2. \A i \in DOMAIN events' : events'[i] \in Node
  <2>1. \A i \in DOMAIN events : events[i] \in Node
    BY DEF OInv, GraphShape
  <2>2. events \in Seq(Node \cup HandlerType)
    BY DEF OInv, IInv, TypeOK
  <2>. QED
    BY <2>1, <2>2
<1>3. /\ \A i \in DOMAIN events' : events'[i] \notin HandlerType
      /\ EventSet' \cap HandlerType = {}
  BY <1>2, NodeLog DEF TypeOK, EventSet
<1>4. QueueSet' = {}
  BY <1>1 DEF QueueSet
<1>5. GraphShape'
  BY <1>1, <1>2 DEF GraphShape
<1>6. HandlersRunLast'
  BY <1>3 DEF HandlersRunLast, HandlerType
<1>7. ExitLast'
  BY <1>1, <1>3 DEF ExitLast, HandlerType
<1>8. OutcomeChosen'
  BY <1>3, <1>4 DEF OutcomeChosen, Outcome, HandlerType
<1>. QED
  BY <1>5, <1>6, <1>7, <1>8

-----------------------------------------------------------------------------
(* The run records its failures.                                           *)

\* What one step does to the flags and to the Error and Cancel statuses:
\* the flags are never cleared and phase never returns to the graph; a
\* node becomes Error only with lastError, and Cancel only with a cancel,
\* an error, a timeout or a canceled or failed node; lastError is set in the graph
\* phase only with a timeout or an Error node, and timedOut with lastError.
ErrStep ==
  /\ timedOut => timedOut'
  /\ canceled => canceled'
  /\ lastError => lastError'
  /\ phase' = "graph" => phase = "graph"
  /\ \A m \in Node : status'[m] = "Error" /\ status[m] # "Error" => lastError'
  /\ \A m \in Node : status'[m] = "Cancel" /\ status[m] # "Cancel" =>
        \/ canceled' \/ lastError' \/ timedOut
        \/ \E p \in Node : status[p] \in {"Cancel", "Error"}
  /\ lastError' /\ ~lastError /\ phase' = "graph" =>
        timedOut' \/ \E m \in Node : status'[m] = "Error"
  /\ timedOut' /\ ~timedOut => lastError'

LEMMA ErrStepHolds == TypeOK /\ [Next]_vars => ErrStep
<1> SUFFICES ASSUME TypeOK, [Next]_vars PROVE ErrStep
  OBVIOUS
<1>1. ASSUME NEW n \in Node, LoopStep(n) \/ WorkerStep(n) PROVE ErrStep
  <2>2. CASE Launch(n)
    BY <2>2 DEF ErrStep, TypeOK, Launch, Selectable
  <2>3. CASE PreconditionNotMet(n)
    BY <2>3 DEF ErrStep, TypeOK, PreconditionNotMet, Selectable
  <2>4. CASE UpstreamFailed(n)
    BY <2>4, DependsType DEF ErrStep, TypeOK, UpstreamFailed, FailsDownstream
  <2>5. CASE UpstreamSkipped(n)
    BY <2>5 DEF ErrStep, TypeOK, UpstreamSkipped
  <2>6. CASE ExecSucceed(n)
    BY <2>6 DEF ErrStep, TypeOK, ExecSucceed
  <2>7. CASE ExecRepeat(n)
    BY <2>7 DEF ErrStep, TypeOK, ExecRepeat
  <2>8. CASE ExecTimedOut(n)
    BY <2>8 DEF ErrStep, TypeOK, ExecTimedOut
  <2>9. CASE ExecCanceled(n)
    BY <2>9 DEF ErrStep, TypeOK, ExecCanceled
  <2>10. CASE ExecRetry(n)
    BY <2>10 DEF ErrStep, TypeOK, ExecRetry
  <2>11. CASE ExecError(n)
    BY <2>11 DEF ErrStep, TypeOK, ExecError
  <2>12. CASE RetryWake(n)
    BY <2>12 DEF ErrStep, TypeOK, RetryWake
  <2>13. CASE RetryAbort(n)
    BY <2>13 DEF ErrStep, TypeOK, RetryAbort
  <2>14. CASE RepeatAgain(n)
    BY <2>14 DEF ErrStep, TypeOK, RepeatAgain
  <2>15. CASE RepeatEnd(n)
    BY <2>15 DEF ErrStep, TypeOK, RepeatEnd
  <2>. QED
    BY <1>1, <2>2, <2>3, <2>4, <2>5, <2>6, <2>7, <2>8, <2>9, <2>10, <2>11, <2>12, <2>13, <2>14, <2>15
       DEF LoopStep, WorkerStep, ExecEnd
<1>2. CASE Cancel
  BY <1>2 DEF ErrStep, TypeOK, Cancel
<1>3. CASE Signal
  BY <1>3 DEF ErrStep, TypeOK, Signal
<1>4. CASE Timeout
  BY <1>4 DEF ErrStep, TypeOK, Timeout
<1>5. CASE StartHandlers
  BY <1>5 DEF ErrStep, StartHandlers
<1>6. CASE HandlerSucceed
  BY <1>6 DEF ErrStep, HandlerSucceed
<1>7. CASE HandlerFail
  BY <1>7 DEF ErrStep, HandlerFail
<1>8. CASE Finish
  BY <1>8 DEF ErrStep, Finish
<1>9. CASE Returned \/ UNCHANGED vars
  BY <1>9 DEF ErrStep, Returned, vars
<1>. QED
  BY <1>1, <1>2, <1>3, <1>4, <1>5, <1>6, <1>7, <1>8, <1>9 DEF Next

\* The record of failures is kept by every step.
LEMMA ErrorStep == OInv /\ [Next]_vars => ErrorRecorded'
<1> SUFFICES ASSUME OInv, [Next]_vars PROVE ErrorRecorded'
  OBVIOUS
<1>1. ErrStep
  BY ErrStepHolds DEF OInv, IInv
<1>2. \A m \in Node : status[m] = "Error" => status'[m] = "Error"
  <2>1. [TerminalKept]_status
    BY TerminalStep DEF OInv
  <2>. QED
    BY <2>1 DEF TerminalKept, Terminal
<1>3. ErrorRecorded
  BY DEF OInv
<1>4. ((\E n \in Node : status[n] = "Error") => lastError)'
  BY <1>1, <1>3 DEF ErrStep, ErrorRecorded
<1>5. (timedOut => lastError)'
  BY <1>1, <1>3 DEF ErrStep, ErrorRecorded
<1>6. ((\E n \in Node : status[n] = "Cancel") => canceled \/ lastError)'
  BY <1>1, <1>3 DEF ErrStep, ErrorRecorded
<1>7. (phase = "graph" /\ lastError =>
         timedOut \/ \E n \in Node : status[n] = "Error")'
  BY <1>1, <1>2, <1>3 DEF ErrStep, ErrorRecorded
<1>. QED
  BY <1>4, <1>5, <1>6, <1>7 DEF ErrorRecorded

-----------------------------------------------------------------------------
(* The handlers StartHandlers chooses.                                     *)

\* The outcome handler of Scheduler.Status, as in SelectHandlers.
Chosen ==
  CASE GraphStatus = "Success" -> "onSuccess"
    [] GraphStatus = "Error"   -> "onFailure"
    [] GraphStatus = "Cancel"  -> "onCancel"

LEMMA ChosenType == Chosen \in Outcome
BY DEF Chosen, GraphStatus, Outcome

\* SelectHandlers queues the chosen outcome handler (if configured), then
\* onExit (if configured): no other outcome handler, and onExit last.
LEMMA SelectShape ==
  /\ SelectHandlers = IfConfigured(Chosen) \o IfConfigured("onExit")
  /\ {SelectHandlers[i] : i \in DOMAIN SelectHandlers} \cap Outcome \subseteq {Chosen}
  /\ \A i \in DOMAIN SelectHandlers :
       SelectHandlers[i] = "onExit" => i = Len(SelectHandlers)
<1>1. SelectHandlers = IfConfigured(Chosen) \o IfConfigured("onExit")
  BY DEF SelectHandlers, Chosen
<1>2. Chosen # "onExit"
  BY ChosenType DEF Outcome
<1>3. CASE Chosen \in Handlers /\ "onExit" \in Handlers
  <2>0. IfConfigured(Chosen) = <<Chosen>> /\ IfConfigured("onExit") = <<"onExit">>
    BY <1>3 DEF IfConfigured
  <2>1. SelectHandlers = <<Chosen>> \o <<"onExit">>
    BY <1>1, <2>0
  <2>2. /\ DOMAIN SelectHandlers = {1, 2} /\ Len(SelectHandlers) = 2
        /\ SelectHandlers[1] = Chosen /\ SelectHandlers[2] = "onExit"
    BY <2>1
  <2>3. {SelectHandlers[i] : i \in DOMAIN SelectHandlers} = {Chosen, "onExit"}
    BY <2>2
  <2>. QED
    BY <2>2, <2>3, <1>2, <1>1 DEF Outcome
<1>4. CASE Chosen \in Handlers /\ "onExit" \notin Handlers
  <2>1. SelectHandlers = <<Chosen>>
    BY <1>1, <1>4 DEF IfConfigured
  <2>2. /\ DOMAIN SelectHandlers = {1} /\ Len(SelectHandlers) = 1
        /\ SelectHandlers[1] = Chosen
    BY <2>1
  <2>3. {SelectHandlers[i] : i \in DOMAIN SelectHandlers} = {Chosen}
    BY <2>2
  <2>. QED
    BY <2>2, <2>3, <1>2, <1>1
<1>5. CASE Chosen \notin Handlers /\ "onExit" \in Handlers
  <2>1. SelectHandlers = <<"onExit">>
    BY <1>1, <1>5 DEF IfConfigured
  <2>2. /\ DOMAIN SelectHandlers = {1} /\ Len(SelectHandlers) = 1
        /\ SelectHandlers[1] = "onExit"
    BY <2>1
  <2>3. {SelectHandlers[i] : i \in DOMAIN SelectHandlers} = {"onExit"}
    BY <2>2
  <2>. QED
    BY <2>2, <2>3, <1>1 DEF Outcome
<1>6. CASE Chosen \notin Handlers /\ "onExit" \notin Handlers
  <2>1. SelectHandlers = <<>>
    BY <1>1, <1>6 DEF IfConfigured
  <2>. QED
    BY <2>1, <1>1
<1>. QED
  BY <1>3, <1>4, <1>5, <1>6

\* When the loop exits, the outcome handler matches the nodes: a run that
\* is not canceled has finished, and with no error recorded its nodes all
\* succeeded or were skipped; an error recorded in the graph phase has a
\* failed node or the timeout as its cause.
LEMMA ChosenJustified ==
  ASSUME TypeOK, ErrorRecorded, phase = "graph", Finished \/ canceled
  PROVE  Justified(Chosen)
<1>1. CASE GraphStatus = "Success"
  <2>1. Chosen = "onSuccess"
    BY <1>1 DEF Chosen
  <2>2. ~lastError /\ (canceled => IsSucceed)
    BY <1>1 DEF GraphStatus
  <2>3. \A n \in Node : status[n] \in {"Success", "Skipped"}
    <3>1. CASE canceled
      BY <2>2, <3>1 DEF IsSucceed
    <3>2. CASE ~canceled
      <4>1. \A n \in Node : status[n] \in Terminal
        BY <3>2 DEF Finished
      <4>2. \A n \in Node : status[n] # "Error" /\ status[n] # "Cancel"
        BY <2>2, <3>2 DEF ErrorRecorded
      <4>. QED
        BY <4>1, <4>2 DEF Terminal
    <3>. QED
      BY <3>1, <3>2
  <2>. QED
    BY <2>1, <2>3 DEF Justified
<1>2. CASE GraphStatus = "Error"
  <2>1. Chosen = "onFailure"
    BY <1>2 DEF Chosen
  <2>2. lastError
    BY <1>2 DEF GraphStatus
  <2>. QED
    BY <2>1, <2>2 DEF ErrorRecorded, Justified
<1>3. CASE GraphStatus = "Cancel"
  <2>1. Chosen = "onCancel"
    BY <1>3 DEF Chosen
  <2>2. canceled
    BY <1>3 DEF GraphStatus
  <2>. QED
    BY <2>1, <2>2 DEF Justified
<1>. QED
  BY <1>1, <1>2, <1>3 DEF GraphStatus

-----------------------------------------------------------------------------
(* The steps of the handler phase.                                         *)

\* StartHandlers queues the chosen handlers after a log of nodes, with
\* every worker idle.
LEMMA StartStep ==
  ASSUME OInv, TypeOK', StartHandlers
  PROVE  (GraphShape /\ HandlersRunLast /\ ExitLast /\ OutcomeChosen)'
<1>1. /\ phase = "graph" /\ phase' = "handlers"
      /\ handlerQueue' = SelectHandlers
      /\ \A n \in Node : pc'[n] = "idle"
      /\ events' = events
      /\ UNCHANGED <<status, canceled, timedOut>>
  BY DEF StartHandlers
<1>2. /\ \A i \in DOMAIN events : events[i] \notin HandlerType
      /\ EventSet \cap HandlerType = {}
  BY <1>1, NodeLog DEF OInv, GraphShape, IInv, TypeOK, EventSet
<1>3. Justified(Chosen)
  BY <1>1, ChosenJustified DEF OInv, IInv, StartHandlers
<1>4. GraphShape'
  BY <1>1 DEF GraphShape
<1>5. HandlersRunLast'
  <2>1. \A i \in DOMAIN events' : events'[i] \notin HandlerType
    BY <1>1, <1>2
  <2>. QED
    BY <2>1 DEF HandlersRunLast, HandlerType
<1>6. ExitLast'
  BY <1>1, <1>2, SelectShape DEF ExitLast, EventSet, HandlerType
<1>7. OutcomeChosen'
  <2>1. EventSet' \cap Outcome = {}
    BY <1>1, <1>2 DEF EventSet, Outcome, HandlerType
  <2>2. QueueSet' \cap Outcome \subseteq {Chosen}
    BY <1>1, SelectShape DEF QueueSet
  <2>3. (EventSet \cup QueueSet)' \cap Outcome \subseteq {Chosen}
    BY <2>1, <2>2
  <2>4. \A o \in Outcome : Justified(o) => Justified(o)'
    BY <1>1 DEF Justified
  <2>. QED
    BY <1>3, <2>3, <2>4, ChosenType DEF OutcomeChosen
<1>. QED
  BY <1>4, <1>5, <1>6, <1>7

\* A handler runs: the head of the queue is published, after every node and
\* every earlier handler; onExit, queued last, leaves the queue empty.
LEMMA RunHandlerStep ==
  ASSUME OInv, TypeOK', HandlerSucceed \/ HandlerFail
  PROVE  (GraphShape /\ HandlersRunLast /\ ExitLast /\ OutcomeChosen)'
<1> DEFINE h == Head(handlerQueue)
<1>1. /\ phase = "handlers" /\ phase' = "handlers"
      /\ handlerQueue # <<>>
      /\ events' = Append(events, h)
      /\ handlerQueue' = Tail(handlerQueue)
      /\ UNCHANGED <<pc, status, canceled, timedOut>>
  BY DEF HandlerSucceed, HandlerFail, Publish
<1>2. /\ handlerQueue \in Seq(HandlerType) /\ events \in Seq(Node \cup HandlerType)
      /\ h \in HandlerType
  BY <1>1 DEF OInv, IInv, TypeOK
<1>3. "onExit" \notin EventSet
  BY <1>1 DEF OInv, ExitLast
<1>4. GraphShape'
  BY <1>1 DEF OInv, GraphShape
<1>5. HandlersRunLast'
  <2>1. /\ Len(events') = Len(events) + 1
        /\ DOMAIN events' = 1..Len(events) + 1
        /\ \A i \in DOMAIN events : events'[i] = events[i]
        /\ events'[Len(events) + 1] = h
    BY <1>1, <1>2
  <2>2. \A i \in DOMAIN events : events[i] # "onExit"
    BY <1>3 DEF EventSet
  <2>3. DOMAIN events = 1..Len(events)
    BY <1>2
  <2>. QED
    BY <1>2, <2>1, <2>2, <2>3 DEF OInv, HandlersRunLast, HandlerType
<1>6. ExitLast'
  <2>1. h = "onExit" => handlerQueue' = <<>>
    BY <1>1, <1>2 DEF OInv, ExitLast
  <2>2. \A i \in DOMAIN handlerQueue' :
          handlerQueue'[i] = "onExit" => i = Len(handlerQueue')
    BY <1>1, <1>2 DEF OInv, ExitLast
  <2>3. "onExit" \in EventSet' => h = "onExit"
    BY <1>1, <1>2, <1>3 DEF EventSet
  <2>. QED
    BY <2>1, <2>2, <2>3 DEF ExitLast
<1>7. OutcomeChosen'
  <2>1. (EventSet \cup QueueSet)' \subseteq EventSet \cup QueueSet
    BY <1>1, <1>2 DEF EventSet, QueueSet
  <2>2. \A o \in Outcome : Justified(o) => Justified(o)'
    BY <1>1 DEF Justified
  <2>. QED
    BY <2>1, <2>2 DEF OInv, OutcomeChosen
<1>. QED
  BY <1>4, <1>5, <1>6, <1>7

\* Schedule returns: the log and the queue stay as they are.
LEMMA FinishStep ==
  ASSUME OInv, Finish
  PROVE  (GraphShape /\ HandlersRunLast /\ ExitLast /\ OutcomeChosen)'
<1>1. phase = "handlers" /\ phase' = "done" /\ UNCHANGED <<pc, status, canceled,
        timedOut, handlerQueue, events>>
  BY DEF Finish
<1>. QED
  BY <1>1 DEF OInv, GraphShape, HandlersRunLast, ExitLast, OutcomeChosen,
              EventSet, QueueSet, Justified

-----------------------------------------------------------------------------
(* The inductive step.                                                     *)

\* The steps of the selection loop and of the workers happen in the graph
\* phase (a worker is busy only then), leave the handler queue alone and
\* publish at most their own node.
LEMMA NodeStepShape ==
  ASSUME TypeOK, GraphShape, NEW n \in Node, LoopStep(n) \/ WorkerStep(n)
  PROVE  /\ phase = "graph" /\ phase' = "graph"
         /\ handlerQueue' = handlerQueue
         /\ events' = events \/ events' = Append(events, n)
<1>1. CASE LoopStep(n)
  BY <1>1 DEF LoopStep, Launch, Selectable, PreconditionNotMet,
              UpstreamFailed, UpstreamSkipped
<1>2. CASE WorkerStep(n)
  <2>1. pc[n] # "idle" /\ UNCHANGED <<phase, handlerQueue>>
    BY <1>2 DEF WorkerStep, ExecEnd, ExecSucceed, ExecRepeat, ExecTimedOut,
                ExecCanceled, ExecRetry, ExecError, RetryWake, RetryAbort,
                RepeatAgain, RepeatEnd
  <2>2. phase = "graph"
    BY <2>1 DEF GraphShape, TypeOK
  <2>3. events' = events \/ events' = Append(events, n)
    BY <1>2 DEF WorkerStep, ExecEnd, ExecSucceed, ExecRepeat, ExecTimedOut,
                ExecCanceled, ExecRetry, ExecError, RetryWake, RetryAbort,
                RepeatAgain, RepeatEnd, Publish
  <2>. QED
    BY <2>1, <2>2, <2>3
<1>. QED
  BY <1>1, <1>2

\* OInv is kept by every step of Schedule.
LEMMA OInvStep == OInv /\ [Next]_vars => OInv'
<1> SUFFICES ASSUME OInv, [Next]_vars PROVE OInv'
  OBVIOUS
<1>1. IInv'
  BY InvStep DEF OInv
<1>2. ErrorRecorded'
  BY ErrorStep
<1>3. TypeOK'
  BY <1>1 DEF IInv
<1> DEFINE Rest == (GraphShape /\ HandlersRunLast /\ ExitLast /\ OutcomeChosen)'
<1>4. Rest
  <2>1. ASSUME NEW n \in Node, LoopStep(n) \/ WorkerStep(n) PROVE Rest
    <3>1. /\ phase = "graph" /\ phase' = "graph"
          /\ handlerQueue' = handlerQueue
          /\ events' = events \/ \E m \in Node : events' = Append(events, m)
      BY <2>1, NodeStepShape DEF OInv, IInv
    <3>. QED
      BY <1>3, <3>1, GraphStep
  <2>2. CASE Cancel \/ Signal \/ Timeout
    <3>1. /\ phase = "graph" /\ phase' = "graph"
          /\ handlerQueue' = handlerQueue /\ events' = events
      BY <2>2 DEF Cancel, Signal, Timeout
    <3>. QED
      BY <1>3, <3>1, GraphStep
  <2>3. CASE StartHandlers
    BY <1>3, <2>3, StartStep
  <2>4. CASE HandlerSucceed \/ HandlerFail
    BY <1>3, <2>4, RunHandlerStep
  <2>5. CASE Finish
    BY <2>5, FinishStep
  <2>6. CASE Returned \/ UNCHANGED vars
    <3>1. UNCHANGED vars
      BY <2>6 DEF Returned
    <3>. QED
      BY <3>1 DEF vars, OInv, GraphShape, HandlersRunLast, ExitLast,
                  OutcomeChosen, EventSet, QueueSet, Justified
  <2>. QED
    BY <2>1, <2>2, <2>3, <2>4, <2>5, <2>6 DEF Next
<1>. QED
  BY <1>1, <1>2, <1>4 DEF OInv

\* A run starts in OInv: nothing is logged or queued, every worker is idle.
LEMMA InitOInv == Init => OInv
<1> SUFFICES ASSUME Init PROVE OInv
  OBVIOUS
<1>1. IInv
  BY InitInv
<1>. QED
  BY <1>1 DEF Init, OInv, GraphShape, HandlersRunLast, ExitLast,
              ErrorRecorded, OutcomeChosen, EventSet, QueueSet

\* The invariant of Schedule's handler phase holds in every state.
THEOREM OutcomeInvariant == Spec => []OInv
BY InitOInv, OInvStep, PTL DEF Spec

-----------------------------------------------------------------------------
(* The properties the sched_graph run checks, for every DAG.               *)

\* Sections 4.4 and 8: Schedule waits for every worker before it runs the
\* handlers, so no node is published after a handler, and onExit is the last
\* event of a run.
THEOREM HandlersRunLastHolds == Spec => []HandlersRunLast
<1>1. OInv => HandlersRunLast
  BY DEF OInv
<1>. QED
  BY <1>1, OutcomeInvariant, PTL

\* Section 8: SelectHandlers picks one handler from the outcome, so at most
\* one of onSuccess, onFailure and onCancel runs, and it matches the nodes
\* and the flags Schedule recorded.
THEOREM HandlerMatchesOutcomeHolds == Spec => []HandlerMatchesOutcome
<1>1. OInv => HandlerMatchesOutcome
  <2> SUFFICES ASSUME OInv PROVE HandlerMatchesOutcome
    OBVIOUS
  <2>1. EventSet \cap Outcome \subseteq (EventSet \cup QueueSet) \cap Outcome
    OBVIOUS
  <2>2. Cardinality(EventSet \cap Outcome) <= 1
    BY <2>1, AtMostOne DEF OInv, OutcomeChosen
  <2>3. \A o \in EventSet \cap Outcome : Justified(o)
    BY <2>1 DEF OInv, OutcomeChosen
  <2>. QED
    BY <2>2, <2>3 DEF HandlerMatchesOutcome, Outcome, Justified
<1>. QED
  BY <1>1, OutcomeInvariant, PTL

\* reporter.go SendMail: Schedule's error is passed with the status, so a
\* run in which a step failed or the timeout fired is mailed as a failure
\* (with MailOn.Failure) even when a Cancel makes its status Cancel, and is
\* never mailed as a success.
THEOREM FailureMailedHolds == Spec => []FailureMailed
<1>1. OInv => FailureMailed
  <2> SUFFICES ASSUME OInv, phase = "done",
                      timedOut \/ \E n \in Node : status[n] = "Error"
               PROVE  /\ MailOnFailure => RunMail = "failure"
                      /\ RunMail # "success"
    BY DEF FailureMailed
  <2>1. lastError
    BY DEF OInv, ErrorRecorded
  <2>. QED
    BY <2>1, ReporterAssumption DEF RunMail, SendMail
<1>. QED
  BY <1>1, OutcomeInvariant, PTL

=============================================================================

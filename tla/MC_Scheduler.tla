---------------------------- MODULE MC_Scheduler ----------------------------
(***************************************************************************)
(* Instances of the scheduler for TLC.                                     *)
(*                                                                         *)
(* Graph: s1 and s2 are roots, s3 depends on both, s4 on s3.  s1 continues *)
(* on failure and may retry once, s2 continues when skipped, s2 and s3     *)
(* have preconditions, one step runs at a time, so every readiness rule,   *)
(* the retry path and the admission limit all come into play.  The cfg    *)
(* graph also makes s3 repeat (at most twice), so s4 waits on a step that  *)
(* only a stop ends.  s1 mails its errors, and the DAG mails failures and *)
(* successes.                                                              *)
(***************************************************************************)
EXTENDS Reporter

GraphNode == {"s1", "s2", "s3", "s4"}

GraphDepends ==
  [n \in GraphNode |-> CASE n = "s3" -> {"s1", "s2"}
                         [] n = "s4" -> {"s3"}
                         [] OTHER    -> {}]

GraphRetryLimit == [n \in GraphNode |-> IF n = "s1" THEN 1 ELSE 0]

AllHandlers == HandlerType

=============================================================================

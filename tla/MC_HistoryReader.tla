-------------------------- MODULE MC_HistoryReader --------------------------
(* One run of one DAG and one reader.                                     *)
EXTENDS HistoryReader

\* The run's start second.
MCSecOne == [r \in 1..1 |-> 1]

=============================================================================

--------------------------- MODULE MC_HistoryStore ---------------------------
(* Runs of one DAG, for TLC: two that start in different seconds, two in *)
(* the same second (their names still differ in the milliseconds), or one.*)
EXTENDS HistoryStore

MCSecApart == [r \in 1..2 |-> r]
MCSecSame == [r \in 1..2 |-> 7]

\* A single run, for the traces of the violations, which need no second.
MCSecOne == [r \in 1..1 |-> 1]

=============================================================================

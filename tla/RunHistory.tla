----------------------------- MODULE RunHistory -----------------------------
(***************************************************************************)
(* What the history of a DAG's runs promises the pages that read it: the  *)
(* status shown for a run only moves forward.  A run has no status until   *)
(* its agent writes one (JSONDB.Write, jsondb.go:102-104) while it runs,   *)
(* then its final status; an edit (JSONDB.Update, jsondb.go:74-88) can     *)
(* only replace a status the history already shows, and once a run has    *)
(* been edited its agent writes nothing that is shown over the edit.       *)
(***************************************************************************)
CONSTANT Run

VARIABLE shown   \* shown[r]: the status the history shows for run r

NoStatus == "none"

Init == shown = [r \in Run |-> NoStatus]

\* The agent of a running run writes a status.
Progress(r) ==
  /\ shown[r] \in {NoStatus, "running"}
  /\ shown' = [shown EXCEPT ![r] = "running"]

\* The agent writes the run's final status.
Finish(r) ==
  /\ shown[r] \in {NoStatus, "running"}
  /\ shown' = [shown EXCEPT ![r] = "final"]

\* The user edits the status of a run the history shows.
Edit(r) ==
  /\ shown[r] # NoStatus
  /\ shown' = [shown EXCEPT ![r] = "edited"]

Next == \E r \in Run : Progress(r) \/ Finish(r) \/ Edit(r)

Spec == Init /\ [][Next]_shown

=============================================================================

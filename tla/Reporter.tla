------------------------------ MODULE Reporter ------------------------------
(***************************************************************************)
(* The mails of internal/reporter/reporter.go sent for a run of the       *)
(* scheduler: the agent calls ReportStep for each step as it finishes and  *)
(* SendMail once Schedule has returned, with the scheduler's status and    *)
(* Schedule's error (the first error of the run: lastError).  A mail is   *)
(* the value the properties tell apart: the table of node statuses and    *)
(* the attached logs (renderHTML, addAttachmentList) are left out.  The   *)
(* mailer does not fail.                                                   *)
(***************************************************************************)
EXTENDS Scheduler

CONSTANTS
  MailOnError,    \* the steps with mailOnError
  MailOnFailure,  \* dg.MailOn is set and MailOn.Failure
  MailOnSuccess   \* dg.MailOn is set and MailOn.Success

ASSUME ReporterAssumption ==
  /\ MailOnError \subseteq Node
  /\ MailOnFailure \in BOOLEAN
  /\ MailOnSuccess \in BOOLEAN

\* ReportStep, lines 32-47: a step that ended Error and has mailOnError is
\* mailed to the error address when it finishes.
ReportStep(n) == status[n] = "Error" /\ n \in MailOnError

\* The steps mailed by ReportStep: those that have finished (published).
StepMails == {n \in Node : n \in EventSet /\ ReportStep(n)}

\* Mutant of SendMail: only the status is looked at, not Schedule's error.
SendMailStatusOnly(st, err) ==
  CASE st = "Error" /\ MailOnFailure   -> "failure"
    [] st = "Success" /\ MailOnSuccess -> "success"
    [] OTHER                           -> "none"

\* SendMail, lines 62-85: a failure mail if Schedule returned an error or
\* the status is Error (and MailOn.Failure); else a success mail if the
\* status is Success (and MailOn.Success); else none, as for Cancel.
SendMail(st, err) ==
  CASE (err \/ st = "Error") /\ MailOnFailure    -> "failure"
    [] ~(err \/ st = "Error") /\ st = "Success"
                              /\ MailOnSuccess  -> "success"
    [] OTHER                                     -> "none"

\* The mail SendMail sends once Schedule has returned.
RunMail == IF phase = "done" THEN SendMail(GraphStatus, lastError) ELSE "none"

-----------------------------------------------------------------------------

\* A failed run is mailed: when Schedule returns after a step failed or the
\* run timed out, the failure mail goes out (with MailOn.Failure) even when
\* a Cancel makes the status Cancel; and a success mail never reports such
\* a run.
FailureMailed ==
  phase = "done" =>
    LET failed == timedOut \/ \E n \in Node : status[n] = "Error"
    IN  /\ failed /\ MailOnFailure => RunMail = "failure"
        /\ failed => RunMail # "success"

=============================================================================

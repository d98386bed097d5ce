---------------------------- MODULE MC_DockerExec ----------------------------
(* The docker executor for TLC: the constants are all given in the cfgs.  *)
(* AutoRemove, Pull and ExecMode are what newDocker makes of some step's  *)
(* executor config: the assumption below has TLC find one.                *)
EXTENDS DockerExec

ASSUME ConfigFromNewDocker ==
  \E c \in DockerConfig :
    /\ NewDocker(c).ok
    /\ NewDocker(c).autoRemove = AutoRemove
    /\ NewDocker(c).pull = Pull
    /\ NewDocker(c).execMode = ExecMode
=============================================================================

----------------------------- MODULE MC_SSHExec -----------------------------
(* The ssh executor for TLC: the constants are all given in the cfg.      *)
EXTENDS SSHExec
=============================================================================

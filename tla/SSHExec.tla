------------------------------ MODULE SSHExec ------------------------------
(***************************************************************************)
(* The ssh executor of one step attempt, src/unnamed/part_004: Run (lines  *)
(* 419-441) racing Kill (412-417), which the scheduler calls while the     *)
(* step is Running: at once, and again after the grace period.            *)
(*                                                                         *)
(* Run dials the host (ssh.Dial, with no timeout: it may take as long as   *)
(* the network does), opens a session, stores it in e.session, defers its *)
(* Close and runs the command, which returns when the remote command exits *)
(* or the session is closed.  Kill closes whatever e.session holds; it is  *)
(* a no-op while the field is still nil.  The client that ssh.Dial returns *)
(* is never closed.                                                        *)
(***************************************************************************)
EXTENDS Naturals

CONSTANTS
  MaxKills,          \* in Nat \ {0}: the scheduler's Kill calls: SIGTERM,
                     \* SIGKILL, a second Cancel
  GraceOutlastsSetup \* in BOOLEAN: a later Kill comes after Run has begun

\* Run's program counter: not yet called, in ssh.Dial, in NewSession, in
\* session.Run, returned.
RunPC == {"idle", "dial", "newSession", "run", "done"}

VARIABLES
  rpc,       \* Run's program counter
  conn,      \* the ssh client: "none" or "open" (nothing closes it)
  session,   \* the session Run opened: "none", "open" or "closed"
  eSession,  \* e.session holds Run's session
  remote,    \* the remote command: "none", "running", "exited"
  runErr,    \* Run's result: "none" until it returns, then "nil" or "err"
  kills      \* the Kill calls made

vars == <<rpc, conn, session, eSession, remote, runErr, kills>>

-----------------------------------------------------------------------------

\* Run returns with result res.
Return(res) ==
  /\ rpc' = "done"
  /\ runErr' = res

\* Line 420: Run is called and starts to dial.
RunStart ==
  /\ rpc = "idle"
  /\ rpc' = "dial"
  /\ UNCHANGED <<conn, session, eSession, remote, runErr, kills>>

\* Lines 421-424: ssh.Dial; it may fail, and Run returns its error.
RunDial ==
  /\ rpc = "dial"
  /\ \/ /\ Return("err")
        /\ UNCHANGED conn
     \/ /\ conn' = "open"
        /\ rpc' = "newSession"
        /\ UNCHANGED runErr
  /\ UNCHANGED <<session, eSession, remote, kills>>

\* Lines 426-440: NewSession (it may fail: Run returns and the client stays
\* open); e.session is set, Close deferred and the command started.
RunSession ==
  /\ rpc = "newSession"
  /\ \/ /\ Return("err")
        /\ UNCHANGED <<session, eSession, remote>>
     \/ /\ session' = "open"
        /\ eSession' = TRUE
        /\ remote' = "running"
        /\ rpc' = "run"
        /\ UNCHANGED runErr
  /\ UNCHANGED <<conn, kills>>

\* Line 440: session.Run returns: with the remote command's exit status, or
\* an error once the session was closed; the deferred Close (431) follows.
RunReturn ==
  /\ rpc = "run"
  /\ remote = "exited" \/ session = "closed"
  /\ \/ /\ session = "open"
        /\ Return("nil")
     \/ Return("err")
  /\ session' = "closed"
  /\ UNCHANGED <<conn, eSession, remote, kills>>

\* The remote command exits by itself.
RemoteExit ==
  /\ remote = "running"
  /\ remote' = "exited"
  /\ UNCHANGED <<rpc, conn, session, eSession, runErr, kills>>

-----------------------------------------------------------------------------
(* Kill, lines 412-417.                                                    *)

\* The scheduler signals the Running step: the first time at once, later
\* ones after the grace period.
MayKill ==
  /\ kills < MaxKills
  /\ rpc # "done"
  /\ kills > 0 /\ GraceOutlastsSetup => rpc # "idle"

\* Kill closes e.session if it is set; closing it again does nothing.
Kill ==
  /\ MayKill
  /\ session' = IF eSession THEN "closed" ELSE session
  /\ kills' = kills + 1
  /\ UNCHANGED <<rpc, conn, eSession, remote, runErr>>

-----------------------------------------------------------------------------

Init ==
  /\ rpc = "idle"
  /\ conn = "none"
  /\ session = "none"
  /\ eSession = FALSE
  /\ remote = "none"
  /\ runErr = "none"
  /\ kills = 0

RunStep == RunStart \/ RunDial \/ RunSession \/ RunReturn

\* Run has returned: nothing more happens.
Quiescent ==
  /\ rpc = "done"
  /\ UNCHANGED vars

Next == RunStep \/ Kill \/ RemoteExit \/ Quiescent

\* Go runs Run's goroutine, and the scheduler keeps escalating while the
\* step runs.  The remote command need not exit, nor the network fail.
Fairness == WF_vars(RunStep) /\ WF_vars(Kill)

Spec == Init /\ [][Next]_vars

FairSpec == Spec /\ Fairness

-----------------------------------------------------------------------------
(* Properties.                                                             *)

TypeOK ==
  /\ rpc \in RunPC
  /\ conn \in {"none", "open"}
  /\ session \in {"none", "open", "closed"}
  /\ eSession \in BOOLEAN
  /\ remote \in {"none", "running", "exited"}
  /\ runErr \in {"none", "nil", "err"}
  /\ kills \in 0..MaxKills

\* Section 4.1: Kill may be called concurrently with Run and makes Run
\* return promptly; once the scheduler has killed the step, Run returns.
KillEndsRun == (kills > 0) ~> (rpc = "done")

=============================================================================

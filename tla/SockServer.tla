----------------------------- MODULE SockServer -----------------------------
(***************************************************************************)
(* The per-run IPC endpoint, internal/sock/server.go: Serve's goroutine    *)
(* (remove the stale socket file, listen, assign srv.listener, notify the  *)
(* listen channel, the accept loop with its quit check and the deferred    *)
(* Shutdown and remove), the goroutine it starts per connection, Shutdown  *)
(* under srv.mu, and the clients that connect.                             *)
(*                                                                         *)
(* The owner is the code that starts Serve and later calls Shutdown (the   *)
(* agent, or the tests).  WaitListen says whether it waits for the         *)
(* notification on the listen channel before calling Shutdown; the tests   *)
(* sleep 50ms instead.                                                     *)
(*                                                                         *)
(* Go's UnixListener.Close unlinks the socket file it created, so closing  *)
(* the listener removes the file.  The request and its response are        *)
(* abstracted away: a handled connection is closed.                        *)
(***************************************************************************)
EXTENDS Naturals, FiniteSets

CONSTANTS
  Clients,     \* the processes that connect to the socket
  NoConn,      \* no connection returned by Accept
  WaitListen   \* the owner waits for the listen notification

ASSUME SockServerAssumption ==
  /\ IsFiniteSet(Clients)
  /\ NoConn \notin Clients
  /\ WaitListen \in BOOLEAN

\* The program counter of Serve's goroutine.
ServePC == {"remove", "listen", "assign", "notify", "accept", "check",
            "deferShutdown", "deferRemove", "done"}

\* A client's connection: not yet tried, refused, queued in the listen
\* backlog, returned by Accept, served by its goroutine, closed by it, reset
\* when the listener closed with it in the backlog, or dropped by Serve.
ConnState == {"idle", "refused", "backlog", "accepted", "handling", "closed",
              "reset", "dropped"}

VARIABLES
  spc,          \* Serve's program counter
  pending,      \* the connection Accept returned, before the quit check
  sockFile,     \* a socket file exists at srv.addr
  lsock,        \* the listening socket: "none", "open" or "closed"
  listenerSet,  \* srv.listener has been assigned
  quit,         \* srv.quit
  notified,     \* Serve has sent on the listen channel
  listenErr,    \* net.Listen failed
  opc,          \* the owner: "run", then "done" once its Shutdown returned
  conn          \* conn[c]: the state of client c's connection

vars == <<spc, pending, sockFile, lsock, listenerSet, quit, notified,
          listenErr, opc, conn>>

-----------------------------------------------------------------------------
(* Shutdown, lines 102-116: under srv.mu, and only the first time, set     *)
(* quit and, if srv.listener has been assigned, close it.  Closing the     *)
(* listener unlinks the socket file and resets the connections still in    *)
(* its backlog.  Every caller of Shutdown runs this as one step.           *)

CloseListener ==
  /\ lsock' = "closed"
  /\ sockFile' = FALSE
  /\ conn' = [c \in Clients |-> IF conn[c] = "backlog" THEN "reset"
                                ELSE conn[c]]

ShutdownBody ==
  IF ~quit
  THEN /\ quit' = TRUE
       /\ IF listenerSet THEN CloseListener
          ELSE UNCHANGED <<lsock, sockFile, conn>>
  ELSE UNCHANGED <<quit, lsock, sockFile, conn>>

-----------------------------------------------------------------------------
(* Serve, lines 63-99.                                                     *)

\* Line 64: remove a stale socket file left by a crashed run.
Remove ==
  /\ spc = "remove"
  /\ sockFile' = FALSE
  /\ spc' = "listen"
  /\ UNCHANGED <<pending, lsock, listenerSet, quit, notified, listenErr,
                 opc, conn>>

\* Mutant of Listen: the listen channel is notified before srv.listener is
\* assigned.
ListenNotifyEarly ==
  /\ spc = "listen"
  /\ sockFile' = TRUE
  /\ lsock' = "open"
  /\ notified' = TRUE
  /\ spc' = "assign"
  /\ UNCHANGED <<pending, listenerSet, quit, listenErr, opc, conn>>

\* Line 66: net.Listen binds the socket, which creates the socket file.
\* The result is assigned to srv.listener in a step of its own.
Listen ==
  /\ spc = "listen"
  /\ sockFile' = TRUE
  /\ lsock' = "open"
  /\ spc' = "assign"
  /\ UNCHANGED <<pending, listenerSet, quit, notified, listenErr, opc, conn>>

\* Lines 67-72: net.Listen fails; the error is sent on the listen channel
\* and Serve returns it.
ListenFail ==
  /\ spc = "listen"
  /\ listenErr' = TRUE
  /\ notified' = TRUE
  /\ spc' = "done"
  /\ UNCHANGED <<pending, sockFile, lsock, listenerSet, quit, opc, conn>>

\* Line 66: srv.listener is assigned, without srv.mu.
Assign ==
  /\ spc = "assign"
  /\ listenerSet' = TRUE
  /\ spc' = "notify"
  /\ UNCHANGED <<pending, sockFile, lsock, quit, notified, listenErr, opc,
                 conn>>

\* Lines 73-75: the nil error is sent on the listen channel.
Notify ==
  /\ spc = "notify"
  /\ notified' = TRUE
  /\ spc' = "accept"
  /\ UNCHANGED <<pending, sockFile, lsock, listenerSet, quit, listenErr,
                 opc, conn>>

\* Line 83: Accept returns the first connection of the backlog.
AcceptConn(c) ==
  /\ spc = "accept"
  /\ lsock = "open"
  /\ conn[c] = "backlog"
  /\ pending' = c
  /\ conn' = [conn EXCEPT ![c] = "accepted"]
  /\ spc' = "check"
  /\ UNCHANGED <<sockFile, lsock, listenerSet, quit, notified, listenErr,
                 opc>>

\* Line 83: Accept on a closed listener returns an error.
AcceptClosed ==
  /\ spc = "accept"
  /\ lsock = "closed"
  /\ pending' = NoConn
  /\ spc' = "check"
  /\ UNCHANGED <<sockFile, lsock, listenerSet, quit, notified, listenErr,
                 opc, conn>>

\* Mutant of Check: the quit flag is not consulted.
CheckIgnoresQuit ==
  /\ spc = "check"
  /\ conn' = IF pending = NoConn THEN conn
             ELSE [conn EXCEPT ![pending] = "handling"]
  /\ spc' = "accept"
  /\ pending' = NoConn
  /\ UNCHANGED <<sockFile, lsock, listenerSet, quit, notified, listenErr,
                 opc>>

\* Lines 84-97: if quit is set Serve returns, dropping a connection Accept
\* has just returned; otherwise a connection gets its own goroutine and the
\* loop accepts again.
Check ==
  /\ spc = "check"
  /\ IF quit
     THEN /\ conn' = IF pending = NoConn THEN conn
                     ELSE [conn EXCEPT ![pending] = "dropped"]
          /\ spc' = "deferShutdown"
     ELSE /\ conn' = IF pending = NoConn THEN conn
                     ELSE [conn EXCEPT ![pending] = "handling"]
          /\ spc' = "accept"
  /\ pending' = NoConn
  /\ UNCHANGED <<sockFile, lsock, listenerSet, quit, notified, listenErr,
                 opc>>

\* Line 79: the deferred Shutdown.
DeferShutdown ==
  /\ spc = "deferShutdown"
  /\ ShutdownBody
  /\ spc' = "deferRemove"
  /\ UNCHANGED <<pending, listenerSet, notified, listenErr, opc>>

\* Line 80: the deferred removal of the socket file.
DeferRemove ==
  /\ spc = "deferRemove"
  /\ sockFile' = FALSE
  /\ spc' = "done"
  /\ UNCHANGED <<pending, lsock, listenerSet, quit, notified, listenErr,
                 opc, conn>>

\* Lines 88-96: the connection's goroutine reads the request, runs the
\* handler and closes the connection.
Handle(c) ==
  /\ conn[c] = "handling"
  /\ conn' = [conn EXCEPT ![c] = "closed"]
  /\ UNCHANGED <<spc, pending, sockFile, lsock, listenerSet, quit, notified,
                 listenErr, opc>>

-----------------------------------------------------------------------------
(* The environment.                                                        *)

\* A client dials srv.addr: the connection is queued if the socket file
\* leads to an open listener, and refused otherwise.
Connect(c) ==
  /\ conn[c] = "idle"
  /\ conn' = [conn EXCEPT ![c] = IF sockFile /\ lsock = "open" THEN "backlog"
                                 ELSE "refused"]
  /\ UNCHANGED <<spc, pending, sockFile, lsock, listenerSet, quit, notified,
                 listenErr, opc>>

\* The owner calls Shutdown (after the listen notification if WaitListen).
OwnerShutdown ==
  /\ opc = "run"
  /\ WaitListen => notified
  /\ ShutdownBody
  /\ opc' = "done"
  /\ UNCHANGED <<spc, pending, listenerSet, notified, listenErr>>

Init ==
  /\ spc = "remove"
  /\ pending = NoConn
  /\ sockFile \in BOOLEAN   \* a stale file may be left by a crashed run
  /\ lsock = "none"
  /\ listenerSet = FALSE
  /\ quit = FALSE
  /\ notified = FALSE
  /\ listenErr = FALSE
  /\ opc = "run"
  /\ conn = [c \in Clients |-> "idle"]

ServeStep ==
  \/ Remove
  \/ Listen
  \/ ListenFail
  \/ Assign
  \/ Notify
  \/ \E c \in Clients : AcceptConn(c)
  \/ AcceptClosed
  \/ Check
  \/ DeferShutdown
  \/ DeferRemove

\* Everything has stopped: Serve and the owner are done, no goroutine is
\* serving.
Quiescent ==
  /\ spc = "done" /\ opc = "done"
  /\ \A c \in Clients : conn[c] # "handling"
  /\ UNCHANGED vars

Next ==
  \/ ServeStep
  \/ \E c \in Clients : Handle(c) \/ Connect(c)
  \/ OwnerShutdown
  \/ Quiescent

\* Go schedules every runnable goroutine; the owner does call Shutdown.
\* Clients need not connect.
Fairness ==
  /\ WF_vars(ServeStep)
  /\ \A c \in Clients : WF_vars(Handle(c))
  /\ WF_vars(OwnerShutdown)

Spec == Init /\ [][Next]_vars

FairSpec == Spec /\ Fairness

-----------------------------------------------------------------------------
(* Properties.                                                             *)

TypeOK ==
  /\ spc \in ServePC
  /\ pending \in Clients \cup {NoConn}
  /\ sockFile \in BOOLEAN
  /\ lsock \in {"none", "open", "closed"}
  /\ listenerSet \in BOOLEAN
  /\ quit \in BOOLEAN
  /\ notified \in BOOLEAN
  /\ listenErr \in BOOLEAN
  /\ opc \in {"run", "done"}
  /\ conn \in [Clients -> ConnState]

\* Section 8: the socket file does not exist after the owner's Shutdown has
\* returned: Shutdown closes a listener Serve assigned, or Serve, finding
\* quit set, never leaves one behind.
SocketGoneAfterShutdown == opc = "done" => ~sockFile

\* Section 4.5: once the owner's Shutdown has returned, Serve returns
\* (ErrServerRequestedShutdown): its Accept is woken by the closed listener.
ServeReturns == (opc = "done") ~> (spc = "done")

\* Section 4.5: every connection the server accepts is served and closed by
\* its goroutine; a connection still queued when the listener closes is
\* reset.  Either way the client gets an answer.
ClientAnswered ==
  \A c \in Clients :
    (conn[c] \in {"backlog", "accepted", "handling"}) ~>
      (conn[c] \in {"closed", "reset"})

=============================================================================

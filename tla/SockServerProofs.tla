-------------------------- MODULE SockServerProofs --------------------------
(***************************************************************************)
(* Proofs about SockServer, for any number of clients: when the owner      *)
(* waits for the listen notification before calling Shutdown, the socket   *)
(* file is gone once Shutdown has returned.                                *)
(*                                                                         *)
(* The argument: only Shutdown sets quit, and the first Shutdown is the     *)
(* owner's, since Serve reaches its deferred Shutdown only with quit set.  *)
(* The owner calls it after the notification, and Serve notifies only      *)
(* after assigning srv.listener or after a failed net.Listen, which leaves *)
(* no file.  So the owner's Shutdown closes an assigned listener, and      *)
(* closing it unlinks the file, which Serve never creates again.           *)
(***************************************************************************)
EXTENDS SockServer, TLAPS

\* Where Serve stands relative to the assignment of srv.listener.
BeforeAssign == {"remove", "listen", "assign"}
AfterAssign == {"notify", "accept", "check", "deferShutdown", "deferRemove"}

\* The inductive invariant, for an owner that waits for the notification.
SockInv ==
  /\ TypeOK
  /\ quit <=> opc = "done"
  /\ opc = "done" => notified
  /\ notified => listenErr \/ listenerSet
  /\ listenErr => spc = "done" /\ ~sockFile
  /\ spc \in BeforeAssign => ~listenerSet /\ ~notified /\ ~listenErr
  /\ spc \in {"remove", "listen"} => lsock = "none"
  /\ spc = "listen" => ~sockFile
  /\ spc \in AfterAssign => listenerSet
  /\ spc = "done" => listenerSet \/ listenErr
  /\ spc \in {"deferShutdown", "deferRemove"} => quit
  /\ listenerSet /\ quit => ~sockFile /\ lsock = "closed"

\* Every step preserves SockInv when the owner waits for the notification.
LEMMA SockInvStep ==
  ASSUME WaitListen, SockInv, [Next]_vars PROVE SockInv'
<1> USE SockServerAssumption
<1>1. CASE Remove
  BY <1>1 DEF SockInv, TypeOK, ServePC, ConnState, BeforeAssign, AfterAssign, Remove
<1>2. CASE Listen
  BY <1>2 DEF SockInv, TypeOK, ServePC, ConnState, BeforeAssign, AfterAssign, Listen
<1>3. CASE ListenFail
  BY <1>3 DEF SockInv, TypeOK, ServePC, ConnState, BeforeAssign, AfterAssign, ListenFail
<1>4. CASE Assign
  BY <1>4 DEF SockInv, TypeOK, ServePC, ConnState, BeforeAssign, AfterAssign, Assign
<1>5. CASE Notify
  BY <1>5 DEF SockInv, TypeOK, ServePC, ConnState, BeforeAssign, AfterAssign, Notify
<1>6. CASE AcceptClosed
  BY <1>6 DEF SockInv, TypeOK, ServePC, ConnState, BeforeAssign, AfterAssign, AcceptClosed
<1>7. CASE Check
  BY <1>7 DEF SockInv, TypeOK, ServePC, ConnState, BeforeAssign, AfterAssign, Check
<1>8. CASE DeferShutdown
  <2>1. CASE quit
    BY <1>8, <2>1 DEF SockInv, TypeOK, ServePC, ConnState, BeforeAssign, AfterAssign, DeferShutdown, ShutdownBody
  <2>2. CASE ~quit /\ listenerSet
    BY <1>8, <2>2 DEF SockInv, TypeOK, ServePC, ConnState, BeforeAssign, AfterAssign, DeferShutdown, ShutdownBody,
                        CloseListener
  <2>3. CASE ~quit /\ ~listenerSet
    BY <1>8, <2>3 DEF SockInv, TypeOK, ServePC, ConnState, BeforeAssign, AfterAssign, DeferShutdown, ShutdownBody
  <2>. QED
    BY <2>1, <2>2, <2>3
<1>9. CASE DeferRemove
  BY <1>9 DEF SockInv, TypeOK, ServePC, ConnState, BeforeAssign, AfterAssign, DeferRemove
<1>10. ASSUME NEW c \in Clients, AcceptConn(c) PROVE SockInv'
  BY <1>10 DEF SockInv, TypeOK, ServePC, ConnState, BeforeAssign, AfterAssign, AcceptConn
<1>11. ASSUME NEW c \in Clients, Handle(c) \/ Connect(c) PROVE SockInv'
  BY <1>11 DEF SockInv, TypeOK, ServePC, ConnState, BeforeAssign, AfterAssign, Handle, Connect
<1>12. CASE OwnerShutdown
  <2>1. CASE quit
    BY <1>12, <2>1 DEF SockInv, TypeOK, ServePC, ConnState, BeforeAssign, AfterAssign, OwnerShutdown, ShutdownBody
  <2>2. CASE ~quit /\ listenerSet
    BY <1>12, <2>2 DEF SockInv, TypeOK, ServePC, ConnState, BeforeAssign, AfterAssign, OwnerShutdown, ShutdownBody,
                        CloseListener
  <2>3. CASE ~quit /\ ~listenerSet
    BY <1>12, <2>3 DEF SockInv, TypeOK, ServePC, ConnState, BeforeAssign, AfterAssign, OwnerShutdown, ShutdownBody
  <2>. QED
    BY <2>1, <2>2, <2>3
<1>13. CASE Quiescent \/ UNCHANGED vars
  BY <1>13 DEF SockInv, TypeOK, ServePC, ConnState, BeforeAssign, AfterAssign, Quiescent, vars
<1>. QED
  BY <1>1, <1>2, <1>3, <1>4, <1>5, <1>6, <1>7, <1>8, <1>9, <1>10, <1>11, <1>12, <1>13 DEF Next, ServeStep

\* The initial state satisfies SockInv, with or without a stale file.
LEMMA SockInvInit == ASSUME Init PROVE SockInv
<1>1. TypeOK
  BY SockServerAssumption DEF Init, TypeOK, ServePC, ConnState
<1>2. ~quit /\ ~notified /\ ~listenErr /\ ~listenerSet /\ opc = "run"
  BY DEF Init
<1>3. spc = "remove" /\ lsock = "none"
  BY DEF Init
<1>. QED
  BY <1>1, <1>2, <1>3 DEF SockInv, BeforeAssign, AfterAssign

\* Section 8: the socket file does not exist after Shutdown returns, for an
\* owner that waits for Serve's listen notification before calling it.
THEOREM SocketGone == WaitListen => (Spec => []SocketGoneAfterShutdown)
<1> SUFFICES ASSUME WaitListen PROVE Spec => []SocketGoneAfterShutdown
  OBVIOUS
<1>1. Init => SockInv
  BY SockInvInit
<1>2. SockInv /\ [Next]_vars => SockInv'
  BY SockInvStep
<1>3. SockInv => SocketGoneAfterShutdown
  BY DEF SockInv, SocketGoneAfterShutdown
<1>. QED
  BY <1>1, <1>2, <1>3, PTL DEF Spec

=============================================================================

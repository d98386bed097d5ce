-------------------------- MODULE DockerExecProofs --------------------------
(***************************************************************************)
(* Proofs about DockerExec: type correctness for every value of the        *)
(* constants, and NoOrphanProcess for a container Run creates itself with  *)
(* autoRemove set and a Kill that calls the current e.cancel.               *)
(*                                                                         *)
(* The argument: the context is cancelled only by a bare cancel function, *)
(* which e.cancel holds only before the container can be running, or by   *)
(* the cancel of lines 143-146 after removeContainer.  removeContainer     *)
(* removes the container while the context is live, and ContainerStart    *)
(* needs a live context and a container that has not been removed.  So a  *)
(* cancelled context never coexists with a running container.             *)
(***************************************************************************)
EXTENDS DockerExec, TLAPS

\* Run's lines before the deferred removeContainer is set up, and the lines
\* of execInContainer.
EarlyPC == {"idle", "client", "pull", "create", "setCancel"}
ExecPC == {"inspect", "execCreate", "execAttach", "execPoll"}

\* The inductive invariant behind NoOrphanProcess.
DInv ==
  /\ TypeOK
  /\ kpc \in {"idle", "cancel"}
  /\ rpc \notin ExecPC
  /\ rpc \in EarlyPC => ~removing /\ cancelFn # "removeAndCancel"
  /\ rpc \in {"idle", "client", "pull", "create"} => proc = "none"
  /\ rpc \in {"start", "wait", "remove"} => cancelFn = "removeAndCancel"
  /\ cancelFn # "removeAndCancel" => proc \in {"none", "created"}
  /\ kpc = "cancel" => removing
  /\ removing /\ ~ctxDone => proc = "removed"
  /\ ctxDone => proc # "running"

\* The hypotheses of NoOrphanProcess: autoRemove, an atomic Kill, and a
\* container created by Run.
OwnContainer == AutoRemove /\ ~KillReadsStale /\ ~ExecMode


\* The bound on the Kill calls the type invariant uses.
LEMMA MaxKillsNat == MaxKills \in Nat
BY DockerAssumption

\* Every step keeps the variables in their types, whatever the constants.
LEMMA TypeStep == TypeOK /\ [Next]_vars => TypeOK'
<1> SUFFICES ASSUME TypeOK, [Next]_vars PROVE TypeOK'
  OBVIOUS
<1>0. MaxKills \in Nat
  BY MaxKillsNat
<1>1. CASE RunStart
  BY <1>1 DEF TypeOK, RunPC, CancelFn, ProcState, RunStart
<1>2. CASE RunClient
  BY <1>2 DEF TypeOK, RunPC, CancelFn, ProcState, RunClient, Return, RemoveContainer
<1>3. CASE RunPull
  BY <1>3 DEF TypeOK, RunPC, CancelFn, ProcState, RunPull, Return, RemoveContainer
<1>4. CASE RunCreate
  BY <1>4 DEF TypeOK, RunPC, CancelFn, ProcState, RunCreate, Return, RemoveContainer
<1>5. CASE RunSetCancel
  BY <1>5 DEF TypeOK, RunPC, CancelFn, ProcState, RunSetCancel
<1>6. CASE RunContainerStart
  BY <1>6 DEF TypeOK, RunPC, CancelFn, ProcState, RunContainerStart
<1>7. CASE RunWait
  BY <1>7 DEF TypeOK, RunPC, CancelFn, ProcState, RunWait
<1>8. CASE RunRemove
  BY <1>8 DEF TypeOK, RunPC, CancelFn, ProcState, RunRemove, Return, RemoveContainer
<1>9. CASE ExecInspect
  BY <1>9 DEF TypeOK, RunPC, CancelFn, ProcState, ExecInspect, Return, RemoveContainer
<1>10. CASE ExecCreate
  BY <1>10 DEF TypeOK, RunPC, CancelFn, ProcState, ExecCreate, Return, RemoveContainer
<1>11. CASE ExecAttach
  BY <1>11 DEF TypeOK, RunPC, CancelFn, ProcState, ExecAttach, Return, RemoveContainer
<1>12. CASE ExecPoll
  BY <1>12 DEF TypeOK, RunPC, CancelFn, ProcState, ExecPoll, Return, RemoveContainer
<1>13. CASE RunLogsFail
  BY <1>13 DEF TypeOK, RunPC, CancelFn, ProcState, RunLogsFail
<1>14. CASE Kill
  <2>1. CASE cancelFn = "nil"
    BY <1>0, <1>14, <2>1 DEF TypeOK, RunPC, CancelFn, ProcState, Kill, CallCancel, RemoveContainer, MayKill
  <2>2. CASE cancelFn = "cancelOnly"
    BY <1>0, <1>14, <2>2 DEF TypeOK, RunPC, CancelFn, ProcState, Kill, CallCancel, RemoveContainer, MayKill
  <2>3. CASE cancelFn = "removeAndCancel"
    <3>1. CASE AutoRemove /\ ~removing
      BY <1>0, <1>14, <2>3, <3>1 DEF TypeOK, RunPC, CancelFn, ProcState, Kill, CallCancel, RemoveContainer, MayKill
    <3>2. CASE ~(AutoRemove /\ ~removing)
      BY <1>0, <1>14, <2>3, <3>2 DEF TypeOK, RunPC, CancelFn, ProcState, Kill, CallCancel, RemoveContainer, MayKill
    <3>. QED
      BY <3>1, <3>2
  <2>. QED
    BY <2>1, <2>2, <2>3 DEF TypeOK, CancelFn
<1>15. CASE KillRead
  BY <1>0, <1>15 DEF TypeOK, RunPC, CancelFn, ProcState, KillRead, MayKill
<1>16. CASE KillCall
  <2>1. CASE kread = "nil"
    BY <1>16, <2>1 DEF TypeOK, RunPC, CancelFn, ProcState, KillCall, CallCancel, RemoveContainer
  <2>2. CASE kread = "cancelOnly"
    BY <1>16, <2>2 DEF TypeOK, RunPC, CancelFn, ProcState, KillCall, CallCancel, RemoveContainer
  <2>3. CASE kread = "removeAndCancel"
    BY <1>16, <2>3 DEF TypeOK, RunPC, CancelFn, ProcState, KillCall, CallCancel, RemoveContainer
  <2>. QED
    BY <2>1, <2>2, <2>3 DEF TypeOK, CancelFn
<1>17. CASE KillCancel
  BY <1>17 DEF TypeOK, RunPC, CancelFn, ProcState, KillCancel
<1>18. CASE ProcExit
  BY <1>18 DEF TypeOK, RunPC, CancelFn, ProcState, ProcExit
<1>19. CASE Quiescent \/ UNCHANGED vars
  BY <1>19 DEF TypeOK, RunPC, CancelFn, ProcState, Quiescent, vars
<1>. QED
  BY <1>1, <1>2, <1>3, <1>4, <1>5, <1>6, <1>7, <1>8, <1>9, <1>10, <1>11, <1>12, <1>13, <1>14, <1>15, <1>16, <1>17, <1>18, <1>19 DEF Next, RunStep, KillStep

\* The initial state has the types.
LEMMA InitType == ASSUME Init PROVE TypeOK
<1>1. ctxDone \in BOOLEAN /\ exitZero \in BOOLEAN /\ removing \in BOOLEAN
  BY DEF Init
<1>2. /\ rpc \in RunPC /\ cancelFn \in CancelFn /\ proc \in ProcState
      /\ runErr \in {"none", "nil", "err"} /\ kpc \in {"idle", "read", "cancel"}
      /\ kread \in CancelFn /\ kills \in 0..MaxKills
  BY MaxKillsNat DEF Init, RunPC, CancelFn, ProcState
<1>. QED
  BY <1>1, <1>2 DEF TypeOK

\* The state of Run, Kill and the container keeps its type.
THEOREM TypeCorrect == Spec => []TypeOK
<1>1. Init => TypeOK
  BY InitType
<1>2. TypeOK /\ [Next]_vars => TypeOK'
  BY TypeStep
<1>. QED
  BY <1>1, <1>2, PTL DEF Spec

-----------------------------------------------------------------------------
(* NoOrphanProcess.                                                        *)

\* Every step keeps DInv, for a container Run creates with autoRemove set and
\* a Kill that calls the current e.cancel.
LEMMA DInvStep ==
  ASSUME OwnContainer, DInv, [Next]_vars PROVE DInv'
<1>0. TypeOK'
  BY TypeStep DEF DInv
<1>h. AutoRemove /\ ~KillReadsStale /\ ~ExecMode
  BY DEF OwnContainer
<1>1. CASE RunStart
  BY <1>0, <1>h, <1>1 DEF DInv, TypeOK, RunPC, CancelFn, ProcState, EarlyPC, ExecPC, RunStart
<1>2. CASE RunClient
  BY <1>0, <1>h, <1>2 DEF DInv, TypeOK, RunPC, CancelFn, ProcState, EarlyPC, ExecPC, RunClient, Return
<1>3. CASE RunPull
  BY <1>0, <1>h, <1>3 DEF DInv, TypeOK, RunPC, CancelFn, ProcState, EarlyPC, ExecPC, RunPull, Return
<1>4. CASE RunCreate
  BY <1>0, <1>h, <1>4 DEF DInv, TypeOK, RunPC, CancelFn, ProcState, EarlyPC, ExecPC, RunCreate, Return
<1>5. CASE RunSetCancel
  BY <1>0, <1>h, <1>5 DEF DInv, TypeOK, RunPC, CancelFn, ProcState, EarlyPC, ExecPC, RunSetCancel
<1>6. CASE RunContainerStart
  BY <1>0, <1>h, <1>6 DEF DInv, TypeOK, RunPC, CancelFn, ProcState, EarlyPC, ExecPC, RunContainerStart
<1>7. CASE RunWait
  BY <1>0, <1>h, <1>7 DEF DInv, TypeOK, RunPC, CancelFn, ProcState, EarlyPC, ExecPC, RunWait
<1>8. CASE RunRemove
  BY <1>0, <1>h, <1>8 DEF DInv, TypeOK, RunPC, CancelFn, ProcState, EarlyPC, ExecPC, RunRemove, RemoveContainer
<1>9. CASE ExecInspect
  BY <1>0, <1>h, <1>9 DEF DInv, TypeOK, RunPC, CancelFn, ProcState, EarlyPC, ExecPC, ExecInspect
<1>10. CASE ExecCreate
  BY <1>0, <1>h, <1>10 DEF DInv, TypeOK, RunPC, CancelFn, ProcState, EarlyPC, ExecPC, ExecCreate
<1>11. CASE ExecAttach
  BY <1>0, <1>h, <1>11 DEF DInv, TypeOK, RunPC, CancelFn, ProcState, EarlyPC, ExecPC, ExecAttach
<1>12. CASE ExecPoll
  BY <1>0, <1>h, <1>12 DEF DInv, TypeOK, RunPC, CancelFn, ProcState, EarlyPC, ExecPC, ExecPoll
<1>13. CASE RunLogsFail
  BY <1>0, <1>h, <1>13 DEF DInv, TypeOK, RunPC, CancelFn, ProcState, EarlyPC, ExecPC, RunLogsFail
<1>14. CASE Kill
  <2>1. CASE cancelFn = "nil"
    BY <1>0, <1>h, <1>14, <2>1 DEF DInv, TypeOK, RunPC, CancelFn, ProcState, EarlyPC, ExecPC, Kill, MayKill, CallCancel
  <2>2. CASE cancelFn = "cancelOnly"
    BY <1>0, <1>h, <1>14, <2>2 DEF DInv, TypeOK, RunPC, CancelFn, ProcState, EarlyPC, ExecPC, Kill, MayKill, CallCancel
  <2>3. CASE cancelFn = "removeAndCancel"
    <3>1. CASE ~removing
      BY <1>0, <1>h, <1>14, <2>3, <3>1 DEF DInv, TypeOK, RunPC, CancelFn, ProcState, EarlyPC, ExecPC, Kill, MayKill, CallCancel, RemoveContainer
    <3>2. CASE removing
      BY <1>0, <1>h, <1>14, <2>3, <3>2 DEF DInv, TypeOK, RunPC, CancelFn, ProcState, EarlyPC, ExecPC, Kill, MayKill, CallCancel, RemoveContainer
    <3>. QED
      BY <3>1, <3>2
  <2>. QED
    BY <2>1, <2>2, <2>3 DEF DInv, TypeOK, CancelFn
<1>15. CASE KillRead \/ KillCall
  BY <1>h, <1>15 DEF DInv, KillRead, KillCall
<1>16. CASE KillCancel
  BY <1>0, <1>16 DEF DInv, TypeOK, RunPC, CancelFn, ProcState, EarlyPC, ExecPC, KillCancel
<1>17. CASE ProcExit
  BY <1>0, <1>17 DEF DInv, TypeOK, RunPC, CancelFn, ProcState, EarlyPC, ExecPC, ProcExit
<1>18. CASE Quiescent \/ UNCHANGED vars
  BY <1>0, <1>18 DEF DInv, TypeOK, RunPC, CancelFn, ProcState, EarlyPC, ExecPC, Quiescent, vars
<1>. QED
  BY <1>1, <1>2, <1>3, <1>4, <1>5, <1>6, <1>7, <1>8, <1>9, <1>10, <1>11, <1>12, <1>13, <1>14, <1>15, <1>16, <1>17, <1>18 DEF Next, RunStep, KillStep

\* The initial state satisfies DInv.
LEMMA DInvInit == ASSUME Init PROVE DInv
<1>1. TypeOK
  BY InitType
<1>2. ~ctxDone /\ ~removing /\ rpc = "idle" /\ cancelFn = "nil" /\ proc = "none" /\ kpc = "idle"
  BY DEF Init
<1>. QED
  BY <1>1, <1>2 DEF DInv, EarlyPC, ExecPC

\* Section 4.1: once Run has returned after a Kill cancelled its context,
\* the container is not running, when Run creates the container with
\* autoRemove set and Kill calls the current e.cancel.
THEOREM NoOrphan == OwnContainer => (Spec => []NoOrphanProcess)
<1> SUFFICES ASSUME OwnContainer PROVE Spec => []NoOrphanProcess
  OBVIOUS
<1>1. Init => DInv
  BY DInvInit
<1>2. DInv /\ [Next]_vars => DInv'
  BY DInvStep
<1>3. DInv => NoOrphanProcess
  BY DEF DInv, NoOrphanProcess
<1>. QED
  BY <1>1, <1>2, <1>3, PTL DEF Spec
=============================================================================

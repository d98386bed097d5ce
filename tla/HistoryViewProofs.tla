-------------------------- MODULE HistoryViewProofs --------------------------
(***************************************************************************)
(* Proof that the history the pages read implements RunHistory: under     *)
(* EditAfterExit, what FindByRequestID shows for a run moves only forward, *)
(* from running to final to edited, for any number of runs, through agent  *)
(* crashes and failed compaction writes.                                   *)
(*                                                                         *)
(* The refinement mapping is shown <- [r \in Run |-> FindStatus(r)].  The  *)
(* argument: FindStatus(r) is always lastWritten[r].  HInv gives this for  *)
(* a run with a status; a run without one has no _c file and an empty      *)
(* original (Unwritten).  So each step maps to the change it makes to      *)
(* lastWritten: Write to Progress, WriteFinal to Finish (an open agent has *)
(* written nothing but running, OpenRunning), UpdateWrite to Edit (the     *)
(* edited run shows a status, since FindByRequestID found a file), and     *)
(* every other step to a stutter.                                          *)
(***************************************************************************)
EXTENDS HistoryStoreProofs

\* The history as its readers see it: the status FindByRequestID shows for
\* each run.
History == INSTANCE RunHistory WITH shown <- [r \in Run |-> FindStatus(r)]

\* A run with no status written has no compacted file and an empty original.
Unwritten(r) ==
  lastWritten[r] = NoStatus => Comp(r) \notin present /\ lines[Orig(r)] = <<>>

\* While its agent is open, a run has written nothing but running.
OpenRunning(r) ==
  apc[r] = "open" => lastWritten[r] \in {NoStatus, "running"}

\* The inductive invariant behind the refinement.
VInv ==
  /\ HInv
  /\ \A r \in Run : Unwritten(r) /\ OpenRunning(r)

\* The refinement mapping.
Shown == [r \in Run |-> FindStatus(r)]

-----------------------------------------------------------------------------
(* A step of one agent.                                                    *)

\* A step of run q's agent touches only q's files and agent.
LEMMA AgentOthers ==
  ASSUME TypeOK, NEW q \in Run, AgentStep(q), NEW r \in Run, r # q
  PROVE  /\ lines'[Orig(r)] = lines[Orig(r)]
         /\ lines'[Comp(r)] = lines[Comp(r)]
         /\ (Orig(r) \in present') <=> (Orig(r) \in present)
         /\ (Comp(r) \in present') <=> (Comp(r) \in present)
         /\ apc'[r] = apc[r]
<1>1. /\ Orig(q) # Orig(r) /\ Orig(q) # Comp(r)
      /\ Comp(q) # Orig(r) /\ Comp(q) # Comp(r)
      /\ Orig(r) \in File /\ Comp(r) \in File
  BY FilesDistinct
<1>. QED
  BY <1>1 DEF TypeOK, AgentStep, Open, Write, WriteFinal, Close, CompactOpen,
              CompactWrite, CompactWriteFail, CompactRemove, Crash, TornWrite,
              OpenFile, AppendLine, RemoveFile

-----------------------------------------------------------------------------
(* The history shows lastWritten.                                          *)

\* FindStatus(r) is the last status written to run r, or none if there is
\* none.
LEMMA ShownIsLast ==
  ASSUME VInv PROVE Shown = lastWritten
<1>1. ASSUME NEW r \in Run PROVE FindStatus(r) = lastWritten[r]
  <2>1. CASE lastWritten[r] # NoStatus
    BY <2>1 DEF VInv, HInv, FindReturnsLastWrite
  <2>2. CASE lastWritten[r] = NoStatus
    <3>1. Comp(r) \notin present /\ lines[Orig(r)] = <<>>
      BY <2>2 DEF VInv, Unwritten
    <3>2. /\ PF(lines[Comp(r)], Comp(r) \in present) = NoStatus
          /\ PF(lines[Orig(r)], Orig(r) \in present) = NoStatus
      BY <3>1, PFEmpty
    <3>. QED
      BY <2>2, <3>2, FindDef DEF FSC
  <2>. QED
    BY <2>1, <2>2
<1>2. lastWritten \in [Run -> Status \cup {NoStatus}]
  BY DEF VInv, HInv, TypeOK
<1>. QED
  BY <1>1, <1>2 DEF Shown

\* A step of run q's agent leaves the history of every other run alone.
LEMMA AgentOthersWritten ==
  ASSUME TypeOK, NEW q \in Run, AgentStep(q), NEW r \in Run, r # q
  PROVE  lastWritten'[r] = lastWritten[r]
BY DEF TypeOK, AgentStep, Open, Write, WriteFinal, Close, CompactOpen,
       CompactWrite, CompactWriteFail, CompactRemove, Crash, TornWrite

\* A step that leaves run r's files, agent and history alone keeps what
\* VInv says of r.
LEMMA ViewFrame ==
  ASSUME NEW r \in Run,
         lines'[Orig(r)] = lines[Orig(r)],
         (Comp(r) \in present') <=> (Comp(r) \in present),
         apc'[r] = apc[r], lastWritten'[r] = lastWritten[r]
  PROVE  (Unwritten(r) /\ OpenRunning(r))' <=> (Unwritten(r) /\ OpenRunning(r))
BY DEF Unwritten, OpenRunning

\* The step of run q's agent keeps what VInv says of q.
LEMMA AgentSelfView ==
  ASSUME EditAfterExit, VInv, NEW q \in Run, AgentStep(q)
  PROVE  (Unwritten(q) /\ OpenRunning(q))'
<1>1. TypeOK /\ AgentFiles(q) /\ Unwritten(q) /\ OpenRunning(q)
  BY DEF VInv, HInv
<1>2. q \in DOMAIN apc /\ q \in DOMAIN lastWritten /\ Orig(q) \in File
      /\ Comp(q) \in File /\ Orig(q) # Comp(q)
  BY <1>1, FilesDistinct DEF TypeOK
<1>3. CASE Open(q)
  <2>1. Orig(q) \notin present /\ Comp(q) \notin present
        /\ lastWritten[q] = NoStatus
    BY <1>1, <1>3 DEF Open, AgentFiles
  <2>2. lines'[Orig(q)] = <<>> /\ present' = present \cup {Orig(q)}
    BY <1>1, <1>2, <1>3, <2>1 DEF Open, OpenFile, TypeOK
  <2>. QED
    BY <1>2, <1>3, <2>1, <2>2 DEF Open, Unwritten, OpenRunning
<1>4. CASE Write(q) \/ WriteFinal(q)
  BY <1>2, <1>4 DEF Write, WriteFinal, Unwritten, OpenRunning, NoStatus
<1>5. CASE Close(q) \/ Crash(q)
  <2>1. UNCHANGED <<present, lines, lastWritten>> /\ apc'[q] # "open"
    BY <1>2, <1>5 DEF Close, Crash, Alive
  <2>. QED
    BY <1>1, <2>1 DEF Unwritten, OpenRunning
<1>6. CASE CompactOpen(q) \/ CompactWrite(q) \/ CompactWriteFail(q)
           \/ CompactRemove(q)
  <2>1. lastWritten[q] # NoStatus
    BY <1>1, <1>6 DEF CompactOpen, CompactWrite, CompactWriteFail,
                      CompactRemove, AgentFiles
  <2>2. lastWritten' = lastWritten /\ apc'[q] # "open"
    BY <1>2, <1>6 DEF CompactOpen, CompactWrite, CompactWriteFail,
                      CompactRemove
  <2>. QED
    BY <2>1, <2>2 DEF Unwritten, OpenRunning
<1>7. ~TornWrite(q)
  BY DEF EditAfterExit, TornWrite
<1>. QED
  BY <1>3, <1>4, <1>5, <1>6, <1>7 DEF AgentStep

\* The steps of UpdateStatus keep VInv's facts: an edit appends to a file
\* of the edited run, and gives it a status.
LEMMA UpdateView ==
  ASSUME VInv, UpdateStep, NEW r \in Run
  PROVE  (Unwritten(r) /\ OpenRunning(r))'
<1>1. TypeOK /\ UpdaterState /\ Unwritten(r) /\ OpenRunning(r)
  BY DEF VInv, HInv
<1>2. CASE \E q \in Run : UpdateRefused(q) \/ UpdateStatus(q)
  BY <1>1, <1>2 DEF UpdateRefused, UpdateStatus, Unwritten, OpenRunning
<1>3. CASE UpdateFind
  BY <1>1, <1>3 DEF UpdateFind, Unwritten, OpenRunning
<1>4. CASE UpdateOpen
  <2>1. ufile \in present
    BY <1>1, <1>4 DEF UpdateOpen, UpdaterState
  <2>. QED
    BY <1>1, <1>4, <2>1 DEF UpdateOpen, OpenFile, Unwritten, OpenRunning
<1>5. CASE UpdateWrite
  <2>1. /\ ureq \in Run /\ apc[ureq] \in Exited
        /\ ufile \in {Orig(ureq), Comp(ureq)}
    BY <1>1, <1>5, FoundFile DEF UpdateWrite, UpdaterState, TypeOK
  <2>2. UNCHANGED <<present, apc>>
        /\ lastWritten' = [lastWritten EXCEPT ![ureq] = "edited"]
    BY <1>5 DEF UpdateWrite
  <2>3. CASE r = ureq
    BY <1>1, <2>1, <2>2, <2>3 DEF TypeOK, Unwritten, OpenRunning, Exited, NoStatus
  <2>4. CASE r # ureq
    <3>1. ufile # Orig(r) /\ Orig(r) \in File
      BY <2>1, <2>4, FilesDistinct
    <3>2. lines'[Orig(r)] = lines[Orig(r)]
      BY <1>1, <1>5, <3>1 DEF UpdateWrite, AppendLine, TypeOK
    <3>3. lastWritten'[r] = lastWritten[r]
      BY <1>1, <2>2, <2>4 DEF TypeOK
    <3>. QED
      BY <1>1, <2>2, <3>2, <3>3, ViewFrame
  <2>. QED
    BY <2>3, <2>4
<1>. QED
  BY <1>2, <1>3, <1>4, <1>5 DEF UpdateStep

-----------------------------------------------------------------------------
(* VInv is inductive.                                                      *)

LEMMA VInvStep ==
  ASSUME EditAfterExit, VInv, [Next]_vars PROVE VInv'
<1>1. HInv'
  BY HInvStep DEF VInv
<1>2. ASSUME NEW r \in Run PROVE (Unwritten(r) /\ OpenRunning(r))'
  <2>1. TypeOK /\ Unwritten(r) /\ OpenRunning(r)
    BY DEF VInv, HInv
  <2>2. CASE \E q \in Run : AgentStep(q)
    <3>1. PICK q \in Run : AgentStep(q)
      BY <2>2
    <3>2. CASE r = q
      BY <3>1, <3>2, AgentSelfView
    <3>3. CASE r # q
      BY <2>1, <3>1, <3>3, AgentOthers, AgentOthersWritten, ViewFrame
    <3>. QED
      BY <3>2, <3>3
  <2>3. CASE UpdateStep
    BY <2>3, UpdateView
  <2>4. CASE Quiescent \/ UNCHANGED vars
    BY <2>1, <2>4 DEF Quiescent, vars, Unwritten, OpenRunning
  <2>. QED
    BY <2>2, <2>3, <2>4 DEF Next
<1>. QED
  BY <1>1, <1>2 DEF VInv

LEMMA VInvInit ==
  ASSUME Init PROVE VInv
<1>1. HInv
  BY HInvInit
<1>2. \A r \in Run : Orig(r) \in File
  BY FilesDistinct
<1>. QED
  BY <1>1, <1>2 DEF Init, VInv, Unwritten, OpenRunning

-----------------------------------------------------------------------------
(* Every step maps to a step of RunHistory or to a stutter.                *)

\* ShownIsLast, in the next state.
LEMMA ShownIsLastNext ==
  ASSUME VInv' PROVE Shown' = lastWritten'
<1>1. ASSUME NEW r \in Run PROVE FindStatus(r)' = lastWritten'[r]
  <2>1. CASE lastWritten'[r] # NoStatus
    BY <2>1 DEF VInv, HInv, FindReturnsLastWrite
  <2>2. CASE lastWritten'[r] = NoStatus
    <3>1. Comp(r) \notin present' /\ lines'[Orig(r)] = <<>>
      BY <2>2 DEF VInv, Unwritten
    <3>2. /\ PF(lines'[Comp(r)], Comp(r) \in present') = NoStatus
          /\ PF(lines'[Orig(r)], Orig(r) \in present') = NoStatus
      BY <3>1, PFEmpty
    <3>. QED
      BY <2>2, <3>2, FindDefNext DEF FSC
  <2>. QED
    BY <2>1, <2>2
<1>2. lastWritten' \in [Run -> Status \cup {NoStatus}]
  BY DEF VInv, HInv, TypeOK
<1>. QED
  BY <1>1, <1>2 DEF Shown

\* A run FindByRequestID finds a file for shows a status.
LEMMA FoundShows ==
  ASSUME NEW r \in Run, FindByRequestID(r) # NoFile
  PROVE  FindStatus(r) # NoStatus
<1>1. /\ FindByRequestID(r) = FBR(r, lines[Comp(r)], Comp(r) \in present,
                                  lines[Orig(r)], Orig(r) \in present)
      /\ FindStatus(r) = FSC(lines[Comp(r)], Comp(r) \in present,
                             lines[Orig(r)], Orig(r) \in present)
  BY FindDef
<1>. QED
  BY <1>1 DEF FBR, FSC

\* The steps of the store, seen through lastWritten.
LEMMA WrittenStep ==
  ASSUME VInv, [Next]_vars
  PROVE  \/ lastWritten' = lastWritten
         \/ \E r \in Run :
              \/ /\ lastWritten[r] \in {NoStatus, "running"}
                 /\ lastWritten' = [lastWritten EXCEPT ![r] = "running"]
              \/ /\ lastWritten[r] \in {NoStatus, "running"}
                 /\ lastWritten' = [lastWritten EXCEPT ![r] = "final"]
              \/ /\ lastWritten[r] # NoStatus
                 /\ lastWritten' = [lastWritten EXCEPT ![r] = "edited"]
<1>1. TypeOK /\ UpdaterState /\ \A r \in Run : OpenRunning(r)
  BY DEF VInv, HInv
<1>2. CASE \E q \in Run : AgentStep(q)
  <2>1. PICK q \in Run : AgentStep(q)
    BY <1>2
  <2>2. CASE Write(q) \/ WriteFinal(q)
    BY <1>1, <2>2 DEF Write, WriteFinal, OpenRunning
  <2>3. CASE ~(Write(q) \/ WriteFinal(q))
    BY <2>1, <2>3 DEF AgentStep, Open, Close, CompactOpen, CompactWrite,
                      CompactWriteFail, CompactRemove, Crash, TornWrite
  <2>. QED
    BY <2>2, <2>3
<1>3. CASE UpdateWrite
  <2>1. ureq \in Run /\ FindByRequestID(ureq) # NoFile
    BY <1>1, <1>3 DEF UpdateWrite, UpdaterState, TypeOK
  <2>2. lastWritten[ureq] # NoStatus
    <3>1. FindStatus(ureq) # NoStatus
      BY <2>1, FoundShows
    <3>2. Shown[ureq] = lastWritten[ureq]
      BY ShownIsLast
    <3>. QED
      BY <2>1, <3>1, <3>2 DEF Shown
  <2>. QED
    BY <1>3, <2>1, <2>2 DEF UpdateWrite
<1>4. CASE UpdateStep /\ ~UpdateWrite
  BY <1>4 DEF UpdateStep, UpdateRefused, UpdateStatus, UpdateFind,
              UpdateOpen
<1>5. CASE Quiescent \/ UNCHANGED vars
  BY <1>5 DEF Quiescent, vars
<1>. QED
  BY <1>2, <1>3, <1>4, <1>5 DEF Next

\* The store's step maps to a step of RunHistory or a stutter.
LEMMA RefineStep ==
  ASSUME EditAfterExit, VInv, [Next]_vars
  PROVE  [History!Next]_([r \in Run |-> FindStatus(r)])
<1>1. VInv'
  BY VInvStep
<1>2. [r \in Run |-> FindStatus(r)] = lastWritten
  BY ShownIsLast DEF Shown
<1>3. ([r \in Run |-> FindStatus(r)])' = lastWritten'
  BY <1>1, ShownIsLastNext DEF Shown
<1>. QED
  BY <1>2, <1>3, WrittenStep
     DEF History!Next, History!Progress, History!Finish, History!Edit,
         History!NoStatus, NoStatus

\* The initial store maps to RunHistory's initial state.
LEMMA RefineInit ==
  ASSUME Init PROVE History!Init
<1>1. VInv
  BY VInvInit
<1>2. [r \in Run |-> FindStatus(r)] = lastWritten
  BY <1>1, ShownIsLast DEF Shown
<1>. QED
  BY <1>2 DEF Init, History!Init, History!NoStatus, NoStatus

\* jsondb.go, Write and Update, read back by FindByRequestID: as long as the
\* user edits a run only after its agent has exited and no write is torn,
\* the status the history shows for each run moves only forward (running,
\* then final, then edited), through agent crashes and failed compaction
\* writes.
THEOREM HistoryRefinement ==
  EditAfterExit => (Spec => History!Spec)
<1> SUFFICES ASSUME EditAfterExit PROVE Spec => History!Spec
  OBVIOUS
<1>1. Init => VInv
  BY VInvInit
<1>2. VInv /\ [Next]_vars => VInv'
  BY VInvStep
<1>3. Init => History!Init
  BY RefineInit
<1>4. VInv /\ [Next]_vars => [History!Next]_([r \in Run |-> FindStatus(r)])
  BY RefineStep
<1>. QED
  BY <1>1, <1>2, <1>3, <1>4, PTL DEF Spec, History!Spec

=============================================================================

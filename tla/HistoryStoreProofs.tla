------------------------- MODULE HistoryStoreProofs -------------------------
(***************************************************************************)
(* Proofs about HistoryStore, for any number of runs: when the user edits *)
(* a run only after its agent has exited and no write is cut short,        *)
(* FindByRequestID shows the last status stored, through agent crashes and *)
(* failed compaction writes.                                               *)
(*                                                                         *)
(* The argument: each stage of the agent fixes which of the run's two     *)
(* files exist and what they hold.  Compact copies the original's last     *)
(* status into an empty _c file before it removes the original, and       *)
(* FindByRequestID skips an empty _c file, so every stage, and every place *)
(* an agent can be killed, shows the last status.  An exited run's files  *)
(* change only by Update, which appends to the file FindByRequestID       *)
(* chose, and nothing changes that choice between the find and the write.  *)
(***************************************************************************)
EXTENDS HistoryStore, SequenceTheorems, TLAPS

\* ParseFile and FindByRequestID as functions of a file's content and
\* existence.
PF(s, in) ==
  IF ~in \/ {i \in 1..Len(s) : s[i] # Garbage} = {} THEN NoStatus
  ELSE s[CHOOSE i \in {k \in 1..Len(s) : s[k] # Garbage} :
           \A j \in {k \in 1..Len(s) : s[k] # Garbage} : i >= j]

\* Every line is complete and parses.
Clean == \A f \in File : lines[f] \in Seq(Status) /\ ~tail[f]

\* What each stage of run r's agent leaves in the run's files.
AgentFiles(r) ==
  /\ apc[r] = "idle" =>
       Orig(r) \notin present /\ Comp(r) \notin present
       /\ lastWritten[r] = NoStatus
  /\ apc[r] \in {"open", "final"} =>
       Orig(r) \in present /\ Comp(r) \notin present
       /\ (lastWritten[r] = NoStatus => lines[Orig(r)] = <<>>)
  /\ apc[r] \in {"compactOpen", "compactWrite", "compactRemove"} =>
       Orig(r) \in present /\ cval[r] = lastWritten[r]
       /\ lastWritten[r] # NoStatus
  /\ apc[r] = "compactOpen" => Comp(r) \notin present
  /\ apc[r] = "compactWrite" => Comp(r) \in present /\ lines[Comp(r)] = <<>>
  /\ apc[r] = "compactRemove" =>
       Comp(r) \in present /\ lines[Comp(r)] = <<cval[r]>>

\* The edit in progress is of an exited run, and goes to the file
\* FindByRequestID chooses for it.
UpdaterState ==
  /\ upc # "idle" => apc[ureq] \in Exited /\ ucount < MaxUpdates
  /\ upc \in {"open", "write"} =>
       ufile = FindByRequestID(ureq) /\ ufile # NoFile /\ ufile \in present
  /\ upc = "write" => gen[ufile] = uinode

\* The inductive invariant behind FindReturnsLastWrite.
HInv ==
  /\ TypeOK
  /\ Clean
  /\ \A r \in Run : AgentFiles(r)
  /\ UpdaterState
  /\ FindReturnsLastWrite

\* The hypotheses: edits only of exited runs, and no torn writes.
EditAfterExit == UpdateAfterClose /\ ~TornWrites


\* FindByRequestID and FindStatus as functions of the content and existence
\* of run r's two files.
FBR(r, sc, bc, so, bo) ==
  IF PF(sc, bc) # NoStatus THEN Comp(r)
  ELSE IF PF(so, bo) # NoStatus THEN Orig(r) ELSE NoFile
FSC(sc, bc, so, bo) ==
  IF PF(sc, bc) # NoStatus THEN PF(sc, bc) ELSE PF(so, bo)

-----------------------------------------------------------------------------
(* ParseFile and FindByRequestID.                                          *)

\* A missing or empty file holds no status.
LEMMA PFEmpty ==
  ASSUME NEW s, NEW b, s = <<>> \/ ~b
  PROVE  PF(s, b) = NoStatus
BY DEF PF

\* A file of complete status lines parses to its last line.
LEMMA PFLast ==
  ASSUME NEW s \in Seq(Status), Len(s) > 0
  PROVE  PF(s, TRUE) = s[Len(s)]
<1> DEFINE V == {k \in 1..Len(s) : s[k] # Garbage}
<1>1. V = 1..Len(s)
  BY DEF Status, Garbage
<1>2. Len(s) \in V /\ \A j \in V : Len(s) >= j
  BY <1>1
<1>3. \A i \in V : (\A j \in V : i >= j) => i = Len(s)
  BY <1>1, <1>2
<1>4. (CHOOSE i \in V : \A j \in V : i >= j) = Len(s)
  BY <1>2, <1>3, Zenon
<1>. QED
  BY <1>1, <1>4 DEF PF

\* Appending a status line makes it what the file parses to.
LEMMA PFAppend ==
  ASSUME NEW s \in Seq(Status), NEW x \in Status
  PROVE  PF(Append(s, x), TRUE) = x
<1>1. Append(s, x) \in Seq(Status) /\ Len(Append(s, x)) = Len(s) + 1
  BY AppendProperties
<1>2. Append(s, x)[Len(s) + 1] = x
  BY AppendProperties
<1>3. Len(Append(s, x)) > 0
  BY <1>1, LenProperties
<1>4. PF(Append(s, x), TRUE) = Append(s, x)[Len(Append(s, x))]
  BY <1>1, <1>3, PFLast
<1>. QED
  BY <1>1, <1>2, <1>4

\* A file of status lines parses to a status or to none.
LEMMA PFType ==
  ASSUME NEW s \in Seq(Status), NEW b
  PROVE  PF(s, b) \in Status \cup {NoStatus}
<1>1. CASE s = <<>> \/ ~b
  BY <1>1, PFEmpty
<1>2. CASE s # <<>> /\ b
  <2>1. Len(s) > 0 /\ Len(s) \in Nat
    BY <1>2, EmptySeq, LenProperties
  <2>2. PF(s, b) = s[Len(s)]
    BY <1>2, <2>1, PFLast
  <2>. QED
    BY <2>1, <2>2
<1>. QED
  BY <1>1, <1>2

\* FindByRequestID and FindStatus read only run r's two files.
LEMMA FindDef ==
  ASSUME NEW r \in Run
  PROVE  /\ FindByRequestID(r) = FBR(r, lines[Comp(r)], Comp(r) \in present,
                                     lines[Orig(r)], Orig(r) \in present)
         /\ FindStatus(r) = FSC(lines[Comp(r)], Comp(r) \in present,
                                lines[Orig(r)], Orig(r) \in present)
<1>1. Comp(r) # NoFile /\ Orig(r) # NoFile
  BY DEF Run, Comp, Orig, NoFile
<1>2. \A f \in {Comp(r), Orig(r)} : ParseFile(f) = PF(lines[f], f \in present)
  BY DEF ParseFile, ValidIdx, PF
<1>3. FindByRequestID(r) = FBR(r, lines[Comp(r)], Comp(r) \in present,
                               lines[Orig(r)], Orig(r) \in present)
  BY <1>2 DEF FindByRequestID, FBR
<1>. QED
  BY <1>1, <1>2, <1>3 DEF FindStatus, FSC, FBR

\* The same, in the next state.
LEMMA FindDefNext ==
  ASSUME NEW r \in Run
  PROVE  /\ FindByRequestID(r)' = FBR(r, lines'[Comp(r)], Comp(r) \in present',
                                      lines'[Orig(r)], Orig(r) \in present')
         /\ FindStatus(r)' = FSC(lines'[Comp(r)], Comp(r) \in present',
                                 lines'[Orig(r)], Orig(r) \in present')
<1>1. Comp(r) # NoFile /\ Orig(r) # NoFile
  BY DEF Run, Comp, Orig, NoFile
<1>2. \A f \in {Comp(r), Orig(r)} : ParseFile(f)' = PF(lines'[f], f \in present')
  BY DEF ParseFile, ValidIdx, PF
<1>3. FindByRequestID(r)' = FBR(r, lines'[Comp(r)], Comp(r) \in present',
                                lines'[Orig(r)], Orig(r) \in present')
  BY <1>2 DEF FindByRequestID, FBR
<1>. QED
  BY <1>1, <1>2, <1>3 DEF FindStatus, FSC, FBR


-----------------------------------------------------------------------------
(* What holds of each run, and how it survives a step that leaves the run  *)
(* alone.                                                                  *)

\* The facts of HInv about run r.
RunOK(r) ==
  /\ AgentFiles(r)
  /\ lastWritten[r] # NoStatus => FindStatus(r) = lastWritten[r]

\* The facts about the constants the proofs use.
LEMMA RunType == Run \subseteq Nat \ {0}
BY DEF Run

LEMMA MaxUpdatesNat == MaxUpdates \in Nat
BY HistoryAssumption

\* Distinct runs have distinct files, and a run's two files differ.
LEMMA FilesDistinct ==
  ASSUME NEW r \in Run, NEW q \in Run
  PROVE  /\ Orig(r) # Comp(q)
         /\ r # q => Orig(r) # Orig(q) /\ Comp(r) # Comp(q)
         /\ Orig(r) \in File /\ Comp(r) \in File
         /\ Orig(r) # NoFile /\ Comp(r) # NoFile
BY DEF Orig, Comp, File, NoFile, Run

\* HInv is the conjunction of the facts about each run and the others.
LEMMA HInvByRun ==
  HInv <=> /\ TypeOK /\ Clean /\ UpdaterState
           /\ \A r \in Run : RunOK(r)
BY DEF HInv, RunOK, FindReturnsLastWrite

\* A step that leaves run r's files, agent and history alone keeps RunOK(r).
LEMMA RunFrame ==
  ASSUME NEW r \in Run,
         lines'[Orig(r)] = lines[Orig(r)], lines'[Comp(r)] = lines[Comp(r)],
         (Orig(r) \in present') <=> (Orig(r) \in present),
         (Comp(r) \in present') <=> (Comp(r) \in present),
         apc'[r] = apc[r], cval'[r] = cval[r], lastWritten'[r] = lastWritten[r]
  PROVE  RunOK(r)' <=> RunOK(r)
<1>1. FindStatus(r)' = FindStatus(r)
  BY FindDef, FindDefNext
<1>. QED
  BY <1>1 DEF RunOK, AgentFiles

\* The file FindByRequestID chooses for a run is one of its files, and it
\* exists.
LEMMA FoundFile ==
  ASSUME NEW r \in Run, FindByRequestID(r) # NoFile
  PROVE  /\ FindByRequestID(r) \in {Orig(r), Comp(r)}
         /\ FindByRequestID(r) \in present
<1>1. FindByRequestID(r) = FBR(r, lines[Comp(r)], Comp(r) \in present,
                               lines[Orig(r)], Orig(r) \in present)
  BY FindDef
<1>2. CASE PF(lines[Comp(r)], Comp(r) \in present) # NoStatus
  <2>1. Comp(r) \in present
    BY <1>2, PFEmpty
  <2>. QED
    BY <1>1, <1>2, <2>1 DEF FBR
<1>3. CASE PF(lines[Comp(r)], Comp(r) \in present) = NoStatus
           /\ PF(lines[Orig(r)], Orig(r) \in present) # NoStatus
  <2>1. Orig(r) \in present
    BY <1>3, PFEmpty
  <2>. QED
    BY <1>1, <1>3, <2>1 DEF FBR
<1>. QED
  BY <1>1, <1>2, <1>3 DEF FBR


\* FindByRequestID of the run being edited, in the next state.
LEMMA FindUreqNext ==
  ASSUME ureq' \in Run
  PROVE  FindByRequestID(ureq)' =
           FBR(ureq', lines'[Comp(ureq')], Comp(ureq') \in present',
               lines'[Orig(ureq')], Orig(ureq') \in present')
<1>1. \A f \in {Comp(ureq'), Orig(ureq')} :
        ParseFile(f)' = PF(lines'[f], f \in present')
  BY DEF ParseFile, ValidIdx, PF
<1>. QED
  BY <1>1 DEF FindByRequestID, FBR

\* A step that leaves the edit in progress and its run's files alone keeps
\* UpdaterState.
LEMMA UpdaterFrame ==
  ASSUME TypeOK, UpdaterState,
         UNCHANGED <<upc, ureq, ufile, uinode, ucount>>,
         upc # "idle" =>
           /\ lines'[Orig(ureq)] = lines[Orig(ureq)]
           /\ lines'[Comp(ureq)] = lines[Comp(ureq)]
           /\ (Orig(ureq) \in present') <=> (Orig(ureq) \in present)
           /\ (Comp(ureq) \in present') <=> (Comp(ureq) \in present)
           /\ gen'[Orig(ureq)] = gen[Orig(ureq)]
           /\ gen'[Comp(ureq)] = gen[Comp(ureq)]
           /\ apc'[ureq] = apc[ureq]
  PROVE  UpdaterState'
<1>1. CASE upc = "idle"
  BY <1>1 DEF UpdaterState
<1>2. CASE upc # "idle"
  <2>1. ureq \in Run /\ ureq' = ureq
    BY DEF TypeOK
  <2>2. FindByRequestID(ureq)' = FindByRequestID(ureq)
    <3>1. FindByRequestID(ureq)' =
            FBR(ureq, lines'[Comp(ureq)], Comp(ureq) \in present',
                lines'[Orig(ureq)], Orig(ureq) \in present')
      BY <2>1, FindUreqNext
    <3>2. FindByRequestID(ureq) =
            FBR(ureq, lines[Comp(ureq)], Comp(ureq) \in present,
                lines[Orig(ureq)], Orig(ureq) \in present)
      BY <2>1, FindDef
    <3>. QED
      BY <1>2, <3>1, <3>2
  <2>3. upc \in {"open", "write"} => ufile \in {Orig(ureq), Comp(ureq)}
    BY <2>1, FoundFile DEF UpdaterState
  <2>. QED
    BY <1>2, <2>1, <2>2, <2>3 DEF UpdaterState
<1>. QED
  BY <1>1, <1>2


-----------------------------------------------------------------------------
(* Each step keeps HInv.                                                   *)

\* ParseFile of a file in the current state.
LEMMA ParseDef ==
  ASSUME NEW f PROVE ParseFile(f) = PF(lines[f], f \in present)
BY DEF ParseFile, ValidIdx, PF

\* A step that leaves run r's files alone leaves its status as found.
LEMMA FindFrame ==
  ASSUME NEW r \in Run,
         lines'[Orig(r)] = lines[Orig(r)], lines'[Comp(r)] = lines[Comp(r)],
         (Orig(r) \in present') <=> (Orig(r) \in present),
         (Comp(r) \in present') <=> (Comp(r) \in present)
  PROVE  FindStatus(r)' = FindStatus(r)
BY FindDef, FindDefNext

\* A run's compacted file of one status shows that status.
LEMMA PFSingle ==
  ASSUME NEW x \in Status PROVE PF(<<x>>, TRUE) = x
<1>1. <<>> \in Seq(Status) /\ Append(<<>>, x) = <<x>>
  OBVIOUS
<1>2. PF(Append(<<>>, x), TRUE) = x
  BY <1>1, PFAppend
<1>. QED
  BY <1>1, <1>2

\* While a run has no compacted status, its original file shows its status.
LEMMA FindOrig ==
  ASSUME NEW r \in Run, Orig(r) \in present,
         Comp(r) \notin present \/ lines[Comp(r)] = <<>>
  PROVE  FindStatus(r) = PF(lines[Orig(r)], TRUE)
<1>1. PF(lines[Comp(r)], Comp(r) \in present) = NoStatus
  BY PFEmpty
<1>2. (Orig(r) \in present) = TRUE
  OBVIOUS
<1>3. FindStatus(r) = FSC(lines[Comp(r)], Comp(r) \in present,
                          lines[Orig(r)], TRUE)
  BY <1>2, FindDef
<1>. QED
  BY <1>1, <1>3 DEF FSC

\* The same, in the next state.
LEMMA FindOrigNext ==
  ASSUME NEW r \in Run, Orig(r) \in present',
         Comp(r) \notin present' \/ lines'[Comp(r)] = <<>>
  PROVE  FindStatus(r)' = PF(lines'[Orig(r)], TRUE)
<1>1. PF(lines'[Comp(r)], Comp(r) \in present') = NoStatus
  BY PFEmpty
<1>2. (Orig(r) \in present') = TRUE
  OBVIOUS
<1>3. FindStatus(r)' = FSC(lines'[Comp(r)], Comp(r) \in present',
                           lines'[Orig(r)], TRUE)
  BY <1>2, FindDefNext
<1>. QED
  BY <1>1, <1>3 DEF FSC

\* FindByRequestID of the edited run is its compacted file only when that
\* file shows a status, and its original file only when it does not.
LEMMA FoundWhich ==
  ASSUME NEW r \in Run
  PROVE  /\ FindByRequestID(r) = Comp(r) =>
              PF(lines[Comp(r)], Comp(r) \in present) # NoStatus
         /\ FindByRequestID(r) = Orig(r) =>
              PF(lines[Comp(r)], Comp(r) \in present) = NoStatus
<1>1. FindByRequestID(r) = FBR(r, lines[Comp(r)], Comp(r) \in present,
                               lines[Orig(r)], Orig(r) \in present)
  BY FindDef
<1>2. Orig(r) # Comp(r) /\ Comp(r) # NoFile /\ Orig(r) # NoFile
  BY FilesDistinct DEF NoFile, Orig, Comp, Run
<1>. QED
  BY <1>1, <1>2 DEF FBR

\* A sequence of statuses is a sequence of lines.
LEMMA SeqStatusLine ==
  ASSUME NEW s \in Seq(Status) PROVE s \in Seq(Line)
BY DEF Line

\* Open creates the run's original file, empty.
LEMMA OpenKeeps ==
  ASSUME EditAfterExit, HInv, NEW r \in Run, Open(r) PROVE HInv'
<1>0. TypeOK /\ Clean /\ UpdaterState /\ \A q \in Run : RunOK(q)
  BY HInvByRun
<1>1. Orig(r) \notin present /\ Comp(r) \notin present
      /\ lastWritten[r] = NoStatus /\ apc[r] = "idle"
  BY <1>0 DEF Open, RunOK, AgentFiles
<1>2. /\ present' = present \cup {Orig(r)}
      /\ lines' = [lines EXCEPT ![Orig(r)] = <<>>]
      /\ tail' = [tail EXCEPT ![Orig(r)] = FALSE]
      /\ gen' = [gen EXCEPT ![Orig(r)] = @ + 1]
      /\ apc' = [apc EXCEPT ![r] = "open"]
      /\ UNCHANGED <<cval, upc, ureq, ufile, uinode, ucount, lastWritten>>
  BY <1>1 DEF Open, OpenFile
<1>3. TypeOK'
  BY <1>0, <1>2, FilesDistinct DEF TypeOK, AgentPC
<1>4. Clean'
  BY <1>0, <1>2, FilesDistinct DEF Clean, TypeOK
<1>5. UpdaterState'
  <2>1. upc # "idle" => ureq # r
    BY <1>0, <1>1 DEF UpdaterState, Exited
  <2>. QED
    BY <1>0, <1>2, <2>1, FilesDistinct, UpdaterFrame DEF TypeOK
<1>6. ASSUME NEW q \in Run, q # r PROVE RunOK(q)'
  BY <1>0, <1>2, <1>6, FilesDistinct, RunFrame DEF TypeOK
<1>7. RunOK(r)'
  <2>1. apc'[r] = "open" /\ lastWritten'[r] = NoStatus
    BY <1>0, <1>1, <1>2 DEF TypeOK
  <2>2. Orig(r) \in present' /\ Comp(r) \notin present' /\ lines'[Orig(r)] = <<>>
    BY <1>0, <1>1, <1>2, FilesDistinct DEF TypeOK
  <2>. QED
    BY <2>1, <2>2 DEF RunOK, AgentFiles
<1>. QED
  BY <1>3, <1>4, <1>5, <1>6, <1>7 DEF HInv, RunOK, FindReturnsLastWrite


\* Write appends "running" to the run's original file, which FindByRequestID then
\* shows: the run has no compacted file yet.
LEMMA WriteKeeps ==
  ASSUME EditAfterExit, HInv, NEW r \in Run, Write(r) PROVE HInv'
<1>0. TypeOK /\ Clean /\ UpdaterState /\ \A q \in Run : RunOK(q)
  BY HInvByRun
<1>1. /\ apc[r] = "open" /\ Orig(r) \in present /\ Comp(r) \notin present
      /\ ~tail[Orig(r)] /\ lines[Orig(r)] \in Seq(Status)
  BY <1>0, FilesDistinct DEF Write, RunOK, AgentFiles, Clean
<1>2. /\ lines' = [lines EXCEPT ![Orig(r)] = Append(lines[Orig(r)], "running")]
      /\ tail' = [tail EXCEPT ![Orig(r)] = FALSE]
      /\ lastWritten' = [lastWritten EXCEPT ![r] = "running"]
      /\ apc' = apc
      /\ UNCHANGED <<present, gen, cval, upc, ureq, ufile, uinode, ucount>>
  BY <1>1 DEF Write, AppendLine
<1>a. Append(lines[Orig(r)], "running") \in Seq(Status)
  BY <1>1, AppendProperties DEF Status
<1>3. TypeOK'
  BY <1>0, <1>2, <1>a, FilesDistinct, SeqStatusLine DEF TypeOK, AgentPC, Status
<1>4. Clean'
  BY <1>0, <1>2, <1>a, FilesDistinct DEF Clean, TypeOK
<1>5. UpdaterState'
  <2>1. upc # "idle" => ureq # r
    BY <1>0, <1>1 DEF UpdaterState, Exited
  <2>. QED
    BY <1>0, <1>2, <2>1, FilesDistinct, UpdaterFrame DEF TypeOK
<1>6. ASSUME NEW q \in Run, q # r PROVE RunOK(q)'
  BY <1>0, <1>2, <1>6, FilesDistinct, RunFrame DEF TypeOK
<1>7. RunOK(r)'
  <2>1. FindStatus(r)' = FSC(lines'[Comp(r)], FALSE,
                             Append(lines[Orig(r)], "running"), TRUE)
    <3>1. (Comp(r) \in present') = FALSE /\ (Orig(r) \in present') = TRUE
      BY <1>1, <1>2
    <3>2. lines'[Orig(r)] = Append(lines[Orig(r)], "running")
      BY <1>0, <1>2, FilesDistinct DEF TypeOK
    <3>. QED
      BY <3>1, <3>2, FindDefNext
  <2>2. PF(lines'[Comp(r)], FALSE) = NoStatus
    BY PFEmpty
  <2>3. PF(Append(lines[Orig(r)], "running"), TRUE) = "running"
    BY <1>1, PFAppend DEF Status
  <2>4. FindStatus(r)' = "running" /\ lastWritten'[r] = "running"
    BY <1>0, <1>2, <2>1, <2>2, <2>3 DEF FSC, TypeOK
  <2>5. apc'[r] = "open" /\ Orig(r) \in present' /\ Comp(r) \notin present'
    BY <1>0, <1>1, <1>2 DEF TypeOK
  <2>. QED
    BY <2>4, <2>5 DEF RunOK, AgentFiles, NoStatus
<1>. QED
  BY <1>3, <1>4, <1>5, <1>6, <1>7 DEF HInv, RunOK, FindReturnsLastWrite

\* WriteFinal appends "final" to the run's original file, which FindByRequestID then
\* shows: the run has no compacted file yet.
LEMMA WriteFinalKeeps ==
  ASSUME EditAfterExit, HInv, NEW r \in Run, WriteFinal(r) PROVE HInv'
<1>0. TypeOK /\ Clean /\ UpdaterState /\ \A q \in Run : RunOK(q)
  BY HInvByRun
<1>1. /\ apc[r] = "open" /\ Orig(r) \in present /\ Comp(r) \notin present
      /\ ~tail[Orig(r)] /\ lines[Orig(r)] \in Seq(Status)
  BY <1>0, FilesDistinct DEF WriteFinal, RunOK, AgentFiles, Clean
<1>2. /\ lines' = [lines EXCEPT ![Orig(r)] = Append(lines[Orig(r)], "final")]
      /\ tail' = [tail EXCEPT ![Orig(r)] = FALSE]
      /\ lastWritten' = [lastWritten EXCEPT ![r] = "final"]
      /\ apc' = [apc EXCEPT ![r] = "final"]
      /\ UNCHANGED <<present, gen, cval, upc, ureq, ufile, uinode, ucount>>
  BY <1>1 DEF WriteFinal, AppendLine
<1>a. Append(lines[Orig(r)], "final") \in Seq(Status)
  BY <1>1, AppendProperties DEF Status
<1>3. TypeOK'
  BY <1>0, <1>2, <1>a, FilesDistinct, SeqStatusLine DEF TypeOK, AgentPC, Status
<1>4. Clean'
  BY <1>0, <1>2, <1>a, FilesDistinct DEF Clean, TypeOK
<1>5. UpdaterState'
  <2>1. upc # "idle" => ureq # r
    BY <1>0, <1>1 DEF UpdaterState, Exited
  <2>. QED
    BY <1>0, <1>2, <2>1, FilesDistinct, UpdaterFrame DEF TypeOK
<1>6. ASSUME NEW q \in Run, q # r PROVE RunOK(q)'
  BY <1>0, <1>2, <1>6, FilesDistinct, RunFrame DEF TypeOK
<1>7. RunOK(r)'
  <2>1. FindStatus(r)' = FSC(lines'[Comp(r)], FALSE,
                             Append(lines[Orig(r)], "final"), TRUE)
    <3>1. (Comp(r) \in present') = FALSE /\ (Orig(r) \in present') = TRUE
      BY <1>1, <1>2
    <3>2. lines'[Orig(r)] = Append(lines[Orig(r)], "final")
      BY <1>0, <1>2, FilesDistinct DEF TypeOK
    <3>. QED
      BY <3>1, <3>2, FindDefNext
  <2>2. PF(lines'[Comp(r)], FALSE) = NoStatus
    BY PFEmpty
  <2>3. PF(Append(lines[Orig(r)], "final"), TRUE) = "final"
    BY <1>1, PFAppend DEF Status
  <2>4. FindStatus(r)' = "final" /\ lastWritten'[r] = "final"
    BY <1>0, <1>2, <2>1, <2>2, <2>3 DEF FSC, TypeOK
  <2>5. apc'[r] = "final" /\ Orig(r) \in present' /\ Comp(r) \notin present'
    BY <1>0, <1>1, <1>2 DEF TypeOK
  <2>. QED
    BY <2>4, <2>5 DEF RunOK, AgentFiles, NoStatus
<1>. QED
  BY <1>3, <1>4, <1>5, <1>6, <1>7 DEF HInv, RunOK, FindReturnsLastWrite


\* Close parses the original file: with no status in it the run is closed
\* as it stands; otherwise the status parsed is the last one written, and
\* Compact starts with it.
LEMMA CloseKeeps ==
  ASSUME EditAfterExit, HInv, NEW r \in Run, Close(r) PROVE HInv'
<1>0. TypeOK /\ Clean /\ UpdaterState /\ \A q \in Run : RunOK(q)
  BY HInvByRun
<1>1. /\ apc[r] \in {"open", "final"}
      /\ Orig(r) \in present /\ Comp(r) \notin present
      /\ lines[Orig(r)] \in Seq(Status)
      /\ lastWritten[r] = NoStatus => lines[Orig(r)] = <<>>
      /\ lastWritten[r] # NoStatus => FindStatus(r) = lastWritten[r]
  BY <1>0, FilesDistinct DEF Close, RunOK, AgentFiles, Clean
<1>2. UNCHANGED <<present, lines, tail, gen, upc, ureq, ufile, uinode, ucount,
                  lastWritten>>
  BY DEF Close
<1>3. FindStatus(r)' = FindStatus(r)
  BY <1>2, FindFrame
<1>4. upc # "idle" => ureq # r
  BY <1>0, <1>1 DEF UpdaterState, Exited
<1>5. ParseFile(Orig(r)) = PF(lines[Orig(r)], TRUE)
  BY <1>1, ParseDef
<1>a. CASE ParseFile(Orig(r)) = NoStatus
  <2>1. apc' = [apc EXCEPT ![r] = "closed"] /\ UNCHANGED cval
    BY <1>a DEF Close
  <2>2. TypeOK' /\ Clean'
    BY <1>0, <1>2, <2>1 DEF TypeOK, AgentPC, Clean
  <2>3. UpdaterState'
    BY <1>0, <1>2, <1>4, <2>1, UpdaterFrame DEF TypeOK
  <2>4. ASSUME NEW q \in Run, q # r PROVE RunOK(q)'
    BY <1>0, <1>2, <2>1, <2>4, RunFrame DEF TypeOK
  <2>5. RunOK(r)'
    BY <1>0, <1>1, <1>2, <1>3, <2>1 DEF RunOK, AgentFiles, TypeOK
  <2>. QED
    BY <2>2, <2>3, <2>4, <2>5 DEF HInv, RunOK, FindReturnsLastWrite
<1>b. CASE ParseFile(Orig(r)) # NoStatus
  <2>1. apc' = [apc EXCEPT ![r] = "compactOpen"]
        /\ cval' = [cval EXCEPT ![r] = ParseFile(Orig(r))]
    BY <1>b DEF Close
  <2>2. lastWritten[r] # NoStatus
    BY <1>1, <1>5, <1>b, PFEmpty
  <2>3. FindStatus(r) = PF(lines[Orig(r)], TRUE)
    <3>1. PF(lines[Comp(r)], FALSE) = NoStatus
      BY PFEmpty
    <3>2. (Comp(r) \in present) = FALSE /\ (Orig(r) \in present) = TRUE
      BY <1>1
    <3>3. FindStatus(r) = FSC(lines[Comp(r)], FALSE, lines[Orig(r)], TRUE)
      BY <3>2, FindDef
    <3>. QED
      BY <3>1, <3>3 DEF FSC
  <2>4. cval'[r] = lastWritten[r]
    BY <1>0, <1>1, <1>5, <2>1, <2>2, <2>3 DEF TypeOK
  <2>5. TypeOK'
    <3>1. ParseFile(Orig(r)) \in Status \cup {NoStatus}
      BY <1>1, <1>5, PFType
    <3>. QED
      BY <1>0, <1>2, <2>1, <3>1 DEF TypeOK, AgentPC
  <2>6. Clean'
    BY <1>0, <1>2 DEF Clean
  <2>7. UpdaterState'
    BY <1>0, <1>2, <1>4, <2>1, UpdaterFrame DEF TypeOK
  <2>8. ASSUME NEW q \in Run, q # r PROVE RunOK(q)'
    BY <1>0, <1>2, <2>1, <2>8, RunFrame DEF TypeOK
  <2>9. RunOK(r)'
    <3>1. apc'[r] = "compactOpen" /\ lastWritten'[r] = lastWritten[r]
      BY <1>0, <1>2, <2>1 DEF TypeOK
    <3>. QED
      BY <1>1, <1>2, <1>3, <2>2, <2>4, <3>1 DEF RunOK, AgentFiles
  <2>. QED
    BY <2>5, <2>6, <2>7, <2>8, <2>9 DEF HInv, RunOK, FindReturnsLastWrite
<1>. QED
  BY <1>a, <1>b


\* CompactOpen creates the compacted file, empty: the original still shows
\* the run's status.
LEMMA CompactOpenKeeps ==
  ASSUME EditAfterExit, HInv, NEW r \in Run, CompactOpen(r) PROVE HInv'
<1>0. TypeOK /\ Clean /\ UpdaterState /\ \A q \in Run : RunOK(q)
  BY HInvByRun
<1>1. /\ apc[r] = "compactOpen" /\ Orig(r) \in present
      /\ cval[r] = lastWritten[r] /\ lastWritten[r] # NoStatus
      /\ FindStatus(r) = lastWritten[r]
      /\ cval[r] \in Status
      /\ Comp(r) \notin present
  BY <1>0 DEF CompactOpen, RunOK, AgentFiles, TypeOK
<1>u. upc # "idle" => ureq # r
  BY <1>0, <1>1 DEF UpdaterState, Exited
<1>2. /\ present' = present \cup {Comp(r)}
      /\ lines' = [lines EXCEPT ![Comp(r)] = <<>>]
      /\ tail' = [tail EXCEPT ![Comp(r)] = FALSE]
      /\ gen' = [gen EXCEPT ![Comp(r)] = @ + 1]
      /\ apc' = [apc EXCEPT ![r] = "compactWrite"]
      /\ UNCHANGED <<cval, upc, ureq, ufile, uinode, ucount, lastWritten>>
  BY <1>1 DEF CompactOpen, OpenFile
<1>3. TypeOK' /\ Clean'
  BY <1>0, <1>2, FilesDistinct DEF TypeOK, AgentPC, Clean
<1>5. UpdaterState'
  BY <1>0, <1>2, <1>u, FilesDistinct, UpdaterFrame DEF TypeOK
<1>6. ASSUME NEW q \in Run, q # r PROVE RunOK(q)'
  BY <1>0, <1>2, <1>6, FilesDistinct, RunFrame DEF TypeOK
<1>7. RunOK(r)'
  <2>1. FindStatus(r)' = PF(lines[Orig(r)], TRUE)
    <3>a. lines'[Comp(r)] = <<>> /\ lines'[Orig(r)] = lines[Orig(r)]
      BY <1>0, <1>2, FilesDistinct DEF TypeOK
    <3>b. Orig(r) \in present'
      BY <1>1, <1>2
    <3>. QED
      BY <3>a, <3>b, FindOrigNext
  <2>2. FindStatus(r) = PF(lines[Orig(r)], TRUE)
    BY <1>1, FindOrig
  <2>3. apc'[r] = "compactWrite" /\ Comp(r) \in present' /\ lines'[Comp(r)] = <<>>
        /\ Orig(r) \in present'
    BY <1>0, <1>1, <1>2, FilesDistinct DEF TypeOK
  <2>. QED
    BY <1>1, <1>2, <2>1, <2>2, <2>3 DEF RunOK, AgentFiles
<1>. QED
  BY <1>3, <1>5, <1>6, <1>7 DEF HInv, RunOK, FindReturnsLastWrite

\* CompactWrite writes the status to the compacted file, which then shows it.
LEMMA CompactWriteKeeps ==
  ASSUME EditAfterExit, HInv, NEW r \in Run, CompactWrite(r) PROVE HInv'
<1>0. TypeOK /\ Clean /\ UpdaterState /\ \A q \in Run : RunOK(q)
  BY HInvByRun
<1>1. /\ apc[r] = "compactWrite" /\ Orig(r) \in present
      /\ cval[r] = lastWritten[r] /\ lastWritten[r] # NoStatus
      /\ FindStatus(r) = lastWritten[r]
      /\ cval[r] \in Status
      /\ Comp(r) \in present /\ lines[Comp(r)] = <<>>
  BY <1>0 DEF CompactWrite, RunOK, AgentFiles, TypeOK
<1>u. upc # "idle" => ureq # r
  BY <1>0, <1>1 DEF UpdaterState, Exited
<1>2. /\ lines' = [lines EXCEPT ![Comp(r)] = <<cval[r]>>]
      /\ tail' = [tail EXCEPT ![Comp(r)] = FALSE]
      /\ apc' = [apc EXCEPT ![r] = "compactRemove"]
      /\ UNCHANGED <<present, gen, cval, upc, ureq, ufile, uinode, ucount,
                     lastWritten>>
  <2>1. ~tail[Comp(r)] /\ Append(<<>>, cval[r]) = <<cval[r]>>
    BY <1>0, FilesDistinct DEF Clean
  <2>. QED
    BY <1>1, <2>1 DEF CompactWrite, AppendLine
<1>a. <<cval[r]>> \in Seq(Status)
  BY <1>1
<1>3. TypeOK' /\ Clean'
  BY <1>0, <1>1, <1>2, <1>a, FilesDistinct, SeqStatusLine DEF TypeOK, AgentPC, Clean
<1>5. UpdaterState'
  BY <1>0, <1>2, <1>u, FilesDistinct, UpdaterFrame DEF TypeOK
<1>6. ASSUME NEW q \in Run, q # r PROVE RunOK(q)'
  BY <1>0, <1>2, <1>6, FilesDistinct, RunFrame DEF TypeOK
<1>7. RunOK(r)'
  <2>1. lines'[Comp(r)] = <<cval[r]>> /\ (Comp(r) \in present') = TRUE
    BY <1>0, <1>1, <1>2, FilesDistinct DEF TypeOK
  <2>2. FindStatus(r)' = FSC(<<cval[r]>>, TRUE, lines'[Orig(r)],
                             Orig(r) \in present')
    BY <2>1, FindDefNext
  <2>3. FindStatus(r)' = cval[r]
    BY <1>1, <2>2, PFSingle DEF FSC, NoStatus, Status
  <2>4. apc'[r] = "compactRemove" /\ Orig(r) \in present'
    BY <1>0, <1>1, <1>2 DEF TypeOK
  <2>. QED
    BY <1>1, <1>2, <2>1, <2>3, <2>4 DEF RunOK, AgentFiles
<1>. QED
  BY <1>3, <1>5, <1>6, <1>7 DEF HInv, RunOK, FindReturnsLastWrite

\* CompactWriteFail removes the empty compacted file: the original still
\* shows the run's status.
LEMMA CompactWriteFailKeeps ==
  ASSUME EditAfterExit, HInv, NEW r \in Run, CompactWriteFail(r) PROVE HInv'
<1>0. TypeOK /\ Clean /\ UpdaterState /\ \A q \in Run : RunOK(q)
  BY HInvByRun
<1>1. /\ apc[r] = "compactWrite" /\ Orig(r) \in present
      /\ cval[r] = lastWritten[r] /\ lastWritten[r] # NoStatus
      /\ FindStatus(r) = lastWritten[r]
      /\ cval[r] \in Status
      /\ Comp(r) \in present /\ lines[Comp(r)] = <<>>
  BY <1>0 DEF CompactWriteFail, RunOK, AgentFiles, TypeOK
<1>u. upc # "idle" => ureq # r
  BY <1>0, <1>1 DEF UpdaterState, Exited
<1>2. /\ present' = present \ {Comp(r)}
      /\ apc' = [apc EXCEPT ![r] = "closed"]
      /\ UNCHANGED <<lines, tail, gen, cval, upc, ureq, ufile, uinode, ucount,
                     lastWritten>>
  BY DEF CompactWriteFail, RemoveFile
<1>3. TypeOK' /\ Clean'
  BY <1>0, <1>2 DEF TypeOK, AgentPC, Clean
<1>5. UpdaterState'
  BY <1>0, <1>2, <1>u, FilesDistinct, UpdaterFrame DEF TypeOK
<1>6. ASSUME NEW q \in Run, q # r PROVE RunOK(q)'
  BY <1>0, <1>2, <1>6, FilesDistinct, RunFrame DEF TypeOK
<1>7. RunOK(r)'
  <2>1. FindStatus(r)' = PF(lines[Orig(r)], TRUE)
    <3>a. Comp(r) \notin present' /\ Orig(r) \in present'
      BY <1>1, <1>2, FilesDistinct
    <3>. QED
      BY <1>2, <3>a, FindOrigNext
  <2>2. FindStatus(r) = PF(lines[Orig(r)], TRUE)
    BY <1>1, FindOrig
  <2>3. apc'[r] = "closed"
    BY <1>0, <1>2 DEF TypeOK
  <2>. QED
    BY <1>1, <1>2, <2>1, <2>2, <2>3 DEF RunOK, AgentFiles
<1>. QED
  BY <1>3, <1>5, <1>6, <1>7 DEF HInv, RunOK, FindReturnsLastWrite

\* CompactRemove removes the original: the compacted file shows the status.
LEMMA CompactRemoveKeeps ==
  ASSUME EditAfterExit, HInv, NEW r \in Run, CompactRemove(r) PROVE HInv'
<1>0. TypeOK /\ Clean /\ UpdaterState /\ \A q \in Run : RunOK(q)
  BY HInvByRun
<1>1. /\ apc[r] = "compactRemove" /\ Orig(r) \in present
      /\ cval[r] = lastWritten[r] /\ lastWritten[r] # NoStatus
      /\ FindStatus(r) = lastWritten[r]
      /\ cval[r] \in Status
      /\ Comp(r) \in present /\ lines[Comp(r)] = <<cval[r]>>
  BY <1>0 DEF CompactRemove, RunOK, AgentFiles, TypeOK
<1>u. upc # "idle" => ureq # r
  BY <1>0, <1>1 DEF UpdaterState, Exited
<1>2. /\ present' = present \ {Orig(r)}
      /\ apc' = [apc EXCEPT ![r] = "closed"]
      /\ UNCHANGED <<lines, tail, gen, cval, upc, ureq, ufile, uinode, ucount,
                     lastWritten>>
  BY DEF CompactRemove, RemoveFile
<1>3. TypeOK' /\ Clean'
  BY <1>0, <1>2 DEF TypeOK, AgentPC, Clean
<1>5. UpdaterState'
  BY <1>0, <1>2, <1>u, FilesDistinct, UpdaterFrame DEF TypeOK
<1>6. ASSUME NEW q \in Run, q # r PROVE RunOK(q)'
  BY <1>0, <1>2, <1>6, FilesDistinct, RunFrame DEF TypeOK
<1>7. RunOK(r)'
  <2>1. lines'[Comp(r)] = <<cval[r]>> /\ (Comp(r) \in present') = TRUE
    BY <1>1, <1>2, FilesDistinct
  <2>2. FindStatus(r)' = FSC(<<cval[r]>>, TRUE, lines'[Orig(r)],
                             Orig(r) \in present')
    BY <2>1, FindDefNext
  <2>3. FindStatus(r)' = cval[r]
    BY <1>1, <2>2, PFSingle DEF FSC, NoStatus, Status
  <2>4. apc'[r] = "closed"
    BY <1>0, <1>2 DEF TypeOK
  <2>. QED
    BY <1>1, <1>2, <2>3, <2>4 DEF RunOK, AgentFiles
<1>. QED
  BY <1>3, <1>5, <1>6, <1>7 DEF HInv, RunOK, FindReturnsLastWrite

\* Crash only stops the agent: the files, and so the status found, stay.
LEMMA CrashKeeps ==
  ASSUME EditAfterExit, HInv, NEW r \in Run, Crash(r) PROVE HInv'
<1>0. TypeOK /\ Clean /\ UpdaterState /\ \A q \in Run : RunOK(q)
  BY HInvByRun
<1>1. apc[r] \in Alive /\ RunOK(r)
  BY <1>0 DEF Crash
<1>u. upc # "idle" => ureq # r
  BY <1>0, <1>1 DEF UpdaterState, Exited, Alive
<1>2. /\ apc' = [apc EXCEPT ![r] = "crashed"]
      /\ UNCHANGED <<present, lines, tail, gen, cval, upc, ureq, ufile, uinode,
                     ucount, lastWritten>>
  BY DEF Crash
<1>3. TypeOK' /\ Clean'
  BY <1>0, <1>2 DEF TypeOK, AgentPC, Clean
<1>5. UpdaterState'
  BY <1>0, <1>2, <1>u, UpdaterFrame DEF TypeOK
<1>6. ASSUME NEW q \in Run, q # r PROVE RunOK(q)'
  BY <1>0, <1>2, <1>6, RunFrame DEF TypeOK
<1>7. RunOK(r)'
  <2>1. FindStatus(r)' = FindStatus(r)
    BY <1>2, FindFrame
  <2>2. apc'[r] = "crashed"
    BY <1>0, <1>2 DEF TypeOK
  <2>. QED
    BY <1>1, <1>2, <2>1, <2>2 DEF RunOK, AgentFiles
<1>. QED
  BY <1>3, <1>5, <1>6, <1>7 DEF HInv, RunOK, FindReturnsLastWrite


\* A refused edit only counts the call.
LEMMA UpdateRefusedKeeps ==
  ASSUME EditAfterExit, HInv, NEW r \in Run, UpdateRefused(r) PROVE HInv'
<1>0. TypeOK /\ Clean /\ UpdaterState /\ \A q \in Run : RunOK(q)
  BY HInvByRun
<1>1. /\ upc = "idle" /\ ucount < MaxUpdates /\ ucount' = ucount + 1
      /\ UNCHANGED <<present, lines, tail, gen, apc, cval, upc, ureq, ufile,
                     uinode, lastWritten>>
  BY DEF UpdateRefused
<1>2. TypeOK' /\ Clean'
  BY <1>0, <1>1, MaxUpdatesNat DEF TypeOK, Clean
<1>3. UpdaterState'
  BY <1>1 DEF UpdaterState
<1>4. ASSUME NEW q \in Run PROVE RunOK(q)'
  BY <1>0, <1>1, RunFrame
<1>. QED
  BY <1>2, <1>3, <1>4 DEF HInv, RunOK, FindReturnsLastWrite

\* UpdateStatus starts an edit, of an exited run.
LEMMA UpdateStatusKeeps ==
  ASSUME EditAfterExit, HInv, NEW r \in Run, UpdateStatus(r) PROVE HInv'
<1>0. TypeOK /\ Clean /\ UpdaterState /\ \A q \in Run : RunOK(q)
  BY HInvByRun
<1>1. /\ upc = "idle" /\ ucount < MaxUpdates /\ apc[r] \in Exited
      /\ upc' = "find" /\ ureq' = r
      /\ UNCHANGED <<present, lines, tail, gen, apc, cval, ufile, uinode, ucount,
                     lastWritten>>
  BY DEF UpdateStatus, EditAfterExit
<1>2. TypeOK' /\ Clean'
  BY <1>0, <1>1 DEF TypeOK, Clean
<1>3. UpdaterState'
  BY <1>1 DEF UpdaterState
<1>4. ASSUME NEW q \in Run PROVE RunOK(q)'
  BY <1>0, <1>1, RunFrame
<1>. QED
  BY <1>2, <1>3, <1>4 DEF HInv, RunOK, FindReturnsLastWrite

\* UpdateFind looks the run up; the file found exists.
LEMMA UpdateFindKeeps ==
  ASSUME EditAfterExit, HInv, UpdateFind PROVE HInv'
<1>0. TypeOK /\ Clean /\ UpdaterState /\ \A q \in Run : RunOK(q)
  BY HInvByRun
<1>1. /\ upc = "find" /\ apc[ureq] \in Exited /\ ucount < MaxUpdates
      /\ ureq \in Run
      /\ UNCHANGED <<present, lines, tail, gen, apc, cval, ureq, uinode,
                     lastWritten>>
  BY <1>0 DEF UpdateFind, UpdaterState, TypeOK
<1>2. FindByRequestID(ureq)' = FindByRequestID(ureq)
  <2>1. FindByRequestID(ureq)' =
          FBR(ureq, lines[Comp(ureq)], Comp(ureq) \in present,
              lines[Orig(ureq)], Orig(ureq) \in present)
    BY <1>1, FindUreqNext
  <2>. QED
    BY <1>1, <2>1, FindDef
<1>3. ASSUME NEW q \in Run PROVE RunOK(q)'
  BY <1>0, <1>1, RunFrame
<1>a. CASE FindByRequestID(ureq) = NoFile
  <2>1. upc' = "idle" /\ ucount' = ucount + 1 /\ UNCHANGED ufile
    BY <1>a DEF UpdateFind
  <2>2. TypeOK' /\ Clean'
    BY <1>0, <1>1, <2>1, MaxUpdatesNat DEF TypeOK, Clean
  <2>3. UpdaterState'
    BY <2>1 DEF UpdaterState
  <2>. QED
    BY <1>3, <2>2, <2>3 DEF HInv, RunOK, FindReturnsLastWrite
<1>b. CASE FindByRequestID(ureq) # NoFile
  <2>1. ufile' = FindByRequestID(ureq) /\ upc' = "open" /\ UNCHANGED ucount
    BY <1>b DEF UpdateFind
  <2>2. FindByRequestID(ureq) \in present
        /\ FindByRequestID(ureq) \in {Orig(ureq), Comp(ureq)}
    BY <1>1, <1>b, FoundFile
  <2>3. TypeOK' /\ Clean'
    BY <1>0, <1>1, <2>1, <2>2, FilesDistinct DEF TypeOK, Clean
  <2>4. UpdaterState'
    BY <1>1, <1>2, <1>b, <2>1, <2>2 DEF UpdaterState
  <2>. QED
    BY <1>3, <2>3, <2>4 DEF HInv, RunOK, FindReturnsLastWrite
<1>. QED
  BY <1>a, <1>b

\* UpdateOpen opens the file found, which still exists, so nothing is
\* created and the inode opened is the file's.
LEMMA UpdateOpenKeeps ==
  ASSUME EditAfterExit, HInv, UpdateOpen PROVE HInv'
<1>0. TypeOK /\ Clean /\ UpdaterState /\ \A q \in Run : RunOK(q)
  BY HInvByRun
<1>1. /\ upc = "open" /\ ufile \in present /\ ureq \in Run
      /\ ufile = FindByRequestID(ureq)
      /\ apc[ureq] \in Exited /\ ucount < MaxUpdates
  BY <1>0 DEF UpdateOpen, UpdaterState, TypeOK
<1>2. /\ UNCHANGED <<present, lines, tail, gen, apc, cval, ureq, ufile,
                     ucount, lastWritten>>
      /\ uinode' = gen[ufile] /\ upc' = "write"
  BY <1>1 DEF UpdateOpen, OpenFile
<1>3. FindByRequestID(ureq)' = FindByRequestID(ureq)
  <2>1. FindByRequestID(ureq)' =
          FBR(ureq, lines[Comp(ureq)], Comp(ureq) \in present,
              lines[Orig(ureq)], Orig(ureq) \in present)
    BY <1>1, <1>2, FindUreqNext
  <2>. QED
    BY <1>1, <2>1, FindDef
<1>4. TypeOK' /\ Clean'
  <2>1. ufile \in File
    BY <1>0, <1>1 DEF TypeOK
  <2>. QED
    BY <1>0, <1>2, <2>1 DEF TypeOK, Clean
<1>5. UpdaterState'
  BY <1>0, <1>1, <1>2, <1>3 DEF UpdaterState
<1>6. ASSUME NEW q \in Run PROVE RunOK(q)'
  BY <1>0, <1>2, RunFrame
<1>. QED
  BY <1>4, <1>5, <1>6 DEF HInv, RunOK, FindReturnsLastWrite


\* UpdateWrite appends the edit to the file FindByRequestID chose, which
\* still holds the inode opened: the edit is what the run shows next.
LEMMA UpdateWriteKeeps ==
  ASSUME EditAfterExit, HInv, UpdateWrite PROVE HInv'
<1>0. TypeOK /\ Clean /\ UpdaterState /\ \A q \in Run : RunOK(q)
  BY HInvByRun
<1>1. /\ upc = "write" /\ ureq \in Run /\ ufile = FindByRequestID(ureq)
      /\ ufile \in present /\ gen[ufile] = uinode
      /\ apc[ureq] \in Exited /\ ucount < MaxUpdates
      /\ ufile \in {Orig(ureq), Comp(ureq)}
      /\ lines[ufile] \in Seq(Status) /\ ~tail[ufile]
  <2>1. /\ upc = "write" /\ ureq \in Run /\ ufile = FindByRequestID(ureq)
        /\ ufile \in present /\ gen[ufile] = uinode
        /\ apc[ureq] \in Exited /\ ucount < MaxUpdates /\ ufile # NoFile
    BY <1>0 DEF UpdateWrite, UpdaterState, TypeOK
  <2>2. ufile \in {Orig(ureq), Comp(ureq)}
    BY <2>1, FoundFile DEF UpdaterState
  <2>. QED
    BY <1>0, <2>1, <2>2, FilesDistinct DEF Clean
<1>2. /\ lines' = [lines EXCEPT ![ufile] = Append(lines[ufile], "edited")]
      /\ tail' = [tail EXCEPT ![ufile] = FALSE]
      /\ lastWritten' = [lastWritten EXCEPT ![ureq] = "edited"]
      /\ upc' = "idle" /\ ucount' = ucount + 1
      /\ UNCHANGED <<present, gen, apc, cval, ureq, ufile, uinode>>
  BY <1>1 DEF UpdateWrite, AppendLine
<1>a. Append(lines[ufile], "edited") \in Seq(Status)
  BY <1>1, AppendProperties DEF Status
<1>b. ufile \in File
  BY <1>1, FilesDistinct
<1>3. TypeOK' /\ Clean'
  <2>0. Append(lines[ufile], "edited") \in Seq(Line)
    BY <1>a, SeqStatusLine
  <2>1. TypeOK'
    BY <1>0, <1>1, <1>2, <2>0, <1>b, MaxUpdatesNat DEF TypeOK, Status
  <2>2. Clean'
    BY <1>0, <1>2, <1>a, <1>b DEF Clean, TypeOK
  <2>. QED
    BY <2>1, <2>2
<1>4. UpdaterState'
  BY <1>2 DEF UpdaterState
<1>5. ASSUME NEW q \in Run, q # ureq PROVE RunOK(q)'
  <2>1. ufile # Orig(q) /\ ufile # Comp(q)
    BY <1>1, <1>5, FilesDistinct
  <2>. QED
    BY <1>0, <1>2, <1>5, <2>1, FilesDistinct, RunFrame DEF TypeOK
<1>6. ASSUME NEW r \in Run, r = ureq PROVE RunOK(r)'
  <2>1. PF(Append(lines[ufile], "edited"), TRUE) = "edited"
    BY <1>1, PFAppend DEF Status
  <2>2. FindStatus(r)' = "edited"
    <3>1. CASE ufile = Comp(r)
      <4>1. lines'[Comp(r)] = Append(lines[ufile], "edited")
            /\ (Comp(r) \in present') = TRUE
        BY <1>0, <1>1, <1>2, <1>6, <3>1, FilesDistinct DEF TypeOK
      <4>2. FindStatus(r)' = FSC(Append(lines[ufile], "edited"), TRUE,
                                 lines'[Orig(r)], Orig(r) \in present')
        BY <4>1, FindDefNext
      <4>. QED
        BY <2>1, <4>2 DEF FSC, NoStatus
    <3>2. CASE ufile = Orig(r)
      <4>1. lines'[Orig(r)] = Append(lines[ufile], "edited")
            /\ (Orig(r) \in present') = TRUE
            /\ lines'[Comp(r)] = lines[Comp(r)]
            /\ (Comp(r) \in present') = (Comp(r) \in present)
        BY <1>0, <1>1, <1>2, <1>6, <3>2, FilesDistinct DEF TypeOK
      <4>2. PF(lines[Comp(r)], Comp(r) \in present) = NoStatus
        BY <1>1, <1>6, <3>2, FoundWhich
      <4>3. FindStatus(r)' = FSC(lines[Comp(r)], Comp(r) \in present,
                                 Append(lines[ufile], "edited"), TRUE)
        BY <4>1, FindDefNext
      <4>. QED
        BY <2>1, <4>2, <4>3 DEF FSC
    <3>. QED
      BY <1>1, <1>6, <3>1, <3>2
  <2>3. apc'[r] \in Exited /\ lastWritten'[r] = "edited"
    BY <1>0, <1>1, <1>2, <1>6 DEF TypeOK
  <2>. QED
    BY <2>2, <2>3 DEF RunOK, AgentFiles, Exited, NoStatus
<1>. QED
  BY <1>3, <1>4, <1>5, <1>6 DEF HInv, RunOK, FindReturnsLastWrite


\* A step that changes nothing keeps HInv (Quiescent, and stuttering).
LEMMA StutterKeeps ==
  ASSUME HInv, UNCHANGED vars PROVE HInv'
<1>0. TypeOK /\ Clean /\ UpdaterState /\ \A q \in Run : RunOK(q)
  BY HInvByRun
<1>1. UNCHANGED <<present, lines, tail, gen, apc, cval, upc, ureq, ufile,
                  uinode, ucount, lastWritten>>
  BY DEF vars
<1>2. TypeOK' /\ Clean'
  BY <1>0, <1>1 DEF TypeOK, Clean
<1>3. UpdaterState'
  BY <1>0, <1>1, UpdaterFrame
<1>4. ASSUME NEW q \in Run PROVE RunOK(q)'
  BY <1>0, <1>1, RunFrame
<1>. QED
  BY <1>2, <1>3, <1>4 DEF HInv, RunOK, FindReturnsLastWrite

\* Every step of the store keeps HInv, when edits wait for the agent to
\* exit and no write is torn.
LEMMA HInvStep ==
  ASSUME EditAfterExit, HInv, [Next]_vars PROVE HInv'
<1>1. CASE \E r \in Run : AgentStep(r)
  <2>1. PICK r \in Run : AgentStep(r)
    BY <1>1
  <2>2. ~TornWrite(r)
    BY DEF TornWrite, EditAfterExit
  <2>. QED
    BY <2>1, <2>2, OpenKeeps, WriteKeeps, WriteFinalKeeps, CloseKeeps,
       CompactOpenKeeps, CompactWriteKeeps, CompactWriteFailKeeps,
       CompactRemoveKeeps, CrashKeeps DEF AgentStep
<1>2. CASE UpdateStep
  BY <1>2, UpdateRefusedKeeps, UpdateStatusKeeps, UpdateFindKeeps,
     UpdateOpenKeeps, UpdateWriteKeeps DEF UpdateStep
<1>3. CASE Quiescent \/ UNCHANGED vars
  BY <1>3, StutterKeeps DEF Quiescent
<1>. QED
  BY <1>1, <1>2, <1>3 DEF Next

\* The initial state satisfies HInv: no file exists and nothing is written.
LEMMA HInvInit ==
  ASSUME Init PROVE HInv
<1>1. TypeOK
  <2>1. ucount \in 0..MaxUpdates /\ ureq \in Run /\ ufile \in File \cup {NoFile}
    BY MaxUpdatesNat, HistoryAssumption DEF Init, Run
  <2>. QED
    BY <2>1 DEF Init, TypeOK, AgentPC
<1>2. Clean
  BY DEF Init, Clean
<1>3. UpdaterState
  BY DEF Init, UpdaterState
<1>4. \A r \in Run : RunOK(r)
  BY DEF Init, RunOK, AgentFiles
<1>. QED
  BY <1>1, <1>2, <1>3, <1>4, HInvByRun

\* The status the history shows for every run is the last one written to
\* it, by its agent or by an edit (FindByRequestID in jsondb.go:172-198),
\* whatever agents crash and whatever compaction fails, as long as the user
\* edits a run only after its agent has exited and no write is torn.
THEOREM FindsLastWrite ==
  EditAfterExit => (Spec => []FindReturnsLastWrite)
<1> SUFFICES ASSUME EditAfterExit PROVE Spec => []FindReturnsLastWrite
  OBVIOUS
<1>1. Init => HInv
  BY HInvInit
<1>2. HInv /\ [Next]_vars => HInv'
  BY HInvStep
<1>3. HInv => FindReturnsLastWrite
  BY DEF HInv
<1>. QED
  BY <1>1, <1>2, <1>3, PTL DEF Spec

=============================================================================

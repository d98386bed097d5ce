---------------------------- MODULE HistoryStore ----------------------------
(***************************************************************************)
(* The status history of one DAG, internal/persistence/jsondb/jsondb.go,   *)
(* with the engine's UpdateStatus (unnamed/part_001:210-225) that edits a  *)
(* past run.                                                               *)
(*                                                                         *)
(* Each run r of the DAG has an original file <prefix>.<time>.<req>.dat,   *)
(* written by the run's agent through Open and Write, and a compacted file *)
(* <prefix>.<time>.<req>_c.dat that Close creates by Compact: it parses    *)
(* the original, writes the last status to the new file and removes the   *)
(* original.  Runs are numbered in the order they start; their file names *)
(* sort in that order, and within a run the compacted name sorts after the *)
(* original ('_' > '.').                                                   *)
(*                                                                         *)
(* A file is a sequence of complete lines and, after a write cut short, a  *)
(* partial last line without its newline (tail).  A status is the value   *)
(* the properties tell apart: "running" and "final" written by the agent,  *)
(* "edited" written by UpdateStatus.  A line written after a partial one   *)
(* joins it into one line that does not parse (Garbage).                   *)
(*                                                                         *)
(* The writer (writer.go) opens with O_APPEND|O_CREATE and writes one JSON *)
(* line; a writer keeps writing to the inode it opened, so a write after   *)
(* the file was removed is lost.  gen[f] numbers the incarnations of f.    *)
(* The file cache is left out: every read goes to the disk.                *)
(***************************************************************************)
EXTENDS Naturals, Sequences, FiniteSets

CONSTANTS
  NRuns,             \* the number of runs of the DAG
  Sec,               \* Sec[r]: the second run r started in (its file name)
  MaxWrites,         \* the most lines the agent writes to an original file
  MaxUpdates,        \* the most UpdateStatus calls
  Failures,          \* the agent may be killed, a compaction write may fail
  TornWrites,        \* a write may be cut short, leaving a partial line
  UpdateAfterClose   \* the user edits a run only once its agent has exited

Run == 1..NRuns

ASSUME HistoryAssumption ==
  /\ NRuns \in Nat \ {0}
  /\ Sec \in [Run -> Nat]
  /\ \A r, q \in Run : r < q => Sec[r] <= Sec[q]
  /\ MaxWrites \in Nat \ {0}
  /\ MaxUpdates \in Nat
  /\ Failures \in BOOLEAN
  /\ TornWrites \in BOOLEAN
  /\ UpdateAfterClose \in BOOLEAN

Status == {"running", "final", "edited"}
Garbage == "garbage"
Line == Status \cup {Garbage}
NoStatus == "none"

\* The two files of run r.
Orig(r) == <<r, "dat">>
Comp(r) == <<r, "c">>
File == Run \X {"dat", "c"}
NoFile == <<0, "none">>

\* The agent of a run: not started, writing, its final status written, the
\* steps of Close, and exited (closed, or killed).
AgentPC == {"idle", "open", "final", "compactOpen", "compactWrite",
            "compactRemove", "closed", "crashed"}
Alive == {"open", "final", "compactOpen", "compactWrite", "compactRemove"}
Exited == {"closed", "crashed"}

VARIABLES
  present,      \* the files that exist
  lines,        \* lines[f]: the complete lines of f
  tail,         \* tail[f]: f ends in a partial line
  gen,          \* gen[f]: how many times f has been created
  apc,          \* apc[r]: the agent of run r
  cval,         \* cval[r]: the status Compact parsed from the original
  upc,          \* UpdateStatus: "idle", "find", "open", "write"
  ureq,         \* the run UpdateStatus edits
  ufile,        \* the file FindByRequestID returned
  uinode,       \* the incarnation of ufile the writer opened
  ucount,       \* the UpdateStatus calls made
  lastWritten   \* lastWritten[r]: the last status a Write or Update of r
                \* returned success for (a history variable)

vars == <<present, lines, tail, gen, apc, cval, upc, ureq, ufile, uinode,
          ucount, lastWritten>>

-----------------------------------------------------------------------------
(* Reading the history.                                                    *)

\* The complete lines of f that parse.
ValidIdx(f) == {i \in 1..Len(lines[f]) : lines[f][i] # Garbage}

\* Mutant of ParseFile: the first status of the file instead of the last.
ParseFileFirst(f) ==
  IF f \notin present \/ ValidIdx(f) = {} THEN NoStatus
  ELSE lines[f][CHOOSE i \in ValidIdx(f) : \A j \in ValidIdx(f) : i <= j]

\* Mutant of ParseFile: a partial last line is taken for a read error.
ParseFileTailError(f) ==
  IF f \notin present \/ ValidIdx(f) = {} \/ tail[f] THEN NoStatus
  ELSE lines[f][CHOOSE i \in ValidIdx(f) : \A j \in ValidIdx(f) : i >= j]

\* ParseFile, lines 363-396: the last line that parses; readLineFrom returns
\* a last line without a newline together with io.EOF, and ParseFile then
\* returns what it has.  A missing file, or one with no status, is an error.
ParseFile(f) ==
  IF f \notin present \/ ValidIdx(f) = {} THEN NoStatus
  ELSE lines[f][CHOOSE i \in ValidIdx(f) : \A j \in ValidIdx(f) : i >= j]

\* Mutant of FindByRequestID: a file that does not parse ends the search.
FindNoSkip(r) ==
  LET first == IF Comp(r) \in present THEN Comp(r) ELSE Orig(r)
  IN  IF first \in present /\ ParseFile(first) # NoStatus THEN first
      ELSE NoFile

\* FindByRequestID, lines 172-198: the DAG's files sorted by name, highest
\* first, and the first that parses with the request ID wins.  Only run
\* r's files carry its ID, and its compacted name sorts first.
FindByRequestID(r) ==
  IF ParseFile(Comp(r)) # NoStatus THEN Comp(r)
  ELSE IF ParseFile(Orig(r)) # NoStatus THEN Orig(r)
  ELSE NoFile

\* The status the history shows for run r (GetStatusByRequestId, lines
\* 168-172): FindByRequestID, then ParseFile of the file it found.  The
\* relabelling of a Running status whose run is no longer current (lines
\* 173-177) is made in memory only and changes nothing stored.
FindStatus(r) ==
  LET f == FindByRequestID(r) IN IF f = NoFile THEN NoStatus ELSE ParseFile(f)

\* Mutant of filterLatest: the comparison is reversed.
FilterLatestOldest ==
  {f \in present : \A g \in present : Sec[f[1]] <= Sec[g[1]]}

\* latestToday and filterLatest, lines 315-341 and 398-418: the files are
\* sorted by the timestamp in their name, to the second, and the first is
\* taken.  sort.Slice is not stable, so any file of the latest second may
\* come first.  All runs are taken to be of today.
FilterLatest ==
  {f \in present : \A g \in present : Sec[f[1]] >= Sec[g[1]]}

\* The newest run that has a file.
NewestRun ==
  CHOOSE r \in Run : (Orig(r) \in present \/ Comp(r) \in present)
                     /\ \A q \in Run : (Orig(q) \in present \/ Comp(q) \in present)
                                        => q <= r

-----------------------------------------------------------------------------
(* The writer.                                                             *)

\* writer.open: O_CREATE makes an empty file if there is none.
OpenFile(f) ==
  IF f \in present
  THEN UNCHANGED <<present, lines, tail, gen>>
  ELSE /\ present' = present \cup {f}
       /\ lines' = [lines EXCEPT ![f] = <<>>]
       /\ tail' = [tail EXCEPT ![f] = FALSE]
       /\ gen' = [gen EXCEPT ![f] = @ + 1]

\* writer.write: one line, appended; after a partial line the two make one
\* line that does not parse.
AppendLine(f, s) ==
  /\ lines' = [lines EXCEPT ![f] = Append(@, IF tail[f] THEN Garbage ELSE s)]
  /\ tail' = [tail EXCEPT ![f] = FALSE]

RemoveFile(f) == present' = present \ {f}

-----------------------------------------------------------------------------
(* The agent of run r: Open, Write and Close.                              *)

\* Open, lines 90-100, with newWriter and newFile (123-133, 301-313): the
\* run's original file is created.  Runs of one DAG follow each other.
Open(r) ==
  /\ apc[r] = "idle"
  /\ \A q \in Run : q < r => apc[q] \in Exited
  /\ OpenFile(Orig(r))
  /\ apc' = [apc EXCEPT ![r] = "open"]
  /\ UNCHANGED <<cval, upc, ureq, ufile, uinode, ucount, lastWritten>>

\* Write, lines 102-104: a status while the run is running.
Write(r) ==
  /\ apc[r] = "open"
  /\ Len(lines[Orig(r)]) < MaxWrites
  /\ AppendLine(Orig(r), "running")
  /\ lastWritten' = [lastWritten EXCEPT ![r] = "running"]
  /\ UNCHANGED <<present, gen, apc, cval, upc, ureq, ufile, uinode, ucount>>

\* Write, lines 102-104: the status of the finished run.
WriteFinal(r) ==
  /\ apc[r] = "open"
  /\ AppendLine(Orig(r), "final")
  /\ lastWritten' = [lastWritten EXCEPT ![r] = "final"]
  /\ apc' = [apc EXCEPT ![r] = "final"]
  /\ UNCHANGED <<present, gen, cval, upc, ureq, ufile, uinode, ucount>>

\* Close, lines 106-118, and Compact, lines 225-228: the original is parsed;
\* if it holds no status Compact fails, and Close closes the writer and
\* returns the error, leaving the original.
Close(r) ==
  /\ apc[r] \in {"open", "final"}
  /\ IF ParseFile(Orig(r)) = NoStatus
     THEN /\ apc' = [apc EXCEPT ![r] = "closed"]
          /\ UNCHANGED cval
     ELSE /\ cval' = [cval EXCEPT ![r] = ParseFile(Orig(r))]
          /\ apc' = [apc EXCEPT ![r] = "compactOpen"]
  /\ UNCHANGED <<present, lines, tail, gen, upc, ureq, ufile, uinode, ucount,
                 lastWritten>>

\* Compact, lines 230-236: the compacted file is created.
CompactOpen(r) ==
  /\ apc[r] = "compactOpen"
  /\ OpenFile(Comp(r))
  /\ apc' = [apc EXCEPT ![r] = "compactWrite"]
  /\ UNCHANGED <<cval, upc, ureq, ufile, uinode, ucount, lastWritten>>

\* Compact, line 241: the parsed status is written to it.
CompactWrite(r) ==
  /\ apc[r] = "compactWrite"
  /\ AppendLine(Comp(r), cval[r])
  /\ apc' = [apc EXCEPT ![r] = "compactRemove"]
  /\ UNCHANGED <<present, gen, cval, upc, ureq, ufile, uinode, ucount,
                 lastWritten>>

\* Compact, lines 241-245, and Close, lines 110-117: the write fails, the
\* compacted file is removed and Close returns the error.
CompactWriteFail(r) ==
  /\ Failures
  /\ apc[r] = "compactWrite"
  /\ RemoveFile(Comp(r))
  /\ apc' = [apc EXCEPT ![r] = "closed"]
  /\ UNCHANGED <<lines, tail, gen, cval, upc, ureq, ufile, uinode, ucount,
                 lastWritten>>

\* Compact, line 248, and Close, lines 119-120: the original is removed, the
\* cache entry invalidated and the writer closed.
CompactRemove(r) ==
  /\ apc[r] = "compactRemove"
  /\ RemoveFile(Orig(r))
  /\ apc' = [apc EXCEPT ![r] = "closed"]
  /\ UNCHANGED <<lines, tail, gen, cval, upc, ureq, ufile, uinode, ucount,
                 lastWritten>>

\* The agent is killed between two steps.
Crash(r) ==
  /\ Failures
  /\ apc[r] \in Alive
  /\ apc' = [apc EXCEPT ![r] = "crashed"]
  /\ UNCHANGED <<present, lines, tail, gen, cval, upc, ureq, ufile, uinode,
                 ucount, lastWritten>>

\* A write of the agent is cut short (a full disk, or the agent is killed in
\* it): the file ends in a partial line and the agent is gone.
TornWrite(r) ==
  /\ TornWrites
  /\ apc[r] \in {"open", "compactWrite"}
  /\ LET f == IF apc[r] = "open" THEN Orig(r) ELSE Comp(r)
     IN  tail' = [tail EXCEPT ![f] = TRUE]
  /\ apc' = [apc EXCEPT ![r] = "crashed"]
  /\ UNCHANGED <<present, lines, gen, cval, upc, ureq, ufile, uinode, ucount,
                 lastWritten>>

-----------------------------------------------------------------------------
(* UpdateStatus, part_001:210-225, and Update, jsondb.go:74-88.            *)

\* The socket answers while the run's agent is alive; its status is
\* Running until the agent writes the final status.
LiveRunning(r) == apc[r] = "open"

\* Lines 211-222: the agent answers GET /status with the same request ID
\* and Running, and UpdateStatus returns errDAGIsRunning.
UpdateRefused(r) ==
  /\ upc = "idle"
  /\ ucount < MaxUpdates
  /\ LiveRunning(r)
  /\ ucount' = ucount + 1
  /\ UNCHANGED <<present, lines, tail, gen, apc, cval, upc, ureq, ufile,
                 uinode, lastWritten>>

\* Lines 211-224: the socket does not answer, or answers for another run or
\* with a status other than Running, and Update is called.
UpdateStatus(r) ==
  /\ upc = "idle"
  /\ ucount < MaxUpdates
  /\ apc[r] # "idle"
  /\ ~LiveRunning(r)
  /\ UpdateAfterClose => apc[r] \in Exited
  /\ upc' = "find"
  /\ ureq' = r
  /\ UNCHANGED <<present, lines, tail, gen, apc, cval, ufile, uinode, ucount,
                 lastWritten>>

\* Update, lines 75-78: FindByRequestID; its error is returned.
UpdateFind ==
  /\ upc = "find"
  /\ IF FindByRequestID(ureq) = NoFile
     THEN /\ upc' = "idle"
          /\ ucount' = ucount + 1
          /\ UNCHANGED ufile
     ELSE /\ ufile' = FindByRequestID(ureq)
          /\ upc' = "open"
          /\ UNCHANGED ucount
  /\ UNCHANGED <<present, lines, tail, gen, apc, cval, ureq, uinode,
                 lastWritten>>

\* Update, lines 79-82: the writer opens the file found, creating it again
\* if it has been removed since.
UpdateOpen ==
  /\ upc = "open"
  /\ OpenFile(ufile)
  /\ uinode' = gen'[ufile]
  /\ upc' = "write"
  /\ UNCHANGED <<apc, cval, ureq, ufile, ucount, lastWritten>>

\* Update, lines 83-87: the status is written to the opened inode, lost if
\* the file has been removed since; Update returns success either way.
UpdateWrite ==
  /\ upc = "write"
  /\ IF ufile \in present /\ gen[ufile] = uinode
     THEN AppendLine(ufile, "edited")
     ELSE UNCHANGED <<lines, tail>>
  /\ lastWritten' = [lastWritten EXCEPT ![ureq] = "edited"]
  /\ upc' = "idle"
  /\ ucount' = ucount + 1
  /\ UNCHANGED <<present, gen, apc, cval, ureq, ufile, uinode>>

-----------------------------------------------------------------------------

Init ==
  /\ present = {}
  /\ lines = [f \in File |-> <<>>]
  /\ tail = [f \in File |-> FALSE]
  /\ gen = [f \in File |-> 0]
  /\ apc = [r \in Run |-> "idle"]
  /\ cval = [r \in Run |-> NoStatus]
  /\ upc = "idle"
  /\ ureq = 1
  /\ ufile = NoFile
  /\ uinode = 0
  /\ ucount = 0
  /\ lastWritten = [r \in Run |-> NoStatus]

AgentStep(r) ==
  \/ Open(r) \/ Write(r) \/ WriteFinal(r) \/ Close(r)
  \/ CompactOpen(r) \/ CompactWrite(r) \/ CompactWriteFail(r)
  \/ CompactRemove(r) \/ Crash(r) \/ TornWrite(r)

UpdateStep ==
  \/ \E r \in Run : UpdateRefused(r) \/ UpdateStatus(r)
  \/ UpdateFind \/ UpdateOpen \/ UpdateWrite

\* Every run has exited and no more edits are made.
Quiescent ==
  /\ \A r \in Run : apc[r] \in Exited
  /\ upc = "idle" /\ ucount = MaxUpdates
  /\ UNCHANGED vars

Next ==
  \/ \E r \in Run : AgentStep(r)
  \/ UpdateStep
  \/ Quiescent

Spec == Init /\ [][Next]_vars

-----------------------------------------------------------------------------
(* Properties.                                                             *)

TypeOK ==
  /\ present \subseteq File
  /\ lines \in [File -> Seq(Line)]
  /\ tail \in [File -> BOOLEAN]
  /\ gen \in [File -> Nat]
  /\ apc \in [Run -> AgentPC]
  /\ cval \in [Run -> Status \cup {NoStatus}]
  /\ upc \in {"idle", "find", "open", "write"}
  /\ ureq \in Run
  /\ ufile \in File \cup {NoFile}
  /\ uinode \in Nat
  /\ ucount \in 0..MaxUpdates
  /\ lastWritten \in [Run -> Status \cup {NoStatus}]

\* The history of a run (FindByRequestID, which the run's page and Update
\* itself read) shows the last status that Write or Update stored with
\* success: Compact keeps it, a failed or cut-short write of the agent
\* hides nothing, and an edit made by UpdateStatus is not lost.
FindReturnsLastWrite ==
  \A r \in Run : lastWritten[r] # NoStatus => FindStatus(r) = lastWritten[r]

\* When no agent is alive GetLatestStatus (part_001:190-204) reads
\* ReadStatusToday: whichever file filterLatest puts first, it shows what
\* the history shows for the newest run.
LatestStatusCurrent ==
  (present # {} /\ \A r \in Run : apc[r] \notin Alive) =>
    \A f \in FilterLatest : ParseFile(f) = FindStatus(NewestRun)

=============================================================================

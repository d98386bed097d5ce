--------------------------- MODULE HistoryReader ---------------------------
(***************************************************************************)
(* The history store of HistoryStore with a reader whose reads take       *)
(* several steps, as the code's do: FindByRequestID (jsondb.go:172-198,    *)
(* GetStatusByRequestId), ReadStatusRecent (136-157, with latest, 343-350; *)
(* GetRecentHistory) and ReadStatusToday (160-169, with latestToday,       *)
(* 315-341; GetLatestStatus when the socket does not answer) glob the     *)
(* DAG's files first and then parse them one by one, while the agents and  *)
(* their Compact go on.  A file that no longer exists, or does not parse, *)
(* is skipped.  The file cache is left out: every parse goes to the disk.  *)
(*                                                                         *)
(* DeleteDAG (part_001:232-239) may run meanwhile: RemoveAll (201-221)     *)
(* globs the files, takes the time, and removes each one last modified    *)
(* before that time.                                                       *)
(*                                                                         *)
(* FindByRequestID parses every file of the DAG; only run r's files carry *)
(* its request ID, so the reader's glob keeps those.                       *)
(***************************************************************************)
EXTENDS HistoryStore

CONSTANTS
  RecentN,   \* in Nat \ {0}: n of ReadStatusRecent, the UI's number of runs
  MaxReads   \* in Nat \ {0}, bound: the reads made

VARIABLES
  qpc,     \* the read: "idle", "parse" (the globbed files left), "done"
  qop,     \* "find", "recent" or "today"
  qreq,    \* the run FindByRequestID looks for
  qfiles,  \* the globbed files not yet parsed
  qwant,   \* the runs whose status the history held when the read began
  qgot,    \* the runs whose status the read returned
  qcount,  \* the reads begun
  dpc,     \* DeleteDAG: "idle", "remove" (the globbed files left), "done"
  dfiles,  \* the files RemoveAll globbed and has not removed yet
  dstamp   \* dstamp[f]: f's modification when RemoveOld took the time

rvars == <<qpc, qop, qreq, qfiles, qwant, qgot, qcount, dpc, dfiles, dstamp>>

\* What a file's modification time tells apart: its incarnation, its lines
\* and a partial line (every write and every creation changes it).
Stamp(f) == <<gen[f], Len(lines[f]), tail[f]>>

\* Run r has a file.
HasFile(r) == Orig(r) \in present \/ Comp(r) \in present

\* The RecentN newest runs that have a file.
NewestRuns ==
  {r \in Run : HasFile(r) /\ Cardinality({q \in Run : q > r /\ HasFile(q)}) < RecentN}

\* The runs among rs whose status the history shows.
WithStatus(rs) == {r \in rs : FindStatus(r) # NoStatus}

\* latest, lines 343-350, with filterLatest: the files sorted by the second
\* in their name, newest first (sort.Slice is not stable), and the first n.
Latest(S) ==
  /\ S \subseteq present
  /\ Cardinality(S) = IF Cardinality(present) < RecentN
                      THEN Cardinality(present) ELSE RecentN
  /\ \A f \in S, g \in present \ S : Sec[f[1]] >= Sec[g[1]]

-----------------------------------------------------------------------------

\* FindByRequestID, lines 176-182: the request ID is given and the DAG's
\* files are globbed.
FindGlob(r) ==
  /\ qpc = "idle" /\ qcount < MaxReads
  /\ qop' = "find" /\ qreq' = r
  /\ qfiles' = {Orig(r), Comp(r)} \cap present
  /\ qwant' = WithStatus({r})
  /\ qgot' = {}
  /\ qpc' = "parse"
  /\ qcount' = qcount + 1

\* ReadStatusRecent, line 140: latest picks the n newest files.
RecentGlob ==
  /\ qpc = "idle" /\ qcount < MaxReads
  /\ \E S \in SUBSET present :
       /\ Latest(S)
       /\ qfiles' = S
  /\ qop' = "recent"
  /\ qwant' = WithStatus(NewestRuns)
  /\ qgot' = {}
  /\ qpc' = "parse"
  /\ qcount' = qcount + 1
  /\ UNCHANGED qreq

\* ReadStatusToday, lines 162-165: latestToday globs the DAG's files (all
\* runs are of today), filterLatest keeps one of the latest second, and no
\* file at all is ErrNoStatusDataToday.
TodayGlob ==
  /\ qpc = "idle" /\ qcount < MaxReads
  /\ \/ /\ present = {}
        /\ qfiles' = {}
     \/ \E f \in FilterLatest : qfiles' = {f}
  /\ qop' = "today"
  /\ qwant' = IF present = {} THEN {} ELSE WithStatus({NewestRun})
  /\ qgot' = {}
  /\ qpc' = "parse"
  /\ qcount' = qcount + 1
  /\ UNCHANGED qreq

\* The next file FindByRequestID parses: the names sorted highest first,
\* so the compacted file comes before the original.
NextFind == IF Comp(qreq) \in qfiles THEN Comp(qreq) ELSE Orig(qreq)

\* FindByRequestID, lines 183-195: a file is parsed; one that fails is
\* skipped, the first that parses is returned.
FindParse ==
  /\ qpc = "parse" /\ qop = "find"
  /\ qfiles # {}
  /\ LET f == NextFind IN
       IF ParseFile(f) # NoStatus
       THEN /\ qgot' = {qreq}
            /\ qfiles' = {}
            /\ qpc' = "done"
       ELSE /\ qfiles' = qfiles \ {f}
            /\ qpc' = IF qfiles' = {} THEN "done" ELSE "parse"
            /\ UNCHANGED qgot
  /\ UNCHANGED <<qop, qreq, qwant, qcount>>

\* ReadStatusRecent, lines 141-155, and ReadStatusToday, lines 166-168: each
\* file is parsed; one that fails is left out (for today: an error).
RecentParse ==
  /\ qpc = "parse" /\ qop \in {"recent", "today"}
  /\ \E f \in qfiles :
       /\ qgot' = IF ParseFile(f) # NoStatus THEN qgot \cup {f[1]} ELSE qgot
       /\ qfiles' = qfiles \ {f}
       /\ qpc' = IF qfiles' = {} THEN "done" ELSE "parse"
  /\ UNCHANGED <<qop, qreq, qwant, qcount>>

\* A glob that matched nothing: the read returns at once.
EmptyRead ==
  /\ qpc = "parse" /\ qfiles = {}
  /\ qpc' = "done"
  /\ UNCHANGED <<qop, qreq, qfiles, qwant, qgot, qcount>>

\* The caller takes the result; another read may begin.
ReadReturn ==
  /\ qpc = "done"
  /\ qpc' = "idle"
  /\ UNCHANGED <<qop, qreq, qfiles, qwant, qgot, qcount>>

-----------------------------------------------------------------------------
(* DeleteDAG: RemoveAll(loc), then the DAG file is deleted.                *)

\* RemoveOld, lines 208-210, with retention 0: the files are globbed and
\* ot is now.
DeleteGlob ==
  /\ dpc = "idle"
  /\ dfiles' = present
  /\ dstamp' = [f \in File |-> Stamp(f)]
  /\ dpc' = IF present = {} THEN "done" ELSE "remove"
  /\ UNCHANGED <<present, qpc, qop, qreq, qfiles, qwant, qgot, qcount>>

\* RemoveOld, lines 211-218: a globbed file is stat'ed; it is removed if it
\* was last modified before ot; one already gone fails the stat and is
\* passed over.
DeleteRemove ==
  /\ dpc = "remove"
  /\ \E f \in dfiles :
       /\ present' = IF Stamp(f) = dstamp[f] THEN present \ {f} ELSE present
       /\ dfiles' = dfiles \ {f}
       /\ dpc' = IF dfiles' = {} THEN "done" ELSE "remove"
  /\ UNCHANGED <<qpc, qop, qreq, qfiles, qwant, qgot, qcount, dstamp>>

ReaderStep ==
  \/ \E r \in Run : FindGlob(r)
  \/ RecentGlob \/ TodayGlob \/ FindParse \/ RecentParse \/ EmptyRead
  \/ ReadReturn

ReaderInit ==
  /\ qpc = "idle"
  /\ qop = "find"
  /\ qreq = 1
  /\ qfiles = {}
  /\ qwant = {}
  /\ qgot = {}
  /\ qcount = 0
  /\ dpc = "idle"
  /\ dfiles = {}
  /\ dstamp = [f \in File |-> <<0, 0, FALSE>>]

\* The store's steps and the reader's interleave.
ReaderSpec ==
  /\ Init /\ ReaderInit
  /\ [][\/ Next /\ UNCHANGED rvars
        \/ ReaderStep /\ UNCHANGED vars /\ UNCHANGED <<dpc, dfiles, dstamp>>
        \/ (DeleteGlob \/ DeleteRemove)
             /\ UNCHANGED <<lines, tail, gen, apc, cval, upc, ureq, ufile,
                            uinode, ucount, lastWritten>>]_<<vars, rvars>>

-----------------------------------------------------------------------------

\* FindByRequestID, ReadStatusRecent and ReadStatusToday return the status
\* of every run they are asked for that the history shows both when the
\* call begins and when it returns (a run deleted meanwhile may be missed;
\* the run's page, the recent-runs list and the latest status never lose a
\* run to a Compact in flight, nor show one run twice in place of another).
ReadSeesHistory == qpc = "done" => qwant \cap WithStatus(Run) \subseteq qgot

=============================================================================

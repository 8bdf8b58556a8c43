---------------------------- MODULE DiagramIndex ----------------------------
(***************************************************************************)
(* The diagram artifacts of OrbytEngine: every run leaves a record, which  *)
(* is three files, and diagrams/index.json lists the records of each       *)
(* workflow source, the last few of each and the last many of all.  The    *)
(* files of a record that is dropped from the index are deleted.           *)
(*                                                                         *)
(* To persist is one synchronous call, but engines in other processes use  *)
(* the same directory, and a process may die between any two files.        *)
(* Records are numbers, in the order of their createdAt.                   *)
(***************************************************************************)
EXTENDS Naturals, SequencesExt

CONSTANTS Source,        \* the sourceOrigins of workflows
          Engine,        \* the processes
          MaxHistory,    \* maxHistoryPerWorkflow
          MaxArtifacts,  \* maxTotalArtifacts
          MaxRecords,    \* bound: the records persisted
          MaxTornIndexes \* bound: the crashes

ASSUME DiagramIndexAssumption ==
  /\ MaxHistory \in Nat \ {0} /\ MaxArtifacts \in Nat \ {0}
  /\ MaxRecords \in Nat /\ MaxTornIndexes \in Nat

VARIABLES
  recordFiles,  \* the records whose files exist
  indexFile,    \* indexFile[o]: the history of source o in index.json
  indexing,     \* indexing[p]: whether p is to write the index, and which
  recordCount,  \* the records made so far
  raced,        \* history: a process has read the index that another was to write,
                \* or has died at work
  diagramFaults \* crashes so far

diagramVars == <<recordFiles, indexFile, indexing, recordCount, raced, diagramFaults>>

Record == 1 .. MaxRecords
Histories == [Source -> Seq(Record)]
NoHistory == [o \in Source |-> <<>>]
NotIndexing == [on |-> FALSE, index |-> NoHistory]

\* The records that an index lists.
Listed(index) == UNION {ToSet(index[o]) : o \in Source}

DiagramTypeOK ==
  /\ recordFiles \subseteq Record /\ indexFile \in Histories
  /\ indexing \in [Engine -> [on : BOOLEAN, index : Histories]]
  /\ recordCount \in 0 .. MaxRecords /\ raced \in BOOLEAN
  /\ diagramFaults \in 0 .. MaxTornIndexes

DiagramInit ==
  /\ recordFiles = {} /\ indexFile = NoHistory
  /\ indexing = [p \in Engine |-> NotIndexing]
  /\ recordCount = 0 /\ raced = FALSE /\ diagramFaults = 0

-----------------------------------------------------------------------------
\* pruneWorkflowDiagramHistory.
LastOf(history, n) ==
  IF Len(history) <= n THEN history ELSE SubSeq(history, Len(history) - n + 1, Len(history))

\* enforceGlobalDiagramArtifactLimit: the oldest of all records go, which are the
\* first of their histories.
Newest(index, n) ==
  LET all == Listed(index)
      kept == {r \in all : Cardinality({q \in all : q > r}) < n}
  IN [o \in Source |-> LastOf(index[o], Cardinality(ToSet(index[o]) \cap kept))]

\* updateWorkflowDiagramIndex: record r of source o, made after the index was
\* read.  It comes last, and the sort of normalize changes nothing.
Updated_PerSource(index, o, r) == [index EXCEPT ![o] = LastOf(Append(@, r), MaxHistory)]

Updated(index, o, r) ==
  Newest([index EXCEPT ![o] = LastOf(Append(@, r), MaxHistory)], MaxArtifacts)

NewRecord == recordCount + 1

\* The three files are written, the index is read, and what the record pushes
\* out of it is deleted from the disk before the index is written.
Persists(p, o) ==
  LET index == Updated(indexFile, o, NewRecord)
  IN /\ ~indexing[p].on /\ recordCount < MaxRecords
     /\ recordCount' = NewRecord
     /\ recordFiles' = (recordFiles \cup {NewRecord}) \ (Listed(indexFile) \ Listed(index))
     /\ indexing' = [indexing EXCEPT ![p] = [on |-> TRUE, index |-> index]]
     /\ raced' = (raced \/ \E q \in Engine : indexing[q].on)
     /\ UNCHANGED <<indexFile, diagramFaults>>

WritesIndex(p) ==
  /\ indexing[p].on
  /\ indexFile' = indexing[p].index
  /\ indexing' = [indexing EXCEPT ![p] = NotIndexing]
  /\ UNCHANGED <<recordFiles, recordCount, raced, diagramFaults>>

\* A process dies: before it has deleted anything, before it writes the index,
\* or while it does.  An index that does not parse is read as an empty one.
EngineDies(p) ==
  /\ diagramFaults < MaxTornIndexes
  /\ diagramFaults' = diagramFaults + 1
  /\ raced' = TRUE
  /\ \/ /\ ~indexing[p].on /\ recordCount < MaxRecords
        /\ recordCount' = NewRecord /\ recordFiles' = recordFiles \cup {NewRecord}
        /\ UNCHANGED <<indexFile, indexing>>
     \/ /\ indexing[p].on
        /\ indexing' = [indexing EXCEPT ![p] = NotIndexing]
        /\ indexFile' \in {indexFile, NoHistory}
        /\ UNCHANGED <<recordFiles, recordCount>>

DiagramNext ==
  \E p \in Engine : \/ \E o \in Source : Persists(p, o)
                    \/ WritesIndex(p) \/ EngineDies(p)

DiagramSpec == DiagramInit /\ [][DiagramNext]_diagramVars

-----------------------------------------------------------------------------
(***************************************************************************)
(* Properties                                                              *)
(***************************************************************************)
\* The limits hold in every index, whoever wrote it and out of what.
IndexIsBounded ==
  /\ \A o \in Source : Len(indexFile[o]) <= MaxHistory
  /\ Cardinality(Listed(indexFile)) <= MaxArtifacts

\* No record is listed twice, and a history is in the order of creation, so
\* that its last record is the latest, whichever processes wrote it.
HistoriesAreOrdered ==
  \A o \in Source : \A i, j \in DOMAIN indexFile[o] : i < j => indexFile[o][i] < indexFile[o][j]

\* As long as one process at a time persists, and none dies, what is on the
\* disk between two calls is what the index lists.
IndexIsTrue ==
  ~raced /\ (\A p \in Engine : ~indexing[p].on) => recordFiles = Listed(indexFile)

DiagramSafe == IndexIsBounded /\ HistoriesAreOrdered /\ IndexIsTrue
=============================================================================

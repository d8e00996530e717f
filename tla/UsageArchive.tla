---------------------------- MODULE UsageArchive -----------------------------
(***************************************************************************)
(* The accounting pipeline together with the process that empties its      *)
(* table: the dashboard application exports the rows of request_log above  *)
(* a high-water mark, advances the mark when the archive is committed, and *)
(* then deletes rows that are below the mark and older than 30 days        *)
(* (app/db/proxy/export.py, driven by services/sync/dashboard_sync.py).    *)
(*                                                                         *)
(* request_log.id is AUTOINCREMENT: ids grow with every inserted row and   *)
(* are never used twice.                                                   *)
(***************************************************************************)
EXTENDS UsageWriter, FiniteSetsExt

VARIABLES
  rowId,     \* id of the row of each event that has one
  nextId,    \* the AUTOINCREMENT counter of request_log
  mark,      \* sync_state.last_exported_log_id
  export,    \* the export in progress: idle, or its bounds
  taken,     \* events the export in progress has added to its candidate
  counted,   \* how often each event is counted in the dashboard archive
  deleted    \* events whose row was deleted

archiveVars == <<mark, export, taken, counted, deleted>>
tableVars   == <<rowId, nextId>>
avars       == <<vars, tableVars, archiveVars>>

Idle == [stage |-> "idle", from |-> 0, to |-> 0]

ArchiveInit ==
  /\ Init
  /\ rowId = [r \in Requests |-> 0] /\ nextId = 1
  /\ mark = 0 /\ export = Idle /\ taken = {}
  /\ counted = [r \in Requests |-> 0] /\ deleted = {}

(* A pipeline step; rows it inserts are numbered in batch order.           *)
Position(r) == CHOOSE i \in 1..Len(batch) : batch[i] = r
PipelineStep ==
  /\ Next
  /\ LET new == rows' \ rows IN
     /\ rowId' = [r \in Requests |->
                    IF r \in new THEN nextId + Position(r) - 1 ELSE rowId[r]]
     /\ nextId' = IF new = {} THEN nextId ELSE nextId + Len(batch)
  /\ UNCHANGED archiveVars

(* get_export_mark and get_max_log_id: the bounds of this export.          *)
MaxLogId == Max({rowId[r] : r \in rows} \union {0})
BeginExport ==
  /\ export = Idle
  /\ export' = [stage |-> "bounded", from |-> mark, to |-> MaxLogId]
  /\ UNCHANGED <<vars, tableVars, mark, taken, counted, deleted>>

(* export_to_dashboard: rows with an id in (from, to] enter the candidate. *)
InBounds(r) == export.from < rowId[r] /\ rowId[r] <= export.to
ExportRows ==
  /\ export.stage = "bounded"
  /\ taken' = {r \in rows : InBounds(r)}
  /\ export' = [export EXCEPT !.stage = "candidate"]
  /\ UNCHANGED <<vars, tableVars, mark, counted, deleted>>

(* The candidate is installed as the archive, then set_export_marks.       *)
MarkCurrentMax == MaxLogId  \* mutant: the bound is read again at commit
NewMark == export.to
CommitExport ==
  /\ export.stage = "candidate"
  /\ counted' = [r \in Requests |->
                   IF r \in taken THEN counted[r] + 1 ELSE counted[r]]
  /\ mark' = NewMark
  /\ export' = [export EXCEPT !.stage = "committed", !.to = NewMark]
  /\ taken' = {}
  /\ UNCHANGED <<vars, tableVars, deleted>>

(* Any failure before the commit leaves archive and mark as they were.     *)
AbortExport ==
  /\ export.stage \in {"bounded", "candidate"}
  /\ export' = Idle /\ taken' = {}
  /\ UNCHANGED <<vars, tableVars, mark, counted, deleted>>

(* cleanup_exported_logs: rows up to the mark that are older than 30 days. *)
Cleanup(old) ==
  /\ export.stage = "committed"
  /\ old \subseteq {r \in rows : rowId[r] <= export.to}
  /\ rows' = rows \ old /\ metrics' = metrics \ old
  /\ deleted' = deleted \union old
  /\ export' = Idle
  /\ UNCHANGED <<tokenVars, modeVars, queue, spoolVars, writer, batchVars,
                 inserts, lossVars, budgetVars, tableVars, mark, taken, counted>>

ArchiveNext ==
  \/ PipelineStep
  \/ BeginExport \/ ExportRows \/ CommitExport \/ AbortExport
  \/ \E old \in SUBSET rows : Cleanup(old)

ArchiveSpec == ArchiveInit /\ [][ArchiveNext]_avars
-----------------------------------------------------------------------------
(* Types; every row has an id the counter has passed, no two the same.     *)
ArchiveTypeOK ==
  /\ rowId \in [Requests -> Nat] /\ nextId \in Nat \ {0} /\ mark \in Nat
  /\ export.stage \in {"idle", "bounded", "candidate", "committed"}
  /\ taken \subseteq Requests /\ deleted \subseteq Requests
  /\ counted \in [Requests -> Nat]
  /\ \A r \in rows : rowId[r] \in 1..(nextId - 1)
  /\ \A r, s \in rows : rowId[r] = rowId[s] => r = s

(* export.py:196-199 "nothing is ever lost": a row is deleted only after   *)
(* the archive has counted it, whatever rows arrived during the export.    *)
DeletedWasCounted == \A r \in deleted : counted[r] >= 1

(* export.py:32 "exactly once per row": the archive never counts an event  *)
(* more often than a row was inserted for it.                              *)
CountedPerRow == \A r \in Requests : counted[r] <= inserts[r]

(* A row below the mark has been counted: the mark never jumps over a row  *)
(* that was committed while the export ran.                                *)
MarkCoversCounted == \A r \in rows : rowId[r] <= mark => counted[r] >= 1

(* Each row is counted once, and before it goes or the mark passes it.     *)
ArchiveExact == DeletedWasCounted /\ CountedPerRow /\ MarkCoversCounted

(* usage_writer.cpp:116-117 "event_id makes every later replay             *)
(* idempotent": over all crashes and replays an event is counted once.     *)
ReplayIsIdempotent == \A r \in Requests : counted[r] <= 1
=============================================================================

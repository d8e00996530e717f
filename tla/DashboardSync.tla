----------------------------- MODULE DashboardSync -----------------------------
(***************************************************************************)
(* The dashboard archive of several machines that share a WebDAV folder    *)
(* (services/sync/dashboard_sync.py, dashboard_user_delete.py, webdav.py). *)
(* A transaction pulls the newest artifact, adds the machine's rows above  *)
(* its mark, writes the candidate and its markers to disk (the pending     *)
(* transaction), publishes it under a new name and commits it locally.     *)
(* Whatever interrupts it, the next transaction first recovers the pending *)
(* one.  Users are deleted ("archive") by a transaction that adds no rows. *)
(*                                                                         *)
(* An artifact is the number of times it counts each row.  Its name is its *)
(* position in `remote`: names carry the time of publication.  A file just *)
(* put may be missing from directory listings for a while.                 *)
(***************************************************************************)
EXTENDS Integers, Sequences, FiniteSets

CONSTANTS
  Machines,
  Operations,     \* subset of {"export", "archive"}
  Lags,           \* whether listings may lag: subset of BOOLEAN
  MaxRow,         \* bound: rows per machine
  MaxArtifacts,   \* bound: artifacts on the server
  MaxStops,       \* bound: crashes and errors of all machines
  MaxAttempts     \* attempts of one request after conflicts

ASSUME SyncAssumption ==
  /\ IsFiniteSet(Machines) /\ Machines # {}
  /\ Operations \subseteq {"export", "archive"} /\ Lags \subseteq BOOLEAN
  /\ {MaxArtifacts, MaxStops} \subseteq Nat
  /\ {MaxRow, MaxAttempts} \subseteq Nat \ {0}

Rows == Machines \X (1..MaxRow)
Empty == [r \in Rows |-> 0]

VARIABLES
  remote,   \* the artifacts: content, and whether listings show them
  log,      \* greatest id given in request_log (AUTOINCREMENT)
  mark,     \* sync_state.last_exported_log_id
  deleted,  \* rows cleaned up after export
  local,    \* the local dashboard database
  stored,   \* dashboard_remote_artifact
  pending,  \* the dashboard_pending_* markers
  file,     \* the pending sidecar file
  job,      \* the transaction in progress
  stops,    \* crashes and errors so far
  landed,   \* ghost: the pending candidate has reached the server
  forgot    \* ghost: a candidate that had landed was discarded

rowVars  == <<log, mark, deleted>>
diskVars == <<local, stored, pending, file>>
vars == <<remote, rowVars, diskVars, job, stops, landed, forgot>>

NoPending == [operation |-> "none", max |-> 0, name |-> 0]
NoFile == [r \in {} |-> 0]
Idle == [at |-> "idle", operation |-> "none", content |-> Empty,
         expected |-> 0, name |-> 0, attempt |-> 1, recovering |-> FALSE]

Init ==
  /\ remote = <<>>
  /\ log = [m \in Machines |-> 0] /\ mark = [m \in Machines |-> 0]
  /\ deleted = {}
  /\ local = [m \in Machines |-> Empty] /\ stored = [m \in Machines |-> 0]
  /\ pending = [m \in Machines |-> NoPending]
  /\ file = [m \in Machines |-> NoFile]
  /\ job = [m \in Machines |-> Idle]
  /\ stops = 0 /\ landed = [m \in Machines |-> FALSE] /\ forgot = FALSE
-----------------------------------------------------------------------------
Visible == {k \in 1..Len(remote) : remote[k].visible}
Newest(k) == k \in Visible /\ \A j \in Visible : j <= k
Latest == IF Visible = {} THEN 0 ELSE CHOOSE k \in Visible : Newest(k)
Changed(expected, current) ==
  expected # 0 /\ current # 0 /\ expected # current

At(m, stage) == job[m].at = stage
Goto(m, stage) == job' = [job EXCEPT ![m].at = stage]

(* A usage row is recorded.                                                *)
RowArrives(m) ==
  /\ log[m] < MaxRow
  /\ log' = [log EXCEPT ![m] = @ + 1]
  /\ UNCHANGED <<remote, mark, deleted, diskVars, job, stops, landed, forgot>>

(* sync_dashboard and delete_dashboard_users.                              *)
Begin(m, operation) ==
  /\ At(m, "idle")
  /\ job' = [job EXCEPT ![m] =
               [Idle EXCEPT !.at = "recover", !.operation = operation]]
  /\ UNCHANGED <<remote, rowVars, diskVars, stops, landed, forgot>>

NothingPending(m) ==
  /\ At(m, "recover") /\ pending[m] = NoPending
  /\ Goto(m, "pull")
  /\ UNCHANGED <<remote, rowVars, diskVars, stops, landed, forgot>>

(* An archive does not complete an export, and lost bytes cannot be.       *)
Refuse(m) ==
  /\ At(m, "recover") /\ pending[m] # NoPending
  /\ \/ job[m].operation = "archive" /\ pending[m].operation # "archive"
     \/ file[m] = NoFile
  /\ job' = [job EXCEPT ![m] = Idle]
  /\ UNCHANGED <<remote, rowVars, diskVars, stops, landed, forgot>>

Known(name) == name # 0 /\ remote[name].visible
RecoverDropsName(m) ==  \* mutant: recovery installs without publishing
  /\ At(m, "recover") /\ pending[m] # NoPending /\ file[m] # NoFile
  /\ job[m].operation = "archive" => pending[m].operation = "archive"
  /\ job' = [job EXCEPT ![m].recovering = TRUE, ![m].at = "install",
                        ![m].name = pending[m].name]
  /\ UNCHANGED <<remote, rowVars, diskVars, stops, landed, forgot>>
Recover(m) ==
  /\ At(m, "recover") /\ pending[m] # NoPending /\ file[m] # NoFile
  /\ job[m].operation = "archive" => pending[m].operation = "archive"
  /\ job' = [job EXCEPT ![m].recovering = TRUE,
       ![m].at = IF Known(pending[m].name) THEN "install" ELSE "check",
       ![m].name = IF Known(pending[m].name) THEN pending[m].name ELSE 0,
       ![m].expected = Latest]
  /\ UNCHANGED <<remote, rowVars, diskVars, stops, landed, forgot>>

(* _build_dashboard_candidate: the newest artifact, or the local database. *)
PullFrom(m, content, name) ==
  /\ At(m, "pull")
  /\ job' = [job EXCEPT ![m].at = "prepare", ![m].content = content,
                        ![m].expected = name]
  /\ UNCHANGED <<remote, rowVars, diskVars, stops, landed, forgot>>
Pull(m) ==
  \/ Visible = {} /\ PullFrom(m, local[m], 0)
  \/ \E k \in Visible : Newest(k) /\ PullFrom(m, remote[k].content, k)

(* export_to_dashboard counts the rows in (mark, max]; an archive keeps    *)
(* the marks.  The bound is MAX(id) of the rows that are left, which is    *)
(* behind the mark, or 0, when cleanup deleted the last ones.              *)
Present(m) == {i \in 1..log[m] : <<m, i>> \notin deleted}
MaxId(m) ==
  IF Present(m) = {} THEN 0
  ELSE CHOOSE i \in Present(m) : \A j \in Present(m) : j <= i
Exported(m, content) ==
  [r \in Rows |-> content[r] +
     IF r[1] = m /\ mark[m] < r[2] /\ r[2] \in Present(m) THEN 1 ELSE 0]
Candidate(m) ==
  IF job[m].operation = "export" THEN Exported(m, job[m].content)
  ELSE job[m].content
Bound(m) == IF job[m].operation = "export" THEN MaxId(m) ELSE mark[m]
ExpectedOf(m) ==
  IF job[m].expected # 0 THEN job[m].expected
  ELSE IF stored[m] # 0 THEN stored[m] ELSE Latest

Prepare(m) ==
  /\ At(m, "prepare")
  /\ file' = [file EXCEPT ![m] = Candidate(m)]
  /\ pending' = [pending EXCEPT ![m] =
       [operation |-> job[m].operation, max |-> Bound(m), name |-> 0]]
  /\ landed' = [landed EXCEPT ![m] = FALSE]
  /\ job' = [job EXCEPT ![m].at = "check", ![m].expected = ExpectedOf(m)]
  /\ UNCHANGED <<remote, rowVars, local, stored, stops, forgot>>

(* _archive_dashboard_users_transform: no such user in the candidate.      *)
NotFound(m) ==
  /\ At(m, "prepare") /\ job[m].operation = "archive"
  /\ job' = [job EXCEPT ![m] = Idle]
  /\ UNCHANGED <<remote, rowVars, diskVars, stops, landed, forgot>>
-----------------------------------------------------------------------------
(* publish_versioned_artifact: compare, put, confirm.                      *)
Check(m) ==
  /\ At(m, "check")
  /\ Goto(m, IF Changed(job[m].expected, Latest) THEN "conflict" ELSE "put")
  /\ UNCHANGED <<remote, rowVars, diskVars, stops, landed, forgot>>

Put(m, visible) ==
  /\ At(m, "put") /\ Len(remote) < MaxArtifacts
  /\ remote' = Append(remote, [content |-> file[m], visible |-> visible])
  /\ landed' = [landed EXCEPT ![m] = TRUE]
  /\ job' = [job EXCEPT ![m].at = "confirm", ![m].name = Len(remote')]
  /\ UNCHANGED <<rowVars, diskVars, stops, forgot>>

(* HTTP 409 or 412: the name exists already, or the provider says so.      *)
PutRefused(m) ==
  /\ At(m, "put")
  /\ Goto(m, "conflict")
  /\ UNCHANGED <<remote, rowVars, diskVars, stops, landed, forgot>>

Confirm(m) ==
  /\ At(m, "confirm") /\ Known(job[m].name)
  /\ pending' = [pending EXCEPT ![m].name = job[m].name]
  /\ Goto(m, "install")
  /\ UNCHANGED <<remote, rowVars, local, stored, file, stops, landed, forgot>>

(* A WebDAVError ends the transaction, the pending one stays.              *)
Unconfirmed(m) ==
  /\ At(m, "confirm") /\ ~Known(job[m].name)
  /\ job' = [job EXCEPT ![m] = Idle]
  /\ UNCHANGED <<remote, rowVars, diskVars, stops, landed, forgot>>

(* _discard_unpublished_dashboard_pending, then the next attempt.          *)
NextAttemptForever(m) ==  \* mutant: the attempts are not counted
  [Idle EXCEPT !.at = "recover", !.operation = job[m].operation]
NextAttempt(m) ==
  IF job[m].attempt = MaxAttempts THEN Idle
  ELSE [Idle EXCEPT !.at = "recover", !.operation = job[m].operation,
                    !.attempt = job[m].attempt + 1]

(* (A name that was confirmed keeps its candidate; as a listing does not   *)
(* lose names, its recovery finds it and never gets here.)                 *)
DiscardFile(m) ==
  /\ At(m, "conflict") /\ pending[m].name = 0
  /\ file' = [file EXCEPT ![m] = NoFile]
  /\ Goto(m, "discard")
  /\ UNCHANGED <<remote, rowVars, local, stored, pending, stops, landed, forgot>>
DiscardMarkers(m) ==
  /\ At(m, "discard")
  /\ pending' = [pending EXCEPT ![m] = NoPending]
  /\ forgot' = (forgot \/ landed[m])
  /\ landed' = [landed EXCEPT ![m] = FALSE]
  /\ job' = [job EXCEPT ![m] = NextAttempt(m)]
  /\ UNCHANGED <<remote, rowVars, local, stored, file, stops>>
-----------------------------------------------------------------------------
(* _commit_dashboard_pending, in the order of its durable steps.           *)
InstallMarksAll(m) ==  \* mutant: the mark is read again at the commit
  /\ At(m, "install")
  /\ mark' = [mark EXCEPT ![m] = log[m]]
  /\ local' = [local EXCEPT ![m] = file[m]]
  /\ Goto(m, "marks")
  /\ UNCHANGED <<remote, log, deleted, stored, pending, file, stops, landed, forgot>>
Install(m) ==
  /\ At(m, "install")
  /\ local' = [local EXCEPT ![m] = file[m]]
  /\ Goto(m, "marks")
  /\ UNCHANGED <<remote, rowVars, stored, pending, file, stops, landed, forgot>>

SetMarksNow(m) ==  \* mutant: whatever the operation, up to now
  /\ At(m, "marks")
  /\ mark' = [mark EXCEPT ![m] = log[m]]
  /\ stored' = [stored EXCEPT ![m] = job[m].name]
  /\ Goto(m, "cleanup")
  /\ UNCHANGED <<remote, log, deleted, local, pending, file, stops, landed, forgot>>
SetMarks(m) ==
  /\ At(m, "marks")
  /\ mark' = IF pending[m].operation = "export"
             THEN [mark EXCEPT ![m] = pending[m].max] ELSE mark
  /\ stored' = [stored EXCEPT ![m] = job[m].name]
  /\ Goto(m, "cleanup")
  /\ UNCHANGED <<remote, log, deleted, local, pending, file, stops, landed, forgot>>

Cleanup(m, old) ==
  /\ At(m, "cleanup")
  /\ old \subseteq {r \in Rows : r[1] = m /\ r[2] <= pending[m].max} \ deleted
  /\ old # {} => pending[m].operation = "export"
  /\ deleted' = deleted \union old
  /\ Goto(m, "unlink")
  /\ UNCHANGED <<remote, log, mark, diskVars, stops, landed, forgot>>

Unlink(m) ==
  /\ At(m, "unlink")
  /\ file' = [file EXCEPT ![m] = NoFile]
  /\ Goto(m, "clear")
  /\ UNCHANGED <<remote, rowVars, local, stored, pending, stops, landed, forgot>>

(* A recovered transaction is followed by the requested one.               *)
Clear(m) ==
  /\ At(m, "clear")
  /\ pending' = [pending EXCEPT ![m] = NoPending]
  /\ landed' = [landed EXCEPT ![m] = FALSE]
  /\ job' = [job EXCEPT ![m] =
       IF job[m].recovering THEN [@ EXCEPT !.at = "pull", !.recovering = FALSE,
                                           !.name = 0]
       ELSE Idle]
  /\ UNCHANGED <<remote, rowVars, local, stored, file, stops, forgot>>

(* The process dies, or a request, a copy or a database write raises.      *)
Stop(m) ==
  /\ ~At(m, "idle") /\ stops < MaxStops
  /\ stops' = stops + 1
  /\ job' = [job EXCEPT ![m] = Idle]
  /\ UNCHANGED <<remote, rowVars, diskVars, landed, forgot>>

(* A listing catches up.                                                   *)
Appear(k) ==
  /\ ~remote[k].visible
  /\ remote' = [remote EXCEPT ![k].visible = TRUE]
  /\ UNCHANGED <<rowVars, diskVars, job, stops, landed, forgot>>

Step(m) ==
  \/ NothingPending(m) \/ Refuse(m) \/ Recover(m) \/ Pull(m) \/ Prepare(m)
  \/ NotFound(m) \/ Check(m) \/ \E lag \in Lags : Put(m, ~lag)
  \/ PutRefused(m) \/ Confirm(m) \/ Unconfirmed(m)
  \/ DiscardFile(m) \/ DiscardMarkers(m)
  \/ Install(m) \/ SetMarks(m)
  \/ \E old \in SUBSET {r \in Rows : r[1] = m} : Cleanup(m, old)
  \/ Unlink(m) \/ Clear(m)

Next ==
  \/ \E m \in Machines :
       RowArrives(m) \/ (\E o \in Operations : Begin(m, o)) \/ Step(m) \/ Stop(m)
  \/ \E k \in 1..Len(remote) : Appear(k)

Spec == Init /\ [][Next]_vars

(* A request runs in a thread that goes on until it returns.               *)
FairSpec == Spec /\ \A m \in Machines : WF_vars(Step(m))
-----------------------------------------------------------------------------
Stages == {"idle", "recover", "pull", "prepare", "check", "put", "confirm",
           "conflict", "discard", "install", "marks", "cleanup", "unlink", "clear"}
Contents == [Rows -> Nat]

(* Types; the artifact a transaction or a marker names is on the server.   *)
TypeOK ==
  /\ remote \in Seq([content : Contents, visible : BOOLEAN])
  /\ log \in [Machines -> 0..MaxRow] /\ mark \in [Machines -> 0..MaxRow]
  /\ deleted \subseteq Rows
  /\ local \in [Machines -> Contents]
  /\ file \in [Machines -> Contents \union {NoFile}]
  /\ \A m \in Machines :
       /\ job[m].at \in Stages /\ job[m].attempt \in 1..MaxAttempts
       /\ {job[m].expected, job[m].name, stored[m], pending[m].name}
            \subseteq 0..Len(remote)
       /\ pending[m].max \in 0..MaxRow
  /\ stops \in 0..MaxStops /\ landed \in [Machines -> BOOLEAN]

Archived(r) == \E k \in Visible : remote[k].content[r] > 0

(* A row no export will count again: the mark is past it or it is gone.    *)
Passed(r) == r[2] <= mark[r[1]] \/ r \in deleted

(* doc/sync.md:83: no row is cleaned up, and no mark moves past a row,     *)
(* before an artifact that counts the row is confirmed on the server,      *)
(* through every interruption and recovery.                                *)
MarkedIsPublished == \A r \in Rows : Passed(r) => Archived(r)

(* doc/sync.md:87: deleting users moves no mark, not even when the         *)
(* transaction is recovered from its markers.  An export may set the mark  *)
(* back, because its bound is the greatest id that cleanup left, but never *)
(* to before a row that is still there: no row is exported a second time.  *)
MarkMovesByExport ==
  [][/\ \A m \in Machines : mark'[m] # mark[m] => pending[m].operation = "export"
     /\ \A r \in Rows : Passed(r) => Passed(r)']_vars

(* sync/common.py:9-10 "a single high-water mark ... that is advanced only *)
(* after a successful upload".                                             *)
MarkNeverGoesBack == [][\A m \in Machines : mark'[m] >= mark[m]]_vars

(* One machine alone: the newest artifact still counts everything this     *)
(* machine has marked as exported or cleaned up.                           *)
LatestKeepsMarked ==
  Cardinality(Machines) = 1 =>
    \A r \in Rows : Passed(r) => Latest # 0 /\ remote[Latest].content[r] > 0

(* A row is counted twice only after a candidate that had reached the      *)
(* server was discarded as unpublished.                                    *)
TwiceOnlyIfForgotten ==
  forgot \/ \A k \in 1..Len(remote) : \A r \in Rows : remote[k].content[r] <= 1

(* With one machine the archive on the server is exact, late listings,     *)
(* refused puts and interruptions included, but for forgotten candidates.  *)
OneMachineExact == LatestKeepsMarked /\ TwiceOnlyIfForgotten

(* export.py:32 "additive upserts, exactly once per row".                  *)
CountedOnce == \A k \in 1..Len(remote) : \A r \in Rows : remote[k].content[r] <= 1

(* dashboard_sync.py:176-178 "Any exception leaves the pending sidecar and *)
(* markers intact, so the next run can repeat this idempotently".          *)
MarkersHaveTheirFile ==
  [][\A m \in Machines :
       (At(m, "clear") /\ job'[m] = Idle /\ pending'[m] # NoPending)
         => file'[m] # NoFile]_vars

(* Every request returns.                                                  *)
RequestReturns == \A m \in Machines : ~At(m, "idle") ~> At(m, "idle")
=============================================================================

----------------------------- MODULE UsageWriter -----------------------------
(***************************************************************************)
(* The accounting pipeline of the proxy: a request reserves a usage slot   *)
(* before it contacts an upstream (UsageReservation), its completion puts  *)
(* one UsageEvent on a bounded memory queue (Database::log_request), and   *)
(* one writer thread (Database::log_writer_loop) moves events in batches   *)
(* to a durable spool file and from there to SQLite.                       *)
(*                                                                         *)
(* One request yields at most one event, so the event_id of the code is    *)
(* the request itself.  Every step below is one critical section of        *)
(* log_queue_mutex_ or one system call made outside of it.                 *)
(***************************************************************************)
EXTENDS Integers, Sequences, FiniteSets

CONSTANTS
  Requests,            \* the requests of a behaviour (= the event_ids)
  QueueMax,            \* kLogQueueMax
  BatchSize,           \* kLogBatchSize
  FrameMax,            \* worst-case frame (header + kLogRecordMaxBytes), in frames
  HardLimit,           \* kLogSpoolHardLimit, in frames
  CompactThreshold,    \* kLogCompactThreshold, in frames
  ShutdownRetryLimit,  \* kShutdownRetryLimit
  MaxFaults,           \* bound: storage and memory faults in a behaviour
  MaxCrashes,          \* bound: process or machine crashes in a behaviour
  Outage               \* TRUE: faults are not counted, storage may fail for ever

ASSUME WriterAssumption ==
  /\ IsFiniteSet(Requests)
  /\ {QueueMax, BatchSize, FrameMax, HardLimit, CompactThreshold,
      ShutdownRetryLimit} \subseteq Nat \ {0}
  /\ {MaxFaults, MaxCrashes} \subseteq Nat
  /\ Outage \in BOOLEAN
  \* 8 MiB + one 1 MiB batch is far below the 256 MiB limit
  /\ CompactThreshold + BatchSize <= HardLimit

VARIABLES
  phase,        \* what the handler of each request is doing with its token
  started,      \* requests whose token has upstream_started_ set
  reservations, \* log_reservations_
  accepting,    \* log_accepting_
  recovering,   \* log_recovering_
  stop,         \* log_stop_
  queue,        \* log_memory_queue_
  spool,        \* the frames of the spool file
  readOff,      \* log_spool_read_offset_, in frames
  writeOff,     \* log_spool_write_offset_, in frames
  synced,       \* how many frames of the file an fdatasync has covered
  writer,       \* where the writer thread is
  batch,        \* the records in the writer's hands
  durableEnd,   \* durable_end
  batchSynced,  \* spool_synced
  failures,     \* shutdown_failures
  rows,         \* events with a row in request_log
  metrics,      \* rows whose accounting metric has been written
  inserts,      \* how often a row of each event was inserted
  lost,         \* events counted in log_lost_events_
  vanished,     \* accepted events a crash took before they were durable
  orphaned,     \* events in the hands of a writer thread that died
  truncFailed,  \* some compaction failed to truncate the file
  faults, crashes

tokenVars  == <<phase, started, reservations>>
modeVars   == <<accepting, recovering, stop>>
spoolVars  == <<spool, readOff, writeOff, synced>>
batchVars  == <<batch, durableEnd, batchSynced, failures>>
dbVars     == <<rows, metrics, inserts>>
lossVars   == <<lost, vanished, orphaned>>
budgetVars == <<truncFailed, faults, crashes>>
vars == <<phase, started, reservations, accepting, recovering, stop, queue,
          spool, readOff, writeOff, synced, writer, batch, durableEnd,
          batchSynced, failures, rows, metrics, inserts, lost, vanished,
          orphaned, truncFailed, faults, crashes>>

Phases  == {"new", "held", "logging", "aborting",
            "accepted", "dropped", "refused", "crashed"}
Writers == {"wait", "encode", "append", "write", "errwait",
            "persist", "committed", "landed", "gone", "down"}

Events(s) == {s[i] : i \in 1..Len(s)}
First(s, n) == SubSeq(s, 1, n)
After(s, n) == SubSeq(s, n + 1, Len(s))
Least(a, b) == IF a < b THEN a ELSE b

Live     == {r \in Requests : phase[r] \in {"held", "logging", "aborting"}}
Accepted == {r \in Requests : phase[r] = "accepted"}
Running  == writer # "down"
(* main() joins the HTTP server and its worker pool before it closes the   *)
(* database, so no handler runs once log_stop_ is set.                     *)
Serving  == Running /\ ~stop

(* A fault is taken from the budget, or is free during an endless outage.  *)
Fault == /\ Outage \/ faults < MaxFaults
         /\ faults' = IF Outage THEN faults ELSE faults + 1

Init ==
  /\ phase = [r \in Requests |-> "new"]
  /\ started = {}
  /\ reservations = 0
  /\ accepting = FALSE /\ recovering = FALSE /\ stop = FALSE
  /\ queue = <<>> /\ spool = <<>>
  /\ readOff = 0 /\ writeOff = 0 /\ synced = 0
  /\ writer = "down" /\ batch = <<>> /\ durableEnd = 0
  /\ batchSynced = FALSE /\ failures = 0
  /\ rows = {} /\ metrics = {} /\ inserts = [r \in Requests |-> 0]
  /\ lost = {} /\ vanished = {} /\ orphaned = {}
  /\ truncFailed = FALSE /\ faults = 0 /\ crashes = 0
-----------------------------------------------------------------------------
(* Request threads: the life of a UsageReservation.                        *)

writerSide == <<queue, spoolVars, writer, batchVars, dbVars, lossVars,
                recovering, stop, truncFailed, crashes>>

(* reserve_usage_event: one more worst-case frame must fit.                *)
AdmitsQueuedOnly ==  \* mutant: tokens in flight are not counted
  /\ accepting
  /\ Len(queue) + 1 <= QueueMax
Admits ==
  LET reserved == Len(queue) + reservations + 1 IN
  /\ accepting
  /\ reserved <= QueueMax
  /\ (writeOff - readOff) + reserved * FrameMax <= HardLimit

Reserve(r) ==
  /\ Serving /\ phase[r] = "new"
  /\ Admits
  /\ reservations' = reservations + 1
  /\ phase' = [phase EXCEPT ![r] = "held"]
  /\ UNCHANGED <<started, accepting, faults, writerSide>>

(* No slot: the handler answers 503 and never contacts an upstream.        *)
Refuse(r) ==
  /\ Serving /\ phase[r] = "new"
  /\ ~Admits
  /\ phase' = [phase EXCEPT ![r] = "refused"]
  /\ UNCHANGED <<started, reservations, accepting, faults, writerSide>>

MarkUpstreamStarted(r) ==
  /\ phase[r] = "held" /\ r \notin started
  /\ started' = started \union {r}
  /\ UNCHANGED <<phase, reservations, accepting, faults, writerSide>>

(* log_request, first section: the caller must hold a live reservation.    *)
LogRequest(r) ==
  /\ phase[r] = "held"
  /\ reservations > 0
  /\ phase' = [phase EXCEPT ![r] = "logging"]
  /\ UNCHANGED <<started, reservations, accepting, faults, writerSide>>

(* log_request, last section: the token is consumed with the push.         *)
Enqueue(r) ==
  /\ phase[r] \in {"logging", "aborting"}
  /\ accepting
  /\ reservations' = reservations - 1
  /\ queue' = Append(queue, r)
  /\ phase' = [phase EXCEPT ![r] = "accepted"]
  /\ UNCHANGED <<started, accepting, faults, spoolVars, writer, batchVars,
                 dbVars, lossVars, recovering, stop, truncFailed, crashes>>

(* abandon(): a started request tries to log an internal_abort event, any  *)
(* other one only gives its slot back (release_log_slot).                  *)
GiveUpLeaks(r) ==  \* mutant: a failed abort record keeps its slot
  IF r \in started
  THEN /\ phase' = [phase EXCEPT ![r] = IF phase[r] = "aborting"
                                        THEN "dropped" ELSE "aborting"]
       /\ UNCHANGED reservations
  ELSE /\ phase' = [phase EXCEPT ![r] = "dropped"]
       /\ reservations' = reservations - 1
GiveUp(r) ==
  IF r \in started /\ phase[r] # "aborting" /\ reservations > 0
  THEN /\ phase' = [phase EXCEPT ![r] = "aborting"]
       /\ UNCHANGED reservations
  ELSE /\ phase' = [phase EXCEPT ![r] = "dropped"]
       /\ reservations' = IF reservations > 0 THEN reservations - 1
                          ELSE reservations

(* The handler exits without an event: exception or early return.          *)
Abandon(r) ==
  /\ phase[r] = "held"
  /\ GiveUp(r)
  /\ UNCHANGED <<started, accepting, faults, writerSide>>

(* log_request found admission closed; enqueue_log resets the token.       *)
LogRejected(r) ==
  /\ phase[r] \in {"logging", "aborting"}
  /\ ~accepting
  /\ GiveUp(r)
  /\ UNCHANGED <<started, accepting, faults, writerSide>>

(* log_request could not allocate the record: admission is closed.         *)
BuildFails(r) ==
  /\ phase[r] \in {"logging", "aborting"}
  /\ Fault
  /\ accepting' = FALSE
  /\ GiveUp(r)
  /\ UNCHANGED <<started, writerSide>>

RequestStep(r) ==
  \/ Reserve(r) \/ Refuse(r) \/ MarkUpstreamStarted(r) \/ LogRequest(r)
  \/ Enqueue(r) \/ Abandon(r) \/ LogRejected(r) \/ BuildFails(r)
-----------------------------------------------------------------------------
(* The writer thread: log_writer_loop.                                     *)

requestSide == <<phase, started>>

(* The records in hand reached the file in none of these states.           *)
InHand == IF writer \in {"encode", "append", "write"} THEN batch ELSE <<>>

(* read_log_spool_batch_locked: unread frames come before live records.    *)
ReadSpool ==
  /\ writer = "wait" /\ readOff < writeOff
  /\ durableEnd' = Least(readOff + BatchSize, writeOff)
  /\ batch' = SubSeq(spool, readOff + 1, durableEnd')
  /\ batchSynced' = FALSE /\ failures' = 0
  /\ writer' = "persist"
  /\ UNCHANGED <<tokenVars, modeVars, queue, spoolVars, dbVars, lossVars,
                 budgetVars>>

(* A frame cannot be read back: admission closes, the offset stays.        *)
DecodeFails ==
  /\ writer = "wait" /\ readOff < writeOff
  /\ Fault
  /\ accepting' = FALSE
  /\ writer' = IF stop THEN "gone" ELSE "wait"
  /\ UNCHANGED <<tokenVars, recovering, stop, queue, spoolVars, batchVars,
                 dbVars, lossVars, truncFailed, crashes>>

PopQueue ==
  /\ writer = "wait" /\ readOff = writeOff /\ queue # <<>>
  /\ LET n == Least(BatchSize, Len(queue)) IN
     /\ batch' = First(queue, n)
     /\ queue' = After(queue, n)
  /\ writer' = "encode"
  /\ UNCHANGED <<tokenVars, modeVars, spoolVars, durableEnd, batchSynced,
                 failures, dbVars, lossVars, budgetVars>>

(* serialize_log_record: the first n records make a batch (kLogBatchBytes  *)
(* may cut it short), the others go back to the front of the queue.        *)
EncodeDropsTail(n) ==  \* mutant: a batch cut short forgets its tail
  /\ writer = "encode" /\ n \in 1..Len(batch)
  /\ batch' = First(batch, n)
  /\ writer' = "append"
  /\ UNCHANGED <<tokenVars, modeVars, queue, spoolVars, durableEnd,
                 batchSynced, failures, dbVars, lossVars, budgetVars>>
Encode(n) ==
  /\ writer = "encode" /\ n \in 1..Len(batch)
  /\ batch' = First(batch, n)
  /\ queue' = After(batch, n) \o queue
  /\ writer' = "append"
  /\ UNCHANGED <<tokenVars, modeVars, spoolVars, durableEnd, batchSynced,
                 failures, dbVars, lossVars, budgetVars>>

(* Record n cannot be encoded: it is dropped and counted.                  *)
DropPoison(n) ==
  /\ writer = "encode" /\ n \in 1..Len(batch)
  /\ Fault
  /\ lost' = lost \union {batch[n]}
  /\ batch' = First(batch, n - 1)
  /\ queue' = After(batch, n) \o queue
  /\ writer' = IF n = 1 THEN "wait" ELSE "append"
  /\ UNCHANGED <<tokenVars, modeVars, spoolVars, durableEnd, batchSynced,
                 failures, dbVars, vanished, orphaned, truncFailed, crashes>>

(* compact_log_spool_locked, its ftruncate succeeding or failing.          *)
Truncate ==
  /\ spool' = <<>> /\ readOff' = 0 /\ writeOff' = 0 /\ synced' = 0
  /\ UNCHANGED <<truncFailed, faults>>
TruncateFails ==
  /\ Fault /\ truncFailed' = TRUE
  /\ readOff' = writeOff
  /\ UNCHANGED <<spool, writeOff, synced>>

OverThreshold == writeOff >= CompactThreshold

(* append_log_spool_locked reclaims a consumed file before it grows.       *)
MustReclaim == readOff = writeOff /\ OverThreshold

Reclaim ==
  /\ writer = "append" /\ MustReclaim
  /\ Truncate \/ TruncateFails
  /\ writer' = "write"
  /\ UNCHANGED <<tokenVars, modeVars, queue, batchVars, dbVars, lossVars,
                 crashes>>

ReadyToWrite == writer = "write" \/ (writer = "append" /\ ~MustReclaim)

(* The first n records of the batch become frames.                         *)
Grow(n) ==
  /\ spool' = spool \o First(batch, n)
  /\ writeOff' = writeOff + n
  /\ UNCHANGED <<readOff, synced>>

AppendBatch ==
  /\ ReadyToWrite
  /\ writeOff + Len(batch) <= HardLimit
  /\ Grow(Len(batch))
  /\ durableEnd' = writeOff'
  /\ batchSynced' = FALSE /\ failures' = 0
  /\ writer' = "persist"
  /\ UNCHANGED <<tokenVars, modeVars, queue, batch, dbVars, lossVars,
                 budgetVars>>

(* Records without a frame go back to the front of the queue.              *)
Requeue(n) == queue' = After(batch, n) \o queue

(* The frame after the first n hits the hard limit or the disk refuses it: *)
(* its torn bytes are cut off, the records without a frame are requeued.   *)
AppendFails(n) ==
  /\ ReadyToWrite /\ n \in 0..(Len(batch) - 1)
  /\ writeOff + n <= HardLimit
  /\ \/ writeOff + n + 1 > HardLimit /\ UNCHANGED faults
     \/ Fault
  /\ Grow(n)
  /\ Requeue(n)
  /\ batch' = <<>>
  /\ accepting' = FALSE
  /\ writer' = "errwait"
  /\ UNCHANGED <<tokenVars, recovering, stop, durableEnd, batchSynced,
                 failures, dbVars, lossVars, truncFailed, crashes>>

(* One second later, or at once when stopping.                             *)
AfterAppendError ==
  /\ writer = "errwait"
  /\ writer' = IF stop THEN "gone" ELSE "wait"
  /\ UNCHANGED <<tokenVars, modeVars, queue, spoolVars, batchVars, dbVars,
                 lossVars, budgetVars>>

(* Back off and try again for ever, but at most ShutdownRetryLimit times   *)
(* while stopping: the frames then stay in the spool.                      *)
Retry ==
  LET givesUp == stop /\ failures + 1 >= ShutdownRetryLimit IN
  /\ failures' = IF stop THEN failures + 1 ELSE failures
  /\ writer' = IF givesUp THEN "gone" ELSE "persist"
  /\ batch' = IF givesUp THEN <<>> ELSE batch
  /\ UNCHANGED <<durableEnd, tokenVars, modeVars, queue, lossVars,
                 truncFailed, crashes>>

Sync ==
  /\ writer = "persist" /\ ~batchSynced
  /\ batchSynced' = TRUE
  /\ synced' = Len(spool)
  /\ UNCHANGED <<tokenVars, modeVars, queue, spool, readOff, writeOff, writer,
                 batch, durableEnd, failures, dbVars, lossVars, budgetVars>>

SyncFails ==
  /\ writer = "persist" /\ ~batchSynced
  /\ Fault /\ Retry
  /\ UNCHANGED <<batchSynced, spoolVars, dbVars>>

(* write_log_record_in_transaction skips an event_id that has a row.       *)
FreshUnchecked == Events(batch)  \* mutant: no lookup by event_id
Fresh == Events(batch) \ rows

InsertBatch ==
  /\ rows' = rows \union Fresh
  /\ inserts' = [r \in Requests |->
                   IF r \in Fresh THEN inserts[r] + 1 ELSE inserts[r]]

Commit ==
  /\ writer = "persist" /\ batchSynced
  /\ InsertBatch
  /\ writer' = "committed"
  /\ UNCHANGED <<tokenVars, modeVars, queue, spoolVars, batchVars, metrics,
                 lossVars, budgetVars>>

(* BEGIN, an INSERT or COMMIT failed; a failed COMMIT may have committed.  *)
CommitFails ==
  /\ writer = "persist" /\ batchSynced
  /\ Fault /\ Retry
  /\ InsertBatch \/ UNCHANGED <<rows, inserts>>
  /\ UNCHANGED <<batchSynced, spoolVars, metrics>>

(* update_accounting_metrics, a transaction of its own.                    *)
WriteMetrics ==
  /\ writer = "committed"
  /\ metrics' = metrics \union Events(batch)
  /\ writer' = "landed"
  /\ UNCHANGED <<tokenVars, modeVars, queue, spoolVars, batchVars, rows,
                 inserts, lossVars, budgetVars>>

MetricsFailIgnored ==  \* mutant: the failed follow-up counts as done
  /\ writer = "committed"
  /\ Fault
  /\ writer' = "landed"
  /\ UNCHANGED <<tokenVars, modeVars, queue, spoolVars, batchVars, dbVars,
                 lossVars, truncFailed, crashes>>
MetricsFail ==
  /\ writer = "committed"
  /\ Fault /\ Retry
  /\ UNCHANGED <<batchSynced, spoolVars, dbVars>>

CaughtUpNever == durableEnd > writeOff  \* mutant: off by one
CaughtUp == durableEnd = writeOff

(* The batch is in SQLite: the read offset moves behind it.                *)
Advance ==
  /\ writer = "landed"
  /\ IF CaughtUp
     THEN /\ recovering' = FALSE
          /\ accepting' = IF recovering THEN TRUE ELSE accepting
          /\ IF stop \/ OverThreshold
             THEN Truncate \/ TruncateFails
             ELSE /\ readOff' = durableEnd
                  /\ UNCHANGED <<spool, writeOff, synced, truncFailed, faults>>
     ELSE /\ readOff' = durableEnd
          /\ UNCHANGED <<recovering, accepting, spool, writeOff, synced,
                         truncFailed, faults>>
  /\ batch' = <<>>
  /\ writer' = "wait"
  /\ UNCHANGED <<tokenVars, stop, queue, durableEnd, batchSynced, failures,
                 dbVars, lossVars, crashes>>

(* An allocation failure ends the thread: admission closes, records that   *)
(* were popped but have no frame are gone with its stack.                  *)
WriterDies(n) ==
  /\ \/ writer \in {"wait", "encode", "persist", "committed"} /\ n = 0
     \/ ReadyToWrite /\ n \in 0..(Len(batch) - 1) /\ writeOff + n <= HardLimit
  /\ Fault
  /\ Grow(n)
  /\ orphaned' = orphaned \union Events(After(InHand, n))
  /\ accepting' = FALSE
  /\ batch' = <<>>
  /\ writer' = "gone"
  /\ UNCHANGED <<tokenVars, recovering, stop, queue, durableEnd, batchSynced,
                 failures, dbVars, lost, vanished, truncFailed, crashes>>

(* Nothing is left when the writer is told to stop.                        *)
Drained ==
  /\ writer = "wait" /\ stop
  /\ readOff = writeOff /\ queue = <<>>
  /\ Truncate \/ TruncateFails
  /\ writer' = "gone"
  /\ UNCHANGED <<tokenVars, modeVars, queue, batchVars, dbVars, lossVars,
                 crashes>>

(* Every step of the loop but the one that ends it.                        *)
WriterWorks ==
  \/ ReadSpool \/ DecodeFails \/ PopQueue \/ Reclaim \/ AppendBatch
  \/ AfterAppendError \/ Sync \/ SyncFails \/ Commit \/ CommitFails
  \/ WriteMetrics \/ MetricsFail \/ Advance \/ Drained
  \/ \E n \in 1..BatchSize : Encode(n) \/ DropPoison(n)
  \/ \E n \in 0..BatchSize : AppendFails(n)

WriterStep == WriterWorks \/ \E n \in 0..BatchSize : WriterDies(n)
-----------------------------------------------------------------------------
(* The process.                                                            *)

(* start_log_writer on the file the last run left: a torn tail is trimmed, *)
(* every valid frame is replayed before admission opens.                   *)
Start ==
  /\ writer = "down"
  /\ readOff' = 0 /\ writeOff' = Len(spool)
  /\ recovering' = (Len(spool) # 0)
  /\ accepting' = (Len(spool) = 0)
  /\ reservations' = 0
  /\ writer' = "wait"
  /\ UNCHANGED <<phase, started, stop, queue, spool, synced, batchVars,
                 dbVars, lossVars, budgetVars>>

(* stop_log_writer up to the join.                                         *)
RequestStop ==
  /\ Serving /\ Live = {}
  /\ accepting' = FALSE /\ stop' = TRUE
  /\ UNCHANGED <<tokenVars, recovering, queue, spoolVars, writer, batchVars,
                 dbVars, lossVars, budgetVars>>

(* stop_log_writer after the join: what is still in memory is counted.     *)
LeftOverWithSpool == Events(queue) \union Events(spool)  \* mutant
LeftOver == Events(queue)
FinishStop ==
  /\ stop /\ writer = "gone"
  /\ lost' = lost \union LeftOver
  /\ queue' = <<>>
  /\ readOff' = 0 /\ writeOff' = 0
  /\ reservations' = 0
  /\ recovering' = FALSE /\ stop' = FALSE /\ accepting' = FALSE
  /\ writer' = "down"
  /\ UNCHANGED <<phase, started, spool, synced, batchVars, dbVars, vanished,
                 orphaned, budgetVars>>

(* The process or the machine dies: memory is gone, the file keeps at      *)
(* least what was synced (keep frames of it).                              *)
Crash(keep) ==
  /\ Running /\ crashes < MaxCrashes
  /\ keep \in synced..Len(spool)
  /\ crashes' = crashes + 1
  /\ spool' = First(spool, keep)
  /\ vanished' = vanished \union
       (Accepted \ (rows \union lost \union orphaned \union Events(spool')))
  /\ phase' = [r \in Requests |->
                 IF r \in Live THEN "crashed" ELSE phase[r]]
  /\ queue' = <<>> /\ batch' = <<>>
  /\ readOff' = 0 /\ writeOff' = 0 /\ reservations' = 0
  /\ accepting' = FALSE /\ recovering' = FALSE /\ stop' = FALSE
  /\ durableEnd' = 0 /\ batchSynced' = FALSE /\ failures' = 0
  /\ writer' = "down"
  /\ UNCHANGED <<started, synced, dbVars, lost, orphaned, truncFailed, faults>>

ProcessStep ==
  Start \/ RequestStop \/ FinishStop \/ \E keep \in 0..Len(spool) : Crash(keep)

Next == (\E r \in Requests : RequestStep(r)) \/ WriterStep \/ ProcessStep

Spec == Init /\ [][Next]_vars

(* The writer thread keeps working while it lives; a stopped process is    *)
(* started again by its supervisor.  Requests, stops, crashes and the      *)
(* death of the thread owe nothing.                                        *)
FairSpec ==
  Spec /\ WF_vars(WriterWorks) /\ WF_vars(Start) /\ WF_vars(FinishStop)
-----------------------------------------------------------------------------
(* Properties.                                                             *)

(* Types, offsets that point into the file, and retries within the limit.  *)
TokenTypes ==
  /\ phase \in [Requests -> Phases] /\ started \subseteq Requests
  /\ reservations \in Nat
ModeTypes == accepting \in BOOLEAN /\ recovering \in BOOLEAN /\ stop \in BOOLEAN
FileTypes ==
  /\ queue \in Seq(Requests) /\ spool \in Seq(Requests)
  /\ readOff \in Nat /\ writeOff \in Nat /\ synced \in Nat
  /\ readOff <= writeOff /\ synced <= Len(spool)
  /\ writeOff = IF Running THEN Len(spool) ELSE 0
WriterTypes ==
  /\ writer \in Writers /\ batch \in Seq(Requests)
  /\ durableEnd \in Nat /\ batchSynced \in BOOLEAN
  /\ failures \in 0..ShutdownRetryLimit
OutcomeTypes ==
  /\ rows \subseteq Requests /\ metrics \subseteq rows
  /\ inserts \in [Requests -> Nat]
  /\ lost \subseteq Requests /\ vanished \subseteq Requests
  /\ orphaned \subseteq Requests
  /\ truncFailed \in BOOLEAN
  /\ faults \in 0..MaxFaults /\ crashes \in 0..MaxCrashes
TypeOK == TokenTypes /\ ModeTypes /\ FileTypes /\ WriterTypes /\ OutcomeTypes

(* usage_writer.cpp:9-11 "the capacity is returned exactly once either     *)
(* way": log_reservations_ always equals the number of live tokens, on     *)
(* every path of completion, rejection, abort, failure and restart.        *)
SlotsConserved == reservations = Cardinality(Live)

(* Every event log_request accepted is in the queue, in the writer's       *)
(* hands, in the spool, in SQLite, or known to be lost.                    *)
NothingLostSilently ==
  Accepted \subseteq
    rows \union Events(queue) \union Events(InHand) \union Events(spool)
         \union lost \union vanished \union orphaned

(* What the read offset has passed may be forgotten by the spool: it is    *)
(* in request_log, its accounting metric included.                         *)
PassedFramesLanded == Events(First(spool, readOff)) \subseteq metrics

(* event_id makes replay idempotent: over all retries, unknown commits,    *)
(* crashes and restarts a row of an event is inserted at most once.        *)
InsertedOnce == \A r \in Requests : inserts[r] <= 1

(* An event never has two frames, nor a frame and a place in memory:       *)
(* requeueing after a failed append splits the batch at the right record.  *)
OnePlace ==
  LET all == queue \o InHand \o spool IN
  \A i, j \in 1..Len(all) : all[i] = all[j] => i = j

(* The memory queue stays bounded although a failed append pushes a whole  *)
(* batch back after others took the room it had left.                      *)
BacklogBounded ==
  Len(queue) + Len(InHand) + reservations <= QueueMax + BatchSize

(* durable_spool.cpp:22-24: with admission in place the hard limit is only *)
(* ever hit by a sticky disk failure (here: a truncate that failed).       *)
HardLimitOnlyAfterFailure ==
  ReadyToWrite /\ ~truncFailed => writeOff + Len(batch) <= HardLimit

(* Until the spool of the last run is replayed no request holds a slot and *)
(* nothing new is queued.                                                  *)
ReplayBeforeTraffic ==
  recovering => Live = {} /\ queue = <<>> /\ InHand = <<>>

(* The four limits of the backlog together: one place per event, both      *)
(* capacities, and nothing new before the last run's file is replayed.     *)
BacklogDiscipline ==
  /\ OnePlace /\ ReplayBeforeTraffic
  /\ BacklogBounded /\ HardLimitOnlyAfterFailure

(* A frame that was synced, or a row, survives every later step: crash,    *)
(* trim at restart, compaction and shutdown.                               *)
Durable == rows \union Events(First(spool, synced))
DurableStays == [][Durable \subseteq Durable']_vars

(* An accepted event does not stay in limbo: while the writer lives it is  *)
(* recorded or accounted for as lost, unless appends or the metrics write  *)
(* fail again and again (only finitely many batches can succeed).  A sync  *)
(* or commit that fails and is retried leaves the state as it was, so that *)
(* FairSpec already asks for one to work in the end.                       *)
StorageKeepsFailing == []<>(writer \in {"errwait", "committed"})
Settled(r) == r \in rows \union lost \union vanished \union orphaned
AcceptedIsSettled ==
  \/ StorageKeepsFailing
  \/ \A r \in Requests :
       (phase[r] = "accepted") ~> (Settled(r) \/ writer \in {"gone", "down"})

(* Shutdown ends even if the disk and SQLite never work again.             *)
StopTerminates == stop ~> (writer = "down")

(* Startup recovery ends and opens admission unless the process stops, the *)
(* writer dies first, or storage never works again.                        *)
RecoveryCompletes ==
  \/ StorageKeepsFailing
  \/ recovering ~> (accepting \/ stop \/ writer \in {"gone", "down"})

(* Requests, recovery and shutdown end, although storage may fail for ever.*)
PipelineEnds == AcceptedIsSettled /\ RecoveryCompletes /\ StopTerminates

(* The pipeline implements the ledger of its events.                       *)
StatusOf(r) ==
  CASE phase[r] # "accepted" -> "none"
    [] r \in rows -> "recorded"
    [] r \in (lost \union vanished \union orphaned) \ rows -> "lost"
    [] OTHER -> "pending"
Ledger == INSTANCE UsageLedger WITH status <- [r \in Requests |-> StatusOf(r)]
LedgerSpec == Ledger!Spec

(* What a caller is promised: the ledger, and durability of what was       *)
(* synced or committed.                                                    *)
Promises == LedgerSpec /\ DurableStays
=============================================================================

# Token-Board: a formal model

Token-Board accounts for and routes the requests of LLM clients. A C++ proxy
(`src/proxy`) receives chat, embedding and streaming requests, chooses an
upstream key, forwards, falls back to another key on failure, and records what
was used. A Python application (`src/app`, `server.py`, `maintenance.py`)
manages accounts, keys and prices, polls the quotas of the keys, imports the
usage logs of local agents, archives the request log to a dashboard database,
and synchronises archive and configuration between machines through a WebDAV
folder. Both processes share SQLite databases whose schema is in `src/schema`.

This directory holds TLA+ modules of the parts where order, interleaving and
failure matter, TLC configurations that check them on small instances, and
TLAPS proofs for instances of every size. All paths below are relative to
`src/`.

1. [Inventory](#1-inventory)
2. [Modules and the code they model](#2-modules-and-the-code-they-model)
3. [Runs, bounds and fairness](#3-runs-bounds-and-fairness)
4. [Proofs](#4-proofs)
5. [Where code and documentation disagree](#5-where-code-and-documentation-disagree)
6. [Not modelled](#6-not-modelled)
7. [Plan](#7-plan)

## 1. Inventory

How the parts interact:

```
 client --> handlers (chat, embeddings, stream) --> AttemptExecutor --> upstream_forward --> provider
               |  reserve / log                        |  acquire / complete
               v                                       v
        UsageReservation, log queue              AccountGate per key <-- recovery thread (usage watch, probe)
               |                                       ^                      ^
               v                                       | order                | usage_json
        writer thread: spool file --> request_log    candidate_order <-- routing snapshot <-- key usage poller
                                          |                                  ^
                                          v                                  | configuration (web, WebDAV pull)
                    export, mark, cleanup --> dashboard archive <--> WebDAV artifacts
                                          ^
                     agent usage importer |
```

| Component | State it keeps | Operations | What is hard | What makes it correct |
|---|---|---|---|---|
| **Usage accounting** `proxy/src/store/{durable_spool,usage_writer}.cpp`, `usage_reservation.h` | reservations, memory queue, spool file with two offsets, writer thread, `request_log`, metrics | reserve, log, abandon; batch, append, sync, commit, metrics, compact; start, stop | a slot has many exits; append, sync, commit and metrics fail one by one; crash between any two; shutdown during an outage | slots conserved, no accepted event vanishes unnoticed, a row once, memory and file within limits, shutdown ends |
| **Request-log archive** `app/db/proxy/export.py` | the mark `last_exported_log_id`, the archive | export (mark, max], set mark, delete old exported rows | rows arrive during an export; replay after deletion | only counted rows are deleted, counted once |
| **Key gate, candidate loop** `proxy/src/core/account_gate.h`, `attempt_executor.cpp` | in-flight count, quota cooldown, avoid entry per key; position, flags and budget per request | acquire, forward, complete, release; mark, clear | many requests on one key; failures after bytes were sent; callbacks that throw | count = holders, concurrency limit, one source per response, what a failure may cost a key; recovery only on evidence |
| **Candidate order** `proxy/src/core/candidate_selection.h` | none; reads usage snapshots, the cost ledger, live in-flight counts | sort by group, binding, pressure, cost, rotation; spent and lapsed last | the keys of the sort change during the sort | a permutation; tiers and groups respected |
| **Cooldown recovery** `proxy/src/core/proxy_accounting.cpp` | cooldown entries with evidence | usage watch, HTTP probe, clear | evidence older than the cooldown it lifts | a cooldown ends, early only on fresh evidence |
| **Handlers** `proxy_chat.cpp`, `proxy_embeddings.cpp`, `stream_pipeline.cpp` | the open response | read, convert, commit headers, stream, record | a stream that breaks half way, a client that leaves | one answer, one usage event |
| **Routing table** `router.cpp`, `store/routing_repository.cpp` | immutable snapshot, generation | load, swap | old readers, failed reloads | snapshot of one generation; a newer one is picked up |
| **Worker pool, origin limits** `net/semaphore_pool.h`, `origin_limiter.h` | workers, queue, per-origin counts | submit, run, drain | limits, shutdown with a full queue | nothing dropped silently, limits hold |
| **Upstream forwarding** `net/upstream_forward.cpp`, `connection_pool_internal.h`, `forward_watchdog_internal.h` | pooled connections, deadlines, DNS flights | connect, reuse, forward, abort on deadline | late answer against deadline, stale connection reused | a deadline acts once and on its own attempt |
| **Responses state** `responses_state_store.cpp` | stored conversation items | put, chain, expire | expiry between lookup and use | a chain is complete or refused |
| **Format conversion** `proxy/src/format` | stream parser and emitter states | convert bodies and events between three wire formats | events split and reordered | block structure of the output |
| **Dashboard synchronisation** `app/services/sync/dashboard_sync.py`, `dashboard_user_delete.py` | local archive, marks, pending markers and sidecar | pull, prepare, publish, install, commit, recover, discard | crash between any two durable steps; put without answer; other machines | a mark moves only over published rows; nothing lost or counted twice |
| **WebDAV artifacts** `webdav.py` | remote files | list, get, put, compare-then-put | check and put are not atomic, listings lag | publication is confirmed or refused |
| **Configuration synchronisation** `config_session.py`, `config_sync.py`, `config_merge.py` | session state, authority, local snapshot, live tables | start, pull, retry, upload, switch endpoint; merge an artifact into the tables | requests queue behind one lock, a put fails or is not confirmed, old and new programs share a folder, ids differ from machine to machine | an acknowledged edit stays in the newest artifact, an editor starts from all of them, no older schema replaces a newer one, a merge leaves the artifact's configuration and no dangling row |
| **Agent usage importer** `agent_usage/importer.py`, `runtime_tasks.py` | cursors, event receipts, worker and its wake-up flag | look, read, look again, commit; wake, stop | files that grow while they are read, failures after some sources, wake-ups during a run | a request is counted once, an unchanged file was taken in completely, a wake-up is served |
| **Agent log adapters** `agent_usage/adapters/*` | none | parse third-party logs | formats | – |
| **Codex replay** `codex_replay.py`, `codex_segments.py` | lineage of sessions | find the replayed prefix of a fork | two usage records per request, copied prefixes, sub-agents | a fork's copied requests are not counted again |
| **Billing** `billing_*.py`, `cost_allocator.py`, `app/db/proxy/billing*.py`, `agent_subscription*.py` | period charges, export events, rates, bindings | materialise, freeze, export; bind, rebind, cancel | observations that stop and resume, late exchange rates, deletion inside a period | periods of a unit disjoint, frozen rows immutable, no charge for a lapse, one owner a day |
| **Accounts, keys, deletion** `app/db/proxy/{accounts_*,deletion,lifecycle,agents,routing}.py` | live tables, identities, request history | create, edit, delete at once or at the end of a period, finalise | a request in flight while its account is deleted, ids reused, charges not frozen yet | no dangling reference, history keeps its owner, a scheduled end comes and leaves nothing unfrozen |
| **Key usage polling** `key_usage.py`, `maintenance.py` | `usage_json` per key | poll, refresh on wake, fail | prior read and snapshot write are two steps; refusals | a lapse starts at the first refusal and ends at an answer |
| **Schema upgrade** `app/db/schema_upgrade`, `schema/transitions`, `start.sh` | two databases, snapshot, backups, manifest, shadows | stage, transform, verify, replace, recover | crash or exception between any two durable steps; services that run in between | nothing lost, both databases change major together, an upgrade that ends is current, the services come up |
| **Server, routes, read model, front end, scripts** | – | validate and call one operation above; render | – | – |

The hazards these parts are exposed to, each at its line and with the
properties that watch over it, are in `PROJECT.json` under "hazards".

## 2. Modules and the code they model

Every module is written from the code; `PROJECT.json` maps each definition to
its lines. Mutated definitions marked `mutant` in their comment stand next to
the definition they distort: they show that the properties notice the bug and
are used by no specification. Variables marked as history record what happened,
for a property; no action reads them.

| Module | Models | Built on |
|---|---|---|
| `UsageWriter` | the accounting pipeline | – |
| `UsageLedger` | what the pipeline promises: an event is none, pending, recorded or lost | – |
| `UsageArchive` | the pipeline together with export, mark and cleanup | `UsageWriter` |
| `KeyGate` | `AccountGate` | – |
| `AttemptExecutor` | the candidate loop of concurrent requests over the gates | `KeyGate` |
| `CandidateUsage` | what the scheduler reads out of a usage snapshot | – |
| `CandidateOrder` | `candidate_order`, one comparison per step | `CandidateUsage` |
| `DashboardSync` | archive transactions of several machines and the WebDAV folder | – |
| `ConfigSync` | configuration sessions of several machines: pulls, uploads, switches, stops | – |
| `LiveResources` | the live tables, their edits, the merge of an artifact, requests in flight | – |
| `PlanBilling` | periods of the keys of a Plan account: polls, prices, freezing, deletion | – |
| `AgentSubscriptions` | subscriptions of agent software: bindings, charges, events, removal | – |
| `SchemaUpgrade` | the upgrade boundary with crashes, rollback and the services around it | – |
| `CodexRollout` | the parser of Codex session files and the replayed-prefix analysis, as operators | – |
| `UsageImport` | the import worker, its passes over growing session files, receipts and cursors | `CodexRollout` |
| `UsageProofs` | the theorems about the accounting pipeline and its archive | `UsageArchive` (and with it `UsageWriter`) |
| `AttemptExecutorProofs`, `DashboardSyncProofs`, `ConfigSyncProofs`, `LiveResourcesProofs`, `PlanBillingProofs`, `AgentSubscriptionsProofs`, `SchemaUpgradeProofs` | the theorems | the module they are named after |
| `MC...` | small instances for TLC | the module they are named after |

### UsageWriter

| Code | Model |
|---|---|
| `UsageReservation` token of a handler | `phase[r]`, `started`, counted by `reservations` |
| `log_accepting_`, `log_recovering_`, `log_stop_` | `accepting`, `recovering`, `stop` |
| `log_memory_queue_` | `queue`, a sequence of requests (the request is its event id) |
| spool file, read and write offset | `spool`, `readOff`, `writeOff`, in frames; `synced` is what an fdatasync covers |
| locals of `log_writer_loop` | `writer` (position), `batch`, `durableEnd`, `batchSynced`, `failures` |
| `request_log`, metrics | `rows`, `metrics`; `inserts` counts insertions for the properties |
| `log_lost_events_` | `lost`; `vanished` and `orphaned` are what a crash and a dying thread take |

A step is one critical section of `log_queue_mutex_` or one system call outside
of it. Modelled failures: an event that cannot be built or encoded, a frame that
cannot be decoded, an append that stops after any number of frames of a batch,
fdatasync, COMMIT (with and without effect), the metrics transaction, ftruncate,
the death of the writer thread, a crash at any point with any unsynced suffix of
the file lost. Left out: two faults in one call (a failed append whose torn
tail cannot be cut either), a failed sync after truncation, and an allocation
failure inside `push_back` after the counters were changed.

Two observations. The queue limit of 16384 records is never the one that binds:
admission reserves 256 KiB + 8 of the 256 MiB file per record, which admits
about 1023 of them; the model keeps both limits. And when recovery completes
during a stop, `durable_spool.cpp:442` sets `log_accepting_` again; no handler
runs then, so nothing follows from it.

### UsageArchive

Extends the pipeline by the ids of `request_log` (`rowId`, `nextId`: rows of a
batch are numbered in order, ids are never used twice) and by one export at a
time: bounds read, rows selected, archive and mark committed, old rows deleted.
The export may stop before its commit. "Old" is any subset of the exported rows,
since time is not modelled.

### KeyGate and AttemptExecutor

`KeyGate` keeps the three facts of a key: requests in flight, time left of the
quota cooldown, and the one avoid entry (kind and time left). Deadlines count
down with `Tick`. `AttemptExecutor` has one process per request:

`idle` → `next` (pick the candidate at `pos`: `Take` or `Skip`) → `held` (slot
taken; `BudgetSpent` or `Forward`) → `forward` (`Write`, then `Return` or
`Throw`) → `returned` (`MarkResult`: first half of `complete`) → `marked`
(`Conclude`: release, then retry or finish) → `done`.

The result of an attempt is any of the kinds the code tells apart (success,
quota 429, other 429, auth, provider fault, timeout, a failure before anything
was sent (no lease of the origin, a wrong `base_url` or no address, DNS or budget
out of time), local conversion failure, invalid request, closed by the client). The orders and lapse verdicts of a
request are constants here; `CandidateOrder` says which ones are possible.
`Recover`, the recovery thread's clearing of a cooldown, may happen at any time.

### CandidateUsage and CandidateOrder

`cost_of` reads `gate->in_flight` anew for each comparison, and `in_flight`
belongs to other threads. Whether the result is right is therefore a question
about the sort as it runs: the model follows `std::stable_sort` of libstdc++ for
groups of at most 14 members (two halves sorted by insertion, then a merge) and
takes one step per comparison, between which `OtherRequest` lets another request start
or end on a key. Where an unguarded insertion would step in front of the first
member the model goes to stage `undefined` and stays there. Scores that are
doubles in the code are compared by cross-multiplication of integers.

### DashboardSync

| Code | Model |
|---|---|
| artifact `dashboard_sync_<time>.db.gz` | an element of `remote`: how often it counts each row; its position is its name; `visible` once listings show it |
| `MAX(request_log.id)`, `last_exported_log_id`, cleaned rows | `log`, `mark`, `deleted` |
| local database, `dashboard_remote_artifact` | `local`, `stored` |
| `dashboard_pending_*`, the sidecar | `pending`, `file` |
| the running transaction | `job`: stage, operation, pulled content, expected and published name, attempt |

A transaction goes `recover` → `pull` → `prepare` → `check` → `put` → `confirm`
→ `install` → `marks` → `cleanup` → `unlink` → `clear`, or to `conflict` →
`discard` → next attempt. A recovered transaction re-enters at `install` or
`check` and is followed by the requested one. `Stop` ends it at any stage: a
crash, or an exception of a request, a copy or a database write. `archive`
stands for the deletion of users; which users is abstracted, the rows they own
keep their counts. The bound of an export is the greatest id of the rows left
(`MaxId`), as in `get_max_log_id`: when cleanup has removed the last rows it lies
behind the mark, and the commit sets the mark back. `Passed` therefore says of a
row that no export will count it again: the mark is past it or it is gone.
`landed` and `forgot` are ghosts for one property.
Names carry the time of publication and the clocks of the machines are taken to
agree. Not modelled: the local-only mode without a server, schema-version
checks, the billing mark (it moves with the export mark), and a person deleting
artifacts; the code never deletes one.

### ConfigSync

| Code | Model |
|---|---|
| `config_<time>.db.gz` files of a folder | `files[e][n]`: schema version and contained edits; the name is the second of the publisher's clock |
| the configuration tables, the local snapshot | `data`, `snapshot`: sets of edits |
| `ConfigSession._state`, the pull-in-progress flag | `state`, `asked` |
| `operation_lock` and the thread that has it | `op`: kind, position, target, downloaded artifact, prepared copy; `waiting` for those without it |
| a request that passed `require_config_writable` | `editing` |
| `sync_config`, a view of `sync_settings`; `token_board_v2_manifest` | `endpoint` (`Configured`: what it may be at first), `manifest` |
| – | history: `moved`, a merge changed `sync_config` and no request has worked with the new server since; `dropped`, the edits an upload of such a machine left out |

A pull lists, refuses or merges the newest artifact, seeds an empty folder, or
degrades to read-only; an upload copies the tables and puts, an acknowledged put
being final; a switch tests a server, pulls from it and only then records it. An
artifact keeps its publisher's `sync_settings` without the password (the table
that is emptied, `sync_config`, is a view and is skipped: `config_sync.py:107`),
and a merge upserts them: `AdoptEndpoint` moves the machine to that server. The
seed of a switch is copied before the new server is recorded, so it names the old
one and takes back whoever merges it. Any request may fail, an answer may be lost after the put took
effect, and a process may stop at any step. `doc/sync.md` allows one editor at a
time, so at most one process runs; old and new programs take turns. Left out:
clocks that disagree, the password (taken as good for every server), the way
`load_sync_config` parses old URLs, and what an edit changes (that is `LiveResources`).

### LiveResources

The tables the configuration consists of are sets of records with the references,
`UNIQUE` constraints and `AUTOINCREMENT` counters that the edits and the merge run
into: accounts, upstreams, credentials, route sets, rules, client keys, identities.
An edit is one transaction of a handler. `Merged` is `config_merge.py` table by
table: upsert rows by id, keep the local half of a credential, delete what the
artifact does not have. `Pull` commits that as a whole or rolls it back: it has to
roll back when rules collide (`UniqueRuleFails`), and may always, because a unique
index of a table that is not modelled may refuse the same transaction (the one open
contract of an account, a price's pattern and priority, a rate's date). A request is
dispatched against the routing snapshot and recorded later (`flight`, `log`), with
edits, merges and restarts in between. Not told apart: catalogues, contracts, prices,
names, patterns.

### PlanBilling

Time is counted in ticks; `Month` of them make a period. `PollRead` and
`RecordUsageSnapshots` are the two halves of a poll: the prior snapshot is read,
the provider answers (with a monthly reset), refuses or fails, and the new snapshot
is merged into the row. `MaterializeCharges` is the whole of the materializer:
for each billable key it resolves the period from the observation or the anchor,
opens it with the price of its first instant and the contract's currency of the
moment, and finalises what needs no exchange rate or has one. `UpdateAccount` changes
price and currency; a row that is open keeps its own. A rate comes with
`PrewarmFxRates`, for a period in the contract's currency, or with `PrewarmToday`.
Every deletion runs the materializer first, as the code does. Two pollers may
overlap, the periodic one and the one a wake-up starts (`Pollers`). `lapsed`, `gaps`
and `overwritten` are history. One account with per-key billing; per-account billing
runs the same code with one unit.

### AgentSubscriptions

A handler is one SQLite transaction, so each operation is a function on the
database record `db` (software, subscriptions, instances, dated bindings, charges,
events) and each action is a handler with everything it calls, the materializer
and the deferred export included. `mode` is the deletion setting, `fx` says whether a
rate is stored. The initial states include a database in which an instance has no owner,
as an upgrade leaves it.

### SchemaUpgrade

| Code | Model |
|---|---|
| a database file | `db`: version, recorded transitions and the facts to keep (requests, prices, archives, unpriced charges) |
| usage spool, configuration snapshot | `spool`, `snap` |
| manifest and backups in the upgrade directory | `manifest`, `stale` |
| the work directory | `shadow` (lost in a crash) |
| the runner of a pair, where it is | `job`, `step` |
| systemd units | `serving` |

The runners for a fresh installation, for V0, for V1, for additive steps in place
and for pairs that differ are chosen by the versions found, back up, upgrade the
shadows, verify, replace file by file and close the manifest. `Crash` may hit
between any two durable steps, `Fail` raises in one. After either, `StartUnits`
models the services that `start.sh` starts again, and `Serve` a request that they log.
A start with an open manifest restores the backups, one file at a time.
The creation of a file is a connection and many migrations: a crash or an exception
in it (`CutShort`) leaves a file without a schema (`NoVersion`) or at its first
release, V1.0. The first counts as missing only while the other database has no
version either.
`kept` is history: the facts that must be in the files in force. Row-by-row
conversions are abstracted to the facts they must keep; SQLite journals are not
modelled.

### CodexRollout and UsageImport

`CodexRollout` holds the two pure algorithms: which records of a file are events
(repeated snapshots, mirrors of durable records, numbering) and how many leading usage
records of a forked session repeat its parent. `UsageImport` composes them with the
worker: `StartPass`, then for each file `StatSource` (stat against the cursor), the
read, the second look and the commit of events, receipts and cursor; `Trigger` and the
thirty-minute wait; failures of reads and commits, stops and crashes. A read that
breaks off is reported by the Kimi and Codex adapters (`ReadFails`) and passes for a
whole file with Claude Code, in the scan for times, that for events, or both
(`ReadFailsSilently`). The agents append between any two steps, the mirror of a
Codex request also after its durable record was read. Kimi files are append-only,
Claude Code repeats a reply with a growing count, Codex writes a request twice.
`counted`, `asked`, `late` (requests whose mirror came after a pass had read without
it) and `unread` (files whose cursor rests on a read that broke off) are history. Files are only appended to, so their length stands for their stat; a session
is one file. Not modelled: Codex durations, sub-agents whose parent is missing,
a fork whose copied prefix is written in several steps.

## 3. Runs, bounds and fairness

| Run | Instance | What it shows |
|---|---|---|
| `usage_writer` | 4 requests, 1 queue place, batches of 2, a file of 3 frames compacted from 1, 2 faults, 1 crash | slots, loss, single insertion, one place per event, limits, durability, and that the pipeline implements `UsageLedger` |
| `usage_writer_live` | 2 requests, batches of 1, storage that may fail for ever, 1 crash, `FairSpec` | accepted events are settled, recovery reopens admission, a stop ends |
| `usage_archive` | 2 requests, 1 fault, 1 crash, exports at any time | deleted rows were counted, the mark skips none, one count per insertion |
| `attempt_executor` | 2 requests (one streaming), 2 keys (one limited to one request), all results | slot count and concurrency; single source, fallback and reasons; what a failure may cost a key, recovery on evidence |
| `candidate_order` | every list of 3 candidates from 5 kinds of usage, 1 or 2 groups, bound or not, 2 offsets, one concurrent change | the result of the sort in all cases the comparison tells apart |
| `dashboard_sync` | 1 machine, 2 rows, 3 artifacts, lagging listings, 2 attempts, 1 stop, `FairSpec` | marks move only by exports, what is passed stays passed and is published; the newest artifact keeps everything exported; how a row can be counted twice; requests return |
| `config_sync` | an old and a new program, 2 servers, machines with and without one at first, 2 edits, 2 publication times, 1 switch or retry, 2 faults or stops | an acknowledged edit leaves the newest artifact, and an older schema replaces a newer one, only by an upload after a merge moved the machine; editors are current; syncing ends |
| `live_resources` | 2 machines, 3 edits, 1 request, 1 failed upload | references, attribution, local halves and agreement with the artifact |
| `plan_billing` | 2 keys, periods of 2 ticks, 4 instants, 2 prices, CNY and USD, 2 pollers, 2 polls, 2 stored rates, 2 edits, 3 of these together | disjoint periods, frozen facts, a lapse charged only where a poll overwrote an answer, nothing unfrozen is deleted but what a row in CNY hides, a scheduled end comes |
| `agent_subscriptions` | 2 agents, 1 subscription, 2 instances, periods of 2 days, 4 days, 4 edits | one agent a day, exported once under the owner, frozen before an end |
| `schema_upgrade` | every release pair, 2 agents, 2 crashes, 1 exception, 1 request | nothing lost, majors move together, a finished upgrade is current, the services come up unless a creation was cut short |
| `usage_import` | 1 Kimi, 2 Claude Code and 2 Codex files, 2 requests, 3 appends, 1 fault, 1 wake-up | counted once, twice with a late mirror; cursors sound but for a broken read and a reused number; wake-ups kept |

Why the bounds are enough.

* *UsageWriter*: two records make a batch that can be split at every position;
  a file of three frames is filled, compacted and overfilled; four requests are
  two more than memory holds with a batch in the writer's hands; two faults let
  one failure meet another (a failed truncate, then a full file); after one
  crash the restarted process runs the same code on any file a crash can leave,
  so a second crash adds no kind of state. Unread frames beyond one batch (the
  other branch of `Advance`) need batches of one record: that is what
  `usage_writer_live` has. The theorems of section 4 need none
  of these bounds.
* *UsageArchive*: the two faults and four requests of `usage_writer` are not
  needed again: the export sees rows and ids, and one failed batch already puts
  ids out of the order of requests.
* *AttemptExecutor*: a key interacts with requests through a count and two
  entries, so two requests meet in every way; two keys give a first, a last and
  a skipped candidate.
* *CandidateOrder*: three members use both halves of the sort and the merge; a
  comparison looks at two members. Larger groups run the same loops longer.
* *DashboardSync*: two rows distinguish "up to the mark" from "up to now", three
  artifacts allow a conflict to follow a publication and a recovery. The
  overlap of machines, which this run leaves out, is what the theorems of
  section 4 are about: they hold for any number of machines.
* *ConfigSync*: one session publishes, the next may drop. A machine that starts
  without a server takes one by the switch; one that starts with a server meets,
  by the switch, a second one whose artifact moves whoever merges it. With three
  switches the first property fails also without a move (section 5).
* *PlanBilling*: two periods and the instants in and after them; a key that is
  refused and answers again needs the two polls, and so do two that overlap; two
  edits are a change of the currency and a deletion; a second key is one that the
  account keeps while another goes, or whose row hides the other's.
* *AgentSubscriptions*: bind, rebind, end and rebind again are four edits; the
  second instance makes "all instances of the subscription" more than one.
* *SchemaUpgrade*: a second crash hits the recovery from the first; an exception
  may precede, follow or split them.
* *LiveResources*: an edit on each machine and one between them; each reference
  is made, used by a request and removed.
* *UsageImport*: a request has at most two records and one mirror or repetition,
  which three appends write; two files of a software give a fork, a resumed
  session and a repeated reply. Three appends are also a durable record, its late
  mirror and the record whose number that one had.

`CHECK_DEADLOCK FALSE` is set where a behaviour ends by itself: all lists are
ordered, or the bound on time, edits, artifacts or stops is reached.

Symmetry is used for requests and for agents in runs without liveness.

Fairness.

* `UsageWriter!FairSpec`: weak fairness of the steps of the writer thread
  (`WriterWorks`; its death is not among them, so an idle thread is not forced to
  die), of the start of a stopped process (`scripts/start-proxy.sh:71`,
  `Restart=always`) and of the end of a requested stop. Requests, stops and
  crashes owe nothing. A retry that changes
  nothing is a stuttering step, so fairness says that fdatasync and COMMIT
  succeed at some point unless the process is stopping (then retries are
  counted); appends and the metrics write may fail again and again, and
  `AcceptedIsSettled` and `RecoveryCompletes` make an exception for that.
  `StopTerminates` makes none. `PipelineEnds` is the conjunction of the three.
* `DashboardSync!FairSpec`: a request runs in a thread that goes on until it
  returns. Conflicts may answer every put; that requests return is due to the
  bound on attempts.
* `ConfigSync!Spec`: a thread that has or can take the operation lock goes on
  (`Works`): every HTTP request has a timeout. Users, stops and faults owe nothing.
* `PlanBilling!Spec`: the finalizer of the dashboard runs every minute and the clock goes on. Polls and materialization owe nothing.
* `SchemaUpgrade!Spec`: the upgrade goes on, and `start.sh` is called again when
  it was cut short; crashes and exceptions are finite by their bounds.

## 4. Proofs

TLAPS checks the theorems below for every value of the constants that satisfies
the named assumptions, which TLC evaluates in each run: `WriterAssumption`,
`GateAssumption`, `ExecutorAssumption`, `SyncAssumption`, `VersionAssumption`,
`ClockAssumption`, `EditsAssumption`, `NoEndpointAssumption`,
`ConfiguredAssumption`, `FirstAssumption`, `NoneAssumption`, `InstsAssumption`
(the instances are finitely many), `TermsAssumption`, `PricesAssumption`,
`CurrenciesAssumption`,
`NoOneAssumption`, `SchemaConstants` and the two `MonthAssumption`s. They say that
limits are positive numbers, that versions are pairs of numbers, that agents have
different positive ids (`SchemaConstants`) and that markers such as `NoEndpoint`
or `None` are not values of what they stand in for. The bounds of section 3
(`MaxFaults`, `MaxRow`, ...) are constants like the others: a theorem holds for
all of them.

| Module | Theorem | States |
|---|---|---|
| `UsageProofs` | `TypeCorrect` | `TypeOK` |
| | `SlotsAreConserved` | `reservations` = number of live tokens |
| | `EventsInsertedOnce` | no event is inserted twice |
| | `NothingIsLostSilently` | an accepted event is in memory, spool, table or counted as lost |
| | `PassedFramesAreRecorded` | the read offset passes no frame whose row and metrics are missing |
| | `BacklogIsDisciplined` | an event is in one place; both capacities hold; nothing new before the replay ends |
| | `PromisesAreKept` | the pipeline implements `UsageLedger`; what is durable stays so |
| | `ArchiveTypes` | `ArchiveTypeOK`: types, and ids below the `AUTOINCREMENT` counter, each used once |
| | `ArchiveCountsEveryRow` | `ArchiveExact`: deleted and marked rows were counted, none more often than inserted |
| `AttemptExecutorProofs` | `TypeCorrect` | `TypeOK` |
| | `SlotsBalance` | a key's count is its holders, within its concurrency |
| | `FallbackIsSound` | one source per client, no early end, a reason for every refusal |
| | `BlameNeedsEvidence` | what a failure may cost a key, one before anything was sent included, and how a cooldown ends |
| `DashboardSyncProofs` | `TypeCorrect` | `TypeOK`, with every named artifact on the server |
| | `MarkedRowsArePublished` | marked and deleted rows are counted by an artifact listings show |
| | `MarksMoveByExport` | marks move by the commit of an export; passed rows stay passed |
| | `ArchiveIsExact` | `OneMachineExact`: no row counted twice unless a candidate was discarded; a machine alone keeps what it marked or deleted in the newest artifact |
| `ConfigSyncProofs` | `TypeCorrect` | `TypeOK` |
| | `SchemaNeverGoesBack` | `NewestSchemaGrows`, on any number of servers: back only by an upload after a merge moved the machine |
| | `PublishedEditsStay` | with one server: acknowledged edits are in the newest artifact, none is dropped |
| | `EditorsHoldEverything` | with one server: an editable session has all of them |
| `LiveResourcesProofs` | `LiveTypes` | `TypeOK` |
| | `GraphStaysWhole` | `GraphWhole`: no dangling reference on any machine |
| | `OwnersAreKept` | `OwnerKept`: recorded requests name the account that served them |
| | `MergeIsTheArtifact` | `MergedIsCloud`: a merge leaves the artifact's configuration |
| | `LocalHalvesAreKept` | `LocalHalfKept` |
| | `ForeignKeysNeverRefuse` | no foreign key between the modelled tables ever rolls a merge back |
| `PlanBillingProofs` | `NoInstantTwice` | `PeriodsDisjoint` |
| | `FactsStay` | `FactsFrozen` |
| | `DeletionLeavesNothingOpen` | `FrozenBeforeDeletion`: charged, and frozen and exported unless a row in CNY hides it |
| | `LapsesAreNotCharged` | `NoLapseBackfill`: however polls overlap, unless one overwrote an answer of the key |
| `AgentSubscriptionsProofs` | `NeverTwoAgents` | `OneAgentADay` |
| | `FrozenAndOwnedIsSent` | `ExportedOnce` |
| | `RunningPeriodIsFrozen` | `FrozenBeforeEnding` |
| | `ChargesKeepTheirOwner` | `OwnerFixed` |
| `SchemaUpgradeProofs` | `NothingIsLost` | `NothingLost`: every fact is in the files in force or in the report |
| | `UpgradesEndCurrent` | `DoneIsCurrent` |
| | `MajorsChangeTogether` | `MajorsMoveTogether` |

Each proof has the same shape: an inductive invariant, one lemma per action that
keeps it, and the theorems from it. TLC checked each invariant on the instance
of the component's run first; the numbers below are the states it held in.

*UsageWriter.* The inductive invariant is `TokenInv /\ FileInv /\ OutcomeInv`.
`SlotsConserved` needs `Quiet` (no live token while the process is down or
stopping: those are the points where counters are reset); the types of the offsets need
`BatchInFile` (a batch that is being persisted lies between the read and the
write offset); `InsertedOnce` needs `InsertedExactly` (an event has as many
insertions as rows) and `BatchRecorded` (after the commit the batch is in the
table). The loss theorems add `LossInv`: `PassedFramesLanded`, `BatchFromFile`
(the batch is exactly the frames from the read offset to `durableEnd`, so
advancing the offset passes only recorded frames) and `NothingLostSilently`.
They rest on lemmas about `Events`, `First` and `After` of sequences.

*The ledger of UsageWriter* (655,311 states). `PlaceInv` says where an event is
and where it is not: queue, hand and file share none and repeat none, what has a
place is not lost, and nothing has a place or a row before it was accepted.
`RoomInv` bounds queue, hand and file. From them every step of the pipeline is a
step of `UsageLedger` or leaves the outcomes alone: `PromisesAreKept` is the
refinement, and carries `DurableStays` with it.

*UsageArchive* (1,055,676 states). The mark, the bound of an export and the rows
are tied by `BoundsInv`: all rows above the bound are above the mark, and every
bound is below the ids to come, so a row that is committed while an export runs
is left for the next one. `CountInv` gives exactness: a row that the mark has
not passed still has one insertion left to be counted. It extends the proof of
`UsageWriter`, whose transactions are the only ones that insert
(`PipelineInserts`).

*AttemptExecutor* (1,474,867 states). `Placed` says where a request is in its
order and that going further needed a tried or a skipped key; `OneWriter` that
bytes come from the attempt under way; `Ended` carries the verdicts of
`FallbackSound` into the final states. The count of a key is a cardinality, so
each action says which request joins or leaves its holders. `AvoidHasKind` and
`TypeOK` suffice for the action property `EvidenceOnly`.

*DashboardSync.* `IInv` consists of types, and per machine
of what each stage may rely on: a stage between `check` and `marks` has its file
(`Held`); from `confirm` on the artifact it names has the content of the file
(`Sent`), from `install` on listings show it (`Seen`); a recorded name refers to
the content of the sidecar (`Named`); the sidecar of an export counts every row
up to its bound that is not passed, and a mark beyond that bound is so over
deleted rows only (`Covers`); at `cleanup` the mark has reached the
bound (`Reached`); passed rows are published (`Marked`); marks and bounds are
not ahead of the log (`Behind`). `MarkedIsPublished` alone is not inductive: at
`SetMarks` it needs `Sent`, `Seen` and `Covers` together. The server only grows
(`Grows`), so other machines keep their invariant (`BystanderKept`).
`GreatestExists` (a bounded set has a greatest element) is proved from the
well-foundedness of the naturals.

`ArchiveIsExact` adds `ExactInv` (1,456,362 states with one machine, three rows and
two stops). For any
number of machines, every content counts a row at most once, and only rows that
are `Backed`: passed on their machine, or in its pending export
after that has reached the server. A sidecar may count the rows it will send,
which by then are in no other content; discarding one that had landed breaks
exactly this, and is what `forgot` records. The second half, `Alone`, is about a
single machine: its file and every artifact from the stored one on count all it
has passed.

*ConfigSync* (1,146,911 states with two servers, 1,136,331 with one).
`SessionInv` says that at most one process is up, and what that process may rely
on: while it may publish (`MayPublish`) or is about to (`merge` and the steps
after), the newest artifact of its target is no newer than its program
(`Compatible`), unless a merge has moved the machine to a server it has not
worked with (`moved`) and the request is an upload. A put therefore replaces a
newer schema only then, on any number of servers.
With one server (`OneServer`) it also holds all acknowledged edits (`Current`):
they are in the newest artifact, a merge takes them from there, an empty folder
has none, and a copy is taken from tables that hold them (`HoldsAll`); no merge
moves a machine then, so `dropped` stays empty (`NoneDropped`). The hypothesis
`OneServer` is necessary: with two servers and enough switches
`NewestKeepsPublished` fails without any move, as section 5 says.

*LiveResources* (1,585,137 states). The invariant has a part for one machine and a
part for all. `Sound` says of a machine that its tables are `Whole` (every
reference leads to a row, every account has an upstream and an identity, no id
and no runtime id has two rows) and that its history refers to rows or to
nothing. An edit and a purge are functions of tables and history, so each has a
lemma that it takes sound tables to sound tables and keeps owners, halves and
identities (`Follows`). The purges are first rewritten into one cut of the
tables and one of the history (`PurgeProxyAccountsIs`), because the order in
which the code detaches and deletes does not matter to what is left. `Merged`
upserts seven tables and purges them again: `MergedRows` proves that the result
is the artifact's rows with the local halves, and that these satisfy every
foreign key, which is `MergedIsCloud` and `ForeignKeysNeverRefuse`. Which unique
indexes refuse a merge is not a theorem: most are on tables that are not modelled
and enter as a rollback that may always happen. `OwnerKept`
is not inductive: a request in flight refers to an account by number, and that
number may be given to another account before the request is recorded. What
holds (`Owned`) is that the number belongs to the owner for as long as any table
knows the owner's uuid; it needs `UuidsName`: a uuid names one number wherever it
lives, and lives on two machines only after it was published.

*PlanBilling* (656,681 states). `Rows` says that
charges are non-empty intervals that have begun, and those of a key do not
overlap; `events` are exactly the final charges. The work is in the
materializer: a period it opens starts where the last charge of the key ends
or later, whatever the observation says (`ResolvePeriod`), and what it closes it
closes at its own end. A poll's two halves may enclose any other step, so a read
that is stale by then carries only instants that have passed (`Passed`).
`LapsesAreNotCharged` adds `GapInv`, about the keys none of whose answers was
overwritten: one that was refused since its last answer is inactive, and each gap
it came out of begins before it resumed. Polls may overlap; a poll whose prior is
not what is stored any more makes its key an exception (`overwritten`), unless it
resumes the key by itself, because it has read the refusal. A row is new
only when no row of the ledger starts with its period (`NewRowResumes`), and the
period of such a row begins when the key resumed or later.
`DeletionLeavesNothingOpen` follows the code's check: every billable key has its
row, and the newest rows of the contract are final; an open row that is not among
them needs a rate, so a later final one is in CNY or in a currency whose rate
would have closed the open one too.

*AgentSubscriptions* (156,816 states). The operations of a transaction are
functions of the database record, and the invariant is a predicate `Good(d)` of
it: each operation keeps it and only extends the ledger (`Extends`), so a
transaction, a composition of them, does too. `Bound` speaks of every day, of
the future too, because a later materialization will ask for it; `Ledger` makes
the events exactly those of the frozen and owned charges. For
`RunningPeriodIsFrozen` each user operation is `Careful`: an instance keeps its
state and its end, or the operation checked (`EnsureCharge`) the database that
the materializer had just written and built on that. With a rate stored the
materializer froze the running charge. Without one nothing ever freezes
(`OnlyFrozen`), so a frozen charge comes from an upgraded database and starts on
the first day (`Cold`); when the newest charge is frozen it is that one, and it
is the running one.

*SchemaUpgrade* (35,275 states). First about files: every conversion (SQL
migrations, identity and flattening transitions, the purge of soft deletions, the
rebuild that takes the spool in) only `Grow`s a pair: it keeps or extends the
requests, current prices, archived users and charges, so their `Facts` stay
(`Carried`). Whom a request was made for follows from its id (`Maker`); this is
what makes renumbering agents safe, whichever of two swapped ids is done first.
Then about the runner. `NothingLost` alone is not inductive: it says what the
files in force hold, and those are the backup while a manifest is open. So
`Backed` says that the manifest is open from the backup to the completion, whole
and taken from a pair the runner may take up; `Shadowed` that the shadows hold all
facts from their verification on, whichever file they have replaced by then;
`Recovering` that every file off the recovery's list is the backed-up one again,
also when that recovery is itself cut short. `Decided` keeps what each decision in between
established. A live file may also be blank, or hold the first release only, where a
creation was cut short; no pair with such a file reaches a conversion, because
every source of one has a version (`SourceIsBorn`). `InForce` has the two facts
about old releases that the conversions need: an archive is out of order only in a pair of V1 whose identity transition
is not recorded (`Alignable`), and a snapshot of an old minor of V2 belongs to a
database of an old minor (`Fits`), which is why the in-place path may leave the
snapshot alone.

`TypeOK` of these modules and `ArchiveTypeOK` are proved and
therefore in no run; the other theorems state properties that a run checks as
well.

Only model-checked:

* liveness and fairness (`PipelineEnds`, `RequestReturns`, `SyncingEnds`,
  `EndedAccountGoes`, `EventuallyUp`), which TLAPS does not
  reach;
* `CountedOnce` and `CursorSound` of `UsageImport`: they depend on what a fold or
  a recursive function returns for every input, which needs induction over data;
* `OrderKept` of `CandidateOrder`: its invariant has to carry a partly sorted
  sequence of any length through insertion, merge and partition, and that pressure
  is transitive by cross-multiplication; not attempted;
* `TriggerKept` of `UsageImport`: every action but the end of a pass sets or clears
  flag and history together, and TLC covers that one; not attempted.

## 5. Where code and documentation disagree

Seventeen properties that a document, a comment or plain expectation states are
violated by what the code does. Where the first column names a configuration of a
run, put the property into it (as `INVARIANT`, or `PROPERTY` where it speaks of
steps or of ever after) in place of the ones it has; the others are complete. Run
`tlc -config <cfg> <module>`. In a run, the property that the same behaviour bears
on states the exception exactly.

| Configuration | Property | What the code does |
|---|---|---|
| `MCUsageArchiveReplay.cfg` (`MCUsageArchive`) | `ReplayIsIdempotent` | A crash replays frames of rows that were exported and cleaned up; they are inserted and counted again (`usage_writer.cpp:116-117` says a replay is idempotent). |
| `MCAttemptExecutorAuthHold.cfg` (`MCAttemptExecutor`) | `AuthHoldIsKept` | A later failure of another request replaces the 15-minute hold after a 401 by a short one. |
| `MCAttemptExecutorLocalFault.cfg` (`MCAttemptExecutor`) | `OnlyUpstreamBlames` | A request that never reached the upstream (no connection lease of the origin, a wrong `base_url`, DNS, a budget that ran out: `upstream_forward.cpp:64-157`, `stream_pipeline.cpp:127`) holds the key back as a provider fault; only conversions are exempt (`attempt_executor.cpp:75-80`; `account_gate.h:32` calls it one of the provider). |
| `MCCandidateOrderSort.cfg` (`MCCandidateOrder`) | `AskedTwiceSameAnswer` | The comparison reads live counts and is no strict weak ordering, against its own comment. |
| `MCDashboardSyncTwice.cfg` (`MCDashboardSync`) | `CountedOnce` | A candidate that reached the server without being confirmed is discarded by a conflict and exported again on top of itself. |
| `MCDashboardSyncStuck.cfg` (`MCDashboardSync`) | `MarkersHaveTheirFile` | The sidecar is removed before its markers; a failure in between blocks every later synchronisation of the machine. |
| `MCDashboardSync.cfg` | `MarkNeverGoesBack` | The bound of an export is `MAX(id)` of the rows left after cleanup (`export.py:266-272`, `dashboard_sync.py:190`, `375`), so a later export sets the mark back; `sync/common.py:9-10` calls it a high-water mark that is advanced. No row that is still there is exported again. |
| `MCConfigSyncRace.cfg` (`MCConfigSync`) | `NewestKeepsPublished` with three switches | A switch merges the other server's configuration and fails before that server is recorded; an upload that was requested before then waits for the lock, and publishes those tables to the old server over its newest artifact (`doc/sync.md:56-60`: the cloud is authoritative, a failure restores the last authoritative snapshot). |
| `MCConfigSync.cfg` | `NewestSchemaAlwaysGrows` | A merge replaces the machine's server by the one in the artifact (`config_merge.py:187-198`); the session stays writable, and its next upload puts an older schema over a newer one there, which a pull would have refused (`config_sync.py:208`; `doc/sync.md:62` keeps the bootstrap credentials local). Acknowledged edits of that server are left out by the same upload. |
| `MCPlanBilling.cfg` | `EndingTakesNoKey` | A key saved into an account whose deletion is scheduled gets no end, and the account is never finalised. |
| `MCPlanBilling.cfg` | `NoLapseBackfillEver` | Two pollers are always started and may overlap (`maintenance.py:99-160`): a poll that read a key before another recorded its refusal, and is answered after, overwrites the refusal, and the lapse is charged. |
| `MCPlanBilling.cfg` | `AlwaysFrozenBeforeDeletion` | The check before a deletion looks at the newest `period_start` of the contract only (`lifecycle.py:39-46`): after a change from USD to CNY the new row of one key hides the open row of another, which the deletion then leaves unfrozen. |
| `MCLiveResourcesMerge.cfg` (`MCLiveResources`) | `PullApplies` | Rules are upserted by id, and editing an aggregate inserts its rules again under new ids; a published rule that takes the place of a local one under another id violates `UNIQUE`, and every later pull of that machine is rolled back (`doc/sync.md:56`: the newest is merged at every start). |
| `MCSchemaUpgrade.cfg` | `AlwaysEventuallyUp` | A creation that is cut short leaves a file without a schema beside a database that has one (`migrations.py:260-263`); it exists, so it is not created, and has no version, so it is not accepted (`coordinator.py:420-423`, `482-495`), and every later start fails. |
| `MCUsageImport.cfg` | `CountedOnceAlways` | A mirror written after a pass read its durable record is counted a second time (`adapters/codex.py:577`, `686-704`; `doc/billing-pricing.md:89` and `doc/database.md:217` say once). |
| `MCUsageImport.cfg` | `NumbersAreNotReused` | With its late mirror the request gives its number `record:N` up, and the next durable record without a mirror takes it, finds the receipt and is never counted (`adapters/codex.py:611-613`). |
| `MCUsageImport.cfg` | `FailedReadsMoveNoCursor` | `common.iter_jsonl` swallows a read error (`common.py:128-142`), the Claude Code adapter returns an ordinary batch (`claude_code.py:289-344`) and the importer stores the cursor of a file it did not read; `kimi_code.py:208-216` describes the hazard and avoids it for its own files. |

Met while modelling and without a configuration of their own:

*Proxy*

* `durable_spool.cpp:257`: the spool is read whenever it has unread frames, also
  after a batch whose append failed half way; `doc/proxy-internals.md:173` says
  it is read in startup recovery only.
* `attempt_executor.cpp:202`: `used` stays empty when every candidate after a
  failed one is skipped; `attempt_executor.h:33-34` says it identifies the
  terminal candidate of an upstream error. Handlers work around it.
* `error_render.cpp:79`: when all candidates failed the client gets the status
  of the last failure; `doc/proxy-internals.md:119` says 504 or 429.
* `candidate_selection.h:345`: spent keys stay in group order, so a key of a
  later group that recovers sooner is tried later; lines 265-268 read otherwise.

*Synchronisation*

* `dashboard_sync.py:287`: a recovery republishes its prepared bytes as the
  newest artifact although another machine published since; `doc/sync.md:83`
  names concurrent uploads as the only way this can happen.
* `config_sync.py:165-177` keeps local edits when an upload fails;
  `doc/sync.md:60` says the last authoritative snapshot is restored at once.
  `restore_config_snapshot`, which would do it, is called by nothing.
* An upload that was requested while writable publishes after a pull made the
  session read-only: the state is read before the lock is taken.
* A folder that answers PROPFIND with 404, 409 or 410 counts as empty and is
  seeded; a listing that lags is taken as it is; names are local clock seconds
  (`webdav.py:46`), so the order of artifacts is the order of the clocks.

*Live tables*

* `accounts_read.py:272`: a deleted credential's `runtime_id` is given to the
  next one, and requests in flight carry it.
* An account that was never published loses its identity row when a merge brings
  another account with its integer id; `OwnerKept` is therefore stated for
  published accounts. `request_attempts.account_id` has no foreign key.

*Billing*

* `doc/billing-pricing.md:64` and `doc/upstream-concepts.md:80` say that removed
  keys run to the end of their period; `_set_upstream_keys` removes them at once
  and freezes nothing.
* The documented default of the cancellation mode is `immediate`; the code falls
  back to `end_of_period` (`accounts_read.py:173-187`).
* After an observed period ended without a new poll the next one opens on the
  anchor. A deferred end may precede the end of the charged period. An update that
  names the account type of an account that is ending raises an integrity error.
* `agents.py:173`: software is deleted although the rate to freeze its charge is
  missing; accounts and subscriptions refuse. `agent_subscriptions.py:379`: an
  edit of a subscription that is ending inserts an instance without an end.
  `agent_subscriptions.py:246`: moving a start day opens a charge that overlaps
  the one already made. `_replace_bindings` accepts an end after today.

*Schema upgrade*

* `start.sh:190`: the services are started again on a manifest that is still
  open; what they log before the next start is rolled back with it. `NothingLost`
  is stated for requests logged while no manifest is open.
* A left-over `-wal` of the replaced file would be replayed over a restored one.
* A manifest cut short before its backups were recorded is skipped by the
  recovery and makes `databases_are_current` false from then on.
* A dashboard at V0 beside a V2 proxy database is always refused; a V1 pair with
  a pending export is refused until it is published; a V0 pair goes to V2 without that
  check.
* The mixed and downloaded paths skip the identity transitions;
  `resume_transition` leaves the spool in place; manifests of the command line
  (`v0-to-v1`) are ignored by the recovery; a snapshot of V2 that is not the
  newest minor is never refreshed; the message at `cli.py:49` is wrong for a
  failed V2 pair.

*Importer*

* A session that goes from one segment to several changes the ordinals of its
  Codex events; a count of a Claude Code reply that was taken in the middle is
  kept by its receipt.
* `importer.py:199-208`: a software that fails persistently ends every pass for
  the softwares after it.

## 6. Not modelled

`PROJECT.json` lists every component with its status. Out of scope for good:
field-by-field conversion of request bodies, the formats of the remaining agent
logs, table definitions beyond keys and references, HTTP set-up, charts and the
front end, shell helpers: they transform data or do I/O and keep no state that
other parts race for. Within the modelled components: the refresh of the cost
ledger, the LRU store of session bindings, bytes of a stream beyond "some were
sent to the client", the local-only mode and the billing mark of the dashboard
archive, per-request prices and the allocation of a charge over models, the
Cindy ledger, and what the paragraphs of section 2 name.

The evidence behind an early recovery is not modelled: `Recover` may lift a
cooldown at any time, which covers a probe that answers for an older cooldown
(`proxy_accounting.cpp:252`).

## 7. Plan

Models to add, in order of what the system depends on most:

1. `CooldownRecovery` (extends `KeyGate`): usage watch, probe and clear against
   snapshots that lag the database. A cooldown ends; cooldown and evidence
   entries appear and vanish together.
2. `RoutingReload`: generations of the routing snapshot, composed with the
   requests in flight of `LiveResources`.
3. `ForwardWatchdog`, `ConnectionPool`, `SemaphorePool`: deadlines against late
   answers, reuse of connections, drain at shutdown.
4. `ResponsesState`, `StreamCodec` (parser and emitter states).

Proofs to add: `OrderKept` for `CandidateOrder`; `TriggerKept` for `UsageImport`, with
`CountedOnce` and `CursorSound` as far as their folds allow.

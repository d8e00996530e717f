----------------------------- MODULE ConfigSync -----------------------------
(***************************************************************************)
(* The configuration session of the dashboard: config_session.py, the      *)
(* pull and upload workflows of config_sync.py, and the WebDAV files they  *)
(* exchange.  A configuration is the set of the edits it contains.  Each   *)
(* machine runs one dashboard process, which may stop at any step; its     *)
(* requests wait for the operation lock, and the thread that holds it is   *)
(* op[m].  A server keeps one file per name, and a name is the second of   *)
(* the publisher's clock.                                                  *)
(***************************************************************************)
EXTENDS Naturals, FiniteSets, FiniteSetsExt

CONSTANTS
    Machines,      \* computers that share the configuration
    Endpoints,     \* WebDAV folders
    Edits,         \* the edits the users make, numbered, each once
    Version,       \* schema version of each machine's program: [major, minor]
    NoEndpoint,    \* no sync_config row
    Configured,    \* the servers a machine may start with, or NoEndpoint
    MaxNow,        \* bound on the clock
    MaxPulls,      \* bound on the pulls the users ask for
    MaxFaults,     \* bound on failed requests
    MaxStops,      \* bound on stopped processes
    MaxTroubles    \* bound on both together

(* The major 0 stands for a file that is absent. *)
ASSUME VersionAssumption ==
    Version \in [Machines -> [major: Nat \ {0}, minor: Nat]]
ASSUME ClockAssumption == MaxNow \in Nat \ {0}
ASSUME EditsAssumption == Edits \subseteq Nat
ASSUME NoEndpointAssumption == NoEndpoint \notin Endpoints
ASSUME ConfiguredAssumption == Configured \subseteq Endpoints \cup {NoEndpoint}

VARIABLES
    files,     \* files[e][n]: the artifact named n, absent when its major is 0
    data,      \* the configuration tables of each machine
    snapshot,  \* token-board_config_snapshot.db
    endpoint,  \* sync_config
    manifest,  \* sync_state token_board_v2_manifest
    state,     \* ConfigSession._state, "down" when no process runs
    waiting,   \* requests that have not taken the operation lock
    op,        \* the request that holds it, and how far it is
    editing,   \* a mutation that passed require_config_writable
    now, pulls, faults, stops,
    acked,     \* edits in an artifact whose PUT was acknowledged
    asked,     \* pull threads not finished: the coalescing flag
    moved,     \* history: a merge changed sync_config, and no request has
               \* worked with the new server since
    dropped    \* history: edits an upload of a moved machine left out

vars == <<files, data, snapshot, endpoint, manifest, state, waiting, op,
          editing, now, pulls, faults, stops, acked, asked, moved, dropped>>
published == <<acked, dropped>>
session == <<endpoint, moved, state, waiting, asked>>
bounds == <<now, pulls, faults, stops>>

Absent == [major |-> 0, minor |-> 0, server |-> NoEndpoint, edits |-> {}]
Idle == [kind |-> "none", at |-> "idle", to |-> NoEndpoint, art |-> Absent,
         copy |-> {}]
(* The copy keeps sync_settings: sync_config, which is emptied, is a view. *)
Artifact(m, edits) ==
    [major |-> Version[m].major, minor |-> Version[m].minor,
     server |-> endpoint[m], edits |-> edits]

(* The names a PROPFIND answers; a folder that does not exist has none. *)
Listed(e) == {n \in 1 .. MaxNow : files[e][n] # Absent}

(* The newest artifact is the one whose file name carries the latest stamp. *)
\* mutant: the list is taken as it comes
LatestFirstListed(e) == IF Listed(e) = {} THEN Absent ELSE files[e][Min(Listed(e))]
Latest(e) == IF Listed(e) = {} THEN Absent ELSE files[e][Max(Listed(e))]

(* A newer schema is refused: another major always, a newer minor of the   *)
(* same major, and a V1 file once this machine has seen a V2 file.         *)
\* mutant: minors are not compared
RefusedByMajor(m, a) == a.major > Version[m].major
Refused(m, a) ==
    \/ a.major > Version[m].major
    \/ a.major = Version[m].major /\ a.minor > Version[m].minor
    \/ a.major < 2 /\ Version[m].major >= 2 /\ manifest[m]
(* upgrade_downloaded_artifact changes a file of an older version. *)
Upgraded(m, a) == <<a.major, a.minor>> # <<Version[m].major, Version[m].minor>>

Init ==
    /\ files \in [Endpoints -> [1 .. MaxNow -> {Absent}]]
    /\ data = [m \in Machines |-> {}]
    /\ snapshot = data
    /\ \E e \in Configured : endpoint = [m \in Machines |-> e]
    /\ manifest = [m \in Machines |-> FALSE]
    /\ state = [m \in Machines |-> "down"]
    /\ waiting = [m \in Machines |-> {}]
    /\ op = [m \in Machines |-> Idle]
    /\ editing = [m \in Machines |-> FALSE]
    /\ now = 1 /\ pulls = 0 /\ faults = 0 /\ stops = 0
    /\ acked = [e \in Endpoints |-> {}]
    /\ asked = [m \in Machines |-> FALSE]
    /\ moved = [m \in Machines |-> FALSE]
    /\ dropped = [e \in Endpoints |-> {}]

------------------------------------------------------------------------------
(* Requests.  One process at a time is the documented single editor; a     *)
(* process that starts pulls before it may edit.                           *)

Writable(m) == state[m] \in {"writable", "local_only"}

TriggerPull(m) ==
    IF asked[m] THEN UNCHANGED <<state, waiting, asked>>
    ELSE /\ asked' = [asked EXCEPT ![m] = TRUE]
         /\ state' = [state EXCEPT ![m] = "syncing"]
         /\ waiting' = [waiting EXCEPT ![m] = @ \cup {"pull"}]

Start(m) ==
    /\ \A n \in Machines : state[n] = "down"
    /\ TriggerPull(m)
    /\ UNCHANGED <<files, data, snapshot, endpoint, moved, manifest, op,
                   editing, bounds, published>>

RetryPull(m) ==
    /\ state[m] # "down"
    /\ pulls < MaxPulls /\ pulls' = pulls + 1
    /\ TriggerPull(m)
    /\ UNCHANGED <<files, data, snapshot, endpoint, moved, manifest, op,
                   editing, now, faults, stops, published>>

(* upload() reads the state before it takes the operation lock. *)
RequestUploadAlways(m) ==  \* mutant: whatever the state
    /\ state[m] # "down"
    /\ "upload" \notin waiting[m] /\ op[m].kind # "upload"
    /\ waiting' = [waiting EXCEPT ![m] = @ \cup {"upload"}]
    /\ UNCHANGED <<files, data, snapshot, endpoint, moved, manifest, state, op,
                   editing, bounds, published, asked>>
RequestUpload(m) ==
    /\ state[m] = "writable"
    /\ "upload" \notin waiting[m] /\ op[m].kind # "upload"
    /\ waiting' = [waiting EXCEPT ![m] = @ \cup {"upload"}]
    /\ UNCHANGED <<files, data, snapshot, endpoint, moved, manifest, state, op,
                   editing, bounds, published, asked>>

RequestSwitch(m) ==
    /\ state[m] # "down"
    /\ "switch" \notin waiting[m] /\ op[m].kind # "switch"
    /\ pulls < MaxPulls /\ pulls' = pulls + 1
    /\ waiting' = [waiting EXCEPT ![m] = @ \cup {"switch"}]
    /\ UNCHANGED <<files, data, snapshot, endpoint, moved, manifest, state, op,
                   editing, now, faults, stops, published, asked>>

(* A mutating route checks the state, then commits its own transaction.    *)
EditRequest(m) ==
    /\ Writable(m) /\ ~editing[m]
    /\ editing' = [editing EXCEPT ![m] = TRUE]
    /\ UNCHANGED <<files, data, snapshot, manifest, op, bounds, published, session>>

EditCommit(m) ==
    /\ editing[m]
    /\ LET used == (UNION {data[n] : n \in Machines})
                    \cup (UNION {files[e][n].edits : e \in Endpoints, n \in 1 .. MaxNow})
       IN /\ Edits # used
          /\ data' = [data EXCEPT ![m] = @ \cup {Min(Edits \ used)}]
    /\ editing' = [editing EXCEPT ![m] = FALSE]
    /\ UNCHANGED <<files, snapshot, manifest, op, bounds, published, session>>

------------------------------------------------------------------------------
(* The operation that holds the lock.                                      *)

Goto(m, step) == op' = [op EXCEPT ![m].at = step]

(* The state a request leaves.  A pull that finds no server ends local_only, *)
(* an upload that worked leaves the state alone, and a switch whose test     *)
(* failed does too; every other failure ends read_only.                      *)
AfterPullKept(result, old) ==  \* mutant: a failure leaves the state
    CASE result = "ok" -> "writable" [] result = "local" -> "local_only" [] OTHER -> old
AfterPull(result, old) ==
    CASE result = "ok" -> "writable" [] result = "local" -> "local_only" [] OTHER -> "read_only"
AfterUpload(result, old) == IF result = "error" THEN "read_only" ELSE old
AfterSwitch(result, old) ==
    CASE result = "ok" -> "writable" [] result = "same" -> old [] OTHER -> "read_only"

(* save_sync_config: the candidate becomes the server of this machine. *)
SaveEndpoint(m) == endpoint' = [endpoint EXCEPT ![m] = op[m].to]

Finish(m, result) ==
    /\ op' = [op EXCEPT ![m] = Idle]
    /\ asked' = [asked EXCEPT ![m] = @ /\ op[m].kind # "pull"]
    /\ IF result = "ok" /\ op[m].kind = "switch" THEN SaveEndpoint(m) ELSE UNCHANGED endpoint
    /\ moved' = [moved EXCEPT ![m] = IF result = "ok" THEN endpoint'[m] # op[m].to ELSE @]
    /\ state' = [state EXCEPT ![m] =
                   CASE op[m].kind = "pull" -> AfterPull(result, @)
                     [] op[m].kind = "upload" -> AfterUpload(result, @)
                     [] op[m].kind = "switch" -> AfterSwitch(result, @)]
    /\ UNCHANGED waiting

(* Every exception of a request becomes an error result; the working copy  *)
(* and the baseline stay as they are.                                      *)
Fault(m, result) ==
    /\ faults < MaxFaults /\ faults + stops < MaxTroubles
    /\ faults' = faults + 1
    /\ Finish(m, result)
    /\ UNCHANGED <<snapshot, manifest, editing, now, pulls, stops>>

Snapshot(m) == snapshot' = [snapshot EXCEPT ![m] = data[m]]
Remember(m) == manifest' = [manifest EXCEPT ![m] = @ \/ Version[m].major >= 2]

Calm == UNCHANGED <<editing, bounds>>

Server(m) == endpoint[m]

TakeLock(m) ==
    /\ op[m].kind = "none"
    /\ \E kind \in waiting[m], e \in Endpoints :
          /\ kind # "switch" => e = CHOOSE x \in Endpoints : TRUE
          /\ op' = [op EXCEPT ![m] =
                      [Idle EXCEPT !.kind = kind,
                                   !.at = CASE kind = "pull" -> "load"
                                            [] kind = "upload" -> "copy"
                                            [] kind = "switch" -> "test",
                                   !.to = IF kind = "switch" THEN e ELSE Server(m)]]
          /\ waiting' = [waiting EXCEPT ![m] = @ \ {kind}]
    /\ UNCHANGED <<files, data, snapshot, manifest, published, endpoint, moved, state,
                   asked>>
    /\ Calm

(* Without a configured server the local configuration is its own baseline. *)
Load(m) ==
    /\ op[m].at = "load"
    /\ IF op[m].to = NoEndpoint
       THEN Finish(m, "local") /\ Snapshot(m)
       ELSE Goto(m, "list") /\ UNCHANGED <<snapshot, session>>
    /\ UNCHANGED <<files, data, manifest, published>> /\ Calm

Test(m) ==
    /\ op[m].at = "test"
    /\ \/ Goto(m, "list") /\ UNCHANGED <<snapshot, manifest, session>> /\ Calm
       \/ Fault(m, "same")
    /\ UNCHANGED <<files, data, published>>

(* An empty folder is seeded from the local configuration. *)
List(m) ==
    /\ op[m].at = "list"
    /\ \/ /\ op' = [op EXCEPT ![m].art = Latest(op[m].to),
                              ![m].at = IF Latest(op[m].to) = Absent THEN "copy"
                                        ELSE "download"]
          /\ UNCHANGED <<snapshot, manifest, session>> /\ Calm
       \/ Fault(m, "error")
    /\ UNCHANGED <<files, data, published>>

Download(m) ==
    /\ op[m].at = "download"
    /\ IF Refused(m, op[m].art)
       THEN Finish(m, "error") /\ UNCHANGED <<snapshot, manifest>> /\ Calm
       ELSE \/ Goto(m, "merge") /\ UNCHANGED <<snapshot, manifest, session>> /\ Calm
            \/ Fault(m, "error")
    /\ UNCHANGED <<files, data, published>>

(* The publisher's server, folder and user become those of this machine.   *)
AdoptEndpoint(m) ==
    /\ endpoint' = [endpoint EXCEPT ![m] =
                      IF op[m].art.server = NoEndpoint THEN @ ELSE op[m].art.server]
    /\ moved' = [moved EXCEPT ![m] = @ \/ endpoint'[m] # endpoint[m]]

(* One transaction: the cloud's rows replace the local ones. *)
Merge(m) ==
    /\ op[m].at = "merge"
    /\ \/ /\ data' = [data EXCEPT ![m] = op[m].art.edits]
          /\ AdoptEndpoint(m)
          /\ Goto(m, IF Upgraded(m, op[m].art) THEN "copy" ELSE "record")
          /\ UNCHANGED <<snapshot, manifest, state, waiting, asked>> /\ Calm
       \/ Fault(m, "error") /\ UNCHANGED data
    /\ UNCHANGED <<files, published>>

(* The copy that is published; an upload without a server ends here. *)
Copy(m) ==
    /\ op[m].at = "copy"
    /\ IF op[m].to = NoEndpoint
       THEN Finish(m, "same") /\ UNCHANGED <<snapshot, manifest>> /\ Calm
       ELSE \/ /\ op' = [op EXCEPT ![m].copy = data[m], ![m].at = "put"]
               /\ UNCHANGED <<snapshot, manifest, session>> /\ Calm
            \/ Fault(m, "error")
    /\ UNCHANGED <<files, data, published>>

(* The upload of a machine whose sync_config a merge has changed: it puts   *)
(* on a server whose newest artifact it has not read.                       *)
Strays(m) == moved[m] /\ op[m].kind = "upload"
Store(m) ==
    /\ files' = [files EXCEPT ![op[m].to][now] = Artifact(m, op[m].copy)]
    /\ dropped' = [dropped EXCEPT ![op[m].to] =
                     IF Strays(m) THEN @ \cup (acked[op[m].to] \ op[m].copy) ELSE @]

(* A failed PUT may have reached the server. *)
Put(m) ==
    /\ op[m].at = "put"
    /\ \/ /\ Store(m)
          /\ acked' = [acked EXCEPT ![op[m].to] = @ \cup op[m].copy]
          /\ Goto(m, "record")
          /\ UNCHANGED <<snapshot, manifest, session>> /\ Calm
       \/ /\ Store(m) \/ UNCHANGED <<files, dropped>>
          /\ Fault(m, "error") /\ UNCHANGED acked
    /\ UNCHANGED data

(* The baseline advances to the tables as they are now. *)
Record(m) ==
    /\ op[m].at = "record"
    /\ \/ /\ Snapshot(m) /\ Remember(m)
          /\ Finish(m, "ok") /\ Calm
       \/ Fault(m, "error")
    /\ UNCHANGED <<files, data, published>>

------------------------------------------------------------------------------
Stop(m) ==
    /\ state[m] # "down"
    /\ stops < MaxStops /\ faults + stops < MaxTroubles
    /\ stops' = stops + 1
    /\ state' = [state EXCEPT ![m] = "down"]
    /\ op' = [op EXCEPT ![m] = Idle]
    /\ waiting' = [waiting EXCEPT ![m] = {}]
    /\ asked' = [asked EXCEPT ![m] = FALSE]
    /\ editing' = [editing EXCEPT ![m] = FALSE]
    /\ UNCHANGED <<files, data, snapshot, endpoint, moved, manifest, now, pulls,
                   faults, published>>

Tick ==
    /\ now < MaxNow /\ now' = now + 1
    /\ UNCHANGED <<files, data, snapshot, manifest, op, editing, pulls,
                   faults, stops, published, session>>

Works(m) ==
    \/ TakeLock(m) \/ Load(m) \/ Test(m) \/ List(m) \/ Download(m)
    \/ Merge(m) \/ Copy(m) \/ Put(m) \/ Record(m)
Step(m) ==
    \/ Start(m) \/ RetryPull(m) \/ RequestUpload(m) \/ RequestSwitch(m)
    \/ EditRequest(m) \/ EditCommit(m) \/ Works(m) \/ Stop(m)
Next == Tick \/ \E m \in Machines : Step(m)

(* A thread that holds or can take the lock goes on: requests have timeouts. *)
Spec == Init /\ [][Next]_vars /\ \A m \in Machines : WF_vars(Works(m))
------------------------------------------------------------------------------
(* Constraint-free type of the state. *)
TypeOK ==
    /\ \A e \in Endpoints, n \in 1 .. MaxNow :
          files[e][n] = Absent \/ files[e][n].edits \subseteq Edits
    /\ state \in [Machines -> {"down", "syncing", "writable", "read_only", "local_only"}]
    /\ \A m \in Machines : data[m] \subseteq Edits /\ waiting[m] \subseteq {"pull", "upload", "switch"}

(* An edit in an artifact whose PUT was acknowledged (config_sync.py:142)   *)
(* is in the newest artifact ever after, whoever publishes next and         *)
(* wherever the processes stop: the next session starts from it.  Only the  *)
(* upload of a machine that a merge moved to the server may leave it out.   *)
NewestKeepsPublished ==
    \A e \in Endpoints : acked[e] \ dropped[e] \subseteq Latest(e).edits

(* A session that lets its user edit holds every edit acknowledged on its   *)
(* server, so what it publishes next cannot drop one (config_session.py:96),*)
(* unless a merge has moved it to that server.                              *)
EditorIsCurrent ==
    \A m \in Machines :
        state[m] = "writable" /\ op[m].kind = "none" /\ ~moved[m]
            => acked[endpoint[m]] \ dropped[endpoint[m]] \subseteq data[m]

NoOlder(a, b) == a.major < b.major \/ (a.major = b.major /\ a.minor <= b.minor)

(* No machine replaces the newest artifact of any server by one of an older *)
(* schema (config_sync.py:205-225), although an old program may be started  *)
(* at any time and seeds, retries and switches publish too.  The exception  *)
(* is exact: the upload of a machine whose sync_config a merge has changed  *)
(* (config_merge.py:187-198), before any request worked with that server.   *)
NewestSchemaGrows ==
    [][\A e \in Endpoints :
          \/ NoOlder(Latest(e), Latest(e)')
          \/ \E m \in Machines : Strays(m) /\ op[m].at = "put" /\ op[m].to = e]_vars

(* Without the exception it is violated.                                    *)
NewestSchemaAlwaysGrows ==
    [][\A e \in Endpoints : NoOlder(Latest(e), Latest(e)')]_vars

(* "syncing" ends: a retry that is coalesced, or set while another request  *)
(* holds the lock, is followed by a state the user can act on.              *)
SyncingEnds == \A m \in Machines : state[m] = "syncing" ~> state[m] # "syncing"
==============================================================================

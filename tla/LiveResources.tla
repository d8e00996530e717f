--------------------------- MODULE LiveResources ---------------------------
(***************************************************************************)
(* The live configuration of Token-Board: accounts, upstreams, route sets, *)
(* route rules, client keys and upstream credentials, on two machines that *)
(* share it through one cloud artifact, and the request history that has   *)
(* to outlive it.  One machine runs at a time; it starts by merging the    *)
(* artifact, edits, and publishes when the configuration page is left.     *)
(*                                                                         *)
(* A row is a record; ids are the integers SQLite allocates.  uuids are    *)
(* numbers that are never given out twice.  A catalogue, a price or a name *)
(* is not told apart, and neither is the pattern of an aggregate's entry.  *)
(***************************************************************************)
EXTENDS Naturals, Sequences, FiniteSets, FiniteSetsExt

CONSTANTS
    Machines,       \* the machines that share a configuration
    First,          \* the machine that holds the plaintext key at the outset
    None,           \* NULL
    MaxEdits,       \* bound on the edits
    MaxRequests,    \* bound on the requests
    MaxFailures     \* bound on the uploads that fail

ASSUME FirstAssumption == First \in Machines
ASSUME NoneAssumption == None \notin Nat

VARIABLES
    db,        \* the live tables of each machine
    log,       \* request_log of each machine
    flight,    \* the requests of each machine that are not recorded yet
    cloud,     \* the newest configuration artifact
    active,    \* the machine that runs
    writable,  \* the active machine merged the artifact
    dirty,     \* the active machine holds edits that are not published
    accepted,  \* the account uuids that an artifact ever held
    bounds     \* edits, requests and failures so far, and the last uuid

vars == <<db, log, flight, cloud, active, writable, dirty, accepted, bounds>>

Ids(rows) == {r.id : r \in rows}
Row(rows, i) == CHOOSE r \in rows : r.id = i
Without(rows, i) == {r \in rows : r.id # i}
Greatest(S) == Max(S \cup {0})

(* AUTOINCREMENT: an id above every id the table ever held. *)
NextId(d, table) == d.sequence[table] + 1
Took(d, table, i) == [d EXCEPT !.sequence[table] = IF i > @ THEN i ELSE @]

NextSharedId(d) == Greatest(Ids(d.accounts) \cup Ids(d.routes) \cup Ids(d.identities)) + 1
NextRuntime(d) == Greatest({c.runtime : c \in d.credentials}) + 1

(* The upstreams behind the accounts S; an aggregate has none of its own. *)
UpstreamsOf(d, S) == {u \in d.upstreams : u.account \in S}

----------------------------------------------------------------------------
(* deletion.py: history is detached before a live row goes.                *)
Detach(l, field, S) == {IF r[field] \in S THEN [r EXCEPT ![field] = None] ELSE r : r \in l}

(* A machine's tables and its request history, as one operand. *)
PurgeClientKeys(s, S) ==
    [db |-> [s.db EXCEPT !.keys = {k \in @ : k.id \notin S}],
     log |-> Detach(s.log, "key", S)]

PurgeRouteSets(s, S) ==
    LET t == PurgeClientKeys([s EXCEPT !.log = Detach(@, "route", S)],
                             {k.id : k \in {k \in s.db.keys : k.route \in S}})
    IN  [t EXCEPT !.db.rules = {r \in @ : r.route \notin S},
                  !.db.routes = {r \in @ : r.id \notin S}]

PurgeCredentials(s, S) ==
    [db |-> [s.db EXCEPT !.credentials = {c \in @ : c.id \notin S},
                         !.secrets = @ \ S],
     log |-> Detach(s.log, "credential", S)]

DropIdentity(l, S) ==
    {IF r.account \in S
     THEN [r EXCEPT !.identity = IF @ = None THEN r.account ELSE @,
                    !.account = None, !.route = None, !.key = None, !.credential = None]
     ELSE r : r \in l}

(* The route graph of the accounts S first, then the rules aggregates have  *)
(* on their upstreams.                                                     *)
PurgeGraph(s, S, ups) ==
    LET t == PurgeRouteSets(s, {r.id : r \in {r \in s.db.routes : r.account \in S}})
        v == PurgeCredentials([db |-> [t.db EXCEPT !.rules = {r \in @ : r.upstream \notin ups}],
                               log |-> DropIdentity(t.log, S)],
                              {c.id : c \in {c \in t.db.credentials :
                                  c.upstream \in Ids(UpstreamsOf(t.db, S))}})
    IN  [v EXCEPT !.db.upstreams = {u \in @ : u.account \notin S},
                  !.db.accounts = {a \in @ : a.id \notin S}]

(* Mutants: the rules of aggregates stay; the identity goes too.           *)
PurgeLeavesAggregates(s, S) == PurgeGraph(s, S, {})
PurgeWithIdentity(s, S) ==
    [PurgeGraph(s, S, Ids(UpstreamsOf(s.db, S))) EXCEPT
        !.db.identities = {i \in @ : i.id \notin S}]

PurgeProxyAccounts(s, S) == PurgeGraph(s, S, Ids(UpstreamsOf(s.db, S)))

----------------------------------------------------------------------------
(* The edits: each is one transaction, from tables and history to both.    *)
AddKey(d, upstream, uuid) ==
    [d EXCEPT !.credentials = @ \cup {[id |-> uuid, runtime |-> NextRuntime(d), upstream |-> upstream]},
              !.secrets = @ \cup {uuid}]

CreateAccount(s, uuid) ==
    LET d == s.db
        i == NextSharedId(d)
        u == NextId(d, "upstreams")
        r == NextId(d, "rules")
    IN  [s EXCEPT !.db = Took(Took(
            [d EXCEPT !.accounts = @ \cup {[id |-> i, uuid |-> uuid]},
                      !.identities = @ \cup {[id |-> i, uuid |-> uuid]},
                      !.upstreams = @ \cup {[id |-> u, account |-> i]},
                      !.routes = @ \cup {[id |-> i, account |-> i]},
                      !.rules = @ \cup {[id |-> r, route |-> i, priority |-> 0, upstream |-> u]}],
            "upstreams", u), "rules", r)]

(* Only a key with a local plaintext takes part in the diff. *)
SetUpstreamKeys(s, account, keep, new) ==
    LET u == (CHOOSE x \in UpstreamsOf(s.db, {account}) : TRUE).id
        gone == {c.id : c \in {c \in s.db.credentials :
                     c.upstream = u /\ c.id \in s.db.secrets /\ c.id \notin keep}}
        t == PurgeCredentials(s, gone)
    IN  IF new = None THEN t ELSE [t EXCEPT !.db = AddKey(@, u, new)]

ConfirmCloudKey(s, c) == [s EXCEPT !.db.secrets = @ \cup {c}]

(* Every rule of the route set is deleted and inserted again.              *)
ReplaceAggregateRules(d, route, entries) ==
    LET first == NextId(d, "rules")
        n == Len(entries)
    IN  Took([d EXCEPT !.rules = {r \in @ : r.route # route} \cup
                 {[id |-> first + p, route |-> route, priority |-> p,
                   upstream |-> (CHOOSE u \in UpstreamsOf(d, {entries[p + 1]}) : TRUE).id] :
                  p \in 0..(n - 1)}],
             "rules", first + n - 1)

CreateAggregate(s, entries) ==
    LET d == s.db
        i == NextSharedId(d)
    IN  [s EXCEPT !.db = ReplaceAggregateRules(
            [d EXCEPT !.routes = @ \cup {[id |-> i, account |-> None]}], i, entries)]

CreateKey(s, route) ==
    LET d == s.db
        k == NextId(d, "keys")
    IN  [s EXCEPT !.db = Took([d EXCEPT !.keys = @ \cup {[id |-> k, route |-> route]}], "keys", k)]
MoveKey(s, k, route) ==
    [s EXCEPT !.db.keys = Without(@, k) \cup {[id |-> k, route |-> route]}]

----------------------------------------------------------------------------
(* The artifact: a copy without the machine's plaintext keys.              *)
Sanitized(d) == [d EXCEPT !.secrets = {}]

(* config_merge.py.  Rows are upserted by id, parents first.               *)
Upsert(local, remote) == remote \cup {r \in local : r.id \notin Ids(remote)}

(* A known credential keeps its runtime id, a new one gets the next.       *)
SameRuntime(d, new, r) == NextRuntime(d)   \* mutant
NewRuntime(d, new, r) == NextRuntime(d) + Cardinality({x \in new : x.id < r.id})
MergedCredentials(d, c) ==
    LET new == {r \in c.credentials : r.id \notin Ids(d.credentials)}
        Runtime(r) == IF r \in new
                      THEN NewRuntime(d, new, r)
                      ELSE Row(d.credentials, r.id).runtime
    IN  Upsert(d.credentials, {[r EXCEPT !.runtime = Runtime(r)] : r \in c.credentials})

Upserted(d, c) ==
    [d EXCEPT !.identities = Upsert(@, c.identities),
              !.accounts = Upsert(@, c.accounts),
              !.upstreams = Upsert(@, c.upstreams),
              !.routes = Upsert(@, c.routes),
              !.rules = Upsert(@, c.rules),
              !.keys = Upsert(@, c.keys),
              !.credentials = MergedCredentials(d, c),
              !.sequence = [upstreams |-> Max({@.upstreams} \cup Ids(c.upstreams)),
                            rules |-> Max({@.rules} \cup Ids(c.rules)),
                            keys |-> Max({@.keys} \cup Ids(c.keys))]]

(* UNIQUE(route_set_id, model_pattern, priority, upstream_id): a remote rule *)
(* meets a local one in its place that no earlier remote row has rewritten.  *)
SamePlace(r, x) == r.route = x.route /\ r.priority = x.priority /\ r.upstream = x.upstream
UniqueRuleFails(d, c) ==
    \E r \in c.rules, x \in d.rules :
        /\ r.id # x.id /\ SamePlace(r, x)
        /\ ~\E y \in c.rules : y.id = x.id /\ y.id < r.id

PurgeRules(s, c) == [s EXCEPT !.db.rules = {r \in @ : r.id \in Ids(c.rules)}]
KeepMissingKeys(s, c) == s   \* mutant
PurgeMissingKeys(s, c) == PurgeClientKeys(s, Ids(s.db.keys) \ Ids(c.keys))
PurgeUpstreams(s, c) ==
    LET gone == Ids(s.db.upstreams) \ Ids(c.upstreams)
        t == PurgeCredentials(s, {x.id : x \in {x \in s.db.credentials : x.upstream \in gone}})
    IN  [t EXCEPT !.db.upstreams = {u \in @ : u.id \notin gone}]
PurgeRoutes(s, c) == PurgeRouteSets(s, Ids(s.db.routes) \ Ids(c.routes))
PurgeAccounts(s, c) == PurgeProxyAccounts(s, Ids(s.db.accounts) \ Ids(c.accounts))
PurgeMissingCredentials(s, c) == PurgeCredentials(s, Ids(s.db.credentials) \ Ids(c.credentials))

Merged(s, c) ==
    PurgeMissingCredentials(PurgeAccounts(PurgeRoutes(PurgeUpstreams(PurgeMissingKeys(
        PurgeRules([s EXCEPT !.db = Upserted(@, c)], c), c), c), c), c), c)

(* Every foreign key of the live tables and of the history leads somewhere. *)
References(d, l) ==
    /\ \A u \in d.upstreams : u.account \in Ids(d.accounts)
    /\ \A r \in d.routes : r.account \in Ids(d.accounts) \cup {None}
    /\ \A r \in d.rules : r.route \in Ids(d.routes) /\ r.upstream \in Ids(d.upstreams)
    /\ \A k \in d.keys : k.route \in Ids(d.routes)
    /\ \A c \in d.credentials : c.upstream \in Ids(d.upstreams)
    /\ d.secrets \subseteq Ids(d.credentials)
    /\ \A r \in l : /\ r.account \in Ids(d.accounts) \cup {None}
                    /\ r.route \in Ids(d.routes) \cup {None}
                    /\ r.key \in Ids(d.keys) \cup {None}
                    /\ r.credential \in Ids(d.credentials) \cup {None}

----------------------------------------------------------------------------
(* An installation with one account and one aggregate in front of it, as   *)
(* four edits of First and a merge of the other machines leave it.         *)
Installed(secrets) ==
    [accounts |-> {[id |-> 1, uuid |-> 1]}, identities |-> {[id |-> 1, uuid |-> 1]},
     upstreams |-> {[id |-> 1, account |-> 1]},
     routes |-> {[id |-> 1, account |-> 1], [id |-> 2, account |-> None]},
     rules |-> {[id |-> 1, route |-> 1, priority |-> 0, upstream |-> 1],
                [id |-> 2, route |-> 2, priority |-> 0, upstream |-> 1]},
     keys |-> {[id |-> 1, route |-> 2]},
     credentials |-> {[id |-> 2, runtime |-> 1, upstream |-> 1]},
     secrets |-> secrets,
     sequence |-> [upstreams |-> 1, rules |-> 2, keys |-> 1]]

Init ==
    /\ db = [m \in Machines |-> Installed(IF m = First THEN {2} ELSE {})]
    /\ log = [m \in Machines |-> {}]
    /\ flight = [m \in Machines |-> {}]
    /\ cloud = Installed({})
    /\ active = First /\ writable = TRUE /\ dirty = FALSE
    /\ accepted = {1}
    /\ bounds = [edits |-> 0, requests |-> 0, failures |-> 0, uuid |-> 2]

State(m) == [db |-> db[m], log |-> log[m]]
Store(m, s) == /\ db' = [db EXCEPT ![m] = s.db]
               /\ log' = [log EXCEPT ![m] = s.log]

(* A mutating route: refused while read-only, else its own transaction.    *)
CanEdit == writable /\ bounds.edits < MaxEdits
Edit(s, minted) ==
    /\ Store(active, s)
    /\ dirty' = TRUE
    /\ bounds' = [bounds EXCEPT !.edits = @ + 1, !.uuid = @ + minted]
    /\ UNCHANGED <<flight, cloud, active, writable, accepted>>

Fresh == bounds.uuid + 1
Here == db[active]
Aggregates == {r.id : r \in {r \in Here.routes : r.account = None}}

EditCreateAccount == CanEdit /\ Edit(CreateAccount(State(active), Fresh), 1)
EditDeleteAccount ==
    /\ CanEdit
    /\ \E a \in Ids(Here.accounts) : Edit(PurgeProxyAccounts(State(active), {a}), 0)
EditSetKeys ==
    /\ CanEdit
    /\ \E a \in Ids(Here.accounts), keep \in SUBSET Here.secrets, new \in {None, Fresh} :
           Edit(SetUpstreamKeys(State(active), a, keep, new), IF new = None THEN 0 ELSE 1)
EditConfirmCloudKey ==
    /\ CanEdit
    /\ \E c \in Ids(Here.credentials) \ Here.secrets : Edit(ConfirmCloudKey(State(active), c), 0)
Entries == UNION {[1..n -> Ids(Here.accounts)] : n \in 1..2}
EditCreateAggregate ==
    CanEdit /\ \E e \in Entries : Edit(CreateAggregate(State(active), e), 0)
EditUpdateAggregate ==
    /\ CanEdit
    /\ \E r \in Aggregates, e \in Entries :
           Edit([State(active) EXCEPT !.db = ReplaceAggregateRules(@, r, e)], 0)
EditDeleteAggregate ==
    CanEdit /\ \E r \in Aggregates : Edit(PurgeRouteSets(State(active), {r}), 0)
EditCreateKey ==
    CanEdit /\ \E r \in Ids(Here.routes) : Edit(CreateKey(State(active), r), 0)
EditMoveKey ==
    /\ CanEdit
    /\ \E k \in Ids(Here.keys), r \in Ids(Here.routes) :
           r # Row(Here.keys, k).route /\ Edit(MoveKey(State(active), k, r), 0)
EditDeleteKey ==
    CanEdit /\ \E k \in Ids(Here.keys) : Edit(PurgeClientKeys(State(active), {k}), 0)

(* The page is left: the sanitized copy becomes the newest artifact, or the *)
(* upload fails and the machine is read-only with its edits in place.       *)
Publish ==
    /\ dirty /\ writable
    /\ cloud' = Sanitized(Here)
    /\ accepted' = accepted \cup {a.uuid : a \in Here.identities}
    /\ dirty' = FALSE
    /\ UNCHANGED <<db, log, flight, active, writable, bounds>>
PublishFails ==
    /\ dirty /\ writable
    /\ bounds.failures < MaxFailures
    /\ bounds' = [bounds EXCEPT !.failures = @ + 1]
    /\ writable' = FALSE
    /\ UNCHANGED <<db, log, flight, cloud, active, dirty, accepted>>

(* The pull: one transaction, rolled back by a constraint that fails.  It  *)
(* may also be one of a table that is not told apart here: the one open    *)
(* contract of an account, a price's place, a rate's date, an importer.    *)
PullCommits(m) ==
    /\ ~UniqueRuleFails(db[m], cloud)
    /\ \E s \in {Merged(State(m), cloud)} : References(s.db, s.log) /\ Store(m, s)
    /\ writable' = TRUE /\ dirty' = FALSE
PullRollsBack(m) ==
    /\ writable' = FALSE /\ dirty' = (dirty /\ m = active)
    /\ UNCHANGED <<db, log>>
Pull(m) ==
    /\ PullCommits(m) \/ PullRollsBack(m)
    /\ active' = m
    /\ UNCHANGED <<flight, cloud, accepted, bounds>>
RetryPull == ~writable /\ Pull(active)
Start(m) == m # active /\ (dirty => ~writable) /\ Pull(m)

(* A request is routed over a rule to a key with a plaintext, and its row  *)
(* is written later, from the integers the request carried.                *)
Dispatch ==
    /\ bounds.requests < MaxRequests
    /\ \E k \in Here.keys, r \in Here.rules, c \in Here.credentials :
           /\ r.route = k.route /\ c.upstream = r.upstream /\ c.id \in Here.secrets
           /\ LET a == Row(Here.upstreams, r.upstream).account
              IN  flight' = [flight EXCEPT ![active] = @ \cup
                     {[event |-> bounds.requests, account |-> a, key |-> k.id,
                       runtime |-> c.runtime, owner |-> Row(Here.accounts, a).uuid]}]
    /\ bounds' = [bounds EXCEPT !.requests = @ + 1]
    /\ UNCHANGED <<db, log, cloud, active, writable, dirty, accepted>>

OrNull(i, S) == IF i \in S THEN i ELSE None
Recorded(d, f) ==
    [event |-> f.event,
     account |-> OrNull(f.account, Ids(d.accounts)),
     identity |-> f.account,
     key |-> OrNull(f.key, Ids(d.keys)),
     route |-> IF f.key \in Ids(d.keys) THEN Row(d.keys, f.key).route ELSE None,
     credential |-> IF \E c \in d.credentials : c.runtime = f.runtime
                    THEN (CHOOSE c \in d.credentials : c.runtime = f.runtime).id ELSE None,
     owner |-> f.owner]
Record ==
    \E f \in flight[active] :
        /\ flight' = [flight EXCEPT ![active] = @ \ {f}]
        /\ log' = [log EXCEPT ![active] = @ \cup {Recorded(Here, f)}]
        /\ UNCHANGED <<db, cloud, active, writable, dirty, accepted, bounds>>

Next ==
    \/ EditCreateAccount \/ EditDeleteAccount \/ EditSetKeys \/ EditConfirmCloudKey
    \/ EditCreateAggregate \/ EditUpdateAggregate \/ EditDeleteAggregate
    \/ EditCreateKey \/ EditMoveKey \/ EditDeleteKey
    \/ Publish \/ PublishFails \/ RetryPull \/ (\E m \in Machines : Start(m))
    \/ Dispatch \/ Record

Spec == Init /\ [][Next]_vars

----------------------------------------------------------------------------
(* No sequence of edits, publications and merges leaves a row that refers  *)
(* to a missing one: such an edit would raise (PRAGMA foreign_keys=ON) and *)
(* such a merge would be rolled back for ever.                             *)
GraphWhole == \A m \in Machines : References(db[m], log[m])

(* A request stays attributed, on the machine that served it, to the       *)
(* account that served it, through its deletion, its merge and the account *)
(* created next: as long as that account was published once.               *)
OwnerKept ==
    \A m \in Machines : \A r \in log[m] :
        \E i \in db[m].identities :
            i.id = r.identity /\ (r.owner \in accepted => i.uuid = r.owner)

(* What a machine alone holds of a credential, its runtime id and its      *)
(* plaintext, survives every edit and every merge the credential survives; *)
(* no runtime id has two credentials and the artifact holds no plaintext.  *)
LocalHalfKept ==
    [][ /\ cloud'.secrets = {}
        /\ \A m \in Machines :
            /\ \A c \in db'[m].credentials, x \in db'[m].credentials :
                   c.runtime = x.runtime => c = x
            /\ \A c \in db[m].credentials, x \in db'[m].credentials :
                   c.id = x.id => /\ c.runtime = x.runtime
                                  /\ c.id \in db[m].secrets => c.id \in db'[m].secrets ]_vars

(* After a merge that commits and after a publication, the configuration   *)
(* of the machine is the artifact's: nothing the cloud removed lives on.   *)
Shared(d) ==
    <<d.accounts, d.upstreams, d.routes, d.rules, d.keys,
      {<<c.id, c.upstream>> : c \in d.credentials}>>
MergedIsCloud == writable /\ ~dirty => Shared(Here) = Shared(cloud)

(* doc/sync.md:56: the newest artifact is pulled and merged at every       *)
(* start; so no rule a machine published keeps another one read-only.      *)
(* Does not hold (README, section 5).                                      *)
PullApplies == writable \/ dirty \/ ~UniqueRuleFails(Here, cloud)
=============================================================================

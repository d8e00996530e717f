--------------------------- MODULE SchemaUpgrade ---------------------------
(***************************************************************************)
(* The schema upgrade boundary: `start.sh --all` stops the services, rolls  *)
(* back an upgrade a crash cut short, brings the two databases and the      *)
(* configuration snapshot to the current schema through checked shadows,    *)
(* and starts the services.  A crash may hit between any two durable steps, *)
(* and any step of a runner may raise.  A file is a record of its version,  *)
(* the transitions recorded in it and the facts an upgrade must carry over: *)
(* request rows, current prices, agent archives and charges without a price.*)
(***************************************************************************)
EXTENDS Integers, FiniteSets, Sequences

CONSTANTS None,          \* no file, no account
          Agents,        \* agents whose archive ids an old dashboard numbered itself
          AgentId,       \* their ids in the token-board database
          MaxCrashes, MaxFailures, MaxRequests

ASSUME SchemaConstants ==
    /\ AgentId \in [Agents -> Nat \ {0}]
    /\ \A a, b \in Agents : AgentId[a] = AgentId[b] => a = b
    /\ {MaxCrashes, MaxFailures, MaxRequests} \subseteq Nat

VARIABLES db,            \* "proxy", "dashboard" -> the file, or None
          spool,         \* request frames not yet written to the proxy database
          snap,          \* version of token-board_config_snapshot.db, or None
          reports,       \* charges written to a pending report beside a backup
          manifest,      \* is it still open, and the files backed up under it
          stale,         \* was an upgrade cut short before its backups were recorded
          shadow,        \* the upgraded copies in the work directory (lost in a crash)
          job, step,     \* the runner of a pair and where the process is; "off": it does not run
          serving,       \* do the services run
          left,          \* the files the recovery has still to copy back
          asked, crashes, failures,   \* requests served, crashes, exceptions
          kept           \* the facts that must never be lost

vars == <<db, spool, snap, reports, manifest, stale, shadow, job, step, serving, left,
          asked, crashes, failures, kept>>
files == <<db, spool, snap, reports>>
budget == <<asked, crashes, failures>>

DB == {"proxy", "dashboard"}
Tip == [proxy |-> <<2, 7>>, dashboard |-> <<2, 2>>]
V1Tip == [proxy |-> <<1, 21>>, dashboard |-> <<1, 7>>]
Landing == [proxy |-> <<1, 13>>, dashboard |-> <<1, 7>>]

(* What the files hold.                                                      *)
RouteIds == {"rebuild", "agent-billing", "agent-identity", "pricing", "hard-delete"}
Releases == Nat \X (0..99)
NoVersion == <<-1, 0>>  \* of an existing file in which nothing was created yet
Versions == Releases \cup {NoVersion}
Rows == [id : Nat, account : Nat \cup {None}, identity : Nat \cup {None}]
Prices == [rule : Nat, rate : Nat, current : BOOLEAN]
Proxies == [ver : Versions, done : SUBSET RouteIds, requests : SUBSET Rows,
            prices : SUBSET Prices, softDeleted : SUBSET Nat, pending : BOOLEAN]
Dashboards == [ver : Versions, done : SUBSET RouteIds, archive : SUBSET (Nat \X Agents),
               unpriced : SUBSET {"charge"}]
Pairs == [proxy : Proxies \cup {None}, dashboard : Dashboards \cup {None}]
Manifests == [open : BOOLEAN, db : Pairs, spool : SUBSET Rows,
              snap : Releases \cup {None}, full : BOOLEAN]

ASSUME NoneAssumption ==
    /\ None \notin Nat /\ None \notin Versions
    /\ None \notin Proxies /\ None \notin Dashboards /\ None \notin Manifests

Older(v, w) == v[1] < w[1] \/ (v[1] = w[1] /\ v[2] < w[2])
Crosses(v, w, at) == Older(v, at) /\ ~Older(w, at)
-----------------------------------------------------------------------------
(* The transitions and the routes their descriptors declare.                *)

Within(major, low, high) == [major |-> major, low |-> low, high |-> high]
V1Any == Within(1, 0, 99)
RangeHas(range, v) == v[1] = range.major /\ v[2] \in range.low..range.high

Same == <<0, 0>>   \* a prepare target no file is older than
Route(id, order, scope, current, prepare) ==
    [id |-> id, order |-> order, scope |-> scope, current |-> current, prepare |-> prepare]

Routes == {
    Route("rebuild", 0, "local-pair",
          [proxy |-> Within(0, 0, 19), dashboard |-> Within(0, 0, 6)],
          [proxy |-> <<0, 19>>, dashboard |-> <<0, 6>>]),
    Route("rebuild", 0, "token-board-artifact",
          [proxy |-> Within(0, 0, 19)], [proxy |-> <<0, 19>>]),
    Route("rebuild", 0, "dashboard-artifact",
          [proxy |-> V1Any, dashboard |-> Within(0, 0, 6)], [dashboard |-> <<0, 6>>]),
    Route("agent-billing", 1, "local-pair",
          [proxy |-> V1Any, dashboard |-> V1Any], [proxy |-> <<1, 6>>, dashboard |-> Same]),
    Route("agent-identity", 2, "local-pair",
          [proxy |-> V1Any, dashboard |-> V1Any], [proxy |-> <<1, 8>>, dashboard |-> <<1, 3>>]),
    Route("pricing", 3, "local-pair",
          [proxy |-> Within(1, 0, 13), dashboard |-> V1Any],
          [proxy |-> <<1, 13>>, dashboard |-> Same]),
    Route("pricing", 3, "token-board-artifact",
          [proxy |-> Within(1, 0, 13)], [proxy |-> <<1, 13>>]),
    Route("hard-delete", 4, "local-pair",
          [proxy |-> Within(1, 17, 17), dashboard |-> Within(1, 6, 6)],
          [proxy |-> Same, dashboard |-> Same]) }

Matching(scope, pair) ==
    {r \in Routes : /\ r.scope = scope
                    /\ \A d \in DOMAIN r.current :
                          pair[d] # None /\ RangeHas(r.current[d], pair[d].ver)}
Published(scope) ==
    CASE scope = "local-pair" -> DB
      [] scope = "token-board-artifact" -> {"proxy"}
      [] scope = "dashboard-artifact" -> {"dashboard"}
Complete(scope, pair, r) == \A d \in Published(scope) : r.id \in pair[d].done

Selected(scope, pair) == {r \in Matching(scope, pair) : ~Complete(scope, pair, r)}
-----------------------------------------------------------------------------
(* What SQL and transitions do to the facts in a file.                      *)

Who(r) == IF r.identity = None THEN r.account ELSE r.identity

(* A deleted account goes; the requests made for it keep its identity.       *)
PurgeSoftDeleted(f) ==
    [f EXCEPT !.softDeleted = {},
              !.requests = {IF r.account \in f.softDeleted
                            THEN [r EXCEPT !.identity = Who(r), !.account = None]
                            ELSE r : r \in @}]

Migrated(d, f, target) ==
    IF d = "proxy"
    THEN [f EXCEPT
            !.ver = target,
            !.prices = IF Crosses(f.ver, target, <<1, 14>>) THEN {p \in @ : p.current} ELSE @,
            !.requests = IF Crosses(f.ver, target, <<1, 16>>)
                         THEN {[r EXCEPT !.identity = Who(r)] : r \in @} ELSE @]
    ELSE [f EXCEPT
            !.ver = target,
            !.unpriced = IF Crosses(f.ver, target, <<2, 2>>) THEN {} ELSE @]
Sql(d, f, target) ==
    IF f = None \/ ~Older(f.ver, target) THEN f
    ELSE IF d = "proxy" /\ Crosses(f.ver, target, <<2, 0>>)
    THEN PurgeSoftDeleted(Migrated(d, f, target))
    ELSE Migrated(d, f, target)

(* V0 -> V1.  Spool frames already in request_log are skipped.               *)
SpoolRequests(old, frames) ==
    LET existing == {r.id : r \in old.requests}
    IN  old.requests \cup {r \in frames : r.id \notin existing}
TransformProxy(old, frames) ==
    [old EXCEPT !.ver = Landing.proxy, !.requests = SpoolRequests(old, frames)]
IsV0(f) == f # None /\ f.ver[1] = 0
TransformDashboard(old) == [old EXCEPT !.ver = Landing.dashboard]

(* The V1 archive is renumbered through temporary ids, so that two agents     *)
(* may swap their ids.                                                       *)
Renumber(archive, ids) == {<<IF a[1] \in DOMAIN ids THEN ids[a[1]] ELSE a[1], a[2]>> : a \in archive}
Temporary(archive) == [i \in {a[1] : a \in archive} |-> -i]
AlignAgents(g) ==
    LET byTemporary == [t \in {-a[1] : a \in g.archive} |->
                          AgentId[(CHOOSE a \in g.archive : a[1] = -t)[2]]]
    IN  [g EXCEPT !.archive = Renumber(Renumber(@, Temporary(@)), byTemporary)]

FlattenPrices(f) == [f EXCEPT !.prices = {p \in @ : p.current}]

Transformed(route, pair) ==
    CASE route.id = "rebuild" ->
           [proxy |-> IF IsV0(pair.proxy) THEN TransformProxy(pair.proxy, spool) ELSE pair.proxy,
            dashboard |-> IF IsV0(pair.dashboard) THEN TransformDashboard(pair.dashboard)
                          ELSE pair.dashboard]
      [] route.id = "agent-identity" -> [pair EXCEPT !["dashboard"] = AlignAgents(@)]
      [] route.id = "pricing" -> [pair EXCEPT !["proxy"] = FlattenPrices(@)]
      [] route.id = "hard-delete" -> [pair EXCEPT !["proxy"] = PurgeSoftDeleted(@)]
      [] OTHER -> pair

Prepared(route, pair) ==
    LET For(d) == IF d \in DOMAIN route.prepare THEN Sql(d, pair[d], route.prepare[d]) ELSE pair[d]
    IN  [proxy |-> For("proxy"), dashboard |-> For("dashboard")]

(* The routes in their order, then SQL to the target, then the records.      *)
Value(S) == CHOOSE v \in S : TRUE
Stage(order, routes, pairs) ==
    LET now == {r \in routes : r.order = order}
    IN  IF now = {} THEN pairs
        ELSE {Transformed(r, p) : r \in now, p \in {Prepared(q, pair) : q \in now, pair \in pairs}}
Finished(scope, routes, target, d, pair) ==
    IF pair[d] = None THEN None
    ELSE [Sql(d, pair[d], target[d]) EXCEPT
            !.done = @ \cup (IF d \in Published(scope) THEN {r.id : r \in routes} ELSE {})]
AllFinished(scope, routes, target, pair) ==
    [proxy |-> Finished(scope, routes, target, "proxy", pair),
     dashboard |-> Finished(scope, routes, target, "dashboard", pair)]
ApplyRoutes(scope, routes, target, pair) ==
    Value({AllFinished(scope, routes, target, p) :
             p \in Stage(4, routes, Stage(3, routes, Stage(2, routes, Stage(1, routes,
                     Stage(0, routes, {pair})))))})
ApplyShadows(scope, pair, target) ==
    Value({ApplyRoutes(scope, routes, target, p) : routes \in {Selected(scope, pair)}, p \in {pair}})

CopyShadows(pair) == ApplyShadows("local-pair", pair, V1Tip)

(* A rebuilt pair lands on V1.13, whose own routes then run on the shadows.  *)
RebuildShadows(pair) ==
    Value({CopyShadows(p) : p \in {ApplyShadows("local-pair", pair, Landing)}})

(* What each transition compares between a source and its shadow.            *)
Added(old, frames) == {r \in frames : r.id \notin {q.id : q \in old.requests}}
VerifyProxy(old, new, frames) ==
    Cardinality(new.requests) = Cardinality(old.requests) + Cardinality(Added(old, frames))
VerifyDashboard(old, new) == Cardinality(new.archive) = Cardinality(old.archive)
VerifyIdentity(new) == \A a \in new.archive : a[1] = AgentId[a[2]]
VerifyPricing(old, new) ==
    /\ new.prices = {p \in old.prices : p.current}
    /\ Cardinality(new.requests) = Cardinality(old.requests)
VerifyHardDelete(old, new) == \A r \in new.requests : r.account \notin old.softDeleted
VerifyV22(old, new) == new.archive = old.archive
VerifyVersions(pair, target) == \A d \in DB : pair[d].ver = target[d]

Verified(route, old, new) ==
    CASE route.id = "rebuild" ->
           /\ IsV0(old.proxy) => VerifyProxy(old.proxy, new.proxy, spool)
           /\ IsV0(old.dashboard) => VerifyDashboard(old.dashboard, new.dashboard)
      [] route.id = "agent-identity" -> VerifyIdentity(new.dashboard)
      [] route.id = "pricing" -> VerifyPricing(old.proxy, new.proxy)
      [] route.id = "hard-delete" -> VerifyHardDelete(old.proxy, new.proxy)
      [] OTHER -> TRUE
ShadowsVerified(kind, old, new) ==
    IF kind \in {"rebuild", "copy"}
    THEN /\ \A route \in Selected("local-pair", old) : Verified(route, old, new)
         /\ VerifyVersions(new, V1Tip)
    ELSE VerifyV22(old.dashboard, new.dashboard) /\ VerifyVersions(new, Tip)

TipShadows(pair) == [proxy |-> Sql("proxy", pair.proxy, Tip.proxy),
                     dashboard |-> Sql("dashboard", pair.dashboard, Tip.dashboard)]

ProxyArtifact(f) ==
    LET scope == "token-board-artifact"
        landed == {ApplyShadows(scope, [proxy |-> f, dashboard |-> None], Landing)}
        latest == {ApplyShadows(scope, p, V1Tip) : p \in landed}
    IN  Value({Sql("proxy", p.proxy, Tip.proxy) : p \in latest})

DashboardArtifact(pair) ==
    LET landed == {ApplyShadows("dashboard-artifact", pair,
                                [proxy |-> V1Tip.proxy, dashboard |-> Landing.dashboard])}
    IN  Value({Sql("dashboard", p.dashboard, Tip.dashboard) : p \in landed})
-----------------------------------------------------------------------------
(* The facts an upgrade carries over, and the files that count: what a       *)
(* recovery would restore while a manifest is open, the live ones otherwise.  *)

Facts(f, g, frames, written) ==
    {<<"request", r.id, Who(r)>> : r \in (IF f = None THEN {} ELSE f.requests) \cup frames}
    \cup (IF f = None THEN {} ELSE {<<"price", p.rule, p.rate>> : p \in {q \in f.prices : q.current}})
    \cup (IF g = None THEN {} ELSE {<<"usage", a[2], 0>> : a \in g.archive})
    \cup {<<"unpriced", c, 0>> : c \in written \cup (IF g = None THEN {} ELSE g.unpriced)}

Open == manifest # None /\ manifest.open
Visible == IF Open THEN manifest.db ELSE db
VisibleSpool == IF Open /\ manifest.full THEN manifest.spool ELSE spool

At(d, version) == db[d] # None /\ db[d].ver = version
PairAtTip == \A d \in DB : At(d, Tip[d])
Major(d) == IF db[d] = None THEN -1 ELSE db[d].ver[1]
-----------------------------------------------------------------------------
Old(id, account) == [id |-> id, account |-> account, identity |-> None]
OldPrices == {[rule |-> 1, rate |-> 1, current |-> FALSE], [rule |-> 1, rate |-> 2, current |-> TRUE]}

ProxyFile(version, done, pending) ==
    Sql("proxy",
        [ver |-> <<0, 0>>, done |-> done, requests |-> {Old(1, 1), Old(2, 2)}, prices |-> OldPrices,
         softDeleted |-> IF Older(version, <<1, 18>>) THEN {2} ELSE {}, pending |-> pending],
        version)
DashboardFile(version, done, archive) ==
    [ver |-> version, done |-> done, archive |-> archive,
     unpriced |-> IF version[1] = 1 THEN {"charge"} ELSE {}]
Empty(d, version) ==
    IF d = "proxy"
    THEN [ver |-> version, done |-> {}, requests |-> {}, prices |-> {}, softDeleted |-> {},
          pending |-> FALSE]
    ELSE [ver |-> version, done |-> {}, archive |-> {}, unpriced |-> {}]

Aligned == {<<AgentId[a], a>> : a \in Agents}
Archives == {{<<ids[a], a>> : a \in Agents} :
               ids \in {f \in [Agents -> {AgentId[a] : a \in Agents}] :
                          \A a, b \in Agents : f[a] = f[b] => a = b}}

(* A new machine, the releases a user may upgrade from, a pair whose offline  *)
(* conversion stopped half way, and a proxy database without a dashboard.     *)
Installations ==
    {[proxy |-> None, dashboard |-> None],
     [proxy |-> ProxyFile(<<0, 19>>, {}, FALSE), dashboard |-> DashboardFile(<<0, 6>>, {}, Aligned)],
     [proxy |-> ProxyFile(<<0, 12>>, {}, FALSE), dashboard |-> None],
     [proxy |-> ProxyFile(<<1, 21>>, RouteIds, FALSE),
      dashboard |-> DashboardFile(<<0, 6>>, {}, Aligned)],
     [proxy |-> ProxyFile(<<1, 17>>, RouteIds \ {"hard-delete"}, FALSE),
      dashboard |-> DashboardFile(<<1, 6>>, RouteIds \ {"hard-delete"}, Aligned)],
     [proxy |-> ProxyFile(<<2, 5>>, RouteIds, TRUE),
      dashboard |-> DashboardFile(<<2, 1>>, RouteIds, Aligned)]}
    \cup {[proxy |-> ProxyFile(<<1, 8>>, {"agent-billing"}, pending),
           dashboard |-> DashboardFile(<<1, 3>>, {"agent-billing"}, archive)] :
             pending \in BOOLEAN, archive \in Archives}

Init ==
    /\ db \in Installations
    /\ spool = IF db.proxy = None THEN {} ELSE {Old(2, 2), Old(3, 1)}
    /\ snap \in IF db.proxy = None THEN {None} ELSE {None, db.proxy.ver}
    /\ kept = Facts(db.proxy, db.dashboard, spool, {})
    /\ reports = {} /\ manifest = None /\ shadow = None /\ left = <<>>
    /\ job = "none" /\ step = "off" /\ stale = FALSE /\ serving = FALSE
    /\ asked = 0 /\ crashes = 0 /\ failures = 0
-----------------------------------------------------------------------------
(* start.sh --all: nothing to do when everything is current; otherwise the    *)
(* services stop and the upgrade starts with the recovery.                   *)

Current == PairAtTip /\ snap \in {None, Tip.proxy} /\ ~Open /\ ~stale
Up == serving /\ PairAtTip /\ ~Open

RestoreProxyOnly == IF Open THEN <<"proxy">> ELSE <<>>   \* mutant: a rollback of one file

ToRestore == IF ~Open THEN <<>>
             ELSE IF manifest.full THEN <<"proxy", "dashboard", "spool", "snap">>
             ELSE <<"proxy", "dashboard">>

StartCurrent ==
    /\ step = "off" /\ ~Up /\ Current
    /\ serving' = TRUE
    /\ UNCHANGED <<files, manifest, stale, shadow, job, step, left, budget, kept>>

Begin ==
    /\ step = "off" /\ ~Up /\ ~Current
    /\ serving' = FALSE /\ step' = "recover" /\ left' = ToRestore
    /\ UNCHANGED <<files, manifest, stale, shadow, job, budget, kept>>

RestoreFile ==
    /\ step = "recover" /\ left # <<>>
    /\ left' = Tail(left)
    /\ LET item == Head(left)
       IN  /\ db' = IF item \in DB THEN [db EXCEPT ![item] = manifest.db[item]] ELSE db
           /\ spool' = IF item = "spool" THEN manifest.spool ELSE spool
           /\ snap' = IF item = "snap" THEN manifest.snap ELSE snap
    /\ UNCHANGED <<reports, manifest, stale, shadow, job, step, serving, budget, kept>>

(* After an exception the runner of a V0 or V1 pair rolls back at once and    *)
(* then gives up; otherwise the start goes on.                               *)
RolledBack ==
    /\ step = "recover" /\ left = <<>>
    /\ manifest' = IF Open THEN [manifest EXCEPT !.open = FALSE] ELSE manifest
    /\ step' = IF job = "failed" THEN "off" ELSE "inspect"
    /\ job' = "none"
    /\ UNCHANGED <<files, stale, shadow, serving, left, budget, kept>>
-----------------------------------------------------------------------------
(* ensure_local_databases: which way the versions found lead.                *)

Goto(to) == step' = to /\ job' = "none"
Run(kind) == step' = "begin" /\ job' = kind
Refuse == Goto("off")
Deciding == UNCHANGED <<files, manifest, stale, shadow, serving, left, budget, kept>>

InspectPair ==
    /\ step = "inspect" /\ Deciding
    /\ CASE Major("proxy") = -1 /\ Major("dashboard") = -1 -> Goto("fresh")
         [] Major("proxy") = 0 /\ Major("dashboard") = 0 ->
              IF Selected("local-pair", db) # {} THEN Run("rebuild") ELSE Refuse
         [] OTHER -> Goto("proxy_artifact")

Write(d, f) ==
    /\ db' = [db EXCEPT ![d] = f]
    /\ UNCHANGED <<spool, snap, reports, manifest, stale, shadow, serving, left, budget, kept>>

(* The file that is created now, the proxy's first.  Both files of a new    *)
(* pair are written, whether they exist or not; in a pair of which one has  *)
(* a version the other is created only if there is no such file.            *)
Unborn(d) == IF step = "fresh" THEN Major(d) = -1 ELSE step = "missing" /\ db[d] = None
Creating == IF Unborn("proxy") THEN {"proxy"} ELSE {d \in DB : Unborn(d)}

CreateFresh ==
    /\ step = "fresh"
    /\ \E d \in Creating :
         /\ Write(d, Empty(d, V1Tip[d]))
         /\ IF d = "proxy" THEN Goto("fresh") ELSE Run("v2")

UpgradeProxyArtifact ==
    /\ step = "proxy_artifact"
    /\ IF Major("proxy") = 0
       THEN Write("proxy", ProxyArtifact(db["proxy"])) /\ Goto("artifact_spool")
       ELSE Deciding /\ Goto("dashboard_artifact")

RemoveArtifactSpool ==
    /\ step = "artifact_spool" /\ Goto("dashboard_artifact")
    /\ spool' = {}
    /\ UNCHANGED <<db, snap, reports, manifest, stale, shadow, serving, left, budget, kept>>

UpgradeDashboardArtifact ==
    /\ step = "dashboard_artifact"
    /\ IF Major("dashboard") # 0 THEN Deciding /\ Goto("missing")
       ELSE IF Major("proxy") # -1 /\ Selected("dashboard-artifact", db) # {}
       THEN Write("dashboard", DashboardArtifact(db)) /\ Goto("missing")
       ELSE Deciding /\ Refuse

CreateMissingProxy ==                     \* mutant: forgets the dashboard
    /\ step = "missing"
    /\ \/ Unborn("proxy") /\ Write("proxy", Empty("proxy", V1Tip.proxy)) /\ Goto("missing")
       \/ ~Unborn("proxy") /\ Deciding /\ Goto("compare")

CreateMissing ==
    /\ step = "missing"
    /\ \/ \E d \in Creating : Write(d, Empty(d, V1Tip[d])) /\ Goto("missing")
       \/ Creating = {} /\ Deciding /\ Goto("compare")

ComparePair ==
    /\ step = "compare" /\ Deciding
    /\ LET majors == {Major(d) : d \in DB}
           pending == db["proxy"] # None /\ db["proxy"].pending
       IN  CASE majors = {1, 2} -> IF pending THEN Refuse ELSE Run("v2")
             [] majors = {2} -> IF PairAtTip THEN Goto("snapshot") ELSE Run("minor")
             [] majors = {1} -> IF pending THEN Refuse
                                ELSE IF Selected("local-pair", db) # {} THEN Run("copy")
                                ELSE Goto("in_place")
             [] OTHER -> Refuse

UpgradeInPlace ==
    /\ step = "in_place"
    /\ IF \E d \in DB : Older(db[d].ver, V1Tip[d])
       THEN LET d == IF Older(db["proxy"].ver, V1Tip.proxy) THEN "proxy" ELSE "dashboard"
            IN  Write(d, Sql(d, db[d], V1Tip[d])) /\ Goto("in_place")
       ELSE Deciding /\ Goto("snapshot")

UpgradeSnapshot ==
    /\ step = "snapshot"
    /\ snap' = IF snap = None THEN None
               ELSE CASE snap[1] = 1 -> Tip.proxy
                      [] snap[1] = 0 -> db["proxy"].ver
                      [] OTHER -> snap
    /\ IF \A d \in DB : Major(d) = 1 THEN Run("v2") ELSE Goto("done")
    /\ UNCHANGED <<db, spool, reports, manifest, stale, shadow, serving, left, budget, kept>>

Finish ==
    /\ step = "done" /\ Goto("off")
    /\ serving' = TRUE
    /\ UNCHANGED <<files, manifest, stale, shadow, left, budget, kept>>
-----------------------------------------------------------------------------
(* The runners of a pair share one protocol: manifest, backups, shadows, one  *)
(* file after the other, snapshot, and the spool of a rebuilt pair.          *)

WholeSet == job \in {"rebuild", "copy"}   \* these back up the spool and the snapshot too
Proceed(from, to) == step = from /\ step' = to /\ UNCHANGED job
Keep == UNCHANGED <<stale, serving, left, budget, kept>>

WriteManifest ==
    /\ Proceed("begin", "started") /\ Keep
    /\ UNCHANGED <<files, manifest, shadow>>

BackupDatabases ==                        \* mutant: a backup without the spool
    /\ Proceed("started", "backed_up") /\ Keep
    /\ manifest' = [open |-> TRUE, db |-> db, spool |-> spool, snap |-> snap, full |-> FALSE]
    /\ UNCHANGED <<files, shadow>>

BackupFiles ==
    /\ Proceed("started", "backed_up") /\ Keep
    /\ manifest' = [open |-> TRUE, db |-> db, spool |-> spool, snap |-> snap, full |-> WholeSet]
    /\ UNCHANGED <<files, shadow>>

(* Charges V2.2 cannot price leave the database; they are listed beside it.   *)
PendingReport(g) == g.unpriced

BuildShadows ==
    /\ Proceed("backed_up", "verified") /\ Keep
    /\ shadow' = CASE job = "rebuild" -> RebuildShadows(db)
                   [] job = "copy" -> CopyShadows(db)
                   [] OTHER -> TipShadows(db)
    /\ ShadowsVerified(job, db, shadow')     \* or the step raises
    /\ reports' = IF WholeSet THEN reports ELSE reports \cup PendingReport(db["dashboard"])
    /\ UNCHANGED <<db, spool, snap, manifest>>

Replace(d, from, to) ==
    /\ Proceed(from, to) /\ Keep
    /\ db' = [db EXCEPT ![d] = shadow[d]]
    /\ UNCHANGED <<spool, snap, reports, manifest, shadow>>
ReplaceProxy == Replace("proxy", "verified", "token_board_replaced")
ReplaceDashboard == Replace("dashboard", "token_board_replaced", "dashboard_replaced")

RefreshSnapshot ==                        \* mutant: a snapshot left at its own version
    /\ Proceed("dashboard_replaced", "snapshot_rebuilt") /\ Keep
    /\ snap' = IF job = "rebuild" THEN db["proxy"].ver ELSE snap
    /\ UNCHANGED <<db, spool, reports, manifest, shadow>>

RebuildSnapshot ==
    /\ Proceed("dashboard_replaced", "snapshot_rebuilt") /\ Keep
    /\ snap' = IF job \in {"rebuild", "v2"} \/ snap # None THEN db["proxy"].ver ELSE snap
    /\ UNCHANGED <<db, spool, reports, manifest, shadow>>

RemoveSpool ==
    /\ job = "rebuild"
    /\ Proceed("snapshot_rebuilt", "spool_removed") /\ Keep
    /\ spool' = {}
    /\ UNCHANGED <<db, snap, reports, manifest, shadow>>

CompletePair ==
    /\ step = IF job = "rebuild" THEN "spool_removed" ELSE "snapshot_rebuilt"
    /\ manifest' = [manifest EXCEPT !.open = FALSE]
    /\ shadow' = None
    /\ CASE job = "rebuild" -> Run("v2")
         [] job = "copy" -> Goto("snapshot")
         [] OTHER -> Goto("done")
    /\ UNCHANGED <<files>> /\ Keep

(* A file whose creation is cut short exists without a schema, or has only    *)
(* its first migration.                                                      *)
CutShort ==
    \/ UNCHANGED db
    \/ \E d \in Creating, version \in {NoVersion, <<1, 0>>} :
          db' = [db EXCEPT ![d] = Empty(d, version)]

(* A step raises.  Only the runner of a V0 or V1 pair recovers by itself.     *)
Fail ==
    /\ failures < MaxFailures /\ step \notin {"off", "recover", "done"}
    /\ failures' = failures + 1
    /\ shadow' = None
    /\ stale' = (stale \/ step = "started")
    /\ IF WholeSet
       THEN step' = "recover" /\ job' = "failed" /\ left' = ToRestore
       ELSE Goto("off") /\ UNCHANGED left
    /\ CutShort
    /\ UNCHANGED <<spool, snap, reports, manifest, serving, asked, crashes, kept>>

(* The machine stops.                                                       *)
Crash ==
    /\ crashes < MaxCrashes /\ step # "off"
    /\ crashes' = crashes + 1
    /\ CutShort
    /\ Goto("off")
    /\ shadow' = None /\ left' = <<>>
    /\ stale' = (stale \/ step = "started")
    /\ UNCHANGED <<spool, snap, reports, manifest, serving, asked, failures, kept>>

(* The enabled units start at boot, and start.sh starts them when it gives up; *)
(* the proxy takes any token-board database of exactly its own version.       *)
StartUnits ==
    /\ step = "off" /\ ~serving /\ At("proxy", Tip.proxy)
    /\ serving' = TRUE
    /\ UNCHANGED <<files, manifest, stale, shadow, job, step, left, budget, kept>>

(* A request is logged, in the database or first in the spool.                *)
Serve ==
    /\ asked < MaxRequests /\ serving
    /\ asked' = asked + 1
    /\ LET row == [id |-> 10 + asked, account |-> 1, identity |-> 1]
       IN  /\ \/ /\ db' = [db EXCEPT !["proxy"].requests = @ \cup {row}]
                 /\ UNCHANGED spool
              \/ /\ spool' = spool \cup {row}
                 /\ UNCHANGED db
           /\ kept' = IF Open THEN kept ELSE kept \cup {<<"request", row.id, Who(row)>>}
    /\ UNCHANGED <<snap, reports, manifest, stale, shadow, job, step, serving, left, crashes, failures>>
-----------------------------------------------------------------------------
Work == \/ StartCurrent \/ Begin \/ RestoreFile \/ RolledBack
        \/ InspectPair \/ CreateFresh \/ UpgradeProxyArtifact \/ RemoveArtifactSpool
        \/ UpgradeDashboardArtifact \/ CreateMissing \/ ComparePair \/ UpgradeInPlace
        \/ UpgradeSnapshot \/ Finish
        \/ WriteManifest \/ BackupFiles \/ BuildShadows \/ ReplaceProxy \/ ReplaceDashboard
        \/ RebuildSnapshot \/ RemoveSpool \/ CompletePair
Next == Work \/ Fail \/ Crash \/ StartUnits \/ Serve

Spec == Init /\ [][Next]_vars /\ WF_vars(Work)
-----------------------------------------------------------------------------
(* Nothing is lost: the requests, current prices, agent archives and charges  *)
(* an upgrade started from, the spooled requests included, and every request  *)
(* logged while no manifest was open, are at all times in the files in force   *)
(* (those a rollback would restore), each with the account it was made for.   *)
NothingLost ==
    kept \subseteq Facts(Visible["proxy"], Visible["dashboard"], VisibleSpool, reports)

(* An upgrade that ends well leaves a pair that is current on both sides, a    *)
(* snapshot of the same version, nothing to roll back, and an archive whose    *)
(* usage stands under the ids the token-board database gives the agents.      *)
DoneIsCurrent ==
    step = "done" =>
        /\ PairAtTip /\ snap \in {None, Tip.proxy} /\ ~Open
        /\ \A a \in db["dashboard"].archive : a[1] = AgentId[a[2]]
        /\ db["proxy"].softDeleted = {}

(* Once both databases are V1 or later, the files in force never change the    *)
(* major of one without the other: both reach the current version in one step, *)
(* whatever crashes and exceptions come in between.                          *)
MajorOf(f) == IF f = None THEN -1 ELSE f.ver[1]
MajorsMoveTogether ==
    [][(\A d \in DB : MajorOf(Visible[d]) >= 1)
         /\ (\E d \in DB : MajorOf(Visible[d]) # MajorOf(Visible'[d]))
       => \A d \in DB : Visible'[d].ver = Tip[d]]_vars

(* With finitely many crashes and exceptions, starting again whenever the      *)
(* services are not up on current databases brings them up for good, unless a  *)
(* Dashboard export of V1 is still pending, which the upgrade refuses, or a   *)
(* creation was cut short after the other database had a version: the file    *)
(* exists, so it is not created, and has no version, so it is not accepted    *)
(* (coordinator.py:487-495).                                                 *)
Blocked == db["proxy"] # None /\ db["proxy"].pending /\ db["proxy"].ver[1] = 1
Stillborn == \E d, e \in DB : db[d] # None /\ db[d].ver = NoVersion /\ Major(e) >= 0
EventuallyUp == <>[]Up \/ <>[]Blocked \/ <>[]Stillborn

(* Without the second exception a creation cut short violates it.            *)
AlwaysEventuallyUp == <>[]Up \/ <>[]Blocked
=============================================================================

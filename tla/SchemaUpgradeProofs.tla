--------------------------- MODULE SchemaUpgradeProofs ---------------------------
(***************************************************************************)
(* Machine-checked facts about SchemaUpgrade: nothing is lost, an upgrade  *)
(* that ends is current, and the files in force change their major         *)
(* together, for any agents and any number of crashes, exceptions and      *)
(* requests.                                                               *)
(***************************************************************************)
EXTENDS SchemaUpgrade, TLAPS

-----------------------------------------------------------------------------
(* The inductive invariant.                                                *)

(* Whom a request was made for follows from its id.                        *)
Maker(i) == IF i = 2 THEN 2 ELSE 1
Made == {r \in Rows : Who(r) = Maker(r.id)}
Ids(frames) == {r.id : r \in frames}

(* What a file holds of the facts.                                         *)
RequestIds(f) == IF f = None THEN {} ELSE Ids(f.requests)
Rates(f) == IF f = None THEN {} ELSE {p \in f.prices : p.current}
Users(g) == IF g = None THEN {} ELSE {a[2] : a \in g.archive}
Charges(g) == IF g = None THEN {} ELSE g.unpriced

(* Files the offline conversion still has to do are ones it takes; the     *)
(* others are as the current schema wants them.                            *)
InOrder(g) == \A a \in g.archive : a[1] = AgentId[a[2]]
Stored == {f \in Proxies : f.ver \in Releases /\ f.requests \subseteq Made}
StoredDashboards == {g \in Dashboards : g.ver \in Releases}
GoodProxies == {f \in Stored :
    /\ f.ver[1] = 0 => f.ver[2] <= 19 /\ "rebuild" \notin f.done
    /\ f.ver[1] >= 2 => f.softDeleted = {}}
GoodDashboards == {g \in StoredDashboards :
    g.ver[1] = 0 => /\ g.ver[2] <= 6 /\ "rebuild" \notin g.done
                    /\ g.unpriced = {} /\ InOrder(g)}
GoodPairs == [proxy : GoodProxies \cup {None}, dashboard : GoodDashboards \cup {None}]

(* A creation cut short may leave a file without anything in it.           *)
Blank(d) == Empty(d, NoVersion)
LivePairs == [proxy : GoodProxies \cup {None, Blank("proxy")},
              dashboard : GoodDashboards \cup {None, Blank("dashboard")}]

Complete2(pair) == pair.proxy # None /\ pair.dashboard # None
Ordered(pair) == pair.dashboard # None => InOrder(pair.dashboard)

(* An archive out of order is one the identity transition will be run on.  *)
Alignable(pair) ==
    \/ Ordered(pair)
    \/ /\ Complete2(pair)
       /\ pair.proxy.ver[1] = 1 /\ pair.dashboard.ver[1] = 1
       /\ "agent-identity" \notin pair.dashboard.done

(* A snapshot of an old minor of V2 belongs to a database of an old minor. *)
Fits(s, pair) ==
    s # None /\ s[1] \notin {0, 1} /\ s # Tip.proxy =>
        pair.proxy # None /\ pair.proxy.ver[1] = 2 /\ pair.proxy.ver # Tip.proxy

Majors(pair, S) == Complete2(pair) /\ pair.proxy.ver[1] \in S /\ pair.dashboard.ver[1] \in S
AtTip(pair) == Complete2(pair) /\ pair.proxy.ver = Tip.proxy /\ pair.dashboard.ver = Tip.dashboard

Kinds == {"rebuild", "copy", "v2", "minor"}
Deciders == {"inspect", "fresh", "proxy_artifact", "artifact_spool", "dashboard_artifact",
             "missing", "compare", "in_place", "snapshot", "done", "begin", "started"}
Late == {"verified", "token_board_replaced", "dashboard_replaced", "snapshot_rebuilt",
         "spool_removed"}

TypeOK ==
    /\ db \in LivePairs /\ spool \subseteq Made /\ snap \in Releases \cup {None}
    /\ manifest \in Manifests \cup {None}
    /\ manifest # None => manifest.db \in GoodPairs /\ manifest.spool \subseteq Made
    /\ step \in Deciders \cup Late \cup {"off", "recover", "backed_up"}
    /\ step \in Late \cup {"begin", "started", "backed_up"} => job \in Kinds
    /\ serving \in BOOLEAN /\ asked \in Nat
    /\ serving => step = "off" /\ db.proxy # None /\ db.proxy.ver = Tip.proxy

(* A pair a runner may take up.                                            *)
Source(pair) ==
    /\ Complete2(pair)
    /\ job = "rebuild" => Majors(pair, {0})
    /\ job = "copy" => Majors(pair, {1})
    /\ job \in {"v2", "minor"} => Majors(pair, {1, 2}) /\ Ordered(pair)

(* The manifest is open from the backup to the end.                        *)
Backed ==
    /\ step \in Deciders => ~Open
    /\ step \in Late \cup {"backed_up"} => /\ Open /\ manifest.full = WholeSet
                                           /\ Source(manifest.db)
                                           /\ step # "spool_removed" => spool = manifest.spool
    /\ step = "backed_up" => db = manifest.db

(* The shadows hold all facts, whichever files they have replaced.         *)
Shadowed ==
    step \in Late =>
        /\ shadow \in GoodPairs /\ Complete2(shadow) /\ InOrder(shadow.dashboard)
        /\ \A d \in DB : shadow[d].ver = IF WholeSet THEN V1Tip[d] ELSE Tip[d]
        /\ kept \subseteq Facts(shadow.proxy, shadow.dashboard,
                                IF job = "rebuild" THEN {} ELSE spool, reports)
        /\ step # "verified" => db.proxy = shadow.proxy
        /\ step \notin {"verified", "token_board_replaced"} => db.dashboard = shadow.dashboard
        /\ step \in {"snapshot_rebuilt", "spool_removed"} => snap \in {None, shadow.proxy.ver}
        /\ step = "spool_removed" => job = "rebuild"

(* What a recovery has still to copy back, of the four files or of two.    *)
All == <<"proxy", "dashboard", "spool", "snap">>
AfterProxy == <<"dashboard", "spool", "snap">>
AfterDashboard == <<"spool", "snap">>
AfterSpool == <<"snap">>
Both == <<"proxy", "dashboard">>
AfterFirst == <<"dashboard">>

(* A recovery has copied back what is no longer on its list.               *)
Recovering ==
    step = "recover" =>
        /\ ~Open => left = <<>>
        /\ Open => /\ left \in {<<>>, All, AfterProxy, AfterDashboard, AfterSpool, Both, AfterFirst}
                   /\ left \in {All, AfterProxy, AfterDashboard, AfterSpool} => manifest.full
                   /\ left \in {Both, AfterFirst} => ~manifest.full
                   /\ left \notin {All, Both} => db.proxy = manifest.db.proxy
                   /\ left \in {<<>>, AfterDashboard, AfterSpool} =>
                          db.dashboard = manifest.db.dashboard
                   /\ left \in {<<>>, AfterSpool} /\ manifest.full => spool = manifest.spool

(* What the decisions in between rest on.                                  *)
Decided ==
    /\ step = "fresh" => /\ db.dashboard \in {None, Blank("dashboard")}
                         /\ db.proxy \in {None, Blank("proxy")} \/ db.proxy.ver[1] = 1
    /\ step = "artifact_spool" => db.proxy # None /\ Ids(spool) \subseteq Ids(db.proxy.requests)
    /\ step = "in_place" => Majors(db, {1}) /\ Ordered(db)
    /\ step = "snapshot" => (AtTip(db) \/ Majors(db, {1})) /\ Ordered(db)
    /\ step = "done" => AtTip(db) /\ Ordered(db) /\ snap \in {None, Tip.proxy}
    /\ step \in {"begin", "started"} => Source(db)

InForce ==
    /\ Alignable(Visible) /\ Fits(snap, Visible)
    /\ Open /\ manifest.full => Fits(manifest.snap, manifest.db)

Inv == TypeOK /\ Backed /\ Shadowed /\ Recovering /\ Decided /\ InForce /\ NothingLost

-----------------------------------------------------------------------------
(* Files.                                                                  *)

LEMMA MakerIs == \A i \in Nat : Maker(i) \in Nat /\ Maker(i) # None
  BY NoneAssumption DEF Maker

(* Writing down the identity of a request changes neither its id nor its   *)
(* maker, and its account may go then.                                     *)
LEMMA RowKept ==
  ASSUME NEW r \in Made
  PROVE  /\ [r EXCEPT !.identity = Who(r)] \in Made
         /\ [r EXCEPT !.identity = Who(r)].id = r.id
         /\ [r EXCEPT !.identity = Who(r), !.account = None] \in Made
         /\ [r EXCEPT !.identity = Who(r), !.account = None].id = r.id
  <1>1. r \in Rows /\ r.id \in Nat /\ Who(r) \in Nat /\ Who(r) # None /\ Who(r) = Maker(r.id)
    BY MakerIs DEF Made, Rows
  <1> DEFINE n == Who(r)
             s == [r EXCEPT !.identity = n]
             t == [r EXCEPT !.identity = n, !.account = None]
  <1>2. /\ s \in Rows /\ s.id = r.id /\ s.identity = n
        /\ t \in Rows /\ t.id = r.id /\ t.identity = n
    <2> HIDE DEF n
    <2>1. n \in Nat
      BY <1>1 DEF n
    <2> QED BY <1>1, <2>1 DEF Rows
  <1>3. Who(s) = n /\ Who(t) = n
    BY <1>1, <1>2 DEF Who
  <1> QED BY <1>1, <1>2, <1>3 DEF Made

(* The parts of a file an upgrade may change.                              *)
LEMMA PurgeKeeps ==
  ASSUME NEW f \in Stored
  PROVE  LET g == PurgeSoftDeleted(f)
         IN  /\ g \in Stored /\ Ids(g.requests) = Ids(f.requests)
             /\ g.prices = f.prices /\ g.done = f.done /\ g.ver = f.ver /\ g.softDeleted = {}
             /\ g.pending = f.pending
  <1> DEFINE G(r) == IF r.account \in f.softDeleted
                     THEN [r EXCEPT !.identity = Who(r), !.account = None] ELSE r
             R == {G(r) : r \in f.requests}
             g == [f EXCEPT !.softDeleted = {}, !.requests = R]
  <1>1. f \in Proxies /\ f.requests \subseteq Made
    BY DEF Stored
  <1>2. \A r \in f.requests : G(r) \in Made /\ G(r).id = r.id
    BY <1>1, RowKept
  <1>3. R \subseteq Made /\ Ids(R) = Ids(f.requests)
    <2> HIDE DEF G
    <2> QED BY <1>2 DEF Ids
  <1>4. R \in SUBSET Rows
    BY <1>3 DEF Made
  <1>5. PurgeSoftDeleted(f) = g
    BY DEF PurgeSoftDeleted
  <1>6. /\ g \in Proxies /\ g.requests = R /\ g.prices = f.prices /\ g.done = f.done
        /\ g.ver = f.ver /\ g.softDeleted = {} /\ g.pending = f.pending
    <2> HIDE DEF R
    <2> QED BY <1>1, <1>4 DEF Stored, Proxies
  <1> HIDE DEF g, R
  <1> QED BY <1>3, <1>5, <1>6 DEF Stored

LEMMA MigratedProxy ==
  ASSUME NEW f \in Stored, NEW t \in Releases
  PROVE  LET g == Migrated("proxy", f, t)
         IN  /\ g \in Stored /\ Ids(g.requests) = Ids(f.requests)
             /\ {p \in f.prices : p.current} \subseteq g.prices
             /\ g.done = f.done /\ g.ver = t /\ g.softDeleted = f.softDeleted
             /\ g.pending = f.pending
  <1> DEFINE P == IF Crosses(f.ver, t, <<1, 14>>) THEN {p \in f.prices : p.current} ELSE f.prices
             R == IF Crosses(f.ver, t, <<1, 16>>)
                  THEN {[r EXCEPT !.identity = Who(r)] : r \in f.requests} ELSE f.requests
             g == [f EXCEPT !.ver = t, !.prices = P, !.requests = R]
  <1>1. f \in Proxies /\ f.requests \subseteq Made
    BY DEF Stored
  <1>2. R \subseteq Made /\ Ids(R) = Ids(f.requests)
    <2>1. \A r \in f.requests : /\ [r EXCEPT !.identity = Who(r)] \in Made
                                /\ [r EXCEPT !.identity = Who(r)].id = r.id
      BY <1>1, RowKept
    <2> QED BY <1>1, <2>1 DEF Ids
  <1>3. P \in SUBSET Prices /\ {p \in f.prices : p.current} \subseteq P
    BY <1>1 DEF Stored, Proxies
  <1>4. R \in SUBSET Rows
    BY <1>2 DEF Made
  <1>5. Migrated("proxy", f, t) = g
    BY DEF Migrated
  <1>6. /\ g \in Proxies /\ g.requests = R /\ g.prices = P /\ g.done = f.done
        /\ g.ver = t /\ g.softDeleted = f.softDeleted /\ g.pending = f.pending
    <2> HIDE DEF P, R
    <2> QED BY <1>1, <1>3, <1>4 DEF Stored, Proxies, Versions
  <1> HIDE DEF g, R, P
  <1> QED BY <1>2, <1>3, <1>5, <1>6 DEF Stored

(* SQL migrations of a token-board file.                                   *)
LEMMA SqlProxy ==
  ASSUME NEW f \in Stored, NEW t \in Releases
  PROVE  LET g == Sql("proxy", f, t)
         IN  /\ g \in Stored /\ Ids(g.requests) = Ids(f.requests)
             /\ {p \in f.prices : p.current} \subseteq g.prices
             /\ g.done = f.done /\ g.pending = f.pending
             /\ g.ver = IF Older(f.ver, t) THEN t ELSE f.ver
             /\ f.softDeleted = {} => g.softDeleted = {}
             /\ f.ver[1] < 2 /\ t[1] >= 2 => g.softDeleted = {}
  <1> DEFINE m == Migrated("proxy", f, t)
  <1>1. f # None /\ f \in Proxies /\ f.ver \in Releases
    BY NoneAssumption DEF Stored, Proxies
  <1>2. CASE ~ Older(f.ver, t)
    <2>1. Sql("proxy", f, t) = f
      BY <1>2 DEF Sql
    <2>2. ~ (f.ver[1] < 2 /\ t[1] >= 2)
      BY <1>1, <1>2 DEF Older, Releases
    <2> QED BY <1>2, <2>1, <2>2
  <1>3. CASE Older(f.ver, t) /\ Crosses(f.ver, t, <<2, 0>>)
    <2>1. Sql("proxy", f, t) = PurgeSoftDeleted(m)
      BY <1>1, <1>3 DEF Sql
    <2> HIDE DEF m
    <2>2. /\ m \in Stored /\ Ids(m.requests) = Ids(f.requests)
          /\ {p \in f.prices : p.current} \subseteq m.prices
          /\ m.done = f.done /\ m.ver = t /\ m.pending = f.pending
      BY MigratedProxy DEF m
    <2> QED BY <1>3, <2>1, <2>2, PurgeKeeps
  <1>4. CASE Older(f.ver, t) /\ ~ Crosses(f.ver, t, <<2, 0>>)
    <2>1. Sql("proxy", f, t) = m
      BY <1>1, <1>4 DEF Sql
    <2>2. ~ (f.ver[1] < 2 /\ t[1] >= 2)
      BY <1>1, <1>4 DEF Older, Crosses, Releases
    <2> QED BY <1>4, <2>1, <2>2, MigratedProxy
  <1> QED BY <1>2, <1>3, <1>4

(* SQL migrations of a dashboard file.                                     *)
LEMMA SqlDashboard ==
  ASSUME NEW g \in StoredDashboards, NEW t \in Releases
  PROVE  LET h == Sql("dashboard", g, t)
         IN  /\ h \in StoredDashboards /\ h.archive = g.archive /\ h.done = g.done
             /\ h.unpriced \subseteq g.unpriced
             /\ t[1] < 2 => h.unpriced = g.unpriced
             /\ h.ver = IF Older(g.ver, t) THEN t ELSE g.ver
  <1> DEFINE U == IF Crosses(g.ver, t, <<2, 2>>) THEN {} ELSE g.unpriced
             h == [g EXCEPT !.ver = t, !.unpriced = U]
  <1>1. g # None /\ g.ver \in Releases
    BY NoneAssumption DEF StoredDashboards, Dashboards
  <1>2. CASE ~ Older(g.ver, t)
    <2>1. Sql("dashboard", g, t) = g
      BY <1>2 DEF Sql
    <2> QED BY <1>2, <2>1
  <1>3. CASE Older(g.ver, t)
    <2>1. Sql("dashboard", g, t) = h
      BY <1>1, <1>3 DEF Sql, Migrated
    <2>2. U \in SUBSET {"charge"} /\ U \subseteq g.unpriced /\ (t[1] < 2 => U = g.unpriced)
      BY <1>1 DEF StoredDashboards, Dashboards, Crosses, Older, Releases
    <2>3. /\ h \in StoredDashboards /\ h.archive = g.archive /\ h.done = g.done
          /\ h.unpriced = U /\ h.ver = t
      <3> HIDE DEF U
      <3> QED BY <2>2 DEF StoredDashboards, Dashboards, Versions
    <2> HIDE DEF h, U
    <2> QED BY <1>3, <2>1, <2>2, <2>3
  <1> QED BY <1>2, <1>3

(* What one file keeps of another.                                         *)
ProxyGrows(f, g) ==
    /\ g = None <=> f = None
    /\ RequestIds(f) \subseteq RequestIds(g) /\ Rates(f) \subseteq Rates(g)
DashboardGrows(f, g) ==
    /\ g = None <=> f = None
    /\ Users(f) \subseteq Users(g) /\ Charges(f) \subseteq Charges(g)
    /\ f # None /\ InOrder(f) => InOrder(g)

LEMMA GoodFiles ==
  /\ \A f \in GoodProxies : f \in Stored /\ f \in Proxies /\ f # None /\ f.ver \in Releases
  /\ \A g \in GoodDashboards : g \in StoredDashboards /\ g # None /\ g.ver \in Releases
  BY NoneAssumption DEF GoodProxies, GoodDashboards, Stored, Proxies, StoredDashboards, Dashboards

LEMMA SqlGoodProxy ==
  ASSUME NEW f \in GoodProxies \cup {None},
         NEW t \in Releases, t[1] = 0 => t[2] <= 19
  PROVE  LET g == Sql("proxy", f, t)
         IN  /\ g \in GoodProxies \cup {None} /\ ProxyGrows(f, g)
             /\ f # None => /\ g.done = f.done
                            /\ g.ver = IF Older(f.ver, t) THEN t ELSE f.ver
                            /\ t[1] >= 1 => g.ver[1] >= 1
                            /\ t[1] = 0 => g.ver[1] = f.ver[1]
  <1> DEFINE g == Sql("proxy", f, t)
  <1>1. CASE f = None
    <2>1. g = None
      BY <1>1 DEF Sql
    <2> QED BY <1>1, <2>1 DEF ProxyGrows, RequestIds, Rates
  <1>2. CASE f # None
    <2>1. f \in GoodProxies /\ f \in Stored /\ f \in Proxies /\ f.ver \in Releases
      BY <1>2, GoodFiles
    <2>2. /\ g \in Stored /\ Ids(g.requests) = Ids(f.requests)
          /\ {p \in f.prices : p.current} \subseteq g.prices
          /\ g.done = f.done
          /\ g.ver = IF Older(f.ver, t) THEN t ELSE f.ver
          /\ f.softDeleted = {} => g.softDeleted = {}
          /\ f.ver[1] < 2 /\ t[1] >= 2 => g.softDeleted = {}
      BY <2>1, SqlProxy
    <2> HIDE DEF g
    <2>3. g # None /\ g \in Proxies
      BY <2>2, NoneAssumption DEF Stored
    <2>4. g.ver[1] >= 2 => g.softDeleted = {}
      <3>1. CASE Older(f.ver, t)
        BY <2>1, <2>2, <3>1 DEF GoodProxies, Releases
      <3>2. CASE ~ Older(f.ver, t)
        BY <2>1, <2>2, <3>2 DEF GoodProxies, Releases
      <3> QED BY <3>1, <3>2
    <2>5. /\ g.ver[1] = 0 => g.ver[2] <= 19 /\ "rebuild" \notin g.done
          /\ t[1] >= 1 => g.ver[1] >= 1
          /\ t[1] = 0 => g.ver[1] = f.ver[1]
      BY <2>1, <2>2 DEF GoodProxies, Older, Releases
    <2>6. g \in GoodProxies
      BY <2>2, <2>4, <2>5 DEF GoodProxies
    <2>7. ProxyGrows(f, g)
      BY <1>2, <2>2, <2>3 DEF ProxyGrows, RequestIds, Rates
    <2> QED BY <2>2, <2>5, <2>6, <2>7 DEF g
  <1> QED BY <1>1, <1>2

LEMMA SqlGoodDashboard ==
  ASSUME NEW f \in GoodDashboards \cup {None},
         NEW t \in Releases, t[1] < 2, t[1] = 0 => t[2] <= 6
  PROVE  LET g == Sql("dashboard", f, t)
         IN  /\ g \in GoodDashboards \cup {None} /\ DashboardGrows(f, g)
             /\ f # None => /\ g.done = f.done
                            /\ g.ver = IF Older(f.ver, t) THEN t ELSE f.ver
                            /\ t[1] >= 1 => g.ver[1] >= 1
                            /\ t[1] = 0 => g.ver[1] = f.ver[1]
  <1> DEFINE g == Sql("dashboard", f, t)
  <1>1. CASE f = None
    <2>1. g = None
      BY <1>1 DEF Sql
    <2> QED BY <1>1, <2>1 DEF DashboardGrows, Users, Charges
  <1>2. CASE f # None
    <2>1. f \in GoodDashboards /\ f \in StoredDashboards /\ f.ver \in Releases
      BY <1>2, GoodFiles
    <2>2. /\ g \in StoredDashboards /\ g.archive = f.archive /\ g.done = f.done
          /\ g.unpriced = f.unpriced
          /\ g.ver = IF Older(f.ver, t) THEN t ELSE f.ver
      BY <2>1, SqlDashboard
    <2> HIDE DEF g
    <2>3. g # None
      BY <2>2, NoneAssumption DEF StoredDashboards
    <2>4. InOrder(f) <=> InOrder(g)
      BY <2>2 DEF InOrder
    <2>5. /\ g.ver[1] = 0 => f.ver[1] = 0 /\ g.ver[2] <= 6
          /\ t[1] >= 1 => g.ver[1] >= 1
          /\ t[1] = 0 => g.ver[1] = f.ver[1]
      BY <2>1, <2>2 DEF GoodDashboards, Older, Releases
    <2>6. g \in GoodDashboards
      BY <2>1, <2>2, <2>4, <2>5 DEF GoodDashboards
    <2>7. DashboardGrows(f, g)
      BY <1>2, <2>2, <2>3, <2>4 DEF DashboardGrows, Users, Charges
    <2> QED BY <2>2, <2>5, <2>6, <2>7 DEF g
  <1> QED BY <1>1, <1>2

(* Renumbering through temporary ids keeps every agent's usage, and an     *)
(* archive in order stays in order.                                        *)
LEMMA AlignKeeps ==
  ASSUME NEW g \in StoredDashboards
  PROVE  LET h == AlignAgents(g)
         IN  /\ h \in StoredDashboards /\ h.ver = g.ver /\ h.done = g.done /\ h.unpriced = g.unpriced
             /\ {a[2] : a \in h.archive} = {a[2] : a \in g.archive}
             /\ InOrder(g) => InOrder(h)
  <1> DEFINE A == g.archive
             temp == Temporary(A)
             B == Renumber(A, temp)
             By == [t \in {-a[1] : a \in A} |->
                       AgentId[(CHOOSE a \in A : a[1] = -t)[2]]]
             C == Renumber(B, By)
             Pick(a) == CHOOSE x \in A : x[1] = -(-a[1])
  <1>1. A \in SUBSET (Nat \X Agents)
    BY DEF StoredDashboards, Dashboards
  <1>2. AlignAgents(g) = [g EXCEPT !.archive = C]
    BY DEF AlignAgents
  <1>3. \A a \in A : /\ a[1] \in Nat /\ a[2] \in Agents /\ a = <<a[1], a[2]>>
                     /\ Pick(a) \in A /\ Pick(a)[1] = a[1]
    <2> SUFFICES ASSUME NEW a \in A
                 PROVE  /\ a[1] \in Nat /\ a[2] \in Agents /\ a = <<a[1], a[2]>>
                        /\ Pick(a) \in A /\ Pick(a)[1] = a[1]
      OBVIOUS
    <2>1. a[1] \in Nat /\ a[2] \in Agents /\ a = <<a[1], a[2]>>
      BY <1>1
    <2>2. -(-a[1]) = a[1]
      BY <2>1
    <2>3. \E x \in A : x[1] = -(-a[1])
      BY <2>2
    <2> QED BY <2>1, <2>2, <2>3
  <1>4. B = {<<-a[1], a[2]>> : a \in A}
    <2>1. \A a \in A : a[1] \in DOMAIN temp /\ temp[a[1]] = -a[1]
      BY DEF Temporary
    <2> HIDE DEF temp
    <2>2. \A a \in A : <<IF a[1] \in DOMAIN temp THEN temp[a[1]] ELSE a[1], a[2]>> = <<-a[1], a[2]>>
      BY <2>1
    <2> QED BY <2>2 DEF Renumber
  <1>5. C = {<<AgentId[Pick(a)[2]], a[2]>> : a \in A}
    <2> DEFINE New(b) == <<IF b[1] \in DOMAIN By THEN By[b[1]] ELSE b[1], b[2]>>
    <2>1. \A a \in A : -a[1] \in DOMAIN By /\ By[-a[1]] = AgentId[Pick(a)[2]]
      OBVIOUS
    <2>2. \A a \in A : New(<<-a[1], a[2]>>) = <<AgentId[Pick(a)[2]], a[2]>>
      <3> HIDE DEF By, Pick
      <3> QED BY <2>1
    <2>3. C = {New(b) : b \in B}
      <3> HIDE DEF By, B
      <3> QED BY DEF Renumber
    <2> HIDE DEF New, C, B, Pick
    <2> QED BY <1>4, <2>2, <2>3
  <1>6. \A a \in A : AgentId[Pick(a)[2]] \in Nat
    <2> HIDE DEF Pick
    <2> QED BY <1>3, SchemaConstants
  <1>7. C \in SUBSET (Nat \X Agents) /\ {c[2] : c \in C} = {a[2] : a \in A}
    <2> DEFINE N(a) == AgentId[Pick(a)[2]]
    <2>1. C = {<<N(a), a[2]>> : a \in A} /\ \A a \in A : N(a) \in Nat
      BY <1>5, <1>6
    <2>2. \A a \in A : <<N(a), a[2]>>[2] = a[2] /\ <<N(a), a[2]>> \in Nat \X Agents
      <3> HIDE DEF N
      <3> QED BY <1>3, <2>1
    <2> HIDE DEF C, N
    <2> QED BY <2>1, <2>2
  <1>8. ASSUME InOrder(g) PROVE \A c \in C : c[1] = AgentId[c[2]]
    <2>1. \A a \in A : Pick(a)[2] = a[2]
      <3> HIDE DEF Pick
      <3> QED BY <1>3, <1>8, SchemaConstants DEF InOrder
    <2> HIDE DEF C, Pick
    <2> QED BY <1>5, <2>1
  <1> HIDE DEF C, A
  <1>9. LET h == [g EXCEPT !.archive = C]
        IN  /\ h \in StoredDashboards /\ h.ver = g.ver /\ h.done = g.done /\ h.unpriced = g.unpriced
            /\ h.archive = C
    BY <1>7 DEF StoredDashboards, Dashboards
  <1> QED BY <1>2, <1>7, <1>8, <1>9 DEF InOrder, A

-----------------------------------------------------------------------------
(* Pairs.                                                                  *)

(* The pairs that hold all facts of p, and the requests I.                 *)
Grown(p, I) == {q \in GoodPairs : /\ ProxyGrows(p.proxy, q.proxy)
                                  /\ DashboardGrows(p.dashboard, q.dashboard)
                                  /\ I \subseteq RequestIds(q.proxy)}

LEMMA GrowsMore ==
  ASSUME NEW p \in GoodPairs, NEW I, NEW q \in Grown(p, I), NEW x \in GoodPairs,
         ProxyGrows(q.proxy, x.proxy), DashboardGrows(q.dashboard, x.dashboard)
  PROVE  x \in Grown(p, I)
  BY DEF Grown, ProxyGrows, DashboardGrows, GoodPairs

LEMMA GrownSelf ==
  ASSUME NEW p \in GoodPairs
  PROVE  p \in Grown(p, {})
  BY DEF Grown, ProxyGrows, DashboardGrows, GoodPairs

LEMMA Unchanged ==
  /\ \A f : ProxyGrows(f, f)
  /\ \A g : DashboardGrows(g, g)
  BY DEF ProxyGrows, DashboardGrows

(* What the routes declare.                                                *)
LEMMA RoutesAre ==
  ASSUME NEW r \in Routes
  PROVE  /\ r.id \in RouteIds
         /\ r.order \in 0..4 /\ (r.order = 0 <=> r.id = "rebuild")
         /\ "proxy" \in DOMAIN r.prepare =>
              LET t == r.prepare["proxy"]
              IN  t \in Releases /\ t[1] < 2 /\ (t[1] = 0 => t[2] <= 19)
         /\ "dashboard" \in DOMAIN r.prepare =>
              LET t == r.prepare["dashboard"]
              IN  t \in Releases /\ t[1] < 2 /\ (t[1] = 0 => t[2] <= 6)
         /\ r.id = "rebuild" /\ "proxy" \in DOMAIN r.prepare => r.prepare["proxy"][1] = 0
         /\ r.id \in {"agent-identity", "hard-delete"} => DOMAIN r.current = DB
         /\ r.id = "pricing" => "proxy" \in DOMAIN r.current
  BY DEF Routes, Route, RouteIds, Same, Releases, Within, V1Any, DB

(* The pair a route's own SQL prepares.                                    *)
LEMMA PreparedGrows ==
  ASSUME NEW r \in Routes, NEW q \in GoodPairs
  PROVE  LET x == Prepared(r, q)
         IN  /\ x \in GoodPairs
             /\ ProxyGrows(q.proxy, x.proxy) /\ DashboardGrows(q.dashboard, x.dashboard)
             /\ r.id = "rebuild" /\ IsV0(q.proxy) => IsV0(x.proxy)
  <1> DEFINE x == Prepared(r, q)
             f == IF "proxy" \in DOMAIN r.prepare THEN Sql("proxy", q.proxy, r.prepare["proxy"])
                  ELSE q.proxy
             g == IF "dashboard" \in DOMAIN r.prepare
                  THEN Sql("dashboard", q.dashboard, r.prepare["dashboard"]) ELSE q.dashboard
  <1>1. x = [proxy |-> f, dashboard |-> g]
    BY DEF Prepared
  <1>2. q.proxy \in GoodProxies \cup {None} /\ q.dashboard \in GoodDashboards \cup {None}
    BY DEF GoodPairs
  <1>3. /\ f \in GoodProxies \cup {None} /\ ProxyGrows(q.proxy, f)
        /\ r.id = "rebuild" /\ IsV0(q.proxy) => IsV0(f)
    <2>1. CASE "proxy" \in DOMAIN r.prepare
      <3> DEFINE t == r.prepare["proxy"]
      <3>1. t \in Releases /\ t[1] < 2 /\ (t[1] = 0 => t[2] <= 19) /\ (r.id = "rebuild" => t[1] = 0)
        BY <2>1, RoutesAre
      <3>2. f = Sql("proxy", q.proxy, t)
        BY <2>1
      <3> HIDE DEF t, f
      <3>3. f \in GoodProxies \cup {None} /\ ProxyGrows(q.proxy, f)
        BY <1>2, <3>1, <3>2, SqlGoodProxy
      <3>4. ASSUME r.id = "rebuild", IsV0(q.proxy) PROVE IsV0(f)
        <4>1. f.ver[1] = 0
          BY <1>2, <3>1, <3>2, <3>4, SqlGoodProxy DEF IsV0
        <4>2. f # None
          BY <3>3, <3>4 DEF ProxyGrows, IsV0
        <4> QED BY <4>1, <4>2 DEF IsV0
      <3> QED BY <3>3, <3>4
    <2>2. CASE "proxy" \notin DOMAIN r.prepare
      BY <1>2, <2>2, Unchanged
    <2> QED BY <2>1, <2>2
  <1>4. g \in GoodDashboards \cup {None} /\ DashboardGrows(q.dashboard, g)
    <2>1. CASE "dashboard" \in DOMAIN r.prepare
      <3> DEFINE t == r.prepare["dashboard"]
      <3>1. t \in Releases /\ t[1] < 2 /\ (t[1] = 0 => t[2] <= 6)
        BY <2>1, RoutesAre
      <3>2. g = Sql("dashboard", q.dashboard, t)
        BY <2>1
      <3> HIDE DEF t, g
      <3> QED BY <1>2, <3>1, <3>2, SqlGoodDashboard
    <2>2. CASE "dashboard" \notin DOMAIN r.prepare
      BY <1>2, <2>2, Unchanged
    <2> QED BY <2>1, <2>2
  <1> HIDE DEF f, g, x
  <1>5. x \in GoodPairs /\ x.proxy = f /\ x.dashboard = g
    BY <1>1, <1>3, <1>4 DEF GoodPairs
  <1> QED BY <1>3, <1>4, <1>5 DEF x

(* The conversion of a V0 file takes the spool in.                         *)
LEMMA TransformProxyGrows ==
  ASSUME NEW f \in GoodProxies, NEW frames \in SUBSET Made
  PROVE  LET g == TransformProxy(f, frames)
         IN  g \in GoodProxies /\ ProxyGrows(f, g) /\ Ids(frames) \subseteq RequestIds(g)
  <1> DEFINE R == SpoolRequests(f, frames)
             g == [f EXCEPT !.ver = Landing.proxy, !.requests = R]
  <1>1. f \in Proxies /\ f # None /\ f.requests \subseteq Made
    BY GoodFiles DEF Stored
  <1>2. R \subseteq Made /\ Ids(f.requests) \subseteq Ids(R) /\ Ids(frames) \subseteq Ids(R)
    BY <1>1 DEF SpoolRequests, Ids
  <1>3. R \in SUBSET Rows /\ Landing.proxy \in Releases /\ Landing.proxy = <<1, 13>>
    BY <1>2 DEF Made, Landing, Releases
  <1>4. TransformProxy(f, frames) = g
    BY DEF TransformProxy
  <1>5. g \in Proxies /\ g.ver = <<1, 13>> /\ g.requests = R /\ g.prices = f.prices
    <2> HIDE DEF R
    <2> QED BY <1>1, <1>3 DEF Stored, Proxies, Versions
  <1> HIDE DEF g, R
  <1>6. g \in GoodProxies
    BY <1>2, <1>3, <1>5 DEF GoodProxies, Stored
  <1>7. g # None
    BY <1>6, GoodFiles
  <1> QED BY <1>1, <1>2, <1>4, <1>5, <1>6, <1>7 DEF ProxyGrows, RequestIds, Rates

LEMMA TransformDashboardGrows ==
  ASSUME NEW f \in GoodDashboards
  PROVE  LET g == TransformDashboard(f)
         IN  g \in GoodDashboards /\ DashboardGrows(f, g)
  <1> DEFINE g == [f EXCEPT !.ver = Landing.dashboard]
  <1>1. f \in StoredDashboards /\ f # None
    BY GoodFiles
  <1>2. TransformDashboard(f) = g
    BY DEF TransformDashboard
  <1>3. /\ g \in StoredDashboards /\ g.ver = <<1, 7>> /\ g.archive = f.archive
        /\ g.unpriced = f.unpriced
    BY <1>1 DEF StoredDashboards, Dashboards, Releases, Versions, Landing
  <1> HIDE DEF g
  <1>4. g \in GoodDashboards
    BY <1>3 DEF GoodDashboards
  <1>5. g # None
    BY <1>4, GoodFiles
  <1> QED BY <1>1, <1>2, <1>3, <1>4, <1>5 DEF DashboardGrows, Users, Charges, InOrder

LEMMA AlignGrows ==
  ASSUME NEW f \in GoodDashboards
  PROVE  LET g == AlignAgents(f)
         IN  g \in GoodDashboards /\ DashboardGrows(f, g)
  <1> DEFINE g == AlignAgents(f)
  <1>1. f \in StoredDashboards /\ f # None
    BY GoodFiles
  <1>2. /\ g \in StoredDashboards /\ g.ver = f.ver /\ g.done = f.done /\ g.unpriced = f.unpriced
        /\ {a[2] : a \in g.archive} = {a[2] : a \in f.archive}
        /\ InOrder(f) => InOrder(g)
    BY <1>1, AlignKeeps
  <1> HIDE DEF g
  <1>3. g \in GoodDashboards
    BY <1>2 DEF GoodDashboards
  <1>4. g # None
    BY <1>3, GoodFiles
  <1>5. DashboardGrows(f, g)
    BY <1>1, <1>2, <1>4 DEF DashboardGrows, Users, Charges
  <1> QED BY <1>3, <1>5 DEF g

LEMMA FlattenGrows ==
  ASSUME NEW f \in GoodProxies
  PROVE  LET g == FlattenPrices(f)
         IN  g \in GoodProxies /\ ProxyGrows(f, g)
  <1> DEFINE P == {p \in f.prices : p.current}
             g == [f EXCEPT !.prices = P]
  <1>1. f \in Proxies /\ f # None /\ P \in SUBSET Prices
    BY GoodFiles DEF Stored, Proxies
  <1>2. FlattenPrices(f) = g
    BY DEF FlattenPrices
  <1>3. /\ g \in Proxies /\ g.ver = f.ver /\ g.done = f.done /\ g.requests = f.requests
        /\ g.softDeleted = f.softDeleted /\ g.prices = P
    <2> HIDE DEF P
    <2> QED BY <1>1 DEF Stored, Proxies
  <1> HIDE DEF g
  <1>4. g \in GoodProxies
    BY <1>3 DEF GoodProxies, Stored
  <1>5. g # None
    BY <1>4, GoodFiles
  <1> QED BY <1>1, <1>2, <1>3, <1>4, <1>5 DEF ProxyGrows, RequestIds, Rates

LEMMA PurgeGrows ==
  ASSUME NEW f \in GoodProxies
  PROVE  LET g == PurgeSoftDeleted(f)
         IN  g \in GoodProxies /\ ProxyGrows(f, g)
  <1> DEFINE g == PurgeSoftDeleted(f)
  <1>1. f \in Stored /\ f # None
    BY GoodFiles
  <1>2. /\ g \in Stored /\ Ids(g.requests) = Ids(f.requests)
        /\ g.prices = f.prices /\ g.done = f.done /\ g.ver = f.ver /\ g.softDeleted = {}
    BY <1>1, PurgeKeeps
  <1> HIDE DEF g
  <1>3. g \in GoodProxies
    BY <1>2 DEF GoodProxies
  <1>4. g # None
    BY <1>3, GoodFiles
  <1>5. ProxyGrows(f, g)
    BY <1>1, <1>2, <1>4 DEF ProxyGrows, RequestIds, Rates
  <1> QED BY <1>3, <1>5 DEF g

(* What a route does to a pair it applies to.                              *)
Applies(r, q) ==
    /\ r.id \in {"agent-identity", "hard-delete"} => Complete2(q)
    /\ r.id = "pricing" => q.proxy # None

LEMMA TransformedGrows ==
  ASSUME NEW r \in Routes, NEW q \in GoodPairs, Applies(r, q), spool \subseteq Made
  PROVE  LET x == Transformed(r, q)
         IN  /\ x \in GoodPairs
             /\ ProxyGrows(q.proxy, x.proxy) /\ DashboardGrows(q.dashboard, x.dashboard)
             /\ r.id = "rebuild" /\ IsV0(q.proxy) => Ids(spool) \subseteq RequestIds(x.proxy)
  <1> DEFINE x == Transformed(r, q)
  <1>1. /\ q.proxy \in GoodProxies \cup {None} /\ q.dashboard \in GoodDashboards \cup {None}
        /\ q = [proxy |-> q.proxy, dashboard |-> q.dashboard]
    BY DEF GoodPairs
  <1>2. CASE r.id = "rebuild"
    <2> DEFINE f == IF IsV0(q.proxy) THEN TransformProxy(q.proxy, spool) ELSE q.proxy
               g == IF IsV0(q.dashboard) THEN TransformDashboard(q.dashboard) ELSE q.dashboard
    <2>1. x = [proxy |-> f, dashboard |-> g]
      BY <1>2 DEF Transformed
    <2>2. /\ f \in GoodProxies \cup {None} /\ ProxyGrows(q.proxy, f)
          /\ IsV0(q.proxy) => Ids(spool) \subseteq RequestIds(f)
      BY <1>1, TransformProxyGrows, Unchanged DEF IsV0
    <2>3. g \in GoodDashboards \cup {None} /\ DashboardGrows(q.dashboard, g)
      BY <1>1, TransformDashboardGrows, Unchanged DEF IsV0
    <2> HIDE DEF x, f, g
    <2>4. x \in GoodPairs /\ x.proxy = f /\ x.dashboard = g
      BY <2>1, <2>2, <2>3 DEF GoodPairs
    <2> QED BY <2>2, <2>3, <2>4 DEF x
  <1>3. CASE r.id = "agent-identity"
    <2> DEFINE g == AlignAgents(q.dashboard)
    <2>1. x = [q EXCEPT !["dashboard"] = g]
      BY <1>3 DEF Transformed
    <2>2. g \in GoodDashboards /\ DashboardGrows(q.dashboard, g)
      BY <1>1, <1>3, AlignGrows DEF Applies, Complete2
    <2> HIDE DEF x, g
    <2>3. x \in GoodPairs /\ x.proxy = q.proxy /\ x.dashboard = g
      BY <1>1, <2>1, <2>2 DEF GoodPairs
    <2> QED BY <1>3, <2>2, <2>3, Unchanged DEF x
  <1>4. CASE r.id = "pricing"
    <2> DEFINE f == FlattenPrices(q.proxy)
    <2>1. x = [q EXCEPT !["proxy"] = f]
      BY <1>4 DEF Transformed
    <2>2. f \in GoodProxies /\ ProxyGrows(q.proxy, f)
      BY <1>1, <1>4, FlattenGrows DEF Applies
    <2> HIDE DEF x, f
    <2>3. x \in GoodPairs /\ x.proxy = f /\ x.dashboard = q.dashboard
      BY <1>1, <2>1, <2>2 DEF GoodPairs
    <2> QED BY <1>4, <2>2, <2>3, Unchanged DEF x
  <1>5. CASE r.id = "hard-delete"
    <2> DEFINE f == PurgeSoftDeleted(q.proxy)
    <2>1. x = [q EXCEPT !["proxy"] = f]
      BY <1>5 DEF Transformed
    <2>2. f \in GoodProxies /\ ProxyGrows(q.proxy, f)
      BY <1>1, <1>5, PurgeGrows DEF Applies, Complete2
    <2> HIDE DEF x, f
    <2>3. x \in GoodPairs /\ x.proxy = f /\ x.dashboard = q.dashboard
      BY <1>1, <2>1, <2>2 DEF GoodPairs
    <2> QED BY <1>5, <2>2, <2>3, Unchanged DEF x
  <1>6. CASE r.id = "agent-billing"
    <2>1. x = q
      BY <1>6 DEF Transformed
    <2> HIDE DEF x
    <2> QED BY <1>6, <2>1, Unchanged DEF x
  <1> QED BY <1>2, <1>3, <1>4, <1>5, <1>6, RoutesAre DEF RouteIds

(* A stage keeps a set of pairs that have grown from p.                    *)
LEMMA StageGrows ==
  ASSUME NEW p \in GoodPairs, NEW I, NEW routes \in SUBSET Routes, NEW n,
         \A r \in routes : Applies(r, p), spool \subseteq Made,
         NEW pairs \in SUBSET Grown(p, I), pairs # {}
  PROVE  Stage(n, routes, pairs) \subseteq Grown(p, I) /\ Stage(n, routes, pairs) # {}
  <1> DEFINE now == {r \in routes : r.order = n}
  <1>1. CASE now = {}
    BY <1>1 DEF Stage
  <1>2. CASE now # {}
    <2> DEFINE ready == {Prepared(q, pair) : q \in now, pair \in pairs}
    <2>1. Stage(n, routes, pairs) = {Transformed(r, y) : r \in now, y \in ready}
      BY <1>2 DEF Stage
    <2>2. ready \subseteq Grown(p, I) /\ ready # {}
      <3>1. \A q \in now, y \in pairs : Prepared(q, y) \in Grown(p, I)
        <4> SUFFICES ASSUME NEW q \in now, NEW y \in pairs PROVE Prepared(q, y) \in Grown(p, I)
          OBVIOUS
        <4>1. q \in Routes /\ y \in Grown(p, I) /\ y \in GoodPairs
          BY DEF Grown
        <4> QED BY <4>1, PreparedGrows, GrowsMore
      <3> QED BY <1>2, <3>1
    <2> HIDE DEF ready
    <2>3. \A r \in now, y \in ready : Transformed(r, y) \in Grown(p, I)
      <3> SUFFICES ASSUME NEW r \in now, NEW y \in ready PROVE Transformed(r, y) \in Grown(p, I)
        OBVIOUS
      <3>1. r \in Routes /\ y \in Grown(p, I) /\ y \in GoodPairs /\ Applies(r, p)
        BY <2>2 DEF Grown
      <3>2. Applies(r, y)
        BY <3>1 DEF Applies, Complete2, Grown, ProxyGrows, DashboardGrows
      <3> QED BY <3>1, <3>2, TransformedGrows, GrowsMore
    <2> HIDE DEF now
    <2>4. PICK r \in now, y \in ready : TRUE
      BY <1>2, <2>2
    <2>5. Transformed(r, y) \in Stage(n, routes, pairs)
      BY <2>1, <2>4
    <2>6. Stage(n, routes, pairs) \subseteq Grown(p, I)
      BY <2>1, <2>3
    <2> QED BY <2>5, <2>6
  <1> QED BY <1>1, <1>2

(* Everything a selection can hold applies to the pair.                    *)
LEMMA SelectedApply ==
  ASSUME NEW scope, NEW p
  PROVE  /\ Selected(scope, p) \in SUBSET Routes
         /\ \A r \in Selected(scope, p) : Applies(r, p)
  <1>1. \A r \in Selected(scope, p) :
            /\ r \in Routes
            /\ \A d \in DOMAIN r.current : p[d] # None /\ RangeHas(r.current[d], p[d].ver)
    BY DEF Selected, Matching
  <1>2. ASSUME NEW r \in Selected(scope, p) PROVE Applies(r, p)
    <2>1. r \in Routes /\ \A d \in DOMAIN r.current : p[d] # None
      BY <1>1
    <2>2. r.id \in {"agent-identity", "hard-delete"} => p.proxy # None /\ p.dashboard # None
      BY <2>1, RoutesAre DEF DB
    <2>3. r.id = "pricing" => p.proxy # None
      BY <2>1, RoutesAre
    <2> QED BY <2>2, <2>3 DEF Applies, Complete2
  <1> QED BY <1>1, <1>2

(* Recording the routes changes no fact.                                   *)
LEMMA RecordedProxy ==
  ASSUME NEW f \in GoodProxies, f.ver[1] >= 1, NEW ids \in SUBSET RouteIds
  PROVE  LET g == [f EXCEPT !.done = @ \cup ids]
         IN  g \in GoodProxies /\ ProxyGrows(f, g) /\ g.ver = f.ver
  <1> DEFINE D == f.done \cup ids
             g == [f EXCEPT !.done = D]
  <1>1. f \in Proxies /\ f # None /\ f.ver \in Releases /\ D \in SUBSET RouteIds
    BY GoodFiles DEF Stored, Proxies
  <1>2. /\ g \in Proxies /\ g.ver = f.ver /\ g.requests = f.requests /\ g.prices = f.prices
        /\ g.softDeleted = f.softDeleted
    <2> HIDE DEF D
    <2> QED BY <1>1 DEF Stored, Proxies
  <1>3. [f EXCEPT !.done = @ \cup ids] = g
    OBVIOUS
  <1> HIDE DEF g
  <1>4. g \in GoodProxies
    BY <1>1, <1>2 DEF GoodProxies, Stored, Releases
  <1>5. g # None
    BY <1>4, GoodFiles
  <1> QED BY <1>1, <1>2, <1>3, <1>4, <1>5 DEF ProxyGrows, RequestIds, Rates

LEMMA RecordedDashboard ==
  ASSUME NEW f \in GoodDashboards, f.ver[1] >= 1, NEW ids \in SUBSET RouteIds
  PROVE  LET g == [f EXCEPT !.done = @ \cup ids]
         IN  g \in GoodDashboards /\ DashboardGrows(f, g) /\ g.ver = f.ver
  <1> DEFINE D == f.done \cup ids
             g == [f EXCEPT !.done = D]
  <1>1. f \in StoredDashboards /\ f # None /\ f.ver \in Releases /\ D \in SUBSET RouteIds
    BY GoodFiles DEF StoredDashboards, Dashboards
  <1>2. g \in StoredDashboards /\ g.ver = f.ver /\ g.archive = f.archive /\ g.unpriced = f.unpriced
    <2> HIDE DEF D
    <2> QED BY <1>1 DEF StoredDashboards, Dashboards
  <1>3. [f EXCEPT !.done = @ \cup ids] = g
    OBVIOUS
  <1> HIDE DEF g
  <1>4. g \in GoodDashboards
    BY <1>1, <1>2 DEF GoodDashboards, Releases
  <1>5. g # None
    BY <1>4, GoodFiles
  <1> QED BY <1>1, <1>2, <1>3, <1>4, <1>5 DEF DashboardGrows, Users, Charges, InOrder

(* The targets of a conversion: V1 on both sides.                          *)
V1Targets == {t \in [DB -> Releases] : t["proxy"][1] = 1 /\ t["dashboard"][1] = 1}

LEMMA FinishedGrows ==
  ASSUME NEW scope, NEW routes \in SUBSET Routes, NEW t \in V1Targets, NEW q \in GoodPairs
  PROVE  LET x == AllFinished(scope, routes, t, q)
         IN  /\ x \in GoodPairs
             /\ ProxyGrows(q.proxy, x.proxy) /\ DashboardGrows(q.dashboard, x.dashboard)
             /\ x.proxy # None => x.proxy.ver[1] >= 1
             /\ x.dashboard # None => x.dashboard.ver[1] >= 1
  <1> DEFINE x == AllFinished(scope, routes, t, q)
             ids(d) == IF d \in Published(scope) THEN {r.id : r \in routes} ELSE {}
             f == Finished(scope, routes, t, "proxy", q)
             g == Finished(scope, routes, t, "dashboard", q)
  <1>1. /\ q.proxy \in GoodProxies \cup {None} /\ q.dashboard \in GoodDashboards \cup {None}
        /\ t["proxy"] \in Releases /\ t["dashboard"] \in Releases
        /\ t["proxy"][1] = 1 /\ t["dashboard"][1] = 1
    BY DEF GoodPairs, V1Targets, DB
  <1>2. \A d \in DB : ids(d) \in SUBSET RouteIds
    <2>1. ASSUME NEW r \in routes PROVE r.id \in RouteIds
      <3>1. r \in Routes
        OBVIOUS
      <3> QED BY <3>1, RoutesAre
    <2> QED BY <2>1
  <1>3. f \in GoodProxies \cup {None} /\ ProxyGrows(q.proxy, f) /\ (f # None => f.ver[1] >= 1)
    <2>1. CASE q.proxy = None
      <3>1. f = None
        BY <2>1 DEF Finished
      <3> QED BY <2>1, <3>1, Unchanged
    <2>2. CASE q.proxy # None
      <3> DEFINE s == Sql("proxy", q.proxy, t["proxy"])
      <3>1. f = [s EXCEPT !.done = @ \cup ids("proxy")]
        BY <2>2 DEF Finished
      <3>2. s \in GoodProxies /\ s.ver[1] >= 1 /\ ProxyGrows(q.proxy, s)
        BY <1>1, <2>2, SqlGoodProxy DEF ProxyGrows
      <3> HIDE DEF s, f
      <3>3. ids("proxy") \in SUBSET RouteIds
        BY <1>2 DEF DB
      <3> HIDE DEF ids
      <3>4. f \in GoodProxies /\ ProxyGrows(s, f) /\ f.ver = s.ver
        BY <3>1, <3>2, <3>3, RecordedProxy
      <3> QED BY <3>2, <3>4 DEF ProxyGrows
    <2> QED BY <2>1, <2>2
  <1>4. g \in GoodDashboards \cup {None} /\ DashboardGrows(q.dashboard, g) /\ (g # None => g.ver[1] >= 1)
    <2>1. CASE q.dashboard = None
      <3>1. g = None
        BY <2>1 DEF Finished
      <3> QED BY <2>1, <3>1, Unchanged
    <2>2. CASE q.dashboard # None
      <3> DEFINE s == Sql("dashboard", q.dashboard, t["dashboard"])
      <3>1. g = [s EXCEPT !.done = @ \cup ids("dashboard")]
        BY <2>2 DEF Finished
      <3>2. s \in GoodDashboards /\ s.ver[1] >= 1 /\ DashboardGrows(q.dashboard, s)
        BY <1>1, <2>2, SqlGoodDashboard DEF DashboardGrows
      <3> HIDE DEF s, g
      <3>3. ids("dashboard") \in SUBSET RouteIds
        BY <1>2 DEF DB
      <3> HIDE DEF ids
      <3>4. g \in GoodDashboards /\ DashboardGrows(s, g) /\ g.ver = s.ver
        BY <3>1, <3>2, <3>3, RecordedDashboard
      <3> QED BY <3>2, <3>4 DEF DashboardGrows
    <2> QED BY <2>1, <2>2
  <1>5. x = [proxy |-> f, dashboard |-> g]
    BY DEF AllFinished
  <1> HIDE DEF x, f, g
  <1>6. x \in GoodPairs /\ x.proxy = f /\ x.dashboard = g
    BY <1>3, <1>4, <1>5 DEF GoodPairs
  <1> QED BY <1>3, <1>4, <1>6 DEF x

LEMMA ValueIn == \A S : S # {} => Value(S) \in S
  BY DEF Value

(* A conversion carries every fact over, and takes the spool into a V0     *)
(* token-board file.                                                       *)
LEMMA ShadowsGrow ==
  ASSUME NEW scope, NEW p \in GoodPairs, NEW t \in V1Targets, spool \subseteq Made
  PROVE  LET x == ApplyShadows(scope, p, t)
         IN  /\ x \in Grown(p, {})
             /\ x.proxy # None => x.proxy.ver[1] >= 1
             /\ x.dashboard # None => x.dashboard.ver[1] >= 1
             /\ (\E r \in Selected(scope, p) : r.id = "rebuild") /\ IsV0(p.proxy) =>
                   x \in Grown(p, Ids(spool))
  <1> DEFINE R == Selected(scope, p)
             x == ApplyShadows(scope, p, t)
             T0 == Stage(0, R, {p})
             T4 == Stage(4, R, Stage(3, R, Stage(2, R, Stage(1, R, T0))))
  <1>1. R \in SUBSET Routes /\ \A r \in R : Applies(r, p)
    BY SelectedApply
  <1>2. x = Value({AllFinished(scope, R, t, y) : y \in T4})
    <2>1. {ApplyRoutes(scope, routes, t, q) : routes \in {R}, q \in {p}} = {ApplyRoutes(scope, R, t, p)}
      OBVIOUS
    <2>2. x = Value({ApplyRoutes(scope, R, t, p)})
      BY <2>1 DEF ApplyShadows
    <2>3. x = ApplyRoutes(scope, R, t, p)
      BY <2>2, ValueIn
    <2> QED BY <2>3 DEF ApplyRoutes
  <1> HIDE DEF R, x
  <1>3. ASSUME NEW I, T0 \in SUBSET Grown(p, I), T0 # {}
        PROVE  /\ x \in Grown(p, I)
               /\ x.proxy # None => x.proxy.ver[1] >= 1
               /\ x.dashboard # None => x.dashboard.ver[1] >= 1
    <2> DEFINE T1 == Stage(1, R, T0)
               T2 == Stage(2, R, T1)
               T3 == Stage(3, R, T2)
    <2> HIDE DEF T0
    <2>1. T1 \in SUBSET Grown(p, I) /\ T1 # {}
      BY <1>1, <1>3, StageGrows
    <2> HIDE DEF T1
    <2>2. T2 \in SUBSET Grown(p, I) /\ T2 # {}
      BY <1>1, <2>1, StageGrows
    <2> HIDE DEF T2
    <2>3. T3 \in SUBSET Grown(p, I) /\ T3 # {}
      BY <1>1, <2>2, StageGrows
    <2> HIDE DEF T3
    <2>4. Stage(4, R, T3) \in SUBSET Grown(p, I) /\ Stage(4, R, T3) # {}
      BY <1>1, <2>3, StageGrows
    <2>5. T4 = Stage(4, R, T3)
      BY DEF T3, T2, T1
    <2> HIDE DEF T4
    <2>6. PICK y \in T4 : x = AllFinished(scope, R, t, y)
      <3>1. {AllFinished(scope, R, t, y) : y \in T4} # {}
        BY <2>4, <2>5
      <3> QED BY <1>2, <3>1, ValueIn
    <2>7. y \in Grown(p, I) /\ y \in GoodPairs
      BY <2>4, <2>5, <2>6 DEF Grown
    <2> QED BY <1>1, <2>6, <2>7, FinishedGrows, GrowsMore
  <1>4. T0 \in SUBSET Grown(p, {}) /\ T0 # {}
    BY <1>1, GrownSelf, StageGrows
  <1>5. ASSUME \E r \in R : r.id = "rebuild", IsV0(p.proxy)
        PROVE  T0 \in SUBSET Grown(p, Ids(spool)) /\ T0 # {}
    <2> DEFINE now == {r \in R : r.order = 0}
               ready == {Prepared(q, y) : q \in now, y \in {p}}
    <2>1. now # {} /\ \A r \in now : r \in Routes /\ r.id = "rebuild" /\ Applies(r, p)
      BY <1>1, <1>5, RoutesAre
    <2>2. T0 = {Transformed(r, y) : r \in now, y \in ready}
      BY <2>1 DEF Stage
    <2> HIDE DEF now, T0
    <2>3. \A y \in ready : y \in Grown(p, {}) /\ IsV0(y.proxy)
      <3>1. \A q \in now : Prepared(q, p) \in Grown(p, {}) /\ IsV0(Prepared(q, p).proxy)
        BY <1>5, <2>1, PreparedGrows, GrownSelf, GrowsMore
      <3> QED BY <3>1
    <2>6. \A q \in now : Prepared(q, p) \in ready
      OBVIOUS
    <2> HIDE DEF ready
    <2>4. \A r \in now, y \in ready : Transformed(r, y) \in Grown(p, Ids(spool))
      <3> SUFFICES ASSUME NEW r \in now, NEW y \in ready
                   PROVE  Transformed(r, y) \in Grown(p, Ids(spool))
        OBVIOUS
      <3>1. r \in Routes /\ r.id = "rebuild" /\ Applies(r, y) /\ y \in GoodPairs
        BY <2>1, <2>3 DEF Applies, Grown
      <3>2. /\ Transformed(r, y) \in GoodPairs
            /\ ProxyGrows(y.proxy, Transformed(r, y).proxy)
            /\ DashboardGrows(y.dashboard, Transformed(r, y).dashboard)
            /\ Ids(spool) \subseteq RequestIds(Transformed(r, y).proxy)
        BY <2>3, <3>1, TransformedGrows
      <3>3. Transformed(r, y) \in Grown(p, {})
        BY <2>3, <3>2, GrowsMore
      <3> QED BY <3>2, <3>3 DEF Grown
    <2>5. T0 # {}
      <3>1. PICK r \in now : TRUE
        BY <2>1
      <3>2. PICK y \in ready : TRUE
        BY <2>6, <3>1
      <3>3. Transformed(r, y) \in T0
        BY <2>2, <3>1, <3>2
      <3> QED BY <3>3
    <2>7. \A x0 \in T0 : x0 \in Grown(p, Ids(spool))
      BY <2>2, <2>4
    <2> QED BY <2>5, <2>7
  <1> HIDE DEF T0
  <1>6. /\ x \in Grown(p, {})
        /\ x.proxy # None => x.proxy.ver[1] >= 1
        /\ x.dashboard # None => x.dashboard.ver[1] >= 1
    BY <1>3, <1>4
  <1>7. ASSUME \E r \in R : r.id = "rebuild", IsV0(p.proxy) PROVE x \in Grown(p, Ids(spool))
    BY <1>3, <1>5, <1>7
  <1> QED BY <1>6, <1>7 DEF x, R

-----------------------------------------------------------------------------
(* The conversions the coordinator runs.                                   *)

LEMMA TargetsAre ==
  /\ V1Tip \in V1Targets /\ Landing \in V1Targets
  /\ [proxy |-> V1Tip.proxy, dashboard |-> Landing.dashboard] \in V1Targets
  /\ Tip.proxy \in Releases /\ Tip.proxy = <<2, 7>>
  /\ Tip.dashboard \in Releases /\ Tip.dashboard = <<2, 2>>
  /\ V1Tip.proxy \in Releases /\ V1Tip.proxy = <<1, 21>>
  /\ V1Tip.dashboard \in Releases /\ V1Tip.dashboard = <<1, 7>>
  BY DEF V1Tip, Landing, Tip, V1Targets, Releases, DB

LEMMA CopyGrows ==
  ASSUME NEW p \in GoodPairs, spool \subseteq Made
  PROVE  CopyShadows(p) \in Grown(p, {})
  BY ShadowsGrow, TargetsAre DEF CopyShadows

LEMMA GrownTwice ==
  ASSUME NEW p \in GoodPairs, NEW I, NEW q \in Grown(p, I), NEW x \in Grown(q, {})
  PROVE  x \in Grown(p, I)
  <1>1. x \in GoodPairs /\ ProxyGrows(q.proxy, x.proxy) /\ DashboardGrows(q.dashboard, x.dashboard)
    BY DEF Grown
  <1> QED BY <1>1, GrowsMore

LEMMA RebuildGrows ==
  ASSUME NEW p \in GoodPairs, Majors(p, {0}), spool \subseteq Made
  PROVE  RebuildShadows(p) \in Grown(p, Ids(spool))
  <1> DEFINE x == ApplyShadows("local-pair", p, Landing)
             r == Route("rebuild", 0, "local-pair",
                        [proxy |-> Within(0, 0, 19), dashboard |-> Within(0, 0, 6)],
                        [proxy |-> <<0, 19>>, dashboard |-> <<0, 6>>])
  <1>1. /\ p.proxy # None /\ p.dashboard # None
        /\ p.proxy.ver[1] = 0 /\ p.proxy.ver[2] \in 0..19 /\ "rebuild" \notin p.proxy.done
        /\ p.dashboard.ver[1] = 0 /\ p.dashboard.ver[2] \in 0..6
    <2>1. p.proxy # None /\ p.dashboard # None /\ p.proxy.ver[1] = 0 /\ p.dashboard.ver[1] = 0
      BY DEF Majors, Complete2
    <2>2. p.proxy \in GoodProxies /\ p.dashboard \in GoodDashboards
      BY <2>1 DEF GoodPairs
    <2>3. p.proxy.ver[2] \in Nat /\ p.dashboard.ver[2] \in Nat
      BY <2>2, GoodFiles DEF Releases
    <2> QED BY <2>1, <2>2, <2>3 DEF GoodProxies, GoodDashboards
  <1>2. r \in Selected("local-pair", p) /\ r.id = "rebuild"
    <2>1. r \in Routes /\ r.id = "rebuild" /\ r.scope = "local-pair"
          /\ r.current = [proxy |-> Within(0, 0, 19), dashboard |-> Within(0, 0, 6)]
      BY DEF Routes, Route
    <2> HIDE DEF r
    <2>2. \A d \in DOMAIN r.current : p[d] # None /\ RangeHas(r.current[d], p[d].ver)
      <3>1. RangeHas(Within(0, 0, 19), p.proxy.ver) /\ RangeHas(Within(0, 0, 6), p.dashboard.ver)
        BY <1>1 DEF RangeHas, Within
      <3>2. DOMAIN r.current = {"proxy", "dashboard"}
            /\ r.current["proxy"] = Within(0, 0, 19) /\ r.current["dashboard"] = Within(0, 0, 6)
        BY <2>1
      <3> QED BY <1>1, <3>1, <3>2
    <2>3. ~ Complete("local-pair", p, r)
      BY <1>1, <2>1 DEF Complete, Published, DB
    <2> QED BY <2>1, <2>2, <2>3 DEF Selected, Matching
  <1>3. IsV0(p.proxy)
    BY <1>1 DEF IsV0
  <1>4. x \in Grown(p, Ids(spool)) /\ x \in GoodPairs
    BY <1>2, <1>3, ShadowsGrow, TargetsAre DEF Grown
  <1>5. RebuildShadows(p) = CopyShadows(x)
    <2> HIDE DEF x
    <2>1. {CopyShadows(y) : y \in {x}} = {CopyShadows(x)}
      OBVIOUS
    <2>2. RebuildShadows(p) = Value({CopyShadows(x)})
      BY <2>1 DEF RebuildShadows, x
    <2> QED BY <2>2, ValueIn
  <1> HIDE DEF x
  <1> QED BY <1>4, <1>5, CopyGrows, GrownTwice

LEMMA ProxyArtifactGrows ==
  ASSUME NEW f \in GoodProxies, f.ver[1] = 0, spool \subseteq Made
  PROVE  LET g == ProxyArtifact(f)
         IN  /\ g \in GoodProxies /\ ProxyGrows(f, g)
             /\ Ids(spool) \subseteq RequestIds(g)
  <1> DEFINE scope == "token-board-artifact"
             p == [proxy |-> f, dashboard |-> None]
             x == ApplyShadows(scope, p, Landing)
             y == ApplyShadows(scope, x, V1Tip)
             g == Sql("proxy", y.proxy, Tip.proxy)
             r == Route("rebuild", 0, scope, [proxy |-> Within(0, 0, 19)], [proxy |-> <<0, 19>>])
  <1>1. p \in GoodPairs /\ p.proxy = f /\ f # None
    BY GoodFiles DEF GoodPairs
  <1>2. r \in Selected(scope, p) /\ r.id = "rebuild"
    <2>1. /\ r \in Routes /\ r.id = "rebuild" /\ r.scope = scope
          /\ r.current = [proxy |-> Within(0, 0, 19)]
      BY DEF Routes, Route
    <2>2. f.ver[2] \in 0..19 /\ "rebuild" \notin f.done
      BY GoodFiles DEF Releases, GoodProxies
    <2> HIDE DEF r
    <2>3. \A d \in DOMAIN r.current : p[d] # None /\ RangeHas(r.current[d], p[d].ver)
      <3>1. RangeHas(Within(0, 0, 19), f.ver)
        BY <2>2 DEF RangeHas, Within
      <3>2. DOMAIN r.current = {"proxy"} /\ r.current["proxy"] = Within(0, 0, 19)
        BY <2>1
      <3> QED BY <1>1, <3>1, <3>2
    <2>4. ~ Complete(scope, p, r)
      BY <2>1, <2>2 DEF Complete, Published
    <2> QED BY <2>1, <2>3, <2>4 DEF Selected, Matching
  <1>3. IsV0(p.proxy)
    BY <1>1 DEF IsV0
  <1>4. x \in Grown(p, Ids(spool)) /\ x \in GoodPairs
    BY <1>1, <1>2, <1>3, ShadowsGrow, TargetsAre DEF Grown
  <1>5. y \in Grown(x, {})
    <2> HIDE DEF x
    <2> QED BY <1>4, ShadowsGrow, TargetsAre
  <1>6. y \in Grown(p, Ids(spool))
    <2> HIDE DEF x, y
    <2> QED BY <1>1, <1>4, <1>5, GrownTwice
  <1>7. ProxyArtifact(f) = g
    <2>1. {ApplyShadows(scope, q, V1Tip) : q \in {x}} = {y}
      OBVIOUS
    <2> HIDE DEF y
    <2>2. {Sql("proxy", q.proxy, Tip.proxy) : q \in {y}} = {g}
      OBVIOUS
    <2> HIDE DEF g
    <2>3. ProxyArtifact(f) = Value({g})
      BY <2>1, <2>2 DEF ProxyArtifact
    <2> QED BY <2>3, ValueIn
  <1>8. /\ y.proxy \in GoodProxies \cup {None} /\ ProxyGrows(f, y.proxy)
        /\ Ids(spool) \subseteq RequestIds(y.proxy)
    BY <1>1, <1>6 DEF Grown, GoodPairs
  <1> HIDE DEF y
  <1>9. g \in GoodProxies \cup {None} /\ ProxyGrows(y.proxy, g)
    BY <1>8, SqlGoodProxy, TargetsAre
  <1> HIDE DEF g
  <1> QED BY <1>1, <1>7, <1>8, <1>9 DEF ProxyGrows

LEMMA TipDashboard ==
  ASSUME NEW f \in GoodDashboards
  PROVE  LET g == Sql("dashboard", f, Tip.dashboard)
         IN  /\ g \in GoodDashboards
             /\ Users(f) \subseteq Users(g) /\ (InOrder(f) => InOrder(g))
             /\ g.ver[1] >= 2
  <1> DEFINE g == Sql("dashboard", f, Tip.dashboard)
  <1>1. f \in StoredDashboards /\ f # None /\ f.ver \in Releases
    BY GoodFiles
  <1>2. /\ g \in StoredDashboards /\ g.archive = f.archive
        /\ g.ver = IF Older(f.ver, <<2, 2>>) THEN <<2, 2>> ELSE f.ver
    BY <1>1, SqlDashboard, TargetsAre
  <1> HIDE DEF g
  <1>3. g.ver[1] >= 2 /\ g.ver[1] # 0
    BY <1>1, <1>2 DEF Older, Releases
  <1>4. g \in GoodDashboards
    BY <1>2, <1>3 DEF GoodDashboards
  <1>5. g # None
    BY <1>4, GoodFiles
  <1> QED BY <1>1, <1>2, <1>3, <1>4, <1>5 DEF Users, InOrder, g

LEMMA DashboardArtifactGrows ==
  ASSUME NEW p \in GoodPairs, p.dashboard # None, p.dashboard.ver[1] = 0, spool \subseteq Made
  PROVE  LET g == DashboardArtifact(p)
         IN  g \in GoodDashboards /\ DashboardGrows(p.dashboard, g) /\ InOrder(g)
  <1> DEFINE t == [proxy |-> V1Tip.proxy, dashboard |-> Landing.dashboard]
             x == ApplyShadows("dashboard-artifact", p, t)
             g == Sql("dashboard", x.dashboard, Tip.dashboard)
  <1>1. x \in Grown(p, {})
    BY ShadowsGrow, TargetsAre
  <1>2. DashboardArtifact(p) = g
    <2> HIDE DEF x
    <2>1. {Sql("dashboard", q.dashboard, Tip.dashboard) : q \in {x}} = {g}
      OBVIOUS
    <2> HIDE DEF g
    <2>2. DashboardArtifact(p) = Value({g})
      BY <2>1 DEF DashboardArtifact, x
    <2> QED BY <2>2, ValueIn
  <1>3. /\ p.dashboard \in GoodDashboards /\ p.dashboard.unpriced = {} /\ InOrder(p.dashboard)
    BY DEF GoodPairs, GoodDashboards
  <1> HIDE DEF x
  <1>4. /\ x.dashboard \in GoodDashboards /\ DashboardGrows(p.dashboard, x.dashboard)
        /\ InOrder(x.dashboard)
    BY <1>1, <1>3 DEF Grown, GoodPairs, DashboardGrows
  <1>5. /\ g \in GoodDashboards /\ Users(x.dashboard) \subseteq Users(g) /\ InOrder(g)
    BY <1>4, TipDashboard
  <1> HIDE DEF g
  <1>6. DashboardGrows(p.dashboard, g)
    <2>1. g # None /\ Charges(p.dashboard) = {}
      BY <1>3, <1>5, GoodFiles DEF Charges
    <2> QED BY <1>4, <1>5, <2>1 DEF DashboardGrows
  <1> QED BY <1>2, <1>5, <1>6

LEMMA TipShadowsGrow ==
  ASSUME NEW p \in GoodPairs, Complete2(p)
  PROVE  LET x == TipShadows(p)
         IN  /\ x \in GoodPairs /\ Complete2(x) /\ ProxyGrows(p.proxy, x.proxy)
             /\ Users(p.dashboard) \subseteq Users(x.dashboard)
             /\ InOrder(p.dashboard) => InOrder(x.dashboard)
  <1> DEFINE x == TipShadows(p)
             f == Sql("proxy", p.proxy, Tip.proxy)
             g == Sql("dashboard", p.dashboard, Tip.dashboard)
  <1>1. /\ p.proxy \in GoodProxies /\ p.dashboard \in GoodDashboards
        /\ p.proxy # None /\ p.dashboard # None
    BY DEF GoodPairs, Complete2
  <1>2. x = [proxy |-> f, dashboard |-> g]
    BY DEF TipShadows
  <1>3. f \in GoodProxies \cup {None} /\ ProxyGrows(p.proxy, f)
    BY <1>1, SqlGoodProxy, TargetsAre
  <1>4. /\ g \in GoodDashboards /\ Users(p.dashboard) \subseteq Users(g)
        /\ InOrder(p.dashboard) => InOrder(g)
    BY <1>1, TipDashboard
  <1> HIDE DEF x, f, g
  <1>5. f # None /\ g # None
    BY <1>1, <1>3, <1>4, GoodFiles DEF ProxyGrows
  <1>6. x \in GoodPairs /\ x.proxy = f /\ x.dashboard = g
    BY <1>2, <1>3, <1>4 DEF GoodPairs
  <1> QED BY <1>3, <1>4, <1>5, <1>6 DEF Complete2, x


-----------------------------------------------------------------------------
(* Steps while no manifest is open: the files themselves are in force.     *)

Carries ==
    /\ RequestIds(db.proxy) \cup Ids(spool) \subseteq RequestIds(db'.proxy) \cup Ids(spool')
    /\ Rates(db.proxy) \subseteq Rates(db'.proxy)
    /\ Users(db.dashboard) \subseteq Users(db'.dashboard)
    /\ Charges(db.dashboard) \subseteq Charges(db'.dashboard)

LEMMA GoodPairsAre ==
  ASSUME NEW p \in GoodPairs
  PROVE  /\ p.proxy \in GoodProxies \cup {None} /\ p.dashboard \in GoodDashboards \cup {None}
         /\ p = [proxy |-> p.proxy, dashboard |-> p.dashboard] /\ p \in Pairs
         /\ p.proxy # None => /\ p.proxy \in GoodProxies /\ p.proxy.ver \in Releases
                              /\ p.proxy.ver[1] \in Nat
         /\ p.dashboard # None => /\ p.dashboard \in GoodDashboards /\ p.dashboard.ver \in Releases
                                  /\ p.dashboard.ver[1] \in Nat
  <1>1. /\ p.proxy \in GoodProxies \cup {None} /\ p.dashboard \in GoodDashboards \cup {None}
        /\ p = [proxy |-> p.proxy, dashboard |-> p.dashboard]
    BY DEF GoodPairs
  <1>2. p \in Pairs
    BY <1>1, GoodFiles DEF Pairs, StoredDashboards
  <1> QED BY <1>1, <1>2, GoodFiles DEF Releases

(* A file cut short holds nothing, and only such a file has no version.     *)
LEMMA BlankFiles ==
  /\ Blank("proxy") \in Proxies /\ Blank("proxy") # None /\ Blank("proxy").ver = NoVersion
  /\ Blank("proxy").requests = {} /\ Blank("proxy").prices = {}
  /\ Blank("dashboard") \in Dashboards /\ Blank("dashboard") # None
  /\ Blank("dashboard").ver = NoVersion
  /\ Blank("dashboard").archive = {} /\ Blank("dashboard").unpriced = {}
  /\ InOrder(Blank("dashboard")) /\ NoVersion[1] = -1 /\ NoVersion \in Versions
  <1>1. /\ Blank("proxy") \in Proxies /\ Blank("proxy").ver = NoVersion
        /\ Blank("proxy").requests = {} /\ Blank("proxy").prices = {}
    BY DEF Blank, Empty, Proxies, Versions
  <1>2. /\ Blank("dashboard") \in Dashboards /\ Blank("dashboard").ver = NoVersion
        /\ Blank("dashboard").archive = {} /\ Blank("dashboard").unpriced = {}
    BY DEF Blank, Empty, Dashboards, Versions
  <1>3. NoVersion[1] = -1 /\ NoVersion \in Versions
    BY DEF NoVersion, Versions
  <1> QED BY <1>1, <1>2, <1>3, NoneAssumption DEF InOrder

LEMMA LivePairsAre ==
  ASSUME NEW p \in LivePairs
  PROVE  /\ p.proxy \in GoodProxies \cup {None, Blank("proxy")}
         /\ p.dashboard \in GoodDashboards \cup {None, Blank("dashboard")}
         /\ p = [proxy |-> p.proxy, dashboard |-> p.dashboard] /\ p \in Pairs
         /\ p.proxy # None => /\ p.proxy.ver[1] \in Int /\ p.proxy \in Proxies
                              /\ p.proxy.requests \subseteq Made
                              /\ p.proxy.ver[1] = -1 <=> p.proxy = Blank("proxy")
         /\ p.proxy \notin {None, Blank("proxy")} =>
                /\ p.proxy \in GoodProxies /\ p.proxy.ver \in Releases
                /\ p.proxy.ver[1] \in Nat
         /\ p.dashboard # None => /\ p.dashboard.ver[1] \in Int
                                  /\ p.dashboard.ver[1] = -1 <=> p.dashboard = Blank("dashboard")
         /\ p.dashboard \notin {None, Blank("dashboard")} =>
                /\ p.dashboard \in GoodDashboards /\ p.dashboard.ver \in Releases
                /\ p.dashboard.ver[1] \in Nat
  <1>1. /\ p.proxy \in GoodProxies \cup {None, Blank("proxy")}
        /\ p.dashboard \in GoodDashboards \cup {None, Blank("dashboard")}
        /\ p = [proxy |-> p.proxy, dashboard |-> p.dashboard]
    BY DEF LivePairs
  <1>2. p \in Pairs
    <2>1. /\ p.proxy \in Proxies \cup {None} /\ p.dashboard \in Dashboards \cup {None}
      BY <1>1, GoodFiles, BlankFiles DEF StoredDashboards
    <2> QED BY <1>1, <2>1 DEF Pairs
  <1>3. \A f \in GoodProxies : /\ f.ver \in Releases /\ f.ver[1] \in Nat
                                /\ f.requests \subseteq Made
    BY GoodFiles DEF Stored, Releases
  <1>4. \A g \in GoodDashboards : g.ver \in Releases /\ g.ver[1] \in Nat
    BY GoodFiles DEF Releases
  <1> QED BY <1>1, <1>2, <1>3, <1>4, BlankFiles, GoodFiles

(* A pair of which both files have a version.                              *)
LEMMA Born ==
  ASSUME NEW p \in LivePairs, Complete2(p), p.proxy.ver[1] # -1, p.dashboard.ver[1] # -1
  PROVE  p \in GoodPairs
  BY LivePairsAre DEF Complete2, GoodPairs

(* So is one a runner takes up.                                            *)
LEMMA SourceIsBorn ==
  ASSUME db \in LivePairs, Source(db), job \in Kinds
  PROVE  db \in GoodPairs
  BY Born DEF Source, Majors, Complete2, Kinds

LEMMA GoodAreLive == GoodPairs \subseteq LivePairs
  BY DEF GoodPairs, LivePairs

(* The facts follow from what the files hold of them.                      *)
LEMMA Carried ==
  ASSUME NEW p \in LivePairs, NEW q \in LivePairs,
         NEW s \in SUBSET Made, NEW t \in SUBSET Made, NEW w, NEW u,
         RequestIds(p.proxy) \cup Ids(s) \subseteq RequestIds(q.proxy) \cup Ids(t),
         Rates(p.proxy) \subseteq Rates(q.proxy),
         Users(p.dashboard) \subseteq Users(q.dashboard),
         w \cup Charges(p.dashboard) \subseteq u \cup Charges(q.dashboard)
  PROVE  Facts(p.proxy, p.dashboard, s, w) \subseteq Facts(q.proxy, q.dashboard, t, u)
  <1> DEFINE f == p.proxy
             g == p.dashboard
             f2 == q.proxy
             g2 == q.dashboard
  <1>1. (f # None => f.requests \subseteq Made) /\ (f2 # None => f2.requests \subseteq Made)
    BY LivePairsAre
  <1>2. /\ RequestIds(f) \cup Ids(s) \subseteq RequestIds(f2) \cup Ids(t)
        /\ Rates(f) \subseteq Rates(f2) /\ Users(g) \subseteq Users(g2)
        /\ w \cup Charges(g) \subseteq u \cup Charges(g2)
    OBVIOUS
  <1> HIDE DEF f, g, f2, g2
  <1> DEFINE R(h, x) == (IF h = None THEN {} ELSE h.requests) \cup x
             Req(h, x) == {<<"request", r.id, Who(r)>> : r \in R(h, x)}
             Pri(h) == IF h = None THEN {}
                       ELSE {<<"price", c.rule, c.rate>> : c \in {e \in h.prices : e.current}}
             Usa(h) == IF h = None THEN {} ELSE {<<"usage", a[2], 0>> : a \in h.archive}
             Unp(h, x) == {<<"unpriced", c, 0>> : c \in x \cup (IF h = None THEN {} ELSE h.unpriced)}
  <1>3. Req(f, s) \subseteq Req(f2, t)
    <2>1. \A r \in R(f, s) \cup R(f2, t) : Who(r) = Maker(r.id)
      BY <1>1 DEF Made
    <2>2. \A r \in R(f, s) : \E c \in R(f2, t) : c.id = r.id
      BY <1>2 DEF RequestIds, Ids
    <2> HIDE DEF R
    <2>3. \A r \in R(f, s) : \E c \in R(f2, t) :
              <<"request", r.id, Who(r)>> = <<"request", c.id, Who(c)>>
      BY <2>1, <2>2
    <2> QED BY <2>3
  <1>4. Pri(f) \subseteq Pri(f2)
    BY <1>2 DEF Rates
  <1>5. Usa(g) \subseteq Usa(g2)
    <2>1. CASE g = None
      BY <2>1
    <2>2. CASE g # None
      <3>1. \A a \in g.archive : g2 # None /\ \E b \in g2.archive : b[2] = a[2]
        BY <1>2, <2>2 DEF Users
      <3>2. \A a \in g.archive : \E b \in g2.archive : <<"usage", a[2], 0>> = <<"usage", b[2], 0>>
        BY <3>1
      <3>3. CASE g2 = None
        BY <2>2, <3>1, <3>3
      <3>4. CASE g2 # None
        BY <2>2, <3>2, <3>4
      <3> QED BY <3>3, <3>4
    <2> QED BY <2>1, <2>2
  <1>6. Unp(g, w) \subseteq Unp(g2, u)
    BY <1>2 DEF Charges
  <1>7. /\ Facts(f, g, s, w) = Req(f, s) \cup Pri(f) \cup Usa(g) \cup Unp(g, w)
        /\ Facts(f2, g2, t, u) = Req(f2, t) \cup Pri(f2) \cup Usa(g2) \cup Unp(g2, u)
    BY DEF Facts
  <1> HIDE DEF Req, Pri, Usa, Unp
  <1> QED BY <1>3, <1>4, <1>5, <1>6, <1>7 DEF f, g, f2, g2

LEMMA ClosedStep ==
  ASSUME Inv, step \in Deciders, UNCHANGED <<manifest, kept, reports, serving, asked>>,
         step' \in Deciders \cup {"off", "recover"}, step' = "recover" => left' = <<>>,
         step' \in {"begin", "started"} => job' \in Kinds,
         db' \in LivePairs, spool' \subseteq Made, snap' \in Releases \cup {None},
         Carries, Alignable(db'), Fits(snap', db'), Decided'
  PROVE  Inv'
  <1>1. ~ Open /\ ~ Open' /\ ~ serving
    BY DEF Inv, Backed, TypeOK, Open, Deciders
  <1>2. /\ Visible = db /\ Visible' = db'
        /\ VisibleSpool = spool /\ VisibleSpool' = spool'
    BY <1>1 DEF Visible, VisibleSpool
  <1>3. TypeOK'
    BY <1>1 DEF Inv, TypeOK, Deciders, Late
  <1>4. Backed' /\ Shadowed' /\ Recovering'
    BY <1>1 DEF Backed, Shadowed, Recovering, Deciders, Late
  <1>5. InForce'
    BY <1>1, <1>2 DEF InForce
  <1>6. NothingLost'
    <2>1. db \in LivePairs /\ spool \in SUBSET Made /\ spool' \in SUBSET Made
      BY DEF Inv, TypeOK
    <2>2. /\ RequestIds(db.proxy) \cup Ids(spool) \subseteq RequestIds(db'.proxy) \cup Ids(spool')
          /\ Rates(db.proxy) \subseteq Rates(db'.proxy)
          /\ Users(db.dashboard) \subseteq Users(db'.dashboard)
          /\ Charges(db.dashboard) \subseteq Charges(db'.dashboard)
      BY DEF Carries
    <2>4. reports \cup Charges(db.dashboard) \subseteq reports \cup Charges(db'.dashboard)
      BY <2>2
    <2>5. Facts(db.proxy, db.dashboard, spool, reports)
            \subseteq Facts(db'.proxy, db'.dashboard, spool', reports)
      BY <2>1, <2>2, <2>4, Carried DEF Inv, TypeOK
    <2>3. kept \subseteq Facts(db.proxy, db.dashboard, spool, reports)
      BY <1>2 DEF Inv, NothingLost
    <2> QED BY <1>2, <2>5, <2>3 DEF NothingLost
  <1> QED BY <1>3, <1>4, <1>5, <1>6 DEF Inv

(* A decision that changes no file.                                        *)
LEMMA DecideStep ==
  ASSUME Inv, step \in Deciders, UNCHANGED <<db, spool, snap, reports, manifest, kept, serving, asked>>,
         step' \in Deciders \cup {"off"}, step' \in {"begin", "started"} => job' \in Kinds,
         Decided'
  PROVE  Inv'
  <1>1. ~ Open
    BY DEF Inv, Backed
  <1>2. Alignable(db) /\ Fits(snap, db)
    BY <1>1 DEF Inv, InForce, Visible
  <1>3. /\ db' \in LivePairs /\ spool' \subseteq Made /\ snap' \in Releases \cup {None}
        /\ Alignable(db') /\ Fits(snap', db')
    BY <1>2 DEF Inv, TypeOK
  <1>4. Carries
    BY DEF Carries
  <1> QED BY <1>3, <1>4, ClosedStep DEF Deciders

(* What a new, empty file changes.                                         *)
LEMMA EmptyFiles ==
  ASSUME NEW v \in Releases, v[1] = 1
  PROVE  /\ Empty("proxy", v) \in GoodProxies /\ Empty("proxy", v).ver = v
         /\ Empty("dashboard", v) \in GoodDashboards /\ Empty("dashboard", v).ver = v
         /\ InOrder(Empty("dashboard", v))
  <1>1. /\ Empty("proxy", v) \in Proxies /\ Empty("proxy", v).ver = v
        /\ Empty("proxy", v).requests = {}
    BY DEF Empty, Stored, Proxies, Versions
  <1>2. /\ Empty("dashboard", v) \in StoredDashboards /\ Empty("dashboard", v).ver = v
        /\ Empty("dashboard", v).archive = {}
    BY DEF Empty, StoredDashboards, Dashboards, Versions
  <1> HIDE DEF Empty
  <1>3. Empty("proxy", v) \in GoodProxies
    BY <1>1 DEF GoodProxies, Stored
  <1>4. Empty("dashboard", v) \in GoodDashboards
    BY <1>2 DEF GoodDashboards
  <1> QED BY <1>1, <1>2, <1>3, <1>4 DEF InOrder

LEMMA OneIsReleased == \A v \in Versions : v[1] = 1 => v \in Releases
  BY BlankFiles DEF Versions

LEMMA PutProxy ==
  ASSUME NEW p \in LivePairs, NEW f \in GoodProxies \cup {Blank("proxy")}
  PROVE  LET x == [p EXCEPT !["proxy"] = f]
         IN  x \in LivePairs /\ x.proxy = f /\ x.dashboard = p.dashboard
  BY LivePairsAre DEF LivePairs

LEMMA PutDashboard ==
  ASSUME NEW p \in LivePairs, NEW g \in GoodDashboards \cup {Blank("dashboard")}
  PROVE  LET x == [p EXCEPT !["dashboard"] = g]
         IN  x \in LivePairs /\ x.dashboard = g /\ x.proxy = p.proxy
  BY LivePairsAre DEF LivePairs

LEMMA EmptyStep ==
  ASSUME NEW d \in DB, db \in LivePairs, db[d] \in {None, Blank(d)},
         NEW v \in Versions, v[1] = 1 \/ v = NoVersion,
         db' = [db EXCEPT ![d] = Empty(d, v)], UNCHANGED <<spool, snap>>,
         Alignable(db), Fits(snap, db)
  PROVE  /\ db' \in LivePairs /\ Carries /\ Alignable(db') /\ Fits(snap', db')
         /\ d = "proxy" => db'.proxy # None /\ db'.proxy.ver = v /\ db'.dashboard = db.dashboard
         /\ d = "dashboard" => /\ db'.dashboard # None /\ db'.dashboard.ver = v
                               /\ InOrder(db'.dashboard) /\ db'.proxy = db.proxy
  <1>1. CASE d = "proxy"
    <2> DEFINE f == Empty("proxy", v)
    <2>1. f \in GoodProxies \cup {Blank("proxy")} /\ f.ver = v /\ f # None
      <3>1. CASE v[1] = 1
        BY <3>1, OneIsReleased, EmptyFiles, GoodFiles
      <3>2. CASE v = NoVersion
        BY <3>2, BlankFiles DEF Blank
      <3> QED BY <3>1, <3>2
    <2> HIDE DEF f
    <2>2. /\ db' \in LivePairs /\ db'.proxy = f /\ db'.dashboard = db.dashboard
          /\ db.proxy \in {None, Blank("proxy")}
      BY <1>1, <2>1, PutProxy DEF f
    <2>3. Carries
      BY <2>2, BlankFiles DEF Carries, RequestIds, Rates, Ids
    <2>4. Alignable(db')
      BY <2>2, BlankFiles DEF Alignable, Ordered, Complete2
    <2>5. Fits(snap', db')
      BY <2>2, BlankFiles DEF Fits
    <2> QED BY <1>1, <2>1, <2>2, <2>3, <2>4, <2>5
  <1>2. CASE d = "dashboard"
    <2> DEFINE g == Empty("dashboard", v)
    <2>1. g \in GoodDashboards \cup {Blank("dashboard")} /\ g.ver = v /\ g # None /\ InOrder(g)
      <3>1. CASE v[1] = 1
        BY <3>1, OneIsReleased, EmptyFiles, GoodFiles
      <3>2. CASE v = NoVersion
        BY <3>2, BlankFiles DEF Blank
      <3> QED BY <3>1, <3>2
    <2> HIDE DEF g
    <2>2. /\ db' \in LivePairs /\ db'.dashboard = g /\ db'.proxy = db.proxy
          /\ db.dashboard \in {None, Blank("dashboard")}
      BY <1>2, <2>1, PutDashboard DEF g
    <2>3. Carries
      BY <2>2, BlankFiles DEF Carries, Users, Charges
    <2>4. Alignable(db')
      BY <2>1, <2>2 DEF Alignable, Ordered
    <2>5. Fits(snap', db')
      BY <2>2 DEF Fits
    <2> QED BY <1>2, <2>1, <2>2, <2>3, <2>4, <2>5
  <1> QED BY <1>1, <1>2 DEF DB

-----------------------------------------------------------------------------
(* The decisions and the conversions of single files.                      *)

LEMMA WhileClosed ==
  ASSUME Inv, step \in Deciders
  PROVE  /\ ~ Open /\ Visible = db /\ VisibleSpool = spool /\ ~ serving
         /\ db \in LivePairs /\ spool \subseteq Made /\ snap \in Releases \cup {None}
         /\ Alignable(db) /\ Fits(snap, db)
  <1>1. ~ Open /\ ~ serving /\ db \in LivePairs /\ spool \subseteq Made /\ snap \in Releases \cup {None}
    BY DEF Inv, TypeOK, Backed, Deciders
  <1> QED BY <1>1 DEF Inv, InForce, Visible, VisibleSpool

LEMMA MajorIs ==
  ASSUME NEW d \in DB, db \in LivePairs
  PROVE  /\ Major(d) = -1 <=> db[d] \in {None, Blank(d)}
         /\ db[d] # None => Major(d) = db[d].ver[1] /\ db[d].ver[1] \in Int
         /\ Major(d) # -1 => db[d] # None
  BY LivePairsAre DEF Major, DB

LEMMA InspectPairKeeps ==
  ASSUME Inv, InspectPair
  PROVE  Inv'
  <1>1. step = "inspect" /\ step \in Deciders /\ UNCHANGED <<db, spool, snap, reports, manifest, kept, serving, asked>>
    BY DEF InspectPair, Deciding, files, budget, Deciders
  <1>2. db \in LivePairs
    BY <1>1, WhileClosed
  <1>3. /\ Major("proxy") = -1 => db.proxy \in {None, Blank("proxy")}
        /\ Major("dashboard") = -1 => db.dashboard \in {None, Blank("dashboard")}
        /\ Major("proxy") = 0 => db.proxy # None /\ db.proxy.ver[1] = 0
        /\ Major("dashboard") = 0 => db.dashboard # None /\ db.dashboard.ver[1] = 0
    BY <1>2, MajorIs DEF DB
  <1>4. \/ /\ step' = "fresh" /\ db.proxy \in {None, Blank("proxy")}
           /\ db.dashboard \in {None, Blank("dashboard")}
        \/ step' = "begin" /\ job' = "rebuild" /\ Majors(db, {0})
        \/ step' \in {"off", "proxy_artifact"}
    BY <1>3 DEF InspectPair, Goto, Run, Refuse, Majors, Complete2
  <1>5. Decided'
    BY <1>1, <1>4 DEF Decided, Source, Majors
  <1> QED BY <1>1, <1>4, <1>5, DecideStep DEF Deciders, Kinds

(* The file being created is absent or blank.                              *)
LEMMA CreatingIs ==
  ASSUME Inv, NEW d \in Creating
  PROVE  /\ d \in DB /\ step \in {"fresh", "missing"} /\ db[d] \in {None, Blank(d)}
         /\ step = "missing" => db[d] = None
  <1>1. d \in DB /\ step \in {"fresh", "missing"} /\ (step = "fresh" \/ db[d] = None)
    BY DEF Creating, Unborn, DB
  <1>2. CASE step = "fresh"
    <2>1. Major(d) = -1
      BY <1>2 DEF Creating, Unborn
    <2>2. db \in LivePairs
      BY <1>2, WhileClosed DEF Deciders
    <2> QED BY <1>1, <1>2, <2>1, <2>2, MajorIs
  <1> QED BY <1>1, <1>2

LEMMA CreateFreshKeeps ==
  ASSUME Inv, CreateFresh
  PROVE  Inv'
  <1>1. /\ step = "fresh" /\ step \in Deciders
        /\ db \in LivePairs /\ Alignable(db) /\ Fits(snap, db)
        /\ spool \subseteq Made /\ snap \in Releases \cup {None}
        /\ db.dashboard \in {None, Blank("dashboard")}
        /\ db.proxy \in {None, Blank("proxy")} \/ db.proxy.ver[1] = 1
    BY WhileClosed DEF CreateFresh, Deciders, Inv, Decided
  <1>2. PICK d \in Creating : /\ Write(d, Empty(d, V1Tip[d]))
                              /\ IF d = "proxy" THEN Goto("fresh") ELSE Run("v2")
    BY DEF CreateFresh
  <1> DEFINE v == V1Tip[d]
  <1>3. d \in DB /\ db[d] \in {None, Blank(d)} /\ (d = "dashboard" => ~ Unborn("proxy"))
    BY CreatingIs DEF Creating
  <1>4. /\ v \in Releases /\ v \in Versions /\ v[1] = 1
        /\ d = "proxy" => v = <<1, 21>>
        /\ d = "dashboard" => v = <<1, 7>>
    BY <1>3, TargetsAre DEF DB, Versions
  <1> HIDE DEF v
  <1>5. /\ db' = [db EXCEPT ![d] = Empty(d, v)]
        /\ UNCHANGED <<spool, snap, manifest, kept, reports, serving, asked>>
        /\ d = "proxy" => step' = "fresh"
        /\ d # "proxy" => step' = "begin" /\ job' = "v2"
    BY <1>2 DEF Write, Goto, Run, budget, v
  <1>6. /\ db' \in LivePairs /\ Carries /\ Alignable(db') /\ Fits(snap', db')
        /\ d = "proxy" => db'.proxy # None /\ db'.proxy.ver = v /\ db'.dashboard = db.dashboard
        /\ d = "dashboard" => /\ db'.dashboard # None /\ db'.dashboard.ver = v
                              /\ InOrder(db'.dashboard) /\ db'.proxy = db.proxy
    BY <1>1, <1>3, <1>4, <1>5, EmptyStep
  <1>7. CASE d = "proxy"
    <2>1. Decided'
      BY <1>1, <1>4, <1>5, <1>6, <1>7 DEF Decided
    <2> QED BY <1>1, <1>5, <1>6, <1>7, <2>1, ClosedStep DEF Deciders
  <1>8. CASE d = "dashboard"
    <2>1. Major("proxy") # -1
      BY <1>1, <1>3, <1>8 DEF Unborn
    <2>2. db.proxy # None /\ db.proxy.ver[1] = 1
      BY <1>1, <2>1, MajorIs DEF DB
    <2>3. Decided'
      BY <1>4, <1>5, <1>6, <1>8, <2>2 DEF Decided, Source, Majors, Complete2, Ordered
    <2> QED BY <1>1, <1>5, <1>6, <1>8, <2>3, ClosedStep DEF Deciders, Kinds
  <1> QED BY <1>3, <1>7, <1>8 DEF DB

LEMMA UpgradeProxyArtifactKeeps ==
  ASSUME Inv, UpgradeProxyArtifact
  PROVE  Inv'
  <1>1. /\ step = "proxy_artifact" /\ step \in Deciders
        /\ db \in LivePairs /\ Alignable(db) /\ Fits(snap, db)
        /\ spool \subseteq Made /\ snap \in Releases \cup {None}
    BY WhileClosed DEF UpgradeProxyArtifact, Deciders
  <1>2. CASE Major("proxy") = 0
    <2> DEFINE f == db.proxy
               g == ProxyArtifact(f)
    <2>1. /\ db' = [db EXCEPT !["proxy"] = g] /\ step' = "artifact_spool"
          /\ UNCHANGED <<spool, snap, manifest, kept, reports, serving, asked>>
      BY <1>2 DEF UpgradeProxyArtifact, Write, Goto, budget
    <2>2. f # None /\ f \in GoodProxies /\ f.ver[1] = 0
      BY <1>1, <1>2, MajorIs, LivePairsAre DEF DB
    <2>3. g \in GoodProxies /\ ProxyGrows(f, g) /\ Ids(spool) \subseteq RequestIds(g)
      BY <1>1, <2>2, ProxyArtifactGrows
    <2>4. g # None
      BY <2>3, GoodFiles
    <2> HIDE DEF g
    <2>5. db' \in LivePairs /\ db'.proxy = g /\ db'.dashboard = db.dashboard
      BY <1>1, <2>1, <2>3, PutProxy
    <2>6. Carries
      BY <2>1, <2>3, <2>5 DEF Carries, ProxyGrows
    <2>7. Alignable(db') /\ Fits(snap', db')
      BY <1>1, <2>1, <2>2, <2>5 DEF Alignable, Ordered, Fits
    <2>8. Decided'
      BY <2>1, <2>3, <2>4, <2>5 DEF Decided, RequestIds
    <2> QED BY <1>1, <2>1, <2>5, <2>6, <2>7, <2>8, ClosedStep DEF Deciders
  <1>3. CASE Major("proxy") # 0
    <2>1. /\ step' = "dashboard_artifact"
          /\ UNCHANGED <<db, spool, snap, manifest, kept, reports, serving, asked>>
      BY <1>3 DEF UpgradeProxyArtifact, Deciding, Goto, budget, files
    <2>2. Decided'
      BY <2>1 DEF Decided
    <2> QED BY <1>1, <2>1, <2>2, DecideStep DEF Deciders
  <1> QED BY <1>2, <1>3

LEMMA RemoveArtifactSpoolKeeps ==
  ASSUME Inv, RemoveArtifactSpool
  PROVE  Inv'
  <1>1. /\ step = "artifact_spool" /\ step \in Deciders
        /\ db \in LivePairs /\ Alignable(db) /\ Fits(snap, db) /\ snap \in Releases \cup {None}
        /\ db.proxy # None /\ Ids(spool) \subseteq Ids(db.proxy.requests)
    BY WhileClosed DEF RemoveArtifactSpool, Deciders, Inv, Decided
  <1>2. /\ spool' = {} /\ step' = "dashboard_artifact"
        /\ UNCHANGED <<db, snap, reports, manifest, kept, serving, asked>>
    BY DEF RemoveArtifactSpool, Goto, budget
  <1>3. Carries
    BY <1>1, <1>2 DEF Carries, RequestIds
  <1>4. Decided'
    BY <1>2 DEF Decided
  <1>5. spool' \subseteq Made /\ db' \in LivePairs /\ Alignable(db') /\ Fits(snap', db')
    BY <1>1, <1>2
  <1> QED BY <1>1, <1>2, <1>3, <1>4, <1>5, ClosedStep DEF Deciders

LEMMA UpgradeDashboardArtifactKeeps ==
  ASSUME Inv, UpgradeDashboardArtifact
  PROVE  Inv'
  <1>1. /\ step = "dashboard_artifact" /\ step \in Deciders
        /\ db \in LivePairs /\ Alignable(db) /\ Fits(snap, db)
        /\ spool \subseteq Made /\ snap \in Releases \cup {None}
    BY WhileClosed DEF UpgradeDashboardArtifact, Deciders
  <1> DEFINE g == DashboardArtifact(db)
  <1>2. CASE /\ Major("dashboard") = 0 /\ Major("proxy") # -1
             /\ Write("dashboard", g) /\ Goto("missing")
    <2>1. /\ db' = [db EXCEPT !["dashboard"] = g] /\ step' = "missing"
          /\ UNCHANGED <<spool, snap, manifest, kept, reports, serving, asked>>
      BY <1>2 DEF Write, Goto, budget
    <2>2. db.dashboard # None /\ db.dashboard.ver[1] = 0 /\ db \in GoodPairs
      <3>1. db.dashboard # None /\ db.dashboard.ver[1] = 0
        BY <1>1, <1>2, MajorIs DEF DB
      <3> QED BY <1>1, <1>2, <3>1, MajorIs, Born DEF DB, Complete2
    <2>3. g \in GoodDashboards /\ DashboardGrows(db.dashboard, g) /\ InOrder(g)
      BY <1>1, <2>2, DashboardArtifactGrows
    <2> HIDE DEF g
    <2>4. db' \in LivePairs /\ db'.dashboard = g /\ db'.proxy = db.proxy
      BY <1>1, <2>1, <2>3, PutDashboard
    <2>5. Carries
      BY <2>1, <2>3, <2>4 DEF Carries, DashboardGrows
    <2>6. Alignable(db') /\ Fits(snap', db')
      BY <1>1, <2>1, <2>3, <2>4 DEF Alignable, Ordered, Fits
    <2>7. Decided'
      BY <2>1 DEF Decided
    <2> QED BY <1>1, <2>1, <2>4, <2>5, <2>6, <2>7, ClosedStep DEF Deciders
  <1>3. CASE Deciding /\ (Goto("missing") \/ Goto("off"))
    <2>1. /\ step' \in {"missing", "off"}
          /\ UNCHANGED <<db, spool, snap, manifest, kept, reports, serving, asked>>
      BY <1>3 DEF Deciding, Goto, budget, files
    <2>2. Decided'
      BY <2>1 DEF Decided
    <2> QED BY <1>1, <2>1, <2>2, DecideStep DEF Deciders
  <1> QED BY <1>2, <1>3 DEF UpgradeDashboardArtifact, Refuse

LEMMA CreateMissingKeeps ==
  ASSUME Inv, CreateMissing
  PROVE  Inv'
  <1>1. /\ step = "missing" /\ step \in Deciders
        /\ db \in LivePairs /\ Alignable(db) /\ Fits(snap, db)
        /\ spool \subseteq Made /\ snap \in Releases \cup {None}
    BY WhileClosed DEF CreateMissing, Deciders
  <1>2. ASSUME NEW d \in Creating, Write(d, Empty(d, V1Tip[d])), Goto("missing")
        PROVE  Inv'
    <2>1. /\ db' = [db EXCEPT ![d] = Empty(d, V1Tip[d])] /\ step' = "missing"
          /\ d \in DB /\ db[d] \in {None, Blank(d)}
          /\ UNCHANGED <<spool, snap, manifest, kept, reports, serving, asked>>
      BY <1>2, CreatingIs DEF Write, Goto, budget
    <2>2. V1Tip[d] \in Versions /\ V1Tip[d][1] = 1
      BY <2>1, TargetsAre DEF DB, Versions
    <2>3. db' \in LivePairs /\ Carries /\ Alignable(db') /\ Fits(snap', db')
      BY <1>1, <2>1, <2>2, EmptyStep
    <2>4. Decided'
      BY <2>1 DEF Decided
    <2> QED BY <1>1, <2>1, <2>3, <2>4, ClosedStep DEF Deciders
  <1>3. CASE Deciding /\ Goto("compare")
    <2>1. /\ step' = "compare"
          /\ UNCHANGED <<db, spool, snap, manifest, kept, reports, serving, asked>>
      BY <1>3 DEF Deciding, Goto, budget, files
    <2>2. Decided'
      BY <2>1 DEF Decided
    <2> QED BY <1>1, <2>1, <2>2, DecideStep DEF Deciders
  <1> QED BY <1>2, <1>3 DEF CreateMissing

(* A V1 pair no route is left for has its archive in order.                *)
LEMMA IdentityLeft ==
  ASSUME NEW p \in GoodPairs, Majors(p, {1}), "agent-identity" \notin p.dashboard.done
  PROVE  \E r \in Selected("local-pair", p) : r.id = "agent-identity"
  <1> DEFINE r == Route("agent-identity", 2, "local-pair",
                        [proxy |-> V1Any, dashboard |-> V1Any],
                        [proxy |-> <<1, 8>>, dashboard |-> <<1, 3>>])
  <1>1. /\ p.proxy # None /\ p.dashboard # None
        /\ p.proxy.ver[1] = 1 /\ p.dashboard.ver[1] = 1
        /\ p.proxy.ver \in Releases /\ p.dashboard.ver \in Releases
    BY GoodPairsAre DEF Majors, Complete2
  <1>2. /\ r \in Routes /\ r.id = "agent-identity" /\ r.scope = "local-pair"
        /\ r.current = [proxy |-> V1Any, dashboard |-> V1Any]
    BY DEF Routes, Route
  <1> HIDE DEF r
  <1>3. \A d \in DOMAIN r.current : p[d] # None /\ RangeHas(r.current[d], p[d].ver)
    <2>1. RangeHas(V1Any, p.proxy.ver) /\ RangeHas(V1Any, p.dashboard.ver)
      BY <1>1 DEF RangeHas, V1Any, Within, Releases
    <2>2. /\ DOMAIN r.current = {"proxy", "dashboard"}
          /\ r.current["proxy"] = V1Any /\ r.current["dashboard"] = V1Any
      BY <1>2
    <2> QED BY <1>1, <2>1, <2>2
  <1>4. ~ Complete("local-pair", p, r)
    BY <1>2 DEF Complete, Published, DB
  <1> QED BY <1>2, <1>3, <1>4 DEF Selected, Matching

LEMMA ComparePairKeeps ==
  ASSUME Inv, ComparePair
  PROVE  Inv'
  <1>1. /\ step = "compare" /\ step \in Deciders
        /\ db \in LivePairs /\ Alignable(db)
        /\ UNCHANGED <<db, spool, snap, reports, manifest, kept, serving, asked>>
    BY WhileClosed DEF ComparePair, Deciding, files, budget, Deciders
  <1> DEFINE majors == {Major(d) : d \in DB}
  <1>2. majors = {Major("proxy"), Major("dashboard")}
    BY DEF DB
  <1>3. /\ Major("proxy") # -1 => db.proxy # None
        /\ Major("dashboard") # -1 => db.dashboard # None
        /\ db.proxy # None => Major("proxy") = db.proxy.ver[1]
        /\ db.dashboard # None => Major("dashboard") = db.dashboard.ver[1]
    BY <1>1, MajorIs DEF DB
  <1>4. CASE step' = "off"
    <2>1. Decided'
      BY <1>4 DEF Decided
    <2> QED BY <1>1, <1>4, <2>1, DecideStep
  <1>5. CASE majors = {1, 2} /\ Run("v2")
    <2>1. Majors(db, {1, 2}) /\ Ordered(db)
      BY <1>1, <1>2, <1>3, <1>5 DEF Majors, Complete2, Alignable
    <2>2. step' = "begin" /\ job' = "v2"
      BY <1>5 DEF Run
    <2>3. Decided'
      BY <1>1, <2>1, <2>2 DEF Decided, Source, Majors
    <2> QED BY <1>1, <2>2, <2>3, DecideStep DEF Deciders, Kinds
  <1>6. CASE majors = {2} /\ (IF PairAtTip THEN Goto("snapshot") ELSE Run("minor"))
    <2>1. Majors(db, {1, 2}) /\ Ordered(db)
      BY <1>1, <1>2, <1>3, <1>6 DEF Majors, Complete2, Alignable
    <2>2. \/ step' = "snapshot" /\ AtTip(db)
          \/ step' = "begin" /\ job' = "minor"
      BY <1>6, <2>1 DEF Run, Goto, PairAtTip, AtTip, Majors, At, DB
    <2>3. Decided'
      BY <1>1, <2>1, <2>2 DEF Decided, Source, Majors
    <2> QED BY <1>1, <2>2, <2>3, DecideStep DEF Deciders, Kinds
  <1>7. CASE /\ majors = {1}
             /\ IF Selected("local-pair", db) # {} THEN Run("copy") ELSE Goto("in_place")
    <2>1. Majors(db, {1})
      BY <1>1, <1>2, <1>3, <1>7 DEF Majors, Complete2
    <2>2. Selected("local-pair", db) = {} => Ordered(db)
      BY <1>1, <2>1, IdentityLeft, Born DEF Alignable, Majors
    <2>3. \/ step' = "begin" /\ job' = "copy"
          \/ step' = "in_place" /\ Ordered(db)
      BY <1>7, <2>2 DEF Run, Goto
    <2>4. Decided'
      BY <1>1, <2>1, <2>3 DEF Decided, Source, Majors
    <2> QED BY <1>1, <2>3, <2>4, DecideStep DEF Deciders, Kinds
  <1>8. \/ step' = "off"
        \/ majors = {1, 2} /\ Run("v2")
        \/ majors = {2} /\ (IF PairAtTip THEN Goto("snapshot") ELSE Run("minor"))
        \/ /\ majors = {1}
           /\ IF Selected("local-pair", db) # {} THEN Run("copy") ELSE Goto("in_place")
    BY DEF ComparePair, Refuse, Goto
  <1> QED BY <1>4, <1>5, <1>6, <1>7, <1>8

LEMMA UpgradeInPlaceKeeps ==
  ASSUME Inv, UpgradeInPlace
  PROVE  Inv'
  <1>1. /\ step = "in_place" /\ step \in Deciders
        /\ db \in LivePairs /\ Alignable(db) /\ Fits(snap, db)
        /\ spool \subseteq Made /\ snap \in Releases \cup {None}
        /\ Majors(db, {1}) /\ Ordered(db)
    BY WhileClosed DEF UpgradeInPlace, Deciders, Inv, Decided
  <1>2. /\ db.proxy # None /\ db.proxy \in GoodProxies /\ db.proxy.ver[1] = 1
        /\ db.dashboard # None /\ db.dashboard \in GoodDashboards /\ db.dashboard.ver[1] = 1
        /\ InOrder(db.dashboard)
    BY <1>1, Born, GoodPairsAre DEF Majors, Complete2, Ordered
  <1>3. CASE Write("proxy", Sql("proxy", db.proxy, V1Tip.proxy)) /\ Goto("in_place")
    <2> DEFINE f == Sql("proxy", db.proxy, V1Tip.proxy)
    <2>1. /\ db' = [db EXCEPT !["proxy"] = f] /\ step' = "in_place"
          /\ UNCHANGED <<spool, snap, manifest, kept, reports, serving, asked>>
      BY <1>3 DEF Write, Goto, budget
    <2>2. /\ f \in GoodProxies \cup {None} /\ ProxyGrows(db.proxy, f)
          /\ f.ver = IF Older(db.proxy.ver, V1Tip.proxy) THEN V1Tip.proxy ELSE db.proxy.ver
      BY <1>2, SqlGoodProxy, TargetsAre
    <2>3. f \in GoodProxies /\ f # None /\ f.ver[1] = 1
      BY <1>2, <2>2, TargetsAre DEF ProxyGrows
    <2> HIDE DEF f
    <2>4. db' \in LivePairs /\ db'.proxy = f /\ db'.dashboard = db.dashboard
      BY <1>1, <2>1, <2>3, PutProxy
    <2>5. Carries
      BY <2>1, <2>2, <2>4 DEF Carries, ProxyGrows
    <2>6. Alignable(db') /\ Fits(snap', db')
      BY <1>1, <1>2, <2>1, <2>4 DEF Alignable, Ordered, Fits
    <2>7. Decided'
      BY <1>1, <1>2, <2>1, <2>3, <2>4 DEF Decided, Majors, Complete2, Ordered
    <2> QED BY <1>1, <2>1, <2>4, <2>5, <2>6, <2>7, ClosedStep DEF Deciders
  <1>4. CASE Write("dashboard", Sql("dashboard", db.dashboard, V1Tip.dashboard)) /\ Goto("in_place")
    <2> DEFINE g == Sql("dashboard", db.dashboard, V1Tip.dashboard)
    <2>1. /\ db' = [db EXCEPT !["dashboard"] = g] /\ step' = "in_place"
          /\ UNCHANGED <<spool, snap, manifest, kept, reports, serving, asked>>
      BY <1>4 DEF Write, Goto, budget
    <2>2. /\ g \in GoodDashboards \cup {None} /\ DashboardGrows(db.dashboard, g)
          /\ g.ver = IF Older(db.dashboard.ver, V1Tip.dashboard) THEN V1Tip.dashboard
                     ELSE db.dashboard.ver
      BY <1>2, SqlGoodDashboard, TargetsAre
    <2>3. g \in GoodDashboards /\ g # None /\ g.ver[1] = 1 /\ InOrder(g)
      BY <1>2, <2>2, TargetsAre DEF DashboardGrows
    <2> HIDE DEF g
    <2>4. db' \in LivePairs /\ db'.dashboard = g /\ db'.proxy = db.proxy
      BY <1>1, <2>1, <2>3, PutDashboard
    <2>5. Carries
      BY <2>1, <2>2, <2>4 DEF Carries, DashboardGrows
    <2>6. Alignable(db') /\ Fits(snap', db')
      BY <1>1, <1>2, <2>1, <2>3, <2>4 DEF Alignable, Ordered, Fits
    <2>7. Decided'
      BY <1>1, <1>2, <2>1, <2>3, <2>4 DEF Decided, Majors, Complete2, Ordered
    <2> QED BY <1>1, <2>1, <2>4, <2>5, <2>6, <2>7, ClosedStep DEF Deciders
  <1>5. CASE Deciding /\ Goto("snapshot")
    <2>1. /\ step' = "snapshot"
          /\ UNCHANGED <<db, spool, snap, manifest, kept, reports, serving, asked>>
      BY <1>5 DEF Deciding, Goto, budget, files
    <2>2. Decided'
      BY <1>1, <2>1 DEF Decided, Majors, Ordered, Complete2
    <2> QED BY <1>1, <2>1, <2>2, DecideStep DEF Deciders
  <1> QED BY <1>3, <1>4, <1>5 DEF UpgradeInPlace

LEMMA UpgradeSnapshotKeeps ==
  ASSUME Inv, UpgradeSnapshot
  PROVE  Inv'
  <1>1. /\ step = "snapshot" /\ step \in Deciders
        /\ db \in LivePairs /\ Alignable(db) /\ Fits(snap, db)
        /\ spool \subseteq Made /\ snap \in Releases \cup {None}
        /\ (AtTip(db) \/ Majors(db, {1})) /\ Ordered(db)
    BY WhileClosed DEF UpgradeSnapshot, Deciders, Inv, Decided
  <1>2. /\ UNCHANGED <<db, spool, manifest, kept, reports, serving, asked>>
        /\ \/ (\A d \in DB : Major(d) = 1) /\ step' = "begin" /\ job' = "v2"
           \/ ~ (\A d \in DB : Major(d) = 1) /\ step' = "done"
    BY DEF UpgradeSnapshot, Run, Goto, budget
  <1>3. /\ db.proxy # None /\ db.dashboard # None
        /\ db.proxy.ver \in Releases /\ Tip.proxy \in Releases
        /\ Major("proxy") = db.proxy.ver[1] /\ Major("dashboard") = db.dashboard.ver[1]
        /\ AtTip(db) => db.proxy.ver[1] = 2 /\ db.proxy.ver = Tip.proxy
        /\ ~ AtTip(db) => db.proxy.ver[1] = 1 /\ db.dashboard.ver[1] = 1
    BY <1>1, MajorIs, LivePairsAre, TargetsAre DEF AtTip, Majors, Complete2, DB
  <1>4. \/ snap = None /\ snap' = None
        \/ snap # None /\ snap[1] = 1 /\ snap' = Tip.proxy
        \/ snap # None /\ snap[1] = 0 /\ snap' = db.proxy.ver
        \/ snap # None /\ snap[1] \notin {0, 1} /\ snap' = snap
    BY DEF UpgradeSnapshot
  <1>5. snap' \in Releases \cup {None} /\ Fits(snap', db')
    BY <1>1, <1>2, <1>3, <1>4 DEF Fits
  <1>6. AtTip(db) => snap' \in {None, Tip.proxy}
    BY <1>1, <1>3, <1>4 DEF Fits
  <1>7. \/ step' = "begin" /\ job' = "v2" /\ Majors(db, {1, 2}) /\ Ordered(db)
        \/ step' = "done" /\ AtTip(db) /\ Ordered(db) /\ snap' \in {None, Tip.proxy}
    BY <1>1, <1>2, <1>3, <1>6 DEF Majors, Complete2, DB
  <1>8. Decided'
    BY <1>2, <1>7 DEF Decided, Source, Majors, AtTip, Ordered
  <1>9. Carries /\ spool' \subseteq Made /\ db' \in LivePairs /\ Alignable(db')
    BY <1>1, <1>2 DEF Carries
  <1> QED BY <1>1, <1>2, <1>5, <1>8, <1>9, ClosedStep DEF Deciders, Kinds

LEMMA WriteManifestKeeps ==
  ASSUME Inv, WriteManifest
  PROVE  Inv'
  <1>1. /\ step = "begin" /\ step \in Deciders /\ step' = "started" /\ job' = job
        /\ UNCHANGED <<db, spool, snap, reports, manifest, kept, serving, asked>>
    BY DEF WriteManifest, Proceed, Keep, files, budget, Deciders
  <1>2. job \in Kinds /\ Source(db)
    BY <1>1 DEF Inv, TypeOK, Decided
  <1>3. Decided'
    BY <1>1, <1>2 DEF Decided, Source, Majors, Complete2, Ordered
  <1> QED BY <1>1, <1>2, <1>3, DecideStep DEF Deciders

-----------------------------------------------------------------------------
(* Starts, stops and the recovery.                                         *)

(* A step that leaves the files alone and ends at rest or in a recovery.   *)
LEMMA RestStep ==
  ASSUME Inv, UNCHANGED <<db, spool, snap, reports, manifest, kept, asked>>,
         step' \in {"off", "recover"}, Recovering', serving' \in BOOLEAN,
         serving' => step' = "off" /\ db.proxy # None /\ db.proxy.ver = Tip.proxy
  PROVE  Inv'
  <1>1. TypeOK'
    BY DEF Inv, TypeOK, Deciders, Late
  <1>2. Backed' /\ Shadowed' /\ Decided'
    BY DEF Backed, Shadowed, Decided, Deciders, Late
  <1>3. InForce'
    BY DEF Inv, InForce, Open, Visible
  <1>4. NothingLost'
    BY DEF Inv, NothingLost, Open, Visible, VisibleSpool
  <1> QED BY <1>1, <1>2, <1>3, <1>4 DEF Inv

LEMMA ServicesKeep ==
  ASSUME Inv, Finish \/ StartCurrent \/ StartUnits
  PROVE  Inv'
  <1>1. /\ UNCHANGED <<db, spool, snap, reports, manifest, kept, asked>>
        /\ step' = "off" /\ serving' = TRUE
    BY DEF Finish, StartCurrent, StartUnits, Goto, files, budget
  <1>2. db.proxy # None /\ db.proxy.ver = Tip.proxy
    <2>1. CASE Finish
      BY <2>1 DEF Finish, Inv, Decided, AtTip, Complete2
    <2>2. CASE StartCurrent \/ StartUnits
      BY <2>2 DEF StartCurrent, StartUnits, Current, PairAtTip, At, DB
    <2> QED BY <2>1, <2>2
  <1>3. Recovering'
    BY <1>1 DEF Recovering
  <1> QED BY <1>1, <1>2, <1>3, RestStep

LEMMA Lists ==
  /\ Head(All) = "proxy" /\ Tail(All) = AfterProxy
  /\ Head(AfterProxy) = "dashboard" /\ Tail(AfterProxy) = AfterDashboard
  /\ Head(AfterDashboard) = "spool" /\ Tail(AfterDashboard) = AfterSpool
  /\ Head(AfterSpool) = "snap" /\ Tail(AfterSpool) = <<>>
  /\ Head(Both) = "proxy" /\ Tail(Both) = AfterFirst
  /\ Head(AfterFirst) = "dashboard" /\ Tail(AfterFirst) = <<>>
  /\ All # Both /\ AfterProxy # AfterFirst
  /\ {All, AfterProxy, Both, AfterFirst} \cap {<<>>, AfterDashboard, AfterSpool} = {}
  /\ {AfterProxy, AfterFirst} \cap {All, Both} = {}
  /\ AfterDashboard # AfterSpool /\ AfterDashboard # <<>> /\ AfterSpool # <<>>
  <1>1. /\ Len(All) = 4 /\ Len(AfterProxy) = 3 /\ Len(AfterDashboard) = 2 /\ Len(AfterSpool) = 1
        /\ Len(Both) = 2 /\ Len(AfterFirst) = 1 /\ Len(<<>>) = 0
    BY DEF All, AfterProxy, AfterDashboard, AfterSpool, Both, AfterFirst
  <1>2. Both[1] # AfterDashboard[1] /\ AfterFirst[1] # AfterSpool[1]
    BY DEF AfterDashboard, AfterSpool, Both, AfterFirst
  <1>3. /\ Head(All) = "proxy" /\ Tail(All) = AfterProxy
        /\ Head(AfterProxy) = "dashboard" /\ Tail(AfterProxy) = AfterDashboard
        /\ Head(AfterDashboard) = "spool" /\ Tail(AfterDashboard) = AfterSpool
        /\ Head(AfterSpool) = "snap" /\ Tail(AfterSpool) = <<>>
        /\ Head(Both) = "proxy" /\ Tail(Both) = AfterFirst
        /\ Head(AfterFirst) = "dashboard" /\ Tail(AfterFirst) = <<>>
    BY DEF All, AfterProxy, AfterDashboard, AfterSpool, Both, AfterFirst
  <1> QED BY <1>1, <1>2, <1>3

(* A recovery starts with all of its list to do.                           *)
LEMMA ToRestoreAll ==
  ASSUME UNCHANGED <<db, spool, manifest>>, step' = "recover", left' = ToRestore
  PROVE  Recovering'
  <1>1. CASE ~ Open
    BY <1>1, Lists DEF Recovering, ToRestore, Open, All, Both
  <1>2. CASE Open /\ manifest.full
    BY <1>2, Lists DEF Recovering, ToRestore, Open, All, Both
  <1>3. CASE Open /\ ~ manifest.full
    BY <1>3, Lists DEF Recovering, ToRestore, Open, All, Both
  <1> QED BY <1>1, <1>2, <1>3

LEMMA BeginKeeps ==
  ASSUME Inv, Begin
  PROVE  Inv'
  <1>1. /\ UNCHANGED <<db, spool, snap, reports, manifest, kept, asked>>
        /\ step' = "recover" /\ serving' = FALSE /\ left' = ToRestore
    BY DEF Begin, files, budget
  <1> QED BY <1>1, ToRestoreAll, RestStep

(* A creation cut short leaves at most one file more.                      *)
LEMMA CutShortKeeps ==
  ASSUME Inv, CutShort, UNCHANGED <<spool, snap, reports, manifest, kept, asked, serving>>,
         step # "off", step' \in {"off", "recover"}, step' = "recover" => left' = ToRestore
  PROVE  Inv'
  <1>1. serving' = FALSE
    BY DEF Inv, TypeOK
  <1>2. CASE UNCHANGED db
    <2>1. Recovering'
      BY <1>2, ToRestoreAll DEF Recovering
    <2> QED BY <1>1, <1>2, <2>1, RestStep
  <1>3. ASSUME NEW d \in Creating, NEW v \in {NoVersion, <<1, 0>>},
               db' = [db EXCEPT ![d] = Empty(d, v)]
        PROVE  Inv'
    <2>1. d \in DB /\ step \in Deciders /\ db[d] \in {None, Blank(d)}
      BY CreatingIs DEF Deciders
    <2>2. /\ db \in LivePairs /\ Alignable(db) /\ Fits(snap, db) /\ ~ Open
          /\ spool \subseteq Made /\ snap \in Releases \cup {None}
      BY <2>1, WhileClosed
    <2>3. v \in Versions /\ (v[1] = 1 \/ v = NoVersion)
      <3>1. <<1, 0>> \in Versions /\ <<1, 0>>[1] = 1
        BY DEF Versions, Releases
      <3> QED BY <3>1, BlankFiles
    <2>4. db' \in LivePairs /\ Carries /\ Alignable(db') /\ Fits(snap', db')
      BY <1>3, <2>1, <2>2, <2>3, EmptyStep
    <2>5. Decided'
      BY DEF Decided
    <2>6. step' = "recover" => left' = <<>>
      BY <2>2 DEF ToRestore
    <2> QED BY <2>1, <2>2, <2>4, <2>5, <2>6, ClosedStep
  <1> QED BY <1>2, <1>3 DEF CutShort

LEMMA FailKeeps ==
  ASSUME Inv, Fail
  PROVE  Inv'
  <1>1. /\ UNCHANGED <<spool, snap, reports, manifest, kept, asked, serving>> /\ CutShort
        /\ step # "off"
        /\ \/ step' = "recover" /\ left' = ToRestore
           \/ step' = "off"
    BY DEF Fail, Goto
  <1> QED BY <1>1, CutShortKeeps

LEMMA CrashKeeps ==
  ASSUME Inv, Crash
  PROVE  Inv'
  <1>1. /\ UNCHANGED <<spool, snap, reports, manifest, kept, asked, serving>> /\ CutShort
        /\ step' = "off" /\ step # "off"
    BY DEF Crash, Goto
  <1> QED BY <1>1, CutShortKeeps

LEMMA RestoreFileKeeps ==
  ASSUME Inv, RestoreFile
  PROVE  Inv'
  <1>1. /\ step = "recover" /\ step' = "recover" /\ left # <<>> /\ left' = Tail(left)
        /\ UNCHANGED <<reports, manifest, kept, asked, serving, job>>
    BY DEF RestoreFile, budget
  <1>2. Open
    BY <1>1, Lists DEF Inv, Recovering
  <1>3. /\ manifest.db \in GoodPairs /\ manifest.spool \subseteq Made
        /\ manifest.snap \in Releases \cup {None} /\ manifest.full \in BOOLEAN
        /\ db \in LivePairs /\ spool \subseteq Made /\ snap \in Releases \cup {None}
    BY <1>2 DEF Inv, TypeOK, Open, Manifests
  <1>4. /\ left \in {All, AfterProxy, AfterDashboard, AfterSpool, Both, AfterFirst}
        /\ left \in {All, AfterProxy, AfterDashboard, AfterSpool} => manifest.full
        /\ left \in {Both, AfterFirst} => ~ manifest.full
    BY <1>1, <1>2, Lists DEF Inv, Recovering
  <1> DEFINE Restored == /\ db' \in LivePairs /\ spool' \subseteq Made
                         /\ snap' \in Releases \cup {None}
                         /\ manifest.full \/ spool' = spool
                         /\ snap' = snap \/ (manifest.full /\ snap' = manifest.snap)
                         /\ Recovering'
  <1>5. ASSUME left \in {All, Both} PROVE Restored
    <2>1. /\ db' = [db EXCEPT !["proxy"] = manifest.db["proxy"]] /\ UNCHANGED <<spool, snap>>
      BY <1>5, Lists DEF RestoreFile, DB
    <2>2. db' \in LivePairs /\ db'.proxy = manifest.db.proxy
      BY <1>3, <2>1 DEF GoodPairs, LivePairs
    <2>3. \/ left' = AfterProxy /\ manifest.full
          \/ left' = AfterFirst /\ ~ manifest.full
      BY <1>1, <1>4, <1>5, Lists
    <2>4. Recovering'
      BY <1>1, <1>2, <2>2, <2>3, Lists DEF Recovering, Open
    <2> QED BY <1>3, <2>1, <2>2, <2>4
  <1>6. ASSUME left \in {AfterProxy, AfterFirst} PROVE Restored
    <2>1. /\ db' = [db EXCEPT !["dashboard"] = manifest.db["dashboard"]] /\ UNCHANGED <<spool, snap>>
      BY <1>6, Lists DEF RestoreFile, DB
    <2>2. /\ db' \in LivePairs /\ db'.dashboard = manifest.db.dashboard
          /\ db'.proxy = db.proxy
      BY <1>3, <2>1 DEF GoodPairs, LivePairs
    <2>3. \/ left' = AfterDashboard /\ manifest.full
          \/ left' = <<>> /\ ~ manifest.full
      BY <1>1, <1>4, <1>6, Lists
    <2>4. db.proxy = manifest.db.proxy
      BY <1>1, <1>2, <1>4, <1>6, Lists DEF Inv, Recovering
    <2>5. Recovering'
      BY <1>1, <1>2, <2>2, <2>3, <2>4, Lists DEF Recovering, Open
    <2> QED BY <1>3, <2>1, <2>2, <2>5
  <1>7. ASSUME left = AfterDashboard PROVE Restored
    <2>1. /\ spool' = manifest.spool /\ UNCHANGED <<db, snap>>
          /\ left' = AfterSpool /\ manifest.full
      BY <1>1, <1>4, <1>7, Lists DEF RestoreFile, DB
    <2>2. db.proxy = manifest.db.proxy /\ db.dashboard = manifest.db.dashboard
      BY <1>1, <1>2, <1>4, <1>7, Lists DEF Inv, Recovering
    <2>3. Recovering'
      BY <1>1, <1>2, <2>1, <2>2, Lists DEF Recovering, Open
    <2> QED BY <1>3, <2>1, <2>3
  <1>8. ASSUME left = AfterSpool PROVE Restored
    <2>1. /\ snap' = manifest.snap /\ UNCHANGED <<db, spool>>
          /\ left = AfterSpool /\ left' = <<>> /\ manifest.full
      BY <1>1, <1>4, <1>8, Lists DEF RestoreFile, DB
    <2>2. /\ db.proxy = manifest.db.proxy /\ db.dashboard = manifest.db.dashboard
          /\ spool = manifest.spool
      BY <1>1, <1>2, <2>1, Lists DEF Inv, Recovering
    <2>3. Recovering'
      BY <1>1, <1>2, <2>1, <2>2, Lists DEF Recovering, Open
    <2> QED BY <1>3, <2>1, <2>3
  <1>9. Restored
    BY <1>4, <1>5, <1>6, <1>7, <1>8
  <1>10. /\ Open' /\ Visible' = manifest.db /\ Visible = manifest.db
         /\ VisibleSpool' = VisibleSpool
    BY <1>1, <1>2, <1>9 DEF Open, Visible, VisibleSpool
  <1>11. TypeOK'
    BY <1>1, <1>9 DEF Inv, TypeOK, Late
  <1>12. Backed' /\ Shadowed' /\ Decided'
    BY <1>1 DEF Backed, Shadowed, Decided, Deciders, Late
  <1>13. InForce'
    BY <1>1, <1>2, <1>9, <1>10 DEF Inv, InForce
  <1>14. NothingLost'
    BY <1>1, <1>10 DEF Inv, NothingLost
  <1> QED BY <1>9, <1>11, <1>12, <1>13, <1>14 DEF Inv

(* Closing a rolled back manifest changes none of the files in force.      *)
LEMMA RolledBackShows ==
  ASSUME Inv, RolledBack
  PROVE  /\ ~ Open' /\ Visible = db /\ VisibleSpool = spool
         /\ Visible' = db /\ VisibleSpool' = spool
         /\ manifest' \in Manifests \cup {None}
         /\ manifest' # None => manifest'.db \in GoodPairs /\ manifest'.spool \subseteq Made
  <1>1. /\ step = "recover" /\ step' \in {"off", "inspect"} /\ left = <<>>
        /\ UNCHANGED <<db, spool, snap, reports, kept, asked, serving>>
        /\ manifest' = IF Open THEN [manifest EXCEPT !.open = FALSE] ELSE manifest
    BY DEF RolledBack, files, budget
  <1>2. ~ Open' /\ manifest' \in Manifests \cup {None}
        /\ (manifest' # None => manifest'.db \in GoodPairs /\ manifest'.spool \subseteq Made)
    <2>1. CASE Open
      <3>1. manifest \in Manifests /\ manifest.db \in GoodPairs /\ manifest.spool \subseteq Made
        BY <2>1 DEF Inv, TypeOK, Open
      <3>2. /\ manifest' \in Manifests /\ manifest'.open = FALSE
            /\ manifest'.db = manifest.db /\ manifest'.spool = manifest.spool
        BY <1>1, <2>1, <3>1 DEF Manifests
      <3> QED BY <3>1, <3>2 DEF Open
    <2>2. CASE ~ Open
      BY <1>1, <2>2 DEF Inv, TypeOK, Open
    <2> QED BY <2>1, <2>2
  <1>3. Visible = db /\ VisibleSpool = spool
    <2>1. CASE Open
      <3>1. /\ db.proxy = manifest.db.proxy /\ db.dashboard = manifest.db.dashboard
            /\ manifest.full => spool = manifest.spool
        BY <1>1, <2>1, Lists DEF Inv, Recovering
      <3>2. db = manifest.db
        BY <2>1, <3>1, GoodPairsAre, LivePairsAre DEF Inv, TypeOK, Open
      <3> QED BY <2>1, <3>1, <3>2 DEF Visible, VisibleSpool
    <2>2. CASE ~ Open
      BY <2>2 DEF Visible, VisibleSpool
    <2> QED BY <2>1, <2>2
  <1>4. Visible' = db /\ VisibleSpool' = spool
    BY <1>1, <1>2 DEF Visible, VisibleSpool
  <1> QED BY <1>2, <1>3, <1>4

LEMMA RolledBackKeeps ==
  ASSUME Inv, RolledBack
  PROVE  Inv'
  <1>1. /\ step = "recover" /\ step' \in {"off", "inspect"} /\ ~ serving
        /\ UNCHANGED <<db, spool, snap, reports, kept, asked, serving>>
    BY DEF RolledBack, files, budget, Inv, TypeOK
  <1>2. /\ ~ Open' /\ Visible = db /\ VisibleSpool = spool
        /\ Visible' = db /\ VisibleSpool' = spool
        /\ manifest' \in Manifests \cup {None}
        /\ manifest' # None => manifest'.db \in GoodPairs /\ manifest'.spool \subseteq Made
    BY RolledBackShows
  <1>3. TypeOK'
    BY <1>1, <1>2 DEF Inv, TypeOK, Deciders, Late
  <1>4. Backed' /\ Shadowed' /\ Decided' /\ Recovering'
    BY <1>1, <1>2 DEF Backed, Shadowed, Decided, Recovering, Deciders, Late
  <1>5. InForce'
    BY <1>1, <1>2 DEF Inv, InForce
  <1>6. NothingLost'
    BY <1>1, <1>2 DEF Inv, NothingLost
  <1> QED BY <1>3, <1>4, <1>5, <1>6 DEF Inv

-----------------------------------------------------------------------------
(* The runners of a pair.                                                  *)

LEMMA BackupFilesKeeps ==
  ASSUME Inv, BackupFiles
  PROVE  Inv'
  <1>1. /\ step = "started" /\ step \in Deciders /\ step' = "backed_up" /\ job' = job
        /\ UNCHANGED <<db, spool, snap, reports, kept, asked, serving>>
        /\ manifest' = [open |-> TRUE, db |-> db, spool |-> spool, snap |-> snap,
                        full |-> WholeSet]
    BY DEF BackupFiles, Proceed, Keep, files, budget, Deciders
  <1>2. /\ ~ Open /\ ~ serving /\ Visible = db /\ VisibleSpool = spool
        /\ db \in LivePairs /\ spool \subseteq Made /\ snap \in Releases \cup {None}
        /\ Alignable(db) /\ Fits(snap, db)
        /\ Source(db) /\ job \in Kinds /\ db \in GoodPairs
    BY <1>1, WhileClosed, SourceIsBorn DEF Inv, Decided, TypeOK
  <1>3. WholeSet \in BOOLEAN /\ WholeSet' = WholeSet
    BY <1>1 DEF WholeSet
  <1>4. /\ manifest' \in Manifests /\ manifest' # None
        /\ manifest'.open = TRUE /\ manifest'.db = db /\ manifest'.spool = spool
        /\ manifest'.snap = snap /\ manifest'.full = WholeSet
    <2>1. db \in Pairs /\ spool \in SUBSET Rows
      BY <1>2, LivePairsAre DEF Made
    <2>2. manifest' \in Manifests
      BY <1>1, <1>2, <1>3, <2>1 DEF Manifests
    <2> QED BY <1>1, <2>2, NoneAssumption
  <1>5. Open' /\ Visible' = db /\ VisibleSpool' = spool
    BY <1>1, <1>4 DEF Open, Visible, VisibleSpool
  <1>6. TypeOK'
    BY <1>1, <1>2, <1>4 DEF Inv, TypeOK, Late
  <1>7. Backed'
    BY <1>1, <1>2, <1>3, <1>4, <1>5 DEF Backed, Deciders, Source, Late
  <1>8. Shadowed' /\ Recovering' /\ Decided'
    BY <1>1 DEF Shadowed, Recovering, Decided, Late
  <1>9. InForce'
    BY <1>1, <1>2, <1>4, <1>5 DEF InForce
  <1>10. NothingLost'
    BY <1>1, <1>2, <1>5 DEF Inv, NothingLost
  <1> QED BY <1>6, <1>7, <1>8, <1>9, <1>10 DEF Inv

(* A step of a runner that leaves the backup alone.                        *)
LEMMA OpenStep ==
  ASSUME Inv, step \in Late \cup {"backed_up"}, step' \in Late,
         UNCHANGED <<manifest, kept, job, asked, serving>>,
         db' \in LivePairs, snap' \in Releases \cup {None}, Fits(snap', manifest.db),
         \/ spool' = spool /\ (step = "spool_removed" => step' = "spool_removed")
         \/ WholeSet /\ spool' = {} /\ step' = "spool_removed",
         reports \subseteq reports', Shadowed'
  PROVE  Inv'
  <1>1. /\ Open /\ manifest.full = WholeSet /\ Source(manifest.db) /\ ~ serving
        /\ step # "spool_removed" => spool = manifest.spool
        /\ manifest.db \in GoodPairs /\ manifest.spool \subseteq Made /\ spool \subseteq Made
        /\ job \in Kinds
    BY DEF Inv, Backed, TypeOK, Late, Open
  <1>2. /\ Open' /\ Visible = manifest.db /\ Visible' = manifest.db
        /\ VisibleSpool' = VisibleSpool /\ WholeSet' = WholeSet /\ VisibleSpool \subseteq Made
    BY <1>1 DEF Open, Visible, VisibleSpool, WholeSet
  <1>3. TypeOK'
    BY <1>1 DEF Inv, TypeOK, Late
  <1>4. Backed'
    <2>1. step' \notin Deciders
      BY DEF Deciders, Late
    <2>2. Source(manifest.db)'
      BY <1>1 DEF Source, Majors, Ordered, Complete2
    <2>3. step' # "spool_removed" => spool' = manifest'.spool
      BY <1>1
    <2> QED BY <1>1, <1>2, <2>1, <2>2, <2>3 DEF Backed, Late
  <1>5. Recovering' /\ Decided'
    BY DEF Recovering, Decided, Late
  <1>6. InForce'
    BY <1>1, <1>2 DEF Inv, InForce
  <1>7. NothingLost'
    <2> DEFINE p == manifest.db
               s == VisibleSpool
               w == reports
               u == reports'
    <2>1. p \in LivePairs /\ s \in SUBSET Made /\ w \cup Charges(p.dashboard) \subseteq u \cup Charges(p.dashboard)
      BY <1>1, <1>2, GoodAreLive
    <2>2. kept \subseteq Facts(p.proxy, p.dashboard, s, w)
      BY <1>2 DEF Inv, NothingLost
    <2>3. NothingLost' <=> kept \subseteq Facts(p.proxy, p.dashboard, s, u)
      BY <1>2 DEF NothingLost
    <2> HIDE DEF p, s, w, u
    <2>4. Facts(p.proxy, p.dashboard, s, w) \subseteq Facts(p.proxy, p.dashboard, s, u)
      BY <2>1, Carried
    <2> QED BY <2>2, <2>3, <2>4
  <1> QED BY <1>3, <1>4, <1>5, <1>6, <1>7 DEF Inv

LEMMA BuildShadowsKeeps ==
  ASSUME Inv, BuildShadows
  PROVE  Inv'
  <1>1. /\ step = "backed_up" /\ step' = "verified" /\ job' = job
        /\ UNCHANGED <<db, spool, snap, manifest, kept, asked, serving>>
        /\ ShadowsVerified(job, db, shadow')
        /\ reports' = IF WholeSet THEN reports ELSE reports \cup PendingReport(db["dashboard"])
    BY DEF BuildShadows, Proceed, Keep, budget
  <1>2. /\ Open /\ manifest.full = WholeSet /\ Source(db) /\ db = manifest.db
        /\ spool = manifest.spool /\ job \in Kinds
        /\ db \in LivePairs /\ spool \in SUBSET Made /\ snap \in Releases \cup {None}
        /\ db \in GoodPairs
    BY <1>1, SourceIsBorn DEF Inv, Backed, TypeOK
  <1>3. /\ Visible = db /\ VisibleSpool = spool /\ Alignable(db) /\ Fits(snap, db)
    BY <1>2 DEF Inv, InForce, Visible, VisibleSpool
  <1>4. Complete2(db) /\ kept \subseteq Facts(db.proxy, db.dashboard, spool, reports)
    BY <1>2, <1>3 DEF Inv, NothingLost, Source
  <1> DEFINE x == shadow'
             t == IF job = "rebuild" THEN {} ELSE spool
             u == reports'
  <1>5. /\ x \in GoodPairs /\ Complete2(x) /\ InOrder(x.dashboard)
        /\ \A d \in DB : x[d].ver = IF WholeSet THEN V1Tip[d] ELSE Tip[d]
        /\ RequestIds(db.proxy) \cup Ids(spool) \subseteq RequestIds(x.proxy) \cup Ids(t)
        /\ Rates(db.proxy) \subseteq Rates(x.proxy)
        /\ Users(db.dashboard) \subseteq Users(x.dashboard)
        /\ reports \cup Charges(db.dashboard) \subseteq u \cup Charges(x.dashboard)
        /\ t \in SUBSET Made
    <2>1. CASE job = "rebuild"
      <3>1. x = RebuildShadows(db) /\ Majors(db, {0}) /\ WholeSet
        BY <1>2, <2>1 DEF BuildShadows, Source, WholeSet
      <3>2. x \in Grown(db, Ids(spool))
        BY <1>2, <3>1, RebuildGrows
      <3>3. u = reports /\ VerifyVersions(x, V1Tip) /\ t = {}
        BY <1>1, <2>1, <3>1 DEF ShadowsVerified
      <3>4. InOrder(db.dashboard)
        BY <1>3, <1>4, <3>1 DEF Alignable, Ordered, Majors, Complete2
      <3> HIDE DEF x, u, t
      <3>5. /\ x \in GoodPairs /\ ProxyGrows(db.proxy, x.proxy)
            /\ DashboardGrows(db.dashboard, x.dashboard) /\ Ids(spool) \subseteq RequestIds(x.proxy)
        BY <3>2 DEF Grown
      <3> QED BY <1>4, <3>1, <3>3, <3>4, <3>5 DEF VerifyVersions, ProxyGrows, DashboardGrows, Complete2
    <2>2. CASE job = "copy"
      <3>1. x = CopyShadows(db) /\ Majors(db, {1}) /\ WholeSet
        BY <1>2, <2>2 DEF BuildShadows, Source, WholeSet
      <3>2. x \in Grown(db, {})
        BY <1>2, <3>1, CopyGrows
      <3>3. /\ u = reports /\ VerifyVersions(x, V1Tip) /\ t = spool
            /\ \A r \in Selected("local-pair", db) : Verified(r, db, x)
        BY <1>1, <2>2, <3>1 DEF ShadowsVerified
      <3> HIDE DEF x, u, t
      <3>4. /\ x \in GoodPairs /\ ProxyGrows(db.proxy, x.proxy)
            /\ DashboardGrows(db.dashboard, x.dashboard)
        BY <3>2 DEF Grown
      <3>5. InOrder(x.dashboard)
        <4>1. CASE Ordered(db)
          BY <1>4, <3>4, <4>1 DEF Ordered, Complete2, DashboardGrows
        <4>2. CASE "agent-identity" \notin db.dashboard.done
          <5>1. PICK r \in Selected("local-pair", db) : r.id = "agent-identity"
            BY <1>2, <3>1, <4>2, IdentityLeft
          <5>2. VerifyIdentity(x.dashboard)
            BY <3>3, <5>1 DEF Verified
          <5> QED BY <5>2 DEF VerifyIdentity, InOrder
        <4> QED BY <1>3, <4>1, <4>2 DEF Alignable
      <3> QED BY <1>2, <1>4, <3>1, <3>3, <3>4, <3>5 DEF VerifyVersions, ProxyGrows, DashboardGrows, Complete2
    <2>3. CASE job \in {"v2", "minor"}
      <3>1. x = TipShadows(db) /\ Ordered(db) /\ ~ WholeSet
        BY <1>2, <2>3 DEF BuildShadows, Source, WholeSet
      <3>2. /\ u = reports \cup Charges(db.dashboard) /\ VerifyVersions(x, Tip) /\ t = spool
        BY <1>1, <1>4, <2>3, <3>1 DEF ShadowsVerified, PendingReport, Charges, Complete2
      <3>3. /\ x \in GoodPairs /\ Complete2(x) /\ ProxyGrows(db.proxy, x.proxy)
            /\ Users(db.dashboard) \subseteq Users(x.dashboard)
            /\ InOrder(db.dashboard) => InOrder(x.dashboard)
        BY <1>2, <1>4, <3>1, TipShadowsGrow
      <3> HIDE DEF x, u, t
      <3> QED BY <1>2, <1>4, <3>1, <3>2, <3>3 DEF VerifyVersions, ProxyGrows, Ordered, Complete2
    <2> QED BY <1>2, <2>1, <2>2, <2>3 DEF Kinds
  <1>6. kept \subseteq Facts(x.proxy, x.dashboard, t, u)
    <2> HIDE DEF x, t, u
    <2>1. Facts(db.proxy, db.dashboard, spool, reports) \subseteq Facts(x.proxy, x.dashboard, t, u)
      BY <1>2, <1>5, Carried, GoodAreLive
    <2> QED BY <1>4, <2>1
  <1>7. WholeSet' = WholeSet
    BY <1>1 DEF WholeSet
  <1>8. Shadowed'
    BY <1>1, <1>5, <1>6, <1>7 DEF Shadowed, Complete2, InOrder
  <1>9. reports \subseteq reports'
    BY <1>1
  <1> QED BY <1>1, <1>2, <1>3, <1>8, <1>9, OpenStep DEF Late

(* What a runner rests on once its shadows are verified.                   *)
LEMMA LateIs ==
  ASSUME Inv, step \in Late
  PROVE  /\ Open /\ db \in LivePairs /\ shadow \in GoodPairs /\ Complete2(shadow)
         /\ snap \in Releases \cup {None} /\ Fits(snap, manifest.db)
         /\ shadow.proxy \in GoodProxies /\ shadow.dashboard \in GoodDashboards
         /\ shadow.proxy.ver = IF WholeSet THEN V1Tip.proxy ELSE Tip.proxy
         /\ shadow.dashboard.ver = IF WholeSet THEN V1Tip.dashboard ELSE Tip.dashboard
         /\ InOrder(shadow.dashboard)
  <1>1. /\ Open /\ db \in LivePairs /\ shadow \in GoodPairs /\ Complete2(shadow)
        /\ snap \in Releases \cup {None} /\ InOrder(shadow.dashboard)
        /\ \A d \in DB : shadow[d].ver = IF WholeSet THEN V1Tip[d] ELSE Tip[d]
    BY DEF Inv, TypeOK, Backed, Shadowed, Late
  <1>2. Fits(snap, manifest.db)
    BY <1>1 DEF Inv, InForce, Visible
  <1> QED BY <1>1, <1>2, GoodPairsAre DEF DB, Complete2

LEMMA ReplaceProxyKeeps ==
  ASSUME Inv, ReplaceProxy
  PROVE  Inv'
  <1>1. /\ step = "verified" /\ step' = "token_board_replaced" /\ job' = job
        /\ db' = [db EXCEPT !["proxy"] = shadow["proxy"]]
        /\ UNCHANGED <<spool, snap, reports, manifest, shadow, kept, asked, serving>>
    BY DEF ReplaceProxy, Replace, Proceed, Keep, budget
  <1>2. step \in Late /\ step' \in Late
    BY <1>1 DEF Late
  <1>3. db' \in LivePairs /\ db'.proxy = shadow.proxy
    BY <1>1, <1>2, LateIs, PutProxy
  <1>4. WholeSet' = WholeSet
    BY <1>1 DEF WholeSet
  <1>5. Shadowed'
    BY <1>1, <1>2, <1>3, <1>4 DEF Inv, Shadowed, Late, Complete2, InOrder
  <1> QED BY <1>1, <1>2, <1>3, <1>5, LateIs, OpenStep

LEMMA ReplaceDashboardKeeps ==
  ASSUME Inv, ReplaceDashboard
  PROVE  Inv'
  <1>1. /\ step = "token_board_replaced" /\ step' = "dashboard_replaced" /\ job' = job
        /\ db' = [db EXCEPT !["dashboard"] = shadow["dashboard"]]
        /\ UNCHANGED <<spool, snap, reports, manifest, shadow, kept, asked, serving>>
    BY DEF ReplaceDashboard, Replace, Proceed, Keep, budget
  <1>2. step \in Late /\ step' \in Late
    BY <1>1 DEF Late
  <1>3. db' \in LivePairs /\ db'.dashboard = shadow.dashboard /\ db'.proxy = db.proxy
    BY <1>1, <1>2, LateIs, PutDashboard
  <1>4. WholeSet' = WholeSet
    BY <1>1 DEF WholeSet
  <1>5. Shadowed'
    BY <1>1, <1>2, <1>3, <1>4 DEF Inv, Shadowed, Late, Complete2, InOrder
  <1> QED BY <1>1, <1>2, <1>3, <1>5, LateIs, OpenStep

LEMMA RebuildSnapshotKeeps ==
  ASSUME Inv, RebuildSnapshot
  PROVE  Inv'
  <1>1. /\ step = "dashboard_replaced" /\ step' = "snapshot_rebuilt" /\ job' = job
        /\ snap' = IF job \in {"rebuild", "v2"} \/ snap # None THEN db["proxy"].ver ELSE snap
        /\ UNCHANGED <<db, spool, reports, manifest, shadow, kept, asked, serving>>
    BY DEF RebuildSnapshot, Proceed, Keep, budget
  <1>2. step \in Late /\ step' \in Late
    BY <1>1 DEF Late
  <1>3. db.proxy = shadow.proxy
    BY <1>1, <1>2 DEF Inv, Shadowed
  <1>4. snap' \in {None, shadow.proxy.ver}
    BY <1>1, <1>3
  <1>5. snap' \in Releases \cup {None} /\ Fits(snap', manifest.db)
    <2>1. \/ shadow.proxy.ver = Tip.proxy
          \/ shadow.proxy.ver = V1Tip.proxy
      BY <1>2, LateIs
    <2> QED BY <1>4, <2>1, TargetsAre DEF Fits
  <1>6. WholeSet' = WholeSet
    BY <1>1 DEF WholeSet
  <1>7. Shadowed'
    BY <1>1, <1>2, <1>4, <1>6 DEF Inv, Shadowed, Late, Complete2, InOrder
  <1> QED BY <1>1, <1>2, <1>5, <1>7, LateIs, OpenStep

LEMMA RemoveSpoolKeeps ==
  ASSUME Inv, RemoveSpool
  PROVE  Inv'
  <1>1. /\ step = "snapshot_rebuilt" /\ step' = "spool_removed" /\ job' = job
        /\ job = "rebuild" /\ spool' = {}
        /\ UNCHANGED <<db, snap, reports, manifest, shadow, kept, asked, serving>>
    BY DEF RemoveSpool, Proceed, Keep, budget
  <1>2. step \in Late /\ step' \in Late /\ WholeSet
    BY <1>1 DEF Late, WholeSet
  <1>3. WholeSet' = WholeSet
    BY <1>1 DEF WholeSet
  <1>4. Shadowed'
    BY <1>1, <1>2, <1>3 DEF Inv, Shadowed, Late, Complete2, InOrder
  <1> QED BY <1>1, <1>2, <1>4, LateIs, OpenStep

LEMMA CompletePairKeeps ==
  ASSUME Inv, CompletePair
  PROVE  Inv'
  <1>1. /\ step = IF job = "rebuild" THEN "spool_removed" ELSE "snapshot_rebuilt"
        /\ manifest' = [manifest EXCEPT !.open = FALSE]
        /\ UNCHANGED <<db, spool, snap, reports, kept, asked, serving>>
        /\ \/ job = "rebuild" /\ step' = "begin" /\ job' = "v2"
           \/ job = "copy" /\ step' = "snapshot"
           \/ job \notin {"rebuild", "copy"} /\ step' = "done"
    BY DEF CompletePair, Run, Goto, Keep, files, budget
  <1>2. step \in {"snapshot_rebuilt", "spool_removed"} /\ step \in Late /\ job \in Kinds
    BY <1>1 DEF Late, Inv, TypeOK
  <1>3. /\ Open /\ db \in LivePairs /\ shadow \in GoodPairs
        /\ shadow.proxy.ver = IF WholeSet THEN V1Tip.proxy ELSE Tip.proxy
        /\ shadow.dashboard.ver = IF WholeSet THEN V1Tip.dashboard ELSE Tip.dashboard
        /\ snap \in {None, shadow.proxy.ver} /\ InOrder(shadow.dashboard)
        /\ db.proxy = shadow.proxy /\ db.dashboard = shadow.dashboard
        /\ spool \subseteq Made /\ ~ serving
    BY <1>2, LateIs DEF Inv, Shadowed, TypeOK
  <1>4. db = shadow
    BY <1>3, GoodPairsAre, LivePairsAre
  <1>5. Complete2(db) /\ Ordered(db)
    BY <1>2, <1>3, <1>4, LateIs DEF Ordered
  <1>6. /\ manifest' \in Manifests /\ manifest' # None /\ manifest'.open = FALSE
        /\ manifest'.db \in GoodPairs /\ manifest'.spool \subseteq Made
    <2>1. manifest \in Manifests /\ manifest.db \in GoodPairs /\ manifest.spool \subseteq Made
      BY <1>3 DEF Inv, TypeOK, Open
    <2>2. /\ manifest' \in Manifests /\ manifest'.open = FALSE
          /\ manifest'.db = manifest.db /\ manifest'.spool = manifest.spool
      BY <1>1, <2>1 DEF Manifests
    <2> QED BY <2>1, <2>2, NoneAssumption
  <1>7. ~ Open' /\ Visible' = db /\ VisibleSpool' = spool
    BY <1>1, <1>6 DEF Open, Visible, VisibleSpool
  <1>8. \/ WholeSet /\ Majors(db, {1}) /\ Majors(db, {1, 2}) /\ job \in {"rebuild", "copy"}
        \/ ~ WholeSet /\ AtTip(db) /\ snap \in {None, Tip.proxy} /\ job \notin {"rebuild", "copy"}
    BY <1>3, <1>4, <1>5, TargetsAre DEF WholeSet, Majors, AtTip
  <1>9. Fits(snap, db)
    <2>1. \/ shadow.proxy.ver = Tip.proxy
          \/ shadow.proxy.ver = V1Tip.proxy
      BY <1>3
    <2> QED BY <1>3, <2>1, TargetsAre DEF Fits
  <1>10. TypeOK'
    BY <1>1, <1>3, <1>6, <1>9 DEF Inv, TypeOK, Deciders, Late, Kinds
  <1>11. Decided'
    <2>1. \/ step' = "begin" /\ job' = "v2" /\ Majors(db, {1, 2})
          \/ step' = "snapshot" /\ Majors(db, {1})
          \/ step' = "done" /\ AtTip(db) /\ snap \in {None, Tip.proxy}
      BY <1>1, <1>8
    <2> QED BY <1>1, <1>5, <2>1 DEF Decided, Source, Majors, AtTip, Complete2, Ordered
  <1>12. Backed' /\ Shadowed' /\ Recovering'
    BY <1>1, <1>7 DEF Backed, Shadowed, Recovering, Deciders, Late
  <1>13. InForce'
    BY <1>1, <1>5, <1>7, <1>9 DEF InForce, Alignable
  <1>14. NothingLost'
    <2>1. kept \subseteq Facts(db.proxy, db.dashboard, IF job = "rebuild" THEN {} ELSE spool, reports)
      BY <1>2, <1>4 DEF Inv, Shadowed
    <2>2. Facts(db.proxy, db.dashboard, IF job = "rebuild" THEN {} ELSE spool, reports)
            \subseteq Facts(db.proxy, db.dashboard, spool, reports)
      <3> DEFINE t == IF job = "rebuild" THEN {} ELSE spool
      <3>1. t \in SUBSET Made /\ spool \in SUBSET Made /\ Ids(t) \subseteq Ids(spool)
        BY <1>3 DEF Ids
      <3> HIDE DEF t
      <3>2. Facts(db.proxy, db.dashboard, t, reports) \subseteq Facts(db.proxy, db.dashboard, spool, reports)
        BY <1>3, <3>1, Carried
      <3> QED BY <3>2 DEF t
    <2> QED BY <1>1, <1>7, <2>1, <2>2 DEF NothingLost
  <1> QED BY <1>10, <1>11, <1>12, <1>13, <1>14 DEF Inv

-----------------------------------------------------------------------------
(* Requests.                                                               *)

LEMMA ServedProxy ==
  ASSUME NEW p \in LivePairs, p.proxy \notin {None, Blank("proxy")}, NEW r \in Made
  PROVE  LET q == [p EXCEPT !["proxy"].requests = @ \cup {r}]
         IN  /\ q \in LivePairs /\ q.dashboard = p.dashboard /\ q.proxy # None
             /\ q.proxy.ver = p.proxy.ver
             /\ RequestIds(q.proxy) = RequestIds(p.proxy) \cup {r.id}
             /\ Rates(q.proxy) = Rates(p.proxy) /\ r \in q.proxy.requests
  <1> DEFINE f == p.proxy
             g == [f EXCEPT !.requests = @ \cup {r}]
             q == [p EXCEPT !["proxy"].requests = @ \cup {r}]
  <1>1. f \in GoodProxies /\ f \in Proxies /\ f.requests \subseteq Made
    BY LivePairsAre, GoodFiles DEF GoodProxies, Stored
  <1>2. r \in Rows
    BY DEF Made
  <1>3. /\ g \in Proxies /\ g.requests = f.requests \cup {r} /\ g.ver = f.ver
        /\ g.done = f.done /\ g.softDeleted = f.softDeleted /\ g.prices = f.prices
    <2> HIDE DEF f
    <2> QED BY <1>1, <1>2 DEF Stored, Proxies
  <1>4. q = [p EXCEPT !["proxy"] = g]
    BY LivePairsAre
  <1> HIDE DEF g, q, f
  <1>5. g \in GoodProxies
    BY <1>1, <1>3 DEF GoodProxies, Stored
  <1>6. g # None
    BY <1>5, GoodFiles
  <1>7. q \in LivePairs /\ q.proxy = g /\ q.dashboard = p.dashboard
    BY <1>4, <1>5, PutProxy
  <1>8. RequestIds(g) = RequestIds(f) \cup {r.id} /\ Rates(g) = Rates(f)
    BY <1>3, <1>6 DEF RequestIds, Ids, Rates, f
  <1> QED BY <1>3, <1>6, <1>7, <1>8 DEF f, q

LEMMA ServeKeeps ==
  ASSUME Inv, Serve
  PROVE  Inv'
  <1> DEFINE row == [id |-> 10 + asked, account |-> 1, identity |-> 1]
             fact == <<"request", row.id, Who(row)>>
  <1>1. /\ serving /\ asked' = asked + 1 /\ asked \in Nat
        /\ step = "off" /\ db.proxy # None /\ db.proxy.ver = Tip.proxy
        /\ UNCHANGED <<snap, reports, manifest, step, serving, job>>
        /\ \/ db' = [db EXCEPT !["proxy"].requests = @ \cup {row}] /\ UNCHANGED spool
           \/ spool' = spool \cup {row} /\ UNCHANGED db
        /\ kept' = IF Open THEN kept ELSE kept \cup {fact}
    BY DEF Serve, Inv, TypeOK
  <1>2. db \in LivePairs /\ spool \subseteq Made
    BY DEF Inv, TypeOK
  <1>3. row \in Made
    <2>1. row \in Rows /\ Who(row) = 1 /\ row.id = 10 + asked
      BY <1>1, NoneAssumption DEF Rows, Who
    <2>2. Maker(row.id) = 1
      BY <1>1, <2>1 DEF Maker
    <2> QED BY <2>1, <2>2 DEF Made
  <1> HIDE DEF row
  <1>4. /\ db' \in LivePairs /\ db'.dashboard = db.dashboard /\ db'.proxy # None
        /\ db'.proxy.ver = db.proxy.ver
        /\ RequestIds(db.proxy) \subseteq RequestIds(db'.proxy)
        /\ Rates(db.proxy) \subseteq Rates(db'.proxy)
        /\ spool' \subseteq Made /\ spool \subseteq spool'
        /\ row \in db'.proxy.requests \/ row \in spool'
    <2>1. CASE db' = [db EXCEPT !["proxy"].requests = @ \cup {row}] /\ UNCHANGED spool
      <3>1. LET q == [db EXCEPT !["proxy"].requests = @ \cup {row}]
            IN  /\ q \in LivePairs /\ q.dashboard = db.dashboard /\ q.proxy # None
                /\ q.proxy.ver = db.proxy.ver
                /\ RequestIds(q.proxy) = RequestIds(db.proxy) \cup {row.id}
                /\ Rates(q.proxy) = Rates(db.proxy) /\ row \in q.proxy.requests
        <4>1. db.proxy \notin {None, Blank("proxy")}
          BY <1>1, BlankFiles, TargetsAre
        <4> QED BY <1>2, <1>3, <4>1, ServedProxy
      <3> QED BY <1>2, <2>1, <3>1
    <2>2. CASE spool' = spool \cup {row} /\ UNCHANGED db
      BY <1>1, <1>2, <1>3, <2>2
    <2> QED BY <1>1, <2>1, <2>2
  <1>5. Open' = Open
    BY <1>1 DEF Open
  <1>6. TypeOK'
    BY <1>1, <1>4 DEF Inv, TypeOK, Late, Deciders
  <1>7. Backed' /\ Shadowed' /\ Recovering' /\ Decided'
    BY <1>1 DEF Backed, Shadowed, Recovering, Decided, Late, Deciders
  <1>8. InForce'
    <2>1. CASE Open
      BY <1>1, <1>5, <2>1 DEF Inv, InForce, Visible
    <2>2. CASE ~ Open
      <3>1. Alignable(db) /\ Fits(snap, db)
        BY <2>2 DEF Inv, InForce, Visible
      <3>2. Alignable(db') /\ Fits(snap', db')
        BY <1>1, <1>4, <3>1 DEF Alignable, Ordered, Complete2, Fits
      <3> QED BY <1>5, <2>2, <3>2 DEF InForce, Visible
    <2> QED BY <2>1, <2>2
  <1>9. NothingLost'
    <2> DEFINE p == Visible
               q == Visible'
               s == VisibleSpool
               t == VisibleSpool'
    <2>1. /\ p \in LivePairs /\ q \in LivePairs /\ s \in SUBSET Made /\ t \in SUBSET Made
          /\ RequestIds(p.proxy) \cup Ids(s) \subseteq RequestIds(q.proxy) \cup Ids(t)
          /\ Rates(p.proxy) \subseteq Rates(q.proxy)
          /\ Users(p.dashboard) \subseteq Users(q.dashboard)
          /\ reports \cup Charges(p.dashboard) \subseteq reports \cup Charges(q.dashboard)
      <3>1. CASE Open
        <4>1. /\ p = manifest.db /\ q = manifest.db /\ manifest.db \in GoodPairs
              /\ manifest.spool \subseteq Made
          BY <1>1, <1>5, <3>1 DEF Visible, VisibleSpool, Inv, TypeOK, Open
        <4> HIDE DEF p, q
        <4>2. s \subseteq t /\ s \in SUBSET Made /\ t \in SUBSET Made
          BY <1>1, <1>2, <1>4, <1>5, <3>1, <4>1 DEF VisibleSpool
        <4> HIDE DEF s, t
        <4> QED BY <4>1, <4>2, GoodAreLive DEF Ids
      <3>2. CASE ~ Open
        <4>1. p = db /\ q = db' /\ s = spool /\ t = spool'
          BY <1>5, <3>2 DEF Visible, VisibleSpool
        <4> HIDE DEF p, q, s, t
        <4> QED BY <1>2, <1>4, <4>1 DEF Ids
      <3> QED BY <3>1, <3>2
    <2>2. kept \subseteq Facts(p.proxy, p.dashboard, s, reports)
      BY DEF Inv, NothingLost
    <2>3. ~ Open => fact \in Facts(q.proxy, q.dashboard, t, reports)
      BY <1>4, <1>5 DEF Facts, Visible, VisibleSpool
    <2>4. NothingLost' <=> kept' \subseteq Facts(q.proxy, q.dashboard, t, reports)
      BY <1>1 DEF NothingLost
    <2> HIDE DEF p, q, s, t, fact
    <2>5. Facts(p.proxy, p.dashboard, s, reports) \subseteq Facts(q.proxy, q.dashboard, t, reports)
      BY <2>1, Carried
    <2> QED BY <1>1, <2>2, <2>3, <2>4, <2>5
  <1> QED BY <1>6, <1>7, <1>8, <1>9 DEF Inv

-----------------------------------------------------------------------------
(* The installations a start may find.                                     *)

LEMMA OldIsMade == {Old(1, 1), Old(2, 2), Old(3, 1)} \subseteq Made
  <1>1. \A i \in Nat, a \in Nat : Old(i, a) \in Rows /\ Old(i, a).id = i /\ Who(Old(i, a)) = a
    BY NoneAssumption DEF Old, Rows, Who
  <1> QED BY <1>1 DEF Made, Maker

LEMMA ProxyFileIs ==
  ASSUME NEW v \in Releases, NEW done \in SUBSET RouteIds, NEW pending \in BOOLEAN,
         v[1] = 0 => v[2] <= 19 /\ v[2] > 0 /\ "rebuild" \notin done
  PROVE  ProxyFile(v, done, pending) \in GoodProxies /\ ProxyFile(v, done, pending).ver = v
  <1> DEFINE s == IF Older(v, <<1, 18>>) THEN {2} ELSE {}
             o == {Old(1, 1), Old(2, 2)}
             f == [ver |-> <<0, 0>>, done |-> done, requests |-> o, prices |-> OldPrices,
                   softDeleted |-> s, pending |-> pending]
             g == Sql("proxy", f, v)
  <1>1. o \subseteq Made /\ o \subseteq Rows /\ OldPrices \subseteq Prices /\ s \subseteq Nat
        /\ <<0, 0>> \in Releases
    BY OldIsMade DEF Made, OldPrices, Prices, Releases
  <1>2. g = ProxyFile(v, done, pending)
    BY DEF ProxyFile
  <1>3. v[1] >= 2 => s = {}
    BY DEF Older, Releases
  <1> HIDE DEF o, s
  <1>4. f \in Stored /\ f.ver = <<0, 0>> /\ f.done = done /\ f.softDeleted = s
    BY <1>1 DEF Stored, Proxies, Versions
  <1> HIDE DEF f
  <1>5. /\ g \in Stored /\ g.done = done
        /\ g.ver = IF Older(<<0, 0>>, v) THEN v ELSE <<0, 0>>
        /\ f.softDeleted = {} => g.softDeleted = {}
    BY <1>4, SqlProxy
  <1> HIDE DEF g
  <1>6. g.ver = v
    BY <1>5 DEF Older, Releases
  <1> QED BY <1>2, <1>3, <1>4, <1>5, <1>6 DEF GoodProxies

LEMMA DashboardFileIs ==
  ASSUME NEW v \in Releases, NEW done \in SUBSET RouteIds, NEW archive \in SUBSET (Nat \X Agents),
         v[1] = 0 => v[2] <= 6 /\ "rebuild" \notin done /\ \A a \in archive : a[1] = AgentId[a[2]]
  PROVE  LET g == DashboardFile(v, done, archive)
         IN  g \in GoodDashboards /\ g.ver = v /\ g.done = done /\ g.archive = archive
  <1> DEFINE g == DashboardFile(v, done, archive)
  <1>1. /\ g \in StoredDashboards /\ g.ver = v /\ g.done = done /\ g.archive = archive
        /\ v[1] = 0 => g.unpriced = {}
    BY DEF DashboardFile, StoredDashboards, Dashboards, Versions
  <1> HIDE DEF g
  <1> QED BY <1>1 DEF GoodDashboards, InOrder, g

LEMMA ArchivesAre ==
  /\ Aligned \in SUBSET (Nat \X Agents) /\ \A a \in Aligned : a[1] = AgentId[a[2]]
  /\ Archives \subseteq SUBSET (Nat \X Agents)
  BY SchemaConstants DEF Aligned, Archives

(* The pairs an upgrade may start from.                                    *)
Starts == {p \in GoodPairs : /\ Alignable(p)
                             /\ p.proxy # None => Fits(p.proxy.ver, p) /\ p.proxy.ver \in Releases}

LEMMA InstalledPair ==
  ASSUME NEW f \in GoodProxies, NEW g \in GoodDashboards \cup {None},
         g = None \/ InOrder(g) \/ (f.ver[1] = 1 /\ g.ver[1] = 1 /\ "agent-identity" \notin g.done),
         f.ver[1] \in {0, 1} \/ (f.ver[1] = 2 /\ f.ver # Tip.proxy)
  PROVE  [proxy |-> f, dashboard |-> g] \in Starts
  <1> DEFINE p == [proxy |-> f, dashboard |-> g]
  <1>1. p \in GoodPairs /\ p.proxy = f /\ p.dashboard = g /\ f # None /\ f.ver \in Releases
    BY GoodFiles DEF GoodPairs
  <1> HIDE DEF p
  <1>2. Alignable(p)
    BY <1>1 DEF Alignable, Ordered, Complete2
  <1>3. Fits(p.proxy.ver, p)
    BY <1>1, TargetsAre DEF Fits
  <1>4. p \in Starts
    BY <1>1, <1>2, <1>3 DEF Starts
  <1> QED BY <1>4 DEF p

LEMMA InstalledFiles ==
  ASSUME NEW v \in Releases, NEW w \in Releases, NEW done \in SUBSET RouteIds,
         NEW done2 \in SUBSET RouteIds, NEW pending \in BOOLEAN, NEW archive \in SUBSET (Nat \X Agents),
         v[1] = 0 => v[2] <= 19 /\ v[2] > 0 /\ "rebuild" \notin done,
         w[1] = 0 => w[2] <= 6 /\ "rebuild" \notin done2,
         archive = Aligned \/ (v[1] = 1 /\ w[1] = 1 /\ "agent-identity" \notin done2),
         v[1] \in {0, 1} \/ (v[1] = 2 /\ v # Tip.proxy)
  PROVE  /\ [proxy |-> ProxyFile(v, done, pending), dashboard |-> DashboardFile(w, done2, archive)]
              \in Starts
         /\ [proxy |-> ProxyFile(v, done, pending), dashboard |-> None] \in Starts
  <1> DEFINE f == ProxyFile(v, done, pending)
             g == DashboardFile(w, done2, archive)
  <1>1. f \in GoodProxies /\ f.ver = v
    BY ProxyFileIs
  <1>2. g \in GoodDashboards /\ g.ver = w /\ g.done = done2 /\ g.archive = archive
    BY ArchivesAre, DashboardFileIs
  <1>3. archive = Aligned => InOrder(g)
    BY <1>2, ArchivesAre DEF InOrder
  <1> HIDE DEF f, g
  <1>4. /\ InOrder(g) \/ (f.ver[1] = 1 /\ g.ver[1] = 1 /\ "agent-identity" \notin g.done)
        /\ f.ver[1] \in {0, 1} \/ (f.ver[1] = 2 /\ f.ver # Tip.proxy)
        /\ g \in GoodDashboards \cup {None} /\ None \in GoodDashboards \cup {None}
    BY <1>1, <1>2, <1>3
  <1>5. [proxy |-> f, dashboard |-> g] \in Starts
    BY <1>1, <1>4, InstalledPair
  <1>6. [proxy |-> f, dashboard |-> None] \in Starts
    BY <1>1, <1>4, InstalledPair
  <1> QED BY <1>5, <1>6 DEF f, g

LEMMA InstallationsAre == Installations \subseteq Starts
  <1>1. [proxy |-> None, dashboard |-> None] \in Starts
    BY DEF Starts, GoodPairs, Alignable, Ordered
  <1>2. [proxy |-> ProxyFile(<<0, 19>>, {}, FALSE),
        dashboard |-> DashboardFile(<<0, 6>>, {}, Aligned)] \in Starts
    <2> DEFINE v == <<0, 19>>
               w == <<0, 6>>
               x == {}
               y == {}
    <2>1. /\ v \in Releases /\ w \in Releases /\ x \in SUBSET RouteIds /\ y \in SUBSET RouteIds
          /\ v[1] = 0 => v[2] <= 19 /\ v[2] > 0 /\ "rebuild" \notin x
          /\ w[1] = 0 => w[2] <= 6 /\ "rebuild" \notin y
          /\ v[1] \in {0, 1} \/ (v[1] = 2 /\ v # Tip.proxy)
      BY DEF Releases, Tip, RouteIds
    <2> HIDE DEF v, w, x, y
    <2>2. /\ [proxy |-> ProxyFile(v, x, FALSE), dashboard |-> DashboardFile(w, y, Aligned)] \in Starts
          /\ [proxy |-> ProxyFile(v, x, FALSE), dashboard |-> None] \in Starts
      BY <2>1, ArchivesAre, InstalledFiles
    <2> QED BY <2>2 DEF v, w, x, y
  <1>3. [proxy |-> ProxyFile(<<0, 12>>, {}, FALSE),
        dashboard |-> None] \in Starts
    <2> DEFINE v == <<0, 12>>
               w == <<0, 6>>
               x == {}
               y == {}
    <2>1. /\ v \in Releases /\ w \in Releases /\ x \in SUBSET RouteIds /\ y \in SUBSET RouteIds
          /\ v[1] = 0 => v[2] <= 19 /\ v[2] > 0 /\ "rebuild" \notin x
          /\ w[1] = 0 => w[2] <= 6 /\ "rebuild" \notin y
          /\ v[1] \in {0, 1} \/ (v[1] = 2 /\ v # Tip.proxy)
      BY DEF Releases, Tip, RouteIds
    <2> HIDE DEF v, w, x, y
    <2>2. /\ [proxy |-> ProxyFile(v, x, FALSE), dashboard |-> DashboardFile(w, y, Aligned)] \in Starts
          /\ [proxy |-> ProxyFile(v, x, FALSE), dashboard |-> None] \in Starts
      BY <2>1, ArchivesAre, InstalledFiles
    <2> QED BY <2>2 DEF v, w, x, y
  <1>4. [proxy |-> ProxyFile(<<1, 21>>, RouteIds, FALSE),
        dashboard |-> DashboardFile(<<0, 6>>, {}, Aligned)] \in Starts
    <2> DEFINE v == <<1, 21>>
               w == <<0, 6>>
               x == RouteIds
               y == {}
    <2>1. /\ v \in Releases /\ w \in Releases /\ x \in SUBSET RouteIds /\ y \in SUBSET RouteIds
          /\ v[1] = 0 => v[2] <= 19 /\ v[2] > 0 /\ "rebuild" \notin x
          /\ w[1] = 0 => w[2] <= 6 /\ "rebuild" \notin y
          /\ v[1] \in {0, 1} \/ (v[1] = 2 /\ v # Tip.proxy)
      BY DEF Releases, Tip, RouteIds
    <2> HIDE DEF v, w, x, y
    <2>2. /\ [proxy |-> ProxyFile(v, x, FALSE), dashboard |-> DashboardFile(w, y, Aligned)] \in Starts
          /\ [proxy |-> ProxyFile(v, x, FALSE), dashboard |-> None] \in Starts
      BY <2>1, ArchivesAre, InstalledFiles
    <2> QED BY <2>2 DEF v, w, x, y
  <1>5. [proxy |-> ProxyFile(<<1, 17>>, RouteIds \ {"hard-delete"}, FALSE),
        dashboard |-> DashboardFile(<<1, 6>>, RouteIds \ {"hard-delete"}, Aligned)] \in Starts
    <2> DEFINE v == <<1, 17>>
               w == <<1, 6>>
               x == RouteIds \ {"hard-delete"}
               y == RouteIds \ {"hard-delete"}
    <2>1. /\ v \in Releases /\ w \in Releases /\ x \in SUBSET RouteIds /\ y \in SUBSET RouteIds
          /\ v[1] = 0 => v[2] <= 19 /\ v[2] > 0 /\ "rebuild" \notin x
          /\ w[1] = 0 => w[2] <= 6 /\ "rebuild" \notin y
          /\ v[1] \in {0, 1} \/ (v[1] = 2 /\ v # Tip.proxy)
      BY DEF Releases, Tip, RouteIds
    <2> HIDE DEF v, w, x, y
    <2>2. /\ [proxy |-> ProxyFile(v, x, FALSE), dashboard |-> DashboardFile(w, y, Aligned)] \in Starts
          /\ [proxy |-> ProxyFile(v, x, FALSE), dashboard |-> None] \in Starts
      BY <2>1, ArchivesAre, InstalledFiles
    <2> QED BY <2>2 DEF v, w, x, y
  <1>6. [proxy |-> ProxyFile(<<2, 5>>, RouteIds, TRUE),
        dashboard |-> DashboardFile(<<2, 1>>, RouteIds, Aligned)] \in Starts
    <2> DEFINE v == <<2, 5>>
               w == <<2, 1>>
               x == RouteIds
               y == RouteIds
    <2>1. /\ v \in Releases /\ w \in Releases /\ x \in SUBSET RouteIds /\ y \in SUBSET RouteIds
          /\ v[1] = 0 => v[2] <= 19 /\ v[2] > 0 /\ "rebuild" \notin x
          /\ w[1] = 0 => w[2] <= 6 /\ "rebuild" \notin y
          /\ v[1] \in {0, 1} \/ (v[1] = 2 /\ v # Tip.proxy)
      BY DEF Releases, Tip, RouteIds
    <2> HIDE DEF v, w, x, y
    <2>2. /\ [proxy |-> ProxyFile(v, x, TRUE), dashboard |-> DashboardFile(w, y, Aligned)] \in Starts
          /\ [proxy |-> ProxyFile(v, x, TRUE), dashboard |-> None] \in Starts
      BY <2>1, ArchivesAre, InstalledFiles
    <2> QED BY <2>2 DEF v, w, x, y
  <1>7. ASSUME NEW pending \in BOOLEAN, NEW archive \in Archives
        PROVE  [proxy |-> ProxyFile(<<1, 8>>, {"agent-billing"}, pending),
                dashboard |-> DashboardFile(<<1, 3>>, {"agent-billing"}, archive)] \in Starts
    <2> DEFINE v == <<1, 8>>
               w == <<1, 3>>
               x == {"agent-billing"}
    <2>1. /\ v \in Releases /\ w \in Releases /\ x \in SUBSET RouteIds
          /\ v[1] = 0 => v[2] <= 19 /\ v[2] > 0 /\ "rebuild" \notin x
          /\ w[1] = 0 => w[2] <= 6 /\ "rebuild" \notin x
          /\ archive = Aligned \/ (v[1] = 1 /\ w[1] = 1 /\ "agent-identity" \notin x)
          /\ v[1] \in {0, 1} \/ (v[1] = 2 /\ v # Tip.proxy)
      BY DEF Releases, RouteIds
    <2> HIDE DEF v, w, x
    <2>2. archive \in SUBSET (Nat \X Agents)
      BY ArchivesAre
    <2>3. [proxy |-> ProxyFile(v, x, pending), dashboard |-> DashboardFile(w, x, archive)] \in Starts
      BY <2>1, <2>2, InstalledFiles
    <2> QED BY <2>3 DEF v, w, x
  <1> DEFINE A == {[proxy |-> None, dashboard |-> None],
                   [proxy |-> ProxyFile(<<0, 19>>, {}, FALSE),
                    dashboard |-> DashboardFile(<<0, 6>>, {}, Aligned)],
                   [proxy |-> ProxyFile(<<0, 12>>, {}, FALSE), dashboard |-> None],
                   [proxy |-> ProxyFile(<<1, 21>>, RouteIds, FALSE),
                    dashboard |-> DashboardFile(<<0, 6>>, {}, Aligned)],
                   [proxy |-> ProxyFile(<<1, 17>>, RouteIds \ {"hard-delete"}, FALSE),
                    dashboard |-> DashboardFile(<<1, 6>>, RouteIds \ {"hard-delete"}, Aligned)],
                   [proxy |-> ProxyFile(<<2, 5>>, RouteIds, TRUE),
                    dashboard |-> DashboardFile(<<2, 1>>, RouteIds, Aligned)]}
             B == {[proxy |-> ProxyFile(<<1, 8>>, {"agent-billing"}, pending),
                    dashboard |-> DashboardFile(<<1, 3>>, {"agent-billing"}, archive)] :
                      pending \in BOOLEAN, archive \in Archives}
  <1>8. A \subseteq Starts
    BY <1>1, <1>2, <1>3, <1>4, <1>5, <1>6, Zenon
  <1>9. B \subseteq Starts
    BY <1>7
  <1>10. Installations = A \cup B
    BY DEF Installations
  <1> HIDE DEF A, B
  <1> QED BY <1>8, <1>9, <1>10

LEMMA InitInv == Init => Inv
  <1> SUFFICES ASSUME Init PROVE Inv
    OBVIOUS
  <1>1. /\ db \in LivePairs /\ Alignable(db)
        /\ db.proxy # None => Fits(db.proxy.ver, db) /\ db.proxy.ver \in Releases
    BY InstallationsAre, GoodAreLive DEF Init, Starts
  <1>2. /\ spool \subseteq Made
        /\ snap \in Releases \cup {None} /\ Fits(snap, db)
    BY <1>1, OldIsMade DEF Init, Fits
  <1>3. ~ Open /\ Visible = db /\ VisibleSpool = spool
    BY DEF Init, Open, Visible, VisibleSpool
  <1>4. TypeOK
    BY <1>1, <1>2 DEF Init, TypeOK, Late
  <1>5. Backed /\ Shadowed /\ Recovering /\ Decided
    BY <1>3 DEF Init, Backed, Shadowed, Recovering, Decided, Deciders, Late
  <1>6. InForce
    BY <1>1, <1>2, <1>3 DEF InForce
  <1>7. NothingLost
    BY <1>3 DEF Init, NothingLost
  <1> QED BY <1>4, <1>5, <1>6, <1>7 DEF Inv

-----------------------------------------------------------------------------
(* The theorems.                                                           *)

LEMMA StepInv == Inv /\ [Next]_vars => Inv'
  <1> SUFFICES ASSUME Inv, [Next]_vars PROVE Inv'
    OBVIOUS
  <1>1. CASE UNCHANGED vars
    BY <1>1 DEF vars, Inv, TypeOK, Backed, Source, Shadowed, Recovering, Decided, InForce,
                NothingLost, Open, Visible, VisibleSpool, WholeSet
  <1>2. CASE Work
    <2>1. CASE StartCurrent \/ Finish
      BY <2>1, ServicesKeep
    <2>2. CASE Begin
      BY <2>2, BeginKeeps
    <2>3. CASE RestoreFile
      BY <2>3, RestoreFileKeeps
    <2>4. CASE RolledBack
      BY <2>4, RolledBackKeeps
    <2>5. CASE InspectPair
      BY <2>5, InspectPairKeeps
    <2>6. CASE CreateFresh
      BY <2>6, CreateFreshKeeps
    <2>7. CASE UpgradeProxyArtifact
      BY <2>7, UpgradeProxyArtifactKeeps
    <2>8. CASE RemoveArtifactSpool
      BY <2>8, RemoveArtifactSpoolKeeps
    <2>9. CASE UpgradeDashboardArtifact
      BY <2>9, UpgradeDashboardArtifactKeeps
    <2>10. CASE CreateMissing
      BY <2>10, CreateMissingKeeps
    <2>11. CASE ComparePair
      BY <2>11, ComparePairKeeps
    <2>12. CASE UpgradeInPlace
      BY <2>12, UpgradeInPlaceKeeps
    <2>13. CASE UpgradeSnapshot
      BY <2>13, UpgradeSnapshotKeeps
    <2>14. CASE WriteManifest
      BY <2>14, WriteManifestKeeps
    <2>15. CASE BackupFiles
      BY <2>15, BackupFilesKeeps
    <2>16. CASE BuildShadows
      BY <2>16, BuildShadowsKeeps
    <2>17. CASE ReplaceProxy
      BY <2>17, ReplaceProxyKeeps
    <2>18. CASE ReplaceDashboard
      BY <2>18, ReplaceDashboardKeeps
    <2>19. CASE RebuildSnapshot
      BY <2>19, RebuildSnapshotKeeps
    <2>20. CASE RemoveSpool
      BY <2>20, RemoveSpoolKeeps
    <2>21. CASE CompletePair
      BY <2>21, CompletePairKeeps
    <2> QED BY <1>2, <2>1, <2>2, <2>3, <2>4, <2>5, <2>6, <2>7, <2>8, <2>9, <2>10, <2>11, <2>12,
               <2>13, <2>14, <2>15, <2>16, <2>17, <2>18, <2>19, <2>20, <2>21 DEF Work
  <1>3. CASE Fail
    BY <1>3, FailKeeps
  <1>4. CASE Crash
    BY <1>4, CrashKeeps
  <1>5. CASE StartUnits
    BY <1>5, ServicesKeep
  <1>6. CASE Serve
    BY <1>6, ServeKeeps
  <1> QED BY <1>1, <1>2, <1>3, <1>4, <1>5, <1>6 DEF Next

(* The invariant holds throughout.                                         *)
LEMMA InvHolds == Spec => []Inv
  <1> QED BY InitInv, StepInv, PTL DEF Spec

(* Nothing is lost: from the start of an upgrade on, the requests with the  *)
(* account they were made for, the current prices, the archived usage and   *)
(* the unpriced charges are in the files in force, wherever a step raised   *)
(* or the machine stopped, for any agents and any number of crashes.        *)
THEOREM NothingIsLost == Spec => []NothingLost
  <1>1. Inv => NothingLost
    BY DEF Inv
  <1> QED BY <1>1, InvHolds, PTL

(* An upgrade that ends well leaves both databases and the snapshot         *)
(* current, nothing to roll back, the archive under the agents' ids and no   *)
(* soft-deleted account.                                                   *)
THEOREM UpgradesEndCurrent == Spec => []DoneIsCurrent
  <1>1. Inv => DoneIsCurrent
    <2> SUFFICES ASSUME Inv, step = "done" PROVE DoneIsCurrent
      BY DEF DoneIsCurrent
    <2>1. /\ AtTip(db) /\ Ordered(db) /\ snap \in {None, Tip.proxy} /\ ~ Open /\ db \in LivePairs
      BY DEF Inv, Decided, Backed, TypeOK, Deciders
    <2>2. /\ db.proxy # None /\ db.dashboard # None /\ InOrder(db.dashboard)
          /\ db.proxy.ver = Tip.proxy /\ db.dashboard.ver = Tip.dashboard
      BY <2>1 DEF AtTip, Complete2, Ordered
    <2>3. db.proxy.softDeleted = {}
      BY <2>1, <2>2, LivePairsAre, TargetsAre, BlankFiles DEF GoodProxies
    <2> QED BY <2>1, <2>2, <2>3 DEF DoneIsCurrent, PairAtTip, At, DB, InOrder
  <1> QED BY <1>1, InvHolds, PTL

(* What MajorsMoveTogether asks of a step.                                 *)
BothMove ==
    (\A d \in DB : MajorOf(Visible[d]) >= 1)
      /\ (\E d \in DB : MajorOf(Visible[d]) # MajorOf(Visible'[d]))
    => \A d \in DB : Visible'[d].ver = Tip[d]

(* Steps that leave the files in force alone.                              *)
LEMMA ShowsSame ==
  ASSUME Inv,
         \/ StartCurrent \/ Begin \/ RestoreFile \/ RolledBack \/ InspectPair
         \/ RemoveArtifactSpool \/ ComparePair \/ UpgradeSnapshot \/ Finish \/ WriteManifest
         \/ BackupFiles \/ BuildShadows \/ ReplaceProxy \/ ReplaceDashboard \/ RebuildSnapshot
         \/ RemoveSpool \/ StartUnits \/ UNCHANGED vars
  PROVE  Visible' = Visible
  <1>1. CASE UNCHANGED <<db, manifest>>
    BY <1>1 DEF Visible, Open
  <1>2. CASE Open /\ UNCHANGED manifest
    BY <1>2 DEF Visible, Open
  <1>3. CASE RolledBack
    BY <1>3, RolledBackShows
  <1>4. CASE BackupFiles
    <2>1. /\ step \in Deciders /\ UNCHANGED db
          /\ manifest' = [open |-> TRUE, db |-> db, spool |-> spool, snap |-> snap,
                          full |-> WholeSet]
      BY <1>4 DEF BackupFiles, Proceed, files, Deciders
    <2>2. Visible = db
      BY <2>1, WhileClosed
    <2>3. manifest'.db = db
      BY <2>1
    <2> QED BY <2>1, <2>2, <2>3 DEF Visible
  <1>5. CASE RestoreFile
    <2>1. Open /\ UNCHANGED manifest
      BY <1>5 DEF RestoreFile, Inv, Recovering
    <2> QED BY <1>2, <2>1
  <1>6. CASE ReplaceProxy \/ ReplaceDashboard \/ RebuildSnapshot \/ RemoveSpool \/ BuildShadows
    <2>1. step \in Late \cup {"backed_up"} /\ UNCHANGED manifest
      BY <1>6 DEF ReplaceProxy, ReplaceDashboard, Replace, RebuildSnapshot, RemoveSpool,
                  BuildShadows, Proceed, Late
    <2>2. Open
      BY <2>1 DEF Inv, Backed
    <2> QED BY <1>2, <2>1, <2>2
  <1>7. CASE \/ StartCurrent \/ Begin \/ InspectPair \/ RemoveArtifactSpool \/ ComparePair
             \/ UpgradeSnapshot \/ Finish \/ WriteManifest \/ StartUnits \/ UNCHANGED vars
    <2>1. UNCHANGED <<db, manifest>>
      BY <1>7 DEF StartCurrent, Begin, InspectPair, RemoveArtifactSpool, ComparePair, Deciding,
                  UpgradeSnapshot, Finish, WriteManifest, StartUnits, vars, files
    <2> QED BY <1>1, <2>1
  <1> QED BY <1>3, <1>4, <1>5, <1>6, <1>7

(* A file that is written while no manifest is open is missing or V0, or    *)
(* keeps its major.                                                        *)
LEMMA WritesMove ==
  ASSUME Inv, \/ CreateFresh \/ UpgradeProxyArtifact \/ UpgradeDashboardArtifact
              \/ CreateMissing \/ UpgradeInPlace
  PROVE  BothMove
  <1>1. step \in Deciders /\ UNCHANGED manifest
    BY DEF CreateFresh, UpgradeProxyArtifact, UpgradeDashboardArtifact, CreateMissing,
           UpgradeInPlace, Write, Deciding, Deciders
  <1>2. Visible = db /\ db \in LivePairs /\ ~ Open
    BY <1>1, WhileClosed
  <1>3. Visible' = db'
    BY <1>1, <1>2 DEF Visible, Open
  <1>4. \A d \in DB : MajorOf(db[d]) = Major(d)
    BY DEF MajorOf, Major
  <1>5. CASE db' = db
    BY <1>2, <1>3, <1>5 DEF BothMove
  <1>6. CASE \E d \in DB : Major(d) \in {-1, 0}
    BY <1>2, <1>4, <1>6 DEF BothMove
  <1>7. CASE UpgradeInPlace
    <2>1. Majors(db, {1})
      BY <1>7 DEF UpgradeInPlace, Inv, Decided
    <2>2. /\ db.proxy # None /\ db.proxy \in GoodProxies /\ db.proxy.ver[1] = 1
          /\ db.dashboard # None /\ db.dashboard \in GoodDashboards /\ db.dashboard.ver[1] = 1
      BY <1>2, <2>1, Born, GoodPairsAre DEF Majors, Complete2
    <2>3. CASE db' = [db EXCEPT !["proxy"] = Sql("proxy", db.proxy, V1Tip.proxy)]
      <3> DEFINE f == Sql("proxy", db.proxy, V1Tip.proxy)
      <3>1. /\ f \in GoodProxies \cup {None} /\ ProxyGrows(db.proxy, f)
            /\ f.ver = IF Older(db.proxy.ver, V1Tip.proxy) THEN V1Tip.proxy ELSE db.proxy.ver
        BY <2>2, SqlGoodProxy, TargetsAre
      <3>2. f \in GoodProxies /\ f # None /\ f.ver[1] = 1
        BY <2>2, <3>1, TargetsAre DEF ProxyGrows
      <3> HIDE DEF f
      <3>3. db'.proxy = f /\ db'.dashboard = db.dashboard
        BY <1>2, <2>3, <3>2, PutProxy DEF f
      <3> QED BY <1>2, <1>3, <2>2, <3>2, <3>3 DEF BothMove, MajorOf, DB
    <2>4. CASE db' = [db EXCEPT !["dashboard"] = Sql("dashboard", db.dashboard, V1Tip.dashboard)]
      <3> DEFINE g == Sql("dashboard", db.dashboard, V1Tip.dashboard)
      <3>1. /\ g \in GoodDashboards \cup {None} /\ DashboardGrows(db.dashboard, g)
            /\ g.ver = IF Older(db.dashboard.ver, V1Tip.dashboard) THEN V1Tip.dashboard
                       ELSE db.dashboard.ver
        BY <2>2, SqlGoodDashboard, TargetsAre
      <3>2. g \in GoodDashboards /\ g # None /\ g.ver[1] = 1
        BY <2>2, <3>1, TargetsAre DEF DashboardGrows
      <3> HIDE DEF g
      <3>3. db'.dashboard = g /\ db'.proxy = db.proxy
        BY <1>2, <2>4, <3>2, PutDashboard DEF g
      <3> QED BY <1>2, <1>3, <2>2, <3>2, <3>3 DEF BothMove, MajorOf, DB
    <2>5. CASE db' = db
      BY <1>5, <2>5
    <2> QED BY <1>7, <2>3, <2>4, <2>5 DEF UpgradeInPlace, Write, Deciding, files
  <1>8. CASE CreateFresh
    BY <1>6, <1>8 DEF CreateFresh, Creating, Unborn, DB
  <1>9. CASE UpgradeProxyArtifact
    BY <1>5, <1>6, <1>9 DEF UpgradeProxyArtifact, Deciding, files, DB
  <1>10. CASE UpgradeDashboardArtifact
    BY <1>5, <1>6, <1>10 DEF UpgradeDashboardArtifact, Deciding, files, DB
  <1>11. CASE CreateMissing
    BY <1>5, <1>6, <1>11 DEF CreateMissing, Creating, Unborn, Major, Deciding, files, DB
  <1> QED BY <1>7, <1>8, <1>9, <1>10, <1>11

LEMMA CompletePairMoves ==
  ASSUME Inv, CompletePair
  PROVE  BothMove
  <1>1. /\ step = IF job = "rebuild" THEN "spool_removed" ELSE "snapshot_rebuilt"
        /\ manifest' = [manifest EXCEPT !.open = FALSE] /\ db' = db
    BY DEF CompletePair, files
  <1>2. step \in {"snapshot_rebuilt", "spool_removed"} /\ step \in Late /\ job \in Kinds
    BY <1>1 DEF Late, Inv, TypeOK
  <1>3. /\ Open /\ db.proxy = shadow.proxy /\ db.dashboard = shadow.dashboard
        /\ shadow.proxy # None /\ shadow.dashboard # None
        /\ shadow.proxy.ver = IF WholeSet THEN V1Tip.proxy ELSE Tip.proxy
        /\ shadow.dashboard.ver = IF WholeSet THEN V1Tip.dashboard ELSE Tip.dashboard
        /\ Source(manifest.db)
    BY <1>2, LateIs DEF Inv, Shadowed, Backed, Complete2
  <1>4. Visible = manifest.db /\ Visible' = db
    <2>1. manifest \in Manifests
      BY <1>3 DEF Inv, TypeOK, Open
    <2>2. manifest'.open = FALSE
      BY <1>1, <2>1 DEF Manifests
    <2> QED BY <1>1, <1>3, <2>2 DEF Visible, Open
  <1>5. CASE job = "rebuild"
    <2>1. MajorOf(Visible["proxy"]) = 0
      BY <1>3, <1>4, <1>5 DEF Source, Majors, Complete2, MajorOf
    <2> QED BY <2>1 DEF BothMove, DB
  <1>6. CASE job = "copy"
    <2>1. /\ MajorOf(Visible["proxy"]) = 1 /\ MajorOf(Visible["dashboard"]) = 1
      BY <1>3, <1>4, <1>6 DEF Source, Majors, Complete2, MajorOf
    <2>2. /\ MajorOf(db["proxy"]) = 1 /\ MajorOf(db["dashboard"]) = 1
      BY <1>3, <1>6, TargetsAre DEF MajorOf, WholeSet
    <2> QED BY <1>4, <2>1, <2>2 DEF BothMove, DB
  <1>7. CASE job \in {"v2", "minor"}
    BY <1>3, <1>4, <1>7 DEF BothMove, DB, WholeSet
  <1> QED BY <1>2, <1>5, <1>6, <1>7 DEF Kinds

(* Where a creation is cut short there was no file with a version.         *)
LEMMA CutShortMoves ==
  ASSUME Inv, CutShort, UNCHANGED manifest
  PROVE  BothMove
  <1>1. CASE UNCHANGED db
    <2>1. Visible' = Visible
      BY <1>1 DEF Visible, Open
    <2> QED BY <2>1 DEF BothMove
  <1>2. ASSUME NEW d \in Creating PROVE BothMove
    <2>1. d \in DB /\ step \in Deciders /\ db[d] \in {None, Blank(d)}
      BY CreatingIs DEF Deciders
    <2>2. MajorOf(Visible[d]) = -1
      BY <2>1, WhileClosed, BlankFiles DEF MajorOf, DB
    <2> QED BY <2>1, <2>2 DEF BothMove
  <1> QED BY <1>1, <1>2 DEF CutShort

LEMMA ServeMoves ==
  ASSUME Inv, Serve
  PROVE  BothMove
  <1>1. CASE Open \/ UNCHANGED db
    <2>1. Visible' = Visible
      BY <1>1 DEF Serve, Visible, Open
    <2> QED BY <2>1 DEF BothMove
  <1>2. CASE ~ Open /\ ~ UNCHANGED db
    <2> DEFINE row == [id |-> 10 + asked, account |-> 1, identity |-> 1]
    <2>1. /\ db' = [db EXCEPT !["proxy"].requests = @ \cup {row}] /\ UNCHANGED manifest
          /\ db \in LivePairs /\ db.proxy # None /\ db.proxy \in Proxies
      BY <1>2, LivePairsAre, GoodFiles, BlankFiles DEF Serve, Inv, TypeOK
    <2> HIDE DEF row
    <2>2. db'.dashboard = db.dashboard /\ db'.proxy.ver = db.proxy.ver
      BY <2>1 DEF LivePairs, Stored, Proxies
    <2>3. Visible = db /\ Visible' = db'
      BY <1>2, <2>1 DEF Visible, Open
    <2>4. db'.proxy # None
      <3>1. Inv'
        BY ServeKeeps
      <3>2. serving'
        BY DEF Serve
      <3> QED BY <3>1, <3>2 DEF Inv, TypeOK
    <2> QED BY <2>1, <2>2, <2>3, <2>4 DEF BothMove, MajorOf, DB
  <1> QED BY <1>1, <1>2

(* Once both databases are V1 or later, a step that changes the major of one *)
(* of the files in force leaves both of them current: there is no moment,    *)
(* crash or exception, after which one is of V1 and the other of V2.         *)
THEOREM MajorsChangeTogether == Spec => MajorsMoveTogether
  <1>1. Inv /\ [Next]_vars => BothMove
    <2> SUFFICES ASSUME Inv, [Next]_vars PROVE BothMove
      OBVIOUS
    <2>1. CASE Visible' = Visible
      BY <2>1 DEF BothMove
    <2>2. CASE Fail \/ Crash
      BY <2>2, CutShortMoves DEF Fail, Crash
    <2> QED BY <2>1, <2>2, ShowsSame, WritesMove, CompletePairMoves, ServeMoves DEF Next, Work
  <1>2. Inv /\ [Next]_vars => [BothMove]_vars
    BY <1>1
  <1>3. [][BothMove]_vars <=> MajorsMoveTogether
    BY DEF BothMove, MajorsMoveTogether
  <1> QED BY <1>2, <1>3, InvHolds, PTL DEF Spec
-----------------------------------------------------------------------------
=============================================================================

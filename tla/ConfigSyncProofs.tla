--------------------------- MODULE ConfigSyncProofs ---------------------------
(***************************************************************************)
(* Machine-checked facts about ConfigSync, for any machines and versions,  *)
(* any number of pulls, edits, failed requests and stopped processes: the  *)
(* schema of a server goes back only by an upload after a merge changed    *)
(* sync_config, and with one server no published edit leaves its newest    *)
(* artifact.                                                               *)
(***************************************************************************)
EXTENDS ConfigSync, TLAPS, WellFoundedInduction



Servers == Endpoints \cup {NoEndpoint}
Files == [major : Nat, minor : Nat, server : Servers, edits : SUBSET Edits]
Kinds == {"none", "pull", "upload", "switch"}
PullSteps == {"load", "list", "download", "merge", "copy", "put", "record"}
UploadSteps == {"copy", "put", "record"}
SwitchSteps == {"test", "list", "download", "merge", "copy", "put", "record"}
Steps == {"idle"} \cup PullSteps \cup SwitchSteps
Ops == [kind : Kinds, at : Steps, to : Servers, art : Files, copy : SUBSET Edits]
States == {"down", "syncing", "writable", "read_only", "local_only"}
Requests == {"pull", "upload", "switch"}

Types ==
  /\ now \in 1..MaxNow
  /\ files \in [Endpoints -> [1..MaxNow -> Files]]
  /\ \A e \in Endpoints : \A n \in 1..MaxNow : files[e][n] # Absent => n <= now
  /\ data \in [Machines -> SUBSET Edits]
  /\ endpoint \in [Machines -> Servers]
  /\ moved \in [Machines -> BOOLEAN]
  /\ state \in [Machines -> States]
  /\ waiting \in [Machines -> SUBSET Requests]
  /\ op \in [Machines -> Ops]
  /\ acked \in [Endpoints -> SUBSET Edits]

(* One process at a time; one that is down does nothing.                   *)
Alone == \A m, n \in Machines : (state[m] # "down" /\ state[n] # "down") => m = n
DownIdle(m) == state[m] = "down" => op[m] = Idle /\ waiting[m] = {}

(* What a machine publishes to: a switch looks at another server, and so    *)
(* does a pull once its merge has changed sync_config.                     *)
Targets(m) ==
  LET o == op[m] IN
  /\ o.kind = "none" => o = Idle
  /\ o.kind # "none" => o.at # "idle"
  /\ o.kind = "pull" => /\ o.at \in PullSteps
                        /\ o.at = "load" => o.to = endpoint[m]
                        /\ o.at # "load" => endpoint[m] \in Endpoints
  /\ o.kind = "upload" => o.at \in UploadSteps /\ o.to = endpoint[m]
  /\ o.kind = "switch" => o.at \in SwitchSteps
  /\ o.at \notin {"idle", "load"} => o.to \in Endpoints
  /\ state[m] = "writable" \/ "upload" \in waiting[m] => endpoint[m] \in Endpoints

AtMost(a, m) == \/ a.major < Version[m].major
                \/ a.major = Version[m].major /\ a.minor <= Version[m].minor
MayPublish(m) == state[m] = "writable" \/ "upload" \in waiting[m]
Publishing == {"copy", "put", "record"}

(* A machine that may publish, or is about to, has seen the newest schema. *)
Compatible(m) ==
  /\ MayPublish(m) /\ ~moved[m] => AtMost(Latest(endpoint[m]), m)
  /\ op[m].at \in {"merge", "record"} => AtMost(Latest(op[m].to), m)
  /\ op[m].at \in {"copy", "put"} /\ ~Strays(m) => AtMost(Latest(op[m].to), m)
  /\ op[m].at \in {"download", "merge"} => op[m].art = Latest(op[m].to)

(* With one server it also has every published edit.                       *)
OneServer == \A e, f \in Endpoints : e = f
Current(m) ==
  /\ MayPublish(m) => acked[endpoint[m]] \subseteq data[m]
  /\ op[m].at \in {"copy", "record"} => acked[op[m].to] \subseteq data[m]
  /\ op[m].at = "put" => acked[op[m].to] \subseteq op[m].copy /\ op[m].copy \subseteq data[m]

NoneDropped == \A e \in Endpoints : acked[e] \subseteq Latest(e).edits
HoldsAll ==
  \A m \in Machines : (state[m] = "writable" /\ op[m].kind = "none")
                        => acked[endpoint[m]] \subseteq data[m]

MachineInv(m) == DownIdle(m) /\ Targets(m) /\ Compatible(m) /\ (OneServer => Current(m))
SessionInv == /\ Types /\ Alone
              /\ \A m \in Machines : MachineInv(m)
              /\ OneServer => NoneDropped

-----------------------------------------------------------------------------
(* The newest artifact of a server.                                        *)

(* A non-empty bounded set of naturals has a greatest element.             *)
LEMMA GreatestNatural ==
  ASSUME NEW n \in Nat, NEW S \in SUBSET (0..n), S # {}
  PROVE  \E k \in S : \A j \in S : k >= j
  <1> DEFINE T == {p \in Nat : n - p \in S}
             R == {ss \in Nat \X Nat : ss[1] < ss[2]}
  <1>1. T \subseteq Nat /\ T # {}
    <2>1. PICK k \in S : TRUE
      OBVIOUS
    <2>2. n - k \in Nat /\ n - (n - k) = k
      OBVIOUS
    <2> QED BY <2>1, <2>2
  <1>2. IsWellFoundedOn(R, Nat)
    BY NatLessThanWellFounded, Zenon DEF OpToRel
  <1>3. PICK x \in T : \A y \in T : ~(<<y, x>> \in R)
    <2> HIDE DEF T, R
    <2> QED BY <1>1, <1>2, WFMin
  <1>4. ASSUME NEW j \in S PROVE n - x >= j
    <2>1. n - j \in Nat /\ n - (n - j) = j
      OBVIOUS
    <2>2. n - j \in T /\ x \in Nat
      BY <2>1
    <2>3. ~(n - j < x)
      <3>1. <<n - j, x>> \in Nat \X Nat /\ <<n - j, x>>[1] = n - j /\ <<n - j, x>>[2] = x
        BY <2>1, <2>2
      <3> QED BY <1>3, <2>2, <3>1
    <2> QED BY <2>1, <2>2, <2>3
  <1> QED BY <1>3, <1>4

LEMMA ClockFacts ==
  ASSUME Types
  PROVE  now \in Nat /\ MaxNow \in Nat /\ 1 <= now /\ now <= MaxNow
  BY ClockAssumption DEF Types

LEMMA AbsentIsFile == Absent \in Files
  BY DEF Absent, Files, Servers, published

(* A listed name exists, and it is one of the clock's seconds.             *)
LEMMA LatestIsFile ==
  ASSUME Types, NEW e \in Endpoints
  PROVE  Latest(e) \in Files
  <1>1. CASE Listed(e) = {}
    BY <1>1, AbsentIsFile DEF Latest
  <1>2. CASE Listed(e) # {}
    <2>1. \A n \in Listed(e) : n \in 1..MaxNow
      BY DEF Listed
    <2>2. Listed(e) \in SUBSET (0..MaxNow)
      BY <2>1, ClockFacts
    <2>3. \E k \in Listed(e) : \A j \in Listed(e) : k >= j
      BY <1>2, <2>2, ClockFacts, GreatestNatural
    <2>4. Max(Listed(e)) \in Listed(e)
      BY <2>3 DEF Max
    <2>5. files[e][Max(Listed(e))] \in Files
      BY <2>1, <2>4 DEF Types
    <2> QED BY <1>2, <2>5 DEF Latest
  <1> QED BY <1>1, <1>2

LEMMA ArtifactFacts ==
  ASSUME Types, NEW m \in Machines, NEW edits \in SUBSET Edits
  PROVE  /\ Artifact(m, edits) \in Files
         /\ Artifact(m, edits) # Absent
         /\ Artifact(m, edits).edits = edits
         /\ AtMost(Artifact(m, edits), m)
         /\ \A a : AtMost(a, m) => \/ a.major < Artifact(m, edits).major
                                 \/ /\ a.major = Artifact(m, edits).major
                                    /\ a.minor <= Artifact(m, edits).minor
  <1>1. Version[m].major \in Nat \ {0} /\ Version[m].minor \in Nat /\ endpoint[m] \in Servers
    BY VersionAssumption DEF Types
  <1>2. Artifact(m, edits) = [major |-> Version[m].major, minor |-> Version[m].minor,
                              server |-> endpoint[m], edits |-> edits]
    BY DEF Artifact
  <1> QED BY <1>1, <1>2 DEF Files, Absent, AtMost

(* What is not refused is no newer than the program.                       *)
LEMMA AcceptedIsAtMost ==
  ASSUME NEW m \in Machines, NEW a \in Files, a = Absent \/ ~Refused(m, a)
  PROVE  AtMost(a, m)
  BY VersionAssumption DEF Files, Refused, AtMost, Absent

(* A put makes its copy the newest artifact of that server only.           *)
LEMMA StoredIsLatest ==
  ASSUME Types, NEW m \in Machines, op[m].to \in Endpoints, Store(m), now' = now
  PROVE  /\ files' \in [Endpoints -> [1..MaxNow -> Files]]
         /\ \A e \in Endpoints : \A n \in 1..MaxNow : files'[e][n] # Absent => n <= now'
         /\ \A e \in Endpoints :
               Latest(e)' = IF e = op[m].to THEN Artifact(m, op[m].copy) ELSE Latest(e)
  <1> DEFINE to == op[m].to
             a == Artifact(m, op[m].copy)
  <1>1. a \in Files /\ a # Absent
    BY ArtifactFacts DEF Types, Ops
  <1>2. files' = [files EXCEPT ![to][now] = a]
    BY DEF Store
  <1>3. now \in 1..MaxNow /\ now \in Nat
    BY ClockFacts DEF Types
  <1> HIDE DEF a
  <1>4. /\ \A e \in Endpoints : e # to => files'[e] = files[e]
        /\ \A n \in 1..MaxNow : files'[to][n] = IF n = now THEN a ELSE files[to][n]
        /\ files' \in [Endpoints -> [1..MaxNow -> Files]]
    BY <1>1, <1>2, <1>3 DEF Types
  <1>5. \A e \in Endpoints : \A n \in 1..MaxNow : files'[e][n] # Absent => n <= now'
    BY <1>3, <1>4 DEF Types
  <1>6. \A e \in Endpoints : e # to => Latest(e)' = Latest(e)
    <2> SUFFICES ASSUME NEW e \in Endpoints, e # to PROVE Latest(e)' = Latest(e)
      OBVIOUS
    <2>1. files'[e] = files[e]
      BY <1>4
    <2>2. Listed(e)' = Listed(e)
      BY <2>1 DEF Listed
    <2> QED BY <2>1, <2>2 DEF Latest
  <1>7. ASSUME NEW e \in Endpoints, e = to PROVE Latest(e)' = a
    <2> DEFINE S == Listed(e)'
    <2>1. /\ now \in S
          /\ \A n \in S : n \in 1..MaxNow /\ n <= now
      <3>1. S = {n \in 1..MaxNow : files'[e][n] # Absent}
        BY DEF Listed
      <3> HIDE DEF S
      <3> QED BY <3>1, <1>1, <1>3, <1>4, <1>5, <1>7
    <2>2. Max(S) = now
      <3>1. \A y \in S : now >= y
        BY <2>1, <1>3
      <3>2. \A x \in S : (\A y \in S : x >= y) => x = now
        BY <2>1, <1>3
      <3> HIDE DEF S
      <3> QED BY <2>1, <3>1, <3>2 DEF Max
    <2>3. Latest(e)' = IF S = {} THEN Absent ELSE files'[e][Max(S)]
      BY DEF Latest
    <2> HIDE DEF S
    <2> QED BY <2>1, <2>2, <2>3, <1>3, <1>4, <1>7
  <1> HIDE DEF to
  <1> QED BY <1>4, <1>5, <1>6, <1>7 DEF a, to

LEMMA SameLatest ==
  ASSUME files' = files
  PROVE  \A e : Latest(e)' = Latest(e)
  BY DEF Latest, Listed

-----------------------------------------------------------------------------
(* One machine works, the others are down.                                 *)

OthersDown(m) == \A n \in Machines : n # m => state[n] = "down"
OthersStay(m) == \A n \in Machines : n # m =>
  op'[n] = op[n] /\ state'[n] = state[n] /\ waiting'[n] = waiting[n]

LEMMA UpAlone ==
  ASSUME SessionInv, NEW m \in Machines,
         state[m] # "down" \/ op[m].kind # "none" \/ waiting[m] # {}
  PROVE  state[m] # "down" /\ OthersDown(m)
  <1>1. state[m] # "down"
    BY DEF SessionInv, MachineInv, DownIdle, Idle
  <1> QED BY <1>1 DEF SessionInv, Alone, OthersDown

LEMMA OnlyOneMoves ==
  ASSUME SessionInv, NEW m \in Machines, OthersDown(m), OthersStay(m),
         Types', MachineInv(m)', OneServer => NoneDropped'
  PROVE  SessionInv'
  <1>1. Alone'
    BY DEF OthersDown, OthersStay, Alone
  <1>2. ASSUME NEW n \in Machines, n # m PROVE MachineInv(n)'
    <2>1. op'[n] = Idle /\ state'[n] = "down" /\ waiting'[n] = {}
      BY <1>2 DEF OthersDown, OthersStay, SessionInv, MachineInv, DownIdle
    <2> QED BY <2>1 DEF MachineInv, DownIdle, Targets, Compatible, Current, MayPublish,
                        Publishing, Idle
  <1> QED BY <1>1, <1>2 DEF SessionInv, OneServer

(* What a machine has after its step, from the parts of the step.          *)
LEMMA IdleOp == Idle \in Ops /\ Idle.kind = "none" /\ Idle.at = "idle" /\ Idle.to = NoEndpoint
  BY AbsentIsFile DEF Idle, Ops, Kinds, Steps, Servers

(* A request that ends, well or not: only a good end opens the session.    *)
LEMMA FinishKeeps ==
  ASSUME SessionInv, NEW m \in Machines, op[m].kind # "none",
         NEW result \in {"ok", "error", "same", "local"}, Finish(m, result),
         result = "ok" => op[m].at = "record",
         now' = now, data' = data, acked' = acked,
         files' \in [Endpoints -> [1..MaxNow -> Files]],
         \A e \in Endpoints : \A n \in 1..MaxNow : files'[e][n] # Absent => n <= now',
         \A e \in Endpoints : AtMost(Latest(e), m) => AtMost(Latest(e)', m),
         OneServer => NoneDropped'
  PROVE  SessionInv'
  <1>1. Types /\ MachineInv(m) /\ OthersDown(m)
    BY UpAlone DEF SessionInv
  <1>2. op[m] \in Ops /\ state[m] \in States /\ endpoint[m] \in Servers /\ state[m] # "down"
    BY <1>1, UpAlone DEF Types
  <1> DEFINE good == result = "ok" /\ op[m].kind = "switch"
             s == CASE op[m].kind = "pull" -> AfterPull(result, state[m])
                    [] op[m].kind = "upload" -> AfterUpload(result, state[m])
                    [] op[m].kind = "switch" -> AfterSwitch(result, state[m])
  <1>3. /\ op' = [op EXCEPT ![m] = Idle] /\ waiting' = waiting
        /\ state' = [state EXCEPT ![m] = s]
        /\ endpoint' = IF good THEN [endpoint EXCEPT ![m] = op[m].to] ELSE endpoint
        /\ moved' = [moved EXCEPT ![m] = IF result = "ok" THEN endpoint'[m] # op[m].to ELSE @]
    BY <1>1, <1>2 DEF Finish, SaveEndpoint, Types
  <1>4. s \in States /\ s # "down"
        /\ (s = "writable" => \/ result = "ok"
                             \/ state[m] = "writable")
    BY <1>2 DEF AfterPull, AfterUpload, AfterSwitch, States, Ops, Kinds
  <1>5. (s = "writable" /\ op[m].kind = "pull") => result = "ok"
    BY DEF AfterPull
  <1>6. (s = "writable" /\ op[m].kind = "upload") => state[m] = "writable"
    BY DEF AfterUpload
  <1>7. (s = "writable" /\ op[m].kind = "switch" /\ result # "ok") => state[m] = "writable"
    BY DEF AfterSwitch
  <1> HIDE DEF s, good
  <1>8. /\ op'[m] = Idle /\ waiting'[m] = waiting[m] /\ state'[m] = s
        /\ endpoint'[m] = IF good THEN op[m].to ELSE endpoint[m]
        /\ OthersStay(m)
    BY <1>1, <1>3 DEF OthersStay, Types
  <1>m. moved'[m] = (IF result = "ok" THEN endpoint'[m] # op[m].to ELSE moved[m])
        /\ moved' \in [Machines -> BOOLEAN]
    BY <1>1, <1>3 DEF Types
  <1>9. result = "ok" => op[m].to \in Endpoints /\ AtMost(Latest(op[m].to), m)
                         /\ (OneServer => acked[op[m].to] \subseteq data[m])
    BY <1>1 DEF MachineInv, Targets, Compatible, Current, Publishing
  <1>10. Types'
    BY <1>1, <1>2, <1>3, <1>4, <1>9, <1>m, IdleOp DEF Types, Ops, good, Servers
  <1>11. MayPublish(m)' => \/ good
                           \/ ~good /\ MayPublish(m)
                           \/ ~good /\ result = "ok" /\ op[m].kind = "pull"
    BY <1>1, <1>2, <1>4, <1>5, <1>6, <1>7, <1>8
    DEF MayPublish, MachineInv, Targets, Ops, Kinds, good
  <1>12. MayPublish(m)' => /\ endpoint'[m] \in Endpoints
                           /\ ~moved'[m] => AtMost(Latest(endpoint'[m]), m)
                           /\ OneServer => acked[endpoint'[m]] \subseteq data[m]
    <2>1. CASE good
      BY <1>8, <1>9, <2>1 DEF good
    <2>2. CASE ~good /\ MayPublish(m)
      <3>1. /\ endpoint'[m] = endpoint[m] /\ endpoint[m] \in Endpoints
            /\ OneServer => acked[endpoint[m]] \subseteq data[m]
            /\ ~moved[m] => AtMost(Latest(endpoint[m]), m)
        BY <1>1, <1>8, <2>2 DEF MachineInv, Targets, Compatible, Current, MayPublish
      <3>2. result = "ok" /\ ~moved'[m] => AtMost(Latest(endpoint'[m]), m)
        BY <1>9, <1>m
      <3> QED BY <3>1, <3>2, <1>m
    <2>3. CASE ~good /\ result = "ok" /\ op[m].kind = "pull"
      <3>1. endpoint'[m] = endpoint[m] /\ endpoint[m] \in Endpoints
        BY <1>1, <1>8, <2>3 DEF MachineInv, Targets
      <3>2. OneServer => op[m].to = endpoint[m]
        BY <1>9, <2>3, <3>1 DEF OneServer
      <3>3. ~moved'[m] => endpoint'[m] = op[m].to
        BY <1>m, <2>3
      <3> QED BY <1>9, <2>3, <3>1, <3>2, <3>3
    <2> QED BY <1>11, <2>1, <2>2, <2>3
  <1> DEFINE ep == endpoint'[m]
  <1>13. \A e \in Endpoints : AtMost(Latest(e), m) => AtMost(Latest(e)', m)
    OBVIOUS
  <1>14. \A e \in Endpoints : e = endpoint'[m] => (Latest(endpoint[m]))' = Latest(e)'
    BY DEF Latest, Listed
  <1>15. MayPublish(m)' /\ ~moved'[m] => AtMost(Latest(endpoint[m]), m)'
    BY <1>12, <1>13, <1>14 DEF AtMost, published
  <1>16. MachineInv(m)'
    BY <1>2, <1>4, <1>8, <1>12, <1>15, IdleOp
    DEF MachineInv, DownIdle, Targets, Compatible, Current, MayPublish, Publishing, OneServer, published
  <1> QED BY <1>1, <1>8, <1>10, <1>16, OnlyOneMoves

(* A request that goes on to its next step.                                *)
LEMMA GoOnKeeps ==
  ASSUME SessionInv, NEW m \in Machines, state[m] # "down", NEW o \in Ops,
         op' = [op EXCEPT ![m] = o],
         UNCHANGED <<state, files, acked, now>>,
         endpoint' \in [Machines -> Servers], moved' \in [Machines -> BOOLEAN],
         endpoint[m] \in Endpoints => endpoint'[m] \in Endpoints,
         ~moved'[m] => ~moved[m] /\ endpoint'[m] = endpoint[m],
         waiting' \in [Machines -> SUBSET Requests],
         \A n \in Machines : n # m => waiting'[n] = waiting[n],
         waiting'[m] \subseteq waiting[m],
         data' \in [Machines -> SUBSET Edits],
         o.kind # "none", o.at # "idle",
         o.kind = "pull" => /\ o.at \in PullSteps
                            /\ o.at = "load" => o.to = endpoint'[m]
                            /\ o.at # "load" => endpoint'[m] \in Endpoints,
         o.kind = "upload" => o.at \in UploadSteps /\ o.to = endpoint'[m],
         o.kind = "switch" => o.at \in SwitchSteps,
         o.at # "load" => o.to \in Endpoints,
         o.at \in {"merge", "record"} => AtMost(Latest(o.to), m),
         o.at \in {"copy", "put"} /\ ~(moved'[m] /\ o.kind = "upload") => AtMost(Latest(o.to), m),
         o.at \in {"download", "merge"} => o.art = Latest(o.to),
         OneServer => /\ MayPublish(m) => acked[endpoint'[m]] \subseteq data'[m]
                      /\ o.at \in {"copy", "record"} => acked[o.to] \subseteq data'[m]
                      /\ o.at = "put" => acked[o.to] \subseteq o.copy /\ o.copy \subseteq data'[m]
  PROVE  SessionInv'
  <1>1. Types /\ MachineInv(m) /\ OthersDown(m)
    BY UpAlone DEF SessionInv
  <1>2. op'[m] = o /\ OthersStay(m)
    BY <1>1 DEF Types, OthersStay
  <1>3. Types'
    BY <1>1 DEF Types
  <1>4. MayPublish(m)' => MayPublish(m)
    BY DEF MayPublish
  <1>5. /\ AtMost(Latest(o.to), m) => AtMost(Latest(op[m].to), m)'
        /\ (Latest(op[m].to))' = Latest(o.to)
        /\ ~moved'[m] /\ AtMost(Latest(endpoint[m]), m) => AtMost(Latest(endpoint[m]), m)'
    <2>1. (Latest(op[m].to))' = Latest(o.to)
      <3>1. op'[m].to = o.to
        BY <1>2
      <3>2. (Listed(op[m].to))' = Listed(o.to)
        BY <3>1 DEF Listed
      <3> QED BY <3>1, <3>2 DEF Latest
    <2>2. ~moved'[m] => (Latest(endpoint[m]))' = Latest(endpoint[m])
      <3>1. ~moved'[m] => (Listed(endpoint[m]))' = Listed(endpoint[m])
        BY DEF Listed
      <3> QED BY <3>1 DEF Latest
    <2> QED BY <2>1, <2>2 DEF AtMost
  <1>6. Targets(m)'
    BY <1>1, <1>2, <1>4 DEF Targets, MachineInv, MayPublish
  <1>7. Compatible(m)'
    BY <1>1, <1>2, <1>4, <1>5 DEF Compatible, MachineInv, Strays
  <1>8. DownIdle(m)' /\ ((OneServer => Current(m))')
    BY <1>1, <1>2, <1>4 DEF DownIdle, Current, OneServer
  <1>9. OneServer => NoneDropped'
    BY SameLatest DEF SessionInv, NoneDropped
  <1> QED BY <1>1, <1>2, <1>3, <1>6, <1>7, <1>8, <1>9, OnlyOneMoves DEF MachineInv

-----------------------------------------------------------------------------
(* Requests, edits and the clock.                                          *)

(* Steps that move no operation and publish nothing.                       *)
LEMMA LightKeeps ==
  ASSUME SessionInv, Types', Alone', UNCHANGED <<files, endpoint, moved, op, acked>>,
         \A n \in Machines : /\ DownIdle(n)' /\ (MayPublish(n)' => MayPublish(n))
                             /\ data[n] \subseteq data'[n]
  PROVE  SessionInv'
  <1>1. \A e : Latest(e)' = Latest(e)
    BY SameLatest
  <1>2. ASSUME NEW n \in Machines PROVE MachineInv(n)'
    <2>1. MachineInv(n) /\ DownIdle(n)' /\ (MayPublish(n)' => MayPublish(n))
          /\ data[n] \subseteq data'[n]
      BY DEF SessionInv
    <2>2. Targets(n)'
      BY <2>1 DEF MachineInv, Targets, MayPublish
    <2>3. (Latest(op[n].to))' = Latest(op[n].to)
          /\ (Latest(endpoint[n]))' = Latest(endpoint[n])
      <3>1. (Listed(op[n].to))' = Listed(op[n].to)
            /\ (Listed(endpoint[n]))' = Listed(endpoint[n])
        BY DEF Listed
      <3> QED BY <3>1 DEF Latest
    <2>4. Compatible(n)'
      BY <2>1, <2>3 DEF MachineInv, Compatible, Strays, AtMost
    <2>5. (OneServer => Current(n))'
      BY <2>1 DEF MachineInv, Current, OneServer
    <2> QED BY <2>1, <2>2, <2>4, <2>5 DEF MachineInv
  <1>3. (OneServer => NoneDropped)'
    BY <1>1 DEF SessionInv, NoneDropped, OneServer
  <1> QED BY <1>2, <1>3 DEF SessionInv

LEMMA TriggerKeeps ==
  ASSUME SessionInv, NEW m \in Machines, OthersDown(m), TriggerPull(m),
         UNCHANGED <<files, data, endpoint, moved, op, acked, now>>
  PROVE  SessionInv'
  <1>1. Types
    BY DEF SessionInv
  <1>2. CASE UNCHANGED <<state, waiting>>
    <2>1. Types' /\ Alone' /\ \A n \in Machines : DownIdle(n)' /\ (MayPublish(n)' => MayPublish(n))
      BY <1>1, <1>2 DEF SessionInv, Types, Alone, MachineInv, DownIdle, MayPublish
    <2> QED BY <2>1, LightKeeps
  <1>3. CASE /\ state' = [state EXCEPT ![m] = "syncing"]
             /\ waiting' = [waiting EXCEPT ![m] = @ \cup {"pull"}]
    <2>1. Types'
      BY <1>1, <1>3 DEF Types, States, Requests
    <2>2. state'[m] = "syncing" /\ waiting'[m] = waiting[m] \cup {"pull"}
          /\ \A n \in Machines : n # m => state'[n] = state[n] /\ waiting'[n] = waiting[n]
      BY <1>1, <1>3 DEF Types
    <2>3. Alone' /\ \A n \in Machines : DownIdle(n)' /\ (MayPublish(n)' => MayPublish(n))
      BY <2>2 DEF OthersDown, SessionInv, Alone, MachineInv, DownIdle, MayPublish
    <2> QED BY <2>1, <2>3, LightKeeps
  <1> QED BY <1>2, <1>3 DEF TriggerPull

LEMMA RequestsKeep ==
  ASSUME SessionInv, NEW m \in Machines,
         \/ Start(m) \/ RetryPull(m) \/ RequestUpload(m) \/ RequestSwitch(m)
         \/ EditRequest(m) \/ EditCommit(m)
  PROVE  SessionInv'
  <1>1. Types
    BY DEF SessionInv
  <1>2. CASE Start(m)
    BY <1>2, TriggerKeeps DEF Start, bounds, OthersDown, published
  <1>3. CASE RetryPull(m)
    BY <1>3, UpAlone, TriggerKeeps DEF RetryPull, published
  <1>4. ASSUME NEW w \in Requests, waiting' = [waiting EXCEPT ![m] = @ \cup {w}],
               w = "upload" => state[m] = "writable", state[m] # "down",
               UNCHANGED <<files, data, state, endpoint, moved, op, acked, now>>
        PROVE  SessionInv'
    <2>1. Types'
      BY <1>1, <1>4 DEF Types
    <2>2. waiting'[m] = waiting[m] \cup {w}
          /\ \A n \in Machines : n # m => waiting'[n] = waiting[n]
      BY <1>1, <1>4 DEF Types
    <2>3. Alone' /\ \A n \in Machines : DownIdle(n)' /\ (MayPublish(n)' => MayPublish(n))
      BY <1>4, <2>2 DEF SessionInv, Alone, MachineInv, DownIdle, MayPublish
    <2> QED BY <1>4, <2>1, <2>3, LightKeeps
  <1>5. CASE RequestUpload(m)
    BY <1>4, <1>5 DEF RequestUpload, bounds, Requests, published
  <1>6. CASE RequestSwitch(m)
    BY <1>4, <1>6 DEF RequestSwitch, Requests, published
  <1>7. ASSUME UNCHANGED <<files, state, endpoint, moved, waiting, op, acked, now>>,
               data' \in [Machines -> SUBSET Edits],
               \A n \in Machines : data[n] \subseteq data'[n]
        PROVE  SessionInv'
    <2>1. Types' /\ Alone' /\ \A n \in Machines : DownIdle(n)' /\ (MayPublish(n)' => MayPublish(n))
      BY <1>1, <1>7 DEF SessionInv, Types, Alone, MachineInv, DownIdle, MayPublish
    <2> QED BY <1>7, <2>1, LightKeeps
  <1>8. CASE EditRequest(m)
    BY <1>1, <1>7, <1>8 DEF EditRequest, session, bounds, Types, published
  <1>9. CASE EditCommit(m)
    <2> DEFINE A == {data[n] : n \in Machines}
               B == {files[e][n].edits : e \in Endpoints, n \in 1 .. MaxNow}
               used == (UNION A) \cup (UNION B)
               x == Min(Edits \ used)
    <2>1. Edits # used /\ data' = [data EXCEPT ![m] = @ \cup {x}]
      BY <1>9 DEF EditCommit
    <2>2. used \subseteq Edits
      <3>1. \A n \in Machines : data[n] \subseteq Edits
        BY <1>1 DEF Types
      <3>2. \A e \in Endpoints : \A n \in 1 .. MaxNow : files[e][n].edits \subseteq Edits
        <4>1. \A a \in Files : a.edits \subseteq Edits
          BY DEF Files
        <4>2. \A e \in Endpoints : \A n \in 1 .. MaxNow : files[e][n] \in Files
          BY <1>1 DEF Types
        <4> QED BY <4>1, <4>2
      <3>3. \A s \in A : s \subseteq Edits
        BY <3>1
      <3>4. \A s \in B : s \subseteq Edits
        BY <3>2
      <3> HIDE DEF A, B
      <3>5. \A y \in used : y \in UNION A \/ y \in UNION B
        OBVIOUS
      <3> HIDE DEF used
      <3>6. ASSUME NEW y \in used PROVE y \in Edits
        <4>1. y \in UNION A \/ y \in UNION B
          BY <3>5, <3>6
        <4>2. CASE y \in UNION A
          <5>1. PICK s \in A : y \in s
            BY <4>2
          <5> QED BY <5>1, <3>3
        <4>3. CASE y \in UNION B
          <5>1. PICK s \in B : y \in s
            BY <4>3
          <5> QED BY <5>1, <3>4
        <4> QED BY <4>1, <4>2, <4>3
      <3> QED BY <3>6
    <2>3. x \in Edits
      <3> DEFINE free == Edits \ used
                 R == {ss \in Nat \X Nat : ss[1] < ss[2]}
      <3>1. free # {} /\ free \subseteq Nat /\ free \subseteq Edits
        <4> HIDE DEF used
        <4>1. \E y \in Edits : y \notin used
          BY <2>1, <2>2
        <4> QED BY <4>1, EditsAssumption
      <3> HIDE DEF free
      <3>2. IsWellFoundedOn(R, Nat)
        BY NatLessThanWellFounded, Zenon DEF OpToRel
      <3>3. PICK k \in free : \A y \in free : ~(<<y, k>> \in R)
        <4> HIDE DEF R
        <4> QED BY <3>1, <3>2, WFMin
      <3>4. ASSUME NEW y \in free PROVE k <= y
        <4>1. <<y, k>> \in Nat \X Nat /\ <<y, k>>[1] = y /\ <<y, k>>[2] = k
          BY <3>1
        <4>2. ~(y < k)
          BY <3>3, <4>1
        <4> QED BY <3>1, <4>2
      <3>5. Min(free) \in free
        BY <3>4 DEF Min
      <3> QED BY <3>1, <3>5 DEF free
    <2> HIDE DEF x, used
    <2>4. data' \in [Machines -> SUBSET Edits] /\ \A n \in Machines : data[n] \subseteq data'[n]
      BY <1>1, <2>1, <2>3 DEF Types
    <2> QED BY <1>7, <1>9, <2>4 DEF EditCommit, session, bounds, published
  <1> QED BY <1>2, <1>3, <1>5, <1>6, <1>8, <1>9

LEMMA StopKeeps ==
  ASSUME SessionInv, NEW m \in Machines, Stop(m)
  PROVE  SessionInv'
  <1>1. Types /\ OthersDown(m)
    BY UpAlone DEF SessionInv, Stop
  <1>2. Types'
    BY <1>1, IdleOp DEF Stop, Types, States, published
  <1>3. op'[m] = Idle /\ state'[m] = "down" /\ waiting'[m] = {} /\ OthersStay(m)
    BY <1>1 DEF Stop, Types, OthersStay
  <1>4. MachineInv(m)'
    BY <1>3 DEF MachineInv, DownIdle, Targets, Compatible, Current, MayPublish,
                Publishing, Idle
  <1>5. OneServer => NoneDropped'
    BY SameLatest DEF Stop, SessionInv, NoneDropped, published
  <1> QED BY <1>1, <1>2, <1>3, <1>4, <1>5, OnlyOneMoves

LEMMA TickKeeps ==
  ASSUME SessionInv, Tick
  PROVE  SessionInv'
  <1>1. Types /\ now \in Nat /\ MaxNow \in Nat
    BY ClockFacts DEF SessionInv
  <1>2. /\ now' \in 1..MaxNow /\ now <= now'
        /\ UNCHANGED <<files, data, endpoint, moved, state, waiting, op, acked>>
    BY <1>1 DEF Tick, session, Types, published
  <1>3. \A e \in Endpoints : \A n \in 1..MaxNow : files'[e][n] # Absent => n <= now'
    BY <1>1, <1>2 DEF Types
  <1>4. Types'
    BY <1>1, <1>2, <1>3 DEF Types
  <1>5. Alone' /\ \A n \in Machines : DownIdle(n)' /\ (MayPublish(n)' => MayPublish(n))
    BY <1>2 DEF SessionInv, Alone, MachineInv, DownIdle, MayPublish
  <1> QED BY <1>2, <1>4, <1>5, LightKeeps

-----------------------------------------------------------------------------
(* The operation that holds the lock.                                      *)

(* What is known of a machine whose operation is at a step.                *)
LEMMA Working ==
  ASSUME SessionInv, NEW m \in Machines, op[m].at # "idle"
  PROVE  /\ Types /\ MachineInv(m) /\ state[m] # "down" /\ op[m] \in Ops
         /\ op[m].kind \in {"pull", "upload", "switch"}
         /\ \A e \in Endpoints : Latest(e) \in Files
  <1>1. Types /\ MachineInv(m) /\ op[m] \in Ops
    BY DEF SessionInv, Types
  <1>2. op[m].kind # "none"
    BY <1>1 DEF MachineInv, Targets, Idle
  <1> QED BY <1>1, <1>2, UpAlone, LatestIsFile DEF Ops, Kinds

LEMMA OpAt ==
  ASSUME NEW o \in Ops, NEW s \in Steps
  PROVE  /\ [o EXCEPT !.at = s] \in Ops
         /\ [o EXCEPT !.at = s].at = s /\ [o EXCEPT !.at = s].kind = o.kind
         /\ [o EXCEPT !.at = s].to = o.to /\ [o EXCEPT !.at = s].art = o.art
         /\ [o EXCEPT !.at = s].copy = o.copy
  BY DEF Ops

(* Requests that end without publishing.                                   *)
LEMMA EndKeeps ==
  ASSUME SessionInv, NEW m \in Machines, op[m].at # "idle",
         NEW result \in {"ok", "error", "same", "local"}, Finish(m, result),
         result = "ok" => op[m].at = "record",
         UNCHANGED <<files, data, acked, now>>
  PROVE  SessionInv'
  <1>1. op[m].kind # "none" /\ Types
    BY Working
  <1>2. \A e \in Endpoints : \A n \in 1..MaxNow : files'[e][n] # Absent => n <= now'
    BY <1>1 DEF Types
  <1>3. files' \in [Endpoints -> [1..MaxNow -> Files]]
    BY <1>1 DEF Types
  <1>4. \A e \in Endpoints : AtMost(Latest(e), m) => AtMost(Latest(e)', m)
    BY SameLatest
  <1>5. OneServer => NoneDropped'
    BY SameLatest DEF SessionInv, NoneDropped
  <1> QED BY <1>1, <1>2, <1>3, <1>4, <1>5, FinishKeeps

(* A step that only goes to the next one.                                  *)
LEMMA GotoKeeps ==
  ASSUME SessionInv, NEW m \in Machines, op[m].at # "idle", NEW s \in Steps,
         Goto(m, s), UNCHANGED <<files, data, acked, now, state, waiting, endpoint, moved>>,
         s \notin {"idle", "load"}, op[m].to \in Endpoints,
         op[m].kind = "pull" => s \in PullSteps,
         op[m].kind = "upload" => s \in UploadSteps,
         op[m].kind = "switch" => s \in SwitchSteps,
         s \in {"merge", "record"} => AtMost(Latest(op[m].to), m),
         s \in {"copy", "put"} /\ ~Strays(m) => AtMost(Latest(op[m].to), m),
         s \in {"download", "merge"} => op[m].art = Latest(op[m].to),
         OneServer => /\ s \in {"copy", "record"} => acked[op[m].to] \subseteq data[m]
                      /\ s # "put"
  PROVE  SessionInv'
  <1> DEFINE o == [op[m] EXCEPT !.at = s]
  <1>1. Types /\ MachineInv(m) /\ state[m] # "down" /\ op[m] \in Ops
        /\ op[m].kind \in {"pull", "upload", "switch"}
    BY Working
  <1>2. /\ o \in Ops /\ o.at = s /\ o.kind = op[m].kind /\ o.to = op[m].to
        /\ o.art = op[m].art
    BY <1>1, OpAt
  <1>3. op' = [op EXCEPT ![m] = o]
    BY <1>1 DEF Goto, Types
  <1>4. waiting' \in [Machines -> SUBSET Requests] /\ data' \in [Machines -> SUBSET Edits]
    BY <1>1 DEF Types
  <1>5. /\ o.kind = "pull" => endpoint[m] \in Endpoints
        /\ o.kind = "upload" => o.to = endpoint[m]
        /\ endpoint \in [Machines -> Servers] /\ moved \in [Machines -> BOOLEAN]
        /\ OneServer /\ MayPublish(m) => acked[endpoint[m]] \subseteq data[m]
    BY <1>1, <1>2 DEF MachineInv, Targets, Current, Types
  <1>6. o.at \in {"copy", "put"} /\ ~(moved'[m] /\ o.kind = "upload") => AtMost(Latest(o.to), m)
    BY <1>2 DEF Strays
  <1> HIDE DEF o
  <1> QED BY <1>1, <1>2, <1>3, <1>4, <1>5, <1>6, GoOnKeeps, ZenonT(40)

LEMMA LockKeeps ==
  ASSUME SessionInv, NEW m \in Machines, TakeLock(m)
  PROVE  SessionInv'
  <1>1. PICK kind \in waiting[m], e \in Endpoints :
           /\ op' = [op EXCEPT ![m] =
                      [Idle EXCEPT !.kind = kind,
                                   !.at = CASE kind = "pull" -> "load"
                                            [] kind = "upload" -> "copy"
                                            [] kind = "switch" -> "test",
                                   !.to = IF kind = "switch" THEN e ELSE Server(m)]]
           /\ waiting' = [waiting EXCEPT ![m] = @ \ {kind}]
    BY DEF TakeLock
  <1>2. UNCHANGED <<files, data, acked, endpoint, moved, state, now>>
    BY DEF TakeLock, Calm, bounds, published
  <1>3. Types /\ MachineInv(m) /\ state[m] # "down"
    BY <1>1, UpAlone DEF SessionInv
  <1>4. kind \in Requests /\ endpoint[m] \in Servers
    BY <1>3 DEF Types
  <1> DEFINE at == CASE kind = "pull" -> "load" [] kind = "upload" -> "copy"
                     [] kind = "switch" -> "test"
             to == IF kind = "switch" THEN e ELSE endpoint[m]
             o == [Idle EXCEPT !.kind = kind, !.at = at, !.to = to]
  <1>5. op' = [op EXCEPT ![m] = o]
    BY <1>1 DEF Server
  <1>6. /\ kind = "pull" => at = "load" /\ to = endpoint[m]
        /\ kind = "upload" => at = "copy" /\ to = endpoint[m]
        /\ kind = "switch" => at = "test" /\ to = e
    OBVIOUS
  <1> HIDE DEF at, to
  <1>7. kind \in Kinds /\ at \in Steps /\ to \in Servers
    BY <1>4, <1>6 DEF Kinds, Requests, Steps, PullSteps, SwitchSteps, Servers
  <1>8. o \in Ops /\ o.kind = kind /\ o.at = at /\ o.to = to
    BY <1>7, IdleOp DEF Ops
  <1> HIDE DEF o
  <1>9. kind = "upload" => /\ endpoint[m] \in Endpoints
                           /\ ~moved[m] => AtMost(Latest(endpoint[m]), m)
                           /\ OneServer => acked[endpoint[m]] \subseteq data[m]
    BY <1>3 DEF MachineInv, Targets, Compatible, Current, MayPublish
  <1>10. OneServer /\ MayPublish(m) => acked[endpoint[m]] \subseteq data[m]
    BY <1>3 DEF MachineInv, Current
  <1>11. /\ waiting' \in [Machines -> SUBSET Requests] /\ waiting'[m] \subseteq waiting[m]
         /\ \A n \in Machines : n # m => waiting'[n] = waiting[n]
         /\ data' \in [Machines -> SUBSET Edits]
         /\ endpoint' \in [Machines -> Servers] /\ moved' \in [Machines -> BOOLEAN]
    BY <1>1, <1>2, <1>3 DEF Types
  <1>12. CASE kind = "pull"
    BY <1>2, <1>3, <1>5, <1>6, <1>7, <1>8, <1>10, <1>11, <1>12, GoOnKeeps
    DEF PullSteps, Publishing
  <1>13. CASE kind = "upload"
    BY <1>2, <1>3, <1>5, <1>6, <1>7, <1>8, <1>9, <1>10, <1>11, <1>13, GoOnKeeps
    DEF UploadSteps, Publishing
  <1>14. CASE kind = "switch"
    BY <1>2, <1>3, <1>5, <1>6, <1>7, <1>8, <1>10, <1>11, <1>14, GoOnKeeps
    DEF SwitchSteps, Publishing
  <1> QED BY <1>4, <1>12, <1>13, <1>14 DEF Requests

(* A request that fails, or that ends early, leaves what the others need.  *)
LEMMA FaultKeeps ==
  ASSUME SessionInv, NEW m \in Machines, op[m].at # "idle",
         NEW result \in {"error", "same"}, Fault(m, result),
         UNCHANGED <<files, data, acked>>
  PROVE  SessionInv'
  BY EndKeeps DEF Fault

LEMMA LoadKeeps ==
  ASSUME SessionInv, NEW m \in Machines, Load(m)
  PROVE  SessionInv'
  <1>1. op[m].at = "load" /\ UNCHANGED <<files, data, acked, now>>
    BY DEF Load, Calm, bounds, published
  <1>2. op[m].to \in Servers /\ MachineInv(m)
    BY <1>1, Working DEF Ops
  <1>3. CASE op[m].to = NoEndpoint
    BY <1>1, <1>3, EndKeeps DEF Load
  <1>4. CASE op[m].to # NoEndpoint
    <2>1. Goto(m, "list") /\ UNCHANGED <<state, waiting, endpoint, moved>>
      BY <1>4 DEF Load, session
    <2>2. op[m].to \in Endpoints
      BY <1>2, <1>4 DEF Servers
    <2>3. op[m].kind \notin {"upload", "none"}
      BY <1>1, <1>2 DEF MachineInv, Targets, UploadSteps, Idle
    <2> QED BY <1>1, <2>1, <2>2, <2>3, GotoKeeps
        DEF Steps, PullSteps, SwitchSteps, Publishing
  <1> QED BY <1>3, <1>4

LEMMA TestKeeps ==
  ASSUME SessionInv, NEW m \in Machines, Test(m)
  PROVE  SessionInv'
  <1>1. op[m].at = "test" /\ UNCHANGED <<files, data, acked>>
    BY DEF Test, published
  <1>2. MachineInv(m)
    BY <1>1, Working
  <1>3. op[m].to \in Endpoints /\ op[m].kind \notin {"upload", "pull"}
    BY <1>1, <1>2 DEF MachineInv, Targets, UploadSteps, PullSteps
  <1>4. CASE Goto(m, "list") /\ UNCHANGED <<state, waiting, endpoint, moved, now>>
    BY <1>1, <1>3, <1>4, GotoKeeps DEF Steps, PullSteps, SwitchSteps, Publishing
  <1>5. CASE Fault(m, "same")
    BY <1>1, <1>5, FaultKeeps
  <1> QED BY <1>4, <1>5 DEF Test, session, Calm, bounds

(* A listing tells the newest artifact; an empty folder has no edit to     *)
(* lose, and no schema to go back from.                                    *)
LEMMA ListKeeps ==
  ASSUME SessionInv, NEW m \in Machines, List(m)
  PROVE  SessionInv'
  <1> DEFINE a == Latest(op[m].to)
             s == IF a = Absent THEN "copy" ELSE "download"
             o == [op[m] EXCEPT !.art = a, !.at = s]
  <1>1. op[m].at = "list" /\ UNCHANGED <<files, data, acked>>
    BY DEF List, published
  <1>2. /\ Types /\ MachineInv(m) /\ state[m] # "down" /\ op[m] \in Ops
        /\ op[m].kind \in {"pull", "switch"} /\ op[m].to \in Endpoints /\ a \in Files
    BY <1>1, Working DEF MachineInv, Targets, UploadSteps
  <1>3. CASE Fault(m, "error")
    BY <1>1, <1>3, FaultKeeps
  <1>4. CASE /\ op' = [op EXCEPT ![m].art = Latest(op[m].to),
                                 ![m].at = IF Latest(op[m].to) = Absent THEN "copy"
                                           ELSE "download"]
             /\ UNCHANGED <<snapshot, manifest, session>> /\ Calm
    <2>1. op' = [op EXCEPT ![m] = o]
      <3>1. op' = [op EXCEPT ![m].art = a, ![m].at = s]
        BY <1>4
      <3> HIDE DEF a, s
      <3> QED BY <3>1, <1>2 DEF Types
    <2>2. UNCHANGED <<state, waiting, endpoint, moved, now>>
      BY <1>4 DEF session, Calm, bounds
    <2>3. (a = Absent => s = "copy") /\ (a # Absent => s = "download")
      OBVIOUS
    <2>4. a = Absent => AtMost(a, m) /\ (OneServer => acked[op[m].to] \subseteq data[m])
      <3>1. AtMost(Absent, m)
        BY AbsentIsFile, AcceptedIsAtMost
      <3>2. a = Absent /\ OneServer => acked[op[m].to] = {}
        BY <1>2 DEF SessionInv, NoneDropped, Absent
      <3> QED BY <3>1, <3>2
    <2>5. a = Latest(op[m].to)
      OBVIOUS
    <2> HIDE DEF a
    <2>6. s \in {"copy", "download"}
      OBVIOUS
    <2> HIDE DEF s
    <2>7. /\ o \in Ops /\ o.kind = op[m].kind /\ o.at = s /\ o.to = op[m].to
          /\ o.art = a
      <3>1. s \in Steps
        BY <2>6 DEF Steps, PullSteps
      <3> QED BY <1>2, <3>1 DEF Ops
    <2> HIDE DEF o
    <2>8. OneServer /\ MayPublish(m) => acked[endpoint[m]] \subseteq data[m]
      BY <1>2 DEF MachineInv, Current
    <2>9. o.kind = "pull" => endpoint[m] \in Endpoints
      BY <1>1, <1>2, <2>7 DEF MachineInv, Targets
    <2>10. /\ waiting' \in [Machines -> SUBSET Requests] /\ data' \in [Machines -> SUBSET Edits]
           /\ endpoint' \in [Machines -> Servers] /\ moved' \in [Machines -> BOOLEAN]
      BY <1>1, <1>2, <2>2 DEF Types
    <2>11. CASE s = "copy"
      BY <1>1, <1>2, <2>1, <2>2, <2>3, <2>4, <2>5, <2>7, <2>8, <2>9, <2>10, <2>11, GoOnKeeps
      DEF PullSteps, SwitchSteps, Publishing
    <2>12. CASE s = "download"
      BY <1>1, <1>2, <2>1, <2>2, <2>5, <2>7, <2>8, <2>9, <2>10, <2>12, GoOnKeeps
      DEF PullSteps, SwitchSteps, Publishing
    <2> QED BY <2>6, <2>11, <2>12
  <1> QED BY <1>3, <1>4 DEF List

(* What is downloaded is not refused: the newest schema is not newer.      *)
LEMMA DownloadKeeps ==
  ASSUME SessionInv, NEW m \in Machines, Download(m)
  PROVE  SessionInv'
  <1>1. op[m].at = "download" /\ UNCHANGED <<files, data, acked>>
    BY DEF Download, published
  <1>2. MachineInv(m) /\ op[m] \in Ops
    BY <1>1, Working
  <1>3. /\ op[m].to \in Endpoints /\ op[m].kind # "upload"
        /\ op[m].art = Latest(op[m].to) /\ op[m].art \in Files
    BY <1>1, <1>2 DEF MachineInv, Targets, Compatible, UploadSteps, Ops
  <1>4. CASE Refused(m, op[m].art)
    BY <1>1, <1>4, EndKeeps DEF Download, Calm, bounds
  <1>5. CASE ~Refused(m, op[m].art) /\ Goto(m, "merge")
             /\ UNCHANGED <<state, waiting, endpoint, moved, now>>
    <2>1. AtMost(Latest(op[m].to), m)
      BY <1>3, <1>5, AcceptedIsAtMost
    <2> QED BY <1>1, <1>3, <1>5, <2>1, GotoKeeps DEF Steps, PullSteps, SwitchSteps, Publishing
  <1>6. CASE Fault(m, "error")
    BY <1>1, <1>6, FaultKeeps
  <1> QED BY <1>4, <1>5, <1>6 DEF Download, session, Calm, bounds

(* A merge takes the newest artifact's edits, which hold the published ones *)
(* of its server; with one server these are all that this machine had.      *)
LEMMA MergeKeeps ==
  ASSUME SessionInv, NEW m \in Machines, Merge(m)
  PROVE  SessionInv'
  <1> DEFINE s == IF Upgraded(m, op[m].art) THEN "copy" ELSE "record"
             o == [op[m] EXCEPT !.at = s]
  <1>1. op[m].at = "merge" /\ UNCHANGED <<files, acked>>
    BY DEF Merge, published
  <1>2. /\ Types /\ MachineInv(m) /\ state[m] # "down" /\ op[m] \in Ops
        /\ op[m].kind \in {"pull", "switch"}
    BY <1>1, Working DEF MachineInv, Targets, UploadSteps
  <1>3. /\ op[m].to \in Endpoints /\ AtMost(Latest(op[m].to), m)
        /\ op[m].art = Latest(op[m].to) /\ op[m].art \in Files
    BY <1>1, <1>2 DEF MachineInv, Targets, Compatible, Ops
  <1>4. CASE Fault(m, "error") /\ UNCHANGED data
    BY <1>1, <1>4, FaultKeeps
  <1>5. CASE /\ data' = [data EXCEPT ![m] = op[m].art.edits] /\ AdoptEndpoint(m) /\ Goto(m, s)
             /\ UNCHANGED <<state, waiting, now>>
    <2>1. s \in {"copy", "record"}
      OBVIOUS
    <2> HIDE DEF s
    <2>2. /\ o \in Ops /\ o.at = s /\ o.kind = op[m].kind /\ o.to = op[m].to
          /\ o.art = op[m].art
      BY <1>2, <2>1, OpAt DEF Steps, PullSteps
    <2>3. op' = [op EXCEPT ![m] = o]
      BY <1>2, <1>5 DEF Goto, Types
    <2> HIDE DEF o
    <2>4. data'[m] = op[m].art.edits /\ data' \in [Machines -> SUBSET Edits]
      BY <1>2, <1>3, <1>5 DEF Types, Files
    <2>5. OneServer => acked[op[m].to] \subseteq data'[m]
      BY <1>3, <2>4 DEF SessionInv, NoneDropped
    <2>9. /\ endpoint' \in [Machines -> Servers] /\ moved' \in [Machines -> BOOLEAN]
          /\ endpoint[m] \in Endpoints => endpoint'[m] \in Endpoints
          /\ ~moved'[m] => ~moved[m] /\ endpoint'[m] = endpoint[m]
      BY <1>2, <1>3, <1>5 DEF AdoptEndpoint, Types, Files, Servers
    <2>6. OneServer /\ MayPublish(m) => acked[endpoint'[m]] \subseteq data'[m]
      BY <1>2, <1>3, <2>5, <2>9 DEF OneServer, MayPublish, MachineInv, Targets
    <2>7. o.kind = "pull" => endpoint'[m] \in Endpoints
      BY <1>1, <1>2, <2>2, <2>9 DEF MachineInv, Targets
    <2>8. waiting' \in [Machines -> SUBSET Requests]
      BY <1>2, <1>5 DEF Types
    <2> QED BY <1>1, <1>2, <1>3, <1>5, <2>1, <2>2, <2>3, <2>4, <2>5, <2>6, <2>7, <2>8, <2>9, GoOnKeeps
        DEF PullSteps, SwitchSteps
  <1> QED BY <1>4, <1>5 DEF Merge, session, Calm, bounds

(* The copy holds what the tables hold: every published edit of the server. *)
LEMMA CopyKeeps ==
  ASSUME SessionInv, NEW m \in Machines, Copy(m)
  PROVE  SessionInv'
  <1> DEFINE o == [op[m] EXCEPT !.copy = data[m], !.at = "put"]
  <1>1. op[m].at = "copy" /\ UNCHANGED <<files, data, acked>>
    BY DEF Copy, published
  <1>2. /\ Types /\ MachineInv(m) /\ state[m] # "down" /\ op[m] \in Ops
        /\ op[m].kind \in {"pull", "upload", "switch"}
    BY <1>1, Working
  <1>3. /\ op[m].to \in Endpoints /\ (~Strays(m) => AtMost(Latest(op[m].to), m))
        /\ OneServer => acked[op[m].to] \subseteq data[m]
    BY <1>1, <1>2 DEF MachineInv, Targets, Compatible, Current, Publishing
  <1>4. CASE Fault(m, "error")
    BY <1>1, <1>4, FaultKeeps
  <1>5. CASE /\ op' = [op EXCEPT ![m].copy = data[m], ![m].at = "put"]
             /\ UNCHANGED <<state, waiting, endpoint, moved, now>>
    <2>1. op' = [op EXCEPT ![m] = o]
      BY <1>2, <1>5 DEF Types
    <2>2. data[m] \in SUBSET Edits
      BY <1>2 DEF Types
    <2>3. /\ o \in Ops /\ o.kind = op[m].kind /\ o.at = "put" /\ o.to = op[m].to
          /\ o.copy = data[m]
      BY <1>2, <2>2 DEF Ops, Steps, PullSteps
    <2> HIDE DEF o
    <2>4. OneServer /\ MayPublish(m) => acked[endpoint[m]] \subseteq data[m]
      BY <1>2 DEF MachineInv, Current
    <2>5. /\ o.kind = "upload" => o.to = endpoint[m]
          /\ o.kind = "pull" => endpoint[m] \in Endpoints
      BY <1>1, <1>2, <2>3 DEF MachineInv, Targets
    <2>6. /\ waiting' \in [Machines -> SUBSET Requests] /\ data' \in [Machines -> SUBSET Edits]
          /\ endpoint' \in [Machines -> Servers] /\ moved' \in [Machines -> BOOLEAN]
      BY <1>1, <1>2, <1>5 DEF Types
    <2>7. ~(moved'[m] /\ o.kind = "upload") => AtMost(Latest(o.to), m)
      BY <1>3, <1>5, <2>3 DEF Strays
    <2> QED BY <1>1, <1>2, <1>3, <1>5, <2>1, <2>3, <2>4, <2>5, <2>6, <2>7, GoOnKeeps
        DEF PullSteps, UploadSteps, SwitchSteps
  <1>6. CASE op[m].to = NoEndpoint
    BY <1>3, <1>6, NoEndpointAssumption
  <1> QED BY <1>4, <1>5, <1>6 DEF Copy, session, Calm, bounds

(* What a put leaves in the newest artifact: all that was published.       *)
LEMMA PutFacts ==
  ASSUME SessionInv, NEW m \in Machines, op[m].at = "put"
  PROVE  /\ Types /\ MachineInv(m) /\ state[m] # "down" /\ op[m] \in Ops
         /\ op[m].kind \in {"pull", "upload", "switch"}
         /\ op[m].to \in Endpoints /\ op[m].copy \in SUBSET Edits
         /\ ~Strays(m) => AtMost(Latest(op[m].to), m)
         /\ OneServer => acked[op[m].to] \subseteq op[m].copy /\ op[m].copy \subseteq data[m]
  BY Working DEF MachineInv, Targets, Compatible, Current, Publishing, Ops

LEMMA StoreKeepsPublished ==
  ASSUME SessionInv, NEW m \in Machines, op[m].at = "put", Store(m), now' = now,
         NEW extra \in SUBSET op[m].copy,
         acked' = [acked EXCEPT ![op[m].to] = @ \cup extra]
  PROVE  /\ files' \in [Endpoints -> [1..MaxNow -> Files]]
         /\ \A e \in Endpoints : \A n \in 1..MaxNow : files'[e][n] # Absent => n <= now'
         /\ \A e \in Endpoints : AtMost(Latest(e), m) => AtMost(Latest(e)', m)
         /\ AtMost(Artifact(m, op[m].copy), m)
         /\ \A e \in Endpoints : e = op[m].to => Latest(e)' = Artifact(m, op[m].copy)
         /\ acked' \in [Endpoints -> SUBSET Edits]
         /\ OneServer => NoneDropped'
  <1> DEFINE a == Artifact(m, op[m].copy)
             to == op[m].to
  <1>1. /\ Types /\ to \in Endpoints /\ op[m].copy \in SUBSET Edits
        /\ OneServer => acked[to] \subseteq op[m].copy
    BY PutFacts
  <1>2. /\ files' \in [Endpoints -> [1..MaxNow -> Files]]
        /\ \A e \in Endpoints : \A n \in 1..MaxNow : files'[e][n] # Absent => n <= now'
        /\ \A e \in Endpoints : Latest(e)' = IF e = to THEN a ELSE Latest(e)
    BY <1>1, StoredIsLatest
  <1>3. AtMost(a, m) /\ a.edits = op[m].copy
    BY <1>1, ArtifactFacts
  <1>4. acked' \in [Endpoints -> SUBSET Edits] /\ acked'[to] = acked[to] \cup extra
    BY <1>1 DEF Types
  <1> HIDE DEF a
  <1>5. ASSUME OneServer, NEW e \in Endpoints PROVE acked'[e] \subseteq Latest(e)'.edits
    <2>1. e = to
      BY <1>1, <1>5 DEF OneServer
    <2>2. Latest(e)' = a
      BY <1>2, <2>1
    <2> HIDE DEF to
    <2>3. acked'[e] \subseteq op[m].copy
      BY <1>1, <1>4, <1>5, <2>1
    <2> QED BY <1>3, <2>2, <2>3
  <1>6. OneServer => NoneDropped'
    BY <1>5 DEF NoneDropped
  <1>7. \A e \in Endpoints : AtMost(Latest(e), m) => AtMost(Latest(e)', m)
    BY <1>2, <1>3
  <1> HIDE DEF to
  <1> QED BY <1>2, <1>3, <1>4, <1>6, <1>7 DEF a, to

(* A put that is acknowledged publishes its copy; one that fails may have   *)
(* reached the server, and its copy holds what was published before.       *)
LEMMA PutKeeps ==
  ASSUME SessionInv, NEW m \in Machines, Put(m)
  PROVE  SessionInv'
  <1>1. op[m].at = "put" /\ UNCHANGED data
    BY DEF Put
  <1>2. /\ Types /\ MachineInv(m) /\ state[m] # "down" /\ op[m] \in Ops
        /\ op[m].kind \in {"pull", "upload", "switch"}
        /\ op[m].to \in Endpoints /\ op[m].copy \in SUBSET Edits
        /\ OneServer => acked[op[m].to] \subseteq op[m].copy /\ op[m].copy \subseteq data[m]
    BY <1>1, PutFacts
  <1>3. CASE Store(m) /\ Fault(m, "error") /\ UNCHANGED acked
    <2>1. now' = now /\ Finish(m, "error")
      BY <1>3 DEF Fault
    <2>2. acked' = [acked EXCEPT ![op[m].to] = @ \cup {}]
      BY <1>2, <1>3 DEF Types
    <2>a. {} \in SUBSET op[m].copy
      OBVIOUS
    <2> DEFINE none == {}
    <2>b. none \in SUBSET op[m].copy /\ acked' = [acked EXCEPT ![op[m].to] = @ \cup none]
      BY <2>2, <2>a
    <2> HIDE DEF none
    <2>3. /\ files' \in [Endpoints -> [1..MaxNow -> Files]]
          /\ \A e \in Endpoints : \A n \in 1..MaxNow : files'[e][n] # Absent => n <= now'
          /\ \A e \in Endpoints : AtMost(Latest(e), m) => AtMost(Latest(e)', m)
          /\ OneServer => NoneDropped'
      BY <1>1, <1>3, <2>1, <2>b, StoreKeepsPublished
    <2> QED BY <1>1, <1>2, <1>3, <2>1, <2>3, FinishKeeps
  <1>4. CASE UNCHANGED files /\ Fault(m, "error") /\ UNCHANGED acked
    BY <1>1, <1>4, FaultKeeps
  <1>5. CASE /\ Store(m) /\ acked' = [acked EXCEPT ![op[m].to] = @ \cup op[m].copy]
             /\ Goto(m, "record")
             /\ UNCHANGED <<state, waiting, endpoint, moved, now>>
    <2> DEFINE o == [op[m] EXCEPT !.at = "record"]
    <2>1. /\ op' = [op EXCEPT ![m] = o]
          /\ o \in Ops /\ o.at = "record" /\ o.kind = op[m].kind /\ o.to = op[m].to
      BY <1>2, <1>5, OpAt DEF Goto, Types, Steps, PullSteps
    <2> HIDE DEF o
    <2>2. /\ files' \in [Endpoints -> [1..MaxNow -> Files]]
          /\ \A e \in Endpoints : \A n \in 1..MaxNow : files'[e][n] # Absent => n <= now'
          /\ \A e \in Endpoints : AtMost(Latest(e), m) => AtMost(Latest(e)', m)
          /\ AtMost(Artifact(m, op[m].copy), m)
          /\ \A e \in Endpoints : e = op[m].to => Latest(e)' = Artifact(m, op[m].copy)
          /\ acked' \in [Endpoints -> SUBSET Edits]
          /\ OneServer => NoneDropped'
      BY <1>1, <1>5, StoreKeepsPublished
    <2>3. op'[m] = o /\ OthersStay(m) /\ OthersDown(m)
      BY <1>2, <1>5, <2>1, UpAlone DEF Types, OthersStay
    <2>4. Types'
      BY <1>1, <1>2, <1>5, <2>1, <2>2 DEF Types
    <2>5. MayPublish(m)' => MayPublish(m)
      BY <1>5 DEF MayPublish
    <2>6. DownIdle(m)' /\ Targets(m)'
      BY <1>2, <1>5, <2>1, <2>3, <2>5
      DEF DownIdle, Targets, MachineInv, MayPublish, PullSteps, UploadSteps, SwitchSteps
    <2>7. AtMost(Latest(op[m].to), m)'
      <3>0. op'[m].to = op[m].to
        BY <2>1, <2>3
      <3>1. \A e \in Endpoints : e = op[m].to => (Latest(op[m].to))' = Latest(e)'
        BY <3>0 DEF Latest, Listed
      <3>2. (Latest(op[m].to))' = Artifact(m, op[m].copy)
        BY <1>2, <2>2, <3>1
      <3> QED BY <2>2, <3>2 DEF AtMost
    <2>8. MayPublish(m) /\ ~moved[m] => AtMost(Latest(endpoint[m]), m)'
      <3>1. MayPublish(m) /\ ~moved[m] => endpoint[m] \in Endpoints /\ AtMost(Latest(endpoint[m]), m)
        BY <1>2 DEF MachineInv, Targets, Compatible, MayPublish
      <3>2. \A e \in Endpoints : e = endpoint[m] => (Latest(endpoint[m]))' = Latest(e)'
        BY <1>5 DEF Latest, Listed
      <3>3. MayPublish(m) /\ ~moved[m] => \A e \in Endpoints : e = endpoint[m] => AtMost(Latest(e)', m)
        BY <2>2, <3>1
      <3>4. MayPublish(m) /\ ~moved[m] => AtMost((Latest(endpoint[m]))', m)
        BY <3>1, <3>2, <3>3
      <3> QED BY <3>4 DEF AtMost
    <2>9. Compatible(m)'
      BY <1>5, <2>1, <2>3, <2>5, <2>7, <2>8 DEF Compatible
    <2>10. ASSUME OneServer PROVE Current(m)'
      <3>1. acked'[op[m].to] \subseteq data'[m]
        BY <1>1, <1>2, <1>5, <2>10 DEF Types
      <3>2. MayPublish(m)' => endpoint'[m] = op[m].to
        BY <1>2, <1>5, <2>5, <2>10 DEF MachineInv, Targets, MayPublish, OneServer
      <3> QED BY <2>1, <2>3, <3>1, <3>2 DEF Current
    <2>11. (OneServer => Current(m))'
      BY <2>10 DEF OneServer
    <2> QED BY <2>2, <2>3, <2>4, <2>6, <2>9, <2>11, OnlyOneMoves DEF MachineInv
  <1> QED BY <1>3, <1>4, <1>5 DEF Put, session, Calm, bounds

LEMMA RecordKeeps ==
  ASSUME SessionInv, NEW m \in Machines, Record(m)
  PROVE  SessionInv'
  <1>1. op[m].at = "record" /\ UNCHANGED <<files, data, acked>>
    BY DEF Record, published
  <1>2. CASE Fault(m, "error")
    BY <1>1, <1>2, FaultKeeps
  <1>3. CASE Finish(m, "ok") /\ now' = now
    BY <1>1, <1>3, EndKeeps
  <1> QED BY <1>2, <1>3 DEF Record, Calm, bounds

-----------------------------------------------------------------------------
(* The invariant.                                                          *)

LEMMA InitHolds == ASSUME Init PROVE SessionInv
  <1>1. 1 \in 1..MaxNow
    BY ClockAssumption
  <1>2. \A e \in Endpoints : \A n \in 1..MaxNow : files[e][n] = Absent
    BY DEF Init
  <1>3. files \in [Endpoints -> [1..MaxNow -> Files]]
    <2>1. files \in [Endpoints -> [1..MaxNow -> {Absent}]]
      BY DEF Init
    <2> QED BY <2>1, AbsentIsFile
  <1>4. Types
    <2>1. endpoint \in [Machines -> Servers]
      BY ConfiguredAssumption DEF Init, Servers
    <2> QED BY <1>1, <1>2, <1>3, <2>1, IdleOp DEF Init, Types, Servers, States
  <1>5. \A m \in Machines : state[m] = "down" /\ op[m] = Idle /\ waiting[m] = {}
    BY DEF Init
  <1>6. Alone
    BY <1>5 DEF Alone
  <1>7. \A m \in Machines : MachineInv(m)
    BY <1>5, IdleOp DEF MachineInv, DownIdle, Targets, Compatible, Current, MayPublish, Publishing
  <1>8. NoneDropped
    BY DEF Init, NoneDropped
  <1> QED BY <1>4, <1>6, <1>7, <1>8 DEF SessionInv

LEMMA StepKeeps == ASSUME SessionInv, [Next]_vars PROVE SessionInv'
  <1>1. CASE UNCHANGED vars
    <2>1. Types' /\ Alone' /\ \A n \in Machines : DownIdle(n)' /\ (MayPublish(n)' => MayPublish(n))
      BY <1>1 DEF vars, SessionInv, Types, Alone, MachineInv, DownIdle, MayPublish
    <2> QED BY <1>1, <2>1, LightKeeps DEF vars
  <1>2. CASE Tick
    BY <1>2, TickKeeps
  <1>3. ASSUME NEW m \in Machines, Step(m) PROVE SessionInv'
    <2>1. CASE Works(m)
      BY <2>1, LockKeeps, LoadKeeps, TestKeeps, ListKeeps, DownloadKeeps, MergeKeeps,
         CopyKeeps, PutKeeps, RecordKeeps DEF Works
    <2> QED BY <1>3, <2>1, RequestsKeep, StopKeeps DEF Step
  <1> QED BY <1>1, <1>2, <1>3 DEF Next

LEMMA AlwaysRight == Spec => []SessionInv
  <1>1. Init => SessionInv
    BY InitHolds
  <1>2. SessionInv /\ [Next]_vars => SessionInv'
    BY StepKeeps
  <1> QED BY <1>1, <1>2, PTL DEF Spec

(* Only a put changes what a server shows, and its machine may put there,   *)
(* or uploads after a merge changed its server.                             *)
LEMMA OnlyPutStores ==
  ASSUME Next, NEW m \in Machines, Step(m), files' # files
  PROVE  Put(m) /\ op[m].at = "put" /\ Store(m) /\ now' = now
  <1>1. Put(m)
    <2>1. Start(m) => files' = files
      BY DEF Start
    <2>2. (RetryPull(m) \/ RequestUpload(m) \/ RequestSwitch(m)) => files' = files
      BY DEF RetryPull, RequestUpload, RequestSwitch
    <2>3. (EditRequest(m) \/ EditCommit(m) \/ Stop(m)) => files' = files
      BY DEF EditRequest, EditCommit, Stop
    <2>4. TakeLock(m) => files' = files
      BY DEF TakeLock
    <2>5. (Load(m) \/ Test(m) \/ List(m)) => files' = files
      BY DEF Load, Test, List
    <2>6. (Download(m) \/ Merge(m)) => files' = files
      BY DEF Download, Merge
    <2>7. (Copy(m) \/ Record(m)) => files' = files
      BY DEF Copy, Record
    <2> QED BY <2>1, <2>2, <2>3, <2>4, <2>5, <2>6, <2>7 DEF Step, Works
  <1> QED BY <1>1 DEF Put, Fault, Calm, bounds

LEMMA SchemaStep ==
  ASSUME SessionInv, Next, NEW e \in Endpoints
  PROVE  \/ NoOlder(Latest(e), Latest(e)')
         \/ \E m \in Machines : Strays(m) /\ op[m].at = "put" /\ op[m].to = e
  <1>1. Latest(e) \in Files
    BY LatestIsFile DEF SessionInv
  <1>2. CASE files' = files
    <2>1. Latest(e)' = Latest(e)
      BY <1>2, SameLatest
    <2> QED BY <1>1, <2>1 DEF NoOlder, Files
  <1>3. CASE files' # files
    <2>1. PICK m \in Machines : Step(m)
      BY <1>3 DEF Next, Tick
    <2>2. op[m].at = "put" /\ Store(m) /\ now' = now
      BY <1>3, <2>1, OnlyPutStores
    <2>3. /\ Types /\ op[m].to \in Endpoints /\ op[m].copy \in SUBSET Edits
          /\ ~Strays(m) => AtMost(Latest(op[m].to), m)
      BY <2>2, PutFacts
    <2>4. Latest(e)' = IF e = op[m].to THEN Artifact(m, op[m].copy) ELSE Latest(e)
      BY <2>2, <2>3, StoredIsLatest
    <2>5. CASE e = op[m].to /\ ~Strays(m)
      <3>1. AtMost(Latest(e), m) /\ Latest(e)' = Artifact(m, op[m].copy)
        BY <2>3, <2>4, <2>5
      <3>2. \A a : AtMost(a, m) => NoOlder(a, Artifact(m, op[m].copy))
        BY <2>3, ArtifactFacts DEF NoOlder
      <3> QED BY <3>1, <3>2
    <2>6. CASE e # op[m].to
      BY <1>1, <2>4, <2>6 DEF NoOlder, Files
    <2>7. CASE e = op[m].to /\ Strays(m)
      BY <2>2, <2>7
    <2> QED BY <2>5, <2>6, <2>7
  <1> QED BY <1>2, <1>3

(* Type correctness, for any machines, servers and versions: sessions,      *)
(* requests and artifacts stay in their sets (config_session.py:40-140).    *)
THEOREM TypeCorrect == Spec => []TypeOK
  <1>1. SessionInv => TypeOK
    <2> SUFFICES ASSUME Types PROVE TypeOK
      BY DEF SessionInv
    <2>1. ASSUME NEW e \in Endpoints, NEW n \in 1 .. MaxNow
          PROVE  files[e][n].edits \subseteq Edits
      <3>1. files[e][n] \in Files
        BY DEF Types
      <3> QED BY <3>1 DEF Files
    <2>2. state \in [Machines -> States] /\ data \in [Machines -> SUBSET Edits]
          /\ waiting \in [Machines -> SUBSET Requests]
      BY DEF Types
    <2>3. \A m \in Machines : data[m] \subseteq Edits /\ waiting[m] \subseteq Requests
      BY <2>2
    <2> QED BY <2>1, <2>2, <2>3 DEF TypeOK, States, Requests
  <1> QED BY <1>1, AlwaysRight, PTL

(* No machine replaces the newest artifact of a server by one of an older   *)
(* schema, on any number of servers, but by an upload to a server that only *)
(* a merge put into its sync_config: every other request publishes after it *)
(* saw the newest artifact there and refused it if it was newer than its    *)
(* program (config_sync.py:205-225), and no other process runs meanwhile.   *)
THEOREM SchemaNeverGoesBack == Spec => NewestSchemaGrows
  <1>1. SessionInv /\ [Next]_vars =>
          [\A e \in Endpoints :
             \/ NoOlder(Latest(e), Latest(e)')
             \/ \E m \in Machines : Strays(m) /\ op[m].at = "put" /\ op[m].to = e]_vars
    BY SchemaStep
  <1> QED BY <1>1, AlwaysRight, PTL DEF Spec, NewestSchemaGrows

(* With one server, an edit whose PUT was acknowledged is in the newest     *)
(* artifact ever after, and nothing is dropped: a copy is taken only from   *)
(* tables that hold what the newest artifact had.  A second server breaks   *)
(* it also without a move, see MCConfigSyncRace.                            *)
THEOREM PublishedEditsStay ==
  ASSUME OneServer
  PROVE  Spec => [](NewestKeepsPublished /\ NoneDropped)
  <1>1. SessionInv => NewestKeepsPublished /\ NoneDropped
    BY DEF SessionInv, NoneDropped, NewestKeepsPublished
  <1> QED BY <1>1, AlwaysRight, PTL

(* With one server, a session that lets its user edit holds every edit that *)
(* was published there (config_session.py:96).                              *)
THEOREM EditorsHoldEverything ==
  ASSUME OneServer
  PROVE  Spec => [](EditorIsCurrent /\ HoldsAll)
  <1>1. SessionInv => EditorIsCurrent /\ HoldsAll
    BY DEF SessionInv, MachineInv, Current, MayPublish, EditorIsCurrent, HoldsAll
  <1> QED BY <1>1, AlwaysRight, PTL
=============================================================================

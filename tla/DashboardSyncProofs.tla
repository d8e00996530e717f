------------------------- MODULE DashboardSyncProofs -------------------------
(***************************************************************************)
(* Machine-checked facts about DashboardSync, for any number of machines,  *)
(* rows, artifacts and stops, with overlapping transactions and listings   *)
(* that lag.                                                               *)
(***************************************************************************)
EXTENDS DashboardSync, TLAPS, FiniteSetTheorems, WellFoundedInduction, SequenceTheorems

LEMMA Bounds ==
  /\ MaxRow \in Nat \ {0} /\ MaxAttempts \in Nat \ {0} /\ MaxStops \in Nat
  /\ MaxArtifacts \in Nat
  BY SyncAssumption

Artifacts == [content : Contents, visible : BOOLEAN]
Kinds == {"none", "export", "archive"}
Markers == [operation : Kinds, max : 0..MaxRow, name : Nat]
Jobs == [at : Stages, operation : Kinds, content : Contents, expected : Nat,
         name : Nat, attempt : 1..MaxAttempts, recovering : BOOLEAN]

RemoteTypes == remote \in Seq(Artifacts)
RowTypes ==
  /\ log \in [Machines -> 0..MaxRow] /\ mark \in [Machines -> 0..MaxRow]
  /\ deleted \subseteq Rows
DiskTypes ==
  /\ local \in [Machines -> Contents] /\ stored \in [Machines -> Nat]
  /\ pending \in [Machines -> Markers]
  /\ file \in [Machines -> Contents \union {NoFile}]
JobTypes ==
  /\ job \in [Machines -> Jobs]
  /\ stops \in 0..MaxStops /\ landed \in [Machines -> BOOLEAN]
Types == RemoteTypes /\ RowTypes /\ DiskTypes /\ JobTypes

(* What a machine may rely on at each stage of its transaction.            *)
Held(m) == job[m].at \in {"check", "put", "confirm", "install", "marks"}
             => file[m] # NoFile
Sent(m) == job[m].at \in {"confirm", "install", "marks"}
             => /\ job[m].name \in 1..Len(remote)
                /\ remote[job[m].name].content = file[m]
Seen(m) == job[m].at \in {"install", "marks"} => remote[job[m].name].visible
Named(m) == pending[m].name # 0
             => /\ pending[m].name \in 1..Len(remote)
                /\ file[m] # NoFile => remote[pending[m].name].content = file[m]
Pass(m, i) == i <= mark[m] \/ <<m, i>> \in deleted
Covers(m) == pending[m].operation = "export"
             => \A i \in 1..MaxRow :
                  /\ (i <= mark[m] /\ pending[m].max < i) => <<m, i>> \in deleted
                  /\ (file[m] # NoFile /\ ~Pass(m, i) /\ i <= pending[m].max)
                       => file[m][<<m, i>>] > 0
Reached(m) == (job[m].at = "cleanup" /\ pending[m].operation = "export")
             => pending[m].max <= mark[m]
Marked(m) == \A i \in 1..MaxRow : Pass(m, i) => Archived(<<m, i>>)
Behind(m) == mark[m] <= log[m] /\ pending[m].max <= log[m]
Refers(m) == {job[m].expected, job[m].name, stored[m], pending[m].name}
               \subseteq 0..Len(remote)

MachineInv(m) ==
  /\ Held(m) /\ Sent(m) /\ Seen(m) /\ Named(m) /\ Covers(m) /\ Reached(m)
  /\ Marked(m) /\ Behind(m) /\ Refers(m)

IInv == Types /\ (\A m \in Machines : MachineInv(m))
-----------------------------------------------------------------------------
(* A non-empty set of positions has a greatest one.                        *)
LEMMA GreatestExists ==
  ASSUME NEW n \in Nat, NEW S \in SUBSET (1..n), S # {}
  PROVE  \E k \in S : \A j \in S : j <= k
  <1> DEFINE T == {p \in Nat : n - p \in S}
             R == {ss \in Nat \X Nat : ss[1] < ss[2]}
  <1>1. T \subseteq Nat /\ T # {}
    <2>1. PICK k \in S : TRUE
      OBVIOUS
    <2>2. n - k \in Nat /\ n - (n - k) = k
      OBVIOUS
    <2> QED BY <2>1, <2>2
  <1>2. IsWellFoundedOn(R, Nat)
    BY NatLessThanWellFounded, Zenon DEF OpToRel
  <1>3. PICK x \in T : \A y \in T : ~(<<y, x>> \in R)
    <2> HIDE DEF T, R
    <2> QED BY <1>1, <1>2, WFMin
  <1>4. ASSUME NEW y \in T PROVE x <= y
    <2>1. <<y, x>>[1] = y /\ <<y, x>>[2] = x /\ <<y, x>> \in Nat \X Nat
      BY <1>1
    <2>2. ~(y < x)
      BY <1>3, <2>1
    <2>3. y \in Nat /\ x \in Nat
      BY <1>1
    <2> QED BY <2>2, <2>3
  <1>5. ASSUME NEW j \in S PROVE j <= n - x
    <2>1. n - j \in Nat /\ n - (n - j) = j
      OBVIOUS
    <2>2. n - j \in T
      BY <2>1
    <2>3. x <= n - j /\ x \in Nat
      BY <1>4, <2>2
    <2> QED BY <2>3
  <1> QED BY <1>3, <1>5

(* The newest artifact is one that listings show, or there is none.        *)
LEMMA LatestType ==
  ASSUME RemoteTypes
  PROVE  /\ Latest \in 0..Len(remote)
         /\ Visible \subseteq 1..Len(remote)
         /\ \A k \in Visible : remote[k].content \in Contents
  <1>1. Len(remote) \in Nat
    BY LenProperties DEF RemoteTypes
  <1>2. Visible \in SUBSET (1..Len(remote))
    BY DEF Visible
  <1>3. \A k \in 1..Len(remote) : remote[k] \in Artifacts
    BY ElementOfSeq DEF RemoteTypes
  <1>4. CASE Visible = {}
    BY <1>1, <1>2, <1>3, <1>4 DEF Latest
  <1>5. CASE Visible # {}
    <2>1. \E k \in Visible : Newest(k)
      <3> HIDE DEF Visible
      <3>1. PICK k \in Visible : \A j \in Visible : j <= k
        BY <1>1, <1>2, <1>5, GreatestExists
      <3> QED BY <3>1 DEF Newest
    <2>2. Latest \in Visible
      BY <1>5, <2>1 DEF Latest
    <2> QED BY <1>1, <1>2, <1>3, <2>2 DEF Artifacts
  <1> QED BY <1>4, <1>5

(* The greatest id of the rows left is one the log gave, or 0.             *)
LEMMA MaxIdType ==
  ASSUME NEW m \in Machines, RowTypes
  PROVE  /\ MaxId(m) \in 0..log[m]
         /\ \A i \in Present(m) : i <= MaxId(m)
  <1>1. log[m] \in Nat
    BY Bounds DEF RowTypes
  <1>2. Present(m) \in SUBSET (1..log[m])
    BY DEF Present
  <1>3. CASE Present(m) = {}
    BY <1>1, <1>3 DEF MaxId
  <1>4. CASE Present(m) # {}
    <2>1. \E i \in Present(m) : \A j \in Present(m) : j <= i
      BY <1>1, <1>2, <1>4, GreatestExists
    <2>2. MaxId(m) \in Present(m) /\ \A j \in Present(m) : j <= MaxId(m)
      BY <1>4, <2>1 DEF MaxId
    <2> QED BY <1>1, <1>2, <2>2
  <1> QED BY <1>3, <1>4

(* An export counts each row of the machine that is not passed yet.        *)
LEMMA ExportedType ==
  ASSUME NEW m \in Machines, NEW c \in Contents, RowTypes
  PROVE  /\ Exported(m, c) \in Contents
         /\ \A i \in 1..MaxRow :
              (~Pass(m, i) /\ i <= log[m]) => Exported(m, c)[<<m, i>>] > 0
  <1>1. \A r \in Rows : c[r] \in Nat /\ r[2] \in 1..MaxRow
    BY DEF Contents, Rows
  <1>2. mark[m] \in Int /\ log[m] \in Int
    BY Bounds DEF RowTypes
  <1>3. Exported(m, c) \in Contents
    BY <1>1 DEF Exported, Contents
  <1>4. ASSUME NEW i \in 1..MaxRow, ~Pass(m, i), i <= log[m]
        PROVE  Exported(m, c)[<<m, i>>] > 0
    <2>1. <<m, i>> \in Rows /\ <<m, i>>[1] = m /\ <<m, i>>[2] = i
      BY DEF Rows
    <2>4. mark[m] < i /\ i \in Present(m)
      BY <1>2, <1>4 DEF Pass, Present
    <2>2. c[<<m, i>>] \in Nat
      BY <1>1, <2>1
    <2>3. Exported(m, c)[<<m, i>>] = c[<<m, i>>] + 1
      BY <2>1, <2>4 DEF Exported
    <2> QED BY <2>2, <2>3
  <1> QED BY <1>3, <1>4
-----------------------------------------------------------------------------
(* Types.                                                                  *)

(* The stage, and only the stage, of the job of m becomes a.               *)
LEMMA GotoType ==
  ASSUME JobTypes, NEW m \in Machines, NEW a \in Stages, Goto(m, a),
         UNCHANGED <<stops, landed>>
  PROVE  JobTypes'
  BY DEF JobTypes, Goto, Jobs

LEMMA IdleType == Idle \in Jobs
  <1>1. 0 \in Nat /\ 1 \in 1..MaxAttempts
    BY Bounds
  <1>2. Empty \in Contents
    BY DEF Empty, Contents
  <1> QED BY <1>1, <1>2 DEF Idle, Jobs, Stages, Kinds

LEMMA NextAttemptType ==
  ASSUME JobTypes, NEW m \in Machines
  PROVE  NextAttempt(m) \in Jobs
  <1>1. job[m] \in Jobs /\ MaxAttempts \in Nat
    BY Bounds DEF JobTypes
  <1>2. job[m].attempt # MaxAttempts => job[m].attempt + 1 \in 1..MaxAttempts
    BY <1>1 DEF Jobs
  <1>3. job[m].operation \in Kinds
    BY <1>1 DEF Jobs
  <1> QED BY <1>2, <1>3, IdleType DEF NextAttempt, Idle, Jobs, Stages

LEMMA NoPendingType == NoPending \in Markers
  BY Bounds DEF NoPending, Markers, Kinds

LEMMA TypesStep ==
  ASSUME Types, \A m \in Machines : Held(m), [Next]_vars
  PROVE  Types'
  <1>0. Len(remote) \in Nat
    BY LenProperties DEF Types, RemoteTypes
  <1>l. Latest \in Nat /\ \A k \in Visible : k \in Nat /\ remote[k].content \in Contents
    BY <1>0, LatestType DEF Types
  <1>r. \A m \in Machines : job[m] \in Jobs /\ pending[m] \in Markers
                             /\ job[m].name \in Nat /\ pending[m].name \in Nat
    BY DEF Types, JobTypes, DiskTypes, Jobs, Markers
  <1>h. \A m \in Machines : At(m, "install") => file[m] \in Contents
    BY DEF Types, DiskTypes, Held, At
  <1>1. ASSUME NEW m \in Machines, NothingPending(m) PROVE Types'
    <2>1. RemoteTypes' /\ RowTypes'
      BY <1>1 DEF NothingPending, Types, RemoteTypes, RowTypes, rowVars
    <2>2. DiskTypes'
      BY <1>1 DEF NothingPending, Types, DiskTypes, diskVars
    <2>3. JobTypes'
      BY <1>1 DEF NothingPending, Types, JobTypes, Goto, Stages, Jobs
    <2> QED BY <2>1, <2>2, <2>3 DEF Types
  <1>2. ASSUME NEW m \in Machines, Refuse(m) PROVE Types'
    <2>1. RemoteTypes' /\ RowTypes'
      BY <1>2 DEF Refuse, Types, RemoteTypes, RowTypes, rowVars
    <2>2. DiskTypes'
      BY <1>2 DEF Refuse, Types, DiskTypes, diskVars
    <2>3. JobTypes'
      BY <1>2, IdleType DEF Refuse, Types, JobTypes
    <2> QED BY <2>1, <2>2, <2>3 DEF Types
  <1>3. ASSUME NEW m \in Machines, Recover(m) PROVE Types'
    <2>1. RemoteTypes' /\ RowTypes'
      BY <1>3 DEF Recover, Types, RemoteTypes, RowTypes, rowVars
    <2>2. DiskTypes'
      BY <1>3 DEF Recover, Types, DiskTypes, diskVars
    <2>3. JobTypes'
      <3> DEFINE X == [job[m] EXCEPT !.recovering = TRUE,
                         !.at = IF Known(pending[m].name) THEN "install" ELSE "check",
                         !.name = IF Known(pending[m].name) THEN pending[m].name ELSE 0,
                         !.expected = Latest]
      <3>1. job[m] \in Jobs
        BY <1>r
      <3>2. X \in Jobs
        BY <3>1, <1>l, <1>r DEF Jobs, Stages, Known
      <3>3. job' = [job EXCEPT ![m] = X]
        BY <1>3 DEF Recover
      <3>4. job' \in [Machines -> Jobs]
        <4> HIDE DEF X
        <4> QED BY <3>2, <3>3 DEF Types, JobTypes
      <3> QED BY <1>3, <3>4 DEF Recover, Types, JobTypes
    <2> QED BY <2>1, <2>2, <2>3 DEF Types
  <1>4. ASSUME NEW m \in Machines, Pull(m) PROVE Types'
    <2>1. RemoteTypes' /\ RowTypes'
      BY <1>4 DEF Pull, Types, RemoteTypes, RowTypes, rowVars, PullFrom
    <2>2. DiskTypes'
      BY <1>4 DEF Pull, Types, DiskTypes, diskVars, PullFrom
    <2>3. JobTypes'
      <3>1. PICK c \in Contents, k \in Nat : PullFrom(m, c, k)
        BY <1>4, <1>l DEF Pull, Types, DiskTypes
      <3> DEFINE X == [job[m] EXCEPT !.at = "prepare", !.content = c, !.expected = k]
      <3>2. X \in Jobs
        BY <1>r DEF Jobs, Stages
      <3>3. job' = [job EXCEPT ![m] = X]
        BY <3>1 DEF PullFrom
      <3>4. job' \in [Machines -> Jobs]
        <4> HIDE DEF X
        <4> QED BY <3>2, <3>3 DEF Types, JobTypes
      <3> QED BY <3>1, <3>4 DEF PullFrom, Types, JobTypes
    <2> QED BY <2>1, <2>2, <2>3 DEF Types
  <1>5. ASSUME NEW m \in Machines, NotFound(m) PROVE Types'
    <2>1. RemoteTypes' /\ RowTypes'
      BY <1>5 DEF NotFound, Types, RemoteTypes, RowTypes, rowVars
    <2>2. DiskTypes'
      BY <1>5 DEF NotFound, Types, DiskTypes, diskVars
    <2>3. JobTypes'
      BY <1>5, IdleType DEF NotFound, Types, JobTypes
    <2> QED BY <2>1, <2>2, <2>3 DEF Types
  <1>6. ASSUME NEW m \in Machines, Check(m) PROVE Types'
    <2>1. RemoteTypes' /\ RowTypes'
      BY <1>6 DEF Check, Types, RemoteTypes, RowTypes, rowVars
    <2>2. DiskTypes'
      BY <1>6 DEF Check, Types, DiskTypes, diskVars
    <2>3. JobTypes'
      BY <1>6 DEF Check, Types, JobTypes, Goto, Stages, Jobs
    <2> QED BY <2>1, <2>2, <2>3 DEF Types
  <1>7. ASSUME NEW m \in Machines, PutRefused(m) PROVE Types'
    <2>1. RemoteTypes' /\ RowTypes'
      BY <1>7 DEF PutRefused, Types, RemoteTypes, RowTypes, rowVars
    <2>2. DiskTypes'
      BY <1>7 DEF PutRefused, Types, DiskTypes, diskVars
    <2>3. JobTypes'
      BY <1>7 DEF PutRefused, Types, JobTypes, Goto, Stages, Jobs
    <2> QED BY <2>1, <2>2, <2>3 DEF Types
  <1>8. ASSUME NEW m \in Machines, Confirm(m) PROVE Types'
    <2>1. RemoteTypes' /\ RowTypes'
      BY <1>8 DEF Confirm, Types, RemoteTypes, RowTypes, rowVars
    <2>2. DiskTypes'
      BY <1>8, <1>r DEF Confirm, Types, DiskTypes, Markers
    <2>3. JobTypes'
      BY <1>8 DEF Confirm, Types, JobTypes, Goto, Stages, Jobs
    <2> QED BY <2>1, <2>2, <2>3 DEF Types
  <1>9. ASSUME NEW m \in Machines, Unconfirmed(m) PROVE Types'
    <2>1. RemoteTypes' /\ RowTypes'
      BY <1>9 DEF Unconfirmed, Types, RemoteTypes, RowTypes, rowVars
    <2>2. DiskTypes'
      BY <1>9 DEF Unconfirmed, Types, DiskTypes, diskVars
    <2>3. JobTypes'
      BY <1>9, IdleType DEF Unconfirmed, Types, JobTypes
    <2> QED BY <2>1, <2>2, <2>3 DEF Types
  <1>10. ASSUME NEW m \in Machines, DiscardFile(m) PROVE Types'
    <2>1. RemoteTypes' /\ RowTypes'
      BY <1>10 DEF DiscardFile, Types, RemoteTypes, RowTypes, rowVars
    <2>2. DiskTypes'
      BY <1>10 DEF DiscardFile, Types, DiskTypes
    <2>3. JobTypes'
      BY <1>10 DEF DiscardFile, Types, JobTypes, Goto, Stages, Jobs
    <2> QED BY <2>1, <2>2, <2>3 DEF Types
  <1>11. ASSUME NEW m \in Machines, DiscardMarkers(m) PROVE Types'
    <2>1. RemoteTypes' /\ RowTypes'
      BY <1>11 DEF DiscardMarkers, Types, RemoteTypes, RowTypes, rowVars
    <2>2. DiskTypes'
      BY <1>11, NoPendingType DEF DiscardMarkers, Types, DiskTypes
    <2>3. JobTypes'
      BY <1>11, NextAttemptType DEF DiscardMarkers, Types, JobTypes
    <2> QED BY <2>1, <2>2, <2>3 DEF Types
  <1>12. ASSUME NEW m \in Machines, Install(m) PROVE Types'
    <2>1. RemoteTypes' /\ RowTypes'
      BY <1>12 DEF Install, Types, RemoteTypes, RowTypes, rowVars
    <2>2. DiskTypes'
      BY <1>12, <1>h DEF Install, Types, DiskTypes, At
    <2>3. JobTypes'
      BY <1>12 DEF Install, Types, JobTypes, Goto, Stages, Jobs
    <2> QED BY <2>1, <2>2, <2>3 DEF Types
  <1>13. ASSUME NEW m \in Machines, Unlink(m) PROVE Types'
    <2>1. RemoteTypes' /\ RowTypes'
      BY <1>13 DEF Unlink, Types, RemoteTypes, RowTypes, rowVars
    <2>2. DiskTypes'
      BY <1>13 DEF Unlink, Types, DiskTypes
    <2>3. JobTypes'
      BY <1>13 DEF Unlink, Types, JobTypes, Goto, Stages, Jobs
    <2> QED BY <2>1, <2>2, <2>3 DEF Types
  <1>14. ASSUME NEW m \in Machines, Clear(m) PROVE Types'
    <2>1. RemoteTypes' /\ RowTypes'
      BY <1>14 DEF Clear, Types, RemoteTypes, RowTypes, rowVars
    <2>2. DiskTypes'
      BY <1>14, NoPendingType DEF Clear, Types, DiskTypes
    <2>3. JobTypes'
      BY <1>14, IdleType DEF Clear, Types, JobTypes, Stages, Jobs
    <2> QED BY <2>1, <2>2, <2>3 DEF Types
  <1>15. ASSUME NEW m \in Machines, Prepare(m) PROVE Types'
    <2>1. RemoteTypes' /\ RowTypes'
      BY <1>15 DEF Prepare, Types, RemoteTypes, RowTypes, rowVars
    <2>a. job[m].content \in Contents /\ job[m].operation \in Kinds
      BY DEF Types, JobTypes, Jobs
    <2>b. Candidate(m) \in Contents
      BY <2>a, ExportedType DEF Types, Candidate
    <2>c. Bound(m) \in 0..MaxRow
      <3>1. MaxId(m) \in 0..log[m] /\ log[m] \in 0..MaxRow /\ mark[m] \in 0..MaxRow
        BY MaxIdType DEF Types, RowTypes
      <3> QED BY <3>1, Bounds DEF Bound
    <2>d. 0 \in Nat
      OBVIOUS
    <2>e. [operation |-> job[m].operation, max |-> Bound(m), name |-> 0] \in Markers
      BY <2>a, <2>c, <2>d DEF Markers
    <2>2. DiskTypes'
      BY <1>15, <2>b, <2>e DEF Prepare, Types, DiskTypes
    <2>f. ExpectedOf(m) \in Nat
      BY <1>l, <1>r DEF ExpectedOf, Types, DiskTypes, Jobs
    <2>3. JobTypes'
      <3> DEFINE X == [job[m] EXCEPT !.at = "check", !.expected = ExpectedOf(m)]
      <3>1. job[m] \in Jobs
        BY <1>r
      <3>2. X \in Jobs
        BY <3>1, <2>f DEF Jobs, Stages
      <3>3. job' = [job EXCEPT ![m] = X]
        BY <1>15 DEF Prepare
      <3>4. job' \in [Machines -> Jobs]
        <4> HIDE DEF X
        <4> QED BY <3>2, <3>3 DEF Types, JobTypes
      <3> QED BY <1>15, <3>4 DEF Prepare, Types, JobTypes
    <2> QED BY <2>1, <2>2, <2>3 DEF Types
  <1>16. ASSUME NEW m \in Machines, SetMarks(m) PROVE Types'
    <2>1. RemoteTypes' /\ RowTypes'
      <3>1. pending[m].max \in 0..MaxRow
        BY <1>r DEF Markers
      <3> QED BY <1>16, <3>1 DEF SetMarks, Types, RemoteTypes, RowTypes
    <2>2. DiskTypes'
      BY <1>16, <1>r DEF SetMarks, Types, DiskTypes
    <2>3. JobTypes'
      BY <1>16 DEF SetMarks, Types, JobTypes, Jobs, Goto, Stages
    <2> QED BY <2>1, <2>2, <2>3 DEF Types
  <1>17. ASSUME NEW m \in Machines, NEW v \in BOOLEAN, Put(m, v) PROVE Types'
    <2>a. file[m] \in Contents
      BY <1>17 DEF Put, Types, DiskTypes, Held, At
    <2>b. [content |-> file[m], visible |-> v] \in Artifacts
      BY <2>a DEF Artifacts
    <2>c. RemoteTypes' /\ Len(remote') = Len(remote) + 1
      BY <1>17, <2>b, AppendProperties DEF Put, Types, RemoteTypes
    <2>1. RemoteTypes' /\ RowTypes'
      BY <1>17, <2>c DEF Put, Types, RowTypes, rowVars
    <2>2. DiskTypes'
      BY <1>17 DEF Put, Types, DiskTypes, diskVars
    <2>3. JobTypes'
      <3> DEFINE X == [job[m] EXCEPT !.at = "confirm", !.name = Len(remote')]
      <3>1. job[m] \in Jobs
        BY <1>r
      <3>n. Len(remote') \in Nat
        BY <1>0, <2>c
      <3>2. X \in Jobs
        <4> HIDE DEF Put
        <4> QED BY <3>1, <3>n DEF Jobs, Stages
      <3>3. job' = [job EXCEPT ![m] = X]
        BY <1>17 DEF Put
      <3>4. job' \in [Machines -> Jobs]
        <4> HIDE DEF X
        <4> QED BY <3>2, <3>3 DEF Types, JobTypes
      <3> QED BY <1>17, <3>4 DEF Put, Types, JobTypes
    <2> QED BY <2>1, <2>2, <2>3 DEF Types
  <1>18. ASSUME NEW m \in Machines, NEW old \in SUBSET {r \in Rows : r[1] = m},
                Cleanup(m, old)
         PROVE  Types'
    <2>1. RemoteTypes' /\ RowTypes'
      BY <1>18 DEF Cleanup, Types, RemoteTypes, RowTypes
    <2>2. DiskTypes'
      BY <1>18 DEF Cleanup, Types, DiskTypes, diskVars
    <2>3. JobTypes'
      BY <1>18 DEF Cleanup, Types, JobTypes, Jobs, Goto, Stages
    <2> QED BY <2>1, <2>2, <2>3 DEF Types
  <1>19. ASSUME NEW m \in Machines, RowArrives(m) PROVE Types'
    <2>1. RemoteTypes' /\ RowTypes'
      BY <1>19, Bounds DEF RowArrives, Types, RemoteTypes, RowTypes
    <2>2. DiskTypes'
      BY <1>19 DEF RowArrives, Types, DiskTypes, diskVars
    <2>3. JobTypes'
      BY <1>19 DEF RowArrives, Types, JobTypes
    <2> QED BY <2>1, <2>2, <2>3 DEF Types
  <1>20. ASSUME NEW m \in Machines, NEW o \in Operations, Begin(m, o) PROVE Types'
    <2>a. [Idle EXCEPT !.at = "recover", !.operation = o] \in Jobs
      BY IdleType, SyncAssumption DEF Jobs, Stages, Kinds
    <2>1. RemoteTypes' /\ RowTypes'
      BY <1>20 DEF Begin, Types, RemoteTypes, RowTypes, rowVars
    <2>2. DiskTypes'
      BY <1>20 DEF Begin, Types, DiskTypes, diskVars
    <2>3. JobTypes'
      BY <1>20, <2>a DEF Begin, Types, JobTypes
    <2> QED BY <2>1, <2>2, <2>3 DEF Types
  <1>21. ASSUME NEW m \in Machines, Stop(m) PROVE Types'
    <2>1. RemoteTypes' /\ RowTypes'
      BY <1>21 DEF Stop, Types, RemoteTypes, RowTypes, rowVars
    <2>2. DiskTypes'
      BY <1>21 DEF Stop, Types, DiskTypes, diskVars
    <2>3. JobTypes'
      BY <1>21, IdleType, Bounds DEF Stop, Types, JobTypes
    <2> QED BY <2>1, <2>2, <2>3 DEF Types
  <1>22. ASSUME NEW k \in 1..Len(remote), Appear(k) PROVE Types'
    <2>a. remote[k] \in Artifacts
      BY ElementOfSeq DEF Types, RemoteTypes
    <2>b. [remote[k] EXCEPT !.visible = TRUE] \in Artifacts
      BY <2>a DEF Artifacts
    <2>c. RemoteTypes'
      BY <1>22, <2>b, ExceptSeq DEF Appear, Types, RemoteTypes
    <2>1. RemoteTypes' /\ RowTypes'
      BY <1>22, <2>c DEF Appear, Types, RowTypes, rowVars
    <2>2. DiskTypes'
      BY <1>22 DEF Appear, Types, DiskTypes, diskVars
    <2>3. JobTypes'
      BY <1>22 DEF Appear, Types, JobTypes
    <2> QED BY <2>1, <2>2, <2>3 DEF Types
  <1>23. CASE UNCHANGED vars
    <2>1. RemoteTypes' /\ RowTypes'
      BY <1>23 DEF vars, Types, RemoteTypes, RowTypes, rowVars
    <2>2. DiskTypes'
      BY <1>23 DEF vars, Types, DiskTypes, diskVars
    <2>3. JobTypes'
      BY <1>23 DEF vars, Types, JobTypes
    <2> QED BY <2>1, <2>2, <2>3 DEF Types
  <1>s. ASSUME NEW m \in Machines, Step(m) PROVE Types'
    BY <1>s, <1>1, <1>2, <1>3, <1>4, <1>5, <1>6, <1>7, <1>8, <1>9, <1>10,
       <1>11, <1>12, <1>13, <1>14, <1>15, <1>16, <1>17, <1>18,
       <1>19, <1>20, <1>21, <1>22, <1>23 DEF Step
  <1> QED BY <1>s, <1>19, <1>20, <1>21, <1>22, <1>23 DEF Next
-----------------------------------------------------------------------------
(* What a step leaves in force.                                            *)

(* The server only gains artifacts and listings only gain entries.         *)
Grows ==
  /\ Len(remote) \in Nat /\ Len(remote') \in Nat /\ Len(remote) <= Len(remote')
  /\ \A k \in 1..Len(remote) :
       /\ remote'[k].content = remote[k].content
       /\ remote[k].visible => remote'[k].visible

LEMMA SameGrows ==
  ASSUME RemoteTypes, UNCHANGED remote
  PROVE  Grows
  <1>1. Len(remote) \in Nat
    BY LenProperties DEF RemoteTypes
  <1> QED BY <1>1 DEF Grows

LEMMA PutGrows ==
  ASSUME RemoteTypes, NEW a \in Artifacts, remote' = Append(remote, a)
  PROVE  Grows /\ Len(remote') = Len(remote) + 1 /\ remote'[Len(remote')] = a
  <1>1. Len(remote) \in Nat
    BY LenProperties DEF RemoteTypes
  <1>2. /\ Len(remote') = Len(remote) + 1
        /\ \A k \in 1..Len(remote) : remote'[k] = remote[k]
        /\ remote'[Len(remote) + 1] = a
    BY AppendProperties DEF RemoteTypes
  <1> QED BY <1>1, <1>2 DEF Grows

LEMMA AppearGrows ==
  ASSUME RemoteTypes, NEW k \in 1..Len(remote), Appear(k)
  PROVE  Grows
  <1>1. Len(remote) \in Nat
    BY LenProperties DEF RemoteTypes
  <1>2. remote' = [remote EXCEPT ![k].visible = TRUE]
    BY DEF Appear
  <1>3. \A j \in 1..Len(remote) : remote[j] \in Artifacts
    BY ElementOfSeq DEF RemoteTypes
  <1>4. [remote[k] EXCEPT !.visible = TRUE] \in Artifacts
    BY <1>3 DEF Artifacts
  <1>5. /\ Len(remote') = Len(remote)
        /\ \A j \in 1..Len(remote) :
             remote'[j] = IF j = k THEN [remote[k] EXCEPT !.visible = TRUE] ELSE remote[j]
    BY <1>2, <1>4, ExceptSeq DEF RemoteTypes
  <1>6. remote'[k].content = remote[k].content /\ remote'[k].visible
    BY <1>3, <1>5 DEF Artifacts
  <1> QED BY <1>1, <1>5, <1>6 DEF Grows

LEMMA ArchivedGrows ==
  ASSUME Grows, NEW r, Archived(r)
  PROVE  Archived(r)'
  <1>1. PICK k \in 1..Len(remote) : remote[k].visible /\ remote[k].content[r] > 0
    BY DEF Archived, Visible
  <1>2. k \in 1..Len(remote') /\ remote'[k].visible /\ remote'[k].content[r] > 0
    BY <1>1 DEF Grows
  <1> QED BY <1>2 DEF Archived, Visible

(* The mark of m stays, and no row of m that was not passed is now.        *)
Rests(m) ==
  /\ mark'[m] = mark[m] /\ deleted \subseteq deleted'
  /\ \A i \in 1..MaxRow : Pass(m, i)' => Pass(m, i)

LEMMA SameRests ==
  ASSUME NEW m, UNCHANGED <<mark, deleted>>
  PROVE  Rests(m)
  BY DEF Rests, Pass

(* Cleanup deletes only rows the mark has passed.                          *)
LEMMA CleanupRests ==
  ASSUME Types, NEW m \in Machines, Reached(m), NEW old, Cleanup(m, old),
         NEW n \in Machines
  PROVE  Rests(n)
  <1>1. /\ mark' = mark /\ deleted' = deleted \union old
        /\ old \subseteq {r \in Rows : r[1] = m /\ r[2] <= pending[m].max}
        /\ old # {} => pending[m].max <= mark[m]
    BY DEF Cleanup, At, Reached
  <1>2. mark[m] \in Int /\ pending[m].max \in Int
    BY Bounds DEF Types, RowTypes, DiskTypes, Markers
  <1>3. ASSUME NEW i \in 1..MaxRow, <<n, i>> \in old PROVE i <= mark[n]
    <2>1. n = m /\ i <= pending[m].max /\ pending[m].max <= mark[m]
      BY <1>1, <1>3
    <2> QED BY <2>1, <1>2
  <1> QED BY <1>1, <1>3 DEF Rests, Pass

LEMMA MarkedKept ==
  ASSUME NEW m, Grows, Marked(m), Rests(m)
  PROVE  Marked(m)'
  BY ArchivedGrows DEF Marked, Rests

LEMMA NamedKept ==
  ASSUME NEW m, Grows, Named(m), pending'[m].name = pending[m].name,
         file'[m] = file[m] \/ file'[m] = NoFile
  PROVE  Named(m)'
  BY DEF Named, Grows

LEMMA CoversKept ==
  ASSUME NEW m, Covers(m), Rests(m),
         pending'[m].operation = pending[m].operation,
         pending'[m].max = pending[m].max,
         file'[m] = file[m] \/ file'[m] = NoFile
  PROVE  Covers(m)'
  BY DEF Covers, Rests, Pass

LEMMA BehindKept ==
  ASSUME Types, NEW m \in Machines, Behind(m), mark'[m] = mark[m],
         pending'[m].max = pending[m].max,
         log'[m] = log[m] \/ log'[m] = log[m] + 1
  PROVE  Behind(m)'
  <1>1. log[m] \in Nat /\ mark[m] \in Nat /\ pending[m].max \in Nat
    BY Bounds DEF Types, RowTypes, DiskTypes, Markers
  <1> QED BY <1>1 DEF Behind

(* A machine that takes no part in a step keeps its invariant.             *)
LEMMA BystanderKept ==
  ASSUME Types, NEW m \in Machines, Grows, MachineInv(m),
         job'[m] = job[m], pending'[m] = pending[m], file'[m] = file[m],
         Rests(m), stored'[m] = stored[m],
         log'[m] = log[m] \/ log'[m] = log[m] + 1
  PROVE  MachineInv(m)'
  <1>1. Held(m)' /\ Reached(m)' /\ mark'[m] = mark[m]
    BY DEF MachineInv, Held, Reached, Rests
  <1>2. Sent(m)'
    BY DEF MachineInv, Sent, Grows
  <1>3. Seen(m)'
    BY DEF MachineInv, Sent, Seen, Grows
  <1>4. Named(m)' /\ Covers(m)' /\ Marked(m)' /\ Behind(m)'
    BY <1>1, NamedKept, CoversKept, MarkedKept, BehindKept DEF MachineInv
  <1>5. Refers(m)'
    BY DEF MachineInv, Refers, Grows
  <1> QED BY <1>1, <1>2, <1>3, <1>4, <1>5 DEF MachineInv

(* A step that changes only the stage of m keeps its invariant when the    *)
(* new stage's demands are met.                                            *)
Quiet == {"idle", "recover", "pull", "prepare", "conflict"}
LEMMA StageKept ==
  ASSUME Types, NEW m \in Machines, MachineInv(m),
         UNCHANGED <<remote, rowVars, diskVars>>,
         {job'[m].expected, job'[m].name} \subseteq 0..Len(remote),
         \/ job'[m].at \in Quiet
         \/ job'[m].at \in {"check", "put"} /\ file[m] # NoFile
         \/ /\ job'[m].at = "install" /\ file[m] # NoFile
            /\ job'[m].name \in 1..Len(remote)
            /\ remote[job'[m].name].visible
            /\ remote[job'[m].name].content = file[m]
  PROVE  MachineInv(m)'
  <1>1. Grows
    BY SameGrows DEF Types
  <1>2. /\ pending' = pending /\ file' = file /\ stored' = stored
        /\ mark' = mark /\ log' = log /\ remote' = remote /\ Rests(m)
    BY SameRests DEF rowVars, diskVars
  <1>3. Held(m)' /\ Sent(m)' /\ Seen(m)' /\ Reached(m)'
    BY <1>2 DEF Held, Sent, Seen, Reached, Quiet
  <1>4. Named(m)' /\ Covers(m)' /\ Marked(m)' /\ Behind(m)'
    BY <1>1, <1>2, NamedKept, CoversKept, MarkedKept, BehindKept DEF MachineInv
  <1>5. Refers(m)'
    BY <1>2 DEF MachineInv, Refers
  <1> QED BY <1>3, <1>4, <1>5 DEF MachineInv

(* A prepared file is not the empty file that stands for none.             *)
LEMMA ContentsAreFiles ==
  ASSUME NEW c \in Contents
  PROVE  c # NoFile
  <1>1. PICK m \in Machines : TRUE
    BY SyncAssumption
  <1>2. <<m, 1>> \in Rows
    BY Bounds DEF Rows
  <1>3. DOMAIN c = Rows /\ DOMAIN NoFile = {}
    BY DEF Contents, NoFile
  <1> QED BY <1>2, <1>3

LEMMA NextAttemptIsQuiet ==
  ASSUME NEW m
  PROVE  /\ NextAttempt(m).at \in {"idle", "recover"}
         /\ NextAttempt(m).expected = 0 /\ NextAttempt(m).name = 0
  BY DEF NextAttempt, Idle

(* The machine that takes a step keeps its invariant.                      *)
LEMMA OwnStep ==
  ASSUME Types, Types', NEW m \in Machines, MachineInv(m),
         \/ \E o \in Operations : Begin(m, o)
         \/ Step(m)
         \/ Stop(m)
  PROVE  MachineInv(m)'
  <1>0. /\ Len(remote) \in Nat /\ 0 \in 0..Len(remote)
    BY LenProperties DEF Types, RemoteTypes
  <1>j. job \in [Machines -> Jobs] /\ job[m] \in Jobs
    BY DEF Types, JobTypes
  <1>r. {job[m].expected, job[m].name, stored[m], pending[m].name} \subseteq 0..Len(remote)
    BY DEF MachineInv, Refers
  <1>l. Latest \in 0..Len(remote)
    BY LatestType DEF Types
  <1>g. UNCHANGED remote => Grows
    BY SameGrows DEF Types
  <1>p. UNCHANGED <<mark, deleted>> => Rests(m)
    BY SameRests
  <1>q. ASSUME job'[m].at \in Quiet, UNCHANGED <<remote, rowVars, diskVars>>,
               job'[m].expected \in 0..Len(remote), job'[m].name \in 0..Len(remote)
        PROVE  MachineInv(m)'
    BY <1>q, StageKept
  <1>i. Idle.at \in Quiet /\ Idle.expected = 0 /\ Idle.name = 0
    BY DEF Idle, Quiet
  <1>1. CASE Refuse(m)
    <2>1. job'[m] = Idle /\ UNCHANGED <<remote, rowVars, diskVars>>
      BY <1>1, <1>j DEF Refuse
    <2> QED BY <2>1, <1>0, <1>i, <1>q
  <1>2. CASE NotFound(m)
    <2>1. job'[m] = Idle /\ UNCHANGED <<remote, rowVars, diskVars>>
      BY <1>2, <1>j DEF NotFound
    <2> QED BY <2>1, <1>0, <1>i, <1>q
  <1>3. CASE Unconfirmed(m)
    <2>1. job'[m] = Idle /\ UNCHANGED <<remote, rowVars, diskVars>>
      BY <1>3, <1>j DEF Unconfirmed
    <2> QED BY <2>1, <1>0, <1>i, <1>q
  <1>4. CASE Stop(m)
    <2>1. job'[m] = Idle /\ UNCHANGED <<remote, rowVars, diskVars>>
      BY <1>4, <1>j DEF Stop
    <2> QED BY <2>1, <1>0, <1>i, <1>q
  <1>5. CASE \E o \in Operations : Begin(m, o)
    <2>1. PICK o \in Operations : Begin(m, o)
      BY <1>5
    <2>2. /\ job'[m] = [Idle EXCEPT !.at = "recover", !.operation = o]
          /\ UNCHANGED <<remote, rowVars, diskVars>>
      BY <2>1, <1>j DEF Begin
    <2>3. job'[m].at = "recover" /\ job'[m].expected = 0 /\ job'[m].name = 0
      BY <2>2 DEF Idle
    <2> QED BY <2>2, <2>3, <1>0, <1>q DEF Quiet
  <1>6. CASE NothingPending(m)
    <2>1. /\ job'[m].at = "pull" /\ job'[m].expected = job[m].expected
          /\ job'[m].name = job[m].name
          /\ UNCHANGED <<remote, rowVars, diskVars>>
      BY <1>6, <1>j DEF NothingPending, Goto, Jobs
    <2> QED BY <2>1, <1>r, <1>q DEF Quiet
  <1>7. CASE PutRefused(m)
    <2>1. /\ job'[m].at = "conflict" /\ job'[m].expected = job[m].expected
          /\ job'[m].name = job[m].name
          /\ UNCHANGED <<remote, rowVars, diskVars>>
      BY <1>7, <1>j DEF PutRefused, Goto, Jobs
    <2> QED BY <2>1, <1>r, <1>q DEF Quiet
  <1>8. CASE Check(m)
    <2>1. /\ job'[m].at \in {"conflict", "put"} /\ job'[m].expected = job[m].expected
          /\ job'[m].name = job[m].name
          /\ UNCHANGED <<remote, rowVars, diskVars>>
      BY <1>8, <1>j DEF Check, Goto, Jobs
    <2>2. file[m] # NoFile
      BY <1>8 DEF Check, At, MachineInv, Held
    <2> QED BY <2>1, <2>2, <1>r, StageKept DEF Quiet
  <1>9. CASE Recover(m)
    <2>1. /\ job'[m].at = IF Known(pending[m].name) THEN "install" ELSE "check"
          /\ job'[m].name = IF Known(pending[m].name) THEN pending[m].name ELSE 0
          /\ job'[m].expected = Latest
          /\ UNCHANGED <<remote, rowVars, diskVars>> /\ file[m] # NoFile
      BY <1>9, <1>j DEF Recover, Jobs
    <2>2. CASE Known(pending[m].name)
      <3>1. /\ pending[m].name \in 1..Len(remote) /\ remote[pending[m].name].visible
            /\ remote[pending[m].name].content = file[m]
        BY <2>1, <2>2 DEF Known, MachineInv, Named
      <3> QED BY <2>1, <2>2, <3>1, <1>l, <1>r, StageKept
    <2>3. CASE ~Known(pending[m].name)
      BY <2>1, <2>3, <1>0, <1>l, StageKept
    <2> QED BY <2>2, <2>3
  <1>10. CASE Pull(m)
    <2>1. ASSUME NEW c, NEW k \in 0..Len(remote), PullFrom(m, c, k)
          PROVE  MachineInv(m)'
      <3>1. /\ job'[m].at = "prepare" /\ job'[m].expected = k
            /\ job'[m].name = job[m].name
            /\ UNCHANGED <<remote, rowVars, diskVars>>
        BY <2>1, <1>j DEF PullFrom, Jobs
      <3> QED BY <3>1, <1>r, <1>q DEF Quiet
    <2>2. \A k \in Visible : k \in 0..Len(remote)
      BY <1>0, LatestType DEF Types
    <2> QED BY <1>10, <2>1, <2>2, <1>0 DEF Pull
  <1>11. CASE Prepare(m)
    <2>1. /\ job'[m].at = "check" /\ job'[m].expected = ExpectedOf(m)
          /\ job'[m].name = job[m].name
          /\ file'[m] = Candidate(m)
          /\ pending'[m] = [operation |-> job[m].operation, max |-> Bound(m), name |-> 0]
          /\ UNCHANGED <<remote, log, mark, deleted, stored>>
      BY <1>11, <1>j DEF Prepare, Jobs, Types, DiskTypes, rowVars
    <2>2. Grows
      BY <2>1, <1>g
    <2>3. job[m].content \in Contents
      BY <1>j DEF Jobs
    <2>4. Candidate(m) \in Contents
      BY <2>3, ExportedType DEF Types, Candidate
    <2>5. file'[m] # NoFile
      BY <2>1, <2>4, ContentsAreFiles
    <2>6. Held(m)' /\ Sent(m)' /\ Seen(m)' /\ Reached(m)'
      BY <2>1, <2>5 DEF Held, Sent, Seen, Reached
    <2>7. Named(m)'
      BY <2>1 DEF Named
    <2>8. Covers(m)'
      <3>1. CASE job[m].operation = "export"
        <4>1. /\ pending'[m].max = MaxId(m) /\ file'[m] = Exported(m, job[m].content)
              /\ mark' = mark /\ deleted' = deleted
          BY <2>1, <3>1 DEF Bound, Candidate
        <4>2. /\ mark[m] \in Nat /\ log[m] \in Nat /\ mark[m] <= log[m]
              /\ MaxId(m) \in 0..log[m] /\ \A i \in Present(m) : i <= MaxId(m)
          BY Bounds, MaxIdType DEF MachineInv, Behind, Types, RowTypes
        <4>3. \A i \in 1..MaxRow : (~Pass(m, i) /\ i <= log[m])
                => Exported(m, job[m].content)[<<m, i>>] > 0
          BY <2>3, ExportedType DEF Types
        <4>4. ASSUME NEW i \in 1..MaxRow, i <= mark[m], MaxId(m) < i
              PROVE  <<m, i>> \in deleted
          BY <4>2, <4>4 DEF Present
        <4>5. \A i \in 1..MaxRow : i <= MaxId(m) => i <= log[m]
          BY <4>2
        <4>6. \A i \in 1..MaxRow : Pass(m, i)' <=> Pass(m, i)
          BY <4>1 DEF Pass
        <4> QED BY <4>1, <4>3, <4>4, <4>5, <4>6 DEF Covers
      <3>2. CASE job[m].operation # "export"
        BY <2>1, <3>2 DEF Covers
      <3> QED BY <3>1, <3>2
    <2>9. Marked(m)'
      BY <2>1, <2>2, <1>p, MarkedKept DEF MachineInv
    <2>10. Behind(m)'
      <3>1. mark[m] \in Nat /\ log[m] \in Nat /\ mark[m] <= log[m]
        BY Bounds DEF Types, RowTypes, MachineInv, Behind
      <3>2. Bound(m) <= log[m]
        BY <3>1, MaxIdType DEF Bound, Types
      <3> QED BY <2>1, <3>1, <3>2 DEF Behind
    <2>11. Refers(m)'
      <3>1. ExpectedOf(m) \in 0..Len(remote)
        BY <1>r, <1>l DEF ExpectedOf
      <3> QED BY <2>1, <3>1, <1>0, <1>r DEF Refers
    <2> QED BY <2>6, <2>7, <2>8, <2>9, <2>10, <2>11 DEF MachineInv
  <1>12. ASSUME NEW v \in BOOLEAN, Put(m, v) PROVE MachineInv(m)'
    <2>1. /\ job'[m].at = "confirm" /\ job'[m].expected = job[m].expected
          /\ job'[m].name = Len(remote')
      BY <1>12, <1>j DEF Put, Jobs
    <2>2. file[m] \in Contents /\ file[m] # NoFile
      BY <1>12 DEF Put, At, Types, DiskTypes, MachineInv, Held
    <2>3. [content |-> file[m], visible |-> v] \in Artifacts
      BY <2>2 DEF Artifacts
    <2>4. /\ Grows /\ Len(remote') = Len(remote) + 1
          /\ remote'[Len(remote')] = [content |-> file[m], visible |-> v]
      BY <1>12, <2>3, PutGrows DEF Put, Types
    <2>5. /\ file' = file /\ pending' = pending /\ mark' = mark /\ log' = log
          /\ stored' = stored
      BY <1>12 DEF Put, rowVars, diskVars
    <2>r. Rests(m)
      BY <1>12, SameRests DEF Put, rowVars
    <2>6. Held(m)' /\ Seen(m)' /\ Reached(m)'
      BY <2>1, <2>2, <2>5 DEF Held, Seen, Reached
    <2>7. Sent(m)'
      BY <2>1, <2>4, <2>5, <1>0 DEF Sent
    <2>8. Named(m)' /\ Covers(m)' /\ Marked(m)' /\ Behind(m)'
      BY <2>4, <2>5, <2>r, NamedKept, CoversKept, MarkedKept, BehindKept DEF MachineInv
    <2>9. Refers(m)'
      BY <2>1, <2>4, <2>5, <1>0, <1>r DEF Refers
    <2> QED BY <2>6, <2>7, <2>8, <2>9 DEF MachineInv
  <1>13. CASE Confirm(m)
    <2>1. /\ job'[m].at = "install" /\ job'[m].expected = job[m].expected
          /\ job'[m].name = job[m].name
          /\ pending'[m] = [pending[m] EXCEPT !.name = job[m].name]
          /\ UNCHANGED <<remote, log, mark, deleted, file, stored>>
      BY <1>13, <1>j DEF Confirm, Goto, Jobs, Types, DiskTypes, rowVars
    <2>p. pending[m] \in Markers
      BY DEF Types, DiskTypes
    <2>2. /\ pending'[m].name = job[m].name
          /\ pending'[m].operation = pending[m].operation
          /\ pending'[m].max = pending[m].max
      BY <2>1, <2>p DEF Markers
    <2>3. /\ job[m].name \in 1..Len(remote) /\ remote[job[m].name].content = file[m]
          /\ remote[job[m].name].visible /\ file[m] # NoFile
      BY <1>13 DEF Confirm, At, Known, MachineInv, Sent, Held
    <2>4. Held(m)' /\ Sent(m)' /\ Seen(m)' /\ Reached(m)'
      BY <2>1, <2>3 DEF Held, Sent, Seen, Reached
    <2>5. Named(m)'
      BY <2>1, <2>2, <2>3 DEF Named
    <2>6. Covers(m)' /\ Marked(m)' /\ Behind(m)'
      BY <2>1, <2>2, <1>g, <1>p, CoversKept, MarkedKept, BehindKept DEF MachineInv
    <2>7. Refers(m)'
      BY <2>1, <2>2, <1>r DEF Refers
    <2> QED BY <2>4, <2>5, <2>6, <2>7 DEF MachineInv
  <1>14. CASE DiscardFile(m)
    <2>1. /\ job'[m].at = "discard" /\ job'[m].expected = job[m].expected
          /\ job'[m].name = job[m].name
          /\ file'[m] = NoFile
          /\ UNCHANGED <<remote, log, mark, deleted, pending, stored>>
      BY <1>14, <1>j DEF DiscardFile, Goto, Jobs, Types, DiskTypes, rowVars
    <2>2. Held(m)' /\ Sent(m)' /\ Seen(m)' /\ Reached(m)'
      BY <2>1 DEF Held, Sent, Seen, Reached
    <2>3. Named(m)' /\ Covers(m)' /\ Marked(m)' /\ Behind(m)'
      BY <2>1, <1>g, <1>p, NamedKept, CoversKept, MarkedKept, BehindKept DEF MachineInv
    <2>4. Refers(m)'
      BY <2>1, <1>r DEF Refers
    <2> QED BY <2>2, <2>3, <2>4 DEF MachineInv
  <1>15. CASE Unlink(m)
    <2>1. /\ job'[m].at = "clear" /\ job'[m].expected = job[m].expected
          /\ job'[m].name = job[m].name
          /\ file'[m] = NoFile
          /\ UNCHANGED <<remote, log, mark, deleted, pending, stored>>
      BY <1>15, <1>j DEF Unlink, Goto, Jobs, Types, DiskTypes, rowVars
    <2>2. Held(m)' /\ Sent(m)' /\ Seen(m)' /\ Reached(m)'
      BY <2>1 DEF Held, Sent, Seen, Reached
    <2>3. Named(m)' /\ Covers(m)' /\ Marked(m)' /\ Behind(m)'
      BY <2>1, <1>g, <1>p, NamedKept, CoversKept, MarkedKept, BehindKept DEF MachineInv
    <2>4. Refers(m)'
      BY <2>1, <1>r DEF Refers
    <2> QED BY <2>2, <2>3, <2>4 DEF MachineInv
  <1>16. CASE DiscardMarkers(m)
    <2>1. /\ job'[m].at \in {"idle", "recover"} /\ job'[m].expected = 0
          /\ job'[m].name = 0
      BY <1>16, <1>j, NextAttemptIsQuiet DEF DiscardMarkers
    <2>2. /\ pending'[m] = NoPending
          /\ UNCHANGED <<remote, log, mark, deleted, file, stored>>
      BY <1>16 DEF DiscardMarkers, Types, DiskTypes, rowVars
    <2>3. /\ pending'[m].name = 0 /\ pending'[m].operation = "none"
          /\ pending'[m].max = 0
      BY <2>2 DEF NoPending
    <2>4. Held(m)' /\ Sent(m)' /\ Seen(m)' /\ Reached(m)'
      BY <2>1 DEF Held, Sent, Seen, Reached
    <2>5. Named(m)' /\ Covers(m)'
      BY <2>3 DEF Named, Covers
    <2>6. Marked(m)'
      BY <2>2, <1>g, <1>p, MarkedKept DEF MachineInv
    <2>7. Behind(m)'
      <3>1. log[m] \in Nat /\ mark[m] <= log[m]
        BY Bounds DEF Types, RowTypes, MachineInv, Behind
      <3> QED BY <2>2, <2>3, <3>1 DEF Behind
    <2>8. Refers(m)'
      BY <2>1, <2>2, <2>3, <1>0, <1>r DEF Refers
    <2> QED BY <2>4, <2>5, <2>6, <2>7, <2>8 DEF MachineInv
  <1>17. CASE Clear(m)
    <2>1. /\ job'[m].at \in {"idle", "pull"}
          /\ job'[m].expected \in {0, job[m].expected} /\ job'[m].name = 0
      BY <1>17, <1>j DEF Clear, Idle, Jobs
    <2>2. /\ pending'[m] = NoPending
          /\ UNCHANGED <<remote, log, mark, deleted, file, stored>>
      BY <1>17 DEF Clear, Types, DiskTypes, rowVars
    <2>3. /\ pending'[m].name = 0 /\ pending'[m].operation = "none"
          /\ pending'[m].max = 0
      BY <2>2 DEF NoPending
    <2>4. Held(m)' /\ Sent(m)' /\ Seen(m)' /\ Reached(m)'
      BY <2>1 DEF Held, Sent, Seen, Reached
    <2>5. Named(m)' /\ Covers(m)'
      BY <2>3 DEF Named, Covers
    <2>6. Marked(m)'
      BY <2>2, <1>g, <1>p, MarkedKept DEF MachineInv
    <2>7. Behind(m)'
      <3>1. log[m] \in Nat /\ mark[m] <= log[m]
        BY Bounds DEF Types, RowTypes, MachineInv, Behind
      <3> QED BY <2>2, <2>3, <3>1 DEF Behind
    <2>8. Refers(m)'
      BY <2>1, <2>2, <2>3, <1>0, <1>r DEF Refers
    <2> QED BY <2>4, <2>5, <2>6, <2>7, <2>8 DEF MachineInv
  <1>18. CASE Install(m)
    <2>1. /\ job'[m].at = "marks" /\ job'[m].expected = job[m].expected
          /\ job'[m].name = job[m].name
          /\ UNCHANGED <<remote, log, mark, deleted, pending, file, stored>>
      BY <1>18, <1>j DEF Install, Goto, Jobs, rowVars
    <2>2. Held(m)' /\ Sent(m)' /\ Seen(m)' /\ Reached(m)'
      BY <1>18, <2>1 DEF Install, At, MachineInv, Held, Sent, Seen, Reached
    <2>3. Named(m)' /\ Covers(m)' /\ Marked(m)' /\ Behind(m)'
      BY <2>1, <1>g, <1>p, NamedKept, CoversKept, MarkedKept, BehindKept DEF MachineInv
    <2>4. Refers(m)'
      BY <2>1, <1>r DEF Refers
    <2> QED BY <2>2, <2>3, <2>4 DEF MachineInv
  <1>19. CASE SetMarks(m)
    <2>1. /\ job'[m].at = "cleanup" /\ job'[m].expected = job[m].expected
          /\ job'[m].name = job[m].name /\ stored'[m] = job[m].name
          /\ UNCHANGED <<remote, log, deleted, pending, file>>
      BY <1>19, <1>j DEF SetMarks, Goto, Jobs, Types, DiskTypes
    <2>2. mark'[m] = IF pending[m].operation = "export" THEN pending[m].max ELSE mark[m]
      BY <1>19 DEF SetMarks, Types, RowTypes
    <2>n. mark[m] \in 0..MaxRow /\ log[m] \in 0..MaxRow /\ pending[m].max \in 0..MaxRow
      BY DEF Types, RowTypes, DiskTypes, Markers
    <2>3. Held(m)' /\ Sent(m)' /\ Seen(m)'
      BY <2>1 DEF Held, Sent, Seen
    <2>4. Reached(m)'
      BY <2>1, <2>2, <2>n DEF Reached
    <2>5. Named(m)'
      BY <2>1, <1>g, NamedKept DEF MachineInv
    <2>6. Covers(m)'
      <3>1. CASE pending[m].operation = "export"
        <4>1. mark'[m] = pending[m].max /\ pending' = pending
          BY <2>1, <2>2, <3>1
        <4>2. \A i \in 1..MaxRow : i <= pending[m].max => Pass(m, i)'
          BY <4>1 DEF Pass
        <4>3. \A i \in 1..MaxRow : ~(i <= pending[m].max /\ pending[m].max < i)
          BY <2>n, Bounds
        <4> QED BY <4>1, <4>2, <4>3 DEF Covers
      <3>2. CASE pending[m].operation # "export"
        BY <2>1, <3>2 DEF Covers
      <3> QED BY <3>1, <3>2
    <2>7. Marked(m)'
      <3>1. CASE pending[m].operation # "export"
        <4>1. mark' = mark
          BY <1>19, <3>1 DEF SetMarks
        <4> QED BY <2>1, <4>1, <1>g, <1>p, MarkedKept DEF MachineInv
      <3>2. CASE pending[m].operation = "export"
        <4>1. /\ job[m].name \in 1..Len(remote) /\ remote[job[m].name].content = file[m]
              /\ remote[job[m].name].visible /\ file[m] # NoFile
          BY <1>19 DEF SetMarks, At, MachineInv, Sent, Seen, Held
        <4>2. ASSUME NEW i \in 1..MaxRow, Pass(m, i)' PROVE Archived(<<m, i>>)
          <5>1. CASE Pass(m, i)
            BY <5>1 DEF MachineInv, Marked
          <5>2. CASE ~Pass(m, i)
            <6>1. i <= pending[m].max
              BY <4>2, <5>2, <2>1, <2>2, <3>2 DEF Pass
            <6>2. file[m][<<m, i>>] > 0
              BY <5>2, <6>1, <3>2, <4>1 DEF MachineInv, Covers
            <6> QED BY <6>2, <4>1 DEF Archived, Visible
          <5> QED BY <5>1, <5>2
        <4> QED BY <4>2, <2>1, <1>g, ArchivedGrows DEF Marked
      <3> QED BY <3>1, <3>2
    <2>8. Behind(m)'
      <3>1. mark[m] <= log[m] /\ pending[m].max <= log[m]
        BY DEF MachineInv, Behind
      <3> QED BY <2>1, <2>2, <3>1 DEF Behind
    <2>9. Refers(m)'
      BY <2>1, <1>r DEF Refers
    <2> QED BY <2>3, <2>4, <2>5, <2>6, <2>7, <2>8, <2>9 DEF MachineInv
  <1>20. ASSUME NEW old, Cleanup(m, old) PROVE MachineInv(m)'
    <2>1. /\ job'[m].at = "unlink" /\ job'[m].expected = job[m].expected
          /\ job'[m].name = job[m].name
          /\ UNCHANGED <<remote, log, mark, pending, file, stored>>
      BY <1>20, <1>j DEF Cleanup, Goto, Jobs, diskVars
    <2>r. Rests(m)
      BY <1>20, CleanupRests DEF MachineInv
    <2>2. Held(m)' /\ Sent(m)' /\ Seen(m)' /\ Reached(m)'
      BY <2>1 DEF Held, Sent, Seen, Reached
    <2>3. Named(m)' /\ Covers(m)' /\ Marked(m)' /\ Behind(m)'
      BY <2>1, <2>r, <1>g, NamedKept, CoversKept, MarkedKept, BehindKept DEF MachineInv
    <2>4. Refers(m)'
      BY <2>1, <1>r DEF Refers
    <2> QED BY <2>2, <2>3, <2>4 DEF MachineInv
  <1>s. CASE Step(m)
    BY <1>s, <1>1, <1>2, <1>3, <1>4, <1>5, <1>6, <1>7, <1>8, <1>9, <1>10, <1>11,
       <1>12, <1>13, <1>14, <1>15, <1>16, <1>17, <1>18, <1>19, <1>20 DEF Step
  <1> QED BY <1>s, <1>4, <1>5

(* The rest of the system: what a step of m changes for another machine,   *)
(* and which steps touch rows and marks.                                   *)
Actor(m) == (\E o \in Operations : Begin(m, o)) \/ Step(m) \/ Stop(m)

Others(m) == \A n \in Machines \ {m} :
  /\ job'[n] = job[n] /\ pending'[n] = pending[n] /\ file'[n] = file[n]
  /\ Rests(n) /\ stored'[n] = stored[n]

LEMMA ActorFrame ==
  ASSUME Types, NEW m \in Machines, Held(m), Reached(m), Actor(m)
  PROVE  /\ Others(m) /\ Grows /\ log' = log
         /\ \/ UNCHANGED <<mark, deleted>>
            \/ SetMarks(m)
            \/ \E old \in SUBSET {r \in Rows : r[1] = m} : Cleanup(m, old)
  <1> DEFINE Calm == Others(m) /\ Grows /\ log' = log /\ UNCHANGED <<mark, deleted>>
  <1>t. /\ job \in [Machines -> Jobs] /\ stored \in [Machines -> Nat]
        /\ pending \in [Machines -> Markers]
        /\ file \in [Machines -> Contents \union {NoFile}]
        /\ mark \in [Machines -> 0..MaxRow]
    BY DEF Types, JobTypes, DiskTypes, RowTypes
  <1>g. UNCHANGED remote => Grows
    BY SameGrows DEF Types
  <1>p. UNCHANGED <<mark, deleted>> => \A n \in Machines : Rests(n)
    BY SameRests
  <1>1. CASE NothingPending(m)
    BY <1>1, <1>t, <1>g, <1>p DEF NothingPending, Goto, Others, rowVars, diskVars
  <1>2. CASE Refuse(m)
    BY <1>2, <1>t, <1>g, <1>p DEF Refuse, Goto, Others, rowVars, diskVars
  <1>3. CASE Recover(m)
    BY <1>3, <1>t, <1>g, <1>p DEF Recover, Goto, Others, rowVars, diskVars
  <1>4. CASE NotFound(m)
    BY <1>4, <1>t, <1>g, <1>p DEF NotFound, Goto, Others, rowVars, diskVars
  <1>5. CASE Check(m)
    BY <1>5, <1>t, <1>g, <1>p DEF Check, Goto, Others, rowVars, diskVars
  <1>6. CASE PutRefused(m)
    BY <1>6, <1>t, <1>g, <1>p DEF PutRefused, Goto, Others, rowVars, diskVars
  <1>7. CASE Unconfirmed(m)
    BY <1>7, <1>t, <1>g, <1>p DEF Unconfirmed, Goto, Others, rowVars, diskVars
  <1>8. CASE Stop(m)
    BY <1>8, <1>t, <1>g, <1>p DEF Stop, Goto, Others, rowVars, diskVars
  <1>9. CASE \E o \in Operations : Begin(m, o)
    BY <1>9, <1>t, <1>g, <1>p DEF Begin, Others, rowVars, diskVars
  <1>10. CASE Pull(m)
    BY <1>10, <1>t, <1>g, <1>p DEF Pull, PullFrom, Others, rowVars, diskVars
  <1>11. CASE Prepare(m)
    BY <1>11, <1>t, <1>g, <1>p DEF Prepare, Goto, Others, rowVars
  <1>12. CASE Confirm(m)
    BY <1>12, <1>t, <1>g, <1>p DEF Confirm, Goto, Others, rowVars
  <1>13. CASE DiscardFile(m)
    BY <1>13, <1>t, <1>g, <1>p DEF DiscardFile, Goto, Others, rowVars
  <1>14. CASE DiscardMarkers(m)
    BY <1>14, <1>t, <1>g, <1>p DEF DiscardMarkers, Goto, Others, rowVars
  <1>15. CASE Install(m)
    BY <1>15, <1>t, <1>g, <1>p DEF Install, Goto, Others, rowVars
  <1>16. CASE Unlink(m)
    BY <1>16, <1>t, <1>g, <1>p DEF Unlink, Goto, Others, rowVars
  <1>17. CASE Clear(m)
    BY <1>17, <1>t, <1>g, <1>p DEF Clear, Goto, Others, rowVars
  <1>18. ASSUME NEW v \in BOOLEAN, Put(m, v) PROVE Calm
    <2>1. [content |-> file[m], visible |-> v] \in Artifacts
      BY <1>18, <1>t DEF Put, At, Held, Artifacts
    <2>2. Grows
      BY <1>18, <2>1, PutGrows DEF Put, Types
    <2> QED BY <1>18, <2>2, <1>t, <1>p DEF Put, Others, rowVars, diskVars
  <1>19. CASE SetMarks(m)
    <2>1. \A n \in Machines \ {m} : Rests(n)
      BY <1>19, <1>t DEF SetMarks, Rests, Pass
    <2> QED BY <1>19, <2>1, <1>t, <1>g DEF SetMarks, Goto, Others
  <1>20. ASSUME NEW old \in SUBSET {r \in Rows : r[1] = m}, Cleanup(m, old)
        PROVE  Others(m) /\ Grows /\ log' = log
    <2>1. \A n \in Machines : Rests(n)
      BY <1>20, CleanupRests
    <2> QED BY <1>20, <2>1, <1>t, <1>g DEF Cleanup, Goto, Others, diskVars
  <1> QED BY <1>1, <1>2, <1>3, <1>4, <1>5, <1>6, <1>7, <1>8, <1>9, <1>10, <1>11,
       <1>12, <1>13, <1>14, <1>15, <1>16, <1>17, <1>18, <1>19, <1>20 DEF Actor, Step

LEMMA MachinesStep ==
  ASSUME Types, \A m \in Machines : MachineInv(m), [Next]_vars
  PROVE  \A n \in Machines : MachineInv(n)'
  <1>0. Types'
    BY TypesStep DEF MachineInv
  <1> SUFFICES ASSUME NEW n \in Machines PROVE MachineInv(n)'
    OBVIOUS
  <1>1. ASSUME NEW m \in Machines, RowArrives(m) PROVE MachineInv(n)'
    <2>1. /\ UNCHANGED <<remote, mark, deleted, job, stored, pending, file>>
          /\ log' = [log EXCEPT ![m] = @ + 1]
      BY <1>1 DEF RowArrives, diskVars
    <2>2. log'[n] = log[n] \/ log'[n] = log[n] + 1
      BY <2>1 DEF Types, RowTypes
    <2>3. Grows
      BY <2>1, SameGrows DEF Types
    <2> QED BY <2>1, <2>2, <2>3, SameRests, BystanderKept
  <1>2. ASSUME NEW m \in Machines, Actor(m) PROVE MachineInv(n)'
    <2>1. CASE n = m
      BY <1>0, <1>2, <2>1, OwnStep DEF Actor
    <2>2. CASE n # m
      <3>1. Others(m) /\ Grows /\ log' = log
        BY <1>2, ActorFrame DEF MachineInv
      <3> QED BY <2>2, <3>1, BystanderKept DEF Others
    <2> QED BY <2>1, <2>2
  <1>3. ASSUME NEW k \in 1..Len(remote), Appear(k) PROVE MachineInv(n)'
    <2>1. Grows
      BY <1>3, AppearGrows DEF Types
    <2> QED BY <1>3, <2>1, SameRests, BystanderKept DEF Appear, rowVars, diskVars
  <1>4. CASE UNCHANGED vars
    <2>1. Grows
      BY <1>4, SameGrows DEF Types, vars
    <2> QED BY <1>4, <2>1, SameRests, BystanderKept DEF vars, rowVars, diskVars
  <1> QED BY <1>1, <1>2, <1>3, <1>4 DEF Next, Actor

(* A passed row stays passed: an export that sets the mark back steps over *)
(* deleted rows only.                                                      *)
LEMMA PassStays ==
  ASSUME IInv, [Next]_vars, NEW n \in Machines, NEW i \in 1..MaxRow, Pass(n, i)
  PROVE  Pass(n, i)'
  <1>t. Types /\ \A m \in Machines : MachineInv(m) /\ Held(m) /\ Reached(m)
    BY DEF IInv, MachineInv
  <1>1. ASSUME Rests(n) PROVE Pass(n, i)'
    BY <1>1 DEF Rests, Pass
  <1>2. CASE UNCHANGED <<mark, deleted>>
    BY <1>2, <1>1, SameRests
  <1>3. ASSUME NEW m \in Machines, SetMarks(m) PROVE Pass(n, i)'
    <2>1. /\ deleted' = deleted
          /\ mark'[n] = mark[n] \/ (mark'[n] = pending[n].max
                                    /\ pending[n].operation = "export")
      BY <1>3, <1>t DEF SetMarks, Types, RowTypes
    <2>2. CASE mark'[n] = mark[n]
      BY <2>1, <2>2 DEF Pass
    <2>3. CASE mark'[n] = pending[n].max /\ pending[n].operation = "export"
      <3>1. (i <= mark[n] /\ pending[n].max < i) => <<n, i>> \in deleted
        BY <2>3, <1>t DEF MachineInv, Covers
      <3>2. pending[n].max \in Int /\ i \in Int
        BY <1>t, Bounds DEF Types, DiskTypes, Markers
      <3> QED BY <2>1, <2>3, <3>1, <3>2 DEF Pass
    <2> QED BY <2>1, <2>2, <2>3
  <1>4. ASSUME NEW m \in Machines, Actor(m) PROVE Pass(n, i)'
    <2>1. \/ UNCHANGED <<mark, deleted>> \/ SetMarks(m)
          \/ \E old : Cleanup(m, old)
      BY <1>4, <1>t, ActorFrame
    <2>2. ASSUME NEW old, Cleanup(m, old) PROVE Pass(n, i)'
      BY <2>2, <1>t, <1>1, CleanupRests
    <2> QED BY <2>1, <2>2, <1>2, <1>3
  <1>5. ~(\E m \in Machines : Actor(m)) => UNCHANGED <<mark, deleted>>
    BY DEF Next, Actor, RowArrives, Appear, vars, rowVars
  <1> QED BY <1>2, <1>4, <1>5

LEMMA InitInv == Init => IInv
  <1> SUFFICES ASSUME Init PROVE IInv
    OBVIOUS
  <1>1. RemoteTypes /\ Len(remote) = 0 /\ Len(remote) \in Nat
    BY EmptySeq DEF Init, RemoteTypes
  <1>e. Empty \in Contents
    BY DEF Empty, Contents
  <1>2. RowTypes
    BY Bounds DEF Init, RowTypes
  <1>3. DiskTypes
    BY <1>e, NoPendingType DEF Init, DiskTypes
  <1>4. JobTypes
    BY IdleType, Bounds DEF Init, JobTypes
  <1>5. ASSUME NEW m \in Machines PROVE MachineInv(m)
    <2>1. /\ job[m].at = "idle" /\ job[m].expected = 0 /\ job[m].name = 0
          /\ stored[m] = 0 /\ mark[m] = 0 /\ log[m] = 0 /\ deleted = {}
          /\ pending[m].name = 0 /\ pending[m].max = 0 /\ pending[m].operation = "none"
      BY DEF Init, Idle, NoPending
    <2>2. \A i \in 1..MaxRow : ~Pass(m, i)
      BY <2>1 DEF Pass
    <2> QED BY <1>1, <2>1, <2>2
            DEF MachineInv, Held, Sent, Seen, Named, Covers, Reached, Marked, Behind, Refers
  <1> QED BY <1>1, <1>2, <1>3, <1>4, <1>5 DEF IInv, Types

(* IInv is inductive.                                                      *)
THEOREM Inductive == Spec => []IInv
  <1>1. IInv /\ [Next]_vars => IInv'
    <2> SUFFICES ASSUME IInv, [Next]_vars PROVE IInv'
      OBVIOUS
    <2>1. Types'
      BY TypesStep DEF IInv, MachineInv
    <2>2. \A m \in Machines : MachineInv(m)'
      BY MachinesStep DEF IInv
    <2> QED BY <2>1, <2>2 DEF IInv
  <1> QED BY <1>1, InitInv, PTL DEF Spec
-----------------------------------------------------------------------------
(* Every reachable state has its type, and every artifact a transaction or *)
(* a marker names is on the server.                                        *)
THEOREM TypeCorrect == Spec => []TypeOK
  <1>1. IInv => TypeOK
    BY DEF IInv, Types, RemoteTypes, RowTypes, DiskTypes, JobTypes, Artifacts,
           Jobs, Markers, MachineInv, Refers, TypeOK
  <1> QED BY <1>1, Inductive, PTL

(* doc/sync.md:83: whatever interrupts or overlaps a transaction, a row    *)
(* the mark has passed or cleanup has deleted is counted by an artifact    *)
(* listings show.                                                          *)
THEOREM MarkedRowsArePublished == Spec => []MarkedIsPublished
  <1>1. IInv => MarkedIsPublished
    BY DEF IInv, MachineInv, Marked, MarkedIsPublished, Passed, Pass, Rows
  <1> QED BY <1>1, Inductive, PTL

(* doc/sync.md:87: only the commit of an export moves a mark, forward or   *)
(* back over rows that cleanup has deleted: a row once passed is for ever. *)
THEOREM MarksMoveByExport == Spec => MarkMovesByExport
  <1> DEFINE Moves == \A m \in Machines : mark'[m] # mark[m] =>
                       pending[m].operation = "export"
             Stays == \A r \in Rows : Passed(r) => Passed(r)'
  <1>1. IInv /\ [Next]_vars => Moves
    <2> SUFFICES ASSUME IInv, [Next]_vars, NEW n \in Machines, mark'[n] # mark[n]
                 PROVE  pending[n].operation = "export"
      OBVIOUS
    <2>1. ASSUME NEW m \in Machines, SetMarks(m) PROVE pending[n].operation = "export"
      BY <2>1 DEF SetMarks, IInv, Types, RowTypes
    <2>2. ASSUME NEW m \in Machines, Actor(m) PROVE pending[n].operation = "export"
      <3>1. ~UNCHANGED mark
        OBVIOUS
      <3>2. ASSUME NEW old, Cleanup(m, old) PROVE FALSE
        BY <3>1, <3>2 DEF Cleanup
      <3> QED BY <2>1, <2>2, <3>1, <3>2, ActorFrame DEF IInv, MachineInv
    <2>3. CASE UNCHANGED vars
      BY <2>3 DEF vars, rowVars
    <2>4. ASSUME NEW m \in Machines, RowArrives(m) PROVE FALSE
      BY <2>4 DEF RowArrives
    <2>5. ASSUME NEW k \in 1..Len(remote), Appear(k) PROVE FALSE
      BY <2>5 DEF Appear, rowVars
    <2> QED BY <2>2, <2>3, <2>4, <2>5 DEF Next, Actor
  <1>2. IInv /\ [Next]_vars => Stays
    <2> SUFFICES ASSUME IInv, [Next]_vars, NEW n \in Machines, NEW i \in 1..MaxRow,
                        Passed(<<n, i>>)
                 PROVE  Passed(<<n, i>>)'
      BY DEF Rows
    <2> QED BY PassStays DEF Passed, Pass
  <1>3. IInv /\ [Next]_vars => [Moves /\ Stays]_vars
    BY <1>1, <1>2
  <1> QED BY <1>3, Inductive, PTL DEF Spec, MarkMovesByExport

-----------------------------------------------------------------------------
(* How often a row is counted.                                             *)

(* Row i of m may be in an artifact: the mark has passed it, or it is in   *)
(* the pending export, which has reached the server.                       *)
Sendable(m, i) == pending[m].operation = "export" /\ i <= pending[m].max
Backed(m, i) == Pass(m, i) \/ (landed[m] /\ Sendable(m, i))

(* A content that counts no row twice, and only backed rows; the pending   *)
(* candidate of m counts those it will send as well.                       *)
Justified(c) == \A n \in Machines : \A i \in 1..MaxRow :
  c[<<n, i>>] <= 1 /\ (c[<<n, i>>] > 0 => Backed(n, i))
Claimed(m, c) == \A n \in Machines : \A i \in 1..MaxRow :
  /\ c[<<n, i>>] <= 1
  /\ c[<<n, i>>] > 0 => Backed(n, i) \/ (n = m /\ Sendable(n, i))

Counts ==
  /\ \A k \in 1..Len(remote) : Justified(remote[k].content)
  /\ \A m \in Machines :
       /\ Justified(local[m]) /\ Justified(job[m].content)
       /\ file[m] # NoFile => Claimed(m, file[m])

(* What the markers, the file and the server hold at each stage.           *)
Phase(m) ==
  /\ job[m].at \in {"pull", "prepare"} => pending[m] = NoPending
  /\ job[m].at \in {"confirm", "install", "marks"} => landed[m]
  /\ pending[m].name # 0 => landed[m] /\ remote[pending[m].name].visible
  /\ job[m].at \in {"check", "put"} => pending[m].name = 0
  /\ job[m].at \in {"discard", "clear"} => file[m] = NoFile
  /\ job[m].at \in {"cleanup", "unlink", "clear"} =>
       (pending[m].operation = "export" => pending[m].max <= mark[m])

(* One machine alone: its file, and every artifact from the stored one on, *)
(* count what it has marked; what it sends is the last artifact.           *)
Has(m, c) == \A i \in 1..MaxRow : Pass(m, i) => c[<<m, i>>] > 0
Alone(m) ==
  /\ file[m] # NoFile => Has(m, file[m])
  /\ job[m].at = "prepare" => Has(m, job[m].content)
  /\ (\E i \in 1..MaxRow : Pass(m, i)) => stored[m] # 0
  /\ stored[m] # 0 =>
       /\ remote[stored[m]].visible
       /\ \A k \in stored[m]..Len(remote) : Has(m, remote[k].content)
  /\ job[m].at \in {"confirm", "install", "marks"} => job[m].name = Len(remote)
  /\ pending[m].name # 0 => pending[m].name = Len(remote)

Phases == \A m \in Machines : Phase(m)
ExactInv ==
  /\ Phases
  /\ forgot \/ Counts
  /\ Cardinality(Machines) = 1 => \A m \in Machines : Alone(m)

LEMMA PhaseOwn ==
  ASSUME Types, NEW m \in Machines, MachineInv(m), Phase(m), Actor(m)
  PROVE  Phase(m)'
  <1>t. /\ job \in [Machines -> Jobs] /\ job[m] \in Jobs
        /\ pending \in [Machines -> Markers]
        /\ file \in [Machines -> Contents \union {NoFile}]
        /\ mark \in [Machines -> 0..MaxRow]
        /\ landed \in [Machines -> BOOLEAN]
    BY DEF Types, JobTypes, DiskTypes, RowTypes
  <1>g. /\ Grows
        /\ pending[m].name # 0 => pending[m].name \in 1..Len(remote)
    BY ActorFrame DEF MachineInv, Named
  <1>v. pending[m].name # 0 => remote'[pending[m].name].visible
    BY <1>g DEF Phase, Grows
  <1>i. Idle.at = "idle"
    BY DEF Idle
  <1>1. CASE NothingPending(m)
    BY <1>1, <1>t, <1>v DEF NothingPending, Goto, At, Phase, rowVars, diskVars, Jobs
  <1>2. CASE Refuse(m)
    BY <1>2, <1>t, <1>v, <1>i DEF Refuse, Phase, rowVars, diskVars
  <1>3. CASE Recover(m)
    <2>1. job'[m].at = IF Known(pending[m].name) THEN "install" ELSE "check"
      BY <1>3, <1>t DEF Recover, Jobs
    <2>2. UNCHANGED <<remote, pending, landed, file, mark>>
      BY <1>3 DEF Recover, rowVars, diskVars
    <2>3. pending[m].name = 0 <=> ~Known(pending[m].name)
      BY DEF Phase, Known
    <2>4. \/ job'[m].at = "install" /\ pending[m].name # 0
          \/ job'[m].at = "check" /\ pending[m].name = 0
      BY <2>1, <2>3
    <2>5. pending'[m] = pending[m] /\ landed'[m] = landed[m]
      BY <2>2
    <2> QED BY <2>4, <2>5, <1>v DEF Phase
  <1>4. CASE NotFound(m)
    BY <1>4, <1>t, <1>v, <1>i DEF NotFound, Phase, rowVars, diskVars
  <1>5. CASE Check(m)
    BY <1>5, <1>t, <1>v DEF Check, Goto, At, Phase, rowVars, diskVars, Jobs
  <1>6. CASE PutRefused(m)
    BY <1>6, <1>t, <1>v DEF PutRefused, Goto, Phase, rowVars, diskVars, Jobs
  <1>7. CASE Unconfirmed(m)
    BY <1>7, <1>t, <1>v, <1>i DEF Unconfirmed, Phase, rowVars, diskVars
  <1>8. CASE Stop(m)
    BY <1>8, <1>t, <1>v, <1>i DEF Stop, Phase, rowVars, diskVars
  <1>9. CASE \E o \in Operations : Begin(m, o)
    <2>1. job'[m].at = "recover"
      BY <1>9, <1>t DEF Begin, Idle
    <2> QED BY <1>9, <2>1, <1>v DEF Begin, Phase, rowVars, diskVars
  <1>10. CASE Pull(m)
    <2>1. PICK c, k : PullFrom(m, c, k)
      BY <1>10 DEF Pull
    <2>2. job'[m].at = "prepare"
      BY <2>1, <1>t DEF PullFrom, Jobs
    <2> QED BY <2>1, <2>2, <1>v DEF PullFrom, At, Phase, rowVars, diskVars
  <1>11. CASE Prepare(m)
    <2>1. job'[m].at = "check" /\ pending'[m].name = 0
      BY <1>11, <1>t DEF Prepare, Jobs
    <2> QED BY <2>1 DEF Phase
  <1>12. CASE Confirm(m)
    <2>1. /\ job'[m].at = "install" /\ remote' = remote /\ landed' = landed
          /\ pending'[m].name = job[m].name /\ remote[job[m].name].visible
          /\ job[m].at = "confirm"
      BY <1>12, <1>t DEF Confirm, Goto, At, Jobs, Markers, Known
    <2> QED BY <2>1 DEF Phase
  <1>13. CASE DiscardFile(m)
    <2>1. job'[m].at = "discard" /\ file'[m] = NoFile /\ UNCHANGED <<pending, landed>>
      BY <1>13, <1>t DEF DiscardFile, Goto, Jobs
    <2> QED BY <2>1, <1>v DEF Phase
  <1>14. CASE DiscardMarkers(m)
    <2>1. job'[m].at \in {"idle", "recover"} /\ pending'[m].name = 0
      BY <1>14, <1>t, NextAttemptIsQuiet DEF DiscardMarkers, NextAttempt, Idle, NoPending
    <2> QED BY <2>1 DEF Phase
  <1>15. CASE Install(m)
    <2>1. job'[m].at = "marks" /\ job[m].at = "install" /\ UNCHANGED <<pending, landed>>
      BY <1>15, <1>t DEF Install, Goto, At, Jobs
    <2> QED BY <2>1, <1>v DEF Phase
  <1>16. CASE Unlink(m)
    <2>1. /\ job'[m].at = "clear" /\ job[m].at = "unlink" /\ file'[m] = NoFile
          /\ UNCHANGED <<pending, landed, mark>>
      BY <1>16, <1>t DEF Unlink, Goto, At, Jobs, rowVars
    <2> QED BY <2>1, <1>v DEF Phase
  <1>17. CASE Clear(m)
    <2>1. job'[m].at \in {"idle", "pull"} /\ pending'[m] = NoPending
      BY <1>17, <1>t, <1>i DEF Clear, Jobs
    <2> QED BY <2>1 DEF Phase, NoPending
  <1>18. ASSUME NEW v \in BOOLEAN, Put(m, v) PROVE Phase(m)'
    <2>1. /\ job'[m].at = "confirm" /\ landed'[m] /\ pending' = pending
      BY <1>18, <1>t DEF Put, Jobs, diskVars
    <2> QED BY <2>1, <1>v DEF Phase
  <1>19. CASE SetMarks(m)
    <2>1. /\ job'[m].at = "cleanup" /\ UNCHANGED <<pending, landed>>
          /\ pending[m].operation = "export" => mark'[m] = pending[m].max
      BY <1>19, <1>t DEF SetMarks, Goto, Jobs
    <2>2. pending[m].max \in Int
      BY <1>t, Bounds DEF Markers
    <2> QED BY <2>1, <2>2, <1>v DEF Phase
  <1>20. ASSUME NEW old \in SUBSET {r \in Rows : r[1] = m}, Cleanup(m, old)
         PROVE  Phase(m)'
    <2>1. /\ job'[m].at = "unlink" /\ job[m].at = "cleanup"
          /\ UNCHANGED <<pending, landed, mark>>
      BY <1>20, <1>t DEF Cleanup, Goto, At, Jobs, diskVars
    <2> QED BY <2>1, <1>v DEF Phase
  <1> QED BY <1>1, <1>2, <1>3, <1>4, <1>5, <1>6, <1>7, <1>8, <1>9, <1>10, <1>11,
       <1>12, <1>13, <1>14, <1>15, <1>16, <1>17, <1>18, <1>19, <1>20 DEF Actor, Step

(* A backed row stays backed, whatever step is taken.                      *)
LEMMA BackedStep ==
  ASSUME IInv, Phases, [Next]_vars, ~forgot',
         NEW n \in Machines, NEW i \in 1..MaxRow, Backed(n, i)
  PROVE  Backed(n, i)'
  <1>t. /\ pending \in [Machines -> Markers] /\ mark \in [Machines -> 0..MaxRow]
        /\ landed \in [Machines -> BOOLEAN] /\ job \in [Machines -> Jobs]
    BY DEF IInv, Types, JobTypes, DiskTypes, RowTypes
  <1>i. i \in Int
    OBVIOUS
  <1>p. Pass(n, i) => Pass(n, i)'
    BY PassStays
  <1>k. UNCHANGED <<pending, landed>> => Backed(n, i)'
    BY <1>p DEF Backed, Sendable
  <1>f. NoPending.name = 0 /\ NoPending.operation = "none"
    BY DEF NoPending
  <1>1. ASSUME NEW m \in Machines, Prepare(m) PROVE Backed(n, i)'
    <2>1. /\ pending[m] = NoPending
          /\ n # m => pending'[n] = pending[n] /\ landed'[n] = landed[n]
      BY <1>1, <1>t DEF Prepare, At, Phases, Phase, rowVars
    <2> QED BY <2>1, <1>f, <1>p DEF Backed, Sendable
  <1>2. ASSUME NEW m \in Machines, Confirm(m) PROVE Backed(n, i)'
    <2>1. /\ landed' = landed
          /\ pending'[n].operation = pending[n].operation
          /\ pending'[n].max = pending[n].max
      BY <1>2, <1>t DEF Confirm, Markers, rowVars
    <2> QED BY <2>1, <1>p DEF Backed, Sendable
  <1>3. ASSUME NEW m \in Machines, DiscardMarkers(m) PROVE Backed(n, i)'
    <2>1. /\ ~landed[m]
          /\ n # m => pending'[n] = pending[n] /\ landed'[n] = landed[n]
      BY <1>3, <1>t DEF DiscardMarkers, rowVars
    <2> QED BY <2>1, <1>p DEF Backed, Sendable
  <1>4. ASSUME NEW m \in Machines, SetMarks(m) PROVE Backed(n, i)'
    BY <1>4, <1>k DEF SetMarks
  <1>5. ASSUME NEW m \in Machines, Clear(m) PROVE Backed(n, i)'
    <2>1. /\ pending[m].operation = "export" => pending[m].max <= mark[m]
          /\ n # m => pending'[n] = pending[n] /\ landed'[n] = landed[n]
      BY <1>5, <1>t DEF Clear, At, Phases, Phase, rowVars
    <2>2. Sendable(m, i) => Pass(m, i)
      BY <2>1, <1>i, <1>t, Bounds DEF Sendable, Pass, Markers
    <2> QED BY <2>1, <2>2, <1>p DEF Backed, Sendable
  <1>6. ASSUME NEW m \in Machines, NEW v \in BOOLEAN, Put(m, v) PROVE Backed(n, i)'
    <2>1. UNCHANGED pending /\ (landed[n] => landed'[n])
      BY <1>6, <1>t DEF Put, diskVars
    <2> QED BY <2>1, <1>p DEF Backed, Sendable
  <1>7. ASSUME NEW m \in Machines, Step(m) PROVE Backed(n, i)'
    <2>1. \/ UNCHANGED <<pending, landed>>
          \/ Prepare(m) \/ Confirm(m) \/ DiscardMarkers(m) \/ SetMarks(m) \/ Clear(m)
          \/ \E v \in BOOLEAN : Put(m, v)
      BY <1>7 DEF Step, NothingPending, Refuse, Recover, Pull, PullFrom, NotFound, Check,
                 PutRefused, Unconfirmed, DiscardFile, Install, Cleanup, Unlink,
                 rowVars, diskVars
    <2> QED BY <2>1, <1>k, <1>1, <1>2, <1>3, <1>4, <1>5, <1>6
  <1>8. ~(\E m \in Machines : Step(m)) => UNCHANGED <<pending, landed>>
    BY DEF Next, RowArrives, Begin, Stop, Appear, vars, rowVars, diskVars
  <1> QED BY <1>7, <1>8, <1>k

(* Where the contents a machine holds after a step come from.              *)
LEMMA Sources ==
  ASSUME Types, [Next]_vars, NEW n \in Machines, Phase(n)
  PROVE  /\ \/ local'[n] = local[n]
            \/ At(n, "install") /\ local'[n] = file[n]
         /\ \/ job'[n].content \in {job[n].content, local[n], Empty}
            \/ \E k \in Visible : job'[n].content = remote[k].content
         /\ \/ Prepare(n) \/ file'[n] = NoFile
            \/ /\ file'[n] = file[n]
               /\ pending'[n].operation = pending[n].operation
               /\ pending'[n].max = pending[n].max
  <1> DEFINE L == \/ local'[n] = local[n]
                  \/ At(n, "install") /\ local'[n] = file[n]
             J == \/ job'[n].content \in {job[n].content, local[n], Empty}
                  \/ \E k \in Visible : job'[n].content = remote[k].content
             F == \/ Prepare(n) \/ file'[n] = NoFile
                  \/ /\ file'[n] = file[n]
                     /\ pending'[n].operation = pending[n].operation
                     /\ pending'[n].max = pending[n].max
  <1>t. /\ job \in [Machines -> Jobs] /\ job[n] \in Jobs
        /\ pending \in [Machines -> Markers] /\ pending[n] \in Markers
        /\ file \in [Machines -> Contents \union {NoFile}]
        /\ local \in [Machines -> Contents]
    BY DEF Types, JobTypes, DiskTypes
  <1>i. Idle.content = Empty
    BY DEF Idle
  <1>n. \A m : NextAttempt(m).content = Empty
    BY DEF NextAttempt, Idle
  <1>1. UNCHANGED <<local, job, file, pending>> => L /\ J /\ F
    OBVIOUS
  <1>2. UNCHANGED diskVars => L /\ F
    BY DEF diskVars
  <1>3. ASSUME NEW m \in Machines, Step(m) \/ Stop(m) \/ \E o \in Operations : Begin(m, o)
        PROVE  L
    BY <1>3, <1>t DEF Step, NothingPending, Refuse, Recover, Pull, PullFrom, Prepare,
         NotFound, Check, Put, PutRefused, Confirm, Unconfirmed, DiscardFile,
         DiscardMarkers, Install, SetMarks, Cleanup, Unlink, Clear, Stop, Begin, diskVars
  <1>4. ASSUME NEW m \in Machines, Step(m) \/ Stop(m) \/ \E o \in Operations : Begin(m, o)
        PROVE  F
    <2>1. CASE Prepare(m)
      BY <2>1, <1>t DEF Prepare
    <2>2. CASE Confirm(m)
      BY <2>2, <1>t DEF Confirm, Markers
    <2>3. CASE DiscardFile(m)
      BY <2>3, <1>t DEF DiscardFile
    <2>4. CASE DiscardMarkers(m)
      BY <2>4, <1>t DEF DiscardMarkers, Phase, At
    <2>5. CASE Unlink(m)
      BY <2>5, <1>t DEF Unlink
    <2>6. CASE Clear(m)
      BY <2>6, <1>t DEF Clear, Phase, At
    <2> QED BY <1>4, <2>1, <2>2, <2>3, <2>4, <2>5, <2>6 DEF Step, NothingPending,
         Refuse, Recover, Pull, PullFrom, NotFound, Check, Put, PutRefused,
         Unconfirmed, Install, SetMarks, Cleanup, Stop, Begin, diskVars
  <1>5. ASSUME NEW m \in Machines, Step(m) \/ Stop(m) \/ \E o \in Operations : Begin(m, o)
        PROVE  J
    <2>1. CASE m # n
      <3>1. UNCHANGED job \/ \E x : job' = [job EXCEPT ![m] = x]
        BY <1>5 DEF Step, NothingPending, Refuse, Recover, Pull, PullFrom, Prepare,
         NotFound, Check, Put, PutRefused, Confirm, Unconfirmed, DiscardFile,
         DiscardMarkers, Install, SetMarks, Cleanup, Unlink, Clear, Stop, Begin, Goto
      <3> QED BY <2>1, <3>1, <1>t
    <2> SUFFICES ASSUME m = n PROVE J
      BY <2>1
    <2>2. CASE \/ Stop(n) \/ Refuse(n) \/ NotFound(n) \/ Unconfirmed(n)
      BY <2>2, <1>t, <1>i DEF Stop, Refuse, NotFound, Unconfirmed
    <2>3. CASE \E o \in Operations : Begin(n, o)
      BY <2>3, <1>t DEF Begin, Idle
    <2>4. CASE NothingPending(n) \/ Check(n) \/ PutRefused(n) \/ Confirm(n)
      BY <2>4, <1>t DEF NothingPending, Check, PutRefused, Confirm, Goto, Jobs
    <2>5. CASE DiscardFile(n) \/ Install(n) \/ SetMarks(n) \/ Unlink(n)
      BY <2>5, <1>t DEF DiscardFile, Install, SetMarks, Unlink, Goto, Jobs
    <2>6. ASSUME NEW old, Cleanup(n, old) PROVE J
      BY <2>6, <1>t DEF Cleanup, Goto, Jobs
    <2>7. ASSUME NEW v, Put(n, v) PROVE J
      BY <2>7, <1>t DEF Put, Jobs
    <2>8. CASE DiscardMarkers(n)
      BY <2>8, <1>t, <1>n DEF DiscardMarkers
    <2>9. CASE Recover(n)
      BY <2>9, <1>t DEF Recover, Jobs
    <2>10. CASE Prepare(n)
      BY <2>10, <1>t DEF Prepare, Jobs
    <2>11. CASE Clear(n)
      BY <2>11, <1>t, <1>i DEF Clear, Jobs
    <2>12. CASE Pull(n)
      <3>1. PICK c, k : /\ PullFrom(n, c, k)
                        /\ c = local[n] \/ \E j \in Visible : c = remote[j].content
        BY <2>12 DEF Pull
      <3>2. job'[n].content = c
        BY <3>1, <1>t DEF PullFrom, Jobs
      <3> QED BY <3>1, <3>2
    <2> QED BY <1>5, <2>2, <2>3, <2>4, <2>5, <2>6, <2>7, <2>8, <2>9, <2>10, <2>11,
               <2>12 DEF Step
  <1>6. ASSUME NEW m \in Machines, RowArrives(m) PROVE L /\ J /\ F
    BY <1>6, <1>1 DEF RowArrives, diskVars
  <1>7. ASSUME NEW k, Appear(k) PROVE L /\ J /\ F
    BY <1>7, <1>1 DEF Appear, diskVars
  <1>8. CASE UNCHANGED vars
    <2>1. UNCHANGED <<local, job, file, pending>>
      BY <1>8 DEF vars, diskVars
    <2> QED BY <2>1, <1>1
  <1>9. ASSUME NEW m \in Machines, Step(m) \/ Stop(m) \/ \E o \in Operations : Begin(m, o)
        PROVE  L /\ J /\ F
    BY <1>9, <1>3, <1>4, <1>5
  <1> QED BY <1>6, <1>7, <1>8, <1>9 DEF Next

(* A candidate counts the new rows once, and only those it will mark.      *)
LEMMA PrepareClaims ==
  ASSUME Types, NEW m \in Machines, Phase(m), Prepare(m), Justified(job[m].content),
         \A n \in Machines : \A i \in 1..MaxRow : Backed(n, i) => Backed(n, i)'
  PROVE  \A n \in Machines : \A i \in 1..MaxRow :
           /\ file'[m][<<n, i>>] <= 1
           /\ file'[m][<<n, i>>] > 0 => Backed(n, i)' \/ (n = m /\ Sendable(n, i)')
  <1> SUFFICES ASSUME NEW n \in Machines, NEW i \in 1..MaxRow
               PROVE  /\ file'[m][<<n, i>>] <= 1
                      /\ file'[m][<<n, i>>] > 0 => Backed(n, i)' \/ (n = m /\ Sendable(n, i)')
    OBVIOUS
  <1> DEFINE c == job[m].content
             r == <<n, i>>
  <1>1. /\ file'[m] = Candidate(m) /\ pending[m] = NoPending
        /\ pending'[m] = [operation |-> job[m].operation, max |-> Bound(m), name |-> 0]
    BY DEF Prepare, Phase, At, Types, DiskTypes
  <1>2. r \in Rows /\ r[1] = n /\ r[2] = i
    BY DEF Rows
  <1>3. c[r] \in Nat /\ c[r] <= 1 /\ (c[r] > 0 => Backed(n, i))
    BY <1>2 DEF Justified, Types, JobTypes, Jobs, Contents
  <1>4. CASE job[m].operation # "export"
    BY <1>1, <1>3, <1>4 DEF Candidate
  <1>5. CASE job[m].operation = "export"
    <2>1. file'[m][r] = c[r] + IF n = m /\ mark[m] < i /\ i \in Present(m) THEN 1 ELSE 0
      BY <1>1, <1>2, <1>5 DEF Candidate, Exported
    <2>2. CASE n = m /\ mark[m] < i /\ i \in Present(m)
      <3>1. ~Backed(n, i)
        <4>1. mark[m] \in Int /\ i \in Int
          BY Bounds DEF Types, RowTypes
        <4>2. ~Pass(n, i)
          BY <2>2, <4>1 DEF Pass, Present
        <4> QED BY <2>2, <1>1, <4>2 DEF Backed, Sendable, NoPending
      <3>2. Sendable(n, i)'
        <4>1. i <= MaxId(m)
          BY <2>2, MaxIdType DEF Types
        <4> QED BY <2>2, <4>1, <1>1, <1>5 DEF Sendable, Bound
      <3> HIDE DEF c, r
      <3>3. c[r] = 0
        BY <3>1, <1>3
      <3>4. file'[m][r] = 1
        BY <3>3, <2>1, <2>2
      <3> QED BY <3>2, <3>4, <2>2 DEF r
    <2>3. CASE ~(n = m /\ mark[m] < i /\ i \in Present(m))
      <3> HIDE DEF c, r
      <3>1. file'[m][r] = c[r]
        BY <2>1, <2>3, <1>3
      <3> QED BY <3>1, <1>3 DEF r
    <2> QED BY <2>2, <2>3
  <1> QED BY <1>4, <1>5

(* An artifact is new on the server only as the candidate of a machine.    *)
LEMMA RemoteStep ==
  ASSUME IInv, [Next]_vars
  PROVE  /\ Grows
         /\ \/ Len(remote') = Len(remote)
            \/ \E m \in Machines, v \in BOOLEAN :
                 /\ Put(m, v) /\ file[m] # NoFile
                 /\ Len(remote') = Len(remote) + 1
                 /\ remote'[Len(remote')].content = file[m]
  <1>t. Types /\ RemoteTypes /\ \A m \in Machines : MachineInv(m) /\ Held(m)
    BY DEF IInv, Types, MachineInv
  <1>1. CASE UNCHANGED remote
    BY <1>1, <1>t, SameGrows
  <1>2. ASSUME NEW m \in Machines, NEW v \in BOOLEAN, Put(m, v)
        PROVE  /\ Grows /\ Len(remote') = Len(remote) + 1
               /\ file[m] # NoFile /\ remote'[Len(remote')].content = file[m]
    <2>1. file[m] # NoFile /\ file[m] \in Contents
      BY <1>2, <1>t DEF Put, At, Held, Types, DiskTypes
    <2>2. [content |-> file[m], visible |-> v] \in Artifacts
      BY <2>1 DEF Artifacts
    <2> QED BY <1>2, <1>t, <2>1, <2>2, PutGrows DEF Put
  <1>3. ASSUME NEW k \in 1..Len(remote), Appear(k)
        PROVE  Grows /\ Len(remote') = Len(remote)
    <2>1. remote[k] \in Artifacts
      BY <1>t, ElementOfSeq DEF RemoteTypes
    <2>2. [remote[k] EXCEPT !.visible = TRUE] \in Artifacts
      BY <2>1 DEF Artifacts
    <2>3. Len(remote') = Len(remote)
      BY <1>3, <1>t, <2>2, ExceptSeq DEF Appear, RemoteTypes
    <2> QED BY <1>3, <1>t, <2>3, AppearGrows
  <1>4. ASSUME NEW m \in Machines, Step(m)
        PROVE  UNCHANGED remote \/ \E v \in BOOLEAN : Put(m, v)
    BY <1>4, ZenonT(40) DEF Step, NothingPending, Refuse, Recover, Pull, PullFrom, Prepare, NotFound,
         Check, PutRefused, Confirm, Unconfirmed, DiscardFile, DiscardMarkers, Install,
         SetMarks, Cleanup, Unlink, Clear
  <1>5. \/ UNCHANGED remote
        \/ \E m \in Machines : Step(m)
        \/ \E k \in 1..Len(remote) : Appear(k)
    BY DEF Next, RowArrives, Begin, Stop, vars
  <1> QED BY <1>1, <1>2, <1>3, <1>4, <1>5

LEMMA ForgottenStays ==
  ASSUME [Next]_vars, forgot
  PROVE  forgot'
  BY ZenonT(40) DEF Next, RowArrives, Begin, Stop, Appear, vars, Step, NothingPending, Refuse,
         Recover, Pull, PullFrom, Prepare, NotFound, Check, Put, PutRefused, Confirm,
         Unconfirmed, DiscardFile, DiscardMarkers, Install, SetMarks, Cleanup, Unlink,
         Clear

(* Unless a candidate is forgotten, no row is ever counted twice.          *)
LEMMA CountsStep ==
  ASSUME IInv, Phases, Phases', Counts, [Next]_vars, ~forgot'
  PROVE  Counts'
  <1>b. \A n \in Machines : \A i \in 1..MaxRow : Backed(n, i) => Backed(n, i)'
    BY BackedStep
  <1>t. Types /\ \A m \in Machines : MachineInv(m) /\ Held(m) /\ Phase(m)
    BY DEF IInv, MachineInv, Phases
  <1>j. ASSUME NEW c, Justified(c)
        PROVE  \A n \in Machines : \A i \in 1..MaxRow :
                 c[<<n, i>>] <= 1 /\ (c[<<n, i>>] > 0 => Backed(n, i)')
    BY <1>b, <1>j DEF Justified
  <1>s. ASSUME NEW m \in Machines, landed[m], file[m] # NoFile
        PROVE  Justified(file[m])
    BY <1>s DEF Counts, Claimed, Justified, Backed
  <1>1. ASSUME NEW k \in 1..Len(remote') PROVE Justified(remote[k].content)'
    <2>1. CASE k \in 1..Len(remote)
      <3>1. Justified(remote[k].content) /\ remote'[k].content = remote[k].content
        BY <2>1, RemoteStep DEF Counts, Grows
      <3> QED BY <3>1, <1>j DEF Justified
    <2>2. CASE k \notin 1..Len(remote)
      <3>1. PICK m \in Machines, v \in BOOLEAN :
              /\ Put(m, v) /\ file[m] # NoFile
              /\ Len(remote') = Len(remote) + 1
              /\ remote'[Len(remote')].content = file[m]
        BY <2>2, RemoteStep
      <3>2. remote'[k].content = file[m]
        <4>1. Len(remote) \in Nat
          BY RemoteStep DEF Grows
        <4> QED BY <2>2, <3>1, <4>1
      <3>3. landed'[m] /\ pending' = pending
        BY <3>1, <1>t DEF Put, diskVars, Types, JobTypes
      <3>4. Claimed(m, file[m])
        BY <3>1 DEF Counts
      <3>5. \A i \in 1..MaxRow : Sendable(m, i) => Backed(m, i)'
        BY <3>3 DEF Sendable, Backed
      <3> QED BY <3>2, <3>4, <3>5, <1>b DEF Claimed, Justified
    <2> QED BY <2>1, <2>2
  <1> SUFFICES ASSUME NEW m \in Machines
               PROVE  /\ Justified(local[m])' /\ Justified(job[m].content)'
                      /\ file'[m] # NoFile => Claimed(m, file[m])'
    BY <1>1 DEF Counts
  <1>2. Justified(local[m])'
    <2>1. CASE local'[m] = local[m]
      <3>1. Justified(local[m])
        BY DEF Counts
      <3> QED BY <2>1, <3>1, <1>j DEF Justified
    <2>2. CASE At(m, "install") /\ local'[m] = file[m]
      <3>1. landed[m] /\ file[m] # NoFile
        BY <2>2, <1>t DEF Phase, Held, At
      <3>2. Justified(file[m])
        BY <3>1, <1>s
      <3> QED BY <2>2, <3>2, <1>j DEF Justified
    <2> QED BY <2>1, <2>2, <1>t, Sources
  <1>3. Justified(job[m].content)'
    <2>1. PICK c : Justified(c) /\ job'[m].content = c
      <3>1. CASE job'[m].content \in {job[m].content, local[m]}
        BY <3>1 DEF Counts
      <3>2. CASE job'[m].content = Empty
        <4>1. Justified(Empty)
          <5>1. \A n \in Machines : \A i \in 1..MaxRow : <<n, i>> \in Rows
            BY DEF Rows
          <5>2. \A n \in Machines : \A i \in 1..MaxRow : Empty[<<n, i>>] = 0
            BY <5>1 DEF Empty
          <5>3. ASSUME NEW n \in Machines, NEW i \in 1..MaxRow
                PROVE  Empty[<<n, i>>] <= 1 /\ (Empty[<<n, i>>] > 0 => Backed(n, i))
            <6>1. Empty[<<n, i>>] = 0
              BY <5>2
            <6> QED BY <6>1
          <5> QED BY <5>3 DEF Justified
        <4> QED BY <3>2, <4>1
      <3>3. CASE \E k \in Visible : job'[m].content = remote[k].content
        BY <3>3 DEF Counts, Visible
      <3> QED BY <3>1, <3>2, <3>3, <1>t, Sources
    <2> QED BY <2>1, <1>j DEF Justified
  <1>4. file'[m] # NoFile => Claimed(m, file[m])'
    <2> SUFFICES ASSUME file'[m] # NoFile PROVE Claimed(m, file[m])'
      OBVIOUS
    <2>1. CASE Prepare(m)
      <3>1. Justified(job[m].content)
        BY DEF Counts
      <3> QED BY <2>1, <3>1, <1>t, <1>b, PrepareClaims DEF Claimed
    <2>2. CASE /\ file'[m] = file[m]
               /\ pending'[m].operation = pending[m].operation
               /\ pending'[m].max = pending[m].max
      <3>1. Claimed(m, file[m])
        BY <2>2 DEF Counts
      <3>2. \A i \in 1..MaxRow : Sendable(m, i) => Sendable(m, i)'
        BY <2>2 DEF Sendable
      <3> QED BY <2>2, <3>1, <3>2, <1>b DEF Claimed
    <2> QED BY <2>1, <2>2, <1>t, Sources
  <1> QED BY <1>2, <1>3, <1>4
-----------------------------------------------------------------------------
(* One machine alone.                                                      *)

(* A step that publishes nothing and moves no mark.                        *)
LEMMA AloneKept ==
  ASSUME NEW m \in Machines, Grows, Len(remote') = Len(remote), Alone(m), Refers(m),
         Rests(m), stored'[m] = stored[m],
         file'[m] \in {file[m], NoFile},
         pending'[m].name \in {pending[m].name, 0},
         \/ job'[m] = job[m]
         \/ /\ job'[m].at # "prepare"
            /\ job'[m].at \in {"confirm", "install", "marks"} => job'[m].name = Len(remote)
  PROVE  Alone(m)'
  <1>1. /\ file'[m] # NoFile => Has(m, file[m])'
        /\ job'[m].at = "prepare" => Has(m, job[m].content)'
    BY DEF Alone, Has, Rests
  <1>2. stored[m] # 0 =>
          /\ remote'[stored[m]].visible
          /\ \A k \in stored[m]..Len(remote') : Has(m, remote[k].content)'
    <2>1. \A k \in stored[m]..Len(remote) : stored[m] # 0 => k \in 1..Len(remote)
      BY DEF Refers, Grows
    <2>2. stored[m] # 0 => stored[m] \in 1..Len(remote)
      BY DEF Refers, Grows
    <2> QED BY <2>1, <2>2 DEF Alone, Has, Grows, Rests
  <1> QED BY <1>1, <1>2 DEF Alone, Rests

(* What the newest artifact counts when the machine is alone.              *)
LEMMA NewestHas ==
  ASSUME IInv, NEW m \in Machines, Alone(m),
         \E i \in 1..MaxRow : Pass(m, i)
  PROVE  /\ Visible # {}
         /\ \A k : Newest(k) => Has(m, remote[k].content)
  <1>1. stored[m] \in 1..Len(remote) /\ Len(remote) \in Nat
    <2>1. Len(remote) \in Nat
      BY LenProperties DEF IInv, Types, RemoteTypes
    <2> QED BY <2>1 DEF Alone, IInv, MachineInv, Refers
  <1>2. stored[m] \in Visible
    BY <1>1 DEF Alone, Visible
  <1>3. ASSUME NEW k, Newest(k) PROVE k \in stored[m]..Len(remote)
    <2>1. k \in 1..Len(remote) /\ stored[m] <= k
      BY <1>2, <1>3 DEF Newest, Visible
    <2> QED BY <2>1, <1>1
  <1> QED BY <1>1, <1>2, <1>3 DEF Alone

LEMMA AloneStep ==
  ASSUME IInv, Phases, NEW m \in Machines, Machines = {m}, Alone(m), [Next]_vars
  PROVE  Alone(m)'
  <1>t. /\ Types /\ MachineInv(m) /\ Refers(m) /\ Phase(m)
        /\ job \in [Machines -> Jobs] /\ job[m] \in Jobs
        /\ pending \in [Machines -> Markers] /\ pending[m] \in Markers
        /\ file \in [Machines -> Contents \union {NoFile}]
        /\ mark \in [Machines -> 0..MaxRow] /\ mark[m] \in Nat
        /\ stored \in [Machines -> Nat]
        /\ Len(remote) \in Nat
    <2>1. mark \in [Machines -> 0..MaxRow] /\ MaxRow \in Nat
      BY Bounds DEF IInv, Types, RowTypes
    <2>2. Len(remote) \in Nat
      BY RemoteStep DEF Grows
    <2> QED BY <2>1, <2>2 DEF IInv, Types, JobTypes, DiskTypes, MachineInv, Phases
  <1>g. Grows
    BY RemoteStep
  <1>q. \/ Len(remote') = Len(remote)
        \/ \E v \in BOOLEAN :
             /\ Put(m, v) /\ file[m] # NoFile
             /\ Len(remote') = Len(remote) + 1
             /\ remote'[Len(remote')].content = file[m]
    BY RemoteStep
  <1>l. (\A v \in BOOLEAN : ~Put(m, v)) => Len(remote') = Len(remote)
    BY <1>q
  <1>i. Idle.at = "idle"
    BY DEF Idle
  <1>p. UNCHANGED <<mark, deleted, deleted>> => Rests(m)
    BY SameRests
  <1>h. ASSUME Rests(m), NEW c, Has(m, c) PROVE Has(m, c)'
    BY <1>h DEF Has, Rests
  <1>1. ASSUME NEW v \in BOOLEAN, Put(m, v) PROVE Alone(m)'
    <2>1. /\ UNCHANGED <<mark, deleted, stored, pending, file>> /\ job[m].at = "put"
          /\ job'[m].at = "confirm" /\ job'[m].name = Len(remote')
      BY <1>1, <1>t DEF Put, At, Jobs, rowVars, diskVars
    <2>2. /\ Len(remote') = Len(remote) + 1 /\ file[m] # NoFile
          /\ remote'[Len(remote')].content = file[m]
      <3>1. Len(remote') # Len(remote)
        <4>1. remote' = Append(remote, [content |-> file[m], visible |-> v])
          BY <1>1 DEF Put
        <4>2. file[m] # NoFile
          BY <2>1, <1>t DEF MachineInv, Held
        <4>3. [content |-> file[m], visible |-> v] \in Artifacts
          BY <4>2, <1>t DEF Artifacts
        <4>4. Len(remote') = Len(remote) + 1
          BY <4>1, <4>3, <1>t, PutGrows DEF Types
        <4> QED BY <4>4, <1>t
      <3> QED BY <3>1, <1>q
    <2>3. pending[m].name = 0
      BY <2>1, <1>t DEF Phase
    <2>4. stored[m] # 0 =>
            /\ remote'[stored[m]].visible
            /\ \A k \in stored[m]..Len(remote') : Has(m, remote[k].content)'
      <3> SUFFICES ASSUME stored[m] # 0
                   PROVE  /\ remote'[stored[m]].visible
                          /\ \A k \in stored[m]..Len(remote') : Has(m, remote[k].content)'
        OBVIOUS
      <3>1. stored[m] \in 1..Len(remote)
        BY <1>t DEF Refers
      <3>2. ASSUME NEW k \in stored[m]..Len(remote') PROVE Has(m, remote[k].content)'
        <4>1. CASE k = Len(remote')
          BY <4>1, <2>1, <2>2, <1>p DEF Alone, Has, Rests
        <4>2. CASE k # Len(remote')
          <5>1. k \in stored[m]..Len(remote) /\ k \in 1..Len(remote)
            BY <4>2, <2>2, <3>1, <1>t
          <5> QED BY <5>1, <2>1, <1>g, <1>p DEF Alone, Has, Grows, Rests
        <4> QED BY <4>1, <4>2
      <3> QED BY <3>1, <3>2, <1>g DEF Alone, Grows
    <2> QED BY <2>1, <2>2, <2>3, <2>4, <1>p DEF Alone, Has, Rests
  <1>2. CASE SetMarks(m)
    <2>1. /\ UNCHANGED <<remote, deleted, pending, file>> /\ job[m].at = "marks"
          /\ job'[m].at = "cleanup" /\ stored'[m] = job[m].name
          /\ mark'[m] = IF pending[m].operation = "export" THEN pending[m].max ELSE mark[m]
      BY <1>2, <1>t DEF SetMarks, Goto, At, Jobs
    <2>2. /\ job[m].name = Len(remote) /\ job[m].name \in 1..Len(remote)
          /\ remote[job[m].name].content = file[m] /\ remote[job[m].name].visible
          /\ file[m] # NoFile
      BY <2>1, <1>t DEF Alone, MachineInv, Sent, Seen, Held
    <2>3. Has(m, file[m])'
      <3>1. Has(m, file[m])
        BY <2>2 DEF Alone
      <3>2. ASSUME NEW i \in 1..MaxRow, Pass(m, i)' PROVE file[m][<<m, i>>] > 0
        <4>1. CASE Pass(m, i)
          BY <4>1, <3>1 DEF Has
        <4>2. CASE ~Pass(m, i)
          <5>1. pending[m].operation = "export" /\ i <= pending[m].max
            BY <3>2, <4>2, <2>1 DEF Pass
          <5> QED BY <5>1, <4>2, <2>2, <1>t DEF MachineInv, Covers
        <4> QED BY <4>1, <4>2
      <3> QED BY <3>2, <2>1 DEF Has
    <2>4. \A k \in stored'[m]..Len(remote') : k = Len(remote)
      BY <2>1, <2>2, <1>t
    <2>5. \A k \in stored'[m]..Len(remote') : remote'[k].content = file'[m]
      BY <2>1, <2>2, <2>4
    <2>6. stored'[m] # 0 /\ remote'[stored'[m]].visible
      BY <2>1, <2>2
    <2>7. pending'[m].name # 0 => pending'[m].name = Len(remote')
      BY <2>1 DEF Alone
    <2> QED BY <2>1, <2>3, <2>5, <2>6, <2>7 DEF Alone, Has
  <1>3. CASE Prepare(m)
    <2>1. /\ UNCHANGED <<remote, mark, deleted, stored>> /\ job[m].at = "prepare"
          /\ file'[m] = Candidate(m) /\ job'[m].at = "check" /\ pending'[m].name = 0
      BY <1>3, <1>t DEF Prepare, At, Jobs, rowVars
    <2>2. Has(m, Candidate(m))
      <3>1. Has(m, job[m].content) /\ job[m].content \in Contents
        BY <2>1, <1>t DEF Alone, Jobs
      <3>2. ASSUME NEW i \in 1..MaxRow, Pass(m, i) PROVE Candidate(m)[<<m, i>>] > 0
        <4>2. <<m, i>> \in Rows /\ job[m].content[<<m, i>>] \in Nat
              /\ job[m].content[<<m, i>>] > 0
          BY <3>1, <3>2 DEF Rows, Contents, Has
        <4>3. \/ Candidate(m)[<<m, i>>] = job[m].content[<<m, i>>]
              \/ Candidate(m)[<<m, i>>] = job[m].content[<<m, i>>] + 0
              \/ Candidate(m)[<<m, i>>] = job[m].content[<<m, i>>] + 1
          BY <4>2 DEF Candidate, Exported
        <4> QED BY <4>2, <4>3
      <3> QED BY <3>2 DEF Has
    <2> HIDE DEF Candidate
    <2>3. Has(m, file[m])'
      BY <2>1, <2>2, <1>p, <1>h
    <2>4. stored'[m] # 0 =>
            /\ remote'[stored'[m]].visible
            /\ \A k \in stored'[m]..Len(remote') : Has(m, remote[k].content)'
      BY <2>1, <1>p DEF Alone, Has, Rests
    <2> QED BY <2>1, <2>3, <2>4, <1>p DEF Alone, Rests
  <1>4. CASE Pull(m)
    <2>1. PICK c, k : /\ PullFrom(m, c, k)
                      /\ Visible = {} \/ (Newest(k) /\ c = remote[k].content)
      BY <1>4 DEF Pull
    <2>2. /\ UNCHANGED <<remote, mark, deleted, stored, file, pending>>
          /\ job'[m].at = "prepare" /\ job'[m].content = c
      BY <2>1, <1>t DEF PullFrom, Jobs, rowVars, diskVars
    <2>3. Has(m, c)
      <3>1. CASE \E i \in 1..MaxRow : Pass(m, i)
        BY <2>1, <3>1, NewestHas
      <3>2. CASE ~(\E i \in 1..MaxRow : Pass(m, i))
        BY <3>2 DEF Has
      <3> QED BY <3>1, <3>2
    <2>4. Has(m, job[m].content)'
      BY <2>2, <2>3, <1>p, <1>h
    <2>5. /\ file'[m] # NoFile => Has(m, file[m])'
          /\ stored'[m] # 0 =>
               /\ remote'[stored'[m]].visible
               /\ \A j \in stored'[m]..Len(remote') : Has(m, remote[j].content)'
      BY <2>2, <1>p DEF Alone, Has, Rests
    <2> QED BY <2>2, <2>4, <2>5, <1>p DEF Alone, Rests
  <1>5. CASE Confirm(m)
    <2>1. /\ UNCHANGED <<remote, mark, deleted, stored, file>> /\ job[m].at = "confirm"
          /\ pending'[m].name = job[m].name
          /\ job'[m].at = "install" /\ job'[m].name = job[m].name
      BY <1>5, <1>t DEF Confirm, Goto, At, Jobs, Markers, rowVars
    <2>2. job[m].name = Len(remote)
      BY <2>1 DEF Alone
    <2>3. /\ file'[m] # NoFile => Has(m, file[m])'
          /\ stored'[m] # 0 =>
               /\ remote'[stored'[m]].visible
               /\ \A j \in stored'[m]..Len(remote') : Has(m, remote[j].content)'
      BY <2>1, <1>p DEF Alone, Has, Rests
    <2> QED BY <2>1, <2>2, <2>3, <1>p DEF Alone, Rests
  <1>6. CASE Recover(m)
    <2>1. UNCHANGED <<remote, mark, deleted, stored, file, pending>>
      BY <1>6 DEF Recover, rowVars, diskVars
    <2>2. /\ job'[m].at = IF Known(pending[m].name) THEN "install" ELSE "check"
          /\ job'[m].name = IF Known(pending[m].name) THEN pending[m].name ELSE 0
      BY <1>6, <1>t DEF Recover, Jobs
    <2>3. job'[m].at = "install" => job'[m].name = Len(remote)
      BY <2>2 DEF Alone, Known
    <2>4. job'[m].at \in {"install", "check"}
      BY <2>2
    <2> QED BY <2>1, <2>3, <2>4, <1>t, <1>g, <1>p, AloneKept
  <1>7. CASE Install(m)
    <2>1. UNCHANGED <<remote, mark, deleted, stored, file, pending>>
      BY <1>7 DEF Install, rowVars
    <2>2. /\ job[m].at = "install" /\ job'[m].at = "marks" /\ job'[m].name = job[m].name
      BY <1>7, <1>t DEF Install, At, Goto, Jobs
    <2>3. job'[m].name = Len(remote)
      BY <2>2 DEF Alone
    <2> QED BY <2>1, <2>2, <2>3, <1>t, <1>g, <1>p, AloneKept
  <1> DEFINE Plain == {"idle", "recover", "pull", "put", "conflict", "discard", "unlink",
                       "clear"}
  <1>8. ASSUME job'[m].at \in Plain, Rests(m), stored' = stored,
               file'[m] \in {file[m], NoFile}, pending'[m].name \in {pending[m].name, 0},
               Len(remote') = Len(remote)
        PROVE  Alone(m)'
    <2>1. /\ job'[m].at # "prepare"
          /\ ~(job'[m].at \in {"confirm", "install", "marks"})
      BY <1>8
    <2> HIDE DEF Plain
    <2> QED BY <1>8, <2>1, <1>t, <1>g, AloneKept
  <1>9. CASE \/ NothingPending(m) \/ Check(m) \/ PutRefused(m)
    <2>1. /\ UNCHANGED <<remote, mark, deleted, stored, file, pending>>
          /\ job'[m].at \in Plain
      BY <1>9, <1>t DEF NothingPending, Check, PutRefused, Goto, Jobs, rowVars, diskVars
    <2> QED BY <2>1, <1>p, <1>8
  <1>10. CASE \/ Refuse(m) \/ NotFound(m) \/ Unconfirmed(m) \/ Stop(m)
             \/ \E o \in Operations : Begin(m, o)
    <2>1. UNCHANGED <<remote, mark, deleted, stored, file, pending>>
      BY <1>10 DEF Refuse, NotFound, Unconfirmed, Stop, Begin, rowVars, diskVars
    <2>2. job'[m].at \in {"idle", "recover"}
      <3>1. CASE \E o \in Operations : Begin(m, o)
        BY <3>1, <1>t DEF Begin, Idle
      <3>2. CASE Refuse(m) \/ NotFound(m) \/ Unconfirmed(m) \/ Stop(m)
        BY <3>2, <1>t, <1>i DEF Refuse, NotFound, Unconfirmed, Stop
      <3> QED BY <1>10, <3>1, <3>2
    <2> QED BY <2>1, <2>2, <1>p, <1>8
  <1>11. CASE DiscardFile(m) \/ Unlink(m)
    <2>1. /\ UNCHANGED <<remote, mark, deleted, stored, pending>> /\ file'[m] = NoFile
          /\ job'[m].at \in {"discard", "clear"}
      BY <1>11, <1>t DEF DiscardFile, Unlink, Goto, Jobs, rowVars
    <2> QED BY <2>1, <1>p, <1>8
  <1>12. CASE DiscardMarkers(m)
    <2>1. /\ UNCHANGED <<remote, mark, deleted, stored, file>> /\ pending'[m].name = 0
          /\ job'[m].at \in {"idle", "recover"}
      BY <1>12, <1>t, NextAttemptIsQuiet DEF DiscardMarkers, NoPending, rowVars
    <2> QED BY <2>1, <1>p, <1>8
  <1>13. CASE Clear(m)
    <2>1. /\ UNCHANGED <<remote, mark, deleted, stored, file>> /\ pending'[m].name = 0
          /\ job'[m].at \in {"idle", "pull"}
      BY <1>13, <1>t, <1>i DEF Clear, NoPending, Jobs, rowVars
    <2> QED BY <2>1, <1>p, <1>8
  <1>14. ASSUME NEW old, Cleanup(m, old) PROVE Alone(m)'
    <2>1. /\ UNCHANGED <<remote, stored, file, pending>> /\ job'[m].at = "unlink"
      BY <1>14, <1>t DEF Cleanup, Goto, Jobs, diskVars
    <2>2. Rests(m)
      BY <1>14, <1>t, CleanupRests DEF MachineInv
    <2> QED BY <2>1, <2>2, <1>8
  <1>15. ASSUME Len(remote') = Len(remote), UNCHANGED <<mark, deleted, diskVars, job>>
         PROVE  Alone(m)'
    BY <1>15, <1>t, <1>g, <1>p, AloneKept DEF diskVars
  <1>16. CASE RowArrives(m) \/ UNCHANGED vars
    <2>1. UNCHANGED <<remote, mark, deleted, diskVars, job>>
      BY <1>16 DEF RowArrives, vars, rowVars
    <2> QED BY <2>1, <1>15
  <1>17. ASSUME NEW k \in 1..Len(remote), Appear(k) PROVE Alone(m)'
    <2>1. UNCHANGED <<mark, deleted, diskVars, job>>
      BY <1>17 DEF Appear, rowVars
    <2>2. CASE Len(remote') = Len(remote)
      BY <2>1, <2>2, <1>15
    <2> QED BY <2>2, <1>1, <1>q
  <1>18. CASE Step(m)
    BY <1>18, <1>1, <1>2, <1>3, <1>4, <1>5, <1>6, <1>7, <1>9, <1>10, <1>11, <1>12, <1>13,
       <1>14 DEF Step
  <1> QED BY <1>10, <1>16, <1>17, <1>18 DEF Next
-----------------------------------------------------------------------------
LEMMA InitExact == Init => ExactInv
  <1> SUFFICES ASSUME Init PROVE ExactInv
    OBVIOUS
  <1>1. Len(remote) = 0
    BY DEF Init
  <1>2. ASSUME NEW m \in Machines
        PROVE  /\ job[m].at = "idle" /\ job[m].content = Empty /\ local[m] = Empty
               /\ file[m] = NoFile /\ stored[m] = 0 /\ pending[m].name = 0
               /\ \A i \in 1..MaxRow : ~Pass(m, i)
    BY DEF Init, Idle, NoPending, Pass
  <1>3. Justified(Empty)
    <2>1. ASSUME NEW n \in Machines, NEW i \in 1..MaxRow
          PROVE  Empty[<<n, i>>] <= 1 /\ (Empty[<<n, i>>] > 0 => Backed(n, i))
      <3>1. <<n, i>> \in Rows
        BY DEF Rows
      <3>2. Empty[<<n, i>>] = 0
        BY <3>1 DEF Empty
      <3> QED BY <3>2
    <2> QED BY <2>1 DEF Justified
  <1>4. Counts
    BY <1>1, <1>2, <1>3 DEF Counts
  <1>5. Phases
    BY <1>2 DEF Phases, Phase
  <1>6. \A m \in Machines : Alone(m)
    BY <1>2 DEF Alone, Has
  <1> QED BY <1>4, <1>5, <1>6 DEF ExactInv

LEMMA ExactStep ==
  ASSUME IInv, ExactInv, [Next]_vars
  PROVE  ExactInv'
  <1>1. Phases'
    <2> SUFFICES ASSUME NEW n \in Machines PROVE Phase(n)'
      BY DEF Phases
    <2>t. /\ Types /\ Phase(n) /\ \A m \in Machines : MachineInv(m) /\ Held(m) /\ Reached(m)
          /\ landed \in [Machines -> BOOLEAN]
      BY DEF IInv, ExactInv, Phases, MachineInv, Types, JobTypes
    <2>1. ASSUME /\ job'[n] = job[n] /\ pending'[n] = pending[n] /\ file'[n] = file[n]
                 /\ mark'[n] = mark[n] /\ landed'[n] = landed[n]
          PROVE  Phase(n)'
      <3>1. pending[n].name # 0 => pending[n].name \in 1..Len(remote)
        BY <2>t DEF MachineInv, Named
      <3>2. pending[n].name # 0 => remote'[pending[n].name].visible
        BY <3>1, <2>t, RemoteStep DEF Grows, Phase
      <3> QED BY <2>1, <3>2, <2>t DEF Phase
    <2>2. ASSUME NEW m \in Machines, Actor(m) PROVE Phase(n)'
      <3>1. CASE m = n
        BY <2>2, <3>1, <2>t, PhaseOwn
      <3>2. CASE m # n
        <4>1. landed'[n] = landed[n]
          BY <2>2, <2>t, <3>2 DEF Actor, Begin, Stop, Step, NothingPending, Refuse,
             Recover, Pull, PullFrom, Prepare, NotFound, Check, Put, PutRefused, Confirm,
             Unconfirmed, DiscardFile, DiscardMarkers, Install, SetMarks, Cleanup,
             Unlink, Clear
        <4>2. Others(m)
          BY <2>2, <2>t, ActorFrame
        <4> QED BY <2>1, <3>2, <4>1, <4>2 DEF Others, Rests
      <3> QED BY <3>1, <3>2
    <2>3. ASSUME NEW m \in Machines, RowArrives(m) PROVE Phase(n)'
      BY <2>1, <2>3 DEF RowArrives, diskVars
    <2>4. ASSUME NEW k \in 1..Len(remote), Appear(k) PROVE Phase(n)'
      BY <2>1, <2>4 DEF Appear, rowVars, diskVars
    <2>5. CASE UNCHANGED vars
      BY <2>1, <2>5 DEF vars, rowVars, diskVars
    <2> QED BY <2>2, <2>3, <2>4, <2>5 DEF Next, Actor
  <1>2. forgot' \/ Counts'
    BY <1>1, CountsStep, ForgottenStays DEF ExactInv
  <1>3. ASSUME Cardinality(Machines) = 1, NEW n \in Machines PROVE Alone(n)'
    <2>1. Machines = {n}
      BY <1>3, FS_Singleton, SyncAssumption
    <2> QED BY <1>3, <2>1, AloneStep DEF ExactInv
  <1> QED BY <1>1, <1>2, <1>3 DEF ExactInv

(* export.py:32, doc/sync.md:83: whatever interrupts or overlaps the       *)
(* transactions of any number of machines, no artifact counts a row twice  *)
(* unless a candidate that had reached the server was discarded; and what  *)
(* the marks of a machine that is alone have passed is in the newest one.  *)
THEOREM ArchiveIsExact == Spec => []OneMachineExact
  <1>1. Spec => []ExactInv
    BY InitExact, ExactStep, Inductive, PTL DEF Spec
  <1>2. IInv /\ ExactInv => OneMachineExact
    <2> SUFFICES ASSUME IInv, ExactInv PROVE OneMachineExact
      OBVIOUS
    <2>1. TwiceOnlyIfForgotten
      BY DEF TwiceOnlyIfForgotten, ExactInv, Counts, Justified, Rows
    <2>2. LatestKeepsMarked
      <3> SUFFICES ASSUME Cardinality(Machines) = 1, NEW m \in Machines,
                          NEW i \in 1..MaxRow, Passed(<<m, i>>)
                   PROVE  Latest # 0 /\ remote[Latest].content[<<m, i>>] > 0
        BY DEF LatestKeepsMarked, Rows
      <3>1. Len(remote) \in Nat /\ Visible \in SUBSET (1..Len(remote))
        BY LenProperties DEF IInv, Types, RemoteTypes, Visible
      <3>2. Pass(m, i)
        BY DEF Passed, Pass
      <3>3. Visible # {} /\ \A k : Newest(k) => Has(m, remote[k].content)
        BY <3>2, NewestHas DEF ExactInv
      <3>4. \E k \in Visible : Newest(k)
        <4> HIDE DEF Visible
        <4> QED BY <3>1, <3>3, GreatestExists DEF Newest
      <3>5. Newest(Latest) /\ Latest \in Visible
        BY <3>3, <3>4 DEF Latest
      <3> QED BY <3>1, <3>2, <3>3, <3>5 DEF Has
    <2> QED BY <2>1, <2>2 DEF OneMachineExact
  <1> QED BY <1>1, <1>2, Inductive, PTL
=============================================================================

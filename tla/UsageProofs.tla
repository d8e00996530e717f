------------------------------ MODULE UsageProofs ------------------------------
(***************************************************************************)
(* Machine-checked facts about UsageWriter and, from the section on its     *)
(* export on, about UsageArchive: for any number of requests, any limits,   *)
(* any number of faults and crashes, the pipeline loses no usage it does    *)
(* not report, and the export of the dashboard and the cleanup that follows *)
(* it lose no row and count none twice.                                    *)
(***************************************************************************)
EXTENDS UsageArchive, TLAPS, FiniteSetTheorems, SequenceTheorems, WellFoundedInduction

-----------------------------------------------------------------------------
(* Sequences of events.                                                    *)

(* First(s, n) takes exactly n events.                                     *)
LEMMA FirstType ==
  ASSUME NEW s \in Seq(Requests), NEW n \in 0..Len(s)
  PROVE  /\ First(s, n) \in Seq(Requests)
         /\ Len(First(s, n)) = n
         /\ \A i \in 1..n : First(s, n)[i] = s[i]
  <1>1. \A i \in 1..n : s[i] \in Requests
    BY LenProperties, ElementOfSeq
  <1> QED BY <1>1, SubSeqProperties, LenProperties DEF First

(* After(s, n) is the rest.                                                *)
LEMMA AfterType ==
  ASSUME NEW s \in Seq(Requests), NEW n \in 0..Len(s)
  PROVE  /\ After(s, n) \in Seq(Requests)
         /\ Len(After(s, n)) = Len(s) - n
         /\ \A i \in 1..(Len(s) - n) : After(s, n)[i] = s[n + i]
  <1>0. Len(s) \in Nat
    BY LenProperties
  <1>1. \A i \in (n + 1)..Len(s) : s[i] \in Requests
    BY <1>0, ElementOfSeq
  <1>2. /\ SubSeq(s, n + 1, Len(s)) \in Seq(Requests)
        /\ Len(SubSeq(s, n + 1, Len(s))) =
             IF n + 1 <= Len(s) THEN Len(s) - (n + 1) + 1 ELSE 0
        /\ \A i \in 1..(Len(s) - (n + 1) + 1) :
             SubSeq(s, n + 1, Len(s))[i] = s[(n + 1) + i - 1]
    <2>1. n + 1 \in Int /\ Len(s) \in Int
      BY <1>0
    <2> QED BY <2>1, <1>1, SubSeqProperties
  <1> QED BY <1>0, <1>2 DEF After

(* The events of a sequence of requests are requests.                      *)
LEMMA EventsType ==
  ASSUME NEW s \in Seq(Requests)
  PROVE  Events(s) \subseteq Requests
  BY ElementOfSeq DEF Events

(* Two files joined hold the events of both.                               *)
LEMMA EventsConcat ==
  ASSUME NEW s \in Seq(Requests), NEW t \in Seq(Requests)
  PROVE  Events(s \o t) = Events(s) \union Events(t)
  <1> DEFINE u == s \o t
  <1>1. /\ u \in Seq(Requests) /\ Len(u) = Len(s) + Len(t)
        /\ \A i \in 1..(Len(s) + Len(t)) :
             u[i] = IF i <= Len(s) THEN s[i] ELSE t[i - Len(s)]
    BY ConcatProperties
  <1>2. Len(s) \in Nat /\ Len(t) \in Nat
    BY LenProperties
  <1> HIDE DEF u
  <1>3. Events(u) \subseteq Events(s) \union Events(t)
    <2> SUFFICES ASSUME NEW i \in 1..Len(u)
                 PROVE  u[i] \in Events(s) \union Events(t)
      BY DEF Events
    <2>1. CASE i <= Len(s)
      BY <2>1, <1>1, <1>2 DEF Events
    <2>2. CASE ~(i <= Len(s))
      <3>1. i - Len(s) \in 1..Len(t) /\ u[i] = t[i - Len(s)]
        BY <2>2, <1>1, <1>2
      <3> QED BY <3>1 DEF Events
    <2> QED BY <2>1, <2>2
  <1>4. Events(s) \subseteq Events(u)
    <2> SUFFICES ASSUME NEW i \in 1..Len(s)
                 PROVE  s[i] \in Events(u)
      BY DEF Events
    <2>1. i \in 1..Len(u) /\ u[i] = s[i]
      BY <1>1, <1>2
    <2> QED BY <2>1 DEF Events
  <1>5. Events(t) \subseteq Events(u)
    <2> SUFFICES ASSUME NEW i \in 1..Len(t)
                 PROVE  t[i] \in Events(u)
      BY DEF Events
    <2>1. Len(s) + i \in 1..(Len(s) + Len(t)) /\ ~(Len(s) + i <= Len(s))
      BY <1>2
    <2>2. u[Len(s) + i] = t[(Len(s) + i) - Len(s)] /\ (Len(s) + i) - Len(s) = i
      BY <2>1, <1>1, <1>2
    <2>3. Len(s) + i \in 1..Len(u) /\ u[Len(s) + i] = t[i]
      BY <2>1, <2>2, <1>1
    <2> QED BY <2>3 DEF Events
  <1> QED BY <1>3, <1>4, <1>5 DEF u

(* Cutting a sequence in two loses no event.                               *)
LEMMA EventsSplit ==
  ASSUME NEW s \in Seq(Requests), NEW n \in 0..Len(s)
  PROVE  Events(s) = Events(First(s, n)) \union Events(After(s, n))
  <1>0. Len(s) \in Nat
    BY LenProperties
  <1>1. Events(First(s, n)) \subseteq Events(s)
    <2> SUFFICES ASSUME NEW i \in 1..Len(First(s, n))
                 PROVE  First(s, n)[i] \in Events(s)
      BY DEF Events
    <2>1. i \in 1..n
      BY FirstType
    <2>2. First(s, n)[i] = s[i] /\ i \in 1..Len(s)
      BY <2>1, <1>0, FirstType
    <2> QED BY <2>2 DEF Events
  <1>2. Events(After(s, n)) \subseteq Events(s)
    <2> SUFFICES ASSUME NEW i \in 1..Len(After(s, n))
                 PROVE  After(s, n)[i] \in Events(s)
      BY DEF Events
    <2>1. i \in 1..(Len(s) - n)
      BY AfterType
    <2>2. After(s, n)[i] = s[n + i]
      BY <2>1, AfterType
    <2>3. n + i \in 1..Len(s)
      BY <2>1, <1>0
    <2> QED BY <2>2, <2>3 DEF Events
  <1>3. Events(s) \subseteq Events(First(s, n)) \union Events(After(s, n))
    <2> SUFFICES ASSUME NEW i \in 1..Len(s)
                 PROVE  s[i] \in Events(First(s, n)) \union Events(After(s, n))
      BY DEF Events
    <2>1. CASE i <= n
      <3>1. i \in 1..Len(First(s, n)) /\ First(s, n)[i] = s[i]
        BY <2>1, <1>0, FirstType
      <3> QED BY <3>1 DEF Events
    <2>2. CASE ~(i <= n)
      <3>1. i - n \in 1..Len(After(s, n)) /\ After(s, n)[i - n] = s[i]
        BY <2>2, <1>0, AfterType
      <3> QED BY <3>1 DEF Events
    <2> QED BY <2>1, <2>2, <1>0
  <1> QED BY <1>1, <1>2, <1>3
-----------------------------------------------------------------------------
(* The inductive invariant.                                                *)

(* Slots can be given back without going negative because the counter is   *)
(* exact, and it may be reset because nobody holds one.                    *)
Quiet == stop \/ ~Running => Live = {}
TokenInv == TokenTypes /\ SlotsConserved /\ Quiet

(* A batch on its way to SQLite ends inside the file, and the writer has   *)
(* not used up its retries.                                                *)
BatchInFile ==
  /\ writer \in {"persist", "committed", "landed"} => durableEnd <= writeOff
  /\ writer \in {"persist", "committed"} => failures < ShutdownRetryLimit
FileInv == ModeTypes /\ FileTypes /\ WriterTypes /\ BatchInFile

(* Rows come before metrics, and an event has one row or none.             *)
BatchRecorded ==
  /\ writer \in {"committed", "landed"} => Events(batch) \subseteq rows
  /\ writer = "landed" => Events(batch) \subseteq metrics
InsertedExactly ==
  \A r \in Requests : inserts[r] = IF r \in rows THEN 1 ELSE 0
OutcomeInv == OutcomeTypes /\ BatchRecorded /\ InsertedExactly

IInv == TokenInv /\ FileInv /\ OutcomeInv
-----------------------------------------------------------------------------
(* Tokens.                                                                 *)

(* The live tokens are finitely many.                                      *)
LEMMA LiveFinite ==
  /\ IsFiniteSet(Live)
  /\ Cardinality(Live) \in Nat
  <1>1. Live \in SUBSET Requests
    BY DEF Live
  <1> QED BY <1>1, WriterAssumption, FS_Subset, FS_CardinalityType

(* A token that comes to life is one more.                                 *)
LEMMA LiveGrows ==
  ASSUME NEW r \in Requests, r \notin Live, Live' = Live \union {r}
  PROVE  Cardinality(Live') = Cardinality(Live) + 1
  BY LiveFinite, FS_AddElement

(* A token that ends is one less, and there was one to end.                *)
LEMMA LiveShrinks ==
  ASSUME NEW r \in Requests, r \in Live, Live' = Live \ {r}
  PROVE  /\ Cardinality(Live') = Cardinality(Live) - 1
         /\ Cardinality(Live) > 0
  <1>1. Cardinality(Live') = Cardinality(Live) - 1
    BY LiveFinite, FS_RemoveElement
  <1>2. Cardinality(Live) # 0
    BY LiveFinite, FS_EmptySet
  <1> QED BY <1>1, <1>2, LiveFinite

(* The writer thread touches no token, and it neither starts nor ends the  *)
(* process.                                                                *)
LEMMA WriterLeavesTokens ==
  ASSUME WriterStep
  PROVE  /\ UNCHANGED tokenVars
         /\ UNCHANGED stop
         /\ Running /\ Running'
  BY DEF WriterStep, WriterWorks, ReadSpool, DecodeFails, PopQueue, Reclaim, AppendBatch,
         AfterAppendError, Sync, SyncFails, Commit, CommitFails, WriteMetrics,
         MetricsFail, Advance, Drained, Encode, DropPoison, AppendFails,
         WriterDies, Retry, ReadyToWrite, Running, tokenVars, modeVars,
         spoolVars

(* Giving a token up ends it with its slot, or turns it into an abort      *)
(* record that still holds the slot.                                       *)
LEMMA GiveUpKeepsCount ==
  ASSUME TokenInv, NEW r \in Requests, r \in Live, GiveUp(r)
  PROVE  /\ phase' \in [Requests -> Phases]
         /\ reservations' \in Nat
         /\ reservations' = Cardinality(Live')
  <1>1. /\ phase \in [Requests -> Phases]
        /\ reservations \in Nat /\ reservations = Cardinality(Live)
    BY DEF TokenInv, TokenTypes, SlotsConserved
  <1>2. CASE r \in started /\ phase[r] # "aborting" /\ reservations > 0
    <2>1. /\ phase' = [phase EXCEPT ![r] = "aborting"]
          /\ reservations' = reservations
      BY <1>2 DEF GiveUp
    <2>2. Live' = Live
      BY <1>1, <2>1 DEF Live
    <2> QED BY <1>1, <2>1, <2>2 DEF Phases
  <1>3. CASE ~(r \in started /\ phase[r] # "aborting" /\ reservations > 0)
    <2>1. /\ phase' = [phase EXCEPT ![r] = "dropped"]
          /\ reservations' = IF reservations > 0 THEN reservations - 1
                             ELSE reservations
      BY <1>3 DEF GiveUp
    <2>2. Live' = Live \ {r}
      BY <1>1, <2>1 DEF Live
    <2>3. Cardinality(Live') = Cardinality(Live) - 1 /\ Cardinality(Live) > 0
      BY <2>2, LiveShrinks
    <2> QED BY <1>1, <2>1, <2>3 DEF Phases
  <1> QED BY <1>2, <1>3

(* A step that leaves the tokens alone and ends no stop keeps TokenInv.    *)
LEMMA TokensUntouched ==
  ASSUME TokenInv, UNCHANGED tokenVars, stop' => stop, Running' = Running
  PROVE  TokenInv'
  <1>1. phase' = phase /\ started' = started /\ reservations' = reservations
    BY DEF tokenVars
  <1>2. Live' = Live
    BY <1>1 DEF Live
  <1> QED BY <1>1, <1>2 DEF TokenInv, TokenTypes, SlotsConserved, Quiet

LEMMA TokenStep ==
  ASSUME TokenInv, [Next]_vars
  PROVE  TokenInv'
  <1>1. /\ phase \in [Requests -> Phases] /\ started \subseteq Requests
        /\ reservations \in Nat /\ reservations = Cardinality(Live)
        /\ (stop \/ ~Running => Live = {})
    BY DEF TokenInv, TokenTypes, SlotsConserved, Quiet
  <1>2. ASSUME NEW r \in Requests, RequestStep(r)
        PROVE  TokenInv'
    <2>0. stop' = stop /\ writer' = writer
      BY <1>2 DEF RequestStep, Reserve, Refuse, MarkUpstreamStarted,
         LogRequest, Enqueue, Abandon, LogRejected, BuildFails, writerSide
    <2>1. CASE Reserve(r)
      <3>1. /\ phase' = [phase EXCEPT ![r] = "held"] /\ started' = started
            /\ reservations' = reservations + 1 /\ phase[r] = "new"
            /\ Running /\ ~stop
        BY <2>1 DEF Reserve, Serving
      <3>2. r \notin Live /\ Live' = Live \union {r}
        BY <1>1, <3>1 DEF Live
      <3>3. Cardinality(Live') = Cardinality(Live) + 1
        BY <3>2, LiveGrows
      <3> QED BY <1>1, <2>0, <3>1, <3>3
           DEF TokenInv, TokenTypes, SlotsConserved, Quiet, Phases, Running
    <2>2. CASE Refuse(r)
      <3>1. /\ phase' = [phase EXCEPT ![r] = "refused"] /\ started' = started
            /\ reservations' = reservations /\ phase[r] = "new"
        BY <2>2 DEF Refuse
      <3>2. Live' = Live
        BY <1>1, <3>1 DEF Live
      <3> QED BY <1>1, <2>0, <3>1, <3>2
           DEF TokenInv, TokenTypes, SlotsConserved, Quiet, Phases, Running
    <2>3. CASE MarkUpstreamStarted(r)
      <3>1. /\ phase' = phase /\ started' = started \union {r}
            /\ reservations' = reservations
        BY <2>3 DEF MarkUpstreamStarted
      <3>2. Live' = Live
        BY <3>1 DEF Live
      <3> QED BY <1>1, <2>0, <3>1, <3>2
           DEF TokenInv, TokenTypes, SlotsConserved, Quiet, Running
    <2>4. CASE LogRequest(r)
      <3>1. /\ phase' = [phase EXCEPT ![r] = "logging"] /\ started' = started
            /\ reservations' = reservations /\ phase[r] = "held"
        BY <2>4 DEF LogRequest
      <3>2. Live' = Live
        BY <1>1, <3>1 DEF Live
      <3> QED BY <1>1, <2>0, <3>1, <3>2
           DEF TokenInv, TokenTypes, SlotsConserved, Quiet, Phases, Running
    <2>5. CASE Enqueue(r)
      <3>1. /\ phase' = [phase EXCEPT ![r] = "accepted"] /\ started' = started
            /\ reservations' = reservations - 1
            /\ phase[r] \in {"logging", "aborting"}
        BY <2>5 DEF Enqueue
      <3>2. r \in Live /\ Live' = Live \ {r}
        BY <1>1, <3>1 DEF Live
      <3>3. Cardinality(Live') = Cardinality(Live) - 1 /\ Cardinality(Live) > 0
        BY <3>2, LiveShrinks
      <3> QED BY <1>1, <2>0, <3>1, <3>2, <3>3
           DEF TokenInv, TokenTypes, SlotsConserved, Quiet, Phases, Running
    <2>6. CASE Abandon(r) \/ LogRejected(r) \/ BuildFails(r)
      <3>1. GiveUp(r) /\ started' = started /\ r \in Live
        BY <2>6, <1>1 DEF Abandon, LogRejected, BuildFails, Live
      <3>2. /\ phase' \in [Requests -> Phases]
            /\ reservations' \in Nat /\ reservations' = Cardinality(Live')
        BY <3>1, GiveUpKeepsCount
      <3> QED BY <1>1, <2>0, <3>1, <3>2
           DEF TokenInv, TokenTypes, SlotsConserved, Quiet, Running
    <2> QED BY <1>2, <2>1, <2>2, <2>3, <2>4, <2>5, <2>6 DEF RequestStep
  <1>3. CASE WriterStep
    BY <1>3, WriterLeavesTokens, TokensUntouched DEF Running
  <1>4. CASE Start
    <2>1. /\ phase' = phase /\ started' = started /\ reservations' = 0
          /\ stop' = stop /\ ~Running
      BY <1>4 DEF Start, Running
    <2>2. Live' = Live /\ Live = {}
      BY <1>1, <2>1 DEF Live
    <2> QED BY <1>1, <2>1, <2>2, FS_EmptySet
         DEF TokenInv, TokenTypes, SlotsConserved, Quiet
  <1>5. CASE RequestStop
    <2>1. UNCHANGED tokenVars /\ Live = {}
      BY <1>5 DEF RequestStop
    <2>2. phase' = phase /\ started' = started /\ reservations' = reservations
      BY <2>1 DEF tokenVars
    <2>3. Live' = {}
      BY <2>1, <2>2 DEF Live
    <2> QED BY <1>1, <2>1, <2>2, <2>3
         DEF TokenInv, TokenTypes, SlotsConserved, Quiet
  <1>6. CASE FinishStop
    <2>1. /\ phase' = phase /\ started' = started /\ reservations' = 0 /\ stop
      BY <1>6 DEF FinishStop
    <2>2. Live' = Live /\ Live = {}
      BY <1>1, <2>1 DEF Live
    <2> QED BY <1>1, <2>1, <2>2, FS_EmptySet
         DEF TokenInv, TokenTypes, SlotsConserved, Quiet
  <1>7. ASSUME NEW keep, Crash(keep)
        PROVE  TokenInv'
    <2>1. /\ phase' = [q \in Requests |->
                         IF q \in Live THEN "crashed" ELSE phase[q]]
          /\ started' = started /\ reservations' = 0
      BY <1>7 DEF Crash
    <2>2. Live' = {}
      BY <1>1, <2>1 DEF Live
    <2> QED BY <1>1, <2>1, <2>2, FS_EmptySet
         DEF TokenInv, TokenTypes, SlotsConserved, Quiet, Phases
  <1>8. CASE UNCHANGED vars
    BY <1>8, TokensUntouched DEF vars, tokenVars, Running
  <1> QED BY <1>2, <1>3, <1>4, <1>5, <1>6, <1>7, <1>8 DEF Next, ProcessStep
-----------------------------------------------------------------------------
(* The file, its offsets and the writer.                                   *)

(* The limits of the code are positive.                                    *)
LEMMA Limits ==
  /\ QueueMax \in Nat \ {0} /\ BatchSize \in Nat \ {0}
  /\ FrameMax \in Nat \ {0} /\ HardLimit \in Nat \ {0}
  /\ CompactThreshold \in Nat \ {0} /\ ShutdownRetryLimit \in Nat \ {0}
  /\ MaxFaults \in Nat /\ MaxCrashes \in Nat
  BY WriterAssumption

(* FileInv, in the form the steps use it.                                  *)
LEMMA FileFacts ==
  ASSUME FileInv
  PROVE  /\ accepting \in BOOLEAN /\ recovering \in BOOLEAN
         /\ stop \in BOOLEAN
         /\ queue \in Seq(Requests) /\ spool \in Seq(Requests)
         /\ readOff \in Nat /\ writeOff \in Nat /\ synced \in Nat
         /\ readOff <= writeOff /\ synced <= Len(spool)
         /\ (Running => writeOff = Len(spool))
         /\ (~Running => writeOff = 0)
         /\ writer \in Writers /\ batch \in Seq(Requests)
         /\ durableEnd \in Nat /\ batchSynced \in BOOLEAN
         /\ failures \in 0..ShutdownRetryLimit
         /\ BatchInFile
         /\ Len(spool) \in Nat /\ Len(batch) \in Nat /\ Len(queue) \in Nat
  BY LenProperties DEF FileInv, ModeTypes, FileTypes, WriterTypes

(* Requests touch neither the file nor the writer.                         *)
LEMMA RequestLeavesFile ==
  ASSUME FileInv, NEW r \in Requests, RequestStep(r)
  PROVE  FileInv'
  <1>1. /\ UNCHANGED <<spoolVars, writer, batchVars, recovering, stop>>
        /\ queue' = queue \/ queue' = Append(queue, r)
        /\ accepting' = accepting \/ accepting' = FALSE
    BY DEF RequestStep, Reserve, Refuse, MarkUpstreamStarted, LogRequest,
       Enqueue, Abandon, LogRejected, BuildFails, writerSide
  <1>2. queue \in Seq(Requests)
    BY FileFacts
  <1>3. Append(queue, r) \in Seq(Requests)
    BY <1>2, AppendProperties
  <1>4. queue' \in Seq(Requests)
    BY <1>1, <1>2, <1>3
  <1> QED BY <1>1, <1>4
       DEF FileInv, ModeTypes, FileTypes, WriterTypes, BatchInFile, Running,
           spoolVars, batchVars

(* Compaction: the file is emptied, or only its read offset moves.         *)
LEMMA CompactKeepsFile ==
  ASSUME FileInv, Running, Truncate \/ TruncateFails
  PROVE  /\ spool' \in Seq(Requests) /\ readOff' \in Nat
         /\ writeOff' \in Nat /\ synced' \in Nat
         /\ readOff' <= writeOff' /\ synced' <= Len(spool')
         /\ writeOff' = Len(spool')
  <1>1. CASE Truncate
    BY <1>1, EmptySeq DEF Truncate
  <1>2. CASE TruncateFails
    BY <1>2, FileFacts DEF TruncateFails
  <1> QED BY <1>1, <1>2

(* Frames added at the end of the file.                                    *)
LEMMA GrowKeepsFile ==
  ASSUME FileInv, Running, NEW n \in 0..Len(batch), Grow(n)
  PROVE  /\ spool' \in Seq(Requests) /\ readOff' = readOff
         /\ synced' = synced
         /\ writeOff' \in Nat /\ writeOff' = writeOff + n
         /\ readOff' <= writeOff' /\ synced' <= Len(spool')
         /\ writeOff' = Len(spool')
  <1>1. First(batch, n) \in Seq(Requests) /\ Len(First(batch, n)) = n
    BY FileFacts, FirstType
  <1>2. /\ spool \o First(batch, n) \in Seq(Requests)
        /\ Len(spool \o First(batch, n)) = Len(spool) + Len(First(batch, n))
    BY <1>1, FileFacts, ConcatProperties
  <1> QED BY <1>1, <1>2, FileFacts DEF Grow

(* A failed attempt is tried again below the limit, or ends the thread.    *)
LEMMA RetryKeepsWriter ==
  ASSUME FileInv, writer = "persist" \/ writer = "committed", Retry
  PROVE  /\ failures' \in 0..ShutdownRetryLimit
         /\ writer' = "gone" \/ (writer' = "persist"
                                 /\ failures' < ShutdownRetryLimit)
         /\ batch' \in Seq(Requests)
         /\ durableEnd' = durableEnd
         /\ UNCHANGED <<tokenVars, modeVars, queue>>
  <1>1. failures < ShutdownRetryLimit /\ failures \in Nat
    BY FileFacts DEF BatchInFile
  <1>2. /\ failures' = IF stop THEN failures + 1 ELSE failures
        /\ writer' = IF stop /\ failures + 1 >= ShutdownRetryLimit
                     THEN "gone" ELSE "persist"
        /\ batch' = IF stop /\ failures + 1 >= ShutdownRetryLimit
                    THEN <<>> ELSE batch
        /\ durableEnd' = durableEnd
        /\ UNCHANGED <<tokenVars, modeVars, queue>>
    BY DEF Retry
  <1> QED BY <1>1, <1>2, Limits, FileFacts, EmptySeq

LEMMA WriterKeepsFile ==
  ASSUME FileInv, WriterStep
  PROVE  FileInv'
  <1> USE DEF FileInv, ModeTypes, FileTypes, WriterTypes, BatchInFile, Running,
              Writers, modeVars, spoolVars, batchVars
  <1>0. Running
    BY WriterLeavesTokens DEF Running
  <1>1. CASE ReadSpool
    <2>0. /\ batchSynced' = FALSE /\ failures' = 0 /\ writer' = "persist"
          /\ UNCHANGED <<modeVars, queue, spoolVars>>
      BY <1>1 DEF ReadSpool
    <2>1. /\ durableEnd' = Least(readOff + BatchSize, writeOff)
          /\ batch' = SubSeq(spool, readOff + 1, durableEnd')
      BY <1>1 DEF ReadSpool
    <2>2. durableEnd' \in Nat /\ durableEnd' <= writeOff
      BY <2>1, FileFacts, Limits DEF Least
    <2>3. \A i \in (readOff + 1)..durableEnd' : spool[i] \in Requests
      BY <1>0, <2>2, FileFacts, ElementOfSeq
    <2>4. readOff + 1 \in Int /\ durableEnd' \in Int
      BY <2>2, FileFacts
    <2>5. batch' \in Seq(Requests)
      <3> DEFINE de == durableEnd'
      <3>1. de \in Int /\ \A i \in (readOff + 1)..de : spool[i] \in Requests
        BY <2>3, <2>4
      <3> HIDE DEF de
      <3>2. SubSeq(spool, readOff + 1, de) \in Seq(Requests)
        BY <3>1, <2>4, SubSeqProperties
      <3> QED BY <3>2, <2>1 DEF de
    <2>6. /\ 0 \in 0..ShutdownRetryLimit /\ 0 < ShutdownRetryLimit
      BY Limits
    <2> QED BY <1>0, <2>0, <2>2, <2>5, <2>6
  <1>2. CASE DecodeFails
    BY <1>2 DEF DecodeFails
  <1>3. CASE PopQueue
    <2> DEFINE n == Least(BatchSize, Len(queue))
    <2>0. /\ writer' = "encode"
          /\ UNCHANGED <<modeVars, spoolVars, durableEnd, batchSynced, failures>>
      BY <1>3 DEF PopQueue
    <2>1. batch' = First(queue, n) /\ queue' = After(queue, n)
      BY <1>3 DEF PopQueue
    <2>2. n \in 0..Len(queue)
      BY FileFacts, Limits DEF Least
    <2> HIDE DEF n
    <2>3. batch' \in Seq(Requests) /\ queue' \in Seq(Requests)
      BY <2>1, <2>2, FileFacts, FirstType, AfterType
    <2> QED BY <1>0, <2>0, <2>3
  <1>4. ASSUME NEW n \in 1..BatchSize, Encode(n)
        PROVE  FileInv'
    <2>0. /\ writer' = "append"
          /\ UNCHANGED <<modeVars, spoolVars, durableEnd, batchSynced, failures>>
      BY <1>4 DEF Encode
    <2>1. /\ n \in 0..Len(batch) /\ batch' = First(batch, n)
          /\ queue' = After(batch, n) \o queue
      BY <1>4 DEF Encode
    <2>2. batch' \in Seq(Requests) /\ After(batch, n) \in Seq(Requests)
      BY <2>1, FileFacts, FirstType, AfterType
    <2>3. queue' \in Seq(Requests)
      BY <2>1, <2>2, FileFacts, ConcatProperties
    <2> QED BY <1>0, <2>0, <2>2, <2>3
  <1>5. ASSUME NEW n \in 1..BatchSize, DropPoison(n)
        PROVE  FileInv'
    <2>0. /\ writer' \in {"wait", "append"}
          /\ UNCHANGED <<modeVars, spoolVars, durableEnd, batchSynced, failures>>
      BY <1>5 DEF DropPoison
    <2>1. /\ n \in 0..Len(batch) /\ n - 1 \in 0..Len(batch)
          /\ batch' = First(batch, n - 1)
          /\ queue' = After(batch, n) \o queue
      BY <1>5, FileFacts DEF DropPoison
    <2>2. batch' \in Seq(Requests) /\ After(batch, n) \in Seq(Requests)
      BY <2>1, FileFacts, FirstType, AfterType
    <2>3. queue' \in Seq(Requests)
      BY <2>1, <2>2, FileFacts, ConcatProperties
    <2> QED BY <1>0, <2>0, <2>2, <2>3
  <1>6. CASE Reclaim
    <2>1. /\ Truncate \/ TruncateFails
          /\ writer' = "write"
          /\ UNCHANGED <<modeVars, queue, batchVars>>
      BY <1>6 DEF Reclaim
    <2> QED BY <1>0, <2>1, CompactKeepsFile
  <1>7. CASE AppendBatch
    <2>0. /\ durableEnd' = writeOff'
          /\ batchSynced' = FALSE /\ failures' = 0 /\ writer' = "persist"
          /\ UNCHANGED <<modeVars, queue, batch>>
      BY <1>7 DEF AppendBatch
    <2>1. Grow(Len(batch)) /\ Len(batch) \in 0..Len(batch)
      BY <1>7, FileFacts DEF AppendBatch
    <2>2. /\ spool' \in Seq(Requests) /\ readOff' = readOff
          /\ synced' = synced /\ writeOff' \in Nat
          /\ readOff' <= writeOff' /\ synced' <= Len(spool')
          /\ writeOff' = Len(spool')
      BY <1>0, <2>1, GrowKeepsFile
    <2>3. 0 \in 0..ShutdownRetryLimit /\ 0 < ShutdownRetryLimit
      BY Limits
    <2>4. durableEnd' \in Nat /\ durableEnd' <= writeOff'
      BY <2>0, <2>2
    <2> QED BY <1>0, <2>0, <2>2, <2>3, <2>4
  <1>8. ASSUME NEW n \in 0..BatchSize, AppendFails(n)
        PROVE  FileInv'
    <2>0. /\ batch' = <<>> /\ accepting' = FALSE /\ writer' = "errwait"
          /\ UNCHANGED <<recovering, stop, durableEnd, batchSynced, failures>>
      BY <1>8 DEF AppendFails
    <2>1. /\ n \in 0..Len(batch) /\ Grow(n)
          /\ queue' = After(batch, n) \o queue
      BY <1>8, FileFacts DEF AppendFails, Requeue
    <2>2. After(batch, n) \in Seq(Requests)
      BY <2>1, FileFacts, AfterType
    <2>3. queue' \in Seq(Requests)
      BY <2>1, <2>2, FileFacts, ConcatProperties
    <2>4. /\ spool' \in Seq(Requests) /\ readOff' = readOff
          /\ synced' = synced /\ writeOff' \in Nat
          /\ readOff' <= writeOff' /\ synced' <= Len(spool')
          /\ writeOff' = Len(spool')
      BY <1>0, <2>1, GrowKeepsFile
    <2> QED BY <1>0, <2>0, <2>3, <2>4, EmptySeq
  <1>9. CASE AfterAppendError
    BY <1>9 DEF AfterAppendError
  <1>10. CASE Sync
    <2>1. /\ synced' = Len(spool) /\ spool' = spool /\ batchSynced' = TRUE
          /\ UNCHANGED <<modeVars, queue, readOff, writeOff, writer, batch,
                         durableEnd, failures>>
      BY <1>10 DEF Sync
    <2> QED BY <2>1, FileFacts
  <1>11. CASE SyncFails
    <2>1. /\ writer = "persist" /\ Retry /\ UNCHANGED <<batchSynced, spoolVars>>
      BY <1>11 DEF SyncFails
    <2> QED BY <2>1, RetryKeepsWriter
  <1>12. CASE Commit
    BY <1>12 DEF Commit
  <1>13. CASE CommitFails
    <2>1. /\ writer = "persist" /\ Retry /\ UNCHANGED <<batchSynced, spoolVars>>
      BY <1>13 DEF CommitFails
    <2> QED BY <2>1, RetryKeepsWriter
  <1>14. CASE WriteMetrics
    BY <1>14 DEF WriteMetrics
  <1>15. CASE MetricsFail
    <2>1. /\ writer = "committed" /\ Retry
          /\ UNCHANGED <<batchSynced, spoolVars>>
      BY <1>15 DEF MetricsFail
    <2> QED BY <2>1, RetryKeepsWriter
  <1>16. CASE Advance
    <2>1. /\ writer = "landed" /\ writer' = "wait" /\ batch' = <<>>
          /\ recovering' \in BOOLEAN /\ accepting' \in BOOLEAN
          /\ UNCHANGED <<stop, queue, durableEnd, batchSynced, failures>>
      BY <1>16 DEF Advance
    <2>2. \/ Truncate \/ TruncateFails
          \/ readOff' = durableEnd /\ UNCHANGED <<spool, writeOff, synced>>
      BY <1>16 DEF Advance
    <2>3. CASE Truncate \/ TruncateFails
      BY <1>0, <2>1, <2>3, CompactKeepsFile, EmptySeq
    <2>4. CASE readOff' = durableEnd /\ UNCHANGED <<spool, writeOff, synced>>
      BY <1>0, <2>1, <2>4, EmptySeq
    <2> QED BY <2>2, <2>3, <2>4
  <1>17. ASSUME NEW n \in 0..BatchSize, WriterDies(n)
         PROVE  FileInv'
    <2>0. /\ batch' = <<>> /\ accepting' = FALSE /\ writer' = "gone"
          /\ UNCHANGED <<recovering, stop, queue, durableEnd, batchSynced,
                         failures>>
      BY <1>17 DEF WriterDies
    <2>1. n \in 0..Len(batch) /\ Grow(n)
      BY <1>17, FileFacts DEF WriterDies
    <2>2. /\ spool' \in Seq(Requests) /\ readOff' = readOff
          /\ synced' = synced /\ writeOff' \in Nat
          /\ readOff' <= writeOff' /\ synced' <= Len(spool')
          /\ writeOff' = Len(spool')
      BY <1>0, <2>1, GrowKeepsFile
    <2> QED BY <1>0, <2>0, <2>2, EmptySeq
  <1>18. CASE Drained
    <2>1. /\ Truncate \/ TruncateFails
          /\ writer' = "gone"
          /\ UNCHANGED <<modeVars, queue, batchVars>>
      BY <1>18 DEF Drained
    <2> QED BY <1>0, <2>1, CompactKeepsFile
  <1> QED BY <1>1, <1>2, <1>3, <1>4, <1>5, <1>6, <1>7, <1>8, <1>9, <1>10,
             <1>11, <1>12, <1>13, <1>14, <1>15, <1>16, <1>17, <1>18
          DEF WriterStep, WriterWorks

(* Start, stop and crash leave a well-formed file behind.                  *)
LEMMA ProcessKeepsFile ==
  ASSUME FileInv, ProcessStep
  PROVE  FileInv'
  <1> USE DEF FileInv, ModeTypes, FileTypes, WriterTypes, BatchInFile, Running,
              Writers, modeVars, spoolVars, batchVars
  <1>1. CASE Start
    <2>1. /\ readOff' = 0 /\ writeOff' = Len(spool)
          /\ recovering' = (Len(spool) # 0) /\ accepting' = (Len(spool) = 0)
          /\ writer' = "wait"
          /\ UNCHANGED <<stop, queue, spool, synced, batchVars>>
      BY <1>1 DEF Start
    <2>2. Len(spool) \in Nat
      BY FileFacts
    <2>3. recovering' \in BOOLEAN /\ accepting' \in BOOLEAN
      BY <2>1
    <2>4. ModeTypes'
      BY <2>1, <2>3
    <2>5. FileTypes'
      BY <2>1, <2>2
    <2>6. WriterTypes' /\ BatchInFile'
      BY <2>1
    <2> QED BY <2>4, <2>5, <2>6
  <1>2. CASE RequestStop
    BY <1>2 DEF RequestStop
  <1>3. CASE FinishStop
    <2>1. /\ queue' = <<>> /\ readOff' = 0 /\ writeOff' = 0
          /\ recovering' = FALSE /\ stop' = FALSE /\ accepting' = FALSE
          /\ writer' = "down" /\ UNCHANGED <<spool, synced, batchVars>>
      BY <1>3 DEF FinishStop
    <2>2. <<>> \in Seq(Requests)
      BY EmptySeq
    <2>3. ModeTypes'
      BY <2>1
    <2>4. FileTypes'
      BY <2>1, <2>2
    <2>5. WriterTypes' /\ BatchInFile'
      BY <2>1
    <2> QED BY <2>3, <2>4, <2>5
  <1>4. ASSUME NEW keep, Crash(keep)
        PROVE  FileInv'
    <2>1. /\ queue' = <<>> /\ batch' = <<>> /\ readOff' = 0 /\ writeOff' = 0
          /\ accepting' = FALSE /\ recovering' = FALSE /\ stop' = FALSE
          /\ durableEnd' = 0 /\ batchSynced' = FALSE /\ failures' = 0
          /\ writer' = "down" /\ synced' = synced
      BY <1>4 DEF Crash
    <2>2. keep \in 0..Len(spool) /\ spool' = First(spool, keep) /\ synced <= keep
      BY <1>4, FileFacts DEF Crash
    <2>3. spool' \in Seq(Requests) /\ Len(spool') = keep
      BY <2>2, FileFacts, FirstType
    <2>4. FileTypes'
      BY <2>1, <2>2, <2>3, EmptySeq
    <2>5. WriterTypes' /\ BatchInFile'
      <3>1. <<>> \in Seq(Requests) /\ 0 \in 0..ShutdownRetryLimit
        BY EmptySeq, Limits
      <3> QED BY <2>1, <3>1
    <2> QED BY <2>1, <2>4, <2>5
  <1> QED BY <1>1, <1>2, <1>3, <1>4 DEF ProcessStep

LEMMA FileStep ==
  ASSUME FileInv, [Next]_vars
  PROVE  FileInv'
  <1>1. CASE UNCHANGED vars
    BY <1>1 DEF vars, FileInv, ModeTypes, FileTypes, WriterTypes, BatchInFile,
                Running
  <1> QED BY <1>1, RequestLeavesFile, WriterKeepsFile, ProcessKeepsFile DEF Next
-----------------------------------------------------------------------------
(* Rows, metrics and the insert count.                                     *)

(* OutcomeInv survives a step that adds no row and whose budget and losses *)
(* stay in their types, if the writer ends up with nothing to vouch for.   *)
LEMMA OutcomesUntouched ==
  ASSUME OutcomeInv, UNCHANGED dbVars,
         lost' \subseteq Requests, vanished' \subseteq Requests,
         orphaned' \subseteq Requests, truncFailed' \in BOOLEAN,
         faults' \in 0..MaxFaults, crashes' \in 0..MaxCrashes,
         \/ writer' \notin {"committed", "landed"}
         \/ writer' = writer /\ batch' = batch
  PROVE  OutcomeInv'
  <1>1. rows' = rows /\ metrics' = metrics /\ inserts' = inserts
    BY DEF dbVars
  <1>2. OutcomeTypes' /\ InsertedExactly'
    BY <1>1 DEF OutcomeInv, OutcomeTypes, InsertedExactly
  <1>3. Events(batch)' = {batch'[i] : i \in 1..Len(batch')}
    BY DEF Events
  <1>4. CASE writer' \notin {"committed", "landed"}
    BY <1>2, <1>4 DEF OutcomeInv, BatchRecorded
  <1>5. CASE writer' = writer /\ batch' = batch
    BY <1>1, <1>2, <1>5 DEF OutcomeInv, BatchRecorded, Events
  <1> QED BY <1>4, <1>5

(* A fault stays in the budget.                                            *)
LEMMA FaultInBudget ==
  ASSUME faults \in 0..MaxFaults, Fault
  PROVE  faults' \in 0..MaxFaults
  BY Limits DEF Fault

(* Inserting the fresh events of the batch keeps the count exact.          *)
LEMMA InsertOnce ==
  ASSUME OutcomeInv, batch \in Seq(Requests), InsertBatch
  PROVE  /\ rows' \subseteq Requests /\ rows \subseteq rows'
         /\ Events(batch) \subseteq rows'
         /\ inserts' \in [Requests -> Nat]
         /\ InsertedExactly'
  <1>1. Events(batch) \subseteq Requests
    BY EventsType
  <1>2. /\ rows \subseteq Requests /\ inserts \in [Requests -> Nat]
        /\ \A r \in Requests : inserts[r] = IF r \in rows THEN 1 ELSE 0
    BY DEF OutcomeInv, OutcomeTypes, InsertedExactly
  <1>3. /\ rows' = rows \union Events(batch)
        /\ inserts' = [r \in Requests |->
             IF r \in Events(batch) \ rows THEN inserts[r] + 1 ELSE inserts[r]]
    BY DEF InsertBatch, Fresh
  <1> QED BY <1>1, <1>2, <1>3 DEF InsertedExactly

(* A step of the writer other than Commit, CommitFails, WriteMetrics.      *)
LEMMA QuietWriterKeepsOutcomes ==
  ASSUME FileInv, OutcomeInv,
         \/ ReadSpool \/ DecodeFails \/ PopQueue \/ Reclaim \/ AppendBatch
         \/ AfterAppendError \/ Sync \/ SyncFails \/ MetricsFail
         \/ Advance \/ Drained
         \/ \E n \in 1..BatchSize : Encode(n) \/ DropPoison(n)
         \/ \E n \in 0..BatchSize : AppendFails(n) \/ WriterDies(n)
  PROVE  OutcomeInv'
  <1>0. /\ lost \subseteq Requests /\ vanished \subseteq Requests
        /\ orphaned \subseteq Requests /\ truncFailed \in BOOLEAN
        /\ faults \in 0..MaxFaults /\ crashes \in 0..MaxCrashes
    BY DEF OutcomeInv, OutcomeTypes
  <1>1. CASE \/ ReadSpool \/ DecodeFails \/ PopQueue \/ Reclaim \/ AppendBatch
             \/ AfterAppendError \/ Sync \/ Advance \/ Drained
    <2>1. /\ UNCHANGED dbVars /\ UNCHANGED lossVars
          /\ \/ writer' \notin {"committed", "landed"}
             \/ writer' = writer /\ batch' = batch
      BY <1>1 DEF ReadSpool, DecodeFails, PopQueue, Reclaim, AppendBatch,
         AfterAppendError, Sync, Advance, Drained
    <2>2. \/ UNCHANGED <<truncFailed, faults>>
          \/ Fault /\ truncFailed' \in {truncFailed, TRUE}
      BY <1>1 DEF ReadSpool, DecodeFails, PopQueue, Reclaim, AppendBatch,
         AfterAppendError, Sync, Advance, Drained, Truncate, TruncateFails,
         budgetVars
    <2>3. crashes' = crashes
      BY <1>1 DEF ReadSpool, DecodeFails, PopQueue, Reclaim, AppendBatch,
         AfterAppendError, Sync, Advance, Drained, budgetVars
    <2>4. truncFailed' \in BOOLEAN /\ faults' \in 0..MaxFaults
      BY <1>0, <2>2, FaultInBudget
    <2> QED BY <1>0, <2>1, <2>3, <2>4, OutcomesUntouched DEF lossVars
  <1>2. CASE SyncFails \/ MetricsFail
    <2>1. /\ UNCHANGED dbVars /\ UNCHANGED lossVars /\ Fault
          /\ writer' \in {"gone", "persist"}
          /\ UNCHANGED <<truncFailed, crashes>>
      BY <1>2 DEF SyncFails, MetricsFail, Retry
    <2>2. faults' \in 0..MaxFaults
      BY <1>0, <2>1, FaultInBudget
    <2> QED BY <1>0, <2>1, <2>2, OutcomesUntouched DEF lossVars
  <1>3. ASSUME NEW n \in 1..BatchSize, Encode(n)
        PROVE  OutcomeInv'
    <2>1. UNCHANGED <<dbVars, lossVars, budgetVars>> /\ writer' = "append"
      BY <1>3 DEF Encode
    <2> QED BY <1>0, <2>1, OutcomesUntouched DEF lossVars, budgetVars
  <1>4. ASSUME NEW n \in 1..BatchSize, DropPoison(n)
        PROVE  OutcomeInv'
    <2>1. /\ UNCHANGED <<dbVars, vanished, orphaned, truncFailed, crashes>>
          /\ writer' \in {"wait", "append"} /\ Fault
      BY <1>4 DEF DropPoison
    <2>2. lost' = lost \union {batch[n]} /\ n \in 1..Len(batch)
      BY <1>4 DEF DropPoison
    <2>3. lost' \subseteq Requests
      BY <1>0, <2>2, FileFacts, ElementOfSeq
    <2>4. faults' \in 0..MaxFaults
      BY <1>0, <2>1, FaultInBudget
    <2> QED BY <1>0, <2>1, <2>3, <2>4, OutcomesUntouched
  <1>5. ASSUME NEW n \in 0..BatchSize, AppendFails(n)
        PROVE  OutcomeInv'
    <2>1. /\ UNCHANGED <<dbVars, lossVars, truncFailed, crashes>>
          /\ writer' = "errwait" /\ (Fault \/ UNCHANGED faults)
      BY <1>5 DEF AppendFails
    <2>2. faults' \in 0..MaxFaults
      BY <1>0, <2>1, FaultInBudget
    <2> QED BY <1>0, <2>1, <2>2, OutcomesUntouched DEF lossVars
  <1>6. ASSUME NEW n \in 0..BatchSize, WriterDies(n)
        PROVE  OutcomeInv'
    <2>1. /\ UNCHANGED <<dbVars, lost, vanished, truncFailed, crashes>>
          /\ writer' = "gone" /\ Fault
      BY <1>6 DEF WriterDies
    <2>2. orphaned' = orphaned \union Events(After(InHand, n))
      BY <1>6 DEF WriterDies
    <2>3. n \in 0..Len(InHand) \/ InHand = <<>>
      BY <1>6, FileFacts DEF WriterDies, InHand, ReadyToWrite
    <2>4. InHand \in Seq(Requests)
      BY FileFacts, EmptySeq DEF InHand
    <2>5. Events(After(InHand, n)) \subseteq Requests
      <3>1. CASE n \in 0..Len(InHand)
        BY <2>4, <3>1, AfterType, EventsType
      <3>2. CASE InHand = <<>>
        <4>1. Len(InHand) = 0 /\ n + 1 \in Int /\ 0 < n + 1
          BY <3>2, EmptySeq
        <4>2. After(InHand, n) = <<>>
          BY <4>1, SubSeqEmpty DEF After
        <4> QED BY <4>2, EmptySeq, EventsType
      <3> QED BY <2>3, <3>1, <3>2
    <2>6. faults' \in 0..MaxFaults
      BY <1>0, <2>1, FaultInBudget
    <2> QED BY <1>0, <2>1, <2>2, <2>5, <2>6, OutcomesUntouched
  <1> QED BY <1>1, <1>2, <1>3, <1>4, <1>5, <1>6

(* The transaction and its follow-up.                                      *)
LEMMA CommitKeepsOutcomes ==
  ASSUME FileInv, OutcomeInv, Commit \/ CommitFails \/ WriteMetrics
  PROVE  OutcomeInv'
  <1>0. /\ OutcomeTypes /\ InsertedExactly /\ BatchRecorded
        /\ batch \in Seq(Requests)
    BY FileFacts DEF OutcomeInv
  <1>1. CASE Commit
    <2>1. /\ writer' = "committed" /\ batch' = batch /\ metrics' = metrics
          /\ InsertBatch /\ UNCHANGED <<lossVars, budgetVars>>
      BY <1>1 DEF Commit, batchVars
    <2>2. /\ rows' \subseteq Requests /\ rows \subseteq rows'
          /\ Events(batch) \subseteq rows'
          /\ inserts' \in [Requests -> Nat] /\ InsertedExactly'
      BY <1>0, <2>1, InsertOnce
    <2>3. OutcomeTypes'
      BY <1>0, <2>1, <2>2 DEF OutcomeTypes, lossVars, budgetVars
    <2>4. Events(batch)' = Events(batch)
      BY <2>1 DEF Events
    <2> QED BY <2>1, <2>2, <2>3, <2>4 DEF OutcomeInv, BatchRecorded
  <1>2. CASE CommitFails
    <2>1. /\ writer' \in {"gone", "persist"} /\ metrics' = metrics
          /\ InsertBatch \/ UNCHANGED <<rows, inserts>>
          /\ Fault /\ UNCHANGED <<lossVars, truncFailed, crashes>>
      BY <1>2 DEF CommitFails, Retry
    <2>2. faults' \in 0..MaxFaults
      BY <1>0, <2>1, FaultInBudget DEF OutcomeTypes
    <2>3. /\ rows' \subseteq Requests /\ rows \subseteq rows'
          /\ inserts' \in [Requests -> Nat] /\ InsertedExactly'
      <3>1. CASE InsertBatch
        BY <1>0, <3>1, InsertOnce
      <3>2. CASE UNCHANGED <<rows, inserts>>
        BY <1>0, <3>2 DEF OutcomeTypes, InsertedExactly
      <3> QED BY <2>1, <3>1, <3>2
    <2>4. OutcomeTypes'
      BY <1>0, <2>1, <2>2, <2>3 DEF OutcomeTypes, lossVars
    <2> QED BY <2>1, <2>3, <2>4 DEF OutcomeInv, BatchRecorded
  <1>3. CASE WriteMetrics
    <2>1. /\ writer = "committed" /\ writer' = "landed" /\ batch' = batch
          /\ metrics' = metrics \union Events(batch)
          /\ rows' = rows /\ inserts' = inserts
          /\ UNCHANGED <<lossVars, budgetVars>>
      BY <1>3 DEF WriteMetrics, batchVars
    <2>2. Events(batch) \subseteq rows
      BY <1>0, <2>1 DEF BatchRecorded
    <2>3. OutcomeTypes' /\ InsertedExactly'
      BY <1>0, <2>1, <2>2
         DEF OutcomeTypes, InsertedExactly, lossVars, budgetVars
    <2>4. Events(batch)' = Events(batch)
      BY <2>1 DEF Events
    <2> QED BY <2>1, <2>2, <2>3, <2>4 DEF OutcomeInv, BatchRecorded
  <1> QED BY <1>1, <1>2, <1>3

LEMMA OutcomeStep ==
  ASSUME FileInv, OutcomeInv, [Next]_vars
  PROVE  OutcomeInv'
  <1>0. /\ lost \subseteq Requests /\ vanished \subseteq Requests
        /\ orphaned \subseteq Requests /\ truncFailed \in BOOLEAN
        /\ faults \in 0..MaxFaults /\ crashes \in 0..MaxCrashes
    BY DEF OutcomeInv, OutcomeTypes
  <1>1. ASSUME NEW r \in Requests, RequestStep(r)
        PROVE  OutcomeInv'
    <2>1. /\ UNCHANGED <<dbVars, lossVars, truncFailed, crashes, writer, batch>>
          /\ Fault \/ UNCHANGED faults
      BY <1>1 DEF RequestStep, Reserve, Refuse, MarkUpstreamStarted,
         LogRequest, Enqueue, Abandon, LogRejected, BuildFails, writerSide,
         batchVars
    <2>2. faults' \in 0..MaxFaults
      BY <1>0, <2>1, FaultInBudget
    <2> QED BY <1>0, <2>1, <2>2, OutcomesUntouched DEF lossVars
  <1>2. CASE WriterStep
    BY <1>2, QuietWriterKeepsOutcomes, CommitKeepsOutcomes DEF WriterStep, WriterWorks
  <1>3. CASE Start \/ RequestStop
    <2>1. /\ UNCHANGED <<dbVars, lossVars, budgetVars>>
          /\ \/ writer' = "wait"
             \/ writer' = writer /\ batch' = batch
      BY <1>3 DEF Start, RequestStop, batchVars
    <2> QED BY <1>0, <2>1, OutcomesUntouched DEF lossVars, budgetVars
  <1>4. CASE FinishStop
    <2>1. /\ UNCHANGED <<dbVars, vanished, orphaned, budgetVars>>
          /\ lost' = lost \union Events(queue) /\ writer' = "down"
      BY <1>4 DEF FinishStop, LeftOver
    <2>2. lost' \subseteq Requests
      BY <1>0, <2>1, FileFacts, EventsType
    <2> QED BY <1>0, <2>1, <2>2, OutcomesUntouched DEF budgetVars
  <1>5. ASSUME NEW keep, Crash(keep)
        PROVE  OutcomeInv'
    <2>1. /\ UNCHANGED <<dbVars, lost, orphaned, truncFailed, faults>>
          /\ crashes' = crashes + 1 /\ crashes < MaxCrashes
          /\ writer' = "down"
      BY <1>5 DEF Crash
    <2>2. vanished' \subseteq Requests
      BY <1>0, <1>5 DEF Crash, Accepted
    <2>3. crashes' \in 0..MaxCrashes
      BY <1>0, <2>1, Limits
    <2> QED BY <1>0, <2>1, <2>2, <2>3, OutcomesUntouched
  <1>6. CASE UNCHANGED vars
    BY <1>0, <1>6, OutcomesUntouched DEF vars, dbVars
  <1> QED BY <1>1, <1>2, <1>3, <1>4, <1>5, <1>6 DEF Next, ProcessStep
-----------------------------------------------------------------------------
(* The theorems.                                                           *)

LEMMA InitIInv == Init => IInv
  <1> SUFFICES ASSUME Init PROVE IInv
    OBVIOUS
  <1>1. Live = {} /\ <<>> \in Seq(Requests) /\ Len(<<>>) = 0
    BY EmptySeq DEF Init, Live
  <1>0. /\ 0 \in 0..ShutdownRetryLimit /\ 0 \in 0..MaxFaults
        /\ 0 \in 0..MaxCrashes
    BY Limits
  <1>2. TokenInv
    BY <1>1, FS_EmptySet
       DEF Init, TokenInv, TokenTypes, SlotsConserved, Quiet, Phases
  <1>3. FileInv
    <2>1. ModeTypes
      BY DEF Init, ModeTypes
    <2>2. FileTypes
      BY <1>1 DEF Init, FileTypes, Running
    <2>3. WriterTypes /\ BatchInFile
      BY <1>0, <1>1 DEF Init, WriterTypes, BatchInFile, Writers
    <2> QED BY <2>1, <2>2, <2>3 DEF FileInv
  <1>4. OutcomeInv
    <2>1. OutcomeTypes
      BY <1>0 DEF Init, OutcomeTypes
    <2>2. BatchRecorded
      BY DEF Init, BatchRecorded
    <2>3. InsertedExactly
      BY DEF Init, InsertedExactly
    <2> QED BY <2>1, <2>2, <2>3 DEF OutcomeInv
  <1> QED BY <1>2, <1>3, <1>4 DEF IInv

LEMMA NextIInv == IInv /\ [Next]_vars => IInv'
  BY TokenStep, FileStep, OutcomeStep DEF IInv

LEMMA AlwaysIInv == Spec => []IInv
  BY InitIInv, NextIInv, PTL DEF Spec

(* Types hold, offsets point into the file and retries stay in their limit *)
(* whatever the limits, the faults and the crashes (TypeOK).               *)
THEOREM TypeCorrect == Spec => []TypeOK
  <1>1. IInv => TypeOK
    BY DEF IInv, TokenInv, FileInv, OutcomeInv, TypeOK
  <1> QED BY <1>1, AlwaysIInv, PTL

(* The slot counter is exact on every path: a slot is neither leaked nor   *)
(* given back twice (UsageReservation and reserve_usage_event).            *)
THEOREM SlotsAreConserved == Spec => []SlotsConserved
  <1>1. IInv => SlotsConserved
    BY DEF IInv, TokenInv
  <1> QED BY <1>1, AlwaysIInv, PTL

(* An event is inserted in request_log at most once over all retries,      *)
(* unknown commits, crashes and replays (write_log_record_in_transaction). *)
THEOREM EventsInsertedOnce == Spec => []InsertedOnce
  <1>1. IInv => InsertedOnce
    BY DEF IInv, OutcomeInv, InsertedExactly, InsertedOnce
  <1> QED BY <1>1, AlwaysIInv, PTL

-----------------------------------------------------------------------------
(* No accepted event disappears: it always has a row, a place in memory or *)
(* in the spool, or is counted as lost.                                    *)

(* Where an accepted event may be.                                         *)
Known ==
  rows \union Events(queue) \union Events(InHand) \union Events(spool)
       \union lost \union vanished \union orphaned

(* The writer takes live events only when the file is read to its end, and *)
(* a batch on its way to SQLite holds every frame up to durable_end that   *)
(* has not landed yet: this is why moving the offset forgets nothing.      *)
BatchFromFile ==
  /\ writer \in {"encode", "append", "write"} => readOff = writeOff
  /\ writer \in {"persist", "committed", "landed"} =>
       Events(First(spool, durableEnd)) \subseteq metrics \union Events(batch)

LossInv == PassedFramesLanded /\ BatchFromFile /\ NothingLostSilently
-----------------------------------------------------------------------------
(* The whole of a sequence.                                                *)
LEMMA FirstAll ==
  ASSUME NEW s \in Seq(Requests)
  PROVE  First(s, Len(s)) = s
  BY SubSeqFull DEF First

(* Nothing of a sequence.                                                  *)
LEMMA NoEvents ==
  /\ Events(<<>>) = {}
  /\ \A s \in Seq(Requests) : Events(First(s, 0)) = {}
  <1>1. Events(<<>>) = {}
    BY EmptySeq DEF Events
  <1>2. ASSUME NEW s \in Seq(Requests)
        PROVE  Events(First(s, 0)) = {}
    <2>1. 0 \in 0..Len(s)
      BY LenProperties
    <2>2. Len(First(s, 0)) = 0
      BY <2>1, FirstType
    <2> QED BY <2>2 DEF Events
  <1> QED BY <1>1, <1>2

(* Frames added behind an offset do not change what is before it.          *)
LEMMA FirstOfConcat ==
  ASSUME NEW s \in Seq(Requests), NEW t \in Seq(Requests), NEW n \in 0..Len(s)
  PROVE  Events(First(s \o t, n)) = Events(First(s, n))
  <1> DEFINE u == s \o t
  <1>1. /\ u \in Seq(Requests) /\ Len(u) = Len(s) + Len(t)
        /\ \A i \in 1..(Len(s) + Len(t)) :
             u[i] = IF i <= Len(s) THEN s[i] ELSE t[i - Len(s)]
    BY ConcatProperties
  <1>2. Len(s) \in Nat /\ Len(t) \in Nat
    BY LenProperties
  <1> HIDE DEF u
  <1>3. n \in 0..Len(u)
    BY <1>1, <1>2
  <1>4. /\ Len(First(u, n)) = n /\ Len(First(s, n)) = n
        /\ \A i \in 1..n : First(u, n)[i] = u[i]
        /\ \A i \in 1..n : First(s, n)[i] = s[i]
    BY <1>1, <1>3, FirstType
  <1>5. \A i \in 1..n : u[i] = s[i]
    BY <1>1, <1>2
  <1>6. \A i \in 1..n : First(u, n)[i] = First(s, n)[i]
    BY <1>4, <1>5
  <1>7. Events(First(u, n)) = Events(First(s, n))
    BY <1>4, <1>6 DEF Events
  <1> QED BY <1>7 DEF u

(* When the read offset is at the end of the file, the file has landed.    *)
LEMMA ReadFileLanded ==
  ASSUME IInv, PassedFramesLanded, Running, readOff = writeOff
  PROVE  Events(spool) \subseteq metrics /\ Events(spool) \subseteq rows
  <1>1. spool \in Seq(Requests) /\ writeOff = Len(spool)
    BY FileFacts DEF IInv
  <1>2. First(spool, readOff) = spool
    BY <1>1, FirstAll
  <1>3. metrics \subseteq rows
    BY DEF IInv, OutcomeInv, OutcomeTypes
  <1> QED BY <1>2, <1>3 DEF PassedFramesLanded

(* Compaction of a file whose frames have all landed.                      *)
LEMMA CompactForgetsNothing ==
  ASSUME IInv, Running, Events(spool) \subseteq metrics, metrics' = metrics,
         Truncate \/ TruncateFails
  PROVE  /\ PassedFramesLanded'
         /\ Events(spool) \subseteq rows
         /\ readOff' = writeOff'
  <1>1. spool \in Seq(Requests) /\ writeOff = Len(spool)
    BY FileFacts DEF IInv
  <1>2. metrics \subseteq rows
    BY DEF IInv, OutcomeInv, OutcomeTypes
  <1>3. CASE Truncate
    <2>1. spool' = <<>> /\ readOff' = 0 /\ writeOff' = 0
      BY <1>3 DEF Truncate
    <2>2. Events(First(<<>>, 0)) = {}
      BY EmptySeq, NoEvents
    <2>3. Events(First(spool', readOff')) = {}
      BY <2>1, <2>2
    <2>4. PassedFramesLanded'
      BY <2>3 DEF PassedFramesLanded, Events, First
    <2> QED BY <1>2, <2>1, <2>4
  <1>4. CASE TruncateFails
    <2>1. spool' = spool /\ readOff' = writeOff /\ writeOff' = writeOff
      BY <1>4 DEF TruncateFails
    <2>2. First(spool', readOff') = spool
      BY <1>1, <2>1, FirstAll
    <2>3. Events(First(spool', readOff')) \subseteq metrics'
      BY <2>2
    <2>4. PassedFramesLanded'
      BY <2>3 DEF PassedFramesLanded, Events, First
    <2> QED BY <1>2, <2>1, <2>4
  <1> QED BY <1>3, <1>4

(* Frames added behind the read offset.                                    *)
LEMMA GrowForgetsNothing ==
  ASSUME IInv, Running, NEW n \in 0..Len(batch), Grow(n), metrics' = metrics,
         PassedFramesLanded
  PROVE  /\ PassedFramesLanded'
         /\ Events(spool') = Events(spool) \union Events(First(batch, n))
  <1>1. /\ spool \in Seq(Requests) /\ batch \in Seq(Requests)
        /\ readOff \in 0..Len(spool)
    BY FileFacts DEF IInv
  <1>2. First(batch, n) \in Seq(Requests)
    BY <1>1, FirstType
  <1>3. spool' = spool \o First(batch, n) /\ readOff' = readOff
    BY DEF Grow
  <1>4. Events(spool \o First(batch, n)) =
          Events(spool) \union Events(First(batch, n))
    BY <1>1, <1>2, EventsConcat
  <1>5. Events(First(spool \o First(batch, n), readOff)) =
          Events(First(spool, readOff))
    BY <1>1, <1>2, FirstOfConcat
  <1>6. PassedFramesLanded'
    BY <1>3, <1>5 DEF PassedFramesLanded, Events, First
  <1>7. Events(spool') = Events(spool \o First(batch, n))
    BY <1>3
  <1> QED BY <1>4, <1>6, <1>7
-----------------------------------------------------------------------------
(* What lies before an offset is what lies before an earlier one and the   *)
(* slice between the two.                                                  *)
LEMMA SliceCovers ==
  ASSUME NEW s \in Seq(Requests), NEW m \in 0..Len(s), NEW n \in 0..Len(s)
  PROVE  Events(First(s, n)) \subseteq
           Events(First(s, m)) \union Events(SubSeq(s, m + 1, n))
  <1> DEFINE b == SubSeq(s, m + 1, n)
  <1>0. Len(s) \in Nat
    BY LenProperties
  <1>1. \A i \in (m + 1)..n : s[i] \in Requests
    BY <1>0, ElementOfSeq
  <1>2. m + 1 \in Int /\ n \in Int
    BY <1>0
  <1>3. /\ Len(b) = IF m + 1 <= n THEN n - (m + 1) + 1 ELSE 0
        /\ \A i \in 1..(n - (m + 1) + 1) : b[i] = s[(m + 1) + i - 1]
    BY <1>1, <1>2, SubSeqProperties
  <1> HIDE DEF b
  <1>4. /\ Len(First(s, n)) = n
        /\ \A i \in 1..n : First(s, n)[i] = s[i]
    BY FirstType
  <1>5. /\ Len(First(s, m)) = m
        /\ \A i \in 1..m : First(s, m)[i] = s[i]
    BY FirstType
  <1>6. ASSUME NEW i \in 1..n
        PROVE  s[i] \in Events(First(s, m)) \union Events(b)
    <2>1. CASE i <= m
      <3>1. i \in 1..m
        BY <1>0, <2>1
      <3> QED BY <3>1, <1>5 DEF Events
    <2>2. CASE ~(i <= m)
      <3>1. /\ i - m \in 1..(n - (m + 1) + 1)
            /\ (m + 1) + (i - m) - 1 = i
            /\ m + 1 <= n
        BY <1>0, <2>2
      <3>2. b[i - m] = s[i] /\ i - m \in 1..Len(b)
        BY <1>3, <3>1
      <3> QED BY <3>2 DEF Events
    <2> QED BY <1>0, <2>1, <2>2
  <1>7. Events(First(s, n)) \subseteq Events(First(s, m)) \union Events(b)
    BY <1>4, <1>6 DEF Events
  <1> QED BY <1>7 DEF b

(* Known in the next state.                                                *)
LEMMA KnownNext ==
  Known' = rows' \union Events(queue') \union Events(InHand')
                \union Events(spool') \union lost' \union vanished'
                \union orphaned'
  BY DEF Known, Events

(* Steps that move neither a frame nor the read offset.                    *)
LEMMA PassedStays ==
  ASSUME PassedFramesLanded, spool' = spool, readOff' = readOff,
         metrics \subseteq metrics'
  PROVE  PassedFramesLanded'
  BY DEF PassedFramesLanded, Events, First

LEMMA BatchStays ==
  ASSUME BatchFromFile, metrics' = metrics, spool' = spool, batch' = batch,
         readOff' = readOff, writeOff' = writeOff, writer' = writer,
         durableEnd' = durableEnd
  PROVE  BatchFromFile'
  <1>1. Events(First(spool, durableEnd))' = Events(First(spool, durableEnd))
    BY DEF Events, First
  <1>2. Events(batch)' = Events(batch)
    BY DEF Events
  <1>3. writer \in {"encode", "append", "write"} => readOff = writeOff
    BY DEF BatchFromFile
  <1>4. writer \in {"persist", "committed", "landed"} =>
          Events(First(spool, durableEnd)) \subseteq metrics \union Events(batch)
    BY DEF BatchFromFile
  <1> QED BY <1>1, <1>2, <1>3, <1>4 DEF BatchFromFile

(* The facts every step uses.                                              *)
LEMMA LossFacts ==
  ASSUME IInv
  PROVE  /\ queue \in Seq(Requests) /\ spool \in Seq(Requests)
         /\ batch \in Seq(Requests)
         /\ readOff \in Nat /\ writeOff \in Nat /\ durableEnd \in Nat
         /\ readOff <= writeOff
         /\ (Running => writeOff = Len(spool))
         /\ Len(spool) \in Nat /\ Len(batch) \in Nat /\ Len(queue) \in Nat
         /\ metrics \subseteq rows
  BY FileFacts DEF IInv, OutcomeInv, OutcomeTypes

(* Taking work: from the file, from the queue, and cutting a batch short.  *)
LEMMA TakeStep ==
  ASSUME IInv, LossInv,
         \/ ReadSpool \/ PopQueue
         \/ \E n \in 1..BatchSize : Encode(n) \/ DropPoison(n)
  PROVE  PassedFramesLanded' /\ BatchFromFile' /\ Known \subseteq Known'
  <1> USE LossFacts
  <1>1. CASE ReadSpool
    <2>1. /\ writer = "wait" /\ writer' = "persist" /\ Running
          /\ durableEnd' = Least(readOff + BatchSize, writeOff)
          /\ batch' = SubSeq(spool, readOff + 1, durableEnd')
          /\ UNCHANGED <<queue, spool, readOff, dbVars, lossVars>>
      BY <1>1 DEF ReadSpool, spoolVars, Running
    <2>2. durableEnd' \in Nat /\ durableEnd' <= Len(spool)
      BY <2>1, Limits DEF Least
    <2>3. PassedFramesLanded'
      BY <2>1, PassedStays DEF LossInv, dbVars
    <2>4. Known' = Known
      BY <2>1 DEF Known, InHand, dbVars, lossVars, Events
    <2>5. Events(First(spool, durableEnd')) \subseteq metrics \union Events(batch')
      <3> DEFINE de == durableEnd'
      <3>1. de \in 0..Len(spool) /\ readOff \in 0..Len(spool)
        BY <2>1, <2>2
      <3> HIDE DEF de
      <3>2. Events(First(spool, de)) \subseteq
              Events(First(spool, readOff))
                \union Events(SubSeq(spool, readOff + 1, de))
        BY <3>1, SliceCovers
      <3>3. Events(First(spool, readOff)) \subseteq metrics
        BY DEF LossInv, PassedFramesLanded
      <3>4. batch' = SubSeq(spool, readOff + 1, de)
        BY <2>1 DEF de
      <3>5. Events(First(spool, de)) \subseteq metrics \union Events(batch')
        BY <3>2, <3>3, <3>4
      <3> QED BY <3>5 DEF de
    <2>6. BatchFromFile'
      BY <2>1, <2>5, ZenonT(40) DEF BatchFromFile, Events, First, dbVars
    <2> QED BY <2>3, <2>4, <2>6
  <1>2. CASE PopQueue
    <2> DEFINE n == Least(BatchSize, Len(queue))
    <2>1. /\ writer = "wait" /\ writer' = "encode" /\ readOff = writeOff
          /\ batch' = First(queue, n) /\ queue' = After(queue, n)
          /\ UNCHANGED <<spool, readOff, writeOff, dbVars, lossVars>>
      BY <1>2 DEF PopQueue, spoolVars
    <2>2. n \in 0..Len(queue)
      BY Limits DEF Least
    <2> HIDE DEF n
    <2>3. Events(queue) = Events(First(queue, n)) \union Events(After(queue, n))
      BY <2>2, EventsSplit
    <2>4. Events(queue) = Events(batch') \union Events(queue')
      BY <2>1, <2>3
    <2>5. InHand = <<>> /\ InHand' = batch'
      BY <2>1 DEF InHand
    <2>6. Known' = Known
      BY <2>1, <2>4, <2>5, NoEvents, KnownNext DEF Known, dbVars, lossVars
    <2>7. BatchFromFile'
      BY <2>1 DEF BatchFromFile
    <2>8. PassedFramesLanded'
      BY <2>1, PassedStays DEF LossInv, dbVars
    <2> QED BY <2>6, <2>7, <2>8
  <1>3. ASSUME NEW n \in 1..BatchSize, Encode(n)
        PROVE  PassedFramesLanded' /\ BatchFromFile' /\ Known \subseteq Known'
    <2>1. /\ writer = "encode" /\ writer' = "append" /\ n \in 0..Len(batch)
          /\ batch' = First(batch, n) /\ queue' = After(batch, n) \o queue
          /\ UNCHANGED <<spool, readOff, writeOff, dbVars, lossVars>>
      BY <1>3 DEF Encode, spoolVars
    <2>2. Events(batch) = Events(First(batch, n)) \union Events(After(batch, n))
      BY <2>1, EventsSplit
    <2>3. Events(After(batch, n) \o queue) =
            Events(After(batch, n)) \union Events(queue)
      BY <2>1, AfterType, EventsConcat
    <2>4. Events(batch) \union Events(queue) = Events(batch') \union Events(queue')
      BY <2>1, <2>2, <2>3
    <2>5. InHand = batch /\ InHand' = batch'
      BY <2>1 DEF InHand
    <2>6. Known' = Known
      BY <2>1, <2>4, <2>5, KnownNext DEF Known, dbVars, lossVars
    <2>7. BatchFromFile'
      BY <2>1 DEF BatchFromFile, LossInv
    <2>8. PassedFramesLanded'
      BY <2>1, PassedStays DEF LossInv, dbVars
    <2> QED BY <2>6, <2>7, <2>8
  <1>4. ASSUME NEW n \in 1..BatchSize, DropPoison(n)
        PROVE  PassedFramesLanded' /\ BatchFromFile' /\ Known \subseteq Known'
    <2>1. /\ writer = "encode" /\ n \in 1..Len(batch)
          /\ n \in 0..Len(batch) /\ n - 1 \in 0..Len(batch)
          /\ writer' = IF n = 1 THEN "wait" ELSE "append"
          /\ batch' = First(batch, n - 1) /\ queue' = After(batch, n) \o queue
          /\ lost' = lost \union {batch[n]}
          /\ UNCHANGED <<spool, readOff, writeOff, dbVars, vanished, orphaned>>
      BY <1>4 DEF DropPoison, spoolVars
    <2>2. Events(batch) = Events(First(batch, n)) \union Events(After(batch, n))
      BY <2>1, EventsSplit
    <2>3. Events(First(batch, n)) \subseteq
            Events(First(batch, n - 1)) \union {batch[n]}
      <3>1. /\ Len(First(batch, n)) = n
            /\ \A i \in 1..n : First(batch, n)[i] = batch[i]
        BY <2>1, FirstType
      <3>2. /\ Len(First(batch, n - 1)) = n - 1
            /\ \A i \in 1..(n - 1) : First(batch, n - 1)[i] = batch[i]
        BY <2>1, FirstType
      <3>3. ASSUME NEW i \in 1..n
            PROVE  batch[i] \in Events(First(batch, n - 1)) \union {batch[n]}
        <4>1. CASE i = n
          BY <4>1
        <4>2. CASE i # n
          <5>1. i \in 1..(n - 1)
            BY <4>2
          <5> QED BY <5>1, <3>2 DEF Events
        <4> QED BY <4>1, <4>2
      <3> QED BY <3>1, <3>3 DEF Events
    <2>4. Events(After(batch, n) \o queue) =
            Events(After(batch, n)) \union Events(queue)
      BY <2>1, AfterType, EventsConcat
    <2>5. Events(batch) \union Events(queue)
            \subseteq Events(batch') \union Events(queue') \union {batch[n]}
      BY <2>1, <2>2, <2>3, <2>4
    <2>6. InHand = batch
      BY <2>1 DEF InHand
    <2>7. Events(batch') \subseteq Events(InHand')
      <3>1. CASE n = 1
        <4>1. Events(First(batch, 0)) = {}
          BY NoEvents
        <4>2. batch' = First(batch, 0)
          BY <2>1, <3>1
        <4>3. Events(batch') = {}
          BY <4>1, <4>2
        <4> QED BY <4>3
      <3>2. CASE n # 1
        <4>1. InHand' = batch'
          BY <2>1, <3>2 DEF InHand
        <4> QED BY <4>1
      <3> QED BY <3>1, <3>2
    <2>8. Known \subseteq Known'
      <3>1. /\ rows' = rows /\ spool' = spool /\ vanished' = vanished
            /\ orphaned' = orphaned /\ lost' = lost \union {batch[n]}
        BY <2>1 DEF dbVars
      <3> QED BY <2>5, <2>6, <2>7, <3>1, KnownNext DEF Known
    <2>9. BatchFromFile'
      BY <2>1 DEF BatchFromFile, LossInv
    <2>10. PassedFramesLanded'
      BY <2>1, PassedStays DEF LossInv, dbVars
    <2> QED BY <2>8, <2>9, <2>10
  <1> QED BY <1>1, <1>2, <1>3, <1>4

(* Appending to the file, or failing to.                                   *)
LEMMA AppendStep ==
  ASSUME IInv, LossInv,
         \/ Reclaim \/ AppendBatch
         \/ \E n \in 0..BatchSize : AppendFails(n) \/ WriterDies(n)
  PROVE  PassedFramesLanded' /\ BatchFromFile' /\ Known \subseteq Known'
  <1> USE LossFacts
  <1>1. CASE Reclaim
    <2>1. /\ writer = "append" /\ writer' = "write" /\ readOff = writeOff
          /\ Running
          /\ Truncate \/ TruncateFails
          /\ UNCHANGED <<queue, batch, dbVars, lossVars>>
      BY <1>1 DEF Reclaim, MustReclaim, batchVars, Running
    <2>2. Events(spool) \subseteq metrics
      BY <2>1, ReadFileLanded DEF LossInv
    <2>3. /\ PassedFramesLanded' /\ readOff' = writeOff'
          /\ Events(spool) \subseteq rows
      BY <2>1, <2>2, CompactForgetsNothing DEF dbVars
    <2>4. InHand = batch /\ InHand' = batch
      BY <2>1 DEF InHand
    <2>5. Known \subseteq Known'
      <3>1. rows' = rows /\ queue' = queue /\ UNCHANGED lossVars
        BY <2>1 DEF dbVars
      <3> QED BY <2>3, <2>4, <3>1, KnownNext DEF Known, lossVars
    <2>6. BatchFromFile'
      BY <2>1, <2>3 DEF BatchFromFile
    <2> QED BY <2>3, <2>5, <2>6
  <1>2. CASE AppendBatch
    <2>1. /\ writer \in {"append", "write"} /\ writer' = "persist" /\ Running
          /\ Grow(Len(batch)) /\ durableEnd' = writeOff'
          /\ UNCHANGED <<queue, batch, dbVars, lossVars>>
      BY <1>2 DEF AppendBatch, ReadyToWrite, Running
    <2>2. readOff = writeOff
      BY <2>1 DEF LossInv, BatchFromFile
    <2>3. Events(spool) \subseteq metrics
      BY <2>1, <2>2, ReadFileLanded DEF LossInv
    <2>4. Len(batch) \in 0..Len(batch) /\ First(batch, Len(batch)) = batch
      BY FirstAll
    <2>5. /\ PassedFramesLanded'
          /\ Events(spool') = Events(spool) \union Events(batch)
      BY <2>1, <2>4, GrowForgetsNothing DEF LossInv, dbVars
    <2>6. spool' \in Seq(Requests) /\ writeOff' = Len(spool')
      BY <2>1, <2>4, GrowKeepsFile DEF IInv
    <2>7. First(spool', durableEnd') = spool'
      BY <2>1, <2>6, FirstAll
    <2>8. Events(First(spool', durableEnd')) \subseteq metrics' \union Events(batch')
      BY <2>1, <2>3, <2>5, <2>7 DEF dbVars
    <2>9. BatchFromFile'
      BY <2>1, <2>8 DEF BatchFromFile, Events, First
    <2>10. InHand = batch /\ InHand' = <<>>
      BY <2>1 DEF InHand
    <2>11. Known \subseteq Known'
      <3>1. rows' = rows /\ queue' = queue /\ UNCHANGED lossVars
        BY <2>1 DEF dbVars
      <3> QED BY <2>5, <2>10, <3>1, KnownNext DEF Known, lossVars
    <2> QED BY <2>5, <2>9, <2>11
  <1>3. ASSUME NEW n \in 0..BatchSize, AppendFails(n)
        PROVE  PassedFramesLanded' /\ BatchFromFile' /\ Known \subseteq Known'
    <2>1. /\ writer \in {"append", "write"} /\ writer' = "errwait" /\ Running
          /\ n \in 0..Len(batch) /\ Grow(n)
          /\ queue' = After(batch, n) \o queue
          /\ UNCHANGED <<dbVars, lossVars>>
      BY <1>3 DEF AppendFails, Requeue, ReadyToWrite, Running
    <2>2. /\ PassedFramesLanded'
          /\ Events(spool') = Events(spool) \union Events(First(batch, n))
      BY <2>1, GrowForgetsNothing DEF LossInv, dbVars
    <2>3. Events(batch) = Events(First(batch, n)) \union Events(After(batch, n))
      BY <2>1, EventsSplit
    <2>4. Events(After(batch, n) \o queue) =
            Events(After(batch, n)) \union Events(queue)
      BY <2>1, AfterType, EventsConcat
    <2>5. Events(queue') = Events(After(batch, n)) \union Events(queue)
      BY <2>1, <2>4
    <2>6. InHand = batch
      BY <2>1 DEF InHand
    <2>7. Known \subseteq Known'
      <3>1. rows' = rows /\ UNCHANGED lossVars
        BY <2>1 DEF dbVars
      <3> QED BY <2>2, <2>3, <2>5, <2>6, <3>1, KnownNext DEF Known, lossVars
    <2>8. BatchFromFile'
      BY <2>1 DEF BatchFromFile
    <2> QED BY <2>2, <2>7, <2>8
  <1>4. ASSUME NEW n \in 0..BatchSize, WriterDies(n)
        PROVE  PassedFramesLanded' /\ BatchFromFile' /\ Known \subseteq Known'
    <2>1. /\ writer' = "gone" /\ Running /\ n \in 0..Len(batch) /\ Grow(n)
          /\ orphaned' = orphaned \union Events(After(InHand, n))
          /\ UNCHANGED <<queue, dbVars, lost, vanished>>
      BY <1>4 DEF WriterDies, ReadyToWrite, Running
    <2>2. /\ PassedFramesLanded'
          /\ Events(spool') = Events(spool) \union Events(First(batch, n))
      BY <2>1, GrowForgetsNothing DEF LossInv, dbVars
    <2>3. Events(InHand) \subseteq Events(spool') \union orphaned'
      <3>1. CASE InHand = batch
        <4>1. Events(batch) =
                Events(First(batch, n)) \union Events(After(batch, n))
          BY <2>1, EventsSplit
        <4> QED BY <2>1, <2>2, <3>1, <4>1
      <3>2. CASE InHand = <<>>
        BY <3>2, NoEvents
      <3> QED BY <3>1, <3>2 DEF InHand
    <2>4. Known \subseteq Known'
      <3>1. /\ rows' = rows /\ queue' = queue /\ lost' = lost
            /\ vanished' = vanished /\ orphaned \subseteq orphaned'
        BY <2>1 DEF dbVars
      <3> QED BY <2>2, <2>3, <3>1, KnownNext DEF Known
    <2>5. BatchFromFile'
      BY <2>1 DEF BatchFromFile
    <2> QED BY <2>2, <2>4, <2>5
  <1> QED BY <1>1, <1>2, <1>3, <1>4

(* Waiting, retrying, committing, moving the read offset.                  *)
LEMMA CommitStep ==
  ASSUME IInv, LossInv,
         \/ DecodeFails \/ AfterAppendError \/ Sync \/ SyncFails \/ Commit
         \/ CommitFails \/ WriteMetrics \/ MetricsFail \/ Advance \/ Drained
  PROVE  PassedFramesLanded' /\ BatchFromFile' /\ Known \subseteq Known'
  <1> USE LossFacts
  <1>1. CASE DecodeFails \/ AfterAppendError \/ Sync
    <2>1. /\ writer \in {"wait", "errwait", "persist"}
          /\ \/ writer' \in {"wait", "gone"}
             \/ writer' = writer /\ batch' = batch /\ durableEnd' = durableEnd
          /\ UNCHANGED <<queue, spool, readOff, dbVars, lossVars>>
      BY <1>1 DEF DecodeFails, AfterAppendError, Sync, spoolVars, batchVars
    <2>2. InHand = <<>> /\ InHand' = <<>>
      BY <2>1 DEF InHand
    <2>3. Known' = Known
      BY <2>1, <2>2, KnownNext DEF Known, dbVars, lossVars
    <2>4. BatchFromFile'
      BY <2>1 DEF BatchFromFile, LossInv, Events, First, dbVars
    <2> QED BY <2>1, <2>3, <2>4, PassedStays DEF LossInv, dbVars
  <1>2. CASE SyncFails \/ MetricsFail \/ CommitFails \/ Commit
    <2>1. /\ writer \in {"persist", "committed"}
          /\ rows \subseteq rows' /\ metrics' = metrics
          /\ UNCHANGED <<spool, readOff, queue, lossVars>>
      BY <1>2 DEF SyncFails, MetricsFail, CommitFails, Commit, Retry,
         InsertBatch, spoolVars, dbVars
    <2>2. \/ writer' = "gone"
          \/ /\ writer' \in {"persist", "committed"}
             /\ batch' = batch /\ durableEnd' = durableEnd
      BY <1>2 DEF SyncFails, MetricsFail, CommitFails, Commit, Retry, batchVars
    <2>3. InHand = <<>> /\ InHand' = <<>>
      BY <2>1, <2>2 DEF InHand
    <2>4. Known \subseteq Known'
      BY <2>1, <2>3, KnownNext DEF Known, lossVars
    <2>5. BatchFromFile'
      BY <2>1, <2>2 DEF BatchFromFile, LossInv, Events, First
    <2> QED BY <2>1, <2>4, <2>5, PassedStays DEF LossInv
  <1>3. CASE WriteMetrics
    <2>1. /\ writer = "committed" /\ writer' = "landed"
          /\ metrics' = metrics \union Events(batch) /\ rows' = rows
          /\ UNCHANGED <<spool, readOff, queue, batch, durableEnd, lossVars>>
      BY <1>3 DEF WriteMetrics, spoolVars, batchVars
    <2>2. InHand = <<>> /\ InHand' = <<>>
      BY <2>1 DEF InHand
    <2>3. Known' = Known
      BY <2>1, <2>2, KnownNext DEF Known, lossVars
    <2>4. Events(First(spool, durableEnd)) \subseteq metrics \union Events(batch)
      BY <2>1 DEF LossInv, BatchFromFile
    <2>5. BatchFromFile'
      BY <2>1, <2>4 DEF BatchFromFile, Events, First
    <2> QED BY <2>1, <2>3, <2>5, PassedStays DEF LossInv
  <1>4. CASE Advance
    <2>1. /\ writer = "landed" /\ writer' = "wait" /\ Running
          /\ UNCHANGED <<queue, dbVars, lossVars>>
          /\ \/ durableEnd = writeOff /\ (Truncate \/ TruncateFails)
             \/ readOff' = durableEnd /\ spool' = spool
      BY <1>4 DEF Advance, CaughtUp, Running
    <2>2. /\ Events(First(spool, durableEnd)) \subseteq metrics \union Events(batch)
          /\ Events(batch) \subseteq metrics
      BY <2>1 DEF LossInv, BatchFromFile, IInv, OutcomeInv, BatchRecorded
    <2>3. InHand = <<>> /\ InHand' = <<>> /\ BatchFromFile'
      BY <2>1 DEF InHand, BatchFromFile
    <2>4. CASE durableEnd = writeOff /\ (Truncate \/ TruncateFails)
      <3>1. Events(spool) \subseteq metrics
        BY <2>1, <2>2, <2>4, FirstAll
      <3>2. PassedFramesLanded' /\ Events(spool) \subseteq rows
        BY <2>1, <2>4, <3>1, CompactForgetsNothing DEF dbVars
      <3>3. Known \subseteq Known'
        BY <2>1, <2>3, <3>2, KnownNext DEF Known, dbVars, lossVars
      <3> QED BY <2>3, <3>2, <3>3
    <2>5. CASE readOff' = durableEnd /\ spool' = spool
      <3>1. PassedFramesLanded'
        BY <2>1, <2>2, <2>5 DEF PassedFramesLanded, Events, First, dbVars
      <3>2. Known' = Known
        BY <2>1, <2>3, <2>5, KnownNext DEF Known, dbVars, lossVars
      <3> QED BY <2>3, <3>1, <3>2
    <2> QED BY <2>1, <2>4, <2>5
  <1>5. CASE Drained
    <2>1. /\ writer = "wait" /\ writer' = "gone" /\ Running
          /\ readOff = writeOff
          /\ Truncate \/ TruncateFails
          /\ UNCHANGED <<queue, dbVars, lossVars>>
      BY <1>5 DEF Drained, Running
    <2>2. Events(spool) \subseteq metrics
      BY <2>1, ReadFileLanded DEF LossInv
    <2>3. PassedFramesLanded' /\ Events(spool) \subseteq rows
      BY <1>5, <2>1, <2>2, CompactForgetsNothing DEF dbVars, Drained
    <2>4. InHand = <<>> /\ InHand' = <<>> /\ BatchFromFile'
      BY <2>1 DEF InHand, BatchFromFile
    <2>5. Known \subseteq Known'
      BY <2>1, <2>3, <2>4, KnownNext DEF Known, dbVars, lossVars
    <2> QED BY <2>3, <2>4, <2>5
  <1> QED BY <1>1, <1>2, <1>3, <1>4, <1>5

(* A request adds an accepted event only together with its queue entry.    *)
LEMMA RequestLossStep ==
  ASSUME IInv, LossInv, NEW r \in Requests, RequestStep(r)
  PROVE  LossInv'
  <1>0. /\ phase \in [Requests -> Phases] /\ Accepted \subseteq Known
        /\ queue \in Seq(Requests)
    BY FileFacts
       DEF IInv, TokenInv, TokenTypes, LossInv, NothingLostSilently, Known
  <1>1. /\ UNCHANGED <<spool, readOff, writeOff, writer, batch, durableEnd>>
        /\ UNCHANGED <<dbVars, lossVars>>
    BY DEF RequestStep, Reserve, Refuse, MarkUpstreamStarted, LogRequest,
       Enqueue, Abandon, LogRejected, BuildFails, writerSide, spoolVars,
       batchVars
  <1>2. PassedFramesLanded'
    BY <1>1, PassedStays DEF LossInv, dbVars
  <1>3. BatchFromFile'
    BY <1>1, BatchStays DEF LossInv, dbVars
  <1>4. InHand' = InHand
    BY <1>1 DEF InHand
  <1>5. Accepted' \subseteq Known'
    <2>1. CASE Enqueue(r)
      <3>1. phase' = [phase EXCEPT ![r] = "accepted"] /\ queue' = Append(queue, r)
        BY <2>1 DEF Enqueue
      <3>2. Accepted' \subseteq Accepted \union {r}
        BY <1>0, <3>1 DEF Accepted
      <3>3. /\ Len(queue') = Len(queue) + 1 /\ queue'[Len(queue) + 1] = r
            /\ \A i \in 1..Len(queue) : queue'[i] = queue[i]
            /\ Len(queue) \in Nat
        BY <1>0, <3>1, AppendProperties, LenProperties
      <3>4. Events(queue) \union {r} \subseteq Events(queue')
        <4>1. \A i \in 1..Len(queue) : i \in 1..Len(queue')
          BY <3>3
        <4>2. Len(queue) + 1 \in 1..Len(queue')
          BY <3>3
        <4> QED BY <3>3, <4>1, <4>2 DEF Events
      <3>5. Known \union {r} \subseteq Known'
        BY <1>1, <1>4, <3>4, KnownNext DEF Known, dbVars, lossVars
      <3> QED BY <1>0, <3>2, <3>5
    <2>2. CASE ~Enqueue(r)
      <3>1. queue' = queue
        BY <2>2 DEF RequestStep, Reserve, Refuse, MarkUpstreamStarted,
           LogRequest, Abandon, LogRejected, BuildFails, writerSide
      <3>2. Accepted' \subseteq Accepted
        <4>1. \A q \in Requests : phase'[q] = "accepted" => phase[q] = "accepted"
          BY <1>0, <2>2 DEF RequestStep, Reserve, Refuse, MarkUpstreamStarted,
             LogRequest, Abandon, LogRejected, BuildFails, GiveUp
        <4> QED BY <4>1 DEF Accepted
      <3>3. Known' = Known
        BY <1>1, <1>4, <3>1, KnownNext DEF Known, dbVars, lossVars
      <3> QED BY <1>0, <3>2, <3>3
    <2> QED BY <2>1, <2>2
  <1>6. NothingLostSilently'
    BY <1>5 DEF NothingLostSilently, Known
  <1> QED BY <1>2, <1>3, <1>6 DEF LossInv

(* Start, stop and crash count what they take from memory.                 *)
LEMMA ProcessLossStep ==
  ASSUME IInv, LossInv, ProcessStep
  PROVE  LossInv'
  <1> USE LossFacts
  <1>0. Accepted \subseteq Known
    BY DEF LossInv, NothingLostSilently, Known
  <1>1. CASE Start
    <2>1. /\ readOff' = 0 /\ writer = "down" /\ writer' = "wait"
          /\ UNCHANGED <<phase, queue, spool, dbVars, lossVars>>
      BY <1>1 DEF Start
    <2>2. InHand = <<>> /\ InHand' = <<>> /\ BatchFromFile'
      BY <2>1 DEF InHand, BatchFromFile
    <2>3. Known' = Known /\ Accepted' = Accepted
      BY <2>1, <2>2, KnownNext DEF Known, Accepted, dbVars, lossVars
    <2>4. Events(First(spool', readOff')) = {}
      BY <2>1, NoEvents
    <2>5. PassedFramesLanded'
      BY <2>4 DEF PassedFramesLanded, Events, First
    <2> QED BY <1>0, <2>2, <2>3, <2>5 DEF LossInv, NothingLostSilently, Known
  <1>2. CASE RequestStop
    <2>1. UNCHANGED <<phase, queue, spool, readOff, writeOff, writer, batch,
                      durableEnd, dbVars, lossVars>>
      BY <1>2 DEF RequestStop, tokenVars, spoolVars, batchVars
    <2>2. InHand' = InHand
      BY <2>1 DEF InHand
    <2>3. Known' = Known /\ Accepted' = Accepted
      BY <2>1, <2>2, KnownNext DEF Known, Accepted, dbVars, lossVars
    <2>4. BatchFromFile'
      BY <2>1, BatchStays DEF LossInv, dbVars
    <2>5. PassedFramesLanded'
      BY <2>1, PassedStays DEF LossInv, dbVars
    <2> QED BY <1>0, <2>3, <2>4, <2>5 DEF LossInv, NothingLostSilently, Known
  <1>3. CASE FinishStop
    <2>1. /\ readOff' = 0 /\ writer = "gone" /\ writer' = "down"
          /\ lost' = lost \union Events(queue)
          /\ UNCHANGED <<phase, spool, dbVars, vanished, orphaned>>
      BY <1>3 DEF FinishStop, LeftOver
    <2>2. InHand = <<>> /\ InHand' = <<>> /\ BatchFromFile'
      BY <2>1 DEF InHand, BatchFromFile
    <2>3. Known \subseteq Known' /\ Accepted' = Accepted
      BY <2>1, <2>2, NoEvents, KnownNext DEF Known, Accepted, dbVars
    <2>4. Events(First(spool', readOff')) = {}
      BY <2>1, NoEvents
    <2>5. PassedFramesLanded'
      BY <2>4 DEF PassedFramesLanded, Events, First
    <2> QED BY <1>0, <2>2, <2>3, <2>5 DEF LossInv, NothingLostSilently, Known
  <1>4. ASSUME NEW keep, Crash(keep)
        PROVE  LossInv'
    <2>1. /\ readOff' = 0 /\ writer' = "down"
          /\ vanished' = vanished \union
               (Accepted \ (rows \union lost \union orphaned
                                 \union Events(spool')))
          /\ phase' = [q \in Requests |->
                         IF q \in Live THEN "crashed" ELSE phase[q]]
          /\ UNCHANGED <<dbVars, lost, orphaned>>
      BY <1>4 DEF Crash
    <2>2. spool' \in Seq(Requests)
      <3>1. spool' = First(spool, keep) /\ keep \in 0..Len(spool)
        BY <1>4, FileFacts DEF Crash, IInv
      <3> QED BY <3>1, FirstType
    <2>3. Accepted' \subseteq Accepted
      BY <2>1 DEF Accepted
    <2>4. Accepted \subseteq Known'
      BY <2>1, KnownNext DEF dbVars
    <2>5. Events(First(spool', readOff')) = {}
      BY <2>1, <2>2, NoEvents
    <2>6. PassedFramesLanded'
      BY <2>5 DEF PassedFramesLanded, Events, First
    <2>7. BatchFromFile'
      BY <2>1 DEF BatchFromFile
    <2> QED BY <2>3, <2>4, <2>6, <2>7 DEF LossInv, NothingLostSilently, Known
  <1> QED BY <1>1, <1>2, <1>3, <1>4 DEF ProcessStep
-----------------------------------------------------------------------------
LEMMA InitLossInv == Init => LossInv
  <1> SUFFICES ASSUME Init PROVE LossInv
    OBVIOUS
  <1>1. Accepted = {}
    BY DEF Init, Accepted
  <1>2. Events(First(spool, readOff)) = {}
    BY EmptySeq, NoEvents DEF Init
  <1>3. BatchFromFile
    BY DEF Init, BatchFromFile
  <1> QED BY <1>1, <1>2, <1>3
       DEF LossInv, PassedFramesLanded, NothingLostSilently

LEMMA NextLossInv == IInv /\ LossInv /\ [Next]_vars => LossInv'
  <1> SUFFICES ASSUME IInv, LossInv, [Next]_vars PROVE LossInv'
    OBVIOUS
  <1>1. CASE WriterStep
    <2>1. PassedFramesLanded' /\ BatchFromFile' /\ Known \subseteq Known'
      BY <1>1, TakeStep, AppendStep, CommitStep DEF WriterStep, WriterWorks
    <2>2. Accepted' = Accepted
      BY <1>1, WriterLeavesTokens DEF Accepted, tokenVars
    <2>3. Accepted \subseteq Known
      BY DEF LossInv, NothingLostSilently, Known
    <2> QED BY <2>1, <2>2, <2>3 DEF LossInv, NothingLostSilently, Known
  <1>2. CASE UNCHANGED vars
    <2>1. UNCHANGED <<phase, queue, spool, readOff, writeOff, writer, batch,
                      durableEnd, dbVars, lossVars>>
      BY <1>2 DEF vars, dbVars, lossVars
    <2>2. InHand' = InHand
      BY <2>1 DEF InHand
    <2>3. Known' = Known /\ Accepted' = Accepted /\ Accepted \subseteq Known
      BY <2>1, <2>2, KnownNext
         DEF Known, Accepted, dbVars, lossVars, LossInv, NothingLostSilently
    <2>4. BatchFromFile'
      BY <2>1, BatchStays DEF LossInv, dbVars
    <2>5. PassedFramesLanded'
      BY <2>1, PassedStays DEF LossInv, dbVars
    <2> QED BY <2>3, <2>4, <2>5 DEF LossInv, NothingLostSilently, Known
  <1> QED BY <1>1, <1>2, RequestLossStep, ProcessLossStep DEF Next

LEMMA AlwaysLossInv == Spec => [](IInv /\ LossInv)
  BY InitIInv, NextIInv, InitLossInv, NextLossInv, PTL DEF Spec

(* An accepted event is never lost without being counted: at any time it   *)
(* has a row, a place in memory or in the spool, or is counted as lost     *)
(* (log_request, log_writer_loop, stop_log_writer, start_log_writer).      *)
THEOREM NothingIsLostSilently == Spec => []NothingLostSilently
  <1>1. LossInv => NothingLostSilently
    BY DEF LossInv
  <1> QED BY <1>1, AlwaysLossInv, PTL

(* The read offset only passes frames that are in request_log with their   *)
(* accounting metric, so compacting the spool forgets nothing              *)
(* (log_writer_loop, compact_log_spool_locked).                            *)
THEOREM PassedFramesAreRecorded == Spec => []PassedFramesLanded
  <1>1. LossInv => PassedFramesLanded
    BY DEF LossInv
  <1> QED BY <1>1, AlwaysLossInv, PTL

-----------------------------------------------------------------------------
(***************************************************************************)
(* One place per event, the bounds of the backlog, and the promises to a   *)
(* caller: the ledger of UsageLedger and durability.                       *)
(***************************************************************************)
(* The inductive invariant.                                                *)

Distinct(s) == \A i, j \in 1..Len(s) : s[i] = s[j] => i = j
Apart(s, t) == Events(s) \intersect Events(t) = {}

(* Queue, hand and file hold every event at most once between them.        *)
Spread(q, h, f) ==
  /\ Distinct(q) /\ Distinct(h) /\ Distinct(f)
  /\ Apart(q, h) /\ Apart(q, f) /\ Apart(h, f)

InPlace == Events(queue) \union Events(InHand) \union Events(spool)
Written == lost \union vanished \union orphaned

(* Where events are and where they are not: what has a place is not given  *)
(* up, and nothing has a place, a row or a loss before it was accepted.    *)
PlaceInv ==
  /\ Spread(queue, InHand, spool)
  /\ InPlace \subseteq Accepted
  /\ rows \union Written \subseteq Accepted
  /\ InPlace \intersect Written = {}
  /\ writer \in {"persist", "committed"} => Events(batch) \subseteq Events(spool)

(* How much there is at once, and when.                                    *)
RoomInv ==
  /\ BacklogBounded
  /\ Len(InHand) <= BatchSize
  /\ writer = "write" /\ ~truncFailed => writeOff = 0
  /\ ReplayBeforeTraffic
  /\ recovering => ~accepting
  /\ writer = "down" => queue = <<>>
-----------------------------------------------------------------------------
(* Sequences without repetition.                                           *)

(* Cutting such a sequence gives two of them that share nothing.           *)
LEMMA DistinctSplit ==
  ASSUME NEW s \in Seq(Requests), NEW n \in 0..Len(s), Distinct(s)
  PROVE  /\ Distinct(First(s, n)) /\ Distinct(After(s, n))
         /\ Apart(First(s, n), After(s, n))
  <1>0. Len(s) \in Nat
    BY LenProperties
  <1>1. /\ Len(First(s, n)) = n
        /\ \A i \in 1..n : First(s, n)[i] = s[i]
    BY FirstType
  <1>2. /\ Len(After(s, n)) = Len(s) - n
        /\ \A i \in 1..(Len(s) - n) : After(s, n)[i] = s[n + i]
    BY AfterType
  <1>3. \A i, j \in 1..Len(s) : s[i] = s[j] => i = j
    BY DEF Distinct
  <1>4. Distinct(First(s, n))
    <2>1. \A i \in 1..n : i \in 1..Len(s)
      BY <1>0
    <2> QED BY <1>1, <1>3, <2>1 DEF Distinct
  <1>5. Distinct(After(s, n))
    <2> SUFFICES ASSUME NEW i \in 1..(Len(s) - n), NEW j \in 1..(Len(s) - n),
                        s[n + i] = s[n + j]
                 PROVE  i = j
      BY <1>2 DEF Distinct
    <2>1. n + i \in 1..Len(s) /\ n + j \in 1..Len(s)
      BY <1>0
    <2>2. n + i = n + j
      BY <1>3, <2>1
    <2> QED BY <1>0, <2>2
  <1>6. Apart(First(s, n), After(s, n))
    <2> SUFFICES ASSUME NEW i \in 1..n, NEW j \in 1..(Len(s) - n),
                        s[i] = s[n + j]
                 PROVE  FALSE
      BY <1>1, <1>2 DEF Apart, Events
    <2>1. i \in 1..Len(s) /\ n + j \in 1..Len(s) /\ i # n + j
      BY <1>0
    <2> QED BY <1>3, <2>1
  <1> QED BY <1>4, <1>5, <1>6

(* Joining two of them that share nothing gives another.                   *)
LEMMA DistinctConcat ==
  ASSUME NEW s \in Seq(Requests), NEW t \in Seq(Requests),
         Distinct(s), Distinct(t), Apart(s, t)
  PROVE  Distinct(s \o t)
  <1> DEFINE u == s \o t
  <1>1. /\ Len(u) = Len(s) + Len(t)
        /\ \A i \in 1..(Len(s) + Len(t)) :
             u[i] = IF i <= Len(s) THEN s[i] ELSE t[i - Len(s)]
    BY ConcatProperties
  <1>2. Len(s) \in Nat /\ Len(t) \in Nat
    BY LenProperties
  <1> HIDE DEF u
  <1>3. \A i \in 1..Len(s), j \in 1..Len(t) : s[i] # t[j]
    BY DEF Apart, Events
  <1>4. ASSUME NEW i \in 1..Len(u), NEW j \in 1..Len(u), u[i] = u[j]
        PROVE  i = j
    <2>1. CASE i <= Len(s) /\ j <= Len(s)
      <3>1. i \in 1..Len(s) /\ j \in 1..Len(s) /\ s[i] = s[j]
        BY <1>1, <1>2, <1>4, <2>1
      <3> QED BY <3>1 DEF Distinct
    <2>2. CASE ~(i <= Len(s)) /\ ~(j <= Len(s))
      <3>1. /\ i - Len(s) \in 1..Len(t) /\ j - Len(s) \in 1..Len(t)
            /\ t[i - Len(s)] = t[j - Len(s)]
        BY <1>1, <1>2, <1>4, <2>2
      <3>2. i - Len(s) = j - Len(s)
        BY <3>1 DEF Distinct
      <3> QED BY <1>1, <1>2, <3>2
    <2>3. CASE i <= Len(s) /\ ~(j <= Len(s))
      <3>1. i \in 1..Len(s) /\ j - Len(s) \in 1..Len(t) /\ s[i] = t[j - Len(s)]
        BY <1>1, <1>2, <1>4, <2>3
      <3> QED BY <1>3, <3>1
    <2>4. CASE ~(i <= Len(s)) /\ j <= Len(s)
      <3>1. j \in 1..Len(s) /\ i - Len(s) \in 1..Len(t) /\ s[j] = t[i - Len(s)]
        BY <1>1, <1>2, <1>4, <2>4
      <3> QED BY <1>3, <3>1
    <2> QED BY <2>1, <2>2, <2>3, <2>4
  <1>5. Distinct(u)
    BY <1>4 DEF Distinct
  <1> QED BY <1>5 DEF u

(* A prefix of a prefix.                                                   *)
LEMMA FirstOfFirst ==
  ASSUME NEW s \in Seq(Requests), NEW n \in 0..Len(s), NEW m \in 0..n
  PROVE  /\ m \in 0..Len(First(s, n))
         /\ Events(First(First(s, n), m)) = Events(First(s, m))
  <1>1. /\ First(s, n) \in Seq(Requests) /\ Len(First(s, n)) = n
        /\ \A i \in 1..n : First(s, n)[i] = s[i]
    BY FirstType
  <1>2. m \in 0..Len(First(s, n)) /\ m \in 0..Len(s) /\ n \in Nat
    BY <1>1, LenProperties
  <1>3. /\ Len(First(First(s, n), m)) = m
        /\ \A i \in 1..m : First(First(s, n), m)[i] = First(s, n)[i]
    BY <1>1, <1>2, FirstType
  <1>4. /\ Len(First(s, m)) = m
        /\ \A i \in 1..m : First(s, m)[i] = s[i]
    BY <1>2, FirstType
  <1>5. \A i \in 1..m : First(First(s, n), m)[i] = First(s, m)[i]
    <2>1. \A i \in 1..m : i \in 1..n
      BY <1>2
    <2> QED BY <1>1, <1>3, <1>4, <2>1
  <1> QED BY <1>2, <1>3, <1>4, <1>5 DEF Events

(* A shorter prefix of a sequence without repetition.                      *)
LEMMA DistinctFirst ==
  ASSUME NEW s \in Seq(Requests), NEW n \in 0..Len(s), NEW m \in 0..n, Distinct(s)
  PROVE  /\ m \in 0..Len(s) /\ First(s, m) \in Seq(Requests)
         /\ Distinct(First(s, m))
         /\ Events(First(s, m)) \subseteq Events(First(s, n))
  <1>1. m \in 0..Len(s) /\ n \in Nat
    BY LenProperties
  <1>2. First(s, m) \in Seq(Requests) /\ Distinct(First(s, m))
    BY <1>1, FirstType, DistinctSplit
  <1>3. First(s, n) \in Seq(Requests) /\ m \in 0..Len(First(s, n))
    BY FirstType
  <1>4. Events(First(First(s, n), m)) \subseteq Events(First(s, n))
    BY <1>3, EventsSplit
  <1> QED BY <1>1, <1>2, <1>4, FirstOfFirst

LEMMA EmptyDistinct ==
  /\ Distinct(<<>>) /\ Events(<<>>) = {} /\ <<>> \in Seq(Requests)
  /\ Len(<<>>) = 0
  /\ \A s : Apart(<<>>, s) /\ Apart(s, <<>>)
  BY NoEvents, EmptySeq DEF Distinct, Apart

(* The moves between queue, hand and file.                                 *)

LEMMA SpreadPop ==
  ASSUME NEW q \in Seq(Requests), NEW f \in Seq(Requests), NEW n \in 0..Len(q),
         Spread(q, <<>>, f)
  PROVE  Spread(After(q, n), First(q, n), f)
  <1>1. Events(q) = Events(First(q, n)) \union Events(After(q, n))
    BY EventsSplit
  <1>2. /\ Distinct(First(q, n)) /\ Distinct(After(q, n))
        /\ Apart(First(q, n), After(q, n))
    BY DistinctSplit DEF Spread
  <1> QED BY <1>1, <1>2 DEF Spread, Apart

(* The tail of the hand goes back to the front of the queue; a record      *)
(* between the two parts may be dropped (m = n - 1).                       *)
LEMMA SpreadCut ==
  ASSUME NEW q \in Seq(Requests), NEW h \in Seq(Requests), NEW f \in Seq(Requests),
         NEW n \in 0..Len(h), NEW m \in 0..n, Spread(q, h, f)
  PROVE  /\ Spread(After(h, n) \o q, First(h, m), f)
         /\ After(h, n) \o q \in Seq(Requests)
         /\ Events(After(h, n) \o q) = Events(After(h, n)) \union Events(q)
         /\ Events(First(h, m)) \subseteq Events(h)
         /\ Events(After(h, n)) \subseteq Events(h)
         /\ Len(After(h, n) \o q) + n = Len(q) + Len(h)
         /\ Len(First(h, m)) = m
  <1>1. Events(h) = Events(First(h, n)) \union Events(After(h, n))
    BY EventsSplit
  <1>2. /\ Distinct(First(h, n)) /\ Distinct(After(h, n))
        /\ Apart(First(h, n), After(h, n))
    BY DistinctSplit DEF Spread
  <1>3. /\ Distinct(First(h, m)) /\ m \in 0..Len(h)
        /\ Events(First(h, m)) \subseteq Events(First(h, n))
    BY DistinctFirst DEF Spread
  <1>4. /\ After(h, n) \in Seq(Requests) /\ Len(After(h, n)) = Len(h) - n
        /\ Len(First(h, m)) = m
    BY <1>3, AfterType, FirstType
  <1>5. Events(After(h, n) \o q) = Events(After(h, n)) \union Events(q)
    BY <1>4, EventsConcat
  <1>6. Apart(After(h, n), q)
    BY <1>1 DEF Spread, Apart
  <1>7. Distinct(After(h, n) \o q)
    BY <1>2, <1>4, <1>6, DistinctConcat DEF Spread
  <1>8. Spread(After(h, n) \o q, First(h, m), f)
    BY <1>1, <1>2, <1>3, <1>5, <1>7 DEF Spread, Apart
  <1>9. /\ After(h, n) \o q \in Seq(Requests)
        /\ Len(After(h, n) \o q) = Len(After(h, n)) + Len(q)
    BY <1>4, ConcatProperties
  <1>10. Len(After(h, n) \o q) + n = Len(q) + Len(h)
    BY <1>4, <1>9, LenProperties
  <1> QED BY <1>1, <1>3, <1>4, <1>5, <1>8, <1>9, <1>10

(* The first n records of the hand become frames, the hand is emptied.     *)
LEMMA SpreadAppend ==
  ASSUME NEW q \in Seq(Requests), NEW h \in Seq(Requests), NEW f \in Seq(Requests),
         NEW n \in 0..Len(h), Spread(q, h, f)
  PROVE  /\ Spread(q, <<>>, f \o First(h, n))
         /\ Spread(After(h, n) \o q, <<>>, f \o First(h, n))
         /\ Apart(After(h, n), f \o First(h, n)) /\ Apart(After(h, n), q)
         /\ Events(f \o First(h, n)) = Events(f) \union Events(First(h, n))
  <1>1. Events(h) = Events(First(h, n)) \union Events(After(h, n))
    BY EventsSplit
  <1>2. First(h, n) \in Seq(Requests)
    BY FirstType
  <1>3. /\ Distinct(First(h, n)) /\ Apart(First(h, n), After(h, n))
    BY DistinctSplit DEF Spread
  <1>4. Events(f \o First(h, n)) = Events(f) \union Events(First(h, n))
    BY <1>2, EventsConcat
  <1>5. Distinct(f \o First(h, n))
    <2>1. Apart(f, First(h, n))
      BY <1>1 DEF Spread, Apart
    <2> QED BY <1>2, <1>3, <2>1, DistinctConcat DEF Spread
  <1>6. Spread(q, <<>>, f \o First(h, n))
    BY <1>1, <1>4, <1>5, EmptyDistinct DEF Spread, Apart
  <1>7. Spread(After(h, n) \o q, First(h, n), f)
    <2>1. n \in 0..n
      BY LenProperties
    <2> QED BY <2>1, SpreadCut
  <1>8. Spread(After(h, n) \o q, <<>>, f \o First(h, n))
    BY <1>4, <1>5, <1>7, EmptyDistinct DEF Spread, Apart
  <1>9. Apart(After(h, n), f \o First(h, n)) /\ Apart(After(h, n), q)
    BY <1>1, <1>3, <1>4 DEF Spread, Apart
  <1> QED BY <1>4, <1>6, <1>8, <1>9

LEMMA SpreadShrink ==
  ASSUME NEW q \in Seq(Requests), NEW h \in Seq(Requests), NEW f \in Seq(Requests),
         Spread(q, h, f)
  PROVE  /\ Spread(q, h, <<>>) /\ Spread(<<>>, <<>>, f) /\ Spread(q, <<>>, f)
         /\ \A n \in 0..Len(f) : Spread(<<>>, <<>>, First(f, n))
  <1>1. Spread(q, h, <<>>) /\ Spread(<<>>, <<>>, f) /\ Spread(q, <<>>, f)
    BY EmptyDistinct DEF Spread
  <1>2. ASSUME NEW n \in 0..Len(f)
        PROVE  Spread(<<>>, <<>>, First(f, n))
    BY EmptyDistinct, DistinctSplit DEF Spread
  <1> QED BY <1>1, <1>2

(* A new event at the end of the queue.                                    *)
LEMMA SpreadPush ==
  ASSUME NEW q \in Seq(Requests), NEW h \in Seq(Requests), NEW f \in Seq(Requests),
         NEW r \in Requests, Spread(q, h, f),
         r \notin Events(q) \union Events(h) \union Events(f)
  PROVE  /\ Spread(Append(q, r), h, f)
         /\ Events(Append(q, r)) = Events(q) \union {r}
  <1>1. /\ Len(q) \in Nat /\ Len(Append(q, r)) = Len(q) + 1
        /\ \A i \in 1..Len(q) : Append(q, r)[i] = q[i]
        /\ Append(q, r)[Len(q) + 1] = r
    BY AppendProperties, LenProperties
  <1> DEFINE a == Append(q, r)
  <1> HIDE DEF a
  <1>2. /\ Len(a) = Len(q) + 1 /\ a[Len(q) + 1] = r
        /\ \A i \in 1..Len(q) : a[i] = q[i]
    BY <1>1 DEF a
  <1>3. Events(a) = Events(q) \union {r}
    <2>1. \A i \in 1..Len(a) : i = Len(q) + 1 \/ i \in 1..Len(q)
      BY <1>1, <1>2
    <2>2. \A i \in 1..Len(q) : i \in 1..Len(a)
      BY <1>1, <1>2
    <2>3. Len(q) + 1 \in 1..Len(a)
      BY <1>1, <1>2
    <2> QED BY <1>2, <2>1, <2>2, <2>3 DEF Events
  <1>4. Distinct(a)
    <2>1. \A i \in 1..Len(q) : q[i] # r
      BY DEF Events
    <2>2. \A i \in 1..Len(a) : i = Len(q) + 1 \/ i \in 1..Len(q)
      BY <1>1, <1>2
    <2> QED BY <1>2, <2>1, <2>2 DEF Distinct, Spread
  <1>5. Spread(a, h, f)
    BY <1>3, <1>4 DEF Spread, Apart
  <1> QED BY <1>3, <1>5 DEF a

(* The frames of a batch that was read back are frames.                    *)
LEMMA SliceWithin ==
  ASSUME NEW s \in Seq(Requests), NEW m \in 0..Len(s), NEW n \in 0..Len(s)
  PROVE  Events(SubSeq(s, m + 1, n)) \subseteq Events(s)
  <1>0. Len(s) \in Nat
    BY LenProperties
  <1>1. \A i \in (m + 1)..n : s[i] \in Requests
    BY <1>0, ElementOfSeq
  <1>2. m + 1 \in Int /\ n \in Int
    BY <1>0
  <1> DEFINE b == SubSeq(s, m + 1, n)
  <1>3. /\ Len(b) = IF m + 1 <= n THEN n - (m + 1) + 1 ELSE 0
        /\ \A i \in 1..(n - (m + 1) + 1) : b[i] = s[(m + 1) + i - 1]
    BY <1>1, <1>2, SubSeqProperties
  <1> HIDE DEF b
  <1>4. ASSUME NEW i \in 1..Len(b)
        PROVE  b[i] \in Events(s)
    <2>1. i \in 1..(n - (m + 1) + 1) /\ (m + 1) + i - 1 \in 1..Len(s)
      BY <1>0, <1>3
    <2> QED BY <1>3, <2>1 DEF Events
  <1>5. Events(b) \subseteq Events(s)
    BY <1>4 DEF Events
  <1> QED BY <1>5 DEF b
-----------------------------------------------------------------------------
(* Every step keeps every event in one place.                              *)

LEMMA PlaceNext ==
  PlaceInv' <=>
    /\ Spread(queue', InHand', spool')
    /\ InPlace' \subseteq Accepted'
    /\ rows' \union Written' \subseteq Accepted'
    /\ InPlace' \intersect Written' = {}
    /\ writer' \in {"persist", "committed"} => Events(batch') \subseteq Events(spool')
  BY DEF PlaceInv, Spread, Distinct, Apart, Events

LEMMA InPlaceNext ==
  /\ InPlace' = Events(queue') \union Events(InHand') \union Events(spool')
  /\ Written' = lost' \union vanished' \union orphaned'
  BY DEF InPlace, Written, Events

(* A step that only moves events, gives some up and inserts rows of events *)
(* in place.                                                               *)
LEMMA Moved ==
  ASSUME PlaceInv, NEW X,
         Spread(queue', InHand', spool'), InPlace' \subseteq InPlace,
         Accepted \subseteq Accepted', rows' \subseteq rows \union InPlace,
         Written' \subseteq Written \union X, X \subseteq Accepted,
         X \intersect InPlace' = {},
         writer' \in {"persist", "committed"} => Events(batch') \subseteq Events(spool')
  PROVE  PlaceInv'
  BY PlaceNext DEF PlaceInv

(* The sequences of a state of the pipeline.                               *)
LEMMA PlaceFacts ==
  ASSUME IInv
  PROVE  /\ queue \in Seq(Requests) /\ spool \in Seq(Requests)
         /\ batch \in Seq(Requests) /\ InHand \in Seq(Requests)
         /\ Len(batch) \in Nat /\ Len(queue) \in Nat /\ Len(InHand) \in Nat
         /\ (Running => writeOff = Len(spool))
         /\ readOff \in Nat /\ writeOff \in Nat /\ readOff <= writeOff
  <1>1. InHand \in Seq(Requests)
    BY LossFacts, EmptyDistinct DEF InHand
  <1> QED BY <1>1, LossFacts, LenProperties

(* Nothing moves.                                                          *)
LEMMA PlaceStays ==
  ASSUME PlaceInv, queue' = queue, InHand' = InHand, spool' = spool,
         rows' \subseteq rows \union InPlace, Written' = Written,
         Accepted \subseteq Accepted',
         \/ writer' \notin {"persist", "committed"}
         \/ writer \in {"persist", "committed"} /\ batch' = batch
  PROVE  PlaceInv'
  <1>1. InPlace' = InPlace /\ Spread(queue', InHand', spool')
    BY InPlaceNext DEF InPlace, PlaceInv
  <1>2. writer' \in {"persist", "committed"} => Events(batch') \subseteq Events(spool')
    BY DEF PlaceInv
  <1>3. Written' \subseteq Written \union {} /\ {} \subseteq Accepted
        /\ {} \intersect InPlace' = {}
    OBVIOUS
  <1> QED BY <1>1, <1>2, <1>3, Moved

LEMMA RequestKeepsPlace ==
  ASSUME IInv, PlaceInv, NEW r \in Requests, RequestStep(r)
  PROVE  PlaceInv'
  <1>0. phase \in [Requests -> Phases]
    BY DEF IInv, TokenInv, TokenTypes
  <1>1. /\ UNCHANGED <<spool, writer, batch, rows, lost, vanished, orphaned>>
        /\ InHand' = InHand
    BY DEF RequestStep, Reserve, Refuse, MarkUpstreamStarted, LogRequest,
       Enqueue, Abandon, LogRejected, BuildFails, writerSide, spoolVars,
       batchVars, dbVars, lossVars, InHand
  <1>2. Written' = Written
    BY <1>1 DEF Written
  <1>3. CASE Enqueue(r)
    <2>1. /\ phase' = [phase EXCEPT ![r] = "accepted"] /\ phase[r] # "accepted"
          /\ queue' = Append(queue, r)
      BY <1>3 DEF Enqueue
    <2>2. r \notin Accepted /\ Accepted' = Accepted \union {r}
      BY <1>0, <2>1 DEF Accepted
    <2>3. r \notin InPlace /\ r \notin Written
      BY <2>2 DEF PlaceInv
    <2>4. /\ Spread(Append(queue, r), InHand, spool)
          /\ Events(Append(queue, r)) = Events(queue) \union {r}
      BY <2>3, PlaceFacts, SpreadPush DEF PlaceInv, InPlace
    <2>5. InPlace' = InPlace \union {r}
      BY <1>1, <2>1, <2>4, InPlaceNext DEF InPlace
    <2>6. Spread(queue', InHand', spool')
      BY <1>1, <2>1, <2>4
    <2>7. writer' \in {"persist", "committed"} => Events(batch') \subseteq Events(spool')
      BY <1>1 DEF PlaceInv
    <2> QED BY <1>1, <1>2, <2>2, <2>3, <2>5, <2>6, <2>7, PlaceNext DEF PlaceInv
  <1>4. CASE ~Enqueue(r)
    <2>1. queue' = queue /\ phase[r] # "accepted"
          /\ \A q \in Requests : q # r => phase'[q] = phase[q]
      BY <1>0, <1>4 DEF RequestStep, Reserve, Refuse, MarkUpstreamStarted,
         LogRequest, Abandon, LogRejected, BuildFails, GiveUp, writerSide
    <2>2. Accepted \subseteq Accepted'
      BY <2>1 DEF Accepted
    <2>3. \/ writer' \notin {"persist", "committed"}
          \/ writer \in {"persist", "committed"} /\ batch' = batch
      BY <1>1
    <2> QED BY <1>1, <1>2, <2>1, <2>2, <2>3, PlaceStays
  <1> QED BY <1>3, <1>4

LEMMA TakeKeepsPlace ==
  ASSUME IInv, PlaceInv, Accepted' = Accepted,
         \/ ReadSpool \/ PopQueue
         \/ \E n \in 1..BatchSize : Encode(n) \/ DropPoison(n)
  PROVE  PlaceInv'
  <1> USE PlaceFacts
  <1>1. CASE ReadSpool
    <2>1. /\ writer = "wait" /\ writer' = "persist" /\ Running
          /\ durableEnd' = Least(readOff + BatchSize, writeOff)
          /\ batch' = SubSeq(spool, readOff + 1, durableEnd')
          /\ UNCHANGED <<queue, spool, rows, lost, vanished, orphaned>>
      BY <1>1 DEF ReadSpool, spoolVars, Running, dbVars, lossVars
    <2>2. readOff \in 0..Len(spool) /\ durableEnd' \in 0..Len(spool)
      BY <2>1, Limits DEF Least
    <2>3. Events(batch') \subseteq Events(spool')
      <3> DEFINE de == durableEnd'
      <3>1. de \in 0..Len(spool)
        BY <2>2
      <3> HIDE DEF de
      <3>2. Events(SubSeq(spool, readOff + 1, de)) \subseteq Events(spool)
        BY <2>2, <3>1, SliceWithin
      <3> QED BY <2>1, <3>2 DEF de
    <2>4. InHand = <<>> /\ InHand' = <<>>
      BY <2>1 DEF InHand
    <2>5. InPlace' = InPlace /\ Written' = Written
      BY <2>1, <2>4, InPlaceNext DEF InPlace, Written
    <2>6. Spread(queue', InHand', spool')
      BY <2>1, <2>4 DEF PlaceInv
    <2> QED BY <2>1, <2>3, <2>5, <2>6, PlaceNext DEF PlaceInv
  <1>2. CASE PopQueue
    <2> DEFINE n == Least(BatchSize, Len(queue))
    <2>1. /\ writer = "wait" /\ writer' = "encode"
          /\ batch' = First(queue, n) /\ queue' = After(queue, n)
          /\ UNCHANGED <<spool, rows, lost, vanished, orphaned>>
      BY <1>2 DEF PopQueue, spoolVars, dbVars, lossVars
    <2>2. n \in 0..Len(queue)
      BY Limits DEF Least
    <2> HIDE DEF n
    <2>3. InHand = <<>> /\ InHand' = First(queue, n)
      BY <2>1 DEF InHand
    <2>4. Spread(queue', InHand', spool')
      BY <2>1, <2>2, <2>3, SpreadPop DEF PlaceInv
    <2>5. Events(queue) = Events(First(queue, n)) \union Events(After(queue, n))
      BY <2>2, EventsSplit
    <2>6. InPlace' = InPlace /\ Written' = Written
      BY <2>1, <2>3, <2>5, InPlaceNext, EmptyDistinct DEF InPlace, Written
    <2> QED BY <2>1, <2>4, <2>6, PlaceNext DEF PlaceInv
  <1>3. ASSUME NEW n \in 1..BatchSize, Encode(n)
        PROVE  PlaceInv'
    <2>1. /\ writer = "encode" /\ writer' = "append" /\ n \in 0..Len(batch)
          /\ batch' = First(batch, n) /\ queue' = After(batch, n) \o queue
          /\ UNCHANGED <<spool, rows, lost, vanished, orphaned>>
      BY <1>3 DEF Encode, spoolVars, dbVars, lossVars
    <2>2. InHand = batch /\ InHand' = First(batch, n)
      BY <2>1 DEF InHand
    <2>3. n \in 0..n
      BY <2>1
    <2>4. /\ Spread(queue', InHand', spool')
          /\ Events(queue') = Events(After(batch, n)) \union Events(queue)
          /\ Events(First(batch, n)) \subseteq Events(batch)
          /\ Events(After(batch, n)) \subseteq Events(batch)
      BY <2>1, <2>2, <2>3, SpreadCut DEF PlaceInv
    <2>5. InPlace' \subseteq InPlace /\ Written' = Written
      BY <2>1, <2>2, <2>4, InPlaceNext DEF InPlace, Written
    <2> QED BY <2>1, <2>4, <2>5, PlaceNext DEF PlaceInv
  <1>4. ASSUME NEW n \in 1..BatchSize, DropPoison(n)
        PROVE  PlaceInv'
    <2>1. /\ writer = "encode" /\ writer' = IF n = 1 THEN "wait" ELSE "append"
          /\ n \in 1..Len(batch) /\ n \in 0..Len(batch) /\ n - 1 \in 0..n
          /\ batch' = First(batch, n - 1) /\ queue' = After(batch, n) \o queue
          /\ lost' = lost \union {batch[n]}
          /\ UNCHANGED <<spool, rows, vanished, orphaned>>
      BY <1>4 DEF DropPoison, spoolVars, dbVars
    <2>2. InHand = batch
      BY <2>1 DEF InHand
    <2>3. /\ Spread(After(batch, n) \o queue, First(batch, n - 1), spool)
          /\ Events(queue') = Events(After(batch, n)) \union Events(queue)
          /\ Events(First(batch, n - 1)) \subseteq Events(batch)
          /\ Events(After(batch, n)) \subseteq Events(batch)
          /\ Len(First(batch, n - 1)) = n - 1
      BY <2>1, <2>2, SpreadCut DEF PlaceInv
    <2>4. InHand' = First(batch, n - 1)
      <3>1. CASE n = 1
        <4>1. First(batch, n - 1) \in Seq(Requests) /\ Len(First(batch, n - 1)) = 0
          BY <2>1, <2>3, <3>1, FirstType
        <4>2. First(batch, n - 1) = <<>>
          BY <4>1, EmptySeq
        <4> QED BY <2>1, <3>1, <4>2 DEF InHand
      <3>2. CASE n # 1
        BY <2>1, <3>2 DEF InHand
      <3> QED BY <3>1, <3>2
    <2>5. InPlace' \subseteq InPlace /\ Written' = Written \union {batch[n]}
      BY <2>1, <2>2, <2>3, <2>4, InPlaceNext DEF InPlace, Written
    <2>6. batch[n] \in Events(InHand)
      BY <2>1, <2>2 DEF Events
    <2>7. batch[n] \notin Events(queue) \union Events(spool)
      BY <2>6 DEF PlaceInv, Spread, Apart
    <2>8. batch[n] \notin Events(First(batch, n - 1)) \union Events(After(batch, n))
      <3>1. \A i, j \in 1..Len(batch) : batch[i] = batch[j] => i = j
        BY <2>2 DEF PlaceInv, Spread, Distinct
      <3>2. /\ Len(First(batch, n - 1)) = n - 1
            /\ \A i \in 1..(n - 1) : First(batch, n - 1)[i] = batch[i]
        <4>1. batch \in Seq(Requests) /\ n - 1 \in 0..Len(batch)
          BY <2>1
        <4> DEFINE k == n - 1
        <4>2. k \in 0..Len(batch)
          BY <4>1
        <4> HIDE DEF k
        <4>3. Len(First(batch, k)) = k /\ \A i \in 1..k : First(batch, k)[i] = batch[i]
          BY <4>1, <4>2, FirstType
        <4> QED BY <4>3 DEF k
      <3>3. \A i \in 1..(n - 1) : i \in 1..Len(batch) /\ i # n
        BY <2>1
      <3>4. /\ Len(After(batch, n)) = Len(batch) - n
            /\ \A i \in 1..(Len(batch) - n) : After(batch, n)[i] = batch[n + i]
        BY <2>1, AfterType
      <3>5. \A i \in 1..(Len(batch) - n) : n + i \in 1..Len(batch) /\ n + i # n
        BY <2>1
      <3>6. batch[n] \notin Events(First(batch, n - 1))
        BY <2>1, <3>1, <3>2, <3>3 DEF Events
      <3>7. batch[n] \notin Events(After(batch, n))
        BY <2>1, <3>1, <3>4, <3>5 DEF Events
      <3> QED BY <3>6, <3>7
    <2>9. batch[n] \notin InPlace' /\ batch[n] \in Accepted
      BY <2>1, <2>3, <2>4, <2>6, <2>7, <2>8, InPlaceNext DEF PlaceInv, InPlace
    <2>10. Spread(queue', InHand', spool')
      BY <2>1, <2>3, <2>4
    <2> QED BY <2>1, <2>5, <2>9, <2>10, PlaceNext DEF PlaceInv
  <1> QED BY <1>1, <1>2, <1>3, <1>4

(* No record of nothing.                                                   *)
LEMMA NothingFirst ==
  ASSUME NEW s \in Seq(Requests)
  PROVE  First(s, 0) = <<>>
  <1>1. 0 \in 0..Len(s)
    BY LenProperties
  <1>2. First(s, 0) \in Seq(Requests) /\ Len(First(s, 0)) = 0
    BY <1>1, FirstType
  <1> QED BY <1>2, EmptySeq

LEMMA AppendKeepsPlace ==
  ASSUME IInv, PlaceInv, Accepted' = Accepted,
         \/ Reclaim \/ AppendBatch
         \/ \E n \in 0..BatchSize : AppendFails(n) \/ WriterDies(n)
  PROVE  PlaceInv'
  <1> USE PlaceFacts
  <1>1. CASE Reclaim
    <2>1. /\ writer = "append" /\ writer' = "write"
          /\ spool' = spool \/ spool' = <<>>
          /\ UNCHANGED <<queue, batch, rows, lost, vanished, orphaned>>
      BY <1>1 DEF Reclaim, Truncate, TruncateFails, batchVars, dbVars, lossVars
    <2>2. InHand' = InHand
      BY <2>1 DEF InHand
    <2>3. Spread(queue', InHand', spool')
      BY <2>1, <2>2, SpreadShrink DEF PlaceInv
    <2>4. InPlace' \subseteq InPlace /\ Written' = Written
      BY <2>1, <2>2, InPlaceNext, EmptyDistinct DEF InPlace, Written
    <2> QED BY <2>1, <2>3, <2>4, PlaceNext DEF PlaceInv
  <1>2. CASE AppendBatch
    <2>1. /\ writer \in {"append", "write"} /\ writer' = "persist"
          /\ Grow(Len(batch))
          /\ UNCHANGED <<queue, batch, rows, lost, vanished, orphaned>>
      BY <1>2 DEF AppendBatch, ReadyToWrite, dbVars, lossVars
    <2>2. Len(batch) \in 0..Len(batch) /\ First(batch, Len(batch)) = batch
      BY FirstAll
    <2>3. InHand = batch /\ InHand' = <<>>
      BY <2>1 DEF InHand
    <2>4. spool' = spool \o batch
      BY <2>1, <2>2 DEF Grow
    <2>5. /\ Spread(queue, <<>>, spool \o batch)
          /\ Events(spool \o batch) = Events(spool) \union Events(batch)
      BY <2>2, <2>3, SpreadAppend DEF PlaceInv
    <2>6. Events(spool') = Events(spool) \union Events(batch)
      BY <2>4, <2>5
    <2>7. InPlace' = InPlace /\ Written' = Written
      BY <2>1, <2>3, <2>6, InPlaceNext, EmptyDistinct DEF InPlace, Written
    <2>8. Spread(queue', InHand', spool')
      BY <2>1, <2>3, <2>4, <2>5
    <2> QED BY <2>1, <2>6, <2>7, <2>8, PlaceNext DEF PlaceInv
  <1>3. ASSUME NEW n \in 0..BatchSize, AppendFails(n)
        PROVE  PlaceInv'
    <2>1. /\ writer \in {"append", "write"} /\ writer' = "errwait"
          /\ n \in 0..Len(batch) /\ spool' = spool \o First(batch, n)
          /\ queue' = After(batch, n) \o queue
          /\ UNCHANGED <<rows, lost, vanished, orphaned>>
      BY <1>3 DEF AppendFails, Requeue, ReadyToWrite, Grow, dbVars, lossVars
    <2>2. InHand = batch /\ InHand' = <<>>
      BY <2>1 DEF InHand
    <2>3. /\ Spread(After(batch, n) \o queue, <<>>, spool \o First(batch, n))
          /\ Events(spool \o First(batch, n))
               = Events(spool) \union Events(First(batch, n))
      BY <2>1, <2>2, SpreadAppend DEF PlaceInv
    <2>4. Events(After(batch, n) \o queue)
            = Events(After(batch, n)) \union Events(queue)
      BY <2>1, AfterType, EventsConcat
    <2>5. Events(batch) = Events(First(batch, n)) \union Events(After(batch, n))
      BY <2>1, EventsSplit
    <2>6. InPlace' = InPlace /\ Written' = Written
      BY <2>1, <2>2, <2>3, <2>4, <2>5, InPlaceNext, EmptyDistinct
      DEF InPlace, Written
    <2>7. Spread(queue', InHand', spool')
      BY <2>1, <2>2, <2>3
    <2> QED BY <2>1, <2>6, <2>7, PlaceNext DEF PlaceInv
  <1>4. ASSUME NEW n \in 0..BatchSize, WriterDies(n)
        PROVE  PlaceInv'
    <2>1. /\ writer' = "gone" /\ spool' = spool \o First(batch, n)
          /\ n \in 0..Len(batch)
          /\ orphaned' = orphaned \union Events(After(InHand, n))
          /\ UNCHANGED <<queue, rows, lost, vanished>>
          /\ InHand = batch \/ (InHand = <<>> /\ n = 0)
      BY <1>4 DEF WriterDies, ReadyToWrite, Grow, dbVars, InHand
    <2>2. n \in 0..Len(InHand) /\ First(batch, n) = First(InHand, n)
      <3>1. First(batch, 0) = <<>> /\ First(InHand, 0) = <<>>
        BY NothingFirst
      <3>2. 0 \in 0..Len(InHand)
        OBVIOUS
      <3> QED BY <2>1, <3>1, <3>2
    <2>3. InHand' = <<>>
      BY <2>1 DEF InHand
    <2>4. /\ Spread(queue, <<>>, spool \o First(InHand, n))
          /\ Apart(After(InHand, n), spool \o First(InHand, n))
          /\ Apart(After(InHand, n), queue)
          /\ Events(spool \o First(InHand, n))
               = Events(spool) \union Events(First(InHand, n))
      BY <2>2, SpreadAppend DEF PlaceInv
    <2>5. Events(InHand) = Events(First(InHand, n)) \union Events(After(InHand, n))
      BY <2>2, EventsSplit
    <2>6. spool' = spool \o First(InHand, n)
      BY <2>1, <2>2
    <2>7. Spread(queue', InHand', spool')
      BY <2>1, <2>3, <2>4, <2>6
    <2>8. /\ InPlace' \subseteq InPlace
          /\ Written' = Written \union Events(After(InHand, n))
          /\ Events(After(InHand, n)) \intersect InPlace' = {}
      BY <2>1, <2>3, <2>4, <2>5, <2>6, InPlaceNext, EmptyDistinct
      DEF InPlace, Written, Apart
    <2>9. Events(After(InHand, n)) \subseteq Accepted
      BY <2>5 DEF PlaceInv, InPlace
    <2> QED BY <2>1, <2>7, <2>8, <2>9, Moved
  <1> QED BY <1>1, <1>2, <1>3, <1>4

LEMMA CommitKeepsPlace ==
  ASSUME IInv, PlaceInv, Accepted' = Accepted,
         \/ DecodeFails \/ AfterAppendError \/ Sync \/ SyncFails \/ Commit
         \/ CommitFails \/ WriteMetrics \/ MetricsFail \/ Advance \/ Drained
  PROVE  PlaceInv'
  <1>1. CASE \/ DecodeFails \/ AfterAppendError \/ Sync \/ SyncFails \/ Commit
             \/ CommitFails \/ WriteMetrics \/ MetricsFail
    <2>1. /\ writer \in {"wait", "errwait", "persist", "committed"}
          /\ \/ writer' \in {"wait", "gone", "landed"}
             \/ /\ writer \in {"persist", "committed"}
                /\ writer' \in {"persist", "committed"} /\ batch' = batch
          /\ UNCHANGED <<queue, spool, lost, vanished, orphaned>>
      BY <1>1 DEF DecodeFails, AfterAppendError, Sync, SyncFails, Commit,
         CommitFails, WriteMetrics, MetricsFail, Retry, spoolVars, batchVars,
         lossVars
    <2>2. InHand = <<>> /\ InHand' = <<>>
      BY <2>1 DEF InHand
    <2>3. rows' \subseteq rows \union InPlace
      <3>1. \/ rows' = rows
            \/ writer = "persist" /\ rows' = rows \union Fresh
        BY <1>1 DEF DecodeFails, AfterAppendError, Sync, SyncFails, Commit,
           CommitFails, InsertBatch, WriteMetrics, MetricsFail, dbVars
      <3>2. writer = "persist" => Fresh \subseteq InPlace
        BY DEF PlaceInv, InPlace, Fresh
      <3> QED BY <3>1, <3>2
    <2>4. Written' = Written
      BY <2>1 DEF Written
    <2> QED BY <2>1, <2>2, <2>3, <2>4, PlaceStays
  <1>2. CASE Advance \/ Drained
    <2>1. /\ writer \in {"wait", "landed"} /\ writer' \in {"wait", "gone"}
          /\ spool' = spool \/ spool' = <<>>
          /\ UNCHANGED <<queue, rows, lost, vanished, orphaned>>
      BY <1>2 DEF Advance, Drained, Truncate, TruncateFails, dbVars, lossVars
    <2>2. InHand = <<>> /\ InHand' = <<>>
      BY <2>1 DEF InHand
    <2>3. Spread(queue', InHand', spool')
      BY <2>1, <2>2, PlaceFacts, SpreadShrink DEF PlaceInv
    <2>4. InPlace' \subseteq InPlace /\ Written' = Written
      BY <2>1, <2>2, InPlaceNext, EmptyDistinct DEF InPlace, Written
    <2> QED BY <2>1, <2>3, <2>4, PlaceNext DEF PlaceInv
  <1> QED BY <1>1, <1>2

LEMMA ProcessKeepsPlace ==
  ASSUME IInv, PlaceInv, ProcessStep
  PROVE  PlaceInv'
  <1> USE PlaceFacts
  <1>1. CASE Start \/ RequestStop
    <2>1. /\ UNCHANGED <<phase, queue, spool, batch, rows, lost, vanished, orphaned>>
          /\ \/ writer' = writer
             \/ writer' = "wait" /\ writer = "down"
      BY <1>1 DEF Start, RequestStop, tokenVars, spoolVars, batchVars, dbVars,
         lossVars
    <2>2. InHand' = InHand
      BY <2>1 DEF InHand
    <2>3. Accepted' = Accepted /\ Written' = Written
      BY <2>1 DEF Accepted, Written
    <2> QED BY <2>1, <2>2, <2>3, PlaceStays
  <1>2. CASE FinishStop
    <2>1. /\ writer = "gone" /\ writer' = "down" /\ queue' = <<>>
          /\ lost' = lost \union Events(queue)
          /\ UNCHANGED <<phase, spool, rows, vanished, orphaned>>
      BY <1>2 DEF FinishStop, LeftOver, dbVars
    <2>2. InHand = <<>> /\ InHand' = <<>>
      BY <2>1 DEF InHand
    <2>3. Spread(queue', InHand', spool')
      BY <2>1, <2>2, SpreadShrink DEF PlaceInv
    <2>4. /\ InPlace' \subseteq InPlace
          /\ Written' = Written \union Events(queue)
          /\ Events(queue) \intersect InPlace' = {}
      BY <2>1, <2>2, InPlaceNext, EmptyDistinct
      DEF InPlace, Written, PlaceInv, Spread, Apart
    <2>5. Events(queue) \subseteq Accepted /\ Accepted' = Accepted
      BY <2>1 DEF PlaceInv, InPlace, Accepted
    <2> QED BY <2>1, <2>3, <2>4, <2>5, Moved
  <1>3. ASSUME NEW keep, Crash(keep)
        PROVE  PlaceInv'
    <2>1. /\ writer' = "down" /\ queue' = <<>>
          /\ spool' = First(spool, keep) /\ keep \in 0..Len(spool)
          /\ vanished' = vanished \union
               (Accepted \ (rows \union lost \union orphaned
                                 \union Events(spool')))
          /\ phase' = [q \in Requests |->
                         IF q \in Live THEN "crashed" ELSE phase[q]]
          /\ UNCHANGED <<rows, lost, orphaned>>
      BY <1>3, FileFacts DEF Crash, dbVars, IInv
    <2>2. InHand' = <<>>
      BY <2>1 DEF InHand
    <2>3. Spread(queue', InHand', spool')
      BY <2>1, <2>2, SpreadShrink DEF PlaceInv
    <2>4. Events(First(spool, keep)) \subseteq Events(spool)
      BY <2>1, EventsSplit
    <2> DEFINE X == Accepted \ (rows \union lost \union orphaned
                                     \union Events(spool'))
    <2>5. InPlace' = Events(spool') /\ InPlace' \subseteq InPlace
      BY <2>1, <2>2, <2>4, InPlaceNext, EmptyDistinct DEF InPlace
    <2>6. Written' = Written \union X /\ X \intersect InPlace' = {}
      BY <2>1, <2>5, InPlaceNext DEF Written
    <2>7. X \subseteq Accepted /\ Accepted \subseteq Accepted'
      BY <2>1 DEF Accepted, Live
    <2> HIDE DEF X
    <2> QED BY <2>1, <2>3, <2>5, <2>6, <2>7, Moved
  <1> QED BY <1>1, <1>2, <1>3 DEF ProcessStep

LEMMA PlaceStep ==
  ASSUME IInv, PlaceInv, [Next]_vars
  PROVE  PlaceInv'
  <1>1. CASE WriterStep
    <2>1. Accepted' = Accepted
      BY <1>1, WriterLeavesTokens DEF Accepted, tokenVars
    <2> QED BY <1>1, <2>1, TakeKeepsPlace, AppendKeepsPlace, CommitKeepsPlace
            DEF WriterStep, WriterWorks
  <1>2. CASE UNCHANGED vars
    <2>1. UNCHANGED <<phase, queue, spool, batch, writer, rows, lost, vanished,
                      orphaned>>
      BY <1>2 DEF vars
    <2>2. InHand' = InHand /\ Accepted' = Accepted /\ Written' = Written
      BY <2>1 DEF InHand, Accepted, Written
    <2> QED BY <2>1, <2>2, PlaceStays
  <1> QED BY <1>1, <1>2, RequestKeepsPlace, ProcessKeepsPlace DEF Next
-----------------------------------------------------------------------------
(* Every step keeps the backlog in bounds and the replay undisturbed.      *)

(* What goes back to the queue, counted.                                   *)
LEMMA CutLength ==
  ASSUME NEW s \in Seq(Requests), NEW q \in Seq(Requests), NEW n \in 0..Len(s)
  PROVE  /\ Len(After(s, n) \o q) = Len(s) - n + Len(q)
         /\ Len(After(s, n) \o q) \in Nat
  <1>1. After(s, n) \in Seq(Requests) /\ Len(After(s, n)) = Len(s) - n
    BY AfterType
  <1>2. /\ After(s, n) \o q \in Seq(Requests)
        /\ Len(After(s, n) \o q) = Len(After(s, n)) + Len(q)
    BY <1>1, ConcatProperties
  <1> QED BY <1>1, <1>2, LenProperties

(* A step of the writer that takes no new event into memory.               *)
LEMMA WriterRoom ==
  ASSUME IInv, RoomInv, UNCHANGED tokenVars, writer' # "down",
         \/ recovering' = recovering /\ (accepting' => accepting)
         \/ ~recovering',
         \/ queue' = queue /\ InHand' \in {InHand, <<>>}
         \/ /\ Len(queue) + Len(InHand) > 0
            /\ Len(queue') \in Nat /\ Len(InHand') \in Nat
            /\ Len(queue') + Len(InHand') <= Len(queue) + Len(InHand)
            /\ Len(InHand') <= BatchSize,
         writer' = "write" /\ ~truncFailed' => writeOff' = 0
  PROVE  RoomInv'
  <1>0. /\ Len(queue) \in Nat /\ Len(InHand) \in Nat /\ BatchSize \in Nat
        /\ QueueMax \in Nat /\ reservations \in Nat /\ Len(<<>>) = 0
        /\ reservations' = reservations
    BY PlaceFacts, Limits, EmptyDistinct DEF IInv, TokenInv, TokenTypes, tokenVars
  <1>1. /\ Len(queue') \in Nat /\ Len(InHand') \in Nat
        /\ Len(queue') + Len(InHand') <= Len(queue) + Len(InHand)
        /\ Len(InHand') <= BatchSize
    BY <1>0 DEF RoomInv
  <1>2. BacklogBounded' /\ (Len(InHand) <= BatchSize)'
    BY <1>0, <1>1 DEF RoomInv, BacklogBounded
  <1>3. ReplayBeforeTraffic' /\ (recovering => ~accepting)'
    <2> SUFFICES ASSUME recovering'
                 PROVE  Live' = {} /\ queue' = <<>> /\ InHand' = <<>> /\ ~accepting'
      BY DEF ReplayBeforeTraffic
    <2>1. recovering /\ (accepting' => accepting)
      OBVIOUS
    <2>2. Live = {} /\ queue = <<>> /\ InHand = <<>> /\ ~accepting
      BY <2>1 DEF RoomInv, ReplayBeforeTraffic
    <2>3. Live' = Live
      BY DEF Live, tokenVars
    <2>4. queue' = <<>> /\ InHand' = <<>>
      BY <1>0, <2>2
    <2> QED BY <2>1, <2>2, <2>3, <2>4
  <1> QED BY <1>2, <1>3 DEF RoomInv

LEMMA WriterKeepsRoom ==
  ASSUME IInv, RoomInv, WriterStep
  PROVE  RoomInv'
  <1> USE PlaceFacts
  <1>0. /\ UNCHANGED tokenVars /\ writer' # "down" /\ BatchSize \in Nat \ {0}
        /\ Len(<<>>) = 0
    BY WriterLeavesTokens, Limits, EmptyDistinct DEF Running
  <1>1. CASE \/ ReadSpool \/ DecodeFails \/ AfterAppendError \/ Sync \/ SyncFails
             \/ Commit \/ CommitFails \/ WriteMetrics \/ MetricsFail \/ AppendBatch
             \/ \E n \in 0..BatchSize : WriterDies(n)
    <2>1. /\ queue' = queue /\ recovering' = recovering
          /\ accepting' = accepting \/ accepting' = FALSE
          /\ writer' \notin {"encode", "append", "write"}
      BY <1>1 DEF ReadSpool, DecodeFails, AfterAppendError, Sync, SyncFails,
         Commit, CommitFails, WriteMetrics, MetricsFail, AppendBatch, WriterDies,
         Retry, modeVars
    <2>2. InHand' = <<>>
      BY <2>1 DEF InHand
    <2> QED BY <1>0, <2>1, <2>2, WriterRoom
  <1>2. CASE Advance \/ Drained
    <2>1. /\ queue' = queue
          /\ \/ recovering' = recovering /\ accepting' = accepting
             \/ ~recovering'
          /\ writer' \notin {"encode", "append", "write"}
      BY <1>2 DEF Advance, Drained, modeVars
    <2>2. InHand' = <<>>
      BY <2>1 DEF InHand
    <2> QED BY <1>0, <2>1, <2>2, WriterRoom
  <1>3. CASE Reclaim
    <2>1. /\ writer = "append" /\ writer' = "write"
          /\ UNCHANGED <<queue, batch, recovering, accepting>>
          /\ writeOff' = 0 \/ truncFailed'
      BY <1>3 DEF Reclaim, Truncate, TruncateFails, modeVars, batchVars
    <2>2. InHand' = InHand
      BY <2>1 DEF InHand
    <2> QED BY <1>0, <2>1, <2>2, WriterRoom
  <1>4. CASE PopQueue
    <2> DEFINE n == Least(BatchSize, Len(queue))
    <2>1. /\ writer = "wait" /\ writer' = "encode" /\ queue # <<>>
          /\ batch' = First(queue, n) /\ queue' = After(queue, n)
          /\ UNCHANGED <<recovering, accepting>>
      BY <1>4 DEF PopQueue, modeVars
    <2>2. n \in 0..Len(queue) /\ n <= BatchSize
      BY <1>0 DEF Least
    <2> HIDE DEF n
    <2>3. InHand = <<>> /\ InHand' = First(queue, n)
      BY <2>1 DEF InHand
    <2>4. Len(queue') = Len(queue) - n /\ Len(InHand') = n
      BY <2>1, <2>2, <2>3, FirstType, AfterType
    <2>5. Len(queue) > 0
      BY <2>1, EmptySeq
    <2> QED BY <1>0, <2>1, <2>2, <2>3, <2>4, <2>5, WriterRoom
  <1>5. ASSUME NEW n \in 1..BatchSize, Encode(n) \/ DropPoison(n)
        PROVE  RoomInv'
    <2>1. /\ writer = "encode" /\ writer' \in {"wait", "append"}
          /\ n \in 1..Len(batch) /\ queue' = After(batch, n) \o queue
          /\ batch' \in {First(batch, n), First(batch, n - 1)}
          /\ UNCHANGED <<recovering, accepting>>
      BY <1>5 DEF Encode, DropPoison, modeVars
    <2>2. InHand = batch /\ InHand' \in {batch', <<>>}
      BY <2>1 DEF InHand
    <2>3. /\ n \in 0..Len(batch) /\ n - 1 \in 0..Len(batch)
      BY <2>1
    <2>4. Len(batch') \in Nat /\ Len(batch') <= n
      <3>1. Len(First(batch, n)) = n /\ Len(First(batch, n - 1)) = n - 1
        BY <2>3, FirstType
      <3>2. Len(batch') \in {n, n - 1}
        BY <2>1, <3>1
      <3> QED BY <2>1, <3>2
    <2>5. Len(queue') = Len(batch) - n + Len(queue)
      BY <2>1, <2>3, CutLength
    <2>6. Len(InHand') \in Nat /\ Len(InHand') <= n
      BY <1>0, <2>2, <2>4
    <2>7. Len(queue) \in Nat /\ Len(batch) \in Nat /\ n >= 1 /\ n <= BatchSize
          /\ n <= Len(batch) /\ n \in Nat
      BY <1>0, <2>1, <2>3
    <2>8. /\ Len(queue) + Len(InHand) > 0
          /\ Len(queue') \in Nat
          /\ Len(queue') + Len(InHand') <= Len(queue) + Len(InHand)
          /\ Len(InHand') <= BatchSize
      <3>1. Len(InHand) = Len(batch)
        BY <2>2
      <3> QED BY <1>0, <2>5, <2>6, <2>7, <3>1
    <2>9. writer' # "down" /\ writer' # "write" /\ UNCHANGED tokenVars
          /\ recovering' = recovering /\ (accepting' => accepting)
      BY <1>0, <2>1
    <2> QED BY <2>6, <2>8, <2>9, WriterRoom
  <1>6. ASSUME NEW n \in 0..BatchSize, AppendFails(n)
        PROVE  RoomInv'
    <2>1. /\ writer \in {"append", "write"} /\ writer' = "errwait"
          /\ n \in 0..(Len(batch) - 1) /\ queue' = After(batch, n) \o queue
          /\ recovering' = recovering /\ accepting' = FALSE
      BY <1>6 DEF AppendFails, Requeue, ReadyToWrite
    <2>2. InHand = batch /\ InHand' = <<>>
      BY <2>1 DEF InHand
    <2>3. n \in 0..Len(batch) /\ Len(batch) > 0
      BY <2>1
    <2>4. Len(queue') = Len(batch) - n + Len(queue)
      BY <2>1, <2>3, CutLength
    <2> QED BY <1>0, <2>1, <2>2, <2>3, <2>4, WriterRoom
  <1> QED BY <1>1, <1>2, <1>3, <1>4, <1>5, <1>6 DEF WriterStep, WriterWorks

LEMMA RequestKeepsRoom ==
  ASSUME IInv, RoomInv, NEW r \in Requests, RequestStep(r)
  PROVE  RoomInv'
  <1>0. /\ phase \in [Requests -> Phases] /\ reservations \in Nat
        /\ reservations = Cardinality(Live)
        /\ (stop \/ ~Running => Live = {})
    BY DEF IInv, TokenInv, TokenTypes, SlotsConserved, Quiet
  <1>1. /\ UNCHANGED <<writer, batch, recovering, truncFailed, writeOff>>
        /\ accepting' = accepting \/ accepting' = FALSE
        /\ InHand' = InHand
    BY DEF RequestStep, Reserve, Refuse, MarkUpstreamStarted, LogRequest,
       Enqueue, Abandon, LogRejected, BuildFails, writerSide, batchVars,
       spoolVars, InHand
  <1>2. /\ Len(queue) \in Nat /\ Len(InHand) \in Nat /\ QueueMax \in Nat
        /\ BatchSize \in Nat
    BY PlaceFacts, Limits
  <1>3. CASE Reserve(r)
    <2>1. /\ queue' = queue /\ reservations' = reservations + 1 /\ accepting
          /\ Len(queue) + reservations + 1 <= QueueMax
      BY <1>3 DEF Reserve, Admits, writerSide
    <2>2. ~recovering
      BY <2>1 DEF RoomInv
    <2>3. BacklogBounded'
      BY <1>0, <1>1, <1>2, <2>1 DEF RoomInv, BacklogBounded
    <2> QED BY <1>1, <2>1, <2>2, <2>3 DEF RoomInv, ReplayBeforeTraffic
  <1>4. CASE Enqueue(r)
    <2>1. /\ queue' = Append(queue, r) /\ reservations' = reservations - 1
          /\ accepting /\ phase[r] \in {"logging", "aborting"}
      BY <1>4 DEF Enqueue
    <2>2. ~recovering
      BY <2>1 DEF RoomInv
    <2>3. r \in Live
      BY <2>1 DEF Live
    <2>4. writer # "down"
      BY <1>0, <2>3 DEF Running
    <2>5. reservations > 0
      <3>1. Cardinality(Live) # 0
        BY <2>3, LiveFinite, FS_EmptySet
      <3> QED BY <1>0, <3>1
    <2>6. Len(queue') = Len(queue) + 1
      BY <2>1, PlaceFacts, AppendProperties
    <2>7. BacklogBounded'
      BY <1>0, <1>1, <1>2, <2>1, <2>5, <2>6 DEF RoomInv, BacklogBounded
    <2> QED BY <1>1, <2>1, <2>2, <2>4, <2>7 DEF RoomInv, ReplayBeforeTraffic
  <1>5. CASE ~Reserve(r) /\ ~Enqueue(r)
    <2>1. /\ queue' = queue /\ reservations' \in Nat
          /\ reservations' <= reservations
      BY <1>0, <1>5 DEF RequestStep, Refuse, MarkUpstreamStarted, LogRequest,
         Abandon, LogRejected, BuildFails, GiveUp, writerSide
    <2>2. Live' \subseteq Live
      BY <1>0, <1>5 DEF RequestStep, Refuse, MarkUpstreamStarted, LogRequest,
         Abandon, LogRejected, BuildFails, GiveUp, Live
    <2>3. BacklogBounded'
      BY <1>0, <1>1, <1>2, <2>1 DEF RoomInv, BacklogBounded
    <2> QED BY <1>1, <2>1, <2>2, <2>3 DEF RoomInv, ReplayBeforeTraffic
  <1> QED BY <1>3, <1>4, <1>5

LEMMA ProcessKeepsRoom ==
  ASSUME IInv, RoomInv, ProcessStep
  PROVE  RoomInv'
  <1>0. /\ reservations \in Nat /\ (stop \/ ~Running => Live = {})
        /\ QueueMax \in Nat /\ BatchSize \in Nat /\ Len(<<>>) = 0
    BY Limits, EmptyDistinct DEF IInv, TokenInv, TokenTypes, Quiet
  <1>1. CASE Start
    <2>1. /\ writer = "down" /\ writer' = "wait" /\ reservations' = 0
          /\ recovering' = (Len(spool) # 0) /\ accepting' = (Len(spool) = 0)
          /\ UNCHANGED <<phase, queue>>
      BY <1>1 DEF Start
    <2>2. queue = <<>> /\ Live = {} /\ InHand' = <<>>
      BY <1>0, <2>1 DEF RoomInv, Running, InHand
    <2>3. Live' = {}
      BY <2>1, <2>2 DEF Live
    <2>4. queue' = <<>>
      BY <2>1, <2>2
    <2>5. BacklogBounded' /\ (Len(InHand) <= BatchSize)'
      BY <1>0, <2>1, <2>2, <2>4 DEF BacklogBounded
    <2>6. ReplayBeforeTraffic'
      BY <2>2, <2>3, <2>4 DEF ReplayBeforeTraffic
    <2>7. (recovering => ~accepting)'
      <3>1. CASE Len(spool) = 0
        BY <2>1, <3>1
      <3>2. CASE Len(spool) # 0
        BY <2>1, <3>2
      <3> QED BY <3>1, <3>2
    <2> QED BY <2>1, <2>4, <2>5, <2>6, <2>7 DEF RoomInv
  <1>2. CASE RequestStop
    <2>1. UNCHANGED <<phase, reservations, recovering, queue, writer, batch,
                      truncFailed, writeOff>> /\ ~accepting'
      BY <1>2 DEF RequestStop, tokenVars, batchVars, budgetVars, spoolVars
    <2>2. Live' = Live /\ InHand' = InHand
      BY <2>1 DEF Live, InHand
    <2> QED BY <2>1, <2>2 DEF RoomInv, BacklogBounded, ReplayBeforeTraffic
  <1>3. CASE FinishStop \/ \E keep \in 0..Len(spool) : Crash(keep)
    <2>1. /\ writer' = "down" /\ queue' = <<>> /\ reservations' = 0
          /\ ~recovering'
      BY <1>3 DEF FinishStop, Crash
    <2>2. InHand' = <<>>
      BY <2>1 DEF InHand
    <2> QED BY <1>0, <2>1, <2>2 DEF RoomInv, BacklogBounded, ReplayBeforeTraffic
  <1> QED BY <1>1, <1>2, <1>3 DEF ProcessStep

LEMMA RoomStep ==
  ASSUME IInv, RoomInv, [Next]_vars
  PROVE  RoomInv'
  <1>1. CASE UNCHANGED vars
    <2>1. UNCHANGED <<phase, reservations, accepting, recovering, queue, writer,
                      batch, truncFailed, writeOff>>
      BY <1>1 DEF vars
    <2>2. Live' = Live /\ InHand' = InHand
      BY <2>1 DEF Live, InHand
    <2> QED BY <2>1, <2>2 DEF RoomInv, BacklogBounded, ReplayBeforeTraffic
  <1> QED BY <1>1, WriterKeepsRoom, RequestKeepsRoom, ProcessKeepsRoom DEF Next
-----------------------------------------------------------------------------
(* The backlog.                                                            *)

LEMMA InitPlaceRoom == Init => PlaceInv /\ RoomInv
  <1> SUFFICES ASSUME Init PROVE PlaceInv /\ RoomInv
    OBVIOUS
  <1>1. queue = <<>> /\ spool = <<>> /\ InHand = <<>> /\ Live = {}
    BY DEF Init, InHand, Live
  <1>2. InPlace = {} /\ Written = {} /\ rows = {}
    BY <1>1, EmptyDistinct DEF Init, InPlace, Written
  <1>3. Spread(queue, InHand, spool)
    BY <1>1, EmptyDistinct DEF Spread
  <1>4. PlaceInv
    BY <1>2, <1>3 DEF Init, PlaceInv
  <1>5. RoomInv
    BY <1>1, Limits, EmptyDistinct
    DEF Init, RoomInv, BacklogBounded, ReplayBeforeTraffic
  <1> QED BY <1>4, <1>5

Whole == IInv /\ LossInv /\ PlaceInv /\ RoomInv

LEMMA AlwaysWhole == Spec => []Whole
  <1>1. Init => Whole
    BY InitIInv, InitLossInv, InitPlaceRoom DEF Whole
  <1>2. Whole /\ [Next]_vars => Whole'
    BY NextIInv, NextLossInv, PlaceStep, RoomStep DEF Whole
  <1> QED BY <1>1, <1>2, PTL DEF Spec

(* durable_spool.cpp:22-24, usage_writer.cpp: an event has one place, the  *)
(* queue and the file stay in their limits unless a truncate failed, and   *)
(* nothing new is taken before the last run's file is replayed.            *)
THEOREM BacklogIsDisciplined == Spec => []BacklogDiscipline
  <1>1. ASSUME Whole
        PROVE  BacklogDiscipline
    <2>0. /\ queue \in Seq(Requests) /\ InHand \in Seq(Requests)
          /\ spool \in Seq(Requests)
      BY <1>1, PlaceFacts DEF Whole
    <2>1. OnePlace
      <3>1. Spread(queue, InHand, spool)
        BY <1>1 DEF Whole, PlaceInv
      <3>2. Distinct(queue \o InHand) /\ queue \o InHand \in Seq(Requests)
        BY <2>0, <3>1, DistinctConcat, ConcatProperties DEF Spread
      <3>3. Apart(queue \o InHand, spool)
        BY <2>0, <3>1, EventsConcat DEF Spread, Apart
      <3>4. Distinct(queue \o InHand \o spool)
        BY <2>0, <3>1, <3>2, <3>3, DistinctConcat DEF Spread
      <3> QED BY <3>4 DEF Distinct, OnePlace
    <2>2. HardLimitOnlyAfterFailure
      <3> SUFFICES ASSUME ReadyToWrite, ~truncFailed
                   PROVE  writeOff + Len(batch) <= HardLimit
        BY DEF HardLimitOnlyAfterFailure
      <3>1. /\ Len(batch) \in Nat /\ writeOff \in Nat
            /\ CompactThreshold \in Nat \ {0} /\ BatchSize \in Nat \ {0}
            /\ HardLimit \in Nat \ {0} /\ CompactThreshold + BatchSize <= HardLimit
        BY <1>1, PlaceFacts, WriterAssumption DEF Whole
      <3>2. writer \in {"append", "write"}
        BY DEF ReadyToWrite
      <3>3. Len(batch) <= BatchSize
        BY <1>1, <3>2 DEF Whole, RoomInv, InHand
      <3>4. writeOff < CompactThreshold
        <4>1. CASE writer = "write"
          BY <1>1, <3>1, <4>1 DEF Whole, RoomInv
        <4>2. CASE writer = "append"
          <5>1. readOff = writeOff
            BY <1>1, <4>2 DEF Whole, LossInv, BatchFromFile
          <5>2. ~MustReclaim
            BY <4>2 DEF ReadyToWrite
          <5> QED BY <3>1, <5>1, <5>2 DEF MustReclaim, OverThreshold
        <4> QED BY <3>2, <4>1, <4>2
      <3> QED BY <3>1, <3>3, <3>4
    <2> QED BY <1>1, <2>1, <2>2 DEF BacklogDiscipline, Whole, RoomInv
  <1> QED BY <1>1, AlwaysWhole, PTL
-----------------------------------------------------------------------------
(* Durability.                                                             *)

LEMMA DurableNext ==
  Durable' = rows' \union Events(First(spool', synced'))
  BY DEF Durable, Events, First

(* Rows stay.                                                              *)
LEMMA RowsStay ==
  ASSUME [Next]_vars
  PROVE  rows \subseteq rows'
  <1>1. CASE WriterStep
    BY <1>1 DEF WriterStep, WriterWorks, ReadSpool, DecodeFails, PopQueue, Reclaim,
       AppendBatch, AfterAppendError, Sync, SyncFails, Commit, CommitFails,
       InsertBatch, WriteMetrics, MetricsFail, Advance, Drained, Encode,
       DropPoison, AppendFails, WriterDies, dbVars
  <1>2. CASE ProcessStep
    BY <1>2 DEF ProcessStep, Start, RequestStop, FinishStop, Crash, dbVars
  <1>3. ASSUME NEW r \in Requests, RequestStep(r)
        PROVE  rows' = rows
    BY <1>3 DEF RequestStep, Reserve, Refuse, MarkUpstreamStarted, LogRequest,
       Enqueue, Abandon, LogRejected, BuildFails, writerSide, dbVars
  <1>4. CASE UNCHANGED vars
    BY <1>4 DEF vars
  <1> QED BY <1>1, <1>2, <1>3, <1>4 DEF Next

(* What compaction drops from the file has its row.                        *)
LEMMA TruncatedAreRows ==
  ASSUME IInv, LossInv, Reclaim \/ Advance \/ Drained, Truncate
  PROVE  Events(spool) \subseteq rows
  <1>0. metrics \subseteq rows /\ spool \in Seq(Requests)
    BY LossFacts
  <1>1. CASE Reclaim \/ Drained
    <2>1. Running /\ readOff = writeOff
      BY <1>1 DEF Reclaim, MustReclaim, Drained, Running
    <2> QED BY <2>1, ReadFileLanded DEF LossInv
  <1>2. CASE Advance
    <2>1. writer = "landed" /\ Running
      BY <1>2 DEF Advance, Running
    <2>2. CASE durableEnd = writeOff
      <3>1. First(spool, durableEnd) = spool
        BY <1>0, <2>1, <2>2, LossFacts, FirstAll
      <3>2. Events(spool) \subseteq metrics \union Events(batch)
        BY <2>1, <3>1 DEF LossInv, BatchFromFile
      <3>3. Events(batch) \subseteq rows
        BY <2>1 DEF IInv, OutcomeInv, BatchRecorded
      <3> QED BY <1>0, <3>2, <3>3
    <2>3. CASE durableEnd # writeOff
      \* then the file is left alone, and Truncate says that it was empty
      <3>1. spool' = spool /\ spool' = <<>>
        BY <1>2, <2>3 DEF Advance, CaughtUp, Truncate
      <3> QED BY <3>1, EmptyDistinct
    <2> QED BY <2>2, <2>3
  <1> QED BY <1>1, <1>2

LEMMA DurableStep ==
  ASSUME IInv, LossInv, [Next]_vars
  PROVE  Durable \subseteq Durable'
  <1>0. /\ spool \in Seq(Requests) /\ batch \in Seq(Requests)
        /\ synced \in 0..Len(spool) /\ rows \subseteq rows'
    BY FileFacts, RowsStay DEF IInv
  <1>1. CASE UNCHANGED <<spool, synced>>
    BY <1>0, <1>1, DurableNext DEF Durable
  <1>2. ASSUME NEW n \in 0..Len(batch), Grow(n)
        PROVE  Durable \subseteq Durable'
    <2>1. spool' = spool \o First(batch, n) /\ synced' = synced
      BY <1>2 DEF Grow
    <2>2. Events(First(spool \o First(batch, n), synced))
            = Events(First(spool, synced))
      BY <1>0, FirstType, FirstOfConcat
    <2> QED BY <1>0, <2>1, <2>2, DurableNext DEF Durable
  <1>3. CASE Sync
    <2>1. spool' = spool /\ synced' = Len(spool)
      BY <1>3 DEF Sync
    <2>2. Events(First(spool, synced)) \subseteq Events(spool)
      BY <1>0, EventsSplit
    <2> QED BY <1>0, <2>1, <2>2, FirstAll, DurableNext DEF Durable
  <1>4. CASE (Reclaim \/ Advance \/ Drained) /\ Truncate
    <2>1. Events(spool) \subseteq rows
      BY <1>4, TruncatedAreRows
    <2>2. Events(First(spool, synced)) \subseteq Events(spool)
      BY <1>0, EventsSplit
    <2> QED BY <1>0, <2>1, <2>2, DurableNext DEF Durable
  <1>5. ASSUME NEW keep \in 0..Len(spool), Crash(keep)
        PROVE  Durable \subseteq Durable'
    <2>1. /\ spool' = First(spool, keep) /\ synced' = synced
          /\ synced \in 0..keep
      BY <1>0, <1>5 DEF Crash
    <2>2. Events(First(First(spool, keep), synced)) = Events(First(spool, synced))
      BY <1>0, <2>1, FirstOfFirst
    <2> QED BY <1>0, <2>1, <2>2, DurableNext DEF Durable
  <1>6. \/ UNCHANGED <<spool, synced>>
        \/ \E n \in 0..Len(batch) : Grow(n)
        \/ Sync
        \/ (Reclaim \/ Advance \/ Drained) /\ Truncate
        \/ \E keep \in 0..Len(spool) : Crash(keep)
    <2>1. CASE WriterStep
      <3>1. CASE \/ ReadSpool \/ DecodeFails \/ PopQueue \/ AfterAppendError
                 \/ SyncFails \/ Commit \/ CommitFails \/ WriteMetrics
                 \/ MetricsFail \/ \E n \in 1..BatchSize : Encode(n) \/ DropPoison(n)
        BY <3>1 DEF ReadSpool, DecodeFails, PopQueue, AfterAppendError, SyncFails,
           Commit, CommitFails, WriteMetrics, MetricsFail, Encode, DropPoison,
           spoolVars
      <3>2. CASE Reclaim \/ Advance \/ Drained
        BY <3>2 DEF Reclaim, Advance, Drained, TruncateFails
      <3>3. CASE AppendBatch
        <4>1. Len(batch) \in 0..Len(batch)
          BY <1>0, LenProperties
        <4> QED BY <3>3, <4>1 DEF AppendBatch
      <3>4. ASSUME NEW n \in 0..BatchSize, AppendFails(n) \/ WriterDies(n)
            PROVE  \E m \in 0..Len(batch) : Grow(m)
        <4>1. n \in 0..Len(batch) /\ Grow(n)
          BY <1>0, <3>4, LenProperties DEF AppendFails, WriterDies
        <4> QED BY <4>1
      <3> QED BY <2>1, <3>1, <3>2, <3>3, <3>4 DEF WriterStep, WriterWorks
    <2>2. CASE ProcessStep
      BY <2>2 DEF ProcessStep, Start, RequestStop, FinishStop, spoolVars
    <2>3. ASSUME NEW r \in Requests, RequestStep(r)
          PROVE  UNCHANGED <<spool, synced>>
      BY <2>3 DEF RequestStep, Reserve, Refuse, MarkUpstreamStarted, LogRequest,
         Enqueue, Abandon, LogRejected, BuildFails, writerSide, spoolVars
    <2>4. CASE UNCHANGED vars
      BY <2>4 DEF vars
    <2> QED BY <2>1, <2>2, <2>3, <2>4 DEF Next
  <1> QED BY <1>1, <1>2, <1>3, <1>4, <1>5, <1>6
-----------------------------------------------------------------------------
(* The ledger.                                                             *)

(* What an event's place says of it, in this state and in the next.        *)
LEMMA StatusFacts ==
  ASSUME PlaceInv, NEW r \in Requests
  PROVE  /\ r \notin Accepted => StatusOf(r) = "none"
         /\ r \in rows => StatusOf(r) = "recorded"
         /\ r \in Written \ rows => StatusOf(r) = "lost"
         /\ r \in Accepted \ (rows \union Written) => StatusOf(r) = "pending"
  <1>1. (r \in Accepted <=> phase[r] = "accepted")
        /\ (r \in rows \union Written => phase[r] = "accepted")
    BY DEF PlaceInv, Accepted
  <1> QED BY <1>1 DEF StatusOf, Written

LEMMA StatusNext ==
  ASSUME PlaceInv', NEW r \in Requests
  PROVE  /\ r \notin Accepted' => StatusOf(r)' = "none"
         /\ r \in rows' => StatusOf(r)' = "recorded"
         /\ r \in Written' \ rows' => StatusOf(r)' = "lost"
         /\ r \in Accepted' \ (rows' \union Written') => StatusOf(r)' = "pending"
  <1>1. (r \in Accepted' <=> phase'[r] = "accepted")
        /\ (r \in rows' \union Written' => phase'[r] = "accepted")
    BY DEF PlaceInv, Accepted
  <1> QED BY <1>1 DEF StatusOf, Written

(* Losses are final, and a row is only ever given to an event that has not *)
(* been given up.                                                          *)
LEMMA OutcomesGrow ==
  ASSUME PlaceInv, [Next]_vars
  PROVE  /\ rows \subseteq rows' /\ Written \subseteq Written'
         /\ rows' = rows \/ Written' = Written
         /\ (rows' \ rows) \intersect Written = {}
  <1>0. rows \subseteq rows'
    BY RowsStay
  <1>1. CASE Commit \/ CommitFails
    <2>1. /\ writer = "persist" /\ Written' = Written
          /\ rows' = rows \/ rows' = rows \union Fresh
      BY <1>1 DEF Commit, CommitFails, Retry, InsertBatch, lossVars, Written
    <2>2. Fresh \intersect Written = {}
      BY <2>1 DEF PlaceInv, Fresh, InPlace
    <2> QED BY <1>0, <2>1, <2>2
  <1>2. CASE ~Commit /\ ~CommitFails
    <2>1. rows' = rows /\ Written \subseteq Written'
      <3>1. CASE WriterStep
        BY <1>2, <3>1 DEF WriterStep, WriterWorks, ReadSpool, DecodeFails, PopQueue,
           Reclaim, AppendBatch, AfterAppendError, Sync, SyncFails, WriteMetrics,
           MetricsFail, Advance, Drained, Encode, DropPoison, AppendFails,
           WriterDies, Retry, dbVars, lossVars, Written
      <3>2. CASE ProcessStep
        BY <3>2 DEF ProcessStep, Start, RequestStop, FinishStop, Crash, dbVars,
           lossVars, Written
      <3>3. ASSUME NEW r \in Requests, RequestStep(r)
            PROVE  rows' = rows /\ Written \subseteq Written'
        BY <3>3 DEF RequestStep, Reserve, Refuse, MarkUpstreamStarted, LogRequest,
           Enqueue, Abandon, LogRejected, BuildFails, writerSide, dbVars,
           lossVars, Written
      <3>4. CASE UNCHANGED vars
        BY <3>4 DEF vars, Written
      <3> QED BY <3>1, <3>2, <3>3, <3>4 DEF Next
    <2> QED BY <2>1
  <1> QED BY <1>1, <1>2

(* Only log_request accepts events.                                        *)
LEMMA AcceptedStays ==
  ASSUME IInv, [Next]_vars, \A r \in Requests : ~Enqueue(r)
  PROVE  Accepted' = Accepted
  <1>0. phase \in [Requests -> Phases]
    BY DEF IInv, TokenInv, TokenTypes
  <1>1. CASE WriterStep
    BY <1>1, WriterLeavesTokens DEF Accepted, tokenVars
  <1>2. CASE ProcessStep
    BY <1>2 DEF ProcessStep, Start, RequestStop, FinishStop, Crash, Accepted, Live,
       tokenVars
  <1>3. ASSUME NEW r \in Requests, RequestStep(r)
        PROVE  Accepted' = Accepted
    <2>1. \A q \in Requests : phase'[q] = "accepted" <=> phase[q] = "accepted"
      BY <1>0, <1>3 DEF RequestStep, Reserve, Refuse, MarkUpstreamStarted,
         LogRequest, Abandon, LogRejected, BuildFails, GiveUp
    <2> QED BY <2>1 DEF Accepted
  <1>4. CASE UNCHANGED vars
    BY <1>4 DEF vars, Accepted
  <1> QED BY <1>1, <1>2, <1>3, <1>4 DEF Next

(* Every step of the pipeline accepts one event, records a set of pending  *)
(* ones, gives a set of pending ones up, or changes nothing in the ledger. *)
LEMMA LedgerStep ==
  ASSUME IInv, PlaceInv, [Next]_vars
  PROVE  [Ledger!Next]_([r \in Requests |-> StatusOf(r)])
  <1>0. PlaceInv'
    BY PlaceStep
  <1>1. ASSUME NEW r \in Requests, Enqueue(r)
        PROVE  Ledger!Accept(r)
    <2>1. /\ phase' = [phase EXCEPT ![r] = "accepted"]
          /\ phase \in [Requests -> Phases] /\ phase[r] # "accepted"
          /\ rows' = rows /\ Written' = Written
      BY <1>1 DEF Enqueue, IInv, TokenInv, TokenTypes, dbVars, lossVars, Written
    <2>2. r \notin Accepted /\ Accepted' = Accepted \union {r}
      BY <2>1 DEF Accepted
    <2>3. r \notin rows \union Written
      BY <2>2 DEF PlaceInv
    <2>4. StatusOf(r) = "none" /\ StatusOf(r)' = "pending"
      BY <1>0, <2>1, <2>2, <2>3, StatusFacts, StatusNext
    <2>5. ASSUME NEW q \in Requests, q # r
          PROVE  StatusOf(q)' = StatusOf(q)
      BY <1>0, <2>1, <2>2, <2>5, StatusFacts, StatusNext
    <2>6. [q \in Requests |-> StatusOf(q)']
            = [[q \in Requests |-> StatusOf(q)] EXCEPT ![r] = "pending"]
      BY <2>4, <2>5
    <2> QED BY <2>4, <2>6 DEF Ledger!Accept
  <1>2. ASSUME \A r \in Requests : ~Enqueue(r)
        PROVE  Ledger!Next \/ UNCHANGED [r \in Requests |-> StatusOf(r)]
    <2>1. /\ rows \subseteq rows' /\ Written \subseteq Written'
          /\ rows' = rows \/ Written' = Written
          /\ (rows' \ rows) \intersect Written = {}
          /\ Accepted' = Accepted
          /\ rows' \union Written' \subseteq Accepted
      BY <1>0, <1>2, OutcomesGrow, AcceptedStays, PlaceNext
    <2> DEFINE P == {r \in Requests : StatusOf(r) = "pending"}
    <2>2. CASE rows' = rows
      <3> DEFINE S == {r \in P : r \in Written'}
      <3>1. ASSUME NEW q \in Requests
            PROVE  StatusOf(q)' = IF q \in S THEN "lost" ELSE StatusOf(q)
        BY <1>0, <2>1, <2>2, StatusFacts, StatusNext
      <3>2. CASE S = {}
        BY <3>1, <3>2
      <3>3. CASE S # {}
        <4>1. S \in SUBSET Ledger!Pending
          BY DEF Ledger!Pending
        <4>2. Ledger!GiveUp(S)
          BY <3>1, <3>3 DEF Ledger!GiveUp
        <4> QED BY <4>1, <4>2 DEF Ledger!Next
      <3> QED BY <3>2, <3>3
    <2>3. CASE Written' = Written
      <3> DEFINE S == rows' \ rows
      <3>1. S \subseteq Requests
        BY <2>1 DEF Accepted
      <3>2. ASSUME NEW q \in Requests
            PROVE  StatusOf(q)' = IF q \in S THEN "recorded" ELSE StatusOf(q)
        BY <1>0, <2>1, <2>3, StatusFacts, StatusNext
      <3>3. CASE S = {}
        BY <3>2, <3>3
      <3>4. CASE S # {}
        <4>1. S \in SUBSET Ledger!Pending
          BY <2>1, <3>1, StatusFacts DEF Ledger!Pending
        <4>2. Ledger!Record(S)
          BY <3>2, <3>4 DEF Ledger!Record
        <4> QED BY <4>1, <4>2 DEF Ledger!Next
      <3> QED BY <3>3, <3>4
    <2> QED BY <2>1, <2>2, <2>3
  <1> QED BY <1>1, <1>2 DEF Ledger!Next

(* What a caller is promised (log_request, log_writer_loop): an accepted   *)
(* event is pending until it is recorded or given up, both are final, and  *)
(* what was synced or committed is never lost again.                       *)
THEOREM PromisesAreKept == Spec => Promises
  <1>1. Init => Ledger!Init
    BY DEF Init, Ledger!Init, StatusOf
  <1>2. Whole /\ [Next]_vars => [Ledger!Next]_([r \in Requests |-> StatusOf(r)])
    BY LedgerStep DEF Whole
  <1>3. Spec => LedgerSpec
    BY <1>1, <1>2, AlwaysWhole, PTL DEF Spec, LedgerSpec, Ledger!Spec
  <1>4. Whole /\ [Next]_vars => [Durable \subseteq Durable']_vars
    BY DurableStep DEF Whole
  <1>5. Spec => DurableStays
    BY <1>4, AlwaysWhole, PTL DEF Spec, DurableStays
  <1> QED BY <1>3, <1>5 DEF Promises

-----------------------------------------------------------------------------
(* UsageArchive: the high-water mark.                                      *)

(* A bounded, non-empty set of naturals has a greatest element.            *)
LEMMA GreatestNatural ==
  ASSUME NEW S \in SUBSET Nat, S # {}, NEW b \in Nat, \A x \in S : x <= b
  PROVE  /\ Max(S) \in S
         /\ \A y \in S : y <= Max(S)
  <1> DEFINE T == {b - x : x \in S}
  <1>0. \A x \in S : x \in Nat /\ b - x \in Nat
    <2> SUFFICES ASSUME NEW x \in S PROVE x \in Nat /\ b - x \in Nat
      OBVIOUS
    <2>1. x \in Nat /\ x <= b
      OBVIOUS
    <2> QED BY <2>1
  <1>1. T \subseteq Nat /\ T # {}
    BY <1>0
  <1>2. PICK t \in T : \A u \in T : ~ (<<u, t>> \in OpToRel(<, Nat))
    <2> HIDE DEF T
    <2> QED BY <1>1, NatLessThanWellFounded, WFMin
  <1>3. \A u \in T : ~ (u < t)
    <2> SUFFICES ASSUME NEW u \in T, u < t PROVE FALSE
      OBVIOUS
    <2>1. u \in Nat /\ t \in Nat
      BY <1>1
    <2>2. <<u, t>> \in Nat \X Nat /\ <<u, t>>[1] < <<u, t>>[2]
      BY <2>1
    <2>3. <<u, t>> \in OpToRel(<, Nat)
      BY <2>2 DEF OpToRel
    <2> QED BY <2>3, <1>2
  <1>4. PICK x \in S : t = b - x
    OBVIOUS
  <1>5. \A y \in S : x >= y
    <2> SUFFICES ASSUME NEW y \in S PROVE x >= y
      OBVIOUS
    <2>1. b - y \in T
      OBVIOUS
    <2>2. ~ (b - y < b - x)
      BY <2>1, <1>3, <1>4
    <2>3. x \in Nat /\ y \in Nat
      BY <1>0
    <2> HIDE DEF T
    <2> QED BY <2>2, <2>3
  <1>6. Max(S) \in S /\ \A y \in S : Max(S) >= y
    BY <1>5 DEF Max
  <1>7. Max(S) \in Nat
    BY <1>6
  <1> QED BY <1>6, <1>7

(* The bound of an export is at or above every row of the table, and below *)
(* the next id.                                                            *)
LEMMA MaxLogIdBounds ==
  ASSUME nextId \in Nat \ {0}, \A r \in rows : rowId[r] \in 1..(nextId - 1)
  PROVE  /\ MaxLogId \in Nat /\ MaxLogId < nextId
         /\ \A r \in rows : rowId[r] <= MaxLogId
  <1> DEFINE S == {rowId[r] : r \in rows} \union {0}
  <1>1. \A x \in S : x \in Nat /\ x <= nextId - 1
    OBVIOUS
  <1>2. S \in SUBSET Nat /\ S # {} /\ nextId - 1 \in Nat
    BY <1>1
  <1>3. Max(S) \in S /\ \A y \in S : y <= Max(S)
    <2> HIDE DEF S
    <2> QED BY <1>1, <1>2, GreatestNatural
  <1>4. \A r \in rows : rowId[r] \in S
    OBVIOUS
  <1>5. MaxLogId = Max(S)
    BY DEF MaxLogId
  <1> HIDE DEF S
  <1> QED BY <1>1, <1>3, <1>4, <1>5
-----------------------------------------------------------------------------
(* The inductive invariant.                                                *)

(* The table: rows and their insertions have their types.                  *)
TableInv == rows \subseteq Requests /\ inserts \in [Requests -> Nat]

(* Where mark and bounds stand: an export starts at the mark, every bound  *)
(* lies below the ids still to come, and the rows above the upper bound    *)
(* are above the mark too (deletions may leave a bound below the mark).    *)
BoundsInv ==
  /\ export \in [stage: {"idle", "bounded", "candidate", "committed"},
                 from: Nat, to: Nat]
  /\ mark < nextId
  /\ export.stage # "idle" => export.to < nextId
  /\ export.stage \in {"bounded", "candidate"} =>
       /\ export.from = mark
       /\ \A r \in rows : rowId[r] > export.to => rowId[r] > mark
  /\ export.stage = "committed" => export.to = mark

(* The candidate holds the rows within the bounds as long as it exists:    *)
(* nothing is deleted meanwhile, and what is inserted lies above.          *)
TakenInv ==
  taken = IF export.stage = "candidate" THEN {r \in rows : InBounds(r)} ELSE {}

(* A row the mark has not passed still has its insertion to be counted.    *)
Uncounted(r) == r \in rows /\ rowId[r] > mark
CountInv ==
  \A r \in Requests :
    counted[r] + (IF Uncounted(r) THEN 1 ELSE 0) <= inserts[r]

ArchiveInv ==
  /\ FileInv /\ TableInv /\ ArchiveTypeOK /\ BoundsInv /\ TakenInv
  /\ CountInv /\ MarkCoversCounted /\ DeletedWasCounted
-----------------------------------------------------------------------------
(* What a step of the pipeline does to the table.                          *)

(* Only the transaction of a batch touches request_log.                    *)
LEMMA PipelineInserts ==
  ASSUME Next
  PROVE  InsertBatch \/ UNCHANGED <<rows, inserts>>
  <1>1. ASSUME NEW r \in Requests, RequestStep(r)
        PROVE  UNCHANGED <<rows, inserts>>
    BY <1>1 DEF RequestStep, Reserve, Refuse, MarkUpstreamStarted, LogRequest,
       Enqueue, Abandon, LogRejected, BuildFails, writerSide, dbVars
  <1>2. CASE WriterStep
    <2>1. CASE Commit \/ CommitFails
      BY <2>1 DEF Commit, CommitFails
    <2>2. CASE ~ (Commit \/ CommitFails)
      BY <1>2, <2>2 DEF WriterStep, WriterWorks, ReadSpool, DecodeFails,
         PopQueue, Reclaim, AppendBatch, AfterAppendError, Sync, SyncFails,
         WriteMetrics, MetricsFail, Advance, Drained, Encode, DropPoison,
         AppendFails, WriterDies, dbVars
    <2> QED BY <2>1, <2>2
  <1>3. CASE ProcessStep
    BY <1>3 DEF ProcessStep, Start, RequestStop, FinishStop, Crash, dbVars
  <1> QED BY <1>1, <1>2, <1>3 DEF Next

(* An event of the batch has its position in it.                           *)
LEMMA PositionInBatch ==
  ASSUME NEW r \in Events(batch)
  PROVE  Position(r) \in 1..Len(batch) /\ batch[Position(r)] = r
  <1>1. \E i \in 1..Len(batch) : batch[i] = r
    BY DEF Events
  <1> QED BY <1>1 DEF Position

(* Rows keep their ids; new rows get ids of their own from the counter,    *)
(* one insertion each.                                                     *)
LEMMA RowsGrow ==
  ASSUME ArchiveInv, PipelineStep
  PROVE  /\ rows \subseteq rows' /\ TableInv'
         /\ rowId' \in [Requests -> Nat]
         /\ nextId' \in Nat \ {0} /\ nextId <= nextId'
         /\ \A r \in rows : rowId'[r] = rowId[r]
         /\ \A r \in rows' \ rows : nextId <= rowId'[r] /\ rowId'[r] < nextId'
         /\ \A r, s \in rows' \ rows : rowId'[r] = rowId'[s] => r = s
         /\ \A r \in Requests : inserts'[r] =
              IF r \in rows' \ rows THEN inserts[r] + 1 ELSE inserts[r]
  <1> DEFINE new == rows' \ rows
  <1>1. /\ rows \subseteq Requests /\ inserts \in [Requests -> Nat]
        /\ batch \in Seq(Requests) /\ Len(batch) \in Nat
        /\ rowId \in [Requests -> Nat] /\ nextId \in Nat \ {0}
    BY FileFacts DEF ArchiveInv, TableInv, ArchiveTypeOK
  <1>2. /\ rowId' = [r \in Requests |->
                       IF r \in new THEN nextId + Position(r) - 1 ELSE rowId[r]]
        /\ nextId' = IF new = {} THEN nextId ELSE nextId + Len(batch)
    BY DEF PipelineStep
  <1>3. InsertBatch \/ UNCHANGED <<rows, inserts>>
    BY PipelineInserts DEF PipelineStep
  <1>4. /\ rows \subseteq rows' /\ rows' \subseteq Requests
        /\ new \subseteq Events(batch)
        /\ inserts' \in [Requests -> Nat]
        /\ \A r \in Requests : inserts'[r] =
             IF r \in new THEN inserts[r] + 1 ELSE inserts[r]
    <2>1. CASE InsertBatch
      <3>1. Events(batch) \subseteq Requests
        BY <1>1, EventsType
      <3>2. new = Fresh
        BY <2>1 DEF InsertBatch, Fresh
      <3>3. /\ rows' = rows \union Fresh
            /\ inserts' = [r \in Requests |->
                 IF r \in Fresh THEN inserts[r] + 1 ELSE inserts[r]]
        BY <2>1 DEF InsertBatch
      <3>4. Fresh \subseteq Events(batch)
        BY DEF Fresh
      <3> HIDE DEF new
      <3> QED BY <1>1, <3>1, <3>2, <3>3, <3>4
    <2>2. CASE UNCHANGED <<rows, inserts>>
      BY <2>2, <1>1
    <2> QED BY <1>3, <2>1, <2>2
  <1>5. \A r \in new : /\ Position(r) \in 1..Len(batch)
                       /\ batch[Position(r)] = r
    BY <1>4, PositionInBatch
  <1>6. new \subseteq Requests
    BY <1>4
  <1> HIDE DEF new
  <1>7. \A r \in new : rowId'[r] = nextId + Position(r) - 1
    BY <1>2, <1>6
  <1>8. \A r \in new : nextId <= rowId'[r] /\ rowId'[r] < nextId'
    <2> SUFFICES ASSUME NEW r \in new
                 PROVE  nextId <= rowId'[r] /\ rowId'[r] < nextId'
      OBVIOUS
    <2>1. nextId' = nextId + Len(batch)
      BY <1>2
    <2> QED BY <2>1, <1>1, <1>5, <1>7
  <1>9. \A r, s \in new : rowId'[r] = rowId'[s] => r = s
    <2> SUFFICES ASSUME NEW r \in new, NEW s \in new, rowId'[r] = rowId'[s]
                 PROVE  r = s
      OBVIOUS
    <2>1. nextId + Position(r) - 1 = nextId + Position(s) - 1
      BY <1>7
    <2>2. Position(r) \in Int /\ Position(s) \in Int
      BY <1>1, <1>5
    <2>3. Position(r) = Position(s)
      BY <1>1, <2>1, <2>2
    <2> QED BY <2>3, <1>5
  <1>10. rowId' \in [Requests -> Nat]
    <2>1. \A r \in Requests : rowId'[r] \in Nat
      <3> SUFFICES ASSUME NEW r \in Requests PROVE rowId'[r] \in Nat
        OBVIOUS
      <3>1. CASE r \in new
        BY <3>1, <1>1, <1>5, <1>7
      <3>2. CASE r \notin new
        BY <3>2, <1>1, <1>2
      <3> QED BY <3>1, <3>2
    <2> QED BY <2>1, <1>2
  <1>11. nextId' \in Nat \ {0} /\ nextId <= nextId'
    BY <1>1, <1>2
  <1>12. \A r \in rows : rowId'[r] = rowId[r]
    <2> SUFFICES ASSUME NEW r \in rows PROVE rowId'[r] = rowId[r]
      OBVIOUS
    <2>1. r \notin new /\ r \in Requests
      BY <1>1 DEF new
    <2> QED BY <2>1, <1>2
  <1>13. TableInv'
    BY <1>4 DEF TableInv
  <1> QED BY <1>4, <1>8, <1>9, <1>10, <1>11, <1>12, <1>13 DEF new
-----------------------------------------------------------------------------
(* Preservation, one lemma per kind of step.                               *)

(* ArchiveInv, in the form the steps use it.                               *)
LEMMA ArchiveFacts ==
  ASSUME ArchiveInv
  PROVE  /\ rows \subseteq Requests /\ inserts \in [Requests -> Nat]
         /\ rowId \in [Requests -> Nat] /\ nextId \in Nat \ {0}
         /\ mark \in Nat /\ mark < nextId
         /\ export \in [stage: {"idle", "bounded", "candidate", "committed"},
                        from: Nat, to: Nat]
         /\ counted \in [Requests -> Nat]
         /\ taken \subseteq Requests /\ deleted \subseteq Requests
         /\ \A r \in rows : rowId[r] \in 1..(nextId - 1)
         /\ \A r, s \in rows : rowId[r] = rowId[s] => r = s
  BY DEF ArchiveInv, TableInv, ArchiveTypeOK, BoundsInv

LEMMA PipelineKeeps ==
  ASSUME ArchiveInv, PipelineStep
  PROVE  ArchiveInv'
  <1>0. UNCHANGED archiveVars
    BY DEF PipelineStep
  <1>1. /\ mark' = mark /\ export' = export /\ taken' = taken
        /\ counted' = counted /\ deleted' = deleted
    BY <1>0 DEF archiveVars
  <1>2. FileInv'
    BY FileStep DEF ArchiveInv, PipelineStep
  <1>3. TableInv'
    BY RowsGrow
  <1>4. ArchiveTypeOK'
    <2>1. \A r \in rows' : rowId'[r] \in 1..(nextId' - 1)
      <3> SUFFICES ASSUME NEW r \in rows'
                   PROVE  rowId'[r] \in 1..(nextId' - 1)
        OBVIOUS
      <3>0. nextId \in Nat \ {0} /\ nextId' \in Nat /\ nextId <= nextId'
        BY RowsGrow, ArchiveFacts
      <3>1. CASE r \in rows
        <4>1. rowId'[r] = rowId[r] /\ rowId[r] \in 1..(nextId - 1)
          BY <3>1, RowsGrow, ArchiveFacts
        <4> QED BY <4>1, <3>0
      <3>2. CASE r \notin rows
        <4>1. nextId <= rowId'[r] /\ rowId'[r] < nextId'
          BY <3>2, RowsGrow
        <4>2. r \in Requests
          BY RowsGrow DEF TableInv
        <4>3. rowId'[r] \in Nat
          BY <4>2, RowsGrow
        <4> QED BY <4>1, <4>3, <3>0
      <3> QED BY <3>1, <3>2
    <2>2. \A r, s \in rows' : rowId'[r] = rowId'[s] => r = s
      <3> SUFFICES ASSUME NEW r \in rows', NEW s \in rows',
                          rowId'[r] = rowId'[s]
                   PROVE  r = s
        OBVIOUS
      <3>0. /\ \A q \in rows : rowId'[q] < nextId /\ rowId'[q] = rowId[q]
            /\ \A q \in rows' \ rows : ~ (rowId'[q] < nextId)
        <4>1. \A q \in rows : rowId'[q] = rowId[q] /\ rowId[q] < nextId
          BY RowsGrow, ArchiveFacts
        <4>2. \A q \in rows' \ rows : nextId <= rowId'[q] /\ rowId'[q] \in Nat
          BY RowsGrow DEF TableInv
        <4>3. nextId \in Nat
          BY ArchiveFacts
        <4> QED BY <4>1, <4>2, <4>3
      <3>1. CASE r \in rows /\ s \in rows
        BY <3>0, <3>1, ArchiveFacts
      <3>2. CASE r \notin rows /\ s \notin rows
        BY <3>2, RowsGrow
      <3> QED BY <3>0, <3>1, <3>2
    <2>3. /\ rowId' \in [Requests -> Nat] /\ nextId' \in Nat \ {0}
      BY RowsGrow
    <2> QED BY <1>1, <2>1, <2>2, <2>3, ArchiveFacts DEF ArchiveTypeOK
  <1>5. \A r \in rows' \ rows :
          /\ rowId'[r] > mark
          /\ export.stage # "idle" => rowId'[r] > export.to
    <2> SUFFICES ASSUME NEW r \in rows' \ rows
                 PROVE  /\ rowId'[r] > mark
                        /\ export.stage # "idle" => rowId'[r] > export.to
      OBVIOUS
    <2>1. nextId <= rowId'[r] /\ rowId'[r] \in Nat
      BY RowsGrow DEF TableInv
    <2>2. /\ nextId \in Nat /\ mark \in Nat /\ mark < nextId
          /\ export.to \in Nat
      BY ArchiveFacts
    <2>3. export.stage # "idle" => export.to < nextId
      BY DEF ArchiveInv, BoundsInv
    <2> QED BY <2>1, <2>2, <2>3
  <1>6. \A r \in rows : rowId'[r] = rowId[r]
    BY RowsGrow
  <1>7. BoundsInv'
    <2>1. /\ mark' < nextId'
          /\ export.stage # "idle" => export'.to < nextId'
      <3>1. /\ nextId \in Nat /\ nextId' \in Nat /\ nextId <= nextId'
            /\ mark \in Nat /\ mark < nextId /\ export.to \in Nat
        BY RowsGrow, ArchiveFacts
      <3>2. export.stage # "idle" => export.to < nextId
        BY DEF ArchiveInv, BoundsInv
      <3> QED BY <1>1, <3>1, <3>2
    <2>2. ASSUME export.stage \in {"bounded", "candidate"}
          PROVE  /\ export.from = mark
                 /\ \A r \in rows' : rowId'[r] > export.to => rowId'[r] > mark
      <3>1. /\ export.from = mark
            /\ \A r \in rows : rowId[r] > export.to => rowId[r] > mark
        BY <2>2 DEF ArchiveInv, BoundsInv
      <3> QED BY <3>1, <1>5, <1>6
    <2>3. export.stage = "committed" => export.to = mark
      BY DEF ArchiveInv, BoundsInv
    <2> QED BY <1>1, <2>1, <2>2, <2>3, ArchiveFacts DEF BoundsInv
  <1>8. TakenInv'
    <2>1. CASE export.stage = "candidate"
      <3>1. taken = {r \in rows : InBounds(r)}
        BY <2>1 DEF ArchiveInv, TakenInv
      <3>2. \A r \in rows' \ rows : ~ (rowId'[r] <= export.to)
        <4> SUFFICES ASSUME NEW r \in rows' \ rows
                     PROVE  ~ (rowId'[r] <= export.to)
          OBVIOUS
        <4>1. rowId'[r] > export.to
          BY <2>1, <1>5
        <4>2. rowId'[r] \in Nat /\ export.to \in Nat
          BY RowsGrow, ArchiveFacts DEF TableInv
        <4> QED BY <4>1, <4>2
      <3>3. rows \subseteq rows'
        BY RowsGrow
      <3>4. {r \in rows' : InBounds(r)'} = {r \in rows : InBounds(r)}
        BY <1>1, <1>6, <3>2, <3>3 DEF InBounds
      <3> QED BY <1>1, <2>1, <3>1, <3>4 DEF TakenInv
    <2>2. CASE export.stage # "candidate"
      BY <1>1, <2>2 DEF ArchiveInv, TakenInv
    <2> QED BY <2>1, <2>2
  <1>9. CountInv'
    <2> SUFFICES ASSUME NEW r \in Requests
                 PROVE  (counted[r] + (IF Uncounted(r) THEN 1 ELSE 0)
                           <= inserts[r])'
      BY DEF CountInv
    <2>1. /\ counted[r] + (IF Uncounted(r) THEN 1 ELSE 0) <= inserts[r]
          /\ counted[r] \in Nat /\ inserts[r] \in Nat
      BY ArchiveFacts DEF ArchiveInv, CountInv
    <2>2. inserts'[r] = IF r \in rows' \ rows THEN inserts[r] + 1 ELSE inserts[r]
      BY RowsGrow
    <2>3. CASE r \in rows' \ rows
      BY <1>1, <2>1, <2>2, <2>3 DEF Uncounted
    <2>4. CASE r \notin rows' \ rows
      <3>1. Uncounted(r)' <=> Uncounted(r)
        BY <2>4, <1>1, <1>6, RowsGrow DEF Uncounted
      <3> QED BY <3>1, <1>1, <2>1, <2>2, <2>4
    <2> QED BY <2>3, <2>4
  <1>10. MarkCoversCounted'
    <2> SUFFICES ASSUME NEW r \in rows', rowId'[r] <= mark
                 PROVE  counted[r] >= 1
      BY <1>1 DEF MarkCoversCounted
    <2>1. r \in rows
      <3>1. rowId'[r] \in Nat /\ mark \in Nat
        BY RowsGrow, ArchiveFacts DEF TableInv
      <3> QED BY <3>1, <1>5
    <2> QED BY <2>1, <1>6 DEF ArchiveInv, MarkCoversCounted
  <1>11. DeletedWasCounted'
    BY <1>1 DEF ArchiveInv, DeletedWasCounted
  <1> QED BY <1>2, <1>3, <1>4, <1>7, <1>8, <1>9, <1>10, <1>11 DEF ArchiveInv

(* A step that leaves the pipeline alone leaves its file alone.            *)
LEMMA FileStands ==
  ASSUME ArchiveInv, UNCHANGED vars
  PROVE  FileInv' /\ UNCHANGED <<rows, inserts>>
  BY FileStep DEF ArchiveInv, vars

(* The bounds are read: nothing in the table lies above the upper one.     *)
LEMMA BeginKeeps ==
  ASSUME ArchiveInv, BeginExport
  PROVE  ArchiveInv'
  <1>1. /\ export.stage = "idle"
        /\ export' = [stage |-> "bounded", from |-> mark, to |-> MaxLogId]
        /\ rows' = rows /\ inserts' = inserts /\ rowId' = rowId
        /\ nextId' = nextId /\ mark' = mark /\ taken' = taken
        /\ counted' = counted /\ deleted' = deleted /\ UNCHANGED vars
    BY DEF BeginExport, Idle, vars, tableVars
  <1>2. FileInv'
    BY <1>1, FileStands
  <1>3. /\ MaxLogId \in Nat /\ MaxLogId < nextId
        /\ \A r \in rows : rowId[r] <= MaxLogId
    BY ArchiveFacts, MaxLogIdBounds
  <1>4. BoundsInv'
    <2>1. \A r \in rows : ~ (rowId[r] > MaxLogId)
      <3>1. \A r \in rows : rowId[r] \in Nat
        BY ArchiveFacts
      <3> QED BY <3>1, <1>3
    <2> QED BY <1>1, <1>3, <2>1, ArchiveFacts DEF BoundsInv
  <1>5. TakenInv'
    BY <1>1 DEF ArchiveInv, TakenInv
  <1>6. /\ TableInv' /\ CountInv' /\ MarkCoversCounted' /\ DeletedWasCounted'
    BY <1>1 DEF ArchiveInv, TableInv, CountInv, Uncounted, MarkCoversCounted,
       DeletedWasCounted
  <1>7. ArchiveTypeOK'
    BY <1>1, ArchiveFacts DEF ArchiveTypeOK
  <1> QED BY <1>2, <1>4, <1>5, <1>6, <1>7 DEF ArchiveInv

(* The rows within the bounds become the candidate.                        *)
LEMMA ExportKeeps ==
  ASSUME ArchiveInv, ExportRows
  PROVE  ArchiveInv'
  <1>1. /\ export.stage = "bounded"
        /\ export' = [export EXCEPT !.stage = "candidate"]
        /\ taken' = {r \in rows : InBounds(r)}
        /\ rows' = rows /\ inserts' = inserts /\ rowId' = rowId
        /\ nextId' = nextId /\ mark' = mark
        /\ counted' = counted /\ deleted' = deleted /\ UNCHANGED vars
    BY DEF ExportRows, vars, tableVars
  <1>2. FileInv'
    BY <1>1, FileStands
  <1>3. /\ export'.stage = "candidate" /\ export'.from = export.from
        /\ export'.to = export.to
        /\ export' \in [stage: {"idle", "bounded", "candidate", "committed"},
                        from: Nat, to: Nat]
    BY <1>1, ArchiveFacts
  <1>4. BoundsInv'
    BY <1>1, <1>3 DEF ArchiveInv, BoundsInv
  <1>5. TakenInv'
    BY <1>1, <1>3 DEF TakenInv, InBounds
  <1>6. /\ TableInv' /\ CountInv' /\ MarkCoversCounted' /\ DeletedWasCounted'
    BY <1>1 DEF ArchiveInv, TableInv, CountInv, Uncounted, MarkCoversCounted,
       DeletedWasCounted
  <1>7. ArchiveTypeOK'
    BY <1>1, <1>3, ArchiveFacts DEF ArchiveTypeOK
  <1> QED BY <1>2, <1>4, <1>5, <1>6, <1>7 DEF ArchiveInv

(* The candidate becomes the archive and the mark moves to its bound: what *)
(* the mark passes has just been counted.                                  *)
LEMMA CommitKeeps ==
  ASSUME ArchiveInv, CommitExport
  PROVE  ArchiveInv'
  <1>1. /\ export.stage = "candidate"
        /\ export' = [export EXCEPT !.stage = "committed", !.to = export.to]
        /\ mark' = export.to /\ taken' = {}
        /\ counted' = [r \in Requests |->
                         IF r \in taken THEN counted[r] + 1 ELSE counted[r]]
        /\ rows' = rows /\ inserts' = inserts /\ rowId' = rowId
        /\ nextId' = nextId /\ deleted' = deleted /\ UNCHANGED vars
    BY DEF CommitExport, NewMark, vars, tableVars
  <1>2. FileInv'
    BY <1>1, FileStands
  <1>3. /\ export'.stage = "committed" /\ export'.to = export.to
        /\ export' \in [stage: {"idle", "bounded", "candidate", "committed"},
                        from: Nat, to: Nat]
    BY <1>1, ArchiveFacts
  <1>4. /\ export.from = mark /\ export.to \in Nat /\ export.to < nextId
        /\ \A r \in rows : rowId[r] > export.to => rowId[r] > mark
        /\ taken = {r \in rows : mark < rowId[r] /\ rowId[r] <= export.to}
    BY <1>1, ArchiveFacts DEF ArchiveInv, BoundsInv, TakenInv, InBounds
  <1>5. BoundsInv'
    BY <1>1, <1>3, <1>4 DEF BoundsInv
  <1>6. TakenInv'
    BY <1>1, <1>3 DEF TakenInv
  <1>7. counted' \in [Requests -> Nat]
    BY <1>1, ArchiveFacts
  <1>8. CountInv'
    <2> SUFFICES ASSUME NEW r \in Requests
                 PROVE  (counted[r] + (IF Uncounted(r) THEN 1 ELSE 0)
                           <= inserts[r])'
      BY DEF CountInv
    <2>1. /\ counted[r] + (IF Uncounted(r) THEN 1 ELSE 0) <= inserts[r]
          /\ counted[r] \in Nat /\ inserts[r] \in Nat
      BY ArchiveFacts DEF ArchiveInv, CountInv
    <2>2. /\ counted'[r] = IF r \in taken THEN counted[r] + 1 ELSE counted[r]
          /\ inserts'[r] = inserts[r]
      BY <1>1
    <2>3. /\ r \in taken => Uncounted(r) /\ ~ Uncounted(r)'
          /\ Uncounted(r)' => Uncounted(r)
      <3>1. /\ r \in taken => r \in rows /\ rowId[r] > mark
                              /\ ~ (rowId[r] > export.to)
        BY <1>4, ArchiveFacts
      <3> QED BY <3>1, <1>1, <1>4 DEF Uncounted
    <2> QED BY <2>1, <2>2, <2>3
  <1>9. MarkCoversCounted'
    <2> SUFFICES ASSUME NEW r \in rows, rowId[r] <= export.to
                 PROVE  counted'[r] >= 1
      BY <1>1 DEF MarkCoversCounted
    <2>1. r \in Requests /\ rowId[r] \in Nat /\ mark \in Nat
          /\ counted[r] \in Nat
      BY ArchiveFacts
    <2>2. CASE mark < rowId[r]
      <3>1. r \in taken
        BY <2>2, <1>4
      <3> QED BY <3>1, <2>1, <1>1
    <2>3. CASE rowId[r] <= mark
      <3>1. counted[r] >= 1
        BY <2>3 DEF ArchiveInv, MarkCoversCounted
      <3> QED BY <3>1, <2>1, <1>1
    <2> QED BY <2>1, <2>2, <2>3
  <1>10. DeletedWasCounted'
    <2> SUFFICES ASSUME NEW r \in deleted PROVE counted'[r] >= 1
      BY <1>1 DEF DeletedWasCounted
    <2>1. r \in Requests /\ counted[r] \in Nat /\ counted[r] >= 1
      BY ArchiveFacts DEF ArchiveInv, DeletedWasCounted
    <2> QED BY <2>1, <1>1
  <1>11. TableInv'
    BY <1>1 DEF ArchiveInv, TableInv
  <1>12. ArchiveTypeOK'
    BY <1>1, <1>3, <1>4, <1>7, ArchiveFacts DEF ArchiveTypeOK
  <1> QED BY <1>2, <1>5, <1>6, <1>8, <1>9, <1>10, <1>11, <1>12 DEF ArchiveInv

(* A failed export leaves archive and mark as they were.                   *)
LEMMA AbortKeeps ==
  ASSUME ArchiveInv, AbortExport
  PROVE  ArchiveInv'
  <1>1. /\ export' = [stage |-> "idle", from |-> 0, to |-> 0] /\ taken' = {}
        /\ rows' = rows /\ inserts' = inserts /\ rowId' = rowId
        /\ nextId' = nextId /\ mark' = mark
        /\ counted' = counted /\ deleted' = deleted /\ UNCHANGED vars
    BY DEF AbortExport, Idle, vars, tableVars
  <1>2. FileInv'
    BY <1>1, FileStands
  <1>3. BoundsInv' /\ TakenInv'
    BY <1>1, ArchiveFacts DEF BoundsInv, TakenInv
  <1>4. /\ TableInv' /\ CountInv' /\ MarkCoversCounted' /\ DeletedWasCounted'
    BY <1>1 DEF ArchiveInv, TableInv, CountInv, Uncounted, MarkCoversCounted,
       DeletedWasCounted
  <1>5. ArchiveTypeOK'
    BY <1>1, ArchiveFacts DEF ArchiveTypeOK
  <1> QED BY <1>2, <1>3, <1>4, <1>5 DEF ArchiveInv

(* What cleanup deletes the mark has passed.                               *)
LEMMA CleanupKeeps ==
  ASSUME ArchiveInv, NEW old, Cleanup(old)
  PROVE  ArchiveInv'
  <1>1. /\ export.stage = "committed"
        /\ old \subseteq {r \in rows : rowId[r] <= export.to}
        /\ rows' = rows \ old /\ deleted' = deleted \union old
        /\ export' = [stage |-> "idle", from |-> 0, to |-> 0]
        /\ inserts' = inserts /\ rowId' = rowId /\ nextId' = nextId
        /\ mark' = mark /\ taken' = taken /\ counted' = counted
    BY DEF Cleanup, Idle, tableVars
  <1>2. FileInv'
    BY DEF Cleanup, ArchiveInv, FileInv, ModeTypes, FileTypes, WriterTypes,
       BatchInFile, Running, modeVars, spoolVars, batchVars
  <1>3. export.to = mark /\ taken = {}
    BY <1>1 DEF ArchiveInv, BoundsInv, TakenInv
  <1>4. BoundsInv' /\ TakenInv'
    BY <1>1, <1>3, ArchiveFacts DEF BoundsInv, TakenInv
  <1>5. CountInv'
    <2> SUFFICES ASSUME NEW r \in Requests
                 PROVE  (counted[r] + (IF Uncounted(r) THEN 1 ELSE 0)
                           <= inserts[r])'
      BY DEF CountInv
    <2>1. /\ counted[r] + (IF Uncounted(r) THEN 1 ELSE 0) <= inserts[r]
          /\ counted[r] \in Nat /\ inserts[r] \in Nat
      BY ArchiveFacts DEF ArchiveInv, CountInv
    <2>2. Uncounted(r)' => Uncounted(r)
      BY <1>1 DEF Uncounted
    <2> QED BY <1>1, <2>1, <2>2
  <1>6. MarkCoversCounted' /\ TableInv'
    BY <1>1 DEF ArchiveInv, MarkCoversCounted, TableInv
  <1>7. DeletedWasCounted'
    BY <1>1, <1>3 DEF ArchiveInv, DeletedWasCounted, MarkCoversCounted
  <1>8. ArchiveTypeOK'
    BY <1>1, ArchiveFacts DEF ArchiveTypeOK
  <1> QED BY <1>2, <1>4, <1>5, <1>6, <1>7, <1>8 DEF ArchiveInv
-----------------------------------------------------------------------------
(* The theorems.                                                           *)

LEMMA InitArchiveInv == ArchiveInit => ArchiveInv
  <1> SUFFICES ASSUME ArchiveInit PROVE ArchiveInv
    OBVIOUS
  <1>1. FileInv
    BY InitIInv DEF ArchiveInit, IInv
  <1>2. /\ rows = {} /\ inserts = [r \in Requests |-> 0]
        /\ rowId = [r \in Requests |-> 0] /\ nextId = 1 /\ mark = 0
        /\ export = [stage |-> "idle", from |-> 0, to |-> 0] /\ taken = {}
        /\ counted = [r \in Requests |-> 0] /\ deleted = {}
    BY DEF ArchiveInit, Init, Idle
  <1>3. TableInv /\ BoundsInv /\ TakenInv
    BY <1>2 DEF TableInv, BoundsInv, TakenInv
  <1>4. CountInv /\ MarkCoversCounted /\ DeletedWasCounted
    BY <1>2 DEF CountInv, Uncounted, MarkCoversCounted, DeletedWasCounted
  <1>5. ArchiveTypeOK
    BY <1>2 DEF ArchiveTypeOK
  <1> QED BY <1>1, <1>3, <1>4, <1>5 DEF ArchiveInv

LEMMA NextArchiveInv == ArchiveInv /\ [ArchiveNext]_avars => ArchiveInv'
  <1> SUFFICES ASSUME ArchiveInv, [ArchiveNext]_avars
               PROVE  ArchiveInv'
    OBVIOUS
  <1>1. CASE UNCHANGED avars
    <2>1. /\ UNCHANGED vars
          /\ rowId' = rowId /\ nextId' = nextId /\ mark' = mark
          /\ export' = export /\ taken' = taken
          /\ counted' = counted /\ deleted' = deleted
      BY <1>1 DEF avars, tableVars, archiveVars
    <2>2. FileInv' /\ rows' = rows /\ inserts' = inserts
      BY <2>1, FileStands
    <2> QED BY <2>1, <2>2
         DEF ArchiveInv, TableInv, ArchiveTypeOK, BoundsInv, TakenInv, CountInv,
             MarkCoversCounted, DeletedWasCounted, InBounds, Uncounted
  <1> QED BY <1>1, PipelineKeeps, BeginKeeps, ExportKeeps, CommitKeeps,
             AbortKeeps, CleanupKeeps DEF ArchiveNext

LEMMA AlwaysArchiveInv == ArchiveSpec => []ArchiveInv
  BY InitArchiveInv, NextArchiveInv, PTL DEF ArchiveSpec

(* Every row of request_log has an id the AUTOINCREMENT counter has        *)
(* passed, no two rows the same one (ArchiveTypeOK).                       *)
THEOREM ArchiveTypes == ArchiveSpec => []ArchiveTypeOK
  <1>1. ArchiveInv => ArchiveTypeOK
    BY DEF ArchiveInv
  <1> QED BY <1>1, AlwaysArchiveInv, PTL

(* Whatever the pipeline inserts while the dashboard exports, however      *)
(* exports fail and whenever rows are deleted: a row goes only after the   *)
(* archive has counted it, the mark jumps over none, and the archive never *)
(* counts an event more often than a row was inserted for it.              *)
THEOREM ArchiveCountsEveryRow == ArchiveSpec => []ArchiveExact
  <1>1. ArchiveInv => ArchiveExact
    <2> SUFFICES ASSUME ArchiveInv PROVE CountedPerRow
      BY DEF ArchiveInv, ArchiveExact
    <2> SUFFICES ASSUME NEW r \in Requests PROVE counted[r] <= inserts[r]
      BY DEF CountedPerRow
    <2>1. /\ counted[r] + (IF Uncounted(r) THEN 1 ELSE 0) <= inserts[r]
          /\ counted[r] \in Nat /\ inserts[r] \in Nat
      BY ArchiveFacts DEF ArchiveInv, CountInv
    <2> QED BY <2>1
  <1> QED BY <1>1, AlwaysArchiveInv, PTL
=============================================================================

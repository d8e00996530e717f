----------------------------- MODULE UsageImport -----------------------------
(***************************************************************************)
(* The import of the coding agents' own session files: the maintenance     *)
(* process (src/maintenance.py), its import worker with the wake-up a      *)
(* browser sends and the thirty-minute deadline (services/runtime_tasks),  *)
(* the pass over every software and file (agent_usage/importer.py) with    *)
(* its cursor and permanent receipts (db/proxy/routing.py), and three of   *)
(* the adapters: kimi-code, claude-code and codex.                         *)
(*                                                                         *)
(* The agents append to the files whenever they like, while a pass stands  *)
(* between looking at a file's size, reading it, looking again and         *)
(* committing.  Files are only appended to, so their length is their stat. *)
(* One session is one file.                                                *)
(***************************************************************************)
EXTENDS CodexRollout, SequencesExt

CONSTANTS
    KimiFiles, ClaudeFiles, CodexFiles, \* the session files of each software
    MaxRequests,  \* bound: requests the agents make
    MaxWrites,    \* bound: appends to the files
    MaxFaults,    \* bound: failed reads and commits, stops and crashes
    MaxTriggers   \* bound: wake-ups sent by browsers

Files == KimiFiles \cup ClaudeFiles \cup CodexFiles

ASSUME FilesAssumption ==
    /\ KimiFiles \cap ClaudeFiles = {}
    /\ (KimiFiles \cup ClaudeFiles) \cap CodexFiles = {}
    /\ {MaxRequests, MaxWrites, MaxFaults, MaxTriggers} \subseteq Nat

Requests == 1..MaxRequests
Unscanned == -1   \* no cursor for the file
NoParent == [of |-> "none", subagent |-> FALSE]

VARIABLES
    file,      \* what each session file holds: a sequence of records
    parent,    \* the Codex session a session was made from, and how
    owed,      \* Codex: the request whose durable record has no mirror yet
    late,      \* the requests whose mirror came after a pass had read without it (history)
    made,      \* requests made so far
    writes,    \* appends so far: the clock
    receipts,  \* the permanent receipts: event ids
    log,       \* request_log rows: [id, r, timed]
    counted,   \* how often each request was inserted (history)
    cursor,    \* cursor_json: the size at which each file was read completely
    unread,    \* the files whose cursor rests on a read that broke off (history)
    service,   \* "up", "stopping" or "down"
    wake,      \* the worker's wake event
    asked,     \* a trigger was accepted and no pass has started since (history)
    triggers,  \* wake-ups so far
    faults,    \* faults so far
    pass       \* the pass in progress

agents == <<file, parent, owed, late, made, writes>>
ledger == <<receipts, log, counted, cursor, unread>>
worker == <<service, wake, asked, triggers>>
vars == <<agents, ledger, worker, faults, pass>>

-----------------------------------------------------------------------------
(* The agents (external)                                                   *)

Write(f, recs) ==
    /\ writes < MaxWrites
    /\ writes' = writes + 1
    /\ file' = [file EXCEPT ![f] = @ \o recs]

Now(k, r, cum) == Record(k, r, cum, writes + 1)

NewRequest == made < MaxRequests /\ made' = made + 1

\* Kimi appends one usage record for a request.
KimiWrites(f) ==
    /\ NewRequest
    /\ Write(f, <<Now("usage", made + 1, 0)>>)
    /\ UNCHANGED <<parent, owed, late>>

\* Claude Code appends a line for each block of a reply, and the last one
\* carries the stop reason.
LinesOf(recs, r) == {i \in DOMAIN recs : recs[i].r = r}

Finished(recs, r) == \E i \in LinesOf(recs, r) : recs[i].k = "stop"

ClaudeWrites(f) ==
    /\ \E k \in {"block", "stop"} :
        \/ NewRequest /\ Write(f, <<Now(k, made + 1, 0)>>)
        \/ \E r \in Requests :
            /\ LinesOf(file[f], r) # {} /\ ~Finished(file[f], r)
            /\ Write(f, <<Now(k, r, 0)>>)
            /\ UNCHANGED made
    /\ UNCHANGED <<parent, owed, late>>

\* A resumed session starts with a copy of the lines of the old one.
ClaudeResumes(f, g) ==
    /\ file[f] = <<>> /\ file[g] # <<>>
    /\ Write(f, file[g])
    /\ UNCHANGED <<parent, owed, late, made>>

\* Codex: the two series of records have a running total each.
Total(f, k) ==
    1 + Max({file[f][i].cum : i \in {j \in DOMAIN file[f] : file[f][j].k = k}} \cup {0})

Header(f) == IF file[f] = <<>> THEN <<Now("meta", NoRequest, 0)>> ELSE <<>>

Durable(f, r) == Now("durable", r, Total(f, "durable"))
Mirror(f, r) == Now("ui", r, Total(f, "ui"))

\* A request leaves both records, only the UI one (builds that did not write
\* the other), or only the durable one (an interrupted call).
CodexRequests(f) ==
    /\ NewRequest
    /\ \E recs \in { <<Durable(f, made + 1), Mirror(f, made + 1)>>,
                     <<Mirror(f, made + 1)>>, <<Durable(f, made + 1)>> } :
        /\ Write(f, Header(f) \o recs)
        /\ owed' = [owed EXCEPT ![f] = IF Last(recs).k = "durable" THEN made + 1
                                       ELSE NoRequest]
    /\ UNCHANGED <<parent, late>>

\* The mirror of the last durable record, in an append of its own.  A pass may
\* have read the durable record before: it is late, then.
AlreadyRead(r) == counted[r] > 0 \/ \E e \in pass.events : e.r = r

CodexMirrors(f) ==
    /\ owed[f] # NoRequest
    /\ Write(f, <<Mirror(f, owed[f])>>)
    /\ late' = late \cup {r \in {owed[f]} : AlreadyRead(r)}
    /\ owed' = [owed EXCEPT ![f] = NoRequest]
    /\ UNCHANGED <<parent, made>>

\* The last snapshot once more, with the same running total.
CodexRepeats(f) ==
    /\ file[f] # <<>> /\ Last(file[f]).k = "ui"
    /\ Write(f, <<[Last(file[f]) EXCEPT !.at = writes + 1]>>)
    /\ UNCHANGED <<parent, owed, late, made>>

\* A fork copies the usage records of its parent; a sub-agent some of them,
\* and then starts its own task.
Copied(g, i, j) ==
    LET usages == SelectSeq(file[g], IsUsage)
    IN  [n \in 1..(j - i + 1) |-> [usages[i + n - 1] EXCEPT !.at = writes + 1]]

CodexForks(f, g) ==
    LET size == Len(SelectSeq(file[g], IsUsage))
    IN  /\ file[f] = <<>> /\ file[g] # <<>>
        /\ \/ /\ Write(f, Header(f) \o Copied(g, 1, size))
              /\ parent' = [parent EXCEPT ![f] = [of |-> g, subagent |-> FALSE]]
           \/ /\ \E i \in 1..size : \E j \in (i - 1)..size :
                  Write(f, Header(f) \o Copied(g, i, j) \o <<Now("turn", NoRequest, 0)>>)
              /\ parent' = [parent EXCEPT ![f] = [of |-> g, subagent |-> TRUE]]
        /\ UNCHANGED <<owed, late, made>>

AgentsWrite ==
    /\ \/ \E f \in KimiFiles : KimiWrites(f)
       \/ \E f \in ClaudeFiles : ClaudeWrites(f)
       \/ \E f, g \in ClaudeFiles : ClaudeResumes(f, g)
       \/ \E f \in CodexFiles : CodexRequests(f)
       \/ \E f \in CodexFiles : CodexMirrors(f)
       \/ \E f \in CodexFiles : CodexRepeats(f)
       \/ \E f, g \in CodexFiles : CodexForks(f, g)
    /\ UNCHANGED <<ledger, worker, faults, pass>>

-----------------------------------------------------------------------------
(* The adapters: what a file holds, as events [id, r, timed]               *)

\* Each usage record under its line.
KimiEvents(f, recs) ==
    {[id |-> <<f, "line", i>>, r |-> recs[i].r, timed |-> FALSE] : i \in DOMAIN recs}

\* One event a call, whatever file it stands in.  The file is scanned twice:
\* the times come from the first scan, and only a finished reply has one.
ClaudeEvents(first, recs) ==
    {[id |-> <<"call", "line", r>>, r |-> r, timed |-> Finished(first, r)] :
        r \in {recs[i].r : i \in DOMAIN recs}}

\* The session's records without what it repeats of its parent.
CodexEvents(f, recs, skip) ==
    {[id |-> <<f>> \o e.id, r |-> e.r, timed |-> FALSE] : e \in RolloutEvents(recs, skip)}

\* The lineage analysis, over the sources the pass found.
ReplaySkips ==
    [f \in CodexFiles |->
        IF file[f] = <<>> \/ parent[f] = NoParent THEN 0
        ELSE ReplaySkip(file[f], file[parent[f].of], parent[f].subagent)]

Events(f, first, recs, skip) ==
    CASE f \in KimiFiles -> KimiEvents(f, recs)
      [] f \in ClaudeFiles -> ClaudeEvents(first, recs)
      [] f \in CodexFiles -> CodexEvents(f, recs, skip[f])

\* Codex is scanned at every pass: its events depend on other files.
AlwaysScan(f) == f \in CodexFiles

-----------------------------------------------------------------------------
(* The pass                                                                *)

NoSkips == [f \in CodexFiles |-> 0]

Idle == [at |-> "idle", todo |-> <<>>, left |-> {}, before |-> 0, after |-> 0,
         events |-> {}, whole |-> TRUE, cut |-> FALSE, skip |-> NoSkips]

Softwares == <<ClaudeFiles, CodexFiles, KimiFiles>>

BeginPass == pass' = [Idle EXCEPT !.at = "source", !.todo = Softwares]

Discover(files) == {f \in files : file[f] # <<>>}

\* The sources are taken in some fixed order.
Source == CHOOSE f \in pass.left : TRUE

Running == service # "down"

SoftwareDone == pass.at = "source" /\ pass.left = {}

\* The next software: its files, and for Codex what they repeat.
OpenSoftware ==
    /\ Running /\ SoftwareDone /\ pass.todo # <<>>
    /\ pass' = [Idle EXCEPT !.at = "source", !.todo = Tail(pass.todo),
                            !.left = Discover(Head(pass.todo)),
                            !.skip = IF Head(pass.todo) = CodexFiles THEN ReplaySkips ELSE NoSkips]
    /\ UNCHANGED <<agents, ledger, worker, faults>>

\* Mutant: the flag is cleared when the pass is over, not before it.
WakeLost == FALSE

\* What the flag holds when a pass ends is for the next one.
WakeAfterPass == wake

EndPass ==
    /\ Running /\ SoftwareDone /\ pass.todo = <<>>
    /\ pass' = Idle
    /\ wake' = WakeAfterPass
    /\ UNCHANGED <<agents, ledger, service, asked, triggers, faults>>

NextSource == [pass EXCEPT !.at = "source", !.left = @ \ {Source}, !.before = 0,
                           !.after = 0, !.events = {}, !.whole = TRUE, !.cut = FALSE]

\* The first look at a file: unchanged since the cursor, or to be read.
StatSource ==
    /\ service = "up" /\ pass.at = "source" /\ pass.left # {}
    /\ LET f == Source
       IN  pass' = IF ~AlwaysScan(f) /\ cursor[f] = Len(file[f]) THEN NextSource
                   ELSE [pass EXCEPT !.at = "parse", !.before = Len(file[f])]
    /\ UNCHANGED <<agents, ledger, worker, faults>>

Lines(f, n) == SubSeq(file[f], 1, n)

\* What the adapter returns says whether it read the whole file; cut is when
\* it says so of a part.
Read(first, recs, whole, cut) ==
    pass' = [pass EXCEPT !.at = "stat", !.whole = whole, !.cut = cut,
                         !.events = Events(Source, first, recs, pass.skip)]

ParseSource ==
    /\ Running /\ pass.at = "parse"
    /\ LET f == Source
       IN  \E seen \in pass.before..Len(file[f]) :
            /\ f \notin ClaudeFiles => seen = Len(file[f])
            /\ Read(Lines(f, seen), file[f], TRUE, FALSE)
    /\ UNCHANGED <<agents, ledger, worker, faults>>

\* A read breaks off.  Kimi keeps what it read and says so, Codex keeps
\* nothing and says so.
ReadFails ==
    /\ faults < MaxFaults /\ Running /\ pass.at = "parse"
    /\ Source \notin ClaudeFiles
    /\ \E n \in 0..(Len(file[Source]) - 1) :
        /\ Source \in CodexFiles => n = 0
        /\ Read(Lines(Source, n), Lines(Source, n), FALSE, FALSE)
    /\ faults' = faults + 1
    /\ UNCHANGED <<agents, ledger, worker>>

\* Of a Claude Code file, either scan or both may break off; iter_jsonl ends
\* then as at the end of the file, and the adapter keeps what it has.
ReadFailsSilently ==
    /\ faults < MaxFaults /\ Running /\ pass.at = "parse"
    /\ Source \in ClaudeFiles
    /\ LET size == Len(file[Source])
       IN  \E seen, n \in 0..size :
            /\ seen < pass.before \/ n < size
            /\ Read(Lines(Source, seen), Lines(Source, n), TRUE, TRUE)
    /\ faults' = faults + 1
    /\ UNCHANGED <<agents, ledger, worker>>

\* The second look.
StatAgain ==
    /\ Running /\ pass.at = "stat"
    /\ pass' = [pass EXCEPT !.at = "commit", !.after = Len(file[Source])]
    /\ UNCHANGED <<agents, ledger, worker, faults>>

\* Mutant: only the rows still in the log are known.
UnloggedOnly(events) == {e \in events : \A row \in log : row.id # e.id}

\* An event with a receipt is not inserted again; it may still give its row
\* the duration an earlier reading could not know.
Unreceipted(events) == {e \in events : e.id \notin receipts}

Retimed(row, events) ==
    [row EXCEPT !.timed = @ \/ \E e \in events : e.id = row.id /\ e.timed]

InsertEvents(events) ==
    LET new == Unreceipted(events)
    IN  /\ receipts' = receipts \cup {e.id : e \in new}
        /\ log' = {Retimed(row, events) : row \in log} \cup new
        /\ counted' = [r \in Requests |-> counted[r] + Cardinality({e \in new : e.r = r})]

\* Mutant: the second look only dates the cursor.
StableAlways == TRUE

\* The cursor moves over a file that was read whole while it stood still.
Stable == pass.after = pass.before

CommitSource ==
    /\ Running /\ pass.at = "commit"
    /\ InsertEvents(pass.events)
    /\ IF Stable /\ pass.whole
       THEN /\ cursor' = [cursor EXCEPT ![Source] = pass.after]
            /\ unread' = IF pass.cut THEN unread \cup {Source} ELSE unread \ {Source}
       ELSE UNCHANGED <<cursor, unread>>
    /\ pass' = NextSource
    /\ UNCHANGED <<agents, worker, faults>>

\* The database refuses: nothing is written, and the exception ends the whole
\* pass, for the softwares behind this one too.
CommitFails ==
    /\ faults < MaxFaults /\ Running /\ pass.at = "commit"
    /\ faults' = faults + 1
    /\ pass' = Idle
    /\ UNCHANGED <<agents, ledger, worker>>

\* The archive counts the rows into their days and deletes them (UsageArchive).
ArchiveRows ==
    /\ log # {} /\ log' = {}
    /\ UNCHANGED <<agents, receipts, counted, cursor, unread, worker, faults, pass>>

-----------------------------------------------------------------------------
(* The worker and its process                                              *)

StartService ==
    /\ service = "down"
    /\ service' = "up" /\ wake' = FALSE /\ asked' = FALSE
    /\ BeginPass
    /\ UNCHANGED <<agents, ledger, triggers, faults>>

\* A browser opened the dashboard: the datagram reaches the worker's flag.
Trigger ==
    /\ service = "up" /\ triggers < MaxTriggers
    /\ triggers' = triggers + 1
    /\ wake' = TRUE /\ asked' = TRUE
    /\ UNCHANGED <<agents, ledger, service, faults, pass>>

\* The worker is woken, or its deadline is here: the flag is cleared before
\* the pass, which serves every trigger so far.
StartPass ==
    /\ service = "up" /\ pass.at = "idle"
    /\ wake' = FALSE /\ asked' = FALSE
    /\ BeginPass
    /\ UNCHANGED <<agents, ledger, service, triggers, faults>>

Stop ==
    /\ faults < MaxFaults /\ service = "up"
    /\ faults' = faults + 1
    /\ service' = "stopping" /\ wake' = TRUE
    /\ UNCHANGED <<agents, ledger, asked, triggers, pass>>

Down == service' = "down" /\ pass' = Idle /\ wake' = FALSE /\ asked' = FALSE

\* A stop is seen between two files.
Stopped ==
    /\ service = "stopping" /\ pass.at \in {"idle", "source"}
    /\ Down
    /\ UNCHANGED <<agents, ledger, triggers, faults>>

Crash ==
    /\ faults < MaxFaults /\ Running
    /\ faults' = faults + 1
    /\ Down
    /\ UNCHANGED <<agents, ledger, triggers>>

-----------------------------------------------------------------------------
(* Specification                                                           *)

Init ==
    /\ file = [f \in Files |-> <<>>]
    /\ parent = [f \in CodexFiles |-> NoParent]
    /\ owed = [f \in CodexFiles |-> NoRequest] /\ late = {}
    /\ made = 0 /\ writes = 0
    /\ receipts = {} /\ log = {}
    /\ counted = [r \in Requests |-> 0]
    /\ cursor = [f \in Files |-> Unscanned] /\ unread = {}
    /\ service = "down" /\ wake = FALSE /\ asked = FALSE /\ triggers = 0
    /\ faults = 0
    /\ pass = Idle

PassStep ==
    \/ OpenSoftware \/ EndPass
    \/ StatSource \/ ParseSource \/ StatAgain \/ CommitSource

Faults == ReadFails \/ ReadFailsSilently \/ CommitFails \/ Stop \/ Crash

Next ==
    \/ AgentsWrite
    \/ PassStep
    \/ Faults
    \/ ArchiveRows
    \/ StartService \/ Trigger \/ StartPass \/ Stopped

Spec == Init /\ [][Next]_vars

-----------------------------------------------------------------------------
(* Properties                                                              *)

\* Every request is inserted into the log at most once: over repeated passes,
\* crashes, both records of Codex, repeated snapshots, forks, sub-agents and
\* resumed sessions, and after its row was archived away.  A request whose
\* mirror came after a pass had read its durable record is counted under the
\* name of each, once.
CountedOnce == \A r \in Requests : counted[r] <= IF r \in late THEN 2 ELSE 1

\* What doc/billing-pricing.md:89 promises: whatever is read again, and
\* whenever, an event is counted once.  Does not hold (README, section 5).
CountedOnceAlways == \A r \in Requests : counted[r] <= 1

\* A file whose size is still the one in its cursor has been taken in
\* completely: every request it does not share with the session it was made
\* from is in the log, and a finished reply whose row is still there has its
\* duration.  Two things can hide a request: a cursor that rests on a read
\* that broke off silently, and a durable record without a mirror whose number
\* a request with a late mirror had before.
RequestsIn(f) == {file[f][i].r : i \in DOMAIN file[f]} \ {NoRequest}

Inherited(f) ==
    IF f \in CodexFiles /\ parent[f] # NoParent THEN RequestsIn(parent[f].of) ELSE {}

TakenIn(f, r) ==
    /\ counted[r] >= 1
    /\ f \in ClaudeFiles /\ Finished(file[f], r) =>
        \A row \in log : row.r = r => row.timed

NumberGone(f, r) ==
    /\ f \in CodexFiles /\ late \cap (RequestsIn(f) \ {r}) # {}
    /\ \E i \in DOMAIN file[f] :
        file[f][i].k = "durable" /\ file[f][i].r = r /\ ~Mirrored(file[f], i)

UpToDate == {f \in Files : cursor[f] = Len(file[f])}

CursorSound ==
    \A f \in UpToDate \ unread : \A r \in RequestsIn(f) \ Inherited(f) :
        TakenIn(f, r) \/ NumberGone(f, r)

\* What kimi_code.py:208-216 asks of an adapter: no read that failed moves a
\* cursor past records it never read.  Does not hold (README, section 5).
FailedReadsMoveNoCursor ==
    \A f \in UpToDate : \A r \in RequestsIn(f) \ Inherited(f) :
        TakenIn(f, r) \/ NumberGone(f, r)

\* No request is hidden by the number of another, the second half of what
\* codex.py:611-613 hopes of its numbering.  Does not hold (README, section 5).
NumbersAreNotReused ==
    \A f \in UpToDate \ unread : \A r \in RequestsIn(f) \ Inherited(f) : TakenIn(f, r)

\* A trigger the worker accepted is served by a pass that starts after it, so
\* until then it stands in the flag, whatever pass was running when it came.
TriggerKept == asked => wake
=============================================================================

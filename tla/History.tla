------------------------------ MODULE History ------------------------------
(***************************************************************************)
(* SqliteStore as its processes share it: proxies and replays that write   *)
(* call events and audit entries, and `mcprelay report`.  Every process    *)
(* prunes once, when it opens the store, with the retention of its own     *)
(* configuration.                                                          *)
(*                                                                         *)
(* A step is one SQL statement or one reading of the clock; processes      *)
(* interleave between any two, and may stop for good at any point.  The    *)
(* clock is the wall clock and does not go back.                           *)
(***************************************************************************)
EXTENDS Metrics

CONSTANTS
    Writers, Reports,   \* processes
    Files,              \* the call events that may be in the file at the start
    Retentions,         \* the store.retention_days a process may run with
    Day,                \* ticks of the clock
    Slack,              \* how long a statement may wait for the lock of the file
    CallKinds,          \* call events but for their id and time
    Requests,           \* what a report may be asked for
    Default,            \* a bound that is not given
    Nothing,            \* undefined
    MaxClock, MaxCalls, MaxReplays  \* bounds of the model

Processes == Writers \cup Reports

\* A bound as it was typed, and the instant Date.parse reads in it.  The program
\* keeps the text only; properties are about the instant.
Bounds == [at : Int, text : Int \X Int]

IsCall(row) ==
    /\ row.decision \in Decisions
    /\ {row.latency, row.requestBytes, row.responseBytes} \subseteq Int

ASSUME HistoryAssumption ==
    /\ Writers \cap Reports = {}
    /\ Retentions \subseteq Nat
    /\ \A file \in Files : IsFiniteSet(file) /\ \A row \in file : row.at \in Int /\ IsCall(row)
    /\ \A kind \in CallKinds : IsCall(kind)
    /\ \A request \in Requests : {request.since, request.until} \subseteq Bounds \cup {Default}
    /\ Day \in Nat /\ Slack \in Nat /\ Slack < Day

VARIABLES
    now,
    retentionDays,      \* of the configuration of a process
    pc,
    stamped,            \* the entry a writer has built and not yet inserted
    query,              \* the options of a report
    selected,           \* the rows its first statement returned
    printed,            \* what it printed
    callEvents, audit,  \* the tables: call events, entries of kind 'replayed'
    recorded,           \* (history) all call events ever inserted
    cutoffs             \* (history) the cutoffs of all prunes

fileVars == <<callEvents, audit, recorded, cutoffs>>
reportVars == <<query, selected, printed>>
vars == <<now, retentionDays, pc, stamped, fileVars, reportVars>>

Init ==
    /\ now = 0
    /\ retentionDays \in [Processes -> Retentions]
    /\ pc = [p \in Processes |-> "started"]
    /\ stamped = [w \in Writers |-> Nothing]
    /\ query = [r \in Reports |-> Nothing]
    /\ selected = [r \in Reports |-> {}]
    /\ printed = [r \in Reports |-> Nothing]
    /\ callEvents \in Files /\ recorded = callEvents
    /\ audit = {} /\ cutoffs = {}

Goto(p, label) == pc' = [pc EXCEPT ![p] = label]

\* A statement waits for the lock for Slack at most.
Tick ==
    /\ now < MaxClock
    /\ \A w \in Writers : stamped[w] # Nothing => now - stamped[w].at < Slack
    /\ now' = now + 1
    /\ UNCHANGED <<retentionDays, pc, stamped, fileVars, reportVars>>

-----------------------------------------------------------------------------
\* Opening the store

\* Mutant of Expired: the cutoff itself goes too.
Expired_Inclusive(cutoff) == {row \in callEvents : row.at <= cutoff}

\* Mutant of Expired: only whole days are compared.
Expired_ByDay(cutoff) == {row \in callEvents : row.at \div Day < cutoff \div Day}

\* Both are texts of ToISOString, which sort as the instants (StampOrder).
Expired(cutoff) == {row \in callEvents : row.at < cutoff}

PruneCallEvents(days) ==
    IF days = 0 THEN UNCHANGED <<callEvents, cutoffs>>
    ELSE LET cutoff == now - days * Day
         IN  /\ callEvents' = callEvents \ Expired(cutoff)
             /\ cutoffs' = cutoffs \cup {cutoff}

\* A writer opens the store when it first needs it, possibly with an entry in
\* its hand; a report when it knows its configuration.
OpenStore(p) ==
    /\ pc[p] = IF p \in Writers THEN "started" ELSE "parsed"
    /\ PruneCallEvents(retentionDays[p])
    /\ Goto(p, "open")
    /\ UNCHANGED <<now, retentionDays, stamped, audit, recorded, reportVars>>

-----------------------------------------------------------------------------
\* Writers

\* buildCallLogEntry: the time of the entry is read before anything is opened.
Stamp(w, kind) ==
    /\ stamped[w] = Nothing
    /\ Cardinality(recorded) < MaxCalls
    /\ stamped' = [stamped EXCEPT ![w] = [at |-> now, kind |-> kind]]
    /\ UNCHANGED <<now, retentionDays, pc, fileVars, reportVars>>

\* The entry with its unique id.
Row(w) ==
    LET kind == stamped[w].kind
    IN  [id |-> Cardinality(recorded) + 1, at |-> stamped[w].at,
         caller |-> kind.caller, tool |-> kind.tool, decision |-> kind.decision,
         latency |-> kind.latency, requestBytes |-> kind.requestBytes,
         responseBytes |-> kind.responseBytes]

RecordCall(w) ==
    /\ pc[w] = "open" /\ stamped[w] # Nothing
    /\ callEvents' = callEvents \cup {Row(w)}
    /\ recorded' = recorded \cup {Row(w)}
    /\ stamped' = [stamped EXCEPT ![w] = Nothing]
    /\ UNCHANGED <<now, retentionDays, pc, audit, cutoffs, reportVars>>

\* The insert, or the opening, fails: logCall warns and goes on.
RecordFails(w) ==
    /\ stamped[w] # Nothing
    /\ stamped' = [stamped EXCEPT ![w] = Nothing]
    /\ UNCHANGED <<now, retentionDays, pc, fileVars, reportVars>>

\* persistOutcome of a replay.
Audit(w) ==
    /\ pc[w] = "open"
    /\ Cardinality(audit) < MaxReplays
    /\ audit' = audit \cup {[id |-> Cardinality(audit) + 1, at |-> now]}
    /\ UNCHANGED <<now, retentionDays, pc, stamped, callEvents, recorded, cutoffs, reportVars>>

-----------------------------------------------------------------------------
\* mcprelay report

Stamped(at) == [at |-> at, text |-> ToISOString(at)]

\* The window of a request: the last day, up to the moment of parsing.  A bound
\* that is given must be a date for Date.parse, and stays the text it is.
Window(request) ==
    [since |-> IF request.since = Default THEN Stamped(now - Day) ELSE request.since,
     until |-> IF request.until = Default THEN Stamped(now) ELSE request.until,
     tool |-> request.tool, caller |-> request.caller]

Parse(r, request) ==
    /\ pc[r] = "started"
    /\ query' = [query EXCEPT ![r] = Window(request)]
    /\ Goto(r, "parsed")
    /\ UNCHANGED <<now, retentionDays, stamped, fileVars, selected, printed>>

\* The first statement of metrics.
SelectCalls(r) ==
    /\ pc[r] = "open"
    /\ selected' = [selected EXCEPT ![r] = Selected(query[r], callEvents)]
    /\ Goto(r, "selected")
    /\ UNCHANGED <<now, retentionDays, stamped, fileVars, query, printed>>

\* Filters other than the window do not apply.
CountReplays(q) == Cardinality({entry \in audit : InWindow(q, entry.at)})

\* The second statement, and what is printed.
PrintReport(r) ==
    /\ pc[r] = "selected"
    /\ printed' = [printed EXCEPT ![r] =
            [tools |-> Tools(selected[r]),
             decisions |-> DecisionTotals(selected[r]),
             replayed |-> CountReplays(query[r])]]
    /\ Goto(r, "printed")
    /\ UNCHANGED <<now, retentionDays, stamped, fileVars, query, selected>>

-----------------------------------------------------------------------------
Next ==
    \/ Tick
    \/ \E p \in Processes : OpenStore(p)
    \/ \E w \in Writers : \/ RecordCall(w) \/ RecordFails(w) \/ Audit(w)
                          \/ \E kind \in CallKinds : Stamp(w, kind)
    \/ \E r \in Reports : \/ SelectCalls(r) \/ PrintReport(r)
                          \/ \E request \in Requests : Parse(r, request)

Spec == Init /\ [][Next]_vars

-----------------------------------------------------------------------------
\* Properties

\* Retention loses nothing recent: a call event that is within the retention of
\* every process that shares the file is in the table, whoever opens it and
\* however long an insert waited; with 0 everywhere nothing ever goes.
RecentIsKept ==
    \A e \in recorded :
        (\A p \in Processes : retentionDays[p] = 0 \/ e.at >= now - retentionDays[p] * Day)
            => e \in callEvents

\* Retention bounds the table: what an opening process found too old is gone
\* and none like it comes later, although entries are stamped before the store
\* is opened and inserted after it.
ExpiredIsGone == \A e \in callEvents, cutoff \in cutoffs : e.at >= cutoff

\* The calls of a window with inclusive bounds that pass the filters that are given.
Asked(q, from, to, e) ==
    /\ from <= e.at /\ e.at <= to
    /\ q.tool # AnyValue => e.tool = q.tool
    /\ q.caller # AnyValue => e.caller = q.caller

Distance(a, b) == IF a <= b THEN b - a ELSE a - b

\* How far a bound may miss the instant it names: not at all if it is written as
\* a stamp, else a second and what its zone is off.
Blur(bound) ==
    IF bound = Stamped(bound.at) THEN 0
    ELSE Second + Second * Distance(bound.text[1], bound.at \div Second)

Unexpired == {e \in recorded : \A cutoff \in cutoffs : e.at >= cutoff}

\* A report of the last day, or with bounds written as stamps are, selects exactly
\* the calls of its window, both ends included, unless some process, possibly the
\* report itself while it opened, has pruned into the window: then it lacks what
\* that process found too old.  Bounds written otherwise are compared as the texts
\* they are, and it may be wrong about calls near them: within a second of "00:00Z"
\* or of a date, within the offset and a second of a time in another zone.
ReportIsComplete ==
    [][ \A r \in Reports :
          LET q == query[r]
              since == q.since
              until == q.until
          IN  pc[r] = "open" /\ pc'[r] = "selected" =>
                /\ \A e \in Unexpired :
                      Asked(q, since.at + Blur(since), until.at - Blur(until), e)
                          => e \in selected'[r]
                /\ \A e \in selected'[r] :
                      /\ e \in Unexpired
                      /\ Asked(q, since.at - Blur(since), until.at + Blur(until), e) ]_vars

\* The printed lines and totals are those of the selected calls: nothing is
\* counted twice or under another caller, and the percentiles are nearest ranks.
ReportIsExact ==
    \A r \in Reports :
        pc[r] = "printed" => IsReportOf(printed[r].tools, printed[r].decisions, selected[r])
=============================================================================

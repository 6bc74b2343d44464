------------------------------- MODULE Replay -------------------------------
(***************************************************************************)
(* `mcprelay replay run <id>` and `mcprelay replay run --all`: any number  *)
(* of invocations, each an operating-system process of its own, work on    *)
(* one queue database while the live proxy keeps capturing failed calls    *)
(* and indexing successful ones.  Invocations interleave between any two   *)
(* statements, hold a record under a lease while they reconnect and call   *)
(* the tool, and may die anywhere.                                         *)
(*                                                                         *)
(* Time.  The clock advances only while no invocation is past the deadline *)
(* of the step it is in: ConnectBound bounds reaching the stored server,   *)
(* Timeout[r] is the configured timeout of the tool of record r, and Slack *)
(* bounds everything that follows (closing the upstream, each statement).  *)
(* An invocation that has not claimed anything may be delayed for ever.    *)
(***************************************************************************)
EXTENDS DeadLetterQueue

CONSTANTS
    Replayers,     \* the invocations, each runs once
    Commands,      \* the command lines they may be started with
    Marked,        \* records whose stored arguments hold [REDACTED] values
    Limit,         \* the number of records --all selects at most
    ConnectBound,
    Timeout,
    Slack

\* --batch, --force, and --set values for every redacted argument; a batch has
\* no --set.
Modes == {m \in [batch : BOOLEAN, force : BOOLEAN, set : BOOLEAN] : ~(m.batch /\ m.set)}

ASSUME ReplayAssumption ==
    /\ Commands \subseteq Modes
    /\ Marked \subseteq Records
    /\ Limit \in Nat /\ ConnectBound \in Nat /\ Slack \in Nat
    /\ Timeout \in [Records -> Nat]

VARIABLES
    pc,        \* where an invocation is in runReplayRecord / replayBatchRecord
    mode,      \* its command line: [batch, force, set]
    selected,  \* the records it was asked for, or that list() returned
    cur,       \* the record it works on
    result,    \* what it reported for each record
    ok,        \* the outcome of its last tools/call
    at,        \* the timestamp of that attempt
    deadline,  \* (model time) when its current step ends at the latest
    audit,     \* the audit table: entries of kind 'replayed'
    sent       \* (history) the tools/call requests sent: <<invocation, record>>

attemptVars == <<ok, at, deadline>>
runVars == <<pc, mode, selected, cur, result, attemptVars>>
vars == <<dlqVars, runVars, audit, sent>>

Holding == {"connect", "release", "answer", "resolve"}
Timed == Holding \cup {"audit", "index"}
Ended == {"exited", "aborted", "crashed"}
PCs == {"idle", "verdict", "claim"} \cup Timed \cup Ended
Reports == {"none", "ok", "failed", "skipped"}
AuditEntries == [record : Records, by : Replayers, ok : BOOLEAN, at : Nat]

TypeOK ==
    /\ DlqTypeOK
    /\ pc \in [Replayers -> PCs]
    /\ mode \in [Replayers -> Modes]
    /\ selected \in [Replayers -> SUBSET Records]
    /\ cur \in [Replayers -> Records \cup {0}]
    /\ \A p \in Replayers : pc[p] \notin {"idle"} \cup Ended => cur[p] \in Records
    /\ result \in [Replayers -> [Records -> Reports]]
    /\ ok \in [Replayers -> BOOLEAN]
    /\ at \in [Replayers -> Nat]
    /\ deadline \in [Replayers -> Nat]
    /\ audit \subseteq AuditEntries
    /\ sent \subseteq Replayers \X Records

Init ==
    /\ DlqInit
    /\ pc = [p \in Replayers |-> "idle"]
    /\ mode = [p \in Replayers |-> [batch |-> FALSE, force |-> FALSE, set |-> FALSE]]
    /\ selected = [p \in Replayers |-> {}]
    /\ cur = [p \in Replayers |-> 0]
    /\ result = [p \in Replayers |-> [r \in Records |-> "none"]]
    /\ ok = [p \in Replayers |-> FALSE]
    /\ at = [p \in Replayers |-> 0]
    /\ deadline = [p \in Replayers |-> 0]
    /\ audit = {}
    /\ sent = {}

Goto(p, label) == pc' = [pc EXCEPT ![p] = label]
At(p, label) == pc[p] = label

\* The loop of runReplayBatch (or the only round of runReplayRecord): the next
\* record is the newest of those left; when none is left the command exits.
TakeUp(p, left) ==
    \/ /\ left = {}
       /\ Goto(p, "exited")
       /\ UNCHANGED cur
    \/ \E r \in left :
       /\ \A s \in left : s <= r
       /\ Goto(p, "verdict")
       /\ cur' = [cur EXCEPT ![p] = r]

\* What p knew about its attempt goes out of scope.
Forget(p) ==
    /\ ok' = [ok EXCEPT ![p] = FALSE]
    /\ at' = [at EXCEPT ![p] = 0]
    /\ deadline' = [deadline EXCEPT ![p] = 0]

\* Mutant of Report: the loop does not leave out what it has done.
Report_NoProgress(p, report) ==
    /\ result' = [result EXCEPT ![p][cur[p]] = report]
    /\ TakeUp(p, selected[p])
    /\ Forget(p)

\* p is done with its record, which it reports as `report`.
Report(p, report) ==
    /\ result' = [result EXCEPT ![p][cur[p]] = report]
    /\ TakeUp(p, {r \in selected[p] : result[p][r] = "none" /\ r # cur[p]})
    /\ Forget(p)

\* p goes on with its record at `label`, a step that takes at most `bound`.
Continue(p, label, bound) ==
    /\ Goto(p, label)
    /\ deadline' = [deadline EXCEPT ![p] = clock + bound]
    /\ UNCHANGED <<cur, result>>

-----------------------------------------------------------------------------
\* The environment: the live proxy and the clock.

\* A call fails in the proxy and is captured.
Capture(r) ==
    /\ Enqueue(r)
    /\ UNCHANGED <<clock, executions, runVars, audit, sent>>

\* A call with the identity of r succeeds through the proxy and is indexed.
LiveSuccess(r) ==
    /\ LiveKey(r) # NoKey
    /\ RecordExecution(LiveKey(r), HashOf[r], clock)
    /\ UNCHANGED <<clock, status, claimExpiry, runVars, audit, sent>>

Tick ==
    /\ clock < MaxClock
    /\ \A p \in Replayers : pc[p] \in Timed => clock < deadline[p]
    /\ clock' = clock + 1
    /\ UNCHANGED <<status, claimExpiry, executions, runVars, audit, sent>>

-----------------------------------------------------------------------------
\* One invocation.

\* `run <id>`: get(id) does not look at the status of the record.
StartRecord(p, m, r) ==
    /\ At(p, "idle") /\ ~m.batch
    /\ mode' = [mode EXCEPT ![p] = m]
    /\ selected' = [selected EXCEPT ![p] = {r}]
    /\ \/ /\ status[r] = "absent"
          /\ Goto(p, "exited")
          /\ result' = [result EXCEPT ![p][r] = "failed"]
          /\ UNCHANGED cur
       \/ /\ status[r] # "absent"
          /\ TakeUp(p, {r})
          /\ UNCHANGED result
    /\ UNCHANGED <<dlqVars, attemptVars, audit, sent>>

\* `run --all`: one list() of the pending records.
StartBatch(p, m) ==
    /\ At(p, "idle") /\ m.batch
    /\ mode' = [mode EXCEPT ![p] = m]
    /\ selected' = [selected EXCEPT ![p] = Newest(Limit)]
    /\ TakeUp(p, Newest(Limit))
    /\ UNCHANGED <<dlqVars, result, attemptVars, audit, sent>>

Refused(p) ==
    \/ cur[p] \in Marked /\ ~mode[p].set
    \/ Duplicate(cur[p]) /\ ~mode[p].force

\* computeDedupVerdict and guardRun: the claim comes only later.
ComputeVerdict(p) ==
    /\ At(p, "verdict")
    /\ \/ Refused(p) /\ Report(p, "skipped")
       \/ ~Refused(p) /\ Goto(p, "claim") /\ UNCHANGED <<cur, result, attemptVars>>
    /\ UNCHANGED <<dlqVars, mode, selected, audit, sent>>

ClaimRecord(p) ==
    /\ At(p, "claim")
    /\ \/ /\ Claim(cur[p])
          /\ Continue(p, "connect", ConnectBound)
          /\ UNCHANGED <<ok, at>>
       \/ /\ ~Claimable(cur[p])
          /\ Report(p, "skipped")
          /\ UNCHANGED <<status, claimExpiry>>
    /\ UNCHANGED <<clock, executions, mode, selected, audit, sent>>

\* Mutant of SendCall: the call may take as long as the lease, not its timeout.
SendCall_Unbounded(p) ==
    /\ At(p, "connect")
    /\ Continue(p, "answer", Lease)
    /\ sent' = sent \cup {<<p, cur[p]>>}
    /\ UNCHANGED <<dlqVars, mode, selected, ok, at, audit>>

\* connectStoredServer succeeds and the tools/call request goes out.
SendCall(p) ==
    /\ At(p, "connect")
    /\ Continue(p, "answer", Timeout[cur[p]])
    /\ sent' = sent \cup {<<p, cur[p]>>}
    /\ UNCHANGED <<dlqVars, mode, selected, ok, at, audit>>

\* Mutant of ConnectFails: an unreachable server counts as an executed call.
ConnectFails_Executed(p) ==
    /\ At(p, "connect")
    /\ Continue(p, "resolve", Slack)
    /\ UNCHANGED <<dlqVars, mode, selected, ok, at, audit, sent>>

\* connectStoredServer fails: the attempt is 'unreachable'.
ConnectFails(p) ==
    /\ At(p, "connect")
    /\ Continue(p, "release", Slack)
    /\ UNCHANGED <<dlqVars, mode, selected, ok, at, audit, sent>>

\* A result, an isError result, an error or the timeout ends the attempt.
Answer(p) ==
    /\ At(p, "answer")
    /\ \E outcome \in BOOLEAN : ok' = [ok EXCEPT ![p] = outcome]
    /\ Continue(p, "resolve", Slack)
    /\ UNCHANGED <<dlqVars, mode, selected, at, audit, sent>>

ReleaseRecord(p) ==
    /\ At(p, "release")
    /\ Release(cur[p])
    /\ Report(p, "failed")
    /\ UNCHANGED <<clock, executions, mode, selected, audit, sent>>

\* resolve(), or its AlreadyResolvedError: runReplayRecord reports it, while
\* nothing in runReplayBatch catches it and the whole command ends.
ResolveRecord(p) ==
    /\ At(p, "resolve")
    /\ \/ /\ Resolve(cur[p])
          /\ Continue(p, "audit", Slack)
          /\ at' = [at EXCEPT ![p] = clock]
          /\ UNCHANGED ok
       \/ /\ status[cur[p]] # "pending"
          /\ IF mode[p].batch
             THEN Goto(p, "aborted") /\ Forget(p) /\ UNCHANGED <<cur, result>>
             ELSE Report(p, "failed")
          /\ UNCHANGED <<status, claimExpiry>>
    /\ UNCHANGED <<clock, executions, mode, selected, audit, sent>>

\* Mutant of Outcome: a failed call is reported as skipped.
Outcome_Skipped(p) == IF ok[p] THEN "ok" ELSE "skipped"

Outcome(p) == IF ok[p] THEN "ok" ELSE "failed"

\* Mutant of AuditReplay: only successes are audited.
AuditReplay_OkOnly(p) ==
    /\ At(p, "audit")
    /\ audit' = IF ok[p]
                THEN audit \cup {[record |-> cur[p], by |-> p, ok |-> TRUE, at |-> at[p]]}
                ELSE audit
    /\ Report(p, Outcome(p))
    /\ UNCHANGED <<dlqVars, mode, selected, sent>>

AuditReplay(p) ==
    /\ At(p, "audit")
    /\ audit' = audit \cup {[record |-> cur[p], by |-> p, ok |-> ok[p], at |-> at[p]]}
    /\ \/ /\ ok[p] /\ ArgKey[cur[p]] # NoKey
          /\ Continue(p, "index", Slack)
          /\ UNCHANGED <<ok, at>>
       \/ /\ ~(ok[p] /\ ArgKey[cur[p]] # NoKey)
          /\ Report(p, Outcome(p))
    /\ UNCHANGED <<dlqVars, mode, selected, sent>>

IndexExecution(p) ==
    /\ At(p, "index")
    /\ RecordExecution(ArgKey[cur[p]], HashOf[cur[p]], at[p])
    /\ Report(p, Outcome(p))
    /\ UNCHANGED <<clock, status, claimExpiry, mode, selected, audit, sent>>

\* The process dies; what it wrote stays, what it holds is only a lease.
Crash(p) ==
    /\ pc[p] \notin {"idle"} \cup Ended
    /\ Goto(p, "crashed")
    /\ Forget(p)
    /\ UNCHANGED <<dlqVars, mode, selected, cur, result, audit, sent>>

Start(p) ==
    \E m \in Commands : StartBatch(p, m) \/ \E r \in Records : StartRecord(p, m, r)

Step(p) ==
    \/ ComputeVerdict(p)
    \/ ClaimRecord(p)
    \/ SendCall(p)
    \/ ConnectFails(p)
    \/ ReleaseRecord(p)
    \/ Answer(p)
    \/ ResolveRecord(p)
    \/ AuditReplay(p)
    \/ IndexExecution(p)

Next ==
    \/ \E r \in Records : Capture(r) \/ LiveSuccess(r)
    \/ Tick
    \/ \E p \in Replayers : Start(p) \/ Step(p) \/ Crash(p)

Spec == Init /\ [][Next]_vars

\* Node runs a process's next continuation, the connection attempt and the
\* call end by their timeouts, and SQLite answers: a started invocation keeps
\* taking steps.  Nobody is obliged to start one, and crashes are not fair.
Fairness == \A p \in Replayers : WF_vars(Step(p))
FairSpec == Spec /\ Fairness

-----------------------------------------------------------------------------
\* What the design relies on: an invocation is done with a record before the
\* lease it took on it runs out (with the defaults, 60s + 30s + slack < 300s).
HoldFitsLease == \A r \in Records : ConnectBound + Timeout[r] + Slack <= Lease

Holds(p, r) == pc[p] \in Holding /\ cur[p] = r

\* Replay implements Redrive: the phase of a record is read off its status and
\* off the live invocation that holds it.
Phase(r) ==
    CASE status[r] = "absent" -> "absent"
      [] status[r] = "replayed" -> "replayed"
      [] OTHER ->
         IF \E p \in Replayers : Holds(p, r) /\ pc[p] \in {"answer", "resolve"} THEN "called"
         ELSE IF \E p \in Replayers : Holds(p, r) THEN "taken" ELSE "pending"

R == INSTANCE Redrive WITH phase <- [r \in Records |-> Phase(r)], calls <- sent

\* The promise of the replay commands, step by step: take, call once, settle.
ImplementsRedrive == R!Spec

\* No two live invocations work on the same record at the same time: between
\* the claim and resolve() or release() of replay-run.ts a record has one holder.
OneHolder ==
    \A p, q \in Replayers, r \in Records : Holds(p, r) /\ Holds(q, r) => p = q

\* A record's tools/call is sent a second time only if an invocation that sent
\* it died: runs that race, overlap or follow one another never execute twice.
AtMostOnceUnlessCrash ==
    \A p, q \in Replayers, r \in Records :
        <<p, r>> \in sent /\ <<q, r>> \in sent /\ p # q
            => "crashed" \in {pc[p], pc[q]}

\* The outcome of an executed call is never thrown away: when persistOutcome
\* calls resolve() the record is still pending, so neither AlreadyResolvedError
\* nor the uncaught abort of a whole batch can follow an executed call.
OutcomeIsKept ==
    \A p \in Replayers : /\ At(p, "resolve") => status[cur[p]] = "pending"
                         /\ ~At(p, "aborted")

\* Why the above hold: the lease of a record outlives every step its holder may
\* still take, and a call that was sent is out, settled, or lost in a crash.
StillNeeded(p) ==
    CASE pc[p] = "connect" -> Timeout[cur[p]] + Slack
      [] pc[p] = "answer" -> Slack
      [] OTHER -> 0

LeaseCovers ==
    \A p \in Replayers : pc[p] \in Holding =>
        /\ status[cur[p]] = "pending"
        /\ clock <= deadline[p]
        /\ deadline[p] + StillNeeded(p) <= claimExpiry[cur[p]]

CallsSettled ==
    \A p \in Replayers, r \in Records : <<p, r>> \in sent =>
        \/ pc[p] = "crashed"
        \/ cur[p] = r /\ pc[p] \in {"answer", "resolve"}
        \/ status[r] = "replayed"

\* The inductive invariant of the proofs.
LeaseInv ==
    /\ TypeOK
    /\ LeaseCovers
    /\ OneHolder
    /\ CallsSettled
    /\ AtMostOnceUnlessCrash
    /\ OutcomeIsKept

\* A replay leaves exactly one trace: a replayed record has its audit entry, or
\* the invocation that resolved it is about to write it or died before it could,
\* and there are never two, not even when leases ran out and two calls were made.
OneAuditPerReplay ==
    /\ \A r \in Records : status[r] = "replayed" =>
          \/ \E e \in audit : e.record = r
          \/ \E p \in Replayers : cur[p] = r /\ pc[p] \in {"audit", "crashed"}
    /\ \A e, f \in audit : e.record = f.record => e = f

\* What a command reports can be trusted whatever ran beside it.  A record it
\* reports as skipped was not executed by it; and if it exits with 0, each record
\* it selected is resolved, its success is in the audit trail under this
\* invocation, and its key, if its arguments carry one, is in the index.
ReportIsTrue ==
    /\ \A p \in Replayers, r \in Records : result[p][r] = "skipped" => <<p, r>> \notin sent
    /\ \A p \in Replayers :
          At(p, "exited") /\ (\A r \in selected[p] : result[p][r] = "ok") =>
              \A r \in selected[p] :
                  /\ status[r] = "replayed"
                  /\ \E e \in audit : e.record = r /\ e.by = p /\ e.ok
                  /\ ArgKey[r] # NoKey => executions[ArgKey[r]].at # NULL

\* The idempotency guard across invocations: once a keyed replay that did not
\* die had the time to index its success (two statements of at most Slack
\* each), no unforced invocation gets past the guard with the same key while
\* the window lasts, whichever record carries the key.
DedupHonoured ==
    [][\A e \in audit, q \in Replayers :
        /\ At(q, "verdict") /\ At(q, "claim")' /\ ~mode[q].force
        /\ e.ok /\ ArgKey[e.record] # NoKey /\ pc[e.by] # "crashed"
        /\ ArgKey[cur[q]] = ArgKey[e.record]
        => clock \notin e.at + 2 * Slack + 1 .. e.at + DedupWindow - 2 * Slack]_vars

\* The guard at the moment it matters: when an unforced call with a key goes
\* out, no replay of the same key has succeeded within the window (replay-cli
\* spec, Idempotency guard: such a success requires --force to re-execute).
CallsAreGuarded ==
    [][\A q \in Replayers, e \in audit :
        /\ At(q, "connect") /\ At(q, "answer")' /\ ~mode[q].force
        /\ ArgKey[cur[q]] # NoKey /\ ArgKey[cur[q]] = ArgKey[e.record] /\ e.ok
        => clock - e.at > DedupWindow]_vars

\* Every invocation that starts comes to an end, and so does every batch.
EveryRunEnds == \A p \in Replayers : ~At(p, "idle") ~> pc[p] \in Ended
=============================================================================

---------------------------- MODULE CallPipeline ----------------------------
(***************************************************************************)
(* One `mcprelay run` session: the calls it intercepts, the upstream link, *)
(* the lazily opened databases, and the teardown that closes all of them.  *)
(*                                                                         *)
(* Granularity.  The process is one event loop.  A call that is running    *)
(* (pc in Busy) executes promise continuations and synchronous SQLite      *)
(* statements; the events of the loop (a frame, a timer, stdin EOF, the    *)
(* exit of the child, the setImmediate callback) wait until none is left.  *)
(* Running calls interleave with each other, and with the rest of the      *)
(* teardown, in any order: how many continuations the SDK puts between two *)
(* of its awaits is external.  SIGKILL strikes anywhere.                   *)
(***************************************************************************)
EXTENDS Classify

CONSTANTS
    Calls,        \* the tools/call requests of the session
    Profiles,     \* the kinds of call that may arrive
    MaxAttempts,
    Links,        \* the transports the upstream may be reached over
    Provider,     \* queue.provider: "sqlite" or "rabbitmq"
    Faults        \* may a statement on an open database fail?

Verdicts == {"bad_credential", "denied", "would_deny", "allowed"}
AllProfiles ==
    [verdict : Verdicts, idempotent : BOOLEAN, captureToolErrors : BOOLEAN, keyed : BOOLEAN]

ASSUME PipelineAssumption ==
    /\ Profiles \subseteq AllProfiles /\ Profiles # {}
    /\ MaxAttempts \in Nat \ {0}
    /\ Links \subseteq Transports /\ Links # {}
    /\ Provider \in {"sqlite", "rabbitmq"}
    /\ Faults \in BOOLEAN

VARIABLES
    pc,         \* where a call is in interceptToolCall
    profile,    \* what identity, policy and configuration say of it
    attempts,   \* attempts begun
    outcome,    \* how its last attempt ended
    aborted,    \* calls whose request signal is aborted
    answer,     \* what the client received for it
    transport,  \* "stdio" or "http", for the whole session
    link,       \* "up", "died" (the child exited) or "closed" (by teardown)
    phase,      \* the session
    endedBy,    \* the side `closed` resolved with
    eof,        \* has the client closed its side?
    queueDb, storeDb,  \* the lazily opened handles
    captured,   \* calls with a failure record in the (index) database
    published,  \* calls whose record the broker confirmed
    indexed,    \* calls in the idempotency index
    audited,    \* calls with an audit entry 'captured' or 'denied'
    events,     \* call events recorded, by call
    faulted,    \* (history) calls one of whose statements failed on an open database
    forwarded   \* (history) requests written to the upstream, by call

callVars == <<pc, profile, attempts, outcome, aborted, answer>>
sessionVars == <<transport, link, phase, endedBy, eof>>
databaseVars == <<queueDb, storeDb, captured, published, indexed, audited, events, faulted>>
vars == <<callVars, sessionVars, databaseVars, forwarded>>

Busy == {"dry_run", "attempt", "settled", "capture", "audit", "index", "log",
         "deny_log", "deny_audit"}
Waiting == {"sent", "backoff", "publish"}
PCs == Busy \cup Waiting \cup {"idle", "done"}
Handles == {"unopened", "open", "closed"}
Answers == {"none", "result", "tool_error", "error", "denied"}
Phases == {"serving", "ended", "unlinked", "detached", "queue_closed", "closed", "killed"}

TypeOK ==
    /\ pc \in [Calls -> PCs]
    /\ profile \in [Calls -> AllProfiles]
    /\ attempts \in [Calls -> 0..MaxAttempts]
    /\ outcome \in [Calls -> Outcomes \cup {"none"}]
    /\ answer \in [Calls -> Answers]
    /\ transport \in Transports
    /\ link \in {"up", "died", "closed"}
    /\ phase \in Phases
    /\ endedBy \in {"nobody", "client", "upstream"}
    /\ eof \in BOOLEAN
    /\ queueDb \in Handles /\ storeDb \in Handles
    /\ aborted \subseteq Calls /\ faulted \subseteq Calls
    /\ captured \subseteq Calls /\ published \subseteq Calls
    /\ indexed \subseteq Calls /\ audited \subseteq Calls
    /\ events \in [Calls -> Nat] /\ forwarded \in [Calls -> Nat]

Init ==
    /\ pc = [c \in Calls |-> "idle"]
    /\ profile \in [Calls -> Profiles]
    /\ attempts = [c \in Calls |-> 0]
    /\ outcome = [c \in Calls |-> "none"]
    /\ answer = [c \in Calls |-> "none"]
    /\ transport \in Links
    /\ link = "up" /\ phase = "serving" /\ endedBy = "nobody" /\ eof = FALSE
    /\ queueDb = "unopened" /\ storeDb = "unopened"
    /\ aborted = {} /\ captured = {} /\ published = {}
    /\ indexed = {} /\ audited = {} /\ faulted = {}
    /\ events = [c \in Calls |-> 0]
    /\ forwarded = [c \in Calls |-> 0]

At(c, label) == pc[c] = label /\ phase # "killed"
Goto(c, label) == pc' = [pc EXCEPT ![c] = label]

\* The event loop takes its next event.
NextEvent == phase # "killed" /\ \A c \in Calls : pc[c] \notin Busy

\* Mutant of Attached: the databases are closed before the server.
Attached_ToTheEnd == phase \in {"serving", "ended", "unlinked", "detached", "queue_closed"}

\* The server the client speaks to still has its transport.
Attached == phase \in {"serving", "ended", "unlinked"}

-----------------------------------------------------------------------------
\* The client, the upstream and the session.

\* A request arrives; after its death the upstream cannot stop the client from
\* sending until the server is detached.
Arrive(c) ==
    /\ NextEvent /\ Attached /\ ~eof
    /\ At(c, "idle")
    /\ Goto(c, CASE profile[c].verdict \in {"bad_credential", "denied"} -> "deny_log"
                 [] profile[c].verdict = "would_deny" -> "dry_run"
                 [] profile[c].verdict = "allowed"    -> "attempt")
    /\ UNCHANGED <<profile, attempts, outcome, aborted, answer>>
    /\ UNCHANGED <<sessionVars, databaseVars, forwarded>>

\* Every call in S that waits for the upstream gets this ending.
Settle(S, ending) ==
    LET hit == {c \in S : pc[c] = "sent"}
    IN  /\ pc' = [c \in Calls |-> IF c \in hit THEN "settled" ELSE pc[c]]
        /\ outcome' = [c \in Calls |-> IF c \in hit THEN ending ELSE outcome[c]]

\* The upstream answers, or the timeout of the attempt ends the wait.
Answered(c, ending) ==
    /\ NextEvent
    /\ At(c, "sent")
    /\ Settle({c}, ending)
    /\ UNCHANGED <<profile, attempts, aborted, answer>>
    /\ UNCHANGED <<sessionVars, databaseVars, forwarded>>

\* Mutant of Cancel: the abort of the attempt is taken for its timeout.
Cancel_AsTimeout(c) ==
    /\ NextEvent /\ Attached /\ ~eof
    /\ pc[c] \in Waiting /\ c \notin aborted
    /\ aborted' = aborted \cup {c}
    /\ Settle({c}, "timeout")
    /\ UNCHANGED <<profile, attempts, answer, sessionVars, databaseVars, forwarded>>

\* notifications/cancelled for c: its signal aborts an open upstream request
\* at once, and the SDK sends no response.
Cancel(c) ==
    /\ NextEvent /\ Attached /\ ~eof
    /\ pc[c] \in Waiting /\ c \notin aborted
    /\ aborted' = aborted \cup {c}
    /\ Settle({c}, "cancelled")
    /\ UNCHANGED <<profile, attempts, answer, sessionVars, databaseVars, forwarded>>

\* Mutant of ResolveClosed: the last call wins.
ResolveClosed_Last(side) == endedBy' = side

\* `closed` is a promise: its first resolution wins.
ResolveClosed(side) == endedBy' = IF endedBy = "nobody" THEN side ELSE endedBy

\* runProxy goes on once `closed` is resolved.
EndSession(side) ==
    /\ ResolveClosed(side)
    /\ phase' = IF phase = "serving" THEN "ended" ELSE phase

\* Mutant of ClientEof: the close handler of serveStdio is not chained.
ClientEof_Unchained ==
    /\ NextEvent /\ Attached /\ ~eof
    /\ eof' = TRUE
    /\ UNCHANGED <<transport, callVars, link, phase, endedBy, databaseVars, forwarded>>

\* stdin ends.  Whether serveStdio then aborts the calls in flight is up to
\* the SDK.
ClientEof ==
    /\ NextEvent /\ Attached /\ ~eof
    /\ eof' = TRUE
    /\ EndSession("client")
    /\ \/ /\ aborted' = aborted \cup {c \in Calls : pc[c] \in Waiting}
          /\ Settle(Calls, "cancelled")
       \/ UNCHANGED <<aborted, pc, outcome>>
    /\ UNCHANGED <<transport, link, profile, attempts, answer, databaseVars, forwarded>>

\* The child exits: `closed` resolves, then the SDK rejects the open requests.
UpstreamDies ==
    /\ NextEvent /\ transport = "stdio"
    /\ link = "up"
    /\ link' = "died"
    /\ EndSession("upstream")
    /\ Settle(Calls, "closed")
    /\ UNCHANGED <<transport, eof, profile, attempts, aborted, answer, databaseVars, forwarded>>

Kill ==
    /\ phase # "killed"
    /\ phase' = "killed"
    /\ UNCHANGED <<transport, link, endedBy, eof, callVars, databaseVars, forwarded>>

-----------------------------------------------------------------------------
\* Teardown: runProxy after `closed`, then closeBridge.

\* Mutant of CloseLink: teardown does not wait for the setImmediate callback.
CloseLink_AtOnce ==
    /\ phase = "ended"
    /\ phase' = "unlinked"
    /\ link' = IF link = "died" THEN "died" ELSE "closed"
    /\ ResolveClosed("upstream")
    /\ Settle(Calls, "closed")
    /\ UNCHANGED <<transport, eof, profile, attempts, aborted, answer, databaseVars, forwarded>>

\* The setImmediate callback and the first awaits of closeBridge: the link and
\* the SDK client close.  Closing resolves `closed` too, to no effect.
CloseLink ==
    /\ NextEvent
    /\ phase = "ended"
    /\ phase' = "unlinked"
    /\ link' = IF link = "died" THEN "died" ELSE "closed"
    /\ ResolveClosed("upstream")
    /\ Settle(Calls, "closed")
    /\ UNCHANGED <<transport, eof, profile, attempts, aborted, answer, databaseVars, forwarded>>

\* The server and the client transport close: no response leaves any more.
Detach ==
    /\ phase = "unlinked"
    /\ phase' = "detached"
    /\ UNCHANGED <<transport, link, endedBy, eof, callVars, databaseVars, forwarded>>

Closed(handle) == IF handle = "open" THEN "closed" ELSE handle

CloseQueue ==
    /\ phase = "detached"
    /\ phase' = "queue_closed"
    /\ queueDb' = Closed(queueDb)
    /\ UNCHANGED <<transport, link, endedBy, eof, callVars, forwarded>>
    /\ UNCHANGED <<storeDb, captured, published, indexed, audited, events, faulted>>

CloseStore ==
    /\ phase = "queue_closed"
    /\ phase' = "closed"
    /\ storeDb' = Closed(storeDb)
    /\ UNCHANGED <<transport, link, endedBy, eof, callVars, forwarded>>
    /\ UNCHANGED <<queueDb, captured, published, indexed, audited, events, faulted>>

-----------------------------------------------------------------------------
\* One call, from its admission to its answer.

\* A statement of c on a database runs: the handle is opened on first use and
\* never again after it was closed.
Runs(handle) == handle # "closed"

\* It throws: the handle is closed, or the open or the statement fails.
Throws(c, handle) ==
    \/ handle = "closed" /\ UNCHANGED faulted
    \/ handle # "closed" /\ Faults /\ faulted' = faulted \cup {c}

OnQueue(c) == Runs(queueDb) /\ queueDb' = "open" /\ UNCHANGED <<storeDb, faulted>>
OnStore(c) == Runs(storeDb) /\ storeDb' = "open" /\ UNCHANGED <<queueDb, faulted>>
QueueThrows(c) == Throws(c, queueDb) /\ UNCHANGED <<queueDb, storeDb>>
StoreThrows(c) == Throws(c, storeDb) /\ UNCHANGED <<queueDb, storeDb>>

\* The client gets the answer unless it cancelled, or the server is detached;
\* it may miss it once it has closed its side.
Respond(c, reply) ==
    LET seen == Attached /\ c \notin aborted
    IN  /\ \/ seen /\ answer' = [answer EXCEPT ![c] = reply]
           \/ (~seen \/ eof) /\ UNCHANGED answer
        /\ Goto(c, "done")

\* Mutant of DryRun: the would-be denial is persisted as a call event.
DryRun_Recorded(c) ==
    /\ At(c, "dry_run")
    /\ Goto(c, "attempt")
    /\ OnStore(c) /\ events' = [events EXCEPT ![c] = @ + 1]
    /\ UNCHANGED <<profile, attempts, outcome, aborted, answer, sessionVars, forwarded>>
    /\ UNCHANGED <<captured, published, indexed, audited>>

\* policy.dryRun: the denial is only logged, logCall returns before recordCall.
DryRun(c) ==
    /\ At(c, "dry_run")
    /\ Goto(c, "attempt")
    /\ UNCHANGED <<profile, attempts, outcome, aborted, answer>>
    /\ UNCHANGED <<sessionVars, databaseVars, forwarded>>

\* The guard on the link comes before the look at the signal.
Attempt(c) ==
    /\ At(c, "attempt")
    /\ attempts' = [attempts EXCEPT ![c] = @ + 1]
    /\ \/ /\ link # "up"
          /\ outcome' = [outcome EXCEPT ![c] = "unsent"] /\ Goto(c, "settled")
          /\ UNCHANGED forwarded
       \/ /\ link = "up" /\ c \in aborted
          /\ outcome' = [outcome EXCEPT ![c] = "cancelled"] /\ Goto(c, "settled")
          /\ UNCHANGED forwarded
       \/ /\ link = "up" /\ c \notin aborted
          /\ forwarded' = [forwarded EXCEPT ![c] = @ + 1] /\ Goto(c, "sent")
          /\ UNCHANGED outcome
    /\ UNCHANGED <<profile, aborted, answer, sessionVars, databaseVars>>

\* finalizeSuccessfulCall and failToolCall: what precedes the final log line.
AfterCall(c) ==
    CASE outcome[c] = "tool_error" -> IF profile[c].captureToolErrors THEN "capture" ELSE "log"
      [] outcome[c] \in Results \ {"tool_error"} -> IF profile[c].keyed THEN "index" ELSE "log"
      [] outcome[c] = "cancelled" -> "log"
      [] OTHER -> IF Recorded(outcome[c]) THEN "capture" ELSE "log"

\* runWithRetry after an attempt.
Classify(c) ==
    /\ At(c, "settled")
    /\ Goto(c, IF Retryable(outcome[c], profile[c].idempotent) /\ attempts[c] < MaxAttempts
               THEN "backoff" ELSE AfterCall(c))
    /\ UNCHANGED <<profile, attempts, outcome, aborted, answer>>
    /\ UNCHANGED <<sessionVars, databaseVars, forwarded>>

\* Mutant of BackoffEnds: closing the session cancels the timer.
BackoffEnds_WhileServing(c) ==
    /\ NextEvent /\ phase = "serving"
    /\ At(c, "backoff")
    /\ Goto(c, "attempt")
    /\ UNCHANGED <<profile, attempts, outcome, aborted, answer>>
    /\ UNCHANGED <<sessionVars, databaseVars, forwarded>>

\* The timer knows neither the signal nor the session.
BackoffEnds(c) ==
    /\ NextEvent
    /\ At(c, "backoff")
    /\ Goto(c, "attempt")
    /\ UNCHANGED <<profile, attempts, outcome, aborted, answer>>
    /\ UNCHANGED <<sessionVars, databaseVars, forwarded>>

\* The record is inserted; if that throws, the audit entry is skipped with it.
Capture(c) ==
    /\ At(c, "capture")
    /\ \/ /\ OnQueue(c)
          /\ captured' = captured \cup {c}
          /\ Goto(c, IF Provider = "rabbitmq" THEN "publish" ELSE "audit")
       \/ QueueThrows(c) /\ UNCHANGED captured /\ Goto(c, "log")
    /\ UNCHANGED <<published, indexed, audited, events>>
    /\ UNCHANGED <<profile, attempts, outcome, aborted, answer, sessionVars, forwarded>>

\* The broker confirms, or connecting or publishing fails with a warning.
Publish(c) ==
    /\ NextEvent
    /\ At(c, "publish")
    /\ \/ published' = published \cup {c}
       \/ UNCHANGED published
    /\ Goto(c, "audit")
    /\ UNCHANGED <<queueDb, storeDb, captured, indexed, audited, events, faulted>>
    /\ UNCHANGED <<profile, attempts, outcome, aborted, answer, sessionVars, forwarded>>

\* Mutant of AuditCapture: the else before the idempotency index is lost.
AuditCapture_ThenIndex(c) ==
    /\ At(c, "audit")
    /\ \/ OnStore(c) /\ audited' = audited \cup {c}
       \/ StoreThrows(c) /\ UNCHANGED audited
    /\ Goto(c, IF profile[c].keyed THEN "index" ELSE "log")
    /\ UNCHANGED <<captured, published, indexed, events>>
    /\ UNCHANGED <<profile, attempts, outcome, aborted, answer, sessionVars, forwarded>>

AuditCapture(c) ==
    /\ At(c, "audit")
    /\ \/ OnStore(c) /\ audited' = audited \cup {c}
       \/ StoreThrows(c) /\ UNCHANGED audited
    /\ Goto(c, "log")
    /\ UNCHANGED <<captured, published, indexed, events>>
    /\ UNCHANGED <<profile, attempts, outcome, aborted, answer, sessionVars, forwarded>>

\* recordIdempotentExecution: anything but an isError result is indexed.
Index(c) ==
    /\ At(c, "index")
    /\ \/ OnQueue(c) /\ indexed' = indexed \cup {c}
       \/ QueueThrows(c) /\ UNCHANGED indexed
    /\ Goto(c, "log")
    /\ UNCHANGED <<captured, published, audited, events>>
    /\ UNCHANGED <<profile, attempts, outcome, aborted, answer, sessionVars, forwarded>>

Reply(c) ==
    CASE outcome[c] = "tool_error" -> "tool_error"
      [] outcome[c] \in Results \ {"tool_error"} -> "result"
      [] OTHER -> "error"

\* Mutant of Log: a lost metrics write is a lost answer.
Log_Blocking(c) ==
    /\ At(c, "log")
    /\ \/ /\ OnStore(c) /\ events' = [events EXCEPT ![c] = @ + 1]
          /\ Respond(c, Reply(c))
       \/ StoreThrows(c) /\ Goto(c, "done") /\ UNCHANGED <<events, answer>>
    /\ UNCHANGED <<captured, published, indexed, audited>>
    /\ UNCHANGED <<profile, attempts, outcome, aborted, sessionVars, forwarded>>

\* logCall, then the handler returns the result or throws the error.
Log(c) ==
    /\ At(c, "log")
    /\ \/ OnStore(c) /\ events' = [events EXCEPT ![c] = @ + 1]
       \/ StoreThrows(c) /\ UNCHANGED events
    /\ Respond(c, Reply(c))
    /\ UNCHANGED <<captured, published, indexed, audited>>
    /\ UNCHANGED <<profile, attempts, outcome, aborted, sessionVars, forwarded>>

\* denyCredential and denyByPolicy: the call event first, then the audit entry.
DenyLog(c) ==
    /\ At(c, "deny_log")
    /\ \/ OnStore(c) /\ events' = [events EXCEPT ![c] = @ + 1]
       \/ StoreThrows(c) /\ UNCHANGED events
    /\ Goto(c, "deny_audit")
    /\ UNCHANGED <<captured, published, indexed, audited>>
    /\ UNCHANGED <<profile, attempts, outcome, aborted, answer, sessionVars, forwarded>>

DenyAudit(c) ==
    /\ At(c, "deny_audit")
    /\ \/ OnStore(c) /\ audited' = audited \cup {c}
       \/ StoreThrows(c) /\ UNCHANGED audited
    /\ Respond(c, "denied")
    /\ UNCHANGED <<captured, published, indexed, events>>
    /\ UNCHANGED <<profile, attempts, outcome, aborted, sessionVars, forwarded>>

\* The steps of c that need no event.
Run(c) ==
    \/ DryRun(c) \/ Attempt(c) \/ Classify(c) \/ Capture(c) \/ AuditCapture(c)
    \/ Index(c) \/ Log(c) \/ DenyLog(c) \/ DenyAudit(c)

Teardown == CloseLink \/ Detach \/ CloseQueue \/ CloseStore

Next ==
    \/ \E c \in Calls : \/ Arrive(c) \/ Run(c) \/ Cancel(c) \/ BackoffEnds(c) \/ Publish(c)
                        \/ \E ending \in UpstreamEndings(transport) : Answered(c, ending)
    \/ ClientEof \/ UpstreamDies \/ Kill \/ Teardown

Spec == Init /\ [][Next]_vars

\* Continuations run, timers (of the attempt and of the backoff) fire, and
\* closeBridge goes on; nobody has to send, answer, confirm, cancel or die.
Fairness ==
    /\ \A c \in Calls :
          /\ WF_vars(Run(c)) /\ WF_vars(BackoffEnds(c)) /\ WF_vars(Answered(c, "timeout"))
    /\ WF_vars(Teardown)

LiveSpec == Spec /\ Fairness

\* And the broker confirms or fails every publish.
ResponsiveBrokerSpec == LiveSpec /\ \A c \in Calls : WF_vars(Publish(c))

-----------------------------------------------------------------------------
\* Properties.

\* Durability (NFR-5): whatever moment the process dies at, a failure the
\* client has seen (an error, or an isError result of a tool with
\* captureToolErrors) is in the queue, unless the database itself failed.  It
\* needs closeBridge to detach the server before it closes the databases.
CaptureBeforeError ==
    \A c \in Calls :
        (answer[c] = "error" \/ (answer[c] = "tool_error" /\ profile[c].captureToolErrors))
            => c \in captured \cup faulted

\* The databases and the broker tell one story, across kills and failing
\* statements: a call is never both a failure to replay and an indexed execution,
\* which would make the guard skip its own replay, and whatever reached the
\* broker is replayable locally, as the index is written first.
DatabasesAgree == captured \cap indexed = {} /\ published \subseteq captured

\* Log and metrics agree: one call event for every call that was answered, and
\* never two, however many attempts it took.
OneEventPerCall ==
    \A c \in Calls :
        /\ events[c] <= 1
        /\ answer[c] # "none" => events[c] = 1 \/ c \in faulted

\* Over stdio a tool that is not idempotent is sent at most once, and any other
\* at most MaxAttempts times, across timeouts, backoffs and teardown; a denied
\* call is never sent, and no call after its last attempt.  (Over HTTP a failed
\* fetch counts as unsent and is retried for every tool.)
SendsAreBounded ==
    transport = "stdio" => \A c \in Calls :
        forwarded[c] <= IF profile[c].verdict \in {"bad_credential", "denied"} THEN 0
                        ELSE IF profile[c].idempotent THEN MaxAttempts ELSE 1

\* The link and the signal are obeyed although they change during a backoff: no
\* call is sent into a link that is closed or died, nor after the client
\* cancelled it; and a cancelled call is captured only because its retry found
\* the link down, which attemptToolCall looks at before the signal.
LinkAndSignalAreObeyed ==
    [][ \A c \in Calls :
            /\ link # "up" \/ c \in aborted => forwarded'[c] = forwarded[c]
            /\ c \in aborted /\ c \in captured' \ captured =>
                   outcome[c] = "unsent" /\ link # "up" ]_vars

\* The exit code blames the upstream exactly if its process ended the session:
\* teardown closes the link too, after a clean end by the client.
ExitCodeHonest ==
    /\ endedBy = "upstream" => link = "died"
    /\ endedBy = "client" => eof

\* run.ts lets the error responses of calls in flight flush before teardown: a
\* call that was open when the upstream died, and is not retried, is answered
\* before the server is detached.
InFlightErrorsFlush ==
    phase \in {"detached", "queue_closed", "closed"} /\ link = "died" /\ ~eof =>
        \A c \in Calls :
            outcome[c] = "closed" /\ ~profile[c].idempotent /\ c \notin aborted
                => answer[c] = "error"

\* Every call that ultimately failed is enqueued, whether or not anyone is left
\* to see the error.
FailureIsCaptured ==
    \A c \in Calls :
        pc[c] = "done" /\ outcome[c] \in Outcomes \ Results /\ outcome[c] # "cancelled"
            => c \in captured \cup faulted

\* While the session is served, every call is answered or cancelled, also when
\* the databases fail: persistence never blocks the client.
CallsAreAnswered ==
    \A c \in Calls :
        (pc[c] # "idle") ~> (answer[c] # "none" \/ c \in aborted \/ phase # "serving")

\* No call is left in a backoff or between two statements after teardown: the
\* process, which waits for its timers, exits.
EveryCallEnds ==
    \A c \in Calls : pc[c] # "idle" ~> pc[c] = "done" \/ phase = "killed"

\* A session that either side ends is torn down to its last handle.
SessionCloses == (eof \/ link = "died") ~> (phase \in {"closed", "killed"})
=============================================================================

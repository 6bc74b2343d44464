# Formal verification of mcprelay

mcprelay is a proxy between an MCP client and an MCP server. It retries failed
`tools/call` requests, captures the ones that finally fail in a dead-letter
queue, and lets an operator replay them. This directory holds TLA+ models of
its core, TLC runs that check them on small instances, and TLAPS proofs of
what matters most for every instance. Paths below are relative to the
repository root.

## The system: inventory

| Part | Source | State | Operations and neighbours | What makes it correct |
|---|---|---|---|---|
| Replay commands | `src/replay/replay-run.ts`, `guards.ts` | per process: the record it works on, the claim it holds, its attempt | get/list, dedup verdict, guard, claim, connect, call, release or resolve, audit, index; many processes share one database | one holder per record, no second execution, no lost outcome, honest exit code |
| Failure queue (SQLite) | `src/queue/sqlite-queue.ts` | tables `failures` and `executions` | enqueue, list, get, claim, release, resolve, recordExecution, lastExecution(ByHash), purge | statements are atomic and conditional; leases expire |
| Failure queue (RabbitMQ) | `src/queue/rabbitmq-queue.ts` | connection, channel, local index | enqueue = index then confirmed publish; ensureChannel; close | a record is replayable even if the broker is not there; connections are closed |
| Bridge and call pipeline | `src/proxy/bridge.ts`, `src/pipeline/*` | in-flight calls, their attempts, the upstream link, lazily opened persistence | authenticate, evaluate policy, attempt with timeout, classify, back off, retry, capture, index, log; teardown | captured before the client sees the error; bounded, class-gated retries; cancelled calls never captured |
| Transports | `src/proxy/transports.ts` | child process or HTTP session, frame decoder chain | start, send, decode, close | frames in order, one end of life |
| Session and run command | `src/proxy/session.ts`, `run.ts` | the closed promise, exit code | start, wait, close | teardown order, exit code |
| Policy | `src/policy/*` | rules | parse, match, evaluate | most specific rule wins, default decision |
| Identity | `src/identity/identity.ts` | keys | resolve, strip | unknown credentials denied, never relayed |
| Redaction | `src/redaction/redact.ts` | patterns | redact, hash | no matching key survives, hash over raw arguments |
| Store, metrics, report | `src/store/sqlite-store.ts`, `src/report/*` | tables `audit`, `call_events`, shared by proxies, replays and reports | prune when opened, record, audit; a report selects, groups, ranks and counts | retention loses nothing recent, a report is complete and exact |
| Call log | `src/observability/call-log.ts` | none | write one line | |
| Configuration | `src/config/config.ts`, `parsePolicyConfig` | defaults, file and flags, merged | read, validate, apply, resolve per tool | precedence, nothing dropped, misspellings refused |
| Command line of the wrapped server | `src/replay/command-line.ts` | one text in each record | quote, parse | the same words come back |
| CLI front ends | `src/cli/*`, `src/replay/replay-cli.ts`, `src/report/report-cli.ts`, `src/policy/policy-cli.ts` | the options of a command | dispatch, option loop, load, open, act, exit | what was typed is what happens; refused input touches nothing |

What is hard: several operating-system processes (replay invocations, proxies)
share one SQLite file and interleave between any two statements; a claim is a
lease with no owner; calls retry across timeouts while the client may cancel,
the upstream may die and teardown may close the database; and several things
that belong together (resolve, audit, index) are separate statements. What one
process stores as text (arguments with their secrets removed, a command line)
another must turn back into the same call, and a setting may come from four
places.

## Modules

| Module | Models | Built on |
|---|---|---|
| `DeadLetterQueue` | the two tables of `sqlite-queue.ts`, one operator per SQL statement; `guards.ts` | |
| `Replay` | `replay run <id>` and `replay run --all` as any number of processes, the live proxy, the clock, crashes | `DeadLetterQueue` |
| `Redrive` | abstract: what replay promises, without database, lease or clock | |
| `Classify` | `classify.ts`, and which classes `failure-record.ts` can store | |
| `CallPipeline` | one `mcprelay run` session: `interceptToolCall`, `runWithRetry`, `captureFailure`, `closeBridge`, `runProxy` | `Classify` |
| `RabbitQueue` | `rabbitmq-queue.ts` with concurrent enqueues, the broker and `close()` | |
| `UpstreamTransport` | `UpstreamTransport` and `FrameDecoder` of `transports.ts`, and the child | |
| `Policy` | rules, matchers and specificity | |
| `Admission` | identity, the loop of `evaluateCall`, enforcement, what is relayed | `Policy` |
| `Metrics` | the selection, groups, percentiles and totals of `SqliteStore.metrics`, with their reference definitions | |
| `History` | the store as its processes share it: opening and pruning, call events, audit entries, `mcprelay report` | `Metrics` |
| `Json` | the values of `JSON.parse` and of the YAML parser as trees, and their leaves | |
| `CommandLine` | `command-line.ts`: quoting, joining, and the parser as a fold over characters | |
| `Redaction` | `redactValue`, `applyOverrides`, `redactedMarkerKeys` over trees | `Json` |
| `Settings` | the sections of the file as rules, `loadConfig`, `resolveToolPolicy` | `Json` |
| `Commands` | every command of the CLI, typed one after the other: option loops, loading, opening, sessions that leave records, replays that send them again, exit codes | `CommandLine`, `Redaction`, `Settings` |
| `MC...` | values for TLC | the module of that name |
| `...Proofs` | theorems | the module of that name (`UpstreamTransport` for `TransportProofs`) |
| `RecordProofs` | theorems about what a record keeps: its command line and its arguments | `CommandLine`, `Redaction` |

They fit together as the code does. `Admission` decides what `CallPipeline`
takes as the `verdict` of a call. `UpstreamTransport` delivers the answers and
the one `onclose` that are the actions `Answered` and `UpstreamDies` of
`CallPipeline`. `RabbitQueue` opens up its step `Publish`. The records that
`CallPipeline` captures and the executions it indexes are the actions `Capture`
and `LiveSuccess` of `Replay`. `History` has the tables that `Log` and
`AuditReplay` write, with the one neighbour those modules leave out, a process
that prunes. `Commands` puts the front ends, the configuration, redaction and the
command line together and follows one record through all of them: from the words
typed for `run`, through the text that is stored, to the call a later `replay run`
sends; there a session is one step per call and a refusal of the guard or of the
claim an outcome, since their order is what `CallPipeline` and `Replay` are about.
A composition of all of them would only multiply
states that do not touch; each is checked with its neighbours as open inputs.

### How the code is mirrored

**Processes and statements.** A replay invocation or a proxy is an operating
system process. In `Replay` a step is one SQL statement or one network event and
invocations interleave between any two, because SQLite serialises statements of
different processes and nothing more. A crash (`SIGKILL`, power) may come
between any two steps. `busy_timeout` and its failure are left out.

**The event loop.** `CallPipeline` and `UpstreamTransport` are one Node process.
A call in `Busy` runs continuations and synchronous SQLite statements; frames,
timers, EOF, the exit of the child and `setImmediate` (guard `NextEvent`) wait
until no continuation is left. How many continuations the SDK puts between two
awaits is external, so running calls interleave freely with each other and with
the rest of the teardown. `UpstreamTransport` has an explicit microtask queue,
because there the order of two continuations is the point.

**Time.** `Replay` has a clock; a lease, the dedup window and the deadlines of
steps are compared with it. `ConnectBound`, `Timeout` and `Slack` bound reaching
the server, the call, and each statement. The pipeline needs no clock: a timeout
is an ending that an attempt may have at any moment.

**Data.** A record is its position in capture order; its arguments are a hash, a
key and whether anything is redacted. A call of the pipeline is what the
configuration says of it (its profile). A frame is two pieces of which the
second has the newline. A regular expression is the set of texts it accepts,
arguments are the function from the paths that `getPath` finds. In `Commands`
arguments and configuration files are trees, a text is a sequence of characters,
and a character is a member of the classes `command-line.ts` tells apart; a token
is a name, with its characters and what `Number`, `URL`, `Date.parse` and
`JSON.parse` make of it given as constants. A key contains a pattern if the
constant `Inside` says so. In `History` a time is a number of ticks and its text a
pair: the second that is written, and the place among the milliseconds at which
what follows it sorts. In `Settings` one operator accepts a value by the rule
of its section and one copies what it sets, which stand for the fifteen `apply...`
and `parse...` functions of `config.ts`. Latencies and sizes are numbers and
percentiles are computed from them.

| Module | State | Code |
|---|---|---|
| `Replay` | `pc`, `cur`, `selected`, `result`, `ok`, `at` | the locals of `runReplayRecord`, `replayBatchRecord`, `persistOutcome` |
| | `status`, `claimExpiry`, `executions`, `audit` | columns of `failures`; tables `executions`, `audit` |
| | `sent`, `deadline` | history of calls; model time |
| `CallPipeline` | `pc`, `attempts`, `outcome`, `aborted` | a call in `interceptToolCall` and `runWithRetry`, its `AbortSignal` |
| | `link`, `phase`, `endedBy`, `eof` | `UpstreamLink.connected`, where `runProxy`/`closeBridge` is, the promise `closed` |
| | `queueDb`, `storeDb` | the handles of `createPersistence` |
| `RabbitQueue` | `connection`, `channel`, `grabbed` | `this.connection`, `this.channel`, the locals of `close()` |
| | `sockets`, `channels`, `unconfirmed`, `delivered` | amqplib and the broker (external) |
| `UpstreamTransport` | `buffer`, `chain`, `tasks` | `FrameDecoder.buffer`, `.processing`, the microtask queue |
| | `closing`, `closed`, `closes`, `blamed` | fields of `UpstreamTransport`, its calls of `onclose` and `onerror` |
| `Admission` | `index`, `best` | the loop of `evaluateCall` |
| `History` | `retentionDays`, `stamped`, `query`, `selected` | the configuration of a process, the `CallLogEntry` it has built, `ReportOptions` (the `text` of a bound; its `at` is for the properties), the rows of the first statement |
| | `callEvents`, `audit` | tables `call_events`, `audit` (entries of kind `replayed`) |
| | `recorded`, `cutoffs` | history of inserts and prunes |
| `Commands` | `command`, `rest`, `at`, `options` | subcommand, `tokens`, `index` and `options` of the option loop |
| | `config`, `opened`, `launched`, `todo`, `current`, `sent`, `exit` | `McprelayConfig`, open handles, the server that is up, the records of a replay, the last `tools/call`, `process.exitCode` |
| | `dlq` | table `failures`: server text, redacted arguments, pending or not; each record with the call it came from as history |

## Runs

| Run | Question | Bounds |
|---|---|---|
| `replay_race` | one holder, one execution, no lost outcome; steps of `Redrive` | 2 invocations, 2 unkeyed records, lease 3, hold 1+1+1, clock 5 |
| `replay_guard` | dedup guard, what is reported, one audit entry per replay, termination | 2 invocations of any command line, 2 records with one key, one redacted; lease 1 and timeout 2, so holders overlap |
| `pipeline_sqlite` | capture before error, bounded sends, link and signal, exit code, flush | 2 calls (plain, keyed and retried, denied), 3 attempts, stdio |
| `pipeline_faults` | tables agree, everybody is answered, everything ends, although any statement may fail | 1 call of all 32 profiles, 2 attempts, both transports, RabbitMQ |
| `rabbit_publish` | no silent loss, no forgotten connection, a live channel is kept, enqueues end | 2 concurrent enqueues, all failures |
| `transport_frames` | frames whole and in order, one close, for the right reason | 3 frames of 4 kinds, every chunking |
| `admission` | precedence, caller, enforcement, credential | lists of up to 3 of 6 rules, 18 calls, 2 key sets |
| `history` | retention keeps what is recent and removes what is not; reports are complete and exact | 2 writers and a report with every combination of retentions, 0 (keep all) and 1 day of 2 seconds of 2 ticks; 2 files with old rows, up to 4 calls; the default window and bounds of 4 forms |
| `commands` | the server, the arguments and the settings are those that were meant; refused input touches nothing | some 60 lines, 20 files, 4 calls, one record at a time, trees of up to `MaxDepth` = 6 levels |

Two actors are enough for the races: every conflict in this code is between a
pair (two claims, two resolves, a guard and an execution, a replaced connection
and its replacement) and every third actor repeats the role of one of the two;
the proofs cover any number. Clocks reach past the end of one lease and, in
`replay_guard`, of a second one. Three frames are what a frame, its predecessor
and a cut one need; a blank line is written only when nothing is unread. Three attempts tell "at most once" from "at most
MaxAttempts". Three rules give a loop a best, a better and a tie.

In `commands` one thing happens at a time, so the instance is a list of what may
be typed: every flag of every command given, given twice, without its value and
with a bad one; servers with a blank, an empty word, both quotes, a trailing
backslash, a character that needs quotes, and a `--` among their words; files
with each section, each kind of value and each kind of mistake at each depth. A
session is typed only while a name for a record is free, and there is one name: a
line that asks for another finds nothing, a batch has one record or none. What
happens to two records at once is what `Replay` is about, and the theorems below are
for any number. The line a command was typed as is kept as groups, a flag with its
value; `IsLineOf` says which grouping belongs to the tokens of a command. Every
sequence of tokens has one, so it restricts nothing that can be typed. `MaxDepth`
is 6 because the configuration is that deep; files and arguments that are deeper
than the bound are outside of the model.

A property of one run is stated for what the run's model can tell apart. The type
invariants of `Replay`, `CallPipeline`, `RabbitQueue`, `Admission` and the
inductive invariants are proved (`TypeCorrect` and below) instead of being run.

Three runs end in a counterexample to a sentence of the documents.

| Run | The documents say | The code does |
|---|---|---|
| `replay_long_call` | no record is executed twice by concurrent runs (`openspec/specs/replay-cli/spec.md:116`) | the lease is five minutes whatever the timeout of the tool, which configuration does not cap |
| `replay_check_then_act` | a success in the window requires `--force` (`replay-cli/spec.md:72`) | the verdict is read before the claim, the claim is per record and the guard per key |
| `pipeline_lost` | a call that ultimately fails is enqueued (`docs/PRD.md:261`) | `closeBridge` does not wait for calls in their backoff |

`CHECK_DEADLOCK FALSE` is in every configuration because every model stops:
invocations exit, sessions close, clocks and histories reach their bound, a
decision is made. (`Commands` always takes another line.)

### Fairness

Liveness is checked in `replay_guard`, `pipeline_faults`, `rabbit_publish` and
`transport_frames`. Assumed fair is what Node and the operating system owe a
running process: a continuation runs, a timer (attempt timeout, backoff, connect
timeout) fires, `closeBridge` goes on, the loop polls its descriptors. No client
has to send, cancel or leave; no upstream has to answer; no crash is fair. One
assumption is stronger: in `pipeline_faults` and `rabbit_publish` the broker
confirms or refuses what it was sent or its connection ends. Without it
`CallsAreAnswered` fails: see the first of the divergences below.

## Proofs

TLAPS checks these for every value of the constants (`tlapm <module>`). They
cover every safety property that a passing run checks.

| Module | Theorems | Assumptions |
|---|---|---|
| `ReplayProofs` | `TypeCorrect`; `LeaseSafe`, `MutualExclusion`, `AtMostOnce`, `OutcomeKept`, `Refinement`; `OneAudit`, `DedupGuard`, `ReportsAreTrue` | `DlqAssumption`, `ReplayAssumption`; the second group also `HoldFitsLease` |
| `CallPipelineProofs` | `TypeCorrect`, `SeenFailuresAreCaptured`, `CapturedOrIndexed`, `OneEvent`, `SendsBounded`, `ExitCode`, `LinkAndSignal`; `ErrorsFlush` | `PipelineAssumption`; for `ErrorsFlush` also `Provider = "sqlite"` |
| `RabbitQueueProofs` | `TypeCorrect`, `ReturnedIsDelivered`, `OneIsHeldOrClosed`, `OnlyItsOwnClose` | `RabbitAssumption` |
| `AdmissionProofs` | `TypeCorrect`, `Precedence`, `CallerEarned`, `AdmittedOnly` | `AdmissionAssumption` |
| `HistoryProofs` | `RetentionExact`, `RecentKept`, `ExpiredGone`, `ReportComplete`; `ReportOfRows`, `ReportExact` | `HistoryAssumption`, `SecondAssumption` |
| `TransportProofs` | `OneEnd`, `InOrder`, `NoOvertaking` | none |
| `RecordProofs` | `RoundTrip`; `RedactsOnlySecrets` | none; `JsonAssumption` |
| `CommandsProofs` | `BadInputIsHarmless`; `ServersAsTyped`, `OnlySecrets`, `ReplaysAreComplete`, `SettingsInOrder`, `NothingIsDropped` | none; `CommandsAssumption`, `SettingsAssumption`, `JsonAssumption` |

The assumptions say what the constants are, not how the program behaves, but for
`HoldFitsLease` and the `Slack < Day` of `HistoryAssumption`, of which below.
`CommandsAssumption`: files and arguments are trees, the arguments of a call are an
object (as the protocol has them), a line is grouped as its command reads it.
`JsonAssumption` and `SettingsAssumption` are about `MaxDepth`, the bound of the
trees: it is a natural number and no less than the depth of the sections. Since it
may be any such number, and every tree that was parsed is finite, the theorems are
about every tree. `HistoryAssumption` has `IsCall`: decisions are those the
proxy writes, and latencies and sizes are integers.

*Replay.* That two invocations never hold one record is not inductive: `claim`
only looks at the lease, so a holder must be done before its lease ends.
`LeaseInv` adds `LeaseCovers`: the deadline of the current step plus all a
holder may still need is within the lease it took. It is preserved because each
step spends exactly what `StillNeeded` sets aside, which is where
`HoldFitsLease` is needed: connect + call + persist fit the lease. With the
default configuration it is 60 s + 30 s and a few statements against 300 s;
`replay_long_call` shows what happens without it. `CallsSettled` (a call that
was sent is out, settled or lost in a crash) then gives at-most-once.

*Replay, what is left behind.* The audit entry, the guard and the report can be
trusted even where leases run out, so these proofs do without `HoldFitsLease` and
need other invariants. Most steps touch none of the three tables and bring nobody
to the statements that write them; `MostStepsAreQuiet` says so once, and what is
left is `ResolveRecord`, `AuditReplay` and `IndexExecution`. `AuditInv`: a record
at its audit statement is resolved, is not audited yet and has one invocation
there, because `resolve()` lets only one pass. `GuardInv`: a success with a key is
indexed, or its invocation is about to index it and has not used up its two
statements, or it died. The row of a key may be older than the last success by
those two statements, since a replay that resolved first may index last: that is
where the `2 * Slack` at both ends of the window in `DedupHonoured` comes from.
`ReportInv`: an invocation reports on a record when it is done with it, and what
it has sent it is still working on or has reported as executed; replayed records,
audit entries and rows of the index are never taken back (`TablesGrow`), so a
report that was true stays true.

*Replay implements Redrive.* The phase of a record is read off its status and off
its holder, who is unique by `LeaseInv`. `Capture` adds a record, a claim takes
it, the `tools/call` is the one step that sends, `resolve()` settles it, release
and crash give it back; each changes the phase of one record and of no other
(`OtherPhasesKept`). Every other step leaves all phases and `sent` alone. That a
record is not sent twice by one invocation, which `Redrive` asks for, is
`ReportInv`.

*Pipeline.* `CaptureBeforeError` rests on where a call can be when the queue is
closed: the server is detached by then, so no answer leaves, and before that a
failing call passes `Capture` on its way to its answer. `CaptureInv`,
`ExclusionInv`, `EventInv` and `SendInv` say so per step; `SessionInv` ties the
handles to the phase of the teardown. `SendInv` counts: a tool that is not
idempotent has been sent only if it is waiting, settled or past its last attempt.
`LinkAndSignalAreObeyed` is an action property; `AbortInv` carries what it needs
from one step to a later one: the outcome of a call that was cancelled in flight
is `cancelled`, and only an attempt that found the link down can be `unsent`.
`FlushInv` is the argument of the comment at `run.ts:74-75`: a call that was open
when the upstream died is running continuations until its error is written, and
the callback that goes on with teardown is an event, which waits for them. It
needs a capture that waits for no event, hence SQLite; with RabbitMQ the
capture waits for a confirm, which is one of the divergences below.

*RabbitMQ.* `EnqueueInv`: an enqueue that waits and whose message the broker has
not stored still waits for that message. `AttachInv` adds to
`ConnectionIsNotForgotten` that only an enqueue that is past `Attach` has set up a
connection, so that no step of another enqueue can make it count as set up.

*Transport.* `EndInv`: `closes` counts what `closed` says, and a transport that is
closing is closed, since `close()` finishes it itself; an exit that comes after
it finds `closing` set and blames nobody. `FrameInv` is about order. `StreamInv`:
buffer and pipe together are what the child wrote from the decoder's place on, so
that the position of a piece decides which frame it belongs to and whether it
ends it. `SplitStream` computes what `decode` cuts from such a stream: the next
frames, each whole, and a rest that is again one; `NthOfEveryOther` counts the
newlines. `TaskInv`: one frame of the chain is worked on at a time, its line, the
handler the line may have queued, then the continuation that takes up the next
line. That continuation is the `await Promise.resolve()` at the end of
`processLine`, there for the sake of the handler it lets run first. `OrderInv` follows:
what is handled is 1, 2, 3, ..., the chain goes on from there, and effects only
increase.

*History.* `RetentionInv`: the table is `recorded` less everything older than some
cutoff, and a stamped entry that is not yet inserted is younger than every cutoff.
The second half is why `Slack < Day` is assumed: a prune cuts at least a day back,
and a statement that waited longer than that for the lock could insert what was
just found too old. A process that is suspended for a day between the two is
outside of the assumption. That the clock does not go back is part of the model.

*The window of a report.* The code compares texts: stamps of `toISOString` with
what was typed. `StampOrder` says that stamps sort as their instants, so a report of
the last day, or one whose bounds are written as stamps, selects exactly what was
asked. `BoundMisses` says what any other text does: `Blur` is a second for a time in
UTC without milliseconds and for a date, and a second more than the offset for a time
in another zone, and the report is right about every call that is farther than that
from its bounds. Less cannot be said, see the divergences. `ReportComplete` joins
this with `RetentionInv`; `QueryInv` says that the bounds stay those of the parser.

*What a report computes.* `ReportOfRows` is about any finite set of rows: what
`metrics` builds from them has the counts, percentiles and means of its headings,
and its groups add up to its totals. The percentile is taken by rank from a sorted
column, so the proof needs what the column is: in place i stands a latency that at
least i rows do not exceed and fewer than i are below (`FastestIs`,
`LatenciesAscend`), and `NearestRankIs` turns the rank into the share of rows
`IsPercentile` speaks of. That groups sum to totals is `PartitionSum`, an induction
over the rows. `ReportInv` then says that what a report selected are calls and what
it prints was computed from them, and `ReportExact` follows.

*Admission.* `LoopInv`: `best` is the first of the most specific matches among
the rules seen so far; a lemma shows that one round keeps it.
`OnlyAdmittedIsSent` is inductive as it stands: enforcement is the only step to
the first attempt, and it is reached with a caller and a decision.

*Induction over data.* Quoting, parsing, redaction, leaves and sums are recursive
functions over texts, trees and sets. The induction theorems of the library take the
formula as a parameter, which the provers cannot instantiate; these proofs induct
over a set instead. The numbers for which the claim holds are a subset of `Nat` that
has 0 and the successor of each of its members, and a least number outside of it
would contradict that (`SetInduction`, from the library's `WFMin`). Two more things
have to be shown that are silent elsewhere. A function defined by its own values has
them only if some function satisfies its equation (`RecursionExists` for sequences;
for trees one builds it level by level, `LeavesExist`, `RedactionExists`,
`MarkersExist`, `AppliedExist`). And a recursion over the nodes of a tree agrees on
a branch with the one that starts there (`LeavesOfParts` and the `...StepLocal`
lemmas). `NodeInduction` is the induction over a tree, from the deepest level up.

*The command line of a server.* `RoundTrip` follows the parser through the text that
`quoteCommandLine` made. `OneRead` and `EscapedRead` say what a character, plain or
behind the escapes of a quote, does to the state; `PlainRead` and `QuotedRead` that a
token leaves the parser outside of quotes with the token as the word it builds;
`WordsRead` that after n words the list has the first n - 1 and the last is being
built. An empty word is there only because a quote was seen.

*Commands, input that is refused.* `TouchInv` says how far a command in each phase can
have come: before `open` it has nothing, and the exits with code 2 are all before it,
but for the one of `policy test`, which opens the queue only if it was given `--id`
and looks at `--args` only if it was not.

*Commands, the option loop.* What is typed is a sequence of tokens, what is meant is a
list of flags with values, and `--` or a flag may be the value of another. `LineInv`
follows the loop of `run` and of `replay run`: it has read the first k groups
(`ReadTo`), stands behind them, and `OptionsRead` says that its options are those of
the first k groups, with the last value of each flag and of each key of `--set`.
`LoopAt` shows that the next token is the flag of group k + 1, and that the loop ends
only behind the last group: at the `--` that is no value, or at the end.
`ServersAsTyped` takes from it what a session starts, and `KeepsServer` with
`RoundTrip` carries it through the table and back. It was false of an earlier version
of the model, in which a record that cannot be read left the server of its
predecessor standing.

*Commands, redaction.* `RedactsOnlySecrets` says of any tree and any patterns that the
leaves of the result are those of the value, each hidden at the first matching key on
the way to it or as it was. `RedactionInv` adds whose patterns these are: from the
file to the capture, those in force are those the file asks for. That is a statement
about the validation and the merge of the file (`AcceptedPatterns`,
`PatternsOfDocument`), and about flags, which touch other sections
(`FlagsKeepPatterns`, `IdentityKeepsPatterns`). A file may ask for none.

*Commands, replays.* `ReplayInv`: the arguments of each record are a redaction of the
arguments of its call. Where a replay sends, no marker is left in them with the
overrides of `--set` on top; so no leaf outside of the keys that were named can have
been hidden (`NoMarkerLeft`, `RedactedIs`), and they are the leaves of the call
(`SentAgain`). The overrides themselves are those of the option loop.

*Commands, the settings of a call.* `AcceptedReliability` says what validation leaves of
the section: mappings of single values, of which the retry mapping and the entry of
each tool may have some. `ReliabilityApplied` says what setting such a section over
another comes to (`Settles`), and is used twice, for the file over the defaults and
for the flags, which are a section of their own, over both: `Loads` has the result.
`LeavesMeant` reads the same fields off the leaves of a file (`SaidIn`), so
`PolicyInOrder` has the settings of a tool on one side and the first place that says
something on the other, field by field. `SettingsInv` says so of every tool from the
moment the configuration is loaded, with the flags as typed (`FlagsTyped`, from
`LineInv`): for `replay run` these are none.

*Commands, every setting.* `NothingIsDropped` relates each leaf of a file to the leaf in
force. `Merged(v, before, after, ...)` is what a step of the merge has to come to:
`after` has what `v` writes, at its path, and of `before` what `v` does not write over,
where a list is written as a whole. `FieldsMerged` says that an object is merged if its
fields are, and so the rules follow from the leaves up: single values, the duration of
the window and lists (`SingleMerges`, `DurationMerges`, `ListMerges`), mappings, whose
rule must name every field (`MappingMerges`, from `FieldsAccepted`) and mappings by name
(`NamesMerge`), then each section (`SectionMerges`) and the document
(`DocumentMerges`). That each field written has a rule is where the refusal of
misspelled names is needed. `FlagsMerge` and `ProfileMerges` add what the command line
sets; its paths are those of the flags that were typed (`OverTyped`, from `LineInv`).

Only model-checked: liveness, since fairness is beyond the prover.

## Divergences seen while modelling, without a run of their own

- A broker that takes messages and never confirms them holds the error of the
  client back for ever: `rabbitmq-queue.ts:55` has no bound and
  `captureFailure` waits for it, although `bridge.ts:421` says it never blocks
  the client.
- With RabbitMQ the error of a call that was open when the upstream died may not
  be out when the server is taken off the wire: one `setImmediate`
  (`run.ts:74-75`) does not wait for a confirm. `InFlightErrorsFlush` is
  therefore checked with SQLite.
- The HTTP transport reports a failed `fetch` although the request may have been
  executed; `bridge.ts:366-367` takes it for unsent and it is retried for every
  tool. `SendsAreBounded` is restricted to stdio.
- A connection that ends after `bindQueue` was answered and before its handlers
  are attached stays in `this.channel`: from then on every capture warns, until
  the proxy restarts. One that breaks before the `'error'` listener is attached
  is an uncaught exception (`rabbitmq-queue.ts:130-141`).
- A write to a child that has died and is not reaped raises an `'error'` on a
  `stdin` without a listener (`transports.ts:169`): the proxy ends with another
  exit code than `openspec/specs/stdio-proxy/spec.md:92` promises. It is
  `crashed` in `UpstreamTransport`.
- The live guard takes its key from `_meta` first; a record keeps only the
  arguments, so the replay guard looks up another identity
  (`replay-run.ts:404`). A replay without a key is not indexed at all
  (`replay-run.ts:283`; `replay-cli/spec.md:87-88`).
- A call cancelled during its backoff is captured if its retry finds the link
  down: `attemptToolCall` looks at the link before the signal (`bridge.ts:635`) and
  the backoff does not look at it at all. `openspec/specs/retry-pipeline/spec.md:76`
  says a cancelled call is not captured; `LinkAndSignalAreObeyed` says what holds.
- A RabbitMQ connection whose setup is refused, that a concurrent enqueue replaces,
  or that comes up after `close()` is held by nobody and stays open
  (`rabbitmq-queue.ts:123-142`), although `docs/adr/0008-rabbitmq-adapter.md`, D5,
  says `close()` closes deterministically. `ConnectionIsNotForgotten` is about the
  connections that were set up.
- The bounds of a report are not inclusive for every ISO-8601 text, as
  `openspec/specs/store/spec.md:24` says they are. They are validated by `Date.parse`
  (`report-cli.ts:61`), kept as typed, and compared as texts with stamps that end in
  `.mmmZ` (`sqlite-store.ts:137-142`, `279-286`). The form of the top-level README
  (line 189), `--since 2026-10-01T00:00:00Z`, sorts after every stamp of its second:
  it drops the calls of that second, the one at the boundary included, and as
  `--until` it admits them, up to .999 s late. A date as `--until` drops the boundary.
  A time in another zone is off by the offset. `ReportIsComplete` with `Blur` set to
  0 for every bound is what the specification promises. TLC refutes it with a report
  from `00:00Z` that lacks a call recorded at `00:00.000Z`. The property therefore is
  exact for the default window and for bounds written as stamps, and bounds the error
  for the others. Texts `Date.parse` accepts and no ISO-8601 form has ("Oct 1 2026")
  are covered only as far as they are pairs of the model.
- `replay list` and `run --all` compare `--since` and `--until` in the same way
  (`sqlite-queue.ts:96-102`) and do not validate them (`replay-cli.ts:75-76`).
- The count of replays in a report ignores `--tool` and `--caller`
  (`sqlite-store.ts:277-289`).
- The patterns of a file replace the default patterns (`config.ts:519`):
  a file with one of its own stops redacting tokens and passwords, where
  `openspec/specs/dead-letter-queue/spec.md:59-60` has patterns that the file
  "adds" redacted "too".
- An empty list of patterns is accepted (`config.ts:511-519`) and turns redaction off:
  what a record keeps is then all the client sent. `OnlySecretsAreRedacted` takes the
  file at its word.
- The command line of the wrapped server is stored as it was typed: what it has
  after `--token` is not redacted.
- `--set` names only keys of the top level and its values are texts: a record
  whose secret lies deeper can be replayed only by replacing the whole branch by
  a text (`guards.ts:15-20`).
- A pattern that matches the name of the idempotency key makes every record of a
  tool share the key `[REDACTED]` (`replay-run.ts:404`).
- `openProviders` leaves the queue open if the store does not open
  (`replay-run.ts:79-91`); the process ends right after.
- `--all` takes the 50 newest records (`sqlite-queue.ts:222`) where the
  top-level README says all.
- A result of kind `input_required` is indexed as a success (`bridge.ts:711`).
- Only `tools/call` passes `stripCredentialFields`; other requests are relayed
  with the `_meta` they came with (`bridge.ts:825`), where
  `openspec/specs/identity/spec.md` says any relay. `Admission` is about
  `tools/call`.
- `policy test --id` judges the redacted arguments of a record as caller `local`
  (`policy-cli.ts:106`, `177`), not the call that was enforced. A read of the queue
  that throws there is not caught (`policy-cli.ts:101`) and is left out of `Commands`.
- `queue.close()` of a `RabbitQueue` awaits the broker; in `CallPipeline` the
  teardown closes the queue in one step. `RabbitQueue` has the steps of `close()`.

## Not modelled

- `purge()`, `health()` and `listAudit()` have no caller, and no code sets the
  status `discarded`. The tool inventory of `session.ts` is written and never read.
- What is printed: the tables, summaries and details of `list`, `inspect`,
  `report`, `policy test` and `--dry-run`, the lines of the call log, warnings and
  the wording of errors. No state depends on them. The call log keeps none.
- The regular expressions with which `redactMessage` and `redactDeep` search free
  text, the cost check of the expressions in a policy (`compileRegex`; a set of
  accepted expressions in `Settings`), and globs (a set of tools in `Policy`).
- `canonicalJson` and its hash: in `Replay` the hash is the name of the arguments.
- YAML, `URL`, `Date.parse`, the protocol of the SDK, amqplib and SQLite below
  their promises are external.
- `examples/echo-server` and `scripts/` are not part of the program.

## Plan

Done, in the order of importance: the queue and replay with the abstract
protocol; the pipeline and its teardown; the RabbitMQ adapter; the upstream
transport; admission; the store with retention and reports; configuration,
redaction, stored command lines and the commands that join them; and the proofs
of their safety properties. Next:

1. An abstract `DurableCall` (a call is answered, and a failure that is seen is
   durable) that `CallPipeline` implements.
2. `CallPipeline` with `RabbitQueue` in the place of `Publish`, one call each
   side of a teardown.

------------------------------ MODULE Commands ------------------------------
(***************************************************************************)
(* The commands of mcprelay one after the other, as an operator types them: *)
(* the option loops of cli/run.ts, replay-cli.ts, report-cli.ts and          *)
(* policy-cli.ts, then the configuration, then the databases and servers a  *)
(* command touches, and its exit code.  A `run` leaves records of failed    *)
(* calls that a later `replay run` sends again.                             *)
(*                                                                         *)
(* A step is one round of an option loop or one phase of a command.  What   *)
(* commands do to each other when they overlap, the dedup guard and the     *)
(* lease are in Replay; a refusal of theirs is an outcome here.             *)
(***************************************************************************)
EXTENDS CommandLine, Redaction, Settings, SequencesExt

CONSTANTS
    Lines,       \* what may be typed: [verb, groups, tail]
    Files,       \* what the path of the configuration may lead to
    Calls,       \* the calls of the client: [tool, arguments]
    Ids,         \* names for records (their number is a bound)
    Chars,       \* the characters of a token
    Numbers,     \* tokens that Number() takes for an integer, and which
    Pairs,       \* tokens of the form key=value, as <<key, value>>
    Urls,        \* tokens that parse as a URL
    Dates,       \* tokens Date.parse takes
    JsonTexts,   \* tokens JSON.parse takes
    Nothing

VARIABLES
    line,        \* (history) the line that was typed
    command,     \* the command it names
    rest, at,    \* the tokens of its option loop, and the next one
    options,     \* what the loop has read: the values of each flag
    file,        \* (history) what the configuration file was
    config,
    pc,
    opened,      \* the databases the command has opened
    launched,    \* the server it, or the replay of a record, has started or connected to
    todo,        \* replay run: the records left
    current,     \* the record it works on: none or one
    failed,      \* whether one was not executed well
    sent,        \* the last tools/call sent upstream
    exit,        \* exit code of the last command
    dlq          \* the records

parseVars == <<line, command, rest, at, options>>
touchVars == <<opened, launched, todo, current, failed, sent>>
vars == <<parseVars, file, config, pc, touchVars, exit, dlq>>

\* What the end of a command leaves behind, for the properties to look at.
kept == <<line, opened, launched, current, sent, dlq>>

-----------------------------------------------------------------------------
\* The flags of each command and what they take.

RunFlags ==
    [flag \in {"--config", "--identity", "--http", "--timeout-ms", "--max-attempts", "--policy-dry-run"} |->
       CASE flag = "--http" -> "url"
         [] flag = "--policy-dry-run" -> "none"
         [] flag \in {"--timeout-ms", "--max-attempts"} -> "count"
         [] OTHER -> "text"]

FilterFlags ==
    [flag \in {"--config", "--json", "--tool", "--correlation-id", "--since", "--until", "--limit"} |->
       CASE flag = "--json" -> "none"
         [] flag = "--limit" -> "count"
         [] OTHER -> "text"]

ListFlags == Over([flag \in {"--status"} |-> "status"], FilterFlags)

RedriveFlags ==
    Over([flag \in {"--set", "--all", "--dry-run", "--force"} |-> IF flag = "--set" THEN "pair" ELSE "none"],
         FilterFlags)

ReportFlags ==
    [flag \in {"--config", "--since", "--until", "--tool", "--caller", "--json"} |->
       CASE flag = "--json" -> "none"
         [] flag \in {"--since", "--until"} -> "date"
         [] OTHER -> "text"]

PolicyFlags ==
    [flag \in {"--config", "--tool", "--args", "--caller", "--id", "--json"} |->
       IF flag = "--json" THEN "none" ELSE "text"]

Flags ==
    [cmd \in {<<"run">>, <<"validate">>, <<"report">>, <<"policy", "test">>}
              \cup ({"replay"} \X {"list", "inspect", "run"}) |->
       CASE cmd = <<"run">> -> RunFlags
         [] cmd = <<"validate">> -> [flag \in {"--config"} |-> "text"]
         [] cmd = <<"report">> -> ReportFlags
         [] cmd = <<"policy", "test">> -> PolicyFlags
         [] cmd = <<"replay", "run">> -> RedriveFlags
         [] OTHER -> ListFlags]

IsValue(kind, token) ==
    CASE kind = "text" -> TRUE
      [] kind = "url" -> token \in Urls
      [] kind = "count" -> token \in DOMAIN Numbers /\ Numbers[token] >= 1
      [] kind = "status" -> token \in {"pending", "replayed", "discarded"}
      [] kind = "pair" -> token \in DOMAIN Pairs
      [] kind = "date" -> token \in Dates

Given(flag) == flag \in DOMAIN options
Value(flag) == options[flag][1]

\* What --set has collected: a text for each key it named.
Overrides == IF Given("--set") THEN options["--set"] ELSE <<>>

\* A flag given twice has the value given last, and so has a key that --set names twice.
Put(flag, values) ==
    [f \in DOMAIN options \cup {flag} |->
       IF f # flag THEN options[f]
       ELSE IF f = "--set"
       THEN Over([k \in {Pairs[values[1]][1]} |-> Pairs[values[1]][2]], Overrides)
       ELSE values]

-----------------------------------------------------------------------------
Init ==
    /\ line = Nothing /\ command = <<>> /\ rest = <<>> /\ at = 1 /\ options = <<>>
    /\ file = Nothing /\ config = Nothing /\ pc = "prompt"
    /\ opened = {} /\ launched = Nothing /\ todo = {} /\ current = {} /\ failed = FALSE
    /\ sent = Nothing /\ exit = 0 /\ dlq = {}

Goto(label) == pc' = label

\* What a process knew ends with it.
Exit(code) ==
    /\ exit' = code /\ Goto("prompt")
    /\ command' = <<>> /\ rest' = <<>> /\ at' = 1 /\ options' = <<>>
    /\ file' = Nothing /\ config' = Nothing /\ todo' = {} /\ failed' = FALSE

\* runCli, runReplay and runPolicy: which command the tokens name.  The flags of
\* `run` and `--` name it too.
Dispatch(argv) ==
    IF \/ argv = <<>> \/ argv = <<"version">>
       \/ argv[1] \in {"help", "--help", "-h", "--version", "-v"}
    THEN [command |-> <<"print">>, rest |-> <<>>]
    ELSE IF argv[1] \in {"validate", "report", "run"}
    THEN [command |-> <<argv[1]>>, rest |-> Tail(argv)]
    ELSE IF argv[1] = "--" \/ argv[1] \in DOMAIN RunFlags
    THEN [command |-> <<"run">>, rest |-> argv]
    ELSE IF argv[1] \in {"replay", "policy"} /\ Len(argv) > 1 /\ SubSeq(argv, 1, 2) \in DOMAIN Flags
    THEN [command |-> SubSeq(argv, 1, 2), rest |-> SubSeq(argv, 3, Len(argv))]
    ELSE [command |-> <<"unknown">>, rest |-> <<>>]

TokensOf(l) == l.verb \o FlattenSeq(l.groups) \o l.tail

\* The groups of a line are what its flags and their values are, up to a value that
\* is missing at the end, and a token that is no flag is on its own; for `run` the tail
\* is the first `--` that is no value, and what follows it.  Every sequence of tokens
\* can be written so, in one way.
IsLineOf(l, cmd) ==
    /\ l.verb = IF cmd # <<"run">> \/ TokensOf(l)[1] = "run" THEN cmd ELSE <<>>
    /\ l.tail # <<>> => cmd = <<"run">> /\ l.tail[1] = "--"
    /\ \A i \in DOMAIN l.groups :
          LET group == l.groups[i]
              last == i = Len(l.groups) /\ l.tail = <<>>
          IN  /\ group # <<>> /\ (cmd = <<"run">> => group[1] # "--")
              /\ IF group[1] \notin DOMAIN Flags[cmd] \/ Flags[cmd][group[1]] = "none"
                 THEN Len(group) = 1
                 ELSE Len(group) = 2 \/ (Len(group) = 1 /\ last)

ASSUME CommandsAssumption ==
    /\ \A f \in Files : HasDocument(f) => IsJson(f.document)
    /\ \A call \in Calls : IsJson(call.arguments) /\ IsRecord(call.arguments)
    /\ \A token \in DOMAIN Chars : Chars[token] \in Seq(Characters)
    /\ \A l \in Lines :
          /\ l.verb \in Seq(DOMAIN Chars) /\ l.tail \in Seq(DOMAIN Chars)
          /\ l.groups \in Seq(Seq(DOMAIN Chars))
          /\ LET cmd == Dispatch(TokensOf(l)).command IN cmd \in DOMAIN Flags => IsLineOf(l, cmd)

Type(l) ==
    /\ pc = "prompt"
    /\ line' = l
    /\ opened' = {} /\ launched' = Nothing /\ current' = {} /\ sent' = Nothing
    /\ UNCHANGED dlq
    /\ LET named == Dispatch(TokensOf(l))
       IN  /\ named.command = <<"run">> => {r.id : r \in dlq} # Ids   \* (bound)
           /\ IF named.command = <<"print">> THEN Exit(0)
              ELSE IF named.command = <<"unknown">> THEN Exit(2)
              ELSE /\ command' = named.command /\ rest' = named.rest /\ Goto("parse")
                   /\ UNCHANGED <<at, options, file, config, todo, failed, exit>>

-----------------------------------------------------------------------------
\* The option loop.

Ended == at \in DOMAIN rest => command = <<"run">> /\ rest[at] = "--"
IsFlag(token) == token \in DOMAIN Flags[command]
HasValue == at < Len(rest) /\ IsValue(Flags[command][rest[at]], rest[at + 1])

\* Only `inspect` and `replay run` take a positional token, once.
IsId(token) ==
    /\ command \in {<<"replay", "inspect">>, <<"replay", "run">>}
    /\ ~IsFlag(token) /\ (Chars[token] # <<>> => Head(Chars[token]) # "-") /\ ~Given("id")

Read(read, next) ==
    /\ options' = read
    /\ at' = next
    /\ UNCHANGED <<line, command, rest, file, config, pc, touchVars, exit, dlq>>

ReadSwitch ==
    /\ pc = "parse" /\ ~Ended
    /\ IsFlag(rest[at]) /\ Flags[command][rest[at]] = "none"
    /\ Read(Put(rest[at], <<>>), at + 1)

\* The token after the flag is its value, whatever it looks like.
ReadOption ==
    /\ pc = "parse" /\ ~Ended
    /\ IsFlag(rest[at]) /\ Flags[command][rest[at]] # "none" /\ HasValue
    /\ Read(Put(rest[at], <<rest[at + 1]>>), at + 2)

\* To `replay run` an empty id is none.
ReadId ==
    /\ pc = "parse" /\ ~Ended /\ IsId(rest[at])
    /\ Read(IF command = <<"replay", "run">> /\ Chars[rest[at]] = <<>> THEN options
            ELSE Put("id", <<rest[at]>>), at + 1)

Reject ==
    /\ pc = "parse" /\ ~Ended
    /\ IF IsFlag(rest[at]) THEN Flags[command][rest[at]] # "none" /\ ~HasValue ELSE ~IsId(rest[at])
    /\ Exit(2)
    /\ UNCHANGED kept

\* What a command needs, and what excludes each other.
Complete ==
    CASE command = <<"run">> ->
            IF Given("--http") THEN at > Len(rest) ELSE at < Len(rest)
      [] command = <<"replay", "inspect">> -> Given("id")
      [] command = <<"replay", "run">> ->
            IF Given("--all") THEN ~Given("id") /\ ~Given("--set") ELSE Given("id")
      [] command = <<"policy", "test">> -> Given("--id") \/ Given("--tool")
      [] OTHER -> TRUE

EndOptions ==
    /\ pc = "parse" /\ Ended
    /\ \/ /\ Complete
          /\ Goto("load")
          /\ UNCHANGED <<parseVars, file, config, touchVars, exit, dlq>>
       \/ /\ ~Complete
          /\ Exit(2)
          /\ UNCHANGED kept

-----------------------------------------------------------------------------
\* The configuration, then the databases.

FlagNumbers ==
    [f \in {g \in {"timeout_ms", "max_attempts"} :
              Given(IF g = "timeout_ms" THEN "--timeout-ms" ELSE "--max-attempts")} |->
       Numbers[Value(IF f = "timeout_ms" THEN "--timeout-ms" ELSE "--max-attempts")]]

\* runProxy sets the identity after loading.
WithIdentity(loaded) ==
    IF command = <<"run">> /\ Given("--identity")
    THEN [loaded EXCEPT !.object.identity.object.profile = Text(Value("--identity"))]
    ELSE loaded

LoadSettings ==
    /\ pc = "load"
    /\ \E f \in Files :
       IF ~AcceptsFile(f, Given("--config")) THEN Exit(2) /\ UNCHANGED kept
       ELSE IF command = <<"validate">> THEN Exit(0) /\ UNCHANGED kept
       ELSE /\ file' = f
            /\ config' = WithIdentity(LoadConfig(f, FlagNumbers))
            /\ Goto("open")
            /\ UNCHANGED <<parseVars, touchVars, exit, dlq>>

\* Mutant of Needs: policy test opens the queue before it looks at its options.
Needs_Always(cmd) ==
    CASE cmd \in {<<"replay", "list">>, <<"replay", "inspect">>, <<"policy", "test">>} ->
            <<"queue">>
      [] cmd = <<"report">> -> <<"store">>
      [] cmd = <<"replay", "run">> -> <<"queue", "store">>
      [] cmd = <<"run">> -> <<>>

\* The databases a command opens first, in order; a session opens them when a
\* call needs them.
Needs(cmd) ==
    CASE cmd \in {<<"replay", "list">>, <<"replay", "inspect">>} -> <<"queue">>
      [] cmd = <<"policy", "test">> -> IF Given("--id") THEN <<"queue">> ELSE <<>>
      [] cmd = <<"report">> -> <<"store">>
      [] cmd = <<"replay", "run">> -> <<"queue", "store">>
      [] cmd = <<"run">> -> <<>>

OpenStores ==
    /\ pc = "open"
    /\ LET needs == Needs(command)
       IN  \/ /\ opened' = ToSet(needs)
              /\ Goto(IF command = <<"run">> THEN "start" ELSE "act")
              /\ UNCHANGED <<parseVars, file, config, exit, dlq>>
              /\ UNCHANGED <<launched, todo, current, failed, sent>>
           \/ \E i \in DOMAIN needs :   \* the i-th does not open
              /\ opened' = ToSet(SubSeq(needs, 1, i - 1))
              /\ Exit(1)
              /\ UNCHANGED <<line, launched, current, sent, dlq>>

-----------------------------------------------------------------------------
\* run: one session.

TargetOf(words) == [words |-> [i \in DOMAIN words |-> Chars[words[i]]]]

\* What the session wraps.
Target ==
    IF Given("--http") THEN [url |-> Value("--http")]
    ELSE TargetOf(SubSeq(rest, at + 1, Len(rest)))

\* What a record keeps of it.
ServerCommandOf(target) ==
    IF "url" \in DOMAIN target THEN target ELSE [text |-> QuoteCommandLine(target.words)]

StartServer ==
    /\ pc = "start"
    /\ \/ /\ launched' = Target
          /\ Goto("session")
          /\ UNCHANGED <<parseVars, file, config, exit, dlq>>
          /\ UNCHANGED <<opened, todo, current, failed, sent>>
       \/ /\ Exit(3)
          /\ UNCHANGED kept

\* The patterns the file asks for, which may be none (history).
PatternsMeant(f) ==
    LET document == IF HasDocument(f) THEN f.document ELSE Null
        asked == {leaf \in Leaves(document) :
                    Len(leaf.path) >= 2
                    /\ leaf.path[1] = Key("redaction") /\ leaf.path[2] = Key("patterns")}
    IN  IF asked = {} THEN ToSet(DefaultPatterns)
        ELSE {leaf.value.string : leaf \in {l \in asked : l.value # List(<<>>)}}

\* captureFailure.
RecordOf(id, call) ==
    [id |-> id, tool |-> call.tool, server |-> ServerCommandOf(launched),
     arguments |-> RedactValue(call.arguments, PatternsOf(config)), pending |-> TRUE,
     origin |-> [target |-> launched, arguments |-> call.arguments,
                 patterns |-> PatternsMeant(file)]]

\* A call goes upstream; if it fails in the end, it is captured.
CallTool(call) ==
    /\ pc = "session" /\ sent = Nothing
    /\ sent' = [arguments |-> call.arguments, tool |-> call.tool,
                policy |-> ResolveToolPolicy(config, call.tool)]
    /\ \/ UNCHANGED <<opened, dlq>>
       \/ \E id \in Ids \ {r.id : r \in dlq} :
          /\ dlq' = dlq \cup {RecordOf(id, call)}
          /\ opened' = opened \cup {"queue", "store"}
    /\ UNCHANGED <<parseVars, file, config, pc, launched, todo, current, failed, exit>>

EndSession ==
    /\ pc = "session"
    /\ \E code \in {0, 3} : Exit(code)
    /\ UNCHANGED kept

-----------------------------------------------------------------------------
\* list, inspect, report and policy test.

Asked == IF command = <<"policy", "test">> THEN "--id" ELSE "id"

Query ==
    /\ pc = "act" /\ command # <<"replay", "run">>
    /\ IF Given(Asked) /\ (\A r \in dlq : r.id # Value(Asked)) THEN Exit(1)
       ELSE IF command = <<"policy", "test">> /\ ~Given(Asked)
       THEN Exit(IF Given("--args") /\ Value("--args") \notin JsonTexts THEN 2 ELSE 0)
       ELSE \E code \in {0, 1} : Exit(code)
    /\ UNCHANGED kept

-----------------------------------------------------------------------------
\* replay run.

\* The records a single run or a batch takes up; the filter of a batch selects any.
Select ==
    /\ pc = "act" /\ command = <<"replay", "run">>
    /\ \/ /\ todo' \in IF Given("--all") THEN SUBSET {r \in dlq : r.pending}
                       ELSE {{r} : r \in {s \in dlq : s.id = Value("id")}}
          /\ Goto("replay")
          /\ UNCHANGED <<parseVars, file, config, exit, failed>>
       \/ /\ IF Given("--all") THEN TRUE ELSE \A r \in dlq : r.id # Value("id")
          /\ Exit(1)                       \* the query fails, or finds nothing
          /\ UNCHANGED line
    /\ UNCHANGED <<opened, launched, current, sent, dlq>>

\* parseCommandLine may throw, in connectStoredServer.
Reachable(r) == "text" \in DOMAIN r.server => "words" \in DOMAIN ParseCommandLine(r.server.text)

StoredTarget(r) ==
    IF "url" \in DOMAIN r.server THEN r.server
    ELSE [words |-> ParseCommandLine(r.server.text).words]

\* The next record, and what its replay sends.
Take(r) ==
    /\ pc = "replay" /\ r \in todo
    /\ current' = {r}
    /\ todo' = todo \ {r}

NotExecuted(r) ==
    /\ Take(r)
    /\ failed' = TRUE
    /\ launched' = Nothing /\ sent' = Nothing
    /\ UNCHANGED dlq

\* --dry-run: connects and lists the tools.
DryRun(r) ==
    /\ Given("--dry-run") /\ Reachable(r)
    /\ Take(r)
    /\ launched' = StoredTarget(r)
    /\ failed' \in {failed, TRUE}
    /\ UNCHANGED <<sent, dlq>>

Redrive(r) ==
    LET arguments == ApplyOverrides(r.arguments, Overrides)
    IN  /\ ~Given("--dry-run") /\ Reachable(r)
        /\ RedactedMarkerKeys(arguments) = {}
        /\ r.pending                        \* or the claim fails
        /\ Take(r)
        /\ launched' = StoredTarget(r)
        /\ sent' = [arguments |-> arguments, tool |-> r.tool,
                    policy |-> ResolveToolPolicy(config, r.tool)]
        /\ dlq' = (dlq \ {r}) \cup {[r EXCEPT !.pending = FALSE]}
        /\ failed' \in {failed, TRUE}

\* Markers, the guard, the claim or the connection; or the record cannot be read.
ReplayRecord ==
    /\ \E r \in todo : NotExecuted(r) \/ DryRun(r) \/ Redrive(r)
    /\ UNCHANGED <<parseVars, file, config, pc, opened, exit>>

EndReplay ==
    /\ pc = "replay" /\ todo = {}
    /\ Exit(IF failed THEN 1 ELSE 0)
    /\ UNCHANGED kept

Next ==
    \/ \E l \in Lines : Type(l)
    \/ ReadSwitch \/ ReadOption \/ ReadId \/ Reject \/ EndOptions
    \/ LoadSettings \/ OpenStores
    \/ StartServer \/ (\E call \in Calls : CallTool(call)) \/ EndSession
    \/ Query \/ Select \/ ReplayRecord \/ EndReplay

Spec == Init /\ [][Next]_vars

-----------------------------------------------------------------------------
\* What the operator meant, taken from the line and the file as a whole.

\* The groups of a flag, and the value of the last of them.
GroupsOf(flag) == {i \in DOMAIN line.groups : line.groups[i][1] = flag}
LastMeant(flag) == line.groups[Max(GroupsOf(flag))][2]

\* The pairs among the first n groups that name a key, and the text each key has from
\* the last of them.
Sets(n) == {i \in 1..n : line.groups[i][1] = "--set"}
PairAt(i) == Pairs[line.groups[i][2]]
OverridesTo(n) ==
    [k \in {PairAt(i)[1] : i \in Sets(n)} |-> PairAt(Max({i \in Sets(n) : PairAt(i)[1] = k}))[2]]

\* The value of the leaf at a path: none or one.
At(leaves, path) == {leaf.value : leaf \in {l \in leaves : l.path = path}}
LeavesOf(f) == IF HasDocument(f) THEN Leaves(f.document) ELSE {}
DefaultLeaves == Leaves(DefaultConfig)
InFlag(flag) ==
    IF GroupsOf(flag) = {} \/ line.verb \notin {<<"run">>, <<>>} THEN {}
    ELSE {Number(Numbers[LastMeant(flag)])}

\* The first of the places that says something.
FirstOf(places) ==
    LET saying == {i \in DOMAIN places : places[i] # {}}
    IN  IF saying = {} THEN {} ELSE places[Min(saying)]

TargetMeant ==
    IF GroupsOf("--http") # {} THEN [url |-> LastMeant("--http")] ELSE TargetOf(Tail(line.tail))

\* A server is only ever started with the words the operator typed, or asked at
\* the URL the operator typed: in the session, and when a record of that session
\* is replayed from the text that was stored.
ServerAsTyped ==
    launched # Nothing =>
        IF current = {} THEN launched = TargetMeant
        ELSE \A r \in current : launched = r.origin.target

\* Of the arguments of a failed call, a record keeps every value except those
\* below a key that matches a pattern of the configuration, wherever it stands.
OnlySecretsAreRedacted ==
    \A r \in dlq : IsRedactionOf(r.arguments, r.origin.arguments, r.origin.patterns)

\* A replay sends the call that failed: each value that --set does not name is
\* the one the client sent, no redaction marker is sent in its place, and a value
\* --set names is the last one typed for it.
ReplayIsComplete ==
    sent # Nothing => \A r \in current :
        IsCallAgain(sent.arguments, r.origin.arguments, OverridesTo(Len(line.groups)))

\* Each setting a call is made with comes from the first place that has it: the
\* tool's entry in the file, the flag, the file, the default; field by field,
\* within the retry mapping as well.
SettingsByPrecedence ==
    sent # Nothing /\ file # Nothing =>
        LET inFile == LeavesOf(file)
            retry == Leaves(Object(sent.policy.retry))
            tool == <<Key("reliability"), Key("per_tool"), Key(sent.tool)>>
            all == <<Key("reliability")>>
            Meant(flag, perTool, general) ==
                FirstOf(<<At(inFile, tool \o perTool), flag, At(inFile, all \o general),
                          At(DefaultLeaves, all \o general)>>)
            Retried(name, flag) ==
                Meant(flag, <<Key("retry"), Key(name)>>, <<Key("retry"), Key(name)>>)
        IN  /\ {sent.policy.timeoutMs}
                 = Meant(InFlag("--timeout-ms"), <<Key("timeout_ms")>>, <<Key("timeout_ms")>>)
            /\ {sent.policy.idempotent}
                 = Meant({}, <<Key("idempotent")>>, <<Key("idempotent_default")>>)
            /\ At(retry, <<Key("max_attempts")>>) = Retried("max_attempts", InFlag("--max-attempts"))
            /\ At(retry, <<Key("base_ms")>>) = Retried("base_ms", {})

\* The place a value has in the configuration: lists are replaced as a whole.
PlaceOf(path) ==
    LET indexes == {i \in DOMAIN path : "index" \in DOMAIN path[i]}
    IN  IF indexes = {} THEN path ELSE SubSeq(path, 1, Min(indexes) - 1)

Overridden ==
    {p \in {<<Key("reliability"), Key("timeout_ms")>>} : InFlag("--timeout-ms") # {}}
    \cup {p \in {<<Key("reliability"), Key("retry"), Key("max_attempts")>>} :
            InFlag("--max-attempts") # {}}
    \cup {p \in {<<Key("identity"), Key("profile")>>} : GroupsOf("--identity") # {}}

\* A configuration that is accepted is in force: every value written in a section
\* the program knows, however deep, and every default nothing is written for.  A
\* misspelled setting never passes for one.
NoSettingIsDropped ==
    pc = "open" =>
        LET document == IF HasDocument(file) /\ IsRecord(file.document) THEN file.document ELSE EmptyObject
            written == {leaf \in Leaves(document) :
                          leaf.path # <<>> /\ leaf.path[1].key \in DOMAIN Sections.fields
                          /\ leaf.value # EmptyObject}
            places == {PlaceOf(leaf.path) : leaf \in written} \cup Overridden
            inForce == Leaves(config)
            window == <<Key("reliability"), Key("replay"), Key("dedup_window")>>
        IN  /\ \A leaf \in written :
                  leaf.path \notin Overridden =>
                      At(inForce, leaf.path) =
                          {IF leaf.path = window THEN Number(ParseDuration(leaf.value.string))
                           ELSE leaf.value}
            /\ \A leaf \in DefaultLeaves :
                  PlaceOf(leaf.path) \notin places /\ leaf.value # EmptyObject =>
                      At(inForce, leaf.path) = {leaf.value}

\* A command that refuses its command line or its configuration has touched
\* nothing: no database was opened or created, no server started, nothing sent.
BadInputTouchesNothing ==
    pc = "prompt" /\ exit = 2 => opened = {} /\ launched = Nothing /\ sent = Nothing
=============================================================================

------------------------------ MODULE Settings ------------------------------
(***************************************************************************)
(* config/config.ts and parsePolicyConfig of policy/policy.ts: which files  *)
(* are accepted, and what is in force after defaults, file and flags.       *)
(*                                                                         *)
(* Each section of the file is a rule; one operator accepts a value by its  *)
(* rule and one copies what the value sets over what is in force.  The code *)
(* reports the first thing it does not accept; here a file is accepted or   *)
(* not, since nothing of a file that is not accepted is used.              *)
(***************************************************************************)
EXTENDS Json

CONSTANTS
    AmqpUrls,       \* texts that parse as amqp: or amqps: URLs
    SafeRegexes,    \* regular expressions compileRegex takes
    Durations       \* texts of the form <digits><unit>, as [amount, unit]

ASSUME SettingsAssumption == MaxDepth >= 6   \* as deep as sections go

\* Rules.  `required` is a set of alternatives: sets of fields of which one must be there.
Mapping(fields, required) == [fields |-> fields, required |-> required]
ByName(rule, refused) == [each |-> rule, refused |-> refused]
ListOf(rule, unique) == [entry |-> rule, unique |-> unique]
IntegerFrom(least) == [least |-> least]
OneOf(words) == [among |-> words]
Scalar(type) == [of |-> type]
NonEmptyText == Scalar("non-empty text")

IsSetting(type, raw) ==
    CASE type = "anything" -> TRUE
      [] type = "boolean" -> IsBoolean(raw)
      [] type = "number" -> IsNumber(raw) \/ "fraction" \in DOMAIN raw
      [] type = "text" -> IsText(raw)
      [] type = "non-empty text" -> IsText(raw) /\ raw.string # ""
      [] type = "non-empty list" -> IsList(raw) /\ raw.array # <<>>
      [] type = "amqp url" -> IsText(raw) /\ raw.string \in AmqpUrls
      [] type = "regex" -> IsText(raw) /\ raw.string \in SafeRegexes
      [] type = "duration" -> IsText(raw) /\ raw.string \in DOMAIN Durations

\* The rules of what stands in a value, and a rule with all those below it.
RuleParts(rule) ==
    CASE "fields" \in DOMAIN rule -> {rule.fields[k] : k \in DOMAIN rule.fields}
      [] "each" \in DOMAIN rule -> {rule.each}
      [] "entry" \in DOMAIN rule -> {rule.entry}
      [] OTHER -> {}

RulesIn(rule) ==
    LET within[depth \in 0..MaxDepth] ==
            {rule} \cup IF depth = 0 THEN {} ELSE UNION {RuleParts(r) : r \in within[depth - 1]}
    IN  within[MaxDepth]

\* Mutant of HasFields: a key nobody knows is passed over.
HasFields_Lenient(v, r) ==
    IsRecord(v) /\ \A alternatives \in r.required : alternatives \cap DOMAIN v.object # {}

HasFields(v, r) ==
    /\ IsRecord(v)
    /\ DOMAIN v.object \subseteq DOMAIN r.fields
    /\ \A alternatives \in r.required : alternatives \cap DOMAIN v.object # {}

HasScalar(v, r) ==
    CASE "least" \in DOMAIN r -> IsNumber(v) /\ v.number >= r.least
      [] "among" \in DOMAIN r -> IsText(v) /\ v.string \in r.among
      [] "of" \in DOMAIN r -> IsSetting(r.of, v)

\* The rules that a value, or what stands in it, breaks, given those its parts break.
Broken(v, r, broken) ==
    CASE "fields" \in DOMAIN r ->
           IF HasFields(v, r)
           THEN UNION {broken[v.object[k]][r.fields[k]] : k \in DOMAIN v.object \cap DOMAIN r.fields}
           ELSE {r}
      [] "each" \in DOMAIN r ->
           IF IsRecord(v) /\ DOMAIN v.object \cap r.refused = {}
           THEN UNION {broken[v.object[k]][r.each] : k \in DOMAIN v.object}
           ELSE {r}
      [] "entry" \in DOMAIN r ->
           IF IsList(v)
           THEN LET inItems == UNION {broken[v.array[i]][r.entry] : i \in DOMAIN v.array}
                IN  IF inItems = {} /\ \E field \in r.unique, i, j \in DOMAIN v.array :
                                         i # j /\ v.array[i].object[field] = v.array[j].object[field]
                    THEN {r} ELSE inItems
           ELSE {r}
      [] OTHER -> IF HasScalar(v, r) THEN {} ELSE {r}

Accepts(rule, raw) ==
    LET rules == RulesIn(rule)
        broken[v \in Nodes(raw)] == [r \in rules |-> Broken(v, r, broken)]
    IN  broken[raw][rule] = {}

Milliseconds(unit) ==
    CASE unit = "ms" -> 1 [] unit = "s" -> 1000 [] unit = "m" -> 60000
      [] unit = "h" -> 3600000 [] unit = "d" -> 86400000

ParseDuration(text) == Durations[text].amount * Milliseconds(Durations[text].unit)

\* The value that `v`, which is accepted, puts in the place of `before`: a mapping
\* sets the fields it has, a mapping by name adds or replaces entries, a list or
\* a scalar replaces.
Replacing(r, before, v, applied) ==
    LET Old(k) == IF k \in DOMAIN before.object THEN before.object[k] ELSE EmptyObject
    IN  CASE r = Scalar("duration") -> Number(ParseDuration(v.string))
          [] IsRecord(v) /\ "fields" \in DOMAIN r ->
                Object(Over([k \in DOMAIN v.object \cap DOMAIN r.fields |->
                               applied[v.object[k]][<<r.fields[k], Old(k)>>]], before.object))
          [] IsRecord(v) /\ "each" \in DOMAIN r ->
                Object(Over([k \in DOMAIN v.object |-> applied[v.object[k]][<<r.each, EmptyObject>>]],
                            before.object))
          [] OTHER -> v

\* What is in force when `raw` is set over `old`.
Applied(rule, old, raw) ==
    LET places == RulesIn(rule) \X (Nodes(old) \cup {EmptyObject})
        applied[v \in Nodes(raw)] == [x \in places |-> Replacing(x[1], x[2], v, applied)]
    IN  applied[raw][<<rule, old>>]

-----------------------------------------------------------------------------
\* The sections.

Retry ==
    Mapping([max_attempts |-> IntegerFrom(1), backoff |-> OneOf({"exponential"}),
             base_ms |-> IntegerFrom(0), jitter |-> Scalar("boolean")], {})

PerTool ==
    ByName(Mapping([timeout_ms |-> IntegerFrom(1), idempotent |-> Scalar("boolean"),
                    effects |-> OneOf({"read", "write"}), retry |-> Retry,
                    capture_tool_errors |-> Scalar("boolean")], {}), {})

Reliability ==
    Mapping([timeout_ms |-> IntegerFrom(1), idempotent_default |-> Scalar("boolean"),
             retry |-> Retry, replay |-> Mapping([dedup_window |-> Scalar("duration")], {}),
             per_tool |-> PerTool], {})

Sqlite == Mapping([path |-> NonEmptyText], {})

Rabbitmq ==
    Mapping([url |-> Scalar("amqp url"), exchange |-> NonEmptyText, queue |-> NonEmptyText], {})

Queue ==
    Mapping([provider |-> OneOf({"sqlite", "rabbitmq"}), sqlite |-> Sqlite, rabbitmq |-> Rabbitmq], {})

Store ==
    Mapping([provider |-> OneOf({"sqlite"}), sqlite |-> Sqlite, retention_days |-> IntegerFrom(0)], {})

RedactionSection == Mapping([patterns |-> ListOf(NonEmptyText, {})], {})

Identity ==
    Mapping([profile |-> NonEmptyText,
             keys |-> ListOf(Mapping([key |-> NonEmptyText, identity |-> NonEmptyText],
                                     {{"key"}, {"identity"}}), {"key"})], {})

Upstream == Mapping([http |-> Mapping([headers |-> ByName(Scalar("text"), {})], {})], {})

MatcherFields ==
    "equals" :> Scalar("anything") @@ "in" :> Scalar("non-empty list")
    @@ "prefix" :> NonEmptyText @@ "regex" :> Scalar("regex")
    @@ "max_length" :> IntegerFrom(0) @@ "min" :> Scalar("number") @@ "max" :> Scalar("number")

Rule ==
    Mapping([tool |-> NonEmptyText, caller |-> NonEmptyText,
             args |-> ByName(Mapping(MatcherFields, {DOMAIN MatcherFields}), {""}),
             action |-> OneOf({"allow", "deny"})], {{"tool"}, {"action"}})

PolicySection ==
    Mapping([default |-> OneOf({"allow", "deny"}), rules |-> ListOf(Rule, {})], {})

Sections ==
    Mapping([reliability |-> Reliability, queue |-> Queue, store |-> Store,
             redaction |-> RedactionSection, identity |-> Identity, policy |-> PolicySection,
             upstream |-> Upstream], {})

DefaultPatterns == <<"api_key", "token", "password", "authorization", "secret", "credential">>

DefaultRetry ==
    [max_attempts |-> Number(3), backoff |-> Text("exponential"), base_ms |-> Number(250),
     jitter |-> Boolean(TRUE)]

DefaultReliability ==
    [timeout_ms |-> Number(30000), retry |-> Object(DefaultRetry),
     replay |-> Object([dedup_window |-> Number(24 * 60 * 60 * 1000)]),
     idempotent_default |-> Boolean(FALSE), per_tool |-> EmptyObject]

DefaultConfig ==
    Object([reliability |-> Object(DefaultReliability),
            queue |->
              Object([provider |-> Text("sqlite"),
                      sqlite |-> Object([path |-> Text("./.mcprelay/queue.db")]),
                      rabbitmq |-> Object([url |-> Text("amqp://localhost"),
                                           exchange |-> Text("mcp.dlx"), queue |-> Text("mcp.dlq")])]),
            store |->
              Object([provider |-> Text("sqlite"),
                      sqlite |-> Object([path |-> Text("./.mcprelay/history.db")]),
                      retention_days |-> Number(30)]),
            redaction |-> Object([patterns |->
                                    List([i \in DOMAIN DefaultPatterns |-> Text(DefaultPatterns[i])])]),
            identity |-> Object([profile |-> Text("local"), keys |-> List(<<>>)]),
            policy |-> Object([default |-> Text("allow"), rules |-> List(<<>>)]),
            upstream |-> Object([http |-> Object([headers |-> EmptyObject])])])

-----------------------------------------------------------------------------
(***************************************************************************)
(* Loading.  A file is [missing], [unreadable], [malformed] (no YAML) or a  *)
(* [document]; a file that is empty is the document Null.                  *)
(***************************************************************************)
Problems == {"missing", "unreadable", "malformed"}
HasDocument(file) == "document" \in DOMAIN file
KnownSections(document) == DOMAIN document.object \cap DOMAIN Sections.fields

\* Unknown sections draw a warning; within a known one everything is checked.
AcceptsDocument(document) ==
    \/ document = Null
    \/ IsRecord(document) /\ \A s \in KnownSections(document) :
                                Accepts(Sections.fields[s], document.object[s])

\* Only the default path may lead nowhere.
AcceptsFile(file, required) ==
    IF HasDocument(file) THEN AcceptsDocument(file.document)
    ELSE "missing" \in DOMAIN file /\ ~required

ApplyDocument(config, document) ==
    IF document = Null THEN config ELSE Applied(Sections, config, document)

\* --timeout-ms and --max-attempts.
ApplyFlags(config, flags) ==
    Applied(Sections, config,
            Object([reliability |->
                      Object(Over([f \in {"timeout_ms"} \cap DOMAIN flags |-> Number(flags[f])],
                                  IF "max_attempts" \in DOMAIN flags
                                  THEN [retry |-> Object([max_attempts |-> Number(flags["max_attempts"])])]
                                  ELSE <<>>))]))

\* Of a file that is accepted.
LoadConfig(file, flags) ==
    ApplyFlags(IF HasDocument(file) THEN ApplyDocument(DefaultConfig, file.document)
               ELSE DefaultConfig, flags)

\* Mutant of ResolveToolPolicy: the retry mapping of a tool is all it gets.
ResolveToolPolicy_Whole(config, tool) ==
    LET reliability == config.object.reliability.object
        perTool == reliability.per_tool.object
        override == IF tool \in DOMAIN perTool THEN perTool[tool].object ELSE <<>>
        Prefer(name, otherwise) == IF name \in DOMAIN override THEN override[name] ELSE otherwise
    IN  [timeoutMs |-> Prefer("timeout_ms", reliability.timeout_ms),
         retry |-> Prefer("retry", reliability.retry).object,
         idempotent |-> Prefer("idempotent", reliability.idempotent_default),
         captureToolErrors |-> Prefer("capture_tool_errors", Boolean(FALSE))]

ResolveToolPolicy(config, tool) ==
    LET reliability == config.object.reliability.object
        perTool == reliability.per_tool.object
        override == IF tool \in DOMAIN perTool THEN perTool[tool].object ELSE <<>>
        Prefer(name, otherwise) == IF name \in DOMAIN override THEN override[name] ELSE otherwise
    IN  [timeoutMs |-> Prefer("timeout_ms", reliability.timeout_ms),
         retry |-> Over(Prefer("retry", EmptyObject).object, reliability.retry.object),
         idempotent |-> Prefer("idempotent", reliability.idempotent_default),
         captureToolErrors |-> Prefer("capture_tool_errors", Boolean(FALSE))]

\* The patterns redaction uses.
PatternsOf(config) ==
    LET patterns == config.object.redaction.object.patterns.array
    IN  {patterns[i].string : i \in DOMAIN patterns}
=============================================================================

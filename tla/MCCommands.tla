----------------------------- MODULE MCCommands -----------------------------
(* Small instances of Commands for TLC. *)
EXTENDS Commands

Spelled ==
    "node" :> <<"a", "b">> @@ "two words" :> <<"a", Blank, "b">> @@ "" :> <<>>
    @@ "it's" :> <<"a", SingleQuote, "b">> @@ "quo\"ted\\" :> <<DoubleQuote, "a", DoubleQuote, Backslash>>
    @@ "$x" :> <<"$", "a">> @@ "--config" :> <<"-", "-", "a">> @@ "--" :> <<"-", "-">>
    @@ "r1" :> <<"a">> @@ "r2" :> <<"b">> @@ "-x" :> <<"-", "a">>

SomeNumbers == "7" :> 7 @@ "5" :> 5 @@ "0" :> 0
SomePairs == "cfg=x" :> <<"cfg", "x">> @@ "token=t" :> <<"token", "t">> @@ "token=u" :> <<"token", "u">>
             @@ "n=v" :> <<"n", "v">>

Line(verb, groups, tail) == [verb |-> verb, groups |-> groups, tail |-> tail]

\* What is wrapped: every kind of character that quoting is about.
Servers ==
    {<<"--", "node">>, <<"--", "node", "two words", "">>, <<"--", "it's", "quo\"ted\\">>,
     <<"--", "$x", "--config", "--">>}

RunGroups ==
    {<<>>, << <<"--timeout-ms", "7">>, <<"--timeout-ms", "5">> >>,
     << <<"--max-attempts", "5">>, <<"--policy-dry-run">> >>}

RunLines ==
    {Line(<<"run">>, <<>>, server) : server \in Servers}
    \cup {Line(verb, groups, <<"--", "node">>) : verb \in {<<"run">>, <<>>}, groups \in RunGroups}
    \cup {Line(<<"run">>, << <<"--config", "f.yaml">>, <<"--identity", "--">> >>, <<"--", "node">>),
          Line(<<"run">>, << <<"--http", "http://a">>, <<"--http", "http://b">> >>, <<>>)}

BadRunLines ==
    {Line(<<"run">>, groups, tail) :
       groups \in {<<>>, << <<"--timeout-ms", "0">> >>, << <<"--max-attempts", "many">> >>,
                   << <<"--http", "nowhere">> >>, << <<"--verbose">> >>},
       tail \in {<<>>, <<"--">>}}
    \cup {Line(<<"run">>, groups, <<>>) : groups \in {<< <<"--config">> >>, << <<"--config", "--">> >>}}
    \cup {Line(<<"run">>, << <<"--http", "http://a">> >>, <<"--", "node">>)}

ReplayLines ==
    {Line(<<"replay", "run">>, groups, <<>>) :
       groups \in {<< <<"id", "r1">> >>, << <<"id", "r2">>, <<"--json">> >>, << <<"--all">>, <<"--limit", "7">> >>,
                   << <<"--all">>, <<"--dry-run">> >>,
                   << <<"id", "r1">>, <<"--force">>, <<"--set", "token=t">> >>,
                   << <<"--set", "token=t">>, <<"--set", "cfg=x">>, <<"--set", "token=u">>, <<"id", "r1">> >>,
                   << <<"id", "r1">>, <<"--set", "n=v">>, <<"--config", "f.yaml">> >>,
                   << <<"id", "r1">>, <<"--dry-run">> >>,
                   << <<"--all">>, <<"id", "r1">> >>, << <<"--all">>, <<"--set", "n=v">> >>, <<>>,
                   << <<"id", "r1">>, <<"id", "r2">> >>, << <<"id", "-x">> >>, << <<"id", "">>, <<"id", "r1">> >>, << <<"id", "">> >>,
                   << <<"id", "r1">>, <<"--set", "novalue">> >>, << <<"id", "r1">>, <<"--limit", "0">> >>}}

OtherLines ==
    {Line(verb, groups, <<>>) :
       verb \in {<<"replay", "list">>, <<"replay", "inspect">>},
       groups \in {<<>>, << <<"id", "r1">> >>, << <<"--status", "pending">>, <<"--since", "then">> >>,
                   << <<"--status", "lost">> >>}}
    \cup {Line(<<"report">>, groups, <<>>) :
            groups \in {<<>>, << <<"--since", "2026-01-01">>, <<"--caller", "me">> >>, << <<"--since", "then">> >>}}
    \cup {Line(<<"policy", "test">>, groups, <<>>) :
            groups \in {<<>>, << <<"--tool", "read">>, <<"--args", "{}">> >>,
                        << <<"--tool", "read">>, <<"--args", "{">> >>, << <<"--id", "r1">>, <<"--args", "{">> >>}}
    \cup {Line(<<"validate">>, <<>>, <<>>), Line(<<"validate">>, << <<"--config", "f.yaml">> >>, <<>>),
          Line(<<"validate">>, << <<"--json">> >>, <<>>),
          Line(<<"help">>, <<>>, <<>>), Line(<<"version">>, <<>>, <<>>), Line(<<"version", "now">>, <<>>, <<>>),
          Line(<<"replay">>, <<>>, <<>>), Line(<<"replay", "again">>, <<>>, <<>>), Line(<<"-q">>, <<>>, <<>>)}

\* The token `id` of a group is how the properties know a positional one.
Typed(l) == [l EXCEPT !.groups = [i \in DOMAIN @ |-> IF @[i][1] = "id" THEN <<@[i][2]>> ELSE @[i]]]
SomeLines == {Typed(l) : l \in RunLines \cup BadRunLines \cup ReplayLines \cup OtherLines}

\* How the other tokens are spelled does not matter, but for the dash.
SomeTokens == UNION {ToSet(TokensOf(l)) : l \in SomeLines}
SomeFlags == UNION {DOMAIN Flags[c] : c \in DOMAIN Flags} \cup {"--verbose"}
SomeChars ==
    Spelled @@ [t \in SomeFlags |-> <<"-", "-", "b">>] @@ [t \in SomeTokens |-> <<"a">>]

\* Configuration files.
File(sections) == [document |-> Object(sections)]
ReliabilityFile(fields) == File([reliability |-> Object(fields)])
ToolFile(fields) == ReliabilityFile([timeout_ms |-> Number(9), retry |-> Object([base_ms |-> Number(1)]),
                                     per_tool |-> Object([read |-> Object(fields)])])
GoodFiles ==
    {[missing |-> TRUE], [document |-> Null],
     ToolFile([timeout_ms |-> Number(2), retry |-> Object([max_attempts |-> Number(1)])]),
     ToolFile([idempotent |-> Boolean(TRUE), effects |-> Text("read"), capture_tool_errors |-> Boolean(FALSE)]),
     File([reliability |-> Object([replay |-> Object([dedup_window |-> Text("30m")]), per_tool |-> EmptyObject]),
           queue |-> Object([provider |-> Text("rabbitmq"),
                             rabbitmq |-> Object([url |-> Text("amqp://broker")])]),
           store |-> Object([retention_days |-> Number(0), sqlite |-> Object([path |-> Text("h.db")])]),
           policy |-> Object("default" :> Text("deny") @@ "rules" :>
             List(<<Object([tool |-> Text("read"), action |-> Text("allow"),
                            args |-> Object([path |-> Object([prefix |-> Text("/tmp")])])])>>))]),
     File([redaction |-> Object([patterns |-> List(<<>>)])]),
     File([redaction |-> Object([patterns |-> List(<<Text("card")>>)]),
           identity |-> Object([profile |-> Text("me"),
                                keys |-> List(<<Object([key |-> Text("k"), identity |-> Text("bot")])>>)]),
           upstream |-> Object([http |-> Object([headers |-> Object([accept |-> Text("any")])])]),
           logging |-> Text("loud")])}

BadFiles ==
    {[unreadable |-> TRUE], [malformed |-> TRUE], [document |-> Text("text")],
     ReliabilityFile([timeout |-> Number(5)]), ReliabilityFile([timeout_ms |-> Number(0)]),
     ReliabilityFile([replay |-> Object([dedup_window |-> Text("soon")])]), ToolFile([effects |-> Text("none")]),
     ToolFile([retry |-> Object([max_atempts |-> Number(1)])]),
     File([identity |-> Object([keys |-> List(<<Object([key |-> Text("k"), identity |-> Text("bot")]),
                                                Object([key |-> Text("k"), identity |-> Text("me")])>>)])]),
     File([identity |-> Object([keys |-> List(<<Object([key |-> Text("k")])>>)])]),
     File([policy |-> Object([rules |-> List(<<Object([tool |-> Text("read")])>>)])]),
     File([policy |-> Object([rules |-> List(<<Object([tool |-> Text("read"), action |-> Text("deny"),
                                                       args |-> Object([path |-> EmptyObject])])>>)])]),
     File([queue |-> Object([rabbitmq |-> Object([url |-> Text("http://broker")])])])}

SomeFiles == GoodFiles \cup BadFiles
SomeDurations == "30m" :> [amount |-> 30, unit |-> "m"]

\* Keys: token and cfg.api_key match a default pattern, card one of a file.
SomeInside == {<<"token", "token">>, <<"api_key", "API_KEY">>, <<"card", "cardNo">>}

SomeCalls ==
    {[tool |-> "read", arguments |-> Object([n |-> Number(1), cardNo |-> Text("4")])],
     [tool |-> "write", arguments |-> Object([token |-> Text("s"), n |-> Number(1)])],
     [tool |-> "write", arguments |-> Object([cfg |-> Object([API_KEY |-> Text("s")]), n |-> Null])],
     [tool |-> "write", arguments |-> Object([cfg |-> List(<<Object([token |-> Text("s")]), Number(2)>>),
                                              n |-> Text("[REDACTED]")])]}
=============================================================================

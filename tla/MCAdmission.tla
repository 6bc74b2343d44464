----------------------------- MODULE MCAdmission -----------------------------
(* Values for TLC: the rules differ in what specificity counts. *)
EXTENDS Admission

Glob == [glob |-> TRUE, names |-> {"read", "write"}]
Exact == [glob |-> FALSE, names |-> {"write"}]
Text(t, n) == [type |-> "string", size |-> n, text |-> t]
Prefix == [path |-> "path", matcher |-> [kind |-> "prefix", texts |-> {"in"}]]
Short == [path |-> "path", matcher |-> [kind |-> "max_length", bound |-> 5]]
Few == [path |-> "count", matcher |-> [kind |-> "max", bound |-> 5]]

Rule(tool, who, args, action) == [tool |-> tool, caller |-> who, args |-> args, action |-> action]
SomeRules ==
    {Rule(Glob, AnyCaller, <<>>, "deny"), Rule(Exact, AnyCaller, <<>>, "allow"),
     Rule(Glob, "bot", <<>>, "deny"), Rule(Glob, AnyCaller, <<Prefix>>, "allow"),
     Rule(Exact, "bot", <<Few>>, "deny"), Rule(Glob, AnyCaller, <<Prefix, Short>>, "allow")}

SomeArgs ==
    {[p \in {"path"} |-> Text("in", 3)], [p \in {"path"} |-> Text("in", 9)],
     [p \in {"path", "count"} |-> IF p = "path" THEN Text("out", 3)
                                  ELSE [type |-> "number", size |-> 5, text |-> "out"]]}
SomeCalls ==
    {[tool |-> t, args |-> a, credential |-> c,
      fields |-> IF c = Nobody THEN {"traceparent", "AUTHORIZATION"} ELSE {"authorization", "progressToken"}] :
        t \in {"read", "write"}, a \in SomeArgs, c \in {"known", "unknown", Nobody}}
SomeSettings ==
    {[profile |-> "local", keys |-> [k \in {} |-> "bot"]], [profile |-> "local", keys |-> [k \in {"known"} |-> "bot"]]}
=============================================================================

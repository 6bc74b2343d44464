------------------------------- MODULE Policy -------------------------------
(***************************************************************************)
(* The rules for tools/call and when one of them matches.                  *)
(*                                                                         *)
(* The regular expression of a tool pattern or of a matcher is the set of  *)
(* names or texts it accepts.  The arguments of a call are the function    *)
(* from the dot paths getPath finds in them to the values there.           *)
(***************************************************************************)
EXTENDS Integers, Sequences

CONSTANTS
    Tools, Identities, Paths, Texts,
    AnyCaller,        \* a rule without a caller
    MaxMatchInput     \* MAX_MATCH_INPUT_LENGTH

Actions == {"allow", "deny"}

\* size is the length of a string or an array, or the number itself.
Values == [type : {"string", "number", "array", "object"}, size : Int, text : Texts]

Matchers ==
    [kind : {"equals", "in"}, values : SUBSET Values]
        \cup [kind : {"prefix", "regex"}, texts : SUBSET Texts]
        \cup [kind : {"max_length", "min", "max"}, bound : Int]

RuleType ==
    [tool : [glob : BOOLEAN, names : SUBSET Tools], caller : Identities \cup {AnyCaller},
     args : Seq([path : Paths, matcher : Matchers]), action : Actions]

MatcherMatches(matcher, value) ==
    \/ matcher.kind \in {"equals", "in"} /\ value \in matcher.values
    \/ /\ matcher.kind \in {"prefix", "regex"}
       /\ value.type = "string" /\ value.size <= MaxMatchInput
       /\ value.text \in matcher.texts
    \/ matcher.kind = "max_length" /\ value.type \in {"string", "array"} /\ value.size <= matcher.bound
    \/ matcher.kind = "min" /\ value.type = "number" /\ value.size >= matcher.bound
    \/ matcher.kind = "max" /\ value.type = "number" /\ value.size <= matcher.bound

\* An exact tool counts 2, a glob 1, a caller 1, every argument matcher 1.
Specificity(rule) ==
    (IF rule.tool.glob THEN 1 ELSE 2) + (IF rule.caller = AnyCaller THEN 0 ELSE 1) + Len(rule.args)

\* getPath
Found(args, path) == path \in DOMAIN args

\* A path that is not there never matches.
RuleMatches(rule, call, caller) ==
    /\ call.tool \in rule.tool.names
    /\ rule.caller \in {AnyCaller, caller}
    /\ \A i \in DOMAIN rule.args :
        /\ Found(call.args, rule.args[i].path)
        /\ MatcherMatches(rule.args[i].matcher, call.args[rule.args[i].path])
=============================================================================

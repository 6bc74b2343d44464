----------------------------- MODULE Redaction ------------------------------
(***************************************************************************)
(* redaction/redact.ts and replay/guards.ts: the arguments of a call as a   *)
(* record keeps them, and as a replay sends them.                          *)
(*                                                                         *)
(* Arguments come from the wire, so they have no cycles and `seen` never    *)
(* finds one.                                                              *)
(***************************************************************************)
EXTENDS Json

CONSTANT Inside   \* <<p, k>>: the key k contains the pattern p, whatever their case

Redacted == Text("[REDACTED]")

MatchesPattern(key, patterns) == \E p \in patterns : <<p, key>> \in Inside

\* Mutant of RedactValue: lists are kept as they are.
RedactValue_Shallow(value, patterns) ==
    LET redact[node \in Nodes(value)] ==
            IF IsRecord(node)
            THEN Object([k \in DOMAIN node.object |->
                           IF MatchesPattern(k, patterns) THEN Redacted ELSE redact[node.object[k]]])
            ELSE node
    IN  redact[value]

RedactValue(value, patterns) ==
    LET redact[node \in Nodes(value)] ==
            IF IsList(node) THEN List([i \in DOMAIN node.array |-> redact[node.array[i]]])
            ELSE IF IsRecord(node)
            THEN Object([k \in DOMAIN node.object |->
                           IF MatchesPattern(k, patterns) THEN Redacted ELSE redact[node.object[k]]])
            ELSE node
    IN  redact[value]

\* --set: values are texts, and only a key of the top level can be named.
ApplyOverrides(arguments, overrides) ==
    Object(Over([k \in DOMAIN overrides |-> Text(overrides[k])], arguments.object))

\* Mutant of RedactedMarkerKeys: only the top level is looked at.
RedactedMarkerKeys_Top(value) ==
    IF IsRecord(value)
    THEN {<<Key(k)>> : k \in {f \in DOMAIN value.object : value.object[f] = Redacted}}
    ELSE {}

\* Where markers remain.
RedactedMarkerKeys(value) ==
    LET markers[node \in Nodes(value)] ==
            IF node = Redacted THEN {<<>>}
            ELSE UNION {{<<entry[1]>> \o rest : rest \in markers[entry[2]]} : entry \in Entries(node)}
    IN  markers[value]

-----------------------------------------------------------------------------
\* The reference: what redaction is for.

IsSecretStep(step, patterns) == "key" \in DOMAIN step /\ MatchesPattern(step.key, patterns)

\* A leaf below a key that matches is the marker instead, at the first such key.
RedactedLeaf(leaf, patterns) ==
    LET secret == {i \in DOMAIN leaf.path : IsSecretStep(leaf.path[i], patterns)}
        first == CHOOSE i \in secret : \A j \in secret : i <= j
    IN  IF secret = {} THEN leaf ELSE [path |-> SubSeq(leaf.path, 1, first), value |-> Redacted]

IsRedactionOf(stored, value, patterns) ==
    Leaves(stored) = {RedactedLeaf(leaf, patterns) : leaf \in Leaves(value)}

\* The call of `original` again: each value is the one it had, or the text that is
\* given for its key, and there is no other.
IsCallAgain(arguments, original, overrides) ==
    LET Kept(leaf) == IF leaf.path = <<>> THEN DOMAIN overrides = {}
                      ELSE leaf.path[1].key \notin DOMAIN overrides
    IN  Leaves(arguments) = {leaf \in Leaves(original) : Kept(leaf)}
                            \cup {[path |-> <<Key(k)>>, value |-> Text(overrides[k])] : k \in DOMAIN overrides}

=============================================================================

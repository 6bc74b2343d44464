----------------------------- MODULE Admission ------------------------------
(***************************************************************************)
(* What a tools/call passes before its first attempt: identity, policy and *)
(* its enforcement, then the parameters that are relayed.  CallPipeline    *)
(* takes up the call where this module leaves it, with the verdict as an    *)
(* input.                                                                  *)
(***************************************************************************)
EXTENDS Policy

CONSTANTS
    FileRules, MaxRules,   \* the rules a file may hold, and how many (a bound)
    Credentials,           \* API keys
    Calls,                 \* the calls of the client
    Settings,              \* the identity sections of the configuration
    Nobody

Fields == {"authorization", "AUTHORIZATION", "traceparent", "progressToken"}

\* Of _meta: the key of a Bearer `authorization`, and the names of its fields.
IsCall(c) ==
    /\ c.tool \in Tools /\ DOMAIN c.args \subseteq Paths /\ \A p \in DOMAIN c.args : c.args[p] \in Values
    /\ c.credential \in Credentials \cup {Nobody} /\ c.fields \subseteq Fields
    /\ c.credential # Nobody => "authorization" \in c.fields

\* The keys of the configuration are distinct, which makes them a function.
IsSetting(s) ==
    /\ s.profile \in Identities /\ DOMAIN s.keys \subseteq Credentials
    /\ \A k \in DOMAIN s.keys : s.keys[k] \in Identities

ASSUME AdmissionAssumption ==
    /\ FileRules \subseteq RuleType /\ MaxRules \in Nat
    /\ \A c \in Calls : IsCall(c)
    /\ \A s \in Settings : IsSetting(s)
    /\ AnyCaller \notin Identities /\ Nobody \notin Identities \cup Credentials

VARIABLES
    rules, default, dryRun,  \* the policy of the session
    identity,                \* its identity section
    call,
    pc,
    caller,
    index, best,             \* the loop of evaluateCall; best is 0 for undefined
    decision,
    sent                     \* the fields of _meta that are relayed

config == <<rules, default, dryRun, identity, call>>
vars == <<config, pc, caller, index, best, decision, sent>>

TypeOK ==
    /\ rules \in Seq(FileRules) /\ default \in Actions /\ dryRun \in BOOLEAN
    /\ identity \in Settings /\ call \in Calls
    /\ pc \in {"identity", "policy", "enforce", "attempt", "rejected", "denied"}
    /\ caller \in Identities \cup {Nobody}
    /\ pc \in {"policy", "enforce", "attempt", "denied"} => caller \in Identities
    /\ index \in 0..Len(rules) /\ best \in 0..index
    /\ decision \in [action : Actions, rule : 0..Len(rules)]
    /\ sent \in SUBSET Fields

Init ==
    /\ rules \in UNION {[1..n -> FileRules] : n \in 0..MaxRules}
    /\ default \in Actions /\ dryRun \in BOOLEAN
    /\ identity \in Settings /\ call \in Calls
    /\ pc = "identity" /\ caller = Nobody
    /\ index = 0 /\ best = 0
    /\ decision = [action |-> "allow", rule |-> 0]
    /\ sent = {}

-----------------------------------------------------------------------------
\* Mutant of Resolve: a key nobody knows falls back to the profile.
Resolve_FallsBack ==
    /\ caller' = IF call.credential \in DOMAIN identity.keys
                 THEN identity.keys[call.credential] ELSE identity.profile
    /\ pc' = "policy"

\* resolveIdentity, and the rejection: a credential counts only if there are keys.
Resolve ==
    IF call.credential # Nobody /\ DOMAIN identity.keys # {}
    THEN IF call.credential \in DOMAIN identity.keys
         THEN caller' = identity.keys[call.credential] /\ pc' = "policy"
         ELSE caller' = Nobody /\ pc' = "rejected"
    ELSE caller' = identity.profile /\ pc' = "policy"

ResolveIdentity ==
    /\ pc = "identity"
    /\ Resolve
    /\ UNCHANGED <<config, index, best, decision, sent>>

\* Mutant of Better: of two equally specific rules the later one is taken.
Better_Last(rule) == best = 0 \/ Specificity(rule) >= Specificity(rules[best])

Better(rule) == best = 0 \/ Specificity(rule) > Specificity(rules[best])

\* One round of the loop of evaluateCall.
Consider ==
    /\ pc = "policy" /\ index < Len(rules)
    /\ index' = index + 1
    /\ LET rule == rules[index + 1]
       IN  best' = IF RuleMatches(rule, call, caller) /\ Better(rule) THEN index + 1 ELSE best
    /\ UNCHANGED <<config, pc, caller, decision, sent>>

Decide ==
    /\ pc = "policy" /\ index = Len(rules)
    /\ decision' = [action |-> IF best = 0 THEN default ELSE rules[best].action, rule |-> best]
    /\ pc' = "enforce"
    /\ UNCHANGED <<config, caller, index, best, sent>>

StripCredentialFields(fields) == fields \ {"authorization", "AUTHORIZATION"}

\* Mutant of Enforce: a dry run is the default.
Enforce_Dry ==
    /\ pc = "enforce"
    /\ pc' = "attempt" /\ sent' = StripCredentialFields(call.fields)
    /\ UNCHANGED <<config, caller, index, best, decision>>

\* A denial ends the call unless the session only reports it.
Enforce ==
    /\ pc = "enforce"
    /\ IF decision.action = "deny" /\ ~dryRun
       THEN pc' = "denied" /\ UNCHANGED sent
       ELSE pc' = "attempt" /\ sent' = StripCredentialFields(call.fields)
    /\ UNCHANGED <<config, caller, index, best, decision>>

Next == ResolveIdentity \/ Consider \/ Decide \/ Enforce
Spec == Init /\ [][Next]_vars

-----------------------------------------------------------------------------
Matching == {i \in 1..Len(rules) : RuleMatches(rules[i], call, caller)}

\* The first of the most specific matching rules decides; the default decides
\* only if no rule matches.  evaluateCall finds it in one pass.
MostSpecificWins ==
    pc \in {"enforce", "attempt", "denied"} =>
        \/ Matching = {} /\ decision = [action |-> default, rule |-> 0]
        \/ /\ decision.rule \in Matching
           /\ decision.action = rules[decision.rule].action
           /\ \A i \in Matching :
                \/ Specificity(rules[i]) < Specificity(rules[decision.rule])
                \/ Specificity(rules[i]) = Specificity(rules[decision.rule]) /\ decision.rule <= i

\* Policy judges the caller by a name it owns: the identity of the key it
\* presented, or the profile if it presented none or there are no keys.
CallerIsEarned ==
    caller # Nobody =>
        IF call.credential \in DOMAIN identity.keys THEN caller = identity.keys[call.credential]
        ELSE caller = identity.profile /\ (call.credential = Nobody \/ DOMAIN identity.keys = {})

\* Only an admitted call is relayed: dry run lets denials pass and never a
\* rejected credential.  The credential stays behind, whatever the spelling of
\* its field, and every other field of _meta goes along.
OnlyAdmittedIsSent ==
    pc = "attempt" =>
        /\ caller # Nobody /\ (decision.action = "allow" \/ dryRun)
        /\ sent = {f \in call.fields : f \notin {"authorization", "AUTHORIZATION"}}
=============================================================================

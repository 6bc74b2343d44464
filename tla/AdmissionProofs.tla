--------------------------- MODULE AdmissionProofs ---------------------------
(* Theorems about Admission, for any rules, keys, callers and calls. *)
EXTENDS Admission, TLAPS

USE AdmissionAssumption DEF AdmissionAssumption

\* The score of parseRule is a number for every rule a file can hold.
LEMMA SpecificityType ==
    ASSUME NEW rule \in FileRules
    PROVE  Specificity(rule) \in Nat
<1>1. rule \in RuleType
  OBVIOUS
<1>2. Len(rule.args) \in Nat
  BY <1>1 DEF RuleType
<1>3. (IF rule.tool.glob THEN 1 ELSE 2) \in Nat /\ (IF rule.caller = AnyCaller THEN 0 ELSE 1) \in Nat
  OBVIOUS
<1>4. \A a, b, c \in Nat : a + b + c \in Nat
  OBVIOUS
<1>5. QED
  BY <1>2, <1>3, <1>4 DEF Specificity

\* Before the first rule is looked at, rules is a sequence of file rules.
LEMMA RulesType ==
    ASSUME NEW n \in 0..MaxRules, NEW s \in [1..n -> FileRules]
    PROVE  s \in Seq(FileRules)
OBVIOUS

\* The types of every variable; in particular evaluateCall is only reached with
\* a caller, and its loop stays within the rules.
THEOREM TypeCorrect == Spec => []TypeOK
<1>1. Init => TypeOK
  <2>1. SUFFICES ASSUME Init PROVE TypeOK
    OBVIOUS
  <2>2. rules \in Seq(FileRules)
    BY <2>1, RulesType DEF Init
  <2>3. Len(rules) \in Nat
    BY <2>2
  <2>4. QED
    BY <2>1, <2>2, <2>3 DEF Init, TypeOK, Actions
<1>2. TypeOK /\ [Next]_vars => TypeOK'
  <2>1. SUFFICES ASSUME TypeOK, [Next]_vars PROVE TypeOK'
    OBVIOUS
  <2>2. Len(rules) \in Nat
    BY <2>1 DEF TypeOK
  <2>3. CASE ResolveIdentity
    <3>1. IsSetting(identity)
      BY <2>1 DEF TypeOK
    <3>2. QED
      BY <2>1, <2>3, <3>1 DEF TypeOK, ResolveIdentity, Resolve, IsSetting, config
  <2>4. CASE Consider
    BY <2>1, <2>2, <2>4 DEF TypeOK, Consider, config
  <2>5. CASE Decide
    <3>1. best # 0 => rules[best].action \in Actions
      <4>1. SUFFICES ASSUME best # 0 PROVE rules[best].action \in Actions
        OBVIOUS
      <4>2. best \in 1..Len(rules)
        BY <2>1, <2>2, <4>1 DEF TypeOK
      <4>3. rules[best] \in RuleType
        BY <2>1, <4>2 DEF TypeOK
      <4>4. QED
        BY <4>3 DEF RuleType
    <3>2. QED
      BY <2>1, <2>2, <2>5, <3>1 DEF TypeOK, Decide, config
  <2>6. CASE Enforce
    <3>1. call.fields \subseteq Fields
      BY <2>1 DEF TypeOK, IsCall
    <3>2. QED
      BY <2>1, <2>6, <3>1 DEF TypeOK, Enforce, StripCredentialFields, config
  <2>7. CASE UNCHANGED vars
    BY <2>1, <2>7 DEF TypeOK, vars, config
  <2>8. QED
    BY <2>1, <2>3, <2>4, <2>5, <2>6, <2>7 DEF Next
<1>3. QED
  BY <1>1, <1>2, PTL DEF Spec

-----------------------------------------------------------------------------
\* The rules among the first n that match the call.
MatchingUpTo(n) == {i \in 1..n : RuleMatches(rules[i], call, caller)}

\* b is the first of the most specific of them, 0 if there is none.
Chosen(b, n) ==
    \/ b = 0 /\ MatchingUpTo(n) = {}
    \/ /\ b \in MatchingUpTo(n)
       /\ \A i \in MatchingUpTo(n) :
            \/ Specificity(rules[i]) < Specificity(rules[b])
            \/ Specificity(rules[i]) = Specificity(rules[b]) /\ b <= i

\* The loop invariant of evaluateCall.
LoopInv ==
    /\ pc = "identity" => index = 0 /\ best = 0
    /\ pc = "policy" => Chosen(best, index)

\* One round of the loop keeps the first of the most specific rules.
LEMMA RoundKeepsChosen ==
    ASSUME TypeOK, Consider, Chosen(best, index)
    PROVE  Chosen(best, index)'
<1>1. index \in Nat /\ index < Len(rules) /\ Len(rules) \in Nat /\ rules \in Seq(FileRules)
  BY DEF TypeOK, Consider
<1>2. UNCHANGED <<rules, call, caller>> /\ index' = index + 1
  BY DEF Consider, config
<1>3. \A i \in 1..(index + 1) : Specificity(rules[i]) \in Nat
  BY <1>1, SpecificityType
<1>4. MatchingUpTo(index)' = MatchingUpTo(index) \cup
          (IF RuleMatches(rules[index + 1], call, caller) THEN {index + 1} ELSE {})
  <2>1. MatchingUpTo(index)' = {i \in 1..(index + 1) : RuleMatches(rules[i], call, caller)}
    BY <1>2 DEF MatchingUpTo, RuleMatches
  <2>2. QED
    BY <1>1, <2>1 DEF MatchingUpTo
<1>5. MatchingUpTo(index) \subseteq 1..index
  BY DEF MatchingUpTo
<1>6. \A i : Specificity(rules[i])' = Specificity(rules[i])
  BY <1>2 DEF Specificity
<1>7. CASE RuleMatches(rules[index + 1], call, caller) /\ Better(rules[index + 1])
  <2>1. best' = index + 1 /\ best' \in MatchingUpTo(index)'
    BY <1>1, <1>4, <1>7 DEF Consider
  <2>2. \A i \in MatchingUpTo(index) : Specificity(rules[i]) < Specificity(rules[index + 1])
    <3>1. CASE best = 0
      BY <1>1, <1>5, <3>1 DEF Chosen
    <3>2. CASE best # 0
      <4>1. best \in MatchingUpTo(index) /\ Specificity(rules[index + 1]) > Specificity(rules[best])
        BY <1>7, <3>2 DEF Chosen, Better
      <4>2. \A i \in MatchingUpTo(index) : Specificity(rules[i]) <= Specificity(rules[best])
        BY <1>1, <1>3, <1>5, <3>2, <4>1 DEF Chosen
      <4>3. QED
        BY <1>1, <1>3, <1>5, <4>1, <4>2
    <3>3. QED
      BY <3>1, <3>2
  <2>3. \A i \in MatchingUpTo(index)' :
            \/ Specificity(rules[i]) < Specificity(rules[index + 1])
            \/ Specificity(rules[i]) = Specificity(rules[index + 1]) /\ index + 1 <= i
    BY <1>1, <1>4, <2>2
  <2>4. QED
    BY <1>2, <1>6, <2>1, <2>3 DEF Chosen
<1>8. CASE RuleMatches(rules[index + 1], call, caller) /\ ~Better(rules[index + 1])
  <2>1. best' = best /\ best # 0 /\ best \in MatchingUpTo(index)
    BY <1>8 DEF Consider, Better, Chosen
  <2>2. best \in 1..index /\ Specificity(rules[index + 1]) <= Specificity(rules[best])
    BY <1>1, <1>3, <1>5, <1>8, <2>1 DEF Better
  <2>3. ASSUME NEW i \in MatchingUpTo(index)'
        PROVE  \/ Specificity(rules[i]) < Specificity(rules[best])
               \/ Specificity(rules[i]) = Specificity(rules[best]) /\ best <= i
    <3>1. CASE i \in MatchingUpTo(index)
      <4>1. best # 0
        BY <2>1
      <4>2. QED
        BY <3>1, <4>1 DEF Chosen
    <3>2. CASE i = index + 1
      <4>1. Specificity(rules[i]) \in Nat /\ Specificity(rules[best]) \in Nat
        BY <1>1, <1>3, <2>2, <3>2
      <4>2. Specificity(rules[i]) <= Specificity(rules[best]) /\ best <= i
        BY <1>1, <2>2, <3>2
      <4>3. QED
        BY <4>1, <4>2
    <3>3. QED
      BY <1>4, <3>1, <3>2
  <2>4. QED
    BY <1>2, <1>4, <1>6, <2>1, <2>3 DEF Chosen
<1>9. CASE ~RuleMatches(rules[index + 1], call, caller)
  <2>1. best' = best /\ MatchingUpTo(index)' = MatchingUpTo(index)
    BY <1>4, <1>9 DEF Consider
  <2>2. QED
    BY <1>2, <1>6, <2>1 DEF Chosen
<1>10. QED
  BY <1>7, <1>8, <1>9

\* The decision is that of the first of the most specific matching rules, for
\* every list of rules: the one pass of evaluateCall implements the precedence.
THEOREM Precedence == Spec => []MostSpecificWins
<1>1. Init => LoopInv /\ MostSpecificWins
  BY DEF Init, LoopInv, MostSpecificWins
<1>2. TypeOK /\ LoopInv /\ MostSpecificWins /\ [Next]_vars => (LoopInv /\ MostSpecificWins)'
  <2>1. SUFFICES ASSUME TypeOK, LoopInv, MostSpecificWins, [Next]_vars
                 PROVE  LoopInv' /\ MostSpecificWins'
    OBVIOUS
  <2>2. CASE ResolveIdentity
    <3>1. index' = 0 /\ best' = 0 /\ pc' \in {"policy", "rejected"}
      BY <2>1, <2>2 DEF ResolveIdentity, Resolve, LoopInv
    <3>2. Chosen(0, 0)'
      BY DEF Chosen, MatchingUpTo
    <3>3. QED
      BY <3>1, <3>2 DEF LoopInv, MostSpecificWins
  <2>3. CASE Consider
    <3>1. pc = "policy" /\ pc' = "policy"
      BY <2>3 DEF Consider
    <3>2. Chosen(best, index)'
      BY <2>1, <2>3, <3>1, RoundKeepsChosen DEF LoopInv
    <3>3. QED
      BY <3>1, <3>2 DEF LoopInv, MostSpecificWins
  <2>4. CASE Decide
    <3>1. pc' = "enforce" /\ Chosen(best, Len(rules)) /\ UNCHANGED <<rules, default, call, caller>>
      BY <2>1, <2>4 DEF Decide, LoopInv, config
    <3>2. Matching = MatchingUpTo(Len(rules)) /\ Matching' = Matching
      BY <3>1 DEF Matching, MatchingUpTo, RuleMatches
    <3>3. decision' = [action |-> IF best = 0 THEN default ELSE rules[best].action, rule |-> best]
      BY <2>4 DEF Decide
    <3>4. CASE best = 0 /\ Matching = {}
      BY <3>1, <3>2, <3>3, <3>4 DEF LoopInv, MostSpecificWins
    <3>5. CASE ~(best = 0 /\ Matching = {})
      <4>1. best \in Matching
        BY <3>1, <3>2, <3>5 DEF Chosen
      <4>2. best # 0
        BY <4>1 DEF Matching
      <4>3. \A i \in Matching :
                \/ Specificity(rules[i]) < Specificity(rules[best])
                \/ Specificity(rules[i]) = Specificity(rules[best]) /\ best <= i
        BY <3>1, <3>2, <3>5 DEF Chosen
      <4>4. \A i : Specificity(rules[i])' = Specificity(rules[i])
        BY <3>1 DEF Specificity
      <4>5. decision'.rule = best /\ decision'.action = rules[best].action
        BY <3>3, <4>2
      <4>6. QED
        BY <3>1, <3>2, <4>1, <4>3, <4>4, <4>5 DEF LoopInv, MostSpecificWins
    <3>6. QED
      BY <3>4, <3>5
  <2>5. CASE Enforce
    <3>1. /\ pc = "enforce" /\ pc' \in {"attempt", "denied"}
          /\ UNCHANGED <<rules, default, call, caller, decision>>
      BY <2>5 DEF Enforce, config
    <3>2. Matching' = Matching /\ \A i : Specificity(rules[i])' = Specificity(rules[i])
      BY <3>1 DEF Matching, RuleMatches, Specificity
    <3>3. QED
      BY <2>1, <3>1, <3>2 DEF LoopInv, MostSpecificWins
  <2>6. CASE UNCHANGED vars
    <3>1. UNCHANGED <<rules, default, call, caller, decision, pc, index, best>>
      BY <2>6 DEF vars, config
    <3>2. Matching' = Matching /\ \A i : Specificity(rules[i])' = Specificity(rules[i])
      BY <3>1 DEF Matching, RuleMatches, Specificity
    <3>3. Chosen(best, index)' = Chosen(best, index)
      BY <3>1, <3>2 DEF Chosen, MatchingUpTo, RuleMatches
    <3>4. QED
      BY <2>1, <3>1, <3>2, <3>3 DEF LoopInv, MostSpecificWins
  <2>7. QED
    BY <2>1, <2>2, <2>3, <2>4, <2>5, <2>6 DEF Next
<1>3. QED
  BY <1>1, <1>2, TypeCorrect, PTL DEF Spec

-----------------------------------------------------------------------------
\* The caller that policy sees is the one the presented key stands for.
THEOREM CallerEarned == Spec => []CallerIsEarned
<1>1. Init => CallerIsEarned
  BY DEF Init, CallerIsEarned
<1>2. TypeOK /\ CallerIsEarned /\ [Next]_vars => CallerIsEarned'
  <2>1. SUFFICES ASSUME TypeOK, CallerIsEarned, [Next]_vars PROVE CallerIsEarned'
    OBVIOUS
  <2>2. CASE ResolveIdentity
    <3>1. DOMAIN identity.keys \subseteq Credentials /\ call.credential \in Credentials \cup {Nobody}
      BY <2>1 DEF TypeOK, IsSetting, IsCall
    <3>2. QED
      BY <2>2, <3>1 DEF ResolveIdentity, Resolve, CallerIsEarned, config
  <2>3. CASE Consider
    BY <2>1, <2>3 DEF Consider, CallerIsEarned, config
  <2>4. CASE Decide
    BY <2>1, <2>4 DEF Decide, CallerIsEarned, config
  <2>5. CASE Enforce
    BY <2>1, <2>5 DEF Enforce, CallerIsEarned, config
  <2>6. CASE UNCHANGED vars
    BY <2>1, <2>6 DEF vars, CallerIsEarned, config
  <2>7. QED
    BY <2>1, <2>2, <2>3, <2>4, <2>5, <2>6 DEF Next
<1>3. QED
  BY <1>1, <1>2, TypeCorrect, PTL DEF Spec

-----------------------------------------------------------------------------
\* The only step to the first attempt is enforcement, after a caller was
\* resolved; what it sends along has lost the credential in every spelling.
THEOREM AdmittedOnly == Spec => []OnlyAdmittedIsSent
<1>1. Init => OnlyAdmittedIsSent
  BY DEF Init, OnlyAdmittedIsSent
<1>2. TypeOK /\ OnlyAdmittedIsSent /\ [Next]_vars => OnlyAdmittedIsSent'
  <2>1. SUFFICES ASSUME TypeOK, OnlyAdmittedIsSent, [Next]_vars PROVE OnlyAdmittedIsSent'
    OBVIOUS
  <2>2. CASE ResolveIdentity \/ Consider \/ Decide
    <3>1. pc' # "attempt"
      BY <2>2 DEF ResolveIdentity, Resolve, Consider, Decide
    <3>2. QED
      BY <3>1 DEF OnlyAdmittedIsSent
  <2>3. CASE Enforce
    <3>1. caller # Nobody /\ decision.action \in {"allow", "deny"}
      BY <2>1, <2>3 DEF TypeOK, Enforce, Actions
    <3>2. QED
      BY <2>3, <3>1 DEF Enforce, StripCredentialFields, OnlyAdmittedIsSent, config
  <2>4. CASE UNCHANGED vars
    BY <2>1, <2>4 DEF vars, config, OnlyAdmittedIsSent
  <2>5. QED
    BY <2>1, <2>2, <2>3, <2>4 DEF Next
<1>3. QED
  BY <1>1, <1>2, TypeCorrect, PTL DEF Spec
=============================================================================

--------------------------- MODULE CommandsProofs ---------------------------
(***************************************************************************)
(* Theorems about Commands, for any command lines, files and calls.        *)
(***************************************************************************)
EXTENDS Commands, RecordProofs

-----------------------------------------------------------------------------
\* Nothing is touched before the options and the configuration are accepted.

Untouched == opened = {} /\ launched = Nothing /\ sent = Nothing

PolicyTestOfOptions == command = <<"policy", "test">> /\ ~Given("--id")

TouchInv ==
    /\ pc \in {"parse", "load", "open"} => Untouched
    /\ pc = "act" /\ PolicyTestOfOptions => Untouched
    /\ pc = "prompt" /\ exit = 2 => Untouched

LEMMA TouchStep == TouchInv /\ [Next]_vars => TouchInv'
<1> SUFFICES ASSUME TouchInv, [Next]_vars PROVE TouchInv'
  OBVIOUS
<1> USE DEF TouchInv, Untouched
<1>1. ASSUME NEW l \in Lines, Type(l) PROVE TouchInv'
  <2>1. opened' = {} /\ launched' = Nothing /\ sent' = Nothing
    BY <1>1 DEF Type
  <2> QED
    BY <2>1
<1>2. CASE ReadSwitch \/ ReadOption \/ ReadId
  <2>1. pc = "parse" /\ UNCHANGED <<pc, touchVars>>
    BY <1>2 DEF ReadSwitch, ReadOption, ReadId, Read
  <2> QED
    BY <2>1 DEF touchVars
<1>3. CASE Reject \/ EndOptions \/ LoadSettings
  <2>1. pc \in {"parse", "load"} /\ UNCHANGED <<opened, launched, sent>>
    BY <1>3 DEF Reject, EndOptions, LoadSettings, touchVars, kept
  <2> QED
    BY <2>1
<1>4. CASE OpenStores
  <2>1. pc = "open" /\ UNCHANGED <<launched, sent>>
    BY <1>4 DEF OpenStores
  <2>2. CASE /\ opened' = ToSet(Needs(command)) /\ pc' \in {"start", "act"}
             /\ UNCHANGED <<command, options>>
    <3>1. ASSUME PolicyTestOfOptions' PROVE opened' = {}
      <4>1. Needs(command) = <<>>
        BY <2>2, <3>1 DEF PolicyTestOfOptions, Needs, Given
      <4> QED
        BY <2>2, <4>1 DEF ToSet
    <3> QED
      BY <2>1, <2>2, <3>1
  <2>3. CASE pc' = "prompt" /\ exit' = 1
    BY <2>3
  <2> QED
    BY <1>4, <2>2, <2>3 DEF OpenStores, Goto, Exit, parseVars
<1>5. CASE StartServer
  <2>1. pc' = "session" \/ (pc' = "prompt" /\ exit' = 3)
    BY <1>5 DEF StartServer, Goto, Exit
  <2> QED
    BY <2>1
<1>6. ASSUME NEW call \in Calls, CallTool(call) PROVE TouchInv'
  BY <1>6 DEF CallTool
<1>7. CASE EndSession
  <2>1. pc' = "prompt" /\ exit' \in {0, 3}
    BY <1>7 DEF EndSession, Goto, Exit
  <2> QED
    BY <2>1
<1>8. CASE Query
  <2>1. pc = "act" /\ pc' = "prompt" /\ UNCHANGED <<opened, launched, sent>>
    BY <1>8 DEF Query, Exit, Goto, kept
  <2>2. ASSUME exit' = 2 PROVE PolicyTestOfOptions
    BY <1>8, <2>2 DEF Query, Exit, Asked, PolicyTestOfOptions
  <2> QED
    BY <2>1, <2>2
<1>9. CASE Select
  <2>1. pc' = "replay" \/ (pc' = "prompt" /\ exit' = 1)
    BY <1>9 DEF Select, Goto, Exit
  <2> QED
    BY <2>1
<1>10. CASE ReplayRecord
  <2>1. pc = "replay" /\ UNCHANGED pc
    BY <1>10 DEF ReplayRecord, NotExecuted, DryRun, Redrive, Take
  <2> QED
    BY <2>1
<1>11. CASE EndReplay
  <2>1. pc' = "prompt" /\ exit' \in {0, 1}
    BY <1>11 DEF EndReplay, Goto, Exit
  <2> QED
    BY <2>1
<1>12. CASE UNCHANGED vars
  BY <1>12 DEF vars, parseVars, touchVars, PolicyTestOfOptions, Given
<1> QED
  BY <1>1, <1>2, <1>3, <1>4, <1>5, <1>6, <1>7, <1>8, <1>9, <1>10, <1>11, <1>12 DEF Next

\* runCli, the option loops, loadConfig and parsePolicyTest: a command that ends with
\* the exit code of bad input has opened no database, started no server and sent
\* nothing.
THEOREM BadInputIsHarmless == Spec => []BadInputTouchesNothing
<1>1. Init => TouchInv
  BY DEF Init, TouchInv, Untouched
<1>2. TouchInv => BadInputTouchesNothing
  BY DEF TouchInv, Untouched, BadInputTouchesNothing
<1> QED
  BY <1>1, <1>2, TouchStep, PTL DEF Spec
-----------------------------------------------------------------------------
\* The tokens of the groups, up to the i-th of them.

Flattens(f, seqs) ==
    f = [i \in 1..Len(seqs) |-> IF i = 1 THEN seqs[i] ELSE f[i - 1] \o seqs[i]]

Flat(seqs) ==
    [i \in 0..Len(seqs) |-> IF i = 0 THEN <<>> ELSE (CHOOSE f : Flattens(f, seqs))[i]]

LEMMA FlatSteps ==
    ASSUME NEW S, NEW seqs \in Seq(Seq(S))
    PROVE  /\ Flat(seqs)[0] = <<>>
           /\ \A i \in 1..Len(seqs) : Flat(seqs)[i] = Flat(seqs)[i - 1] \o seqs[i]
           /\ \A i \in 0..Len(seqs) : Flat(seqs)[i] \in Seq(S)
           /\ FlattenSeq(seqs) = Flat(seqs)[Len(seqs)]
<1> DEFINE n == Len(seqs)
           Tokens == Seq(S)
           step == [x \in (1..n) \X Tokens |-> x[2] \o seqs[x[1]]]
           c == CHOOSE f : Flattens(f, seqs)
<1>1. n \in Nat /\ <<>> \in Tokens
  OBVIOUS
<1>2. \A i \in 1..n, s \in Tokens : s \o seqs[i] \in Tokens
  OBVIOUS
<1>3. FlattenSeq(seqs) = IF n = 0 THEN seqs ELSE c[n]
  BY Zenon DEF FlattenSeq, Flattens
<1>4. step \in [(1..n) \X Tokens -> Tokens]
  BY <1>2
<1>5. \A i \in 1..n, s \in Tokens : step[<<i, s>>] = s \o seqs[i]
  OBVIOUS
<1>6. \A i \in 1..n : seqs[i] \in Tokens
  OBVIOUS
<1>7. \A s \in Tokens : <<>> \o s = s
  BY ConcatEmptySeq, Zenon
<1>8. n = 0 => seqs = <<>>
  OBVIOUS
<1>9. \A i \in 0..n : Flat(seqs)[i] = IF i = 0 THEN <<>> ELSE c[i]
  BY DEF Flat
<1> HIDE DEF n, Tokens, step, c
<1>10. Runs(Tokens, <<>>, n, step) # {}
  BY <1>1, <1>4, RecursionExists
<1> PICK f \in [0..n -> Tokens] : f[0] = <<>> /\ \A i \in 1..n : f[i] = step[<<i, f[i - 1]>>]
  BY <1>10 DEF Runs
<1>11. ASSUME NEW i \in 1..n PROVE f[i] = f[i - 1] \o seqs[i]
  <2>1. f[i - 1] \in Tokens
    BY <1>1
  <2> QED
    BY <1>5, <2>1
<1> DEFINE g == [i \in 1..n |-> f[i]]
<1>12. \A i \in 1..n : g[i] = IF i = 1 THEN seqs[i] ELSE g[i - 1] \o seqs[i]
  <2> SUFFICES ASSUME NEW i \in 1..n PROVE g[i] = IF i = 1 THEN seqs[i] ELSE g[i - 1] \o seqs[i]
    OBVIOUS
  <2>1. CASE i = 1
    <3>1. f[i] = <<>> \o seqs[i]
      <4>1. f[i] = f[i - 1] \o seqs[i]
        BY <1>11, Zenon
      <4>2. f[i - 1] = <<>>
        BY <2>1
      <4> QED
        BY <4>1, <4>2, Zenon
    <3> QED
      BY <1>6, <1>7, <2>1, <3>1, Zenon
  <2>2. CASE i # 1
    <3>1. i - 1 \in 1..n
      BY <1>1, <2>2
    <3> QED
      BY <1>11, <2>2, <3>1
  <2> QED
    BY <2>1, <2>2
<1>13. Flattens(g, seqs)
  <2>1. g = [i \in 1..n |-> IF i = 1 THEN seqs[i] ELSE g[i - 1] \o seqs[i]]
    <3> HIDE DEF g
    <3>1. g = [i \in 1..n |-> g[i]]
      BY DEF g
    <3> QED
      BY <1>12, <3>1, Zenon
  <2> QED
    BY <2>1, Zenon DEF Flattens, n
<1> HIDE DEF g
<1>14. Flattens(c, seqs)
  BY <1>13, Zenon DEF c
<1>15. \A i \in 1..n : c[i] = IF i = 1 THEN seqs[i] ELSE c[i - 1] \o seqs[i]
  BY <1>14 DEF Flattens, n
<1>16. \A i \in 1..n : Flat(seqs)[i] = Flat(seqs)[i - 1] \o seqs[i]
  <2> TAKE i \in 1..n
  <2>1. CASE i = 1
    <3>1. Flat(seqs)[i - 1] = <<>> /\ Flat(seqs)[i] = seqs[i]
      BY <1>1, <1>9, <1>15, <2>1
    <3> QED
      BY <1>6, <1>7, <3>1, Zenon
  <2>2. CASE i # 1
    <3>1. i - 1 \in 1..n /\ i - 1 # 0 /\ i # 0
      BY <1>1, <2>2
    <3>2. Flat(seqs)[i] = c[i] /\ Flat(seqs)[i - 1] = c[i - 1]
      BY <1>1, <1>9, <3>1
    <3>3. c[i] = c[i - 1] \o seqs[i]
      BY <1>15, <2>2, Zenon
    <3> QED
      BY <3>2, <3>3, Zenon
  <2> QED
    BY <2>1, <2>2
<1>17. Flat(seqs)[0] = <<>>
  BY <1>1, <1>9
<1>18. \A i \in 0..n : Flat(seqs)[i] \in Tokens
  BY <1>1, <1>2, <1>16, <1>17, RunType
<1>19. FlattenSeq(seqs) = Flat(seqs)[n]
  BY <1>1, <1>3, <1>8, <1>9
<1> QED
  BY <1>16, <1>17, <1>18, <1>19 DEF n, Tokens

LEMMA ConcatParts ==
    ASSUME NEW S, NEW a \in Seq(S), NEW b \in Seq(S), NEW c, c = a \o b
    PROVE  /\ Len(a) \in Nat /\ Len(b) \in Nat
           /\ c \in Seq(S) /\ Len(c) = Len(a) + Len(b) /\ DOMAIN c = 1..Len(c)
           /\ \A i \in 1..Len(a) : c[i] = a[i]
           /\ \A i \in 1..Len(b) : c[Len(a) + i] = b[i]
<1>1. /\ c \in Seq(S) /\ Len(c) = Len(a) + Len(b)
      /\ \A i \in 1..(Len(a) + Len(b)) : c[i] = IF i <= Len(a) THEN a[i] ELSE b[i - Len(a)]
  BY ConcatProperties
<1> QED
  BY <1>1

LEMMA FromOn ==
    ASSUME NEW S, NEW s \in Seq(S), NEW m \in 1..(Len(s) + 1), NEW a, a = SubSeq(s, m, Len(s))
    PROVE  /\ a \in Seq(S) /\ Len(a) = Len(s) - m + 1
           /\ \A i \in 1..Len(a) : a[i] = s[m + i - 1]
BY SubSeqProperties

Grouped(groups, tail) == FlattenSeq(groups) \o tail

\* Where the tokens of a group stand.
GroupStands(groups, tail, k) ==
    LET n == Len(Flat(groups)[k])
        group == groups[k + 1]
        tokens == Grouped(groups, tail)
    IN  /\ n \in Nat /\ Len(group) \in Nat /\ Len(tokens) \in Nat
        /\ Len(Flat(groups)[k + 1]) = n + Len(group)
        /\ \A j \in 1..Len(group) : n + j \in DOMAIN tokens /\ tokens[n + j] = group[j]
        /\ k + 1 = Len(groups) /\ tail = <<>> => Len(tokens) = n + Len(group)

LEMMA GroupAt ==
    ASSUME NEW S, NEW groups \in Seq(Seq(S)), NEW tail \in Seq(S), NEW k \in 0..(Len(groups) - 1)
    PROVE  GroupStands(groups, tail, k)
<1> DEFINE before == Flat(groups)[k]
           group == groups[k + 1]
           upto == Flat(groups)[k + 1]
           all == Flat(groups)[Len(groups)]
           tokens == Grouped(groups, tail)
<1>1. /\ before \in Seq(S) /\ group \in Seq(S) /\ upto \in Seq(S) /\ all \in Seq(S)
      /\ upto = before \o group /\ tokens = all \o tail
  <2>1. k + 1 \in 1..Len(groups) /\ (k + 1) - 1 = k /\ k \in 0..Len(groups) /\ k + 1 \in 0..Len(groups)
        /\ Len(groups) \in 0..Len(groups)
    OBVIOUS
  <2>2. group \in Seq(S)
    BY <2>1
  <2>3. upto = Flat(groups)[(k + 1) - 1] \o groups[k + 1]
    BY <2>1, FlatSteps
  <2> QED
    BY <2>1, <2>2, <2>3, FlatSteps, Zenon DEF Grouped
<1>2. Begins(S, upto, all)
  <2>1. ASSUME NEW i \in 1..Len(groups) PROVE Begins(S, Flat(groups)[i - 1], Flat(groups)[i])
    <3>1. groups[i] \in Seq(S)
      OBVIOUS
    <3>2. Flat(groups)[i] = Flat(groups)[i - 1] \o groups[i]
      BY FlatSteps, Zenon
    <3> QED
      BY <3>1, <3>2, Zenon DEF Begins
  <2>2. \A i \in 0..Len(groups) : Flat(groups)[i] \in Seq(S)
    BY FlatSteps
  <2> DEFINE f == Flat(groups)
             n == Len(groups)
  <2>3. n \in Nat /\ k + 1 \in 0..n
    OBVIOUS
  <2>4. \A i \in 0..n : Begins(S, f[i], f[n])
    <3> HIDE DEF f, n, all
    <3>1. /\ \A i \in 0..n : f[i] \in Seq(S)
          /\ \A i \in 1..n : Begins(S, f[i - 1], f[i])
      BY <2>1, <2>2, Zenon DEF f, n
    <3> QED
      BY <2>3, <3>1, PartsBegin
  <2> QED
    BY <2>3, <2>4, Zenon
<1> HIDE DEF before, group, upto, all, tokens
<1>3. Begins(S, upto, tokens)
  <2>1. Begins(S, all, tokens) /\ upto \in Seq(S)
    BY <1>1, Zenon DEF Begins
  <2> QED
    BY <1>2, <2>1, BeginsTransitive
<1>4. PICK more \in Seq(S) : tokens = upto \o more
  BY <1>3, Zenon DEF Begins
<1>5. /\ Len(before) \in Nat /\ Len(group) \in Nat /\ Len(upto) = Len(before) + Len(group)
      /\ \A j \in 1..Len(group) : upto[Len(before) + j] = group[j]
  BY <1>1, ConcatProperties
<1>6. /\ Len(more) \in Nat /\ Len(tokens) = Len(upto) + Len(more)
      /\ \A i \in 1..Len(upto) : tokens[i] = upto[i]
      /\ DOMAIN tokens = 1..Len(tokens)
  <2>1. upto \in Seq(S)
    BY <1>1
  <2> QED
    BY <1>4, <2>1, ConcatParts
<1>7. ASSUME NEW j \in 1..Len(group)
      PROVE  Len(before) + j \in DOMAIN tokens /\ tokens[Len(before) + j] = group[j]
  <2>1. Len(before) + j \in 1..Len(upto) /\ Len(before) + j \in 1..Len(tokens)
    BY <1>5, <1>6
  <2> QED
    BY <1>5, <1>6, <2>1
<1>8. ASSUME k + 1 = Len(groups), tail = <<>> PROVE Len(tokens) = Len(before) + Len(group)
  <2>1. upto = all
    BY <1>8 DEF upto, all
  <2>2. tokens = all \o <<>>
    BY <1>1, <1>8, Zenon
  <2>3. all \o <<>> = all
    BY <1>1, ConcatEmptySeq, Zenon
  <2> QED
    BY <1>5, <2>1, <2>2, <2>3
<1>9. Len(before) \in Nat /\ Len(group) \in Nat /\ Len(tokens) \in Nat
  BY <1>5, <1>6
<1> QED
  BY <1>5, <1>7, <1>8, <1>9, Zenon DEF before, group, upto, tokens, GroupStands

LEMMA TailAt ==
    ASSUME NEW S, NEW groups \in Seq(Seq(S)), NEW tail \in Seq(S)
    PROVE  LET n == Len(Flat(groups)[Len(groups)])
               tokens == Grouped(groups, tail)
           IN  /\ n \in Nat /\ tokens \in Seq(S) /\ Len(tokens) = n + Len(tail)
               /\ \A j \in 1..Len(tail) : tokens[n + j] = tail[j]
               /\ tail # <<>> => SubSeq(tokens, n + 2, Len(tokens)) = Tail(tail)
<1> DEFINE all == Flat(groups)[Len(groups)]
           n == Len(all)
           tokens == Grouped(groups, tail)
<1>1. all \in Seq(S) /\ tokens = all \o tail
  <2>1. Len(groups) \in 0..Len(groups)
    OBVIOUS
  <2> QED
    BY <2>1, FlatSteps, Zenon DEF Grouped
<1> HIDE DEF all, tokens
<1>2. /\ n \in Nat /\ Len(tail) \in Nat /\ tokens \in Seq(S) /\ Len(tokens) = n + Len(tail)
      /\ \A j \in 1..Len(tail) : tokens[n + j] = tail[j]
  BY <1>1, ConcatProperties
<1>3. ASSUME tail # <<>> PROVE SubSeq(tokens, n + 2, Len(tokens)) = Tail(tail)
  <2> DEFINE a == SubSeq(tokens, n + 2, Len(tokens))
             b == Tail(tail)
  <2>1. b \in Seq(S) /\ Len(b) = Len(tail) - 1 /\ \A i \in 1..Len(b) : b[i] = tail[i + 1]
    BY <1>3
  <2>2. a \in Seq(S) /\ Len(a) = Len(tokens) - n - 1 /\ \A i \in 1..Len(a) : a[i] = tokens[n + 1 + i]
    <3>1. n + 2 \in 1..(Len(tokens) + 1)
      BY <1>2, <1>3
    <3>2. tokens \in Seq(S) /\ n \in Nat
      BY <1>2
    <3> DEFINE m == n + 2
    <3> HIDE DEF n, m
    <3>3. /\ a \in Seq(S) /\ Len(a) = Len(tokens) - m + 1
          /\ \A i \in 1..Len(a) : a[i] = tokens[m + i - 1]
      <4>1. m \in 1..(Len(tokens) + 1) /\ a = SubSeq(tokens, m, Len(tokens))
        BY <3>1 DEF m
      <4> HIDE DEF a
      <4> QED
        BY <3>2, <4>1, FromOn
    <3> HIDE DEF a
    <3>4. Len(a) = Len(tokens) - n - 1 /\ Len(a) \in Nat /\ \A i \in 1..Len(a) : m + i - 1 = n + 1 + i
      BY <3>2, <3>3, LenProperties DEF m
    <3> QED
      BY <3>3, <3>4
  <2>3. Len(a) = Len(b)
    BY <1>2, <2>1, <2>2
  <2>4. ASSUME NEW i \in 1..Len(a) PROVE a[i] = b[i]
    <3>1. a[i] = tokens[n + 1 + i] /\ b[i] = tail[i + 1] /\ i + 1 \in 1..Len(tail)
      BY <1>2, <2>1, <2>2, <2>3
    <3>2. n + (i + 1) = n + 1 + i
      BY <1>2
    <3> QED
      BY <1>2, <3>1, <3>2
  <2> HIDE DEF a, b
  <2>5. a = b
    BY <2>1, <2>2, <2>3, <2>4, SeqEqual
  <2> QED
    BY <2>5 DEF a, b
<1> QED
  BY <1>1, <1>2, <1>3 DEF all, tokens

-----------------------------------------------------------------------------
\* What the option loops of `run` and `replay run` have read.

LEMMA LineTypes ==
    ASSUME NEW l \in Lines
    PROVE  /\ l.groups \in Seq(Seq(DOMAIN Chars)) /\ l.tail \in Seq(DOMAIN Chars)
           /\ l.verb \in Seq(DOMAIN Chars) /\ FlattenSeq(l.groups) \in Seq(DOMAIN Chars)
<1>1. /\ l.groups \in Seq(Seq(DOMAIN Chars)) /\ l.tail \in Seq(DOMAIN Chars)
      /\ l.verb \in Seq(DOMAIN Chars)
  BY CommandsAssumption DEF CommandsAssumption
<1>2. Len(l.groups) \in 0..Len(l.groups)
  BY <1>1
<1>3. FlattenSeq(l.groups) \in Seq(DOMAIN Chars)
  BY <1>1, <1>2, FlatSteps, Zenon
<1> QED
  BY <1>1, <1>3

LEMMA TailOfConcat ==
    ASSUME NEW S, NEW x \in S, NEW a \in Seq(S), NEW b \in Seq(S)
    PROVE  Tail((<<x>> \o a) \o b) = a \o b
<1> DEFINE front == <<x>> \o a
           whole == front \o b
           short == a \o b
           tail == Tail(whole)
<1>1. <<x>> \in Seq(S) /\ Len(<<x>>) = 1
  OBVIOUS
<1>2. /\ front \in Seq(S) /\ Len(front) = 1 + Len(a) /\ Len(a) \in Nat
      /\ \A i \in 1..Len(a) : front[1 + i] = a[i]
  BY <1>1, ConcatParts
<1> HIDE DEF front
<1>3. /\ whole \in Seq(S) /\ Len(whole) = Len(front) + Len(b) /\ Len(b) \in Nat
      /\ \A i \in 1..Len(front) : whole[i] = front[i]
      /\ \A i \in 1..Len(b) : whole[Len(front) + i] = b[i]
  <2>1. front \in Seq(S)
    BY <1>2
  <2> QED
    BY <2>1, ConcatParts
<1>4. /\ short \in Seq(S) /\ Len(short) = Len(a) + Len(b)
      /\ \A i \in 1..Len(a) : short[i] = a[i]
      /\ \A i \in 1..Len(b) : short[Len(a) + i] = b[i]
  BY ConcatParts
<1> HIDE DEF whole, short
<1>5. tail \in Seq(S) /\ Len(tail) = Len(whole) - 1 /\ \A i \in 1..Len(tail) : tail[i] = whole[i + 1]
  <2>1. whole \in Seq(S) /\ whole # <<>>
    BY <1>2, <1>3
  <2> QED
    BY <2>1, HeadTailProperties
<1> HIDE DEF tail
<1>6. Len(tail) = Len(short)
  BY <1>2, <1>3, <1>4, <1>5
<1>7. ASSUME NEW i \in 1..Len(tail) PROVE tail[i] = short[i]
  <2>1. tail[i] = whole[i + 1]
    BY <1>5
  <2>2. CASE i <= Len(a)
    <3>1. i \in 1..Len(a) /\ i + 1 = 1 + i /\ i + 1 \in 1..Len(front)
      BY <1>2, <2>2
    <3> QED
      BY <1>2, <1>3, <1>4, <2>1, <3>1
  <2>3. CASE ~(i <= Len(a))
    <3> DEFINE j == i - Len(a)
    <3>1. j \in 1..Len(b) /\ i + 1 = Len(front) + j /\ i = Len(a) + j
      BY <1>2, <1>3, <1>5, <2>3
    <3> HIDE DEF j
    <3> QED
      BY <1>3, <1>4, <2>1, <3>1
  <2> QED
    BY <2>2, <2>3
<1>8. tail = short
  BY <1>4, <1>5, <1>6, <1>7, SeqEqual
<1> QED
  BY <1>8 DEF tail, short, whole, front

\* `run`, or nothing, is all that stands before its groups.
LEMMA RunLineRest ==
    ASSUME NEW l \in Lines, Dispatch(TokensOf(l)).command = <<"run">>
    PROVE  IsLineOf(l, <<"run">>) /\ Dispatch(TokensOf(l)).rest = Grouped(l.groups, l.tail)
<1> DEFINE argv == TokensOf(l)
           all == FlattenSeq(l.groups)
           two == SubSeq(argv, 1, 2)
<1>1. IsLineOf(l, <<"run">>)
  <2>1. <<"run">> \in DOMAIN Flags
    BY DEF Flags
  <2> QED
    BY <2>1, CommandsAssumption, Zenon DEF CommandsAssumption
<1>2. argv \in Seq(DOMAIN Chars) /\ all \in Seq(DOMAIN Chars)
  <2>1. l.verb \o all \in Seq(DOMAIN Chars)
    BY LineTypes, ConcatProperties, Zenon
  <2> QED
    BY <2>1, LineTypes, ConcatProperties, Zenon DEF TokensOf
<1>3. ASSUME Len(argv) > 1 PROVE Len(two) = 2
  BY <1>2, <1>3
<1>4. <<"print">> # <<"run">> /\ <<"unknown">> # <<"run">> /\ Len(<<"run">>) = 1
  OBVIOUS
<1>5. ASSUME Len(argv) > 1 PROVE two # <<"run">>
  BY <1>3, <1>4, <1>5
<1> HIDE DEF argv, all, two
<1>6. \/ argv[1] = "run" /\ Dispatch(argv).rest = Tail(argv)
      \/ argv[1] # "run" /\ Dispatch(argv).rest = argv
  <2>1. Dispatch(argv).command = <<"run">>
    BY DEF argv
  <2>2. CASE \/ argv = <<>> \/ argv = <<"version">>
             \/ argv[1] \in {"help", "--help", "-h", "--version", "-v"}
    BY <1>4, <2>1, <2>2 DEF Dispatch
  <2>3. CASE /\ ~(\/ argv = <<>> \/ argv = <<"version">>
                  \/ argv[1] \in {"help", "--help", "-h", "--version", "-v"})
             /\ argv[1] \in {"validate", "report", "run"}
    BY <2>1, <2>3 DEF Dispatch
  <2>4. CASE /\ ~(\/ argv = <<>> \/ argv = <<"version">>
                  \/ argv[1] \in {"help", "--help", "-h", "--version", "-v"})
             /\ argv[1] \notin {"validate", "report", "run"}
    BY <1>4, <1>5, <2>1, <2>4 DEF Dispatch, two
  <2> QED
    BY <2>2, <2>3, <2>4
<1>7. l.verb = IF argv[1] = "run" THEN <<"run">> ELSE <<>>
  BY <1>1 DEF IsLineOf, argv
<1>8. argv = (l.verb \o all) \o l.tail /\ Grouped(l.groups, l.tail) = all \o l.tail
  BY Zenon DEF argv, all, TokensOf, Grouped
<1>9. CASE argv[1] = "run"
  <2>1. l.verb = <<"run">> /\ l.verb \in Seq(DOMAIN Chars) /\ l.tail \in Seq(DOMAIN Chars)
    BY <1>7, <1>9, LineTypes
  <2>2. "run" \in DOMAIN Chars
    BY <2>1
  <2>3. Tail((<<"run">> \o all) \o l.tail) = all \o l.tail
    <3>1. /\ all \in Seq(DOMAIN Chars) /\ l.tail \in Seq(DOMAIN Chars)
          /\ "run" \in DOMAIN Chars
      BY <1>2, <2>1, <2>2
    <3>2. ASSUME NEW x \in DOMAIN Chars, NEW a \in Seq(DOMAIN Chars), NEW b \in Seq(DOMAIN Chars)
          PROVE  Tail((<<x>> \o a) \o b) = a \o b
      BY TailOfConcat, Zenon
    <3> QED
      BY <3>1, <3>2, Zenon
  <2>4. Dispatch(argv).rest = Tail(argv)
    BY <1>6, <1>9
  <2> QED
    BY <1>1, <1>8, <2>1, <2>3, <2>4, Zenon DEF argv
<1>10. CASE argv[1] # "run"
  <2>1. l.verb = <<>> /\ Dispatch(argv).rest = argv
    BY <1>6, <1>7, <1>10
  <2>2. <<>> \o all = all
    BY <1>2, ConcatEmptySeq, Zenon
  <2> QED
    BY <1>1, <1>8, <2>1, <2>2, Zenon DEF argv
<1> QED
  BY <1>9, <1>10

LEMMA BehindTwo ==
    ASSUME NEW S, NEW v \in Seq(S), Len(v) = 2, NEW a \in Seq(S), NEW b \in Seq(S)
    PROVE  SubSeq((v \o a) \o b, 3, Len((v \o a) \o b)) = a \o b
<1> DEFINE front == v \o a
           whole == front \o b
           short == a \o b
           part == SubSeq(whole, 3, Len(whole))
<1>1. /\ front \in Seq(S) /\ Len(front) = 2 + Len(a) /\ Len(a) \in Nat
      /\ \A i \in 1..Len(a) : front[2 + i] = a[i]
  <2>1. v \in Seq(S) /\ a \in Seq(S)
    OBVIOUS
  <2>2. \A x, y \in Seq(S) : Len(x \o y) = Len(x) + Len(y) /\ x \o y \in Seq(S)
    BY ConcatParts
  <2>3. \A x, y \in Seq(S) : \A i \in 1..Len(y) : (x \o y)[Len(x) + i] = y[i]
    BY ConcatParts
  <2>4. front \in Seq(S) /\ Len(front) = Len(v) + Len(a)
    BY <2>1, <2>2, Zenon
  <2>5. \A i \in 1..Len(a) : front[Len(v) + i] = a[i]
    BY <2>1, <2>3, Zenon
  <2>6. Len(a) \in Nat
    OBVIOUS
  <2> HIDE DEF front
  <2> QED
    BY <2>4, <2>5, <2>6
<1> HIDE DEF front
<1>2. /\ whole \in Seq(S) /\ Len(whole) = Len(front) + Len(b) /\ Len(b) \in Nat
      /\ \A i \in 1..Len(front) : whole[i] = front[i]
      /\ \A i \in 1..Len(b) : whole[Len(front) + i] = b[i]
  <2>1. front \in Seq(S)
    BY <1>1
  <2> QED
    BY <2>1, ConcatParts
<1>3. /\ short \in Seq(S) /\ Len(short) = Len(a) + Len(b)
      /\ \A i \in 1..Len(a) : short[i] = a[i]
      /\ \A i \in 1..Len(b) : short[Len(a) + i] = b[i]
  BY ConcatParts
<1> HIDE DEF whole, short
<1>4. part \in Seq(S) /\ Len(part) = Len(whole) - 3 + 1 /\ \A i \in 1..Len(part) : part[i] = whole[3 + i - 1]
  <2>1. whole \in Seq(S) /\ 3 \in 1..(Len(whole) + 1)
    BY <1>1, <1>2
  <2> QED
    BY <2>1, FromOn
<1> HIDE DEF part
<1>5. Len(part) = Len(short) /\ Len(part) \in Nat
  BY <1>1, <1>2, <1>3, <1>4
<1>6. ASSUME NEW i \in 1..Len(part) PROVE part[i] = short[i]
  <2>1. part[i] = whole[2 + i]
    <3>1. 3 + i - 1 = 2 + i
      BY <1>5
    <3> QED
      BY <1>4, <3>1
  <2>2. CASE i <= Len(a)
    <3>1. i \in 1..Len(a) /\ 2 + i \in 1..Len(front)
      BY <1>1, <1>5, <2>2
    <3> QED
      BY <1>1, <1>2, <1>3, <2>1, <3>1
  <2>3. CASE ~(i <= Len(a))
    <3> DEFINE j == i - Len(a)
    <3>1. j \in 1..Len(b) /\ 2 + i = Len(front) + j /\ i = Len(a) + j
      BY <1>1, <1>2, <1>3, <1>5, <2>3
    <3> HIDE DEF j
    <3> QED
      BY <1>2, <1>3, <2>1, <3>1
  <2> QED
    BY <2>2, <2>3
<1>7. part = short
  BY <1>3, <1>4, <1>5, <1>6, SeqEqual
<1> QED
  BY <1>7 DEF part, short, whole, front

\* `replay run` is all that stands before its groups.
LEMMA ReplayLineRest ==
    ASSUME NEW l \in Lines, Dispatch(TokensOf(l)).command = <<"replay", "run">>
    PROVE  /\ IsLineOf(l, <<"replay", "run">>)
           /\ Dispatch(TokensOf(l)).rest = Grouped(l.groups, l.tail)
<1> DEFINE argv == TokensOf(l)
           all == FlattenSeq(l.groups)
<1>1. IsLineOf(l, <<"replay", "run">>)
  <2>1. <<"replay", "run">> \in DOMAIN Flags
    BY DEF Flags
  <2> QED
    BY <2>1, CommandsAssumption, Zenon DEF CommandsAssumption
<1>2. <<"replay", "run">> # <<"run">>
  OBVIOUS
<1>3. l.verb = <<"replay", "run">>
  BY <1>1, <1>2, Zenon DEF IsLineOf
<1>4. /\ l.verb \in Seq(DOMAIN Chars) /\ Len(l.verb) = 2 /\ all \in Seq(DOMAIN Chars)
      /\ l.tail \in Seq(DOMAIN Chars)
  BY <1>3, LineTypes
<1>5. argv = (l.verb \o all) \o l.tail /\ Grouped(l.groups, l.tail) = all \o l.tail
  BY Zenon DEF TokensOf, Grouped
<1> HIDE DEF argv, all
<1>6. Dispatch(argv).rest = SubSeq(argv, 3, Len(argv))
  <2>1. Dispatch(argv).command = <<"replay", "run">>
    BY DEF argv
  <2> DEFINE two == SubSeq(argv, 1, 2)
             behind == SubSeq(argv, 3, Len(argv))
             plain == argv = <<>> \/ argv = <<"version">>
             first == argv[1]
  <2>2. \A one : <<one>> # <<"replay", "run">>
    OBVIOUS
  <2>3. /\ Dispatch(argv).command = <<"replay", "run">> => Dispatch(argv).rest = behind
    <3>1. Dispatch(argv) =
            IF plain \/ first \in {"help", "--help", "-h", "--version", "-v"}
            THEN [command |-> <<"print">>, rest |-> <<>>]
            ELSE IF first \in {"validate", "report", "run"}
            THEN [command |-> <<first>>, rest |-> Tail(argv)]
            ELSE IF first = "--" \/ first \in DOMAIN RunFlags
            THEN [command |-> <<"run">>, rest |-> argv]
            ELSE IF first \in {"replay", "policy"} /\ Len(argv) > 1 /\ two \in DOMAIN Flags
            THEN [command |-> two, rest |-> behind]
            ELSE [command |-> <<"unknown">>, rest |-> <<>>]
      BY DEF Dispatch
    <3> HIDE DEF two, behind, plain, first
    <3> QED
      BY <2>2, <3>1
  <2> QED
    BY <2>1, <2>3
<1>7. SubSeq((l.verb \o all) \o l.tail, 3, Len((l.verb \o all) \o l.tail)) = all \o l.tail
  <2> DEFINE verb == l.verb
             tail == l.tail
  <2>1. /\ verb \in Seq(DOMAIN Chars) /\ Len(verb) = 2 /\ all \in Seq(DOMAIN Chars)
        /\ tail \in Seq(DOMAIN Chars)
    BY <1>4
  <2> HIDE DEF verb, tail
  <2>2. SubSeq((verb \o all) \o tail, 3, Len((verb \o all) \o tail)) = all \o tail
    BY <2>1, BehindTwo, Zenon
  <2> QED
    BY <2>2, Zenon DEF verb, tail
<1> QED
  BY <1>1, <1>5, <1>6, <1>7, Zenon DEF argv

\* What a flag was given among the first k groups.
FlagRead(flag, k) ==
    LET places == {i \in 1..k : line.groups[i][1] = flag}
    IN  IF places = {} THEN ~Given(flag)
        ELSE Given(flag) /\ Value(flag) = line.groups[Max(places)][2]

NumberFlags == {"--timeout-ms", "--max-attempts"}

OptionsRead(k) ==
    /\ command = <<"run">> => \A flag \in {"--http", "--identity"} \cup NumberFlags : FlagRead(flag, k)
    /\ command = <<"replay", "run">> => /\ Overrides = OverridesTo(k)
                                       /\ \A flag \in NumberFlags : ~Given(flag)

\* The option loop stands behind the k-th group of its line.
ReadTo(k) ==
    /\ line \in Lines /\ IsLineOf(line, command) /\ rest = Grouped(line.groups, line.tail)
    /\ k \in 0..Len(line.groups) /\ at = Len(Flat(line.groups)[k]) + 1 /\ OptionsRead(k)

\* The commands whose option loop this is about.
Followed == {<<"run">>, <<"replay", "run">>}

LineInv ==
    /\ pc = "prompt" => at = 1 /\ options = <<>>
    /\ pc = "start" => command = <<"run">>
    /\ pc = "replay" => command = <<"replay", "run">>
    /\ command \in Followed /\ pc = "parse" => \E k \in 0..Len(line.groups) : ReadTo(k)
    /\ command \in Followed /\ pc \in {"load", "open", "start", "act", "replay"} =>
          ReadTo(Len(line.groups)) /\ Complete

\* A server a session was started with, and a record that kept it.
IsTarget(target) ==
    \/ "url" \in DOMAIN target
    \/ target.words \in Seq(Seq(Characters)) \ {<<>>} /\ target = [words |-> target.words]

KeepsServer(r) ==
    /\ {"server", "origin"} \subseteq DOMAIN r
    /\ IsTarget(r.origin.target) /\ r.server = ServerCommandOf(r.origin.target)

ServerInv ==
    /\ pc = "session" => IsTarget(launched)
    /\ \A r \in dlq \cup todo : KeepsServer(r)
    /\ pc \notin {"replay", "prompt"} => current = {}
    /\ ServerAsTyped

LEMMA PutParts ==
    ASSUME NEW flag, NEW values
    PROVE  /\ DOMAIN Put(flag, values) = {flag} \cup DOMAIN options
           /\ \A f \in DOMAIN options \ {flag} : Put(flag, values)[f] = options[f]
           /\ flag # "--set" => Put(flag, values)[flag] = values
BY DEF Put

\* What a flag was given is what it was given last.
LEMMA FlagReadNext ==
    ASSUME NEW asked, asked # "--set", NEW k \in Nat, FlagRead(asked, k), line' = line,
           \/ options' = options /\ line.groups[k + 1][1] # asked
           \/ \E values : /\ options' = Put(line.groups[k + 1][1], values)
                          /\ line.groups[k + 1][1] = asked => values = <<line.groups[k + 1][2]>>
    PROVE  FlagRead(asked, k + 1)'
<1> DEFINE places == {i \in 1..k : line.groups[i][1] = asked}
           more == {i \in 1..(k + 1) : line.groups[i][1] = asked}
           flag == line.groups[k + 1][1]
<1>1. SUFFICES IF more = {} THEN ~(asked \in DOMAIN options')
               ELSE asked \in DOMAIN options' /\ options'[asked][1] = line.groups[Max(more)][2]
  BY DEF FlagRead, Given, Value
<1>2. IF places = {} THEN ~(asked \in DOMAIN options)
      ELSE asked \in DOMAIN options /\ options[asked][1] = line.groups[Max(places)][2]
  BY DEF FlagRead, Given, Value
<1>3. CASE flag # asked
  <2>1. more = places
    BY <1>3
  <2>2. /\ asked \in DOMAIN options' <=> asked \in DOMAIN options
        /\ asked \in DOMAIN options => options'[asked] = options[asked]
    <3>1. CASE options' = options
      BY <3>1
    <3>2. ASSUME NEW values, options' = Put(flag, values)
          PROVE  /\ asked \in DOMAIN options' <=> asked \in DOMAIN options
                 /\ asked \in DOMAIN options => options'[asked] = options[asked]
      <4> DEFINE next == Put(flag, values)
      <4> HIDE DEF flag
      <4>1. /\ DOMAIN next = {flag} \cup DOMAIN options
            /\ \A f \in DOMAIN options \ {flag} : next[f] = options[f]
            /\ flag # "--set" => next[flag] = values
        BY PutParts, Zenon
      <4> HIDE DEF next
      <4>2. /\ asked \in DOMAIN next <=> asked \in DOMAIN options
            /\ asked \in DOMAIN options => next[asked] = options[asked]
        BY <1>3, <4>1
      <4> QED
        BY <3>2, <4>2, Zenon DEF next
    <3> QED
      BY <3>1, <3>2, Zenon
  <2> HIDE DEF more, places
  <2> QED
    BY <1>2, <2>1, <2>2
<1>4. CASE flag = asked
  <2>1. k + 1 \in more /\ \A i \in more : k + 1 >= i
    BY <1>4
  <2>2. Max(more) = k + 1
    BY <2>1 DEF Max
  <2>3. PICK values : options' = Put(flag, values) /\ values = <<line.groups[k + 1][2]>>
    BY <1>4
  <2>4. asked \in DOMAIN options' /\ options'[asked] = values
    <3> DEFINE next == Put(asked, values)
    <3>1. /\ DOMAIN next = {asked} \cup DOMAIN options
          /\ \A f \in DOMAIN options \ {asked} : next[f] = options[f]
          /\ asked # "--set" => next[asked] = values
      BY PutParts, Zenon
    <3> HIDE DEF next
    <3>2. next[asked] = values
      BY <3>1
    <3> QED
      BY <1>4, <2>3, <3>1, <3>2, Zenon DEF next
  <2>5. values[1] = line.groups[k + 1][2]
    BY <2>3
  <2> HIDE DEF more
  <2> QED
    BY <2>1, <2>2, <2>4, <2>5
<1> QED
  BY <1>3, <1>4

\* What the pairs of the groups come to, one group further.
LEMMA OverridesNext ==
    ASSUME NEW k \in Nat
    PROVE  /\ line.groups[k + 1][1] # "--set" => OverridesTo(k + 1) = OverridesTo(k)
           /\ line.groups[k + 1][1] = "--set" =>
                 OverridesTo(k + 1)
                    = Over([key \in {PairAt(k + 1)[1]} |-> PairAt(k + 1)[2]], OverridesTo(k))
<1> DEFINE flag == line.groups[k + 1][1]
           x == PairAt(k + 1)
           Named(n, key) == {i \in Sets(n) : PairAt(i)[1] = key}
           Keys(n) == {PairAt(i)[1] : i \in Sets(n)}
           T(n, key) == PairAt(Max(Named(n, key)))[2]
           one == [key \in {x[1]} |-> x[2]]
<1>1. \A n : OverridesTo(n) = [key \in Keys(n) |-> T(n, key)]
  BY Zenon DEF OverridesTo
<1>2. CASE flag # "--set"
  <2>1. Sets(k + 1) = Sets(k)
    BY <1>2 DEF Sets
  <2>2. OverridesTo(k + 1) = OverridesTo(k)
    BY <2>1, Zenon DEF OverridesTo
  <2> QED
    BY <1>2, <2>2
<1>3. CASE flag = "--set"
  <2>1. Sets(k + 1) = Sets(k) \cup {k + 1} /\ Sets(k) \subseteq 1..k
    BY <1>3 DEF Sets
  <2>2. Keys(k + 1) = {x[1]} \cup Keys(k)
    <3> HIDE DEF x
    <3>1. \A key : key \in Keys(k + 1) <=> \E i \in Sets(k + 1) : key = PairAt(i)[1]
      OBVIOUS
    <3>2. \A key : key \in Keys(k) <=> \E i \in Sets(k) : key = PairAt(i)[1]
      OBVIOUS
    <3> HIDE DEF Keys
    <3> QED
      BY <2>1, <3>1, <3>2 DEF x
  <2>3. T(k + 1, x[1]) = x[2]
    <3>1. k + 1 \in Named(k + 1, x[1]) /\ \A i \in Named(k + 1, x[1]) : i \in Nat /\ k + 1 >= i
      BY <2>1
    <3> HIDE DEF Named
    <3>2. Max(Named(k + 1, x[1])) = k + 1
      BY <3>1 DEF Max
    <3> QED
      BY <3>2
  <2>4. ASSUME NEW key, key # x[1] PROVE T(k + 1, key) = T(k, key)
    <3>1. Named(k + 1, key) = Named(k, key)
      BY <2>1, <2>4
    <3> HIDE DEF Named
    <3> QED
      BY <3>1
  <2>5. /\ DOMAIN one = {x[1]} /\ (x[1] \in DOMAIN one => one[x[1]] = x[2])
        /\ \A key \in {x[1]} : one[key] = x[2]
    OBVIOUS
  <2> HIDE DEF Keys, T, one
  <2> DEFINE before == OverridesTo(k)
             after == OverridesTo(k + 1)
  <2>6. /\ before = [key \in Keys(k) |-> T(k, key)]
        /\ after = [key \in Keys(k + 1) |-> T(k + 1, key)]
    BY <1>1
  <2> HIDE DEF before, after, x
  <2>7. /\ DOMAIN before = Keys(k) /\ \A key \in Keys(k) : before[key] = T(k, key)
    BY <2>6
  <2>8. \A key \in Keys(k + 1) : T(k + 1, key) = IF key \in DOMAIN one THEN one[key] ELSE before[key]
    BY <2>2, <2>3, <2>4, <2>5, <2>7
  <2>9. DOMAIN one \cup DOMAIN before = Keys(k + 1)
    BY <2>2, <2>5, <2>7
  <2>10. after = Over(one, before)
    BY <2>6, <2>8, <2>9 DEF Over
  <2> QED
    BY <1>3, <2>10 DEF one, before, after, x
<1> QED
  BY <1>2, <1>3

\* What --set has collected is what the groups come to.
LEMMA SetReadNext ==
    ASSUME NEW k \in Nat, Overrides = OverridesTo(k), line' = line,
           \/ options' = options /\ line.groups[k + 1][1] # "--set"
           \/ \E flag, values : /\ options' = Put(flag, values)
                                /\ flag # "--set" /\ line.groups[k + 1][1] # "--set"
           \/ /\ options' = Put("--set", <<line.groups[k + 1][2]>>)
              /\ line.groups[k + 1][1] = "--set"
    PROVE  Overrides' = OverridesTo(k + 1)'
<1>1. OverridesTo(k + 1)' = OverridesTo(k + 1)
  BY DEF OverridesTo, Sets, PairAt
<1>2. SUFFICES (IF "--set" \in DOMAIN options' THEN options'["--set"] ELSE <<>>) = OverridesTo(k + 1)
  BY <1>1 DEF Overrides, Given
<1>3. Overrides = IF "--set" \in DOMAIN options THEN options["--set"] ELSE <<>>
  BY DEF Overrides, Given
<1>4. CASE options' = options /\ line.groups[k + 1][1] # "--set"
  BY <1>3, <1>4, OverridesNext
<1>5. ASSUME NEW other, NEW read, options' = Put(other, read), other # "--set", line.groups[k + 1][1] # "--set"
      PROVE  (IF "--set" \in DOMAIN options' THEN options'["--set"] ELSE <<>>) = OverridesTo(k + 1)
  <2> DEFINE next == Put(other, read)
  <2>1. /\ DOMAIN next = {other} \cup DOMAIN options
        /\ \A f \in DOMAIN options \ {other} : next[f] = options[f]
        /\ other # "--set" => next[other] = read
    BY PutParts, Zenon
  <2> HIDE DEF next
  <2>2. (IF "--set" \in DOMAIN next THEN next["--set"] ELSE <<>>) = Overrides
    BY <1>3, <1>5, <2>1
  <2>3. options' = next
    BY <1>5 DEF next
  <2>4. OverridesTo(k + 1) = OverridesTo(k)
    BY <1>5, OverridesNext
  <2> QED
    BY <2>2, <2>3, <2>4
<1>6. ASSUME options' = Put("--set", <<line.groups[k + 1][2]>>), line.groups[k + 1][1] = "--set"
      PROVE  (IF "--set" \in DOMAIN options' THEN options'["--set"] ELSE <<>>) = OverridesTo(k + 1)
  <2> DEFINE next == Put("--set", <<line.groups[k + 1][2]>>)
             pair == Pairs[line.groups[k + 1][2]]
             merged == Over([key \in {pair[1]} |-> pair[2]], Overrides)
  <2>1. "--set" \in DOMAIN next /\ next["--set"] = merged
    BY DEF Put
  <2>2. OverridesTo(k + 1) = merged
    BY <1>6, OverridesNext DEF PairAt
  <2> HIDE DEF next, merged
  <2>3. options' = next
    BY <1>6 DEF next
  <2> QED
    BY <2>1, <2>2, <2>3
<1> QED
  BY <1>4, <1>5, <1>6

\* The loop ends behind the last group, and before it stands at the flag of one.
LEMMA LoopAt ==
    ASSUME NEW k, ReadTo(k), command \in Followed
    PROVE  /\ Ended => k = Len(line.groups)
           /\ ~Ended =>
                LET group == line.groups[k + 1]
                IN  /\ k + 1 \in 0..Len(line.groups) /\ rest[at] = group[1] /\ at \in Nat
                    /\ ~IsFlag(rest[at]) \/ Flags[command][rest[at]] = "none" =>
                          at + 1 = Len(Flat(line.groups)[k + 1]) + 1
                    /\ IsFlag(rest[at]) /\ Flags[command][rest[at]] # "none" /\ HasValue =>
                          /\ at + 2 = Len(Flat(line.groups)[k + 1]) + 1
                          /\ rest[at + 1] = group[2]
<1> DEFINE n == Len(line.groups)
           group == line.groups[k + 1]
           before == Len(Flat(line.groups)[k])
<1>1. /\ line \in Lines /\ IsLineOf(line, command) /\ rest = Grouped(line.groups, line.tail)
      /\ k \in 0..n /\ at = before + 1 /\ n \in Nat
  BY LineTypes DEF ReadTo
<1>2. /\ line.groups \in Seq(Seq(DOMAIN Chars)) /\ line.tail \in Seq(DOMAIN Chars)
  BY <1>1, LineTypes
<1>3. ASSUME k # n
      PROVE  /\ k + 1 \in 1..n /\ Len(group) \in Nat /\ group # <<>>
             /\ command = <<"run">> => group[1] # "--"
             /\ IF group[1] \notin DOMAIN Flags[command] \/ Flags[command][group[1]] = "none"
                THEN Len(group) = 1
                ELSE Len(group) = 2 \/ (Len(group) = 1 /\ k + 1 = n /\ line.tail = <<>>)
  <2>1. k + 1 \in 1..n /\ k + 1 \in DOMAIN line.groups
    BY <1>1, <1>2, <1>3
  <2>2. group \in Seq(DOMAIN Chars)
    BY <1>2, <2>1
  <2> QED
    BY <1>1, <2>1, <2>2 DEF IsLineOf
<1>4. ASSUME k # n
      PROVE  /\ before \in Nat /\ Len(rest) \in Nat
             /\ Len(Flat(line.groups)[k + 1]) = before + Len(group)
             /\ \A j \in 1..Len(group) : before + j \in DOMAIN rest /\ rest[before + j] = group[j]
             /\ k + 1 = n /\ line.tail = <<>> => Len(rest) = before + Len(group)
  <2>1. k \in 0..(n - 1)
    BY <1>1, <1>4
  <2> DEFINE tokens == Grouped(line.groups, line.tail)
             gs == line.groups
             last == line.tail
  <2>2. gs \in Seq(Seq(DOMAIN Chars)) /\ last \in Seq(DOMAIN Chars) /\ k \in 0..(Len(gs) - 1)
    BY <1>2, <2>1
  <2> HIDE DEF gs, last
  <2>3. GroupStands(gs, last, k)
    BY <2>2, GroupAt, Zenon
  <2>4. rest = Grouped(gs, last)
    BY <1>1 DEF gs, last
  <2> QED
    BY <2>3, <2>4, Zenon DEF GroupStands, gs, last
<1>5. CASE k # n
  <2> HIDE DEF n, group, before
  <2>1. Len(group) >= 1 /\ 1 \in 1..Len(group)
    BY <1>3, <1>5
  <2>2. at \in DOMAIN rest /\ rest[at] = group[1] /\ at \in Nat
    BY <1>1, <1>4, <1>5, <2>1
  <2>3. ~Ended
    BY <1>3, <1>5, <2>2 DEF Ended
  <2>4. ASSUME ~IsFlag(rest[at]) \/ Flags[command][rest[at]] = "none"
        PROVE  at + 1 = Len(Flat(line.groups)[k + 1]) + 1
    <3>1. Len(group) = 1
      BY <1>3, <1>5, <2>2, <2>4 DEF IsFlag
    <3> QED
      BY <1>1, <1>4, <1>5, <3>1
  <2>5. ASSUME IsFlag(rest[at]), Flags[command][rest[at]] # "none", HasValue
        PROVE  at + 2 = Len(Flat(line.groups)[k + 1]) + 1 /\ rest[at + 1] = group[2]
    <3>1. Len(group) = 2 \/ (Len(group) = 1 /\ k + 1 = n /\ line.tail = <<>>)
      BY <1>3, <1>5, <2>2, <2>5 DEF IsFlag
    <3>2. at < Len(rest)
      BY <2>5 DEF HasValue
    <3>3. Len(group) = 2
      BY <1>1, <1>4, <1>5, <3>1, <3>2
    <3> QED
      BY <1>1, <1>4, <1>5, <3>3
  <2>6. k + 1 \in 0..n
    BY <1>1, <1>3, <1>5
  <2> QED
    BY <2>2, <2>3, <2>4, <2>5, <2>6, Zenon DEF n, group
<1>6. CASE k = n
  <2> DEFINE gs == line.groups
             last == line.tail
             end == Len(Flat(gs)[Len(gs)])
  <2>1. gs \in Seq(Seq(DOMAIN Chars)) /\ last \in Seq(DOMAIN Chars)
    BY <1>2
  <2>2. rest = Grouped(gs, last) /\ at = end + 1 
        /\ (last # <<>> => command = <<"run">> /\ last[1] = "--")
    BY <1>1, <1>6 DEF IsLineOf
  <2> HIDE DEF gs, last
  <2>3. /\ end \in Nat /\ Len(Grouped(gs, last)) = end + Len(last)
        /\ \A j \in 1..Len(last) : Grouped(gs, last)[end + j] = last[j]
        /\ Grouped(gs, last) \in Seq(DOMAIN Chars)
    BY <2>1, TailAt
  <2> HIDE DEF end
  <2>4. ASSUME at \in DOMAIN rest PROVE command = <<"run">> /\ rest[at] = "--"
    <3>1. at \in 1..(end + Len(last)) /\ Len(last) \in Nat
      BY <2>1, <2>2, <2>3, <2>4
    <3>2. 1 \in 1..Len(last) /\ last # <<>>
      BY <2>1, <2>2, <2>3, <3>1
    <3> QED
      BY <2>2, <2>3, <3>2
  <2>5. Ended
    BY <2>4 DEF Ended
  <2> QED
    BY <1>6, <2>5
<1> QED
  BY <1>5, <1>6

LEMMA KindsOfFlags ==
    /\ \A flag \in {"--http", "--identity"} \cup NumberFlags : flag # "--set" /\ Flags[<<"run">>][flag] # "none"
    /\ Flags[<<"replay", "run">>]["--set"] = "pair"
    /\ \A flag \in NumberFlags : flag \notin DOMAIN Flags[<<"replay", "run">>] /\ flag # "id"
<1>1. \A flag \in {"--http", "--identity"} \cup NumberFlags : flag # "--set" /\ Flags[<<"run">>][flag] # "none"
  <2>1. Flags[<<"run">>] = RunFlags
    BY DEF Flags
  <2> QED
    BY <2>1 DEF RunFlags, NumberFlags
<1>2. Flags[<<"replay", "run">>] = RedriveFlags
  BY DEF Flags
<1>3. RedriveFlags["--set"] = "pair"
  BY DEF RedriveFlags, Over
<1>4. \A flag \in NumberFlags : flag \notin DOMAIN RedriveFlags /\ flag # "id"
  BY DEF RedriveFlags, FilterFlags, Over, NumberFlags
<1> QED
  BY <1>1, <1>2, <1>3, <1>4

\* A flag of another command is not read.
LEMMA NotRead ==
    ASSUME NEW flag, NEW values, \A f \in NumberFlags : ~Given(f) /\ f # flag, options' = Put(flag, values)
    PROVE  \A f \in NumberFlags : ~Given(f)'
<1>1. DOMAIN options' = {flag} \cup DOMAIN options
  BY PutParts, Zenon
<1> QED
  BY <1>1 DEF Given

LEMMA ReadStep ==
    ASSUME LineInv, command \in Followed, ReadSwitch \/ ReadOption \/ ReadId
    PROVE  \E k \in 0..Len(line'.groups) : ReadTo(k)'
<1>1. pc = "parse" /\ ~Ended /\ UNCHANGED <<line, command, rest, pc>>
  BY DEF ReadSwitch, ReadOption, ReadId, Read
<1>2. PICK k \in 0..Len(line.groups) : ReadTo(k)
  BY <1>1 DEF LineInv
<1> DEFINE group == line.groups[k + 1]
<1>3. /\ k + 1 \in 0..Len(line.groups) /\ rest[at] = group[1]
      /\ ~IsFlag(rest[at]) \/ Flags[command][rest[at]] = "none" =>
            at + 1 = Len(Flat(line.groups)[k + 1]) + 1
      /\ IsFlag(rest[at]) /\ Flags[command][rest[at]] # "none" /\ HasValue =>
            at + 2 = Len(Flat(line.groups)[k + 1]) + 1 /\ rest[at + 1] = group[2]
  BY <1>1, <1>2, LoopAt, Zenon
<1>4. k \in Nat /\ OptionsRead(k) /\ line' = line /\ command' = command
  BY <1>1, <1>2, LineTypes DEF ReadTo
<1>5. /\ line \in Lines /\ IsLineOf(line, command) /\ rest = Grouped(line.groups, line.tail)
  BY <1>2 DEF ReadTo
<1> HIDE DEF group
<1>6. ASSUME OptionsRead(k + 1)', at' = Len(Flat(line.groups)[k + 1]) + 1
      PROVE  \E n \in 0..Len(line'.groups) : ReadTo(n)'
  BY <1>1, <1>3, <1>5, <1>6, Zenon DEF ReadTo
<1>7. CASE ReadSwitch
  <2>1. /\ IsFlag(rest[at]) /\ Flags[command][rest[at]] = "none"
        /\ options' = Put(group[1], <<>>) /\ at' = at + 1
    BY <1>3, <1>7, Zenon DEF ReadSwitch, Read
  <2>2. ASSUME command = <<"run">>, NEW flag \in {"--http", "--identity"} \cup NumberFlags PROVE FlagRead(flag, k + 1)'
    <3>1. group[1] # flag /\ flag # "--set"
      BY <1>3, <2>1, <2>2, KindsOfFlags
    <3>2. FlagRead(flag, k)
      BY <1>4, <2>2 DEF OptionsRead
    <3>3. \E values : /\ options' = Put(group[1], values)
                      /\ group[1] = flag => values = <<group[2]>>
      BY <2>1, <3>1, Zenon
    <3> QED
      BY <1>4, <3>1, <3>2, <3>3, FlagReadNext DEF group
  <2>3. ASSUME command = <<"replay", "run">> PROVE (Overrides = OverridesTo(k + 1))'
    <3>1. group[1] # "--set"
      BY <1>3, <2>1, <2>3, KindsOfFlags
    <3>2. Overrides = OverridesTo(k)
      BY <1>4, <2>3 DEF OptionsRead
    <3>3. \E flag, values : options' = Put(flag, values) /\ flag # "--set" /\ group[1] # "--set"
      BY <2>1, <3>1, Zenon
    <3> QED
      BY <1>4, <3>2, <3>3, SetReadNext DEF group
  <2>4. ASSUME command = <<"replay", "run">> PROVE \A flag \in NumberFlags : ~Given(flag)'
    <3>1. group[1] \in DOMAIN Flags[<<"replay", "run">>]
      BY <1>3, <2>1, <2>4 DEF IsFlag
    <3> QED
      BY <1>4, <2>1, <2>4, <3>1, KindsOfFlags, NotRead DEF OptionsRead
  <2>5. OptionsRead(k + 1)'
    BY <1>4, <2>2, <2>3, <2>4, Zenon DEF OptionsRead
  <2> QED
    BY <1>3, <1>6, <2>1, <2>5, Zenon
<1>8. CASE ReadOption
  <2>1. /\ IsFlag(rest[at]) /\ Flags[command][rest[at]] # "none" /\ HasValue
        /\ options' = Put(group[1], <<rest[at + 1]>>) /\ at' = at + 2
    BY <1>3, <1>8, Zenon DEF ReadOption, Read
  <2>2. rest[at + 1] = group[2] /\ at' = Len(Flat(line.groups)[k + 1]) + 1
    BY <1>3, <2>1, Zenon
  <2>3. ASSUME command = <<"run">>, NEW flag \in {"--http", "--identity"} \cup NumberFlags PROVE FlagRead(flag, k + 1)'
    <3>1. FlagRead(flag, k) /\ flag # "--set"
      BY <1>4, <2>3, KindsOfFlags DEF OptionsRead
    <3>2. \E values : /\ options' = Put(group[1], values)
                      /\ group[1] = flag => values = <<group[2]>>
      BY <2>1, <2>2, Zenon
    <3> QED
      BY <1>4, <3>1, <3>2, FlagReadNext DEF group
  <2>4. ASSUME command = <<"replay", "run">> PROVE (Overrides = OverridesTo(k + 1))'
    <3>1. Overrides = OverridesTo(k)
      BY <1>4, <2>4 DEF OptionsRead
    <3>2. \/ \E flag, values : options' = Put(flag, values) /\ flag # "--set" /\ group[1] # "--set"
          \/ options' = Put("--set", <<group[2]>>) /\ group[1] = "--set"
      BY <2>1, <2>2, Zenon
    <3> QED
      BY <1>4, <3>1, <3>2, SetReadNext DEF group
  <2>5. ASSUME command = <<"replay", "run">> PROVE \A flag \in NumberFlags : ~Given(flag)'
    <3>1. group[1] \in DOMAIN Flags[<<"replay", "run">>]
      BY <1>3, <2>1, <2>5 DEF IsFlag
    <3> QED
      BY <1>4, <2>1, <2>5, <3>1, KindsOfFlags, NotRead DEF OptionsRead
  <2>6. OptionsRead(k + 1)'
    BY <1>4, <2>3, <2>4, <2>5, Zenon DEF OptionsRead
  <2> QED
    BY <1>6, <2>2, <2>6, Zenon
<1>9. CASE ReadId
  <2>1. /\ ~IsFlag(rest[at]) /\ at' = at + 1 /\ command # <<"run">>
        /\ options' = options \/ \E values : options' = Put("id", values)
    BY <1>9 DEF ReadId, IsId, Read
  <2>2. "--set" \in DOMAIN Flags[<<"replay", "run">>]
    BY DEF Flags, RedriveFlags, Over
  <2>3. ASSUME command = <<"replay", "run">> PROVE (Overrides = OverridesTo(k + 1))'
    <3>1. group[1] # "--set"
      BY <1>3, <2>1, <2>2, <2>3 DEF IsFlag
    <3>2. Overrides = OverridesTo(k)
      BY <1>4, <2>3 DEF OptionsRead
    <3>3. \/ options' = options /\ group[1] # "--set"
          \/ \E flag, values : options' = Put(flag, values) /\ flag # "--set" /\ group[1] # "--set"
      <4>1. "id" # "--set"
        OBVIOUS
      <4> QED
        BY <2>1, <3>1, <4>1, Zenon
    <3> QED
      BY <1>4, <3>2, <3>3, SetReadNext DEF group
  <2>4. ASSUME command = <<"replay", "run">> PROVE \A flag \in NumberFlags : ~Given(flag)'
    <3>1. \A flag \in NumberFlags : ~Given(flag) /\ flag # "id"
      BY <1>4, <2>4, KindsOfFlags DEF OptionsRead
    <3>2. CASE options' = options
      BY <3>1, <3>2 DEF Given
    <3> QED
      BY <2>1, <3>1, <3>2, NotRead
  <2>5. OptionsRead(k + 1)'
    BY <1>4, <2>1, <2>3, <2>4, Zenon DEF OptionsRead
  <2> QED
    BY <1>3, <1>6, <2>1, <2>5, Zenon
<1> QED
  BY <1>7, <1>8, <1>9

\* What has been read stays read.
LEMMA SameRead ==
    ASSUME UNCHANGED <<line, command, rest, at, options>>
    PROVE  /\ \A k : ReadTo(k) => ReadTo(k)'
           /\ Complete => Complete'
<1>1. ASSUME NEW k, OptionsRead(k) PROVE OptionsRead(k)'
  <2>1. \A flag : /\ FlagRead(flag, k)' = FlagRead(flag, k)
                  /\ Given(flag)' = Given(flag)
    BY DEF FlagRead, Given, Value
  <2>2. Overrides' = Overrides
    BY DEF Overrides, Given
  <2>3. OverridesTo(k)' = OverridesTo(k)
    BY DEF OverridesTo, Sets, PairAt
  <2> QED
    BY <1>1, <2>1, <2>2, <2>3 DEF OptionsRead
<1>2. ASSUME NEW k, ReadTo(k) PROVE ReadTo(k)'
  BY <1>1, <1>2 DEF ReadTo
<1>3. Complete => Complete'
  BY DEF Complete, Given
<1> QED
  BY <1>2, <1>3

LEMMA EndOptionsStep ==
    ASSUME LineInv, command \in Followed, EndOptions, pc' = "load"
    PROVE  (ReadTo(Len(line.groups)) /\ Complete)'
<1>1. /\ pc = "parse" /\ Ended /\ Complete
      /\ UNCHANGED <<line, command, rest, at, options>>
  BY DEF EndOptions, Exit, Goto, parseVars
<1>2. PICK k \in 0..Len(line.groups) : ReadTo(k)
  BY <1>1 DEF LineInv
<1>3. k = Len(line.groups)
  BY <1>1, <1>2, LoopAt, Zenon
<1>4. ReadTo(Len(line.groups))
  BY <1>2, <1>3
<1> QED
  BY <1>1, <1>4, SameRead

LEMMA LineStep == LineInv /\ [Next]_vars => LineInv'
<1> SUFFICES ASSUME LineInv, [Next]_vars PROVE LineInv'
  OBVIOUS
<1>1. ASSUME NEW l \in Lines, Type(l) PROVE LineInv'
  <2> DEFINE named == Dispatch(TokensOf(l))
  <2>1. pc = "prompt" /\ at = 1 /\ options = <<>> /\ line' = l
    BY <1>1 DEF LineInv, Type
  <2>2. CASE pc' = "prompt" /\ at' = 1 /\ options' = <<>>
    BY <2>2 DEF LineInv
  <2>3. CASE /\ pc' = "parse" /\ command' = named.command /\ rest' = named.rest
             /\ UNCHANGED <<at, options>>
    <3> SUFFICES ASSUME command' \in Followed
                 PROVE  \E k \in 0..Len(line'.groups) : ReadTo(k)'
      BY <2>3 DEF LineInv
    <3>1. IsLineOf(l, command') /\ rest' = Grouped(l.groups, l.tail)
      BY <2>3, RunLineRest, ReplayLineRest DEF Followed
    <3>2. 0 \in 0..Len(l.groups) /\ Len(Flat(l.groups)[0]) = 0
      <4>1. l.groups \in Seq(Seq(DOMAIN Chars))
        BY LineTypes
      <4>2. Flat(l.groups)[0] = <<>>
        BY <4>1, FlatSteps, Zenon
      <4> QED
        BY <4>1, <4>2
    <3>3. \A flag : FlagRead(flag, 0)' /\ ~Given(flag)'
      BY <2>1, <2>3 DEF FlagRead, Given
    <3>4. Overrides' = <<>>
      BY <2>1, <2>3 DEF Overrides, Given
    <3>5. OverridesTo(0)' = <<>>
      BY DEF OverridesTo, Sets
    <3>6. OptionsRead(0)'
      BY <3>3, <3>4, <3>5 DEF OptionsRead
    <3> QED
      BY <2>1, <2>3, <3>1, <3>2, <3>6 DEF ReadTo
  <2> QED
    BY <1>1, <2>2, <2>3, Zenon DEF Type, Exit, Goto
<1>2. CASE ReadSwitch \/ ReadOption \/ ReadId
  <2>1. pc' = "parse" /\ command' = command
    BY <1>2 DEF ReadSwitch, ReadOption, ReadId, Read
  <2> QED
    BY <1>2, <2>1, ReadStep DEF LineInv
<1>3. ASSUME pc' = "prompt", at' = 1, options' = <<>> PROVE LineInv'
  BY <1>3 DEF LineInv
<1>4. CASE Reject \/ EndSession \/ Query \/ EndReplay
  BY <1>3, <1>4, Zenon DEF Reject, EndSession, Query, EndReplay, Exit, Goto
<1>5. CASE EndOptions
  <2>1. CASE pc' = "load" /\ command' = command
    <3>1. ASSUME command \in Followed PROVE (ReadTo(Len(line.groups)) /\ Complete)'
      BY <1>5, <2>1, <3>1, EndOptionsStep, Zenon
    <3> QED
      BY <2>1, <3>1 DEF LineInv
  <2> QED
    BY <1>3, <1>5, <2>1, Zenon DEF EndOptions, Exit, Goto, parseVars
<1>6. ASSUME UNCHANGED parseVars, pc \in {"load", "open", "act", "replay"},
             \/ pc' \in {"open", "act"}
             \/ pc' = "start" /\ command = <<"run">>
             \/ pc' = "replay" /\ command = <<"replay", "run">>
      PROVE  LineInv'
  <2>1. UNCHANGED <<line, command, rest, at, options>>
    BY <1>6 DEF parseVars
  <2>2. ASSUME command \in Followed
        PROVE  (ReadTo(Len(line.groups)) /\ Complete)'
    <3>1. ReadTo(Len(line.groups)) /\ Complete
      BY <1>6, <2>2 DEF LineInv
    <3> QED
      BY <2>1, <3>1, SameRead
  <2> QED
    BY <1>6, <2>1, <2>2 DEF LineInv
<1>7. CASE LoadSettings
  <2>1. pc = "load"
    BY <1>7 DEF LoadSettings
  <2>2. CASE UNCHANGED parseVars /\ pc' = "open"
    BY <1>6, <2>1, <2>2
  <2> QED
    BY <1>3, <1>7, <2>2, Zenon DEF LoadSettings, Exit, Goto
<1>8. CASE OpenStores
  <2>1. CASE /\ UNCHANGED parseVars
             /\ pc' = IF command = <<"run">> THEN "start" ELSE "act"
    BY <1>6, <1>8, <2>1 DEF OpenStores
  <2> QED
    BY <1>3, <1>8, <2>1, Zenon DEF OpenStores, Exit, Goto
<1>9. ASSUME pc' = "session" PROVE LineInv'
  BY <1>9 DEF LineInv
<1>10. CASE StartServer
  BY <1>3, <1>9, <1>10 DEF StartServer, Exit, Goto
<1>11. CASE \E call \in Calls : CallTool(call)
  <2>1. pc' = "session"
    BY <1>11 DEF CallTool
  <2> QED
    BY <1>9, <2>1
<1>12. CASE Select
  <2>1. pc = "act" /\ command = <<"replay", "run">>
    BY <1>12 DEF Select
  <2>2. CASE UNCHANGED parseVars /\ pc' = "replay"
    BY <1>6, <2>1, <2>2
  <2> QED
    BY <1>3, <1>12, <2>2, Zenon DEF Select, Exit, Goto
<1>13. CASE ReplayRecord
  <2>1. pc = "replay" /\ pc' = "replay" /\ UNCHANGED parseVars
    BY <1>13 DEF ReplayRecord, NotExecuted, DryRun, Redrive, Take
  <2>2. command = <<"replay", "run">>
    BY <2>1 DEF LineInv
  <2> QED
    BY <1>6, <2>1, <2>2
<1>14. CASE UNCHANGED vars
  <2>1. UNCHANGED <<line, command, rest, at, options, pc>>
    BY <1>14 DEF vars, parseVars
  <2>2. \A k : ReadTo(k) => ReadTo(k)'
    BY <2>1, SameRead
  <2>3. Complete => Complete'
    BY <2>1, SameRead
  <2> QED
    BY <2>1, <2>2, <2>3 DEF LineInv
<1> QED
  BY <1>1, <1>2, <1>4, <1>5, <1>7, <1>8, <1>10, <1>11, <1>12, <1>13, <1>14 DEF Next


-----------------------------------------------------------------------------
\* The server of a session, and of a replay.

\* What stands behind `--`, or the last --http, is what the session starts with.
LEMMA SessionTarget ==
    ASSUME LineInv, pc = "start"
    PROVE  Target = TargetMeant /\ IsTarget(Target)
<1> DEFINE gs == line.groups
           last == line.tail
           n == Len(gs)
           end == Len(Flat(gs)[n])
           urls == {i \in 1..n : gs[i][1] = "--http"}
<1>1. command = <<"run">> /\ ReadTo(n) /\ Complete
  BY DEF LineInv, Followed
<1>2. /\ line \in Lines /\ rest = Grouped(gs, last) /\ at = end + 1
      /\ IF urls = {} THEN ~Given("--http")
         ELSE Given("--http") /\ Value("--http") = gs[Max(urls)][2]
  BY <1>1 DEF ReadTo, OptionsRead, FlagRead
<1>3. gs \in Seq(Seq(DOMAIN Chars)) /\ last \in Seq(DOMAIN Chars)
  BY <1>2, LineTypes
<1>4. TargetMeant = IF urls # {} THEN [url |-> gs[Max(urls)][2]] ELSE TargetOf(Tail(last))
  <2>1. DOMAIN gs = 1..n
    BY <1>3
  <2> QED
    BY <2>1 DEF TargetMeant, GroupsOf, LastMeant
<1> HIDE DEF gs, last, urls
<1>5. CASE urls # {}
  <2>1. Target = [url |-> gs[Max(urls)][2]]
    BY <1>2, <1>5 DEF Target
  <2>2. "url" \in DOMAIN [url |-> gs[Max(urls)][2]]
    OBVIOUS
  <2>3. TargetMeant = [url |-> gs[Max(urls)][2]]
    BY <1>4, <1>5
  <2> QED
    BY <2>1, <2>2, <2>3, Zenon DEF IsTarget
<1>6. CASE urls = {}
  <2>1. ~Given("--http") /\ at < Len(rest)
    BY <1>1, <1>2, <1>6 DEF Complete
  <2>2. /\ end \in Nat /\ Len(Grouped(gs, last)) = end + Len(last)
        /\ last # <<>> => SubSeq(Grouped(gs, last), end + 2, Len(Grouped(gs, last))) = Tail(last)
    BY <1>3, TailAt
  <2>3. Len(last) > 1 /\ last # <<>> /\ at + 1 = end + 2
    <3> HIDE DEF end
    <3> QED
      BY <1>2, <1>3, <2>1, <2>2
  <2>4. SubSeq(rest, at + 1, Len(rest)) = Tail(last)
    BY <1>2, <2>2, <2>3, Zenon
  <2>5. Target = TargetOf(Tail(last)) /\ TargetMeant = TargetOf(Tail(last))
    BY <1>4, <1>6, <2>1, <2>4, Zenon DEF Target
  <2> DEFINE words == Tail(last)
             spelled == [i \in DOMAIN words |-> Chars[words[i]]]
  <2>6. words \in Seq(DOMAIN Chars) /\ Len(words) > 0
    BY <1>3, <2>3
  <2> HIDE DEF words
  <2>7. spelled \in Seq(Seq(Characters)) /\ spelled # <<>>
    <3>1. /\ DOMAIN words = 1..Len(words) /\ Len(words) \in Nat
          /\ \A i \in 1..Len(words) : words[i] \in DOMAIN Chars
      BY <2>6
    <3>2. \A i \in 1..Len(words) : Chars[words[i]] \in Seq(Characters)
      BY <3>1, CommandsAssumption DEF CommandsAssumption
    <3> QED
      BY <2>6, <3>1, <3>2
  <2>8. TargetOf(words) = [words |-> spelled]
    BY DEF TargetOf
  <2> HIDE DEF spelled
  <2>9. IsTarget(TargetOf(words))
    <3>1. TargetOf(words).words = spelled
      BY <2>8
    <3> QED
      BY <2>7, <2>8, <3>1 DEF IsTarget
  <2> QED
    BY <2>5, <2>9, Zenon DEF words
<1> QED
  BY <1>5, <1>6

\* What connectStoredServer makes of the text of a record.
LEMMA StoredServer ==
    ASSUME NEW r, KeepsServer(r)
    PROVE  StoredTarget(r) = r.origin.target
<1> DEFINE t == r.origin.target
<1>1. IsTarget(t) /\ r.server = ServerCommandOf(t)
  BY DEF KeepsServer
<1> HIDE DEF t
<1>2. CASE "url" \in DOMAIN t
  BY <1>1, <1>2 DEF ServerCommandOf, StoredTarget, t
<1>3. CASE "url" \notin DOMAIN t
  <2>1. t.words \in Seq(Seq(Characters)) \ {<<>>} /\ t = [words |-> t.words]
    BY <1>1, <1>3 DEF IsTarget
  <2> DEFINE text == QuoteCommandLine(t.words)
  <2>2. ParseCommandLine(text) = [words |-> t.words]
    BY <2>1, RoundTrip, Zenon
  <2> HIDE DEF text
  <2>3. r.server = [text |-> text]
    BY <1>1, <1>3 DEF ServerCommandOf, text
  <2>4. StoredTarget(r) = [words |-> ParseCommandLine(text).words]
    BY <2>3 DEF StoredTarget
  <2>5. ParseCommandLine(text).words = t.words
    BY <2>2
  <2> QED
    BY <2>1, <2>4, <2>5, Zenon DEF t
<1> QED
  BY <1>2, <1>3

LEMMA ServerStep == LineInv /\ ServerInv /\ [Next]_vars => ServerInv'
<1> SUFFICES ASSUME LineInv, ServerInv, [Next]_vars PROVE ServerInv'
  OBVIOUS
<1>1. ASSUME UNCHANGED <<line, launched, current>> PROVE ServerAsTyped'
  BY <1>1 DEF ServerInv, ServerAsTyped, TargetMeant, TargetOf, GroupsOf, LastMeant
<1>2. ASSUME dlq' = dlq, todo' \subseteq dlq \cup todo PROVE \A r \in (dlq \cup todo)' : KeepsServer(r)
  BY <1>2 DEF ServerInv
<1>3. ASSUME pc' = "prompt", todo' = {}, UNCHANGED <<line, launched, current, dlq>>
      PROVE  ServerInv'
  BY <1>1, <1>2, <1>3 DEF ServerInv, KeepsServer
<1>4. ASSUME pc # "prompt", pc # "replay", pc' # "session" \/ pc = "session",
             UNCHANGED <<line, launched, current, dlq, todo>>
      PROVE  ServerInv'
  BY <1>1, <1>2, <1>4 DEF ServerInv, KeepsServer
<1>5. ASSUME NEW l \in Lines, Type(l) PROVE ServerInv'
  <2>1. launched' = Nothing /\ current' = {} /\ dlq' = dlq /\ pc' \in {"prompt", "parse"}
        /\ todo' \subseteq todo
    BY <1>5 DEF Type, Exit, Goto
  <2> QED
    BY <1>2, <2>1 DEF ServerInv, ServerAsTyped, KeepsServer
<1>6. CASE ReadSwitch \/ ReadOption \/ ReadId
  BY <1>4, <1>6 DEF ReadSwitch, ReadOption, ReadId, Read, touchVars
<1>7. CASE Reject \/ EndSession \/ Query \/ EndReplay
  BY <1>3, <1>7, Zenon DEF Reject, EndSession, Query, EndReplay, Exit, Goto, kept
<1>8. CASE EndOptions
  BY <1>3, <1>4, <1>8 DEF EndOptions, Exit, Goto, kept, touchVars, parseVars
<1>9. CASE LoadSettings
  BY <1>3, <1>4, <1>9 DEF LoadSettings, Exit, Goto, kept, touchVars, parseVars
<1>10. CASE OpenStores
  BY <1>3, <1>4, <1>10 DEF OpenStores, Exit, Goto, parseVars
<1>11. CASE StartServer
  <2>1. CASE launched' = Target /\ pc' = "session" /\ UNCHANGED <<line, current, dlq, todo>>
    <3>1. pc = "start" /\ current = {}
      BY <1>11 DEF StartServer, ServerInv
    <3>2. Target = TargetMeant /\ IsTarget(Target)
      BY <3>1, SessionTarget
    <3>3. TargetMeant' = TargetMeant
      BY <2>1 DEF TargetMeant, TargetOf, GroupsOf, LastMeant
    <3>4. ServerAsTyped'
      BY <2>1, <3>1, <3>2, <3>3 DEF ServerAsTyped
    <3>5. IsTarget(launched)'
      BY <2>1, <3>2 DEF IsTarget
    <3> QED
      BY <1>2, <2>1, <3>1, <3>4, <3>5 DEF ServerInv, KeepsServer
  <2> QED
    BY <1>3, <1>11, <2>1 DEF StartServer, Exit, Goto, kept, parseVars
<1>12. ASSUME NEW call \in Calls, CallTool(call) PROVE ServerInv'
  <2>1. /\ pc = "session" /\ UNCHANGED <<pc, line, launched, current, todo>>
    BY <1>12 DEF CallTool, parseVars
  <2>2. ASSUME NEW id PROVE KeepsServer(RecordOf(id, call))
    <3>1. IsTarget(launched)
      BY <2>1 DEF ServerInv
    <3>2. /\ {"server", "origin"} \subseteq DOMAIN RecordOf(id, call)
          /\ RecordOf(id, call).server = ServerCommandOf(launched)
          /\ RecordOf(id, call).origin.target = launched
      BY DEF RecordOf
    <3> QED
      BY <3>1, <3>2 DEF KeepsServer
  <2>3. \A r \in dlq' : r \in dlq \/ \E id : r = RecordOf(id, call)
    BY <1>12 DEF CallTool
  <2>4. \A r \in (dlq \cup todo)' : KeepsServer(r)
    BY <2>1, <2>2, <2>3 DEF ServerInv
  <2> QED
    BY <1>1, <2>1, <2>4 DEF ServerInv, KeepsServer
<1>13. CASE Select
  <2>1. CASE pc' = "replay"
    <3>1. UNCHANGED <<line, launched, current, dlq>> /\ todo' \subseteq dlq
      BY <1>13, <2>1 DEF Select, parseVars, Exit, Goto
    <3> QED
      BY <1>1, <1>2, <2>1, <3>1 DEF ServerInv, KeepsServer
  <2>2. CASE pc' = "prompt"
    BY <1>3, <1>13, <2>2 DEF Select, Exit, Goto
  <2> QED
    BY <1>13, <2>1, <2>2 DEF Select, Exit, Goto
<1>14. CASE ReplayRecord
  <2>1. PICK r \in todo : NotExecuted(r) \/ DryRun(r) \/ Redrive(r)
    BY <1>14 DEF ReplayRecord
  <2>2. pc = "replay" /\ pc' = pc /\ todo' \subseteq todo /\ current' = {r}
    BY <1>14, <2>1 DEF ReplayRecord, NotExecuted, DryRun, Redrive, Take
  <2>3. KeepsServer(r)
    BY DEF ServerInv
  <2>4. launched' = Nothing \/ launched' = r.origin.target
    BY <2>1, <2>3, StoredServer DEF NotExecuted, DryRun, Redrive
  <2>5. ServerAsTyped'
    BY <2>2, <2>4 DEF ServerAsTyped
  <2>6. \A s \in dlq' : s \in dlq \/ s = [r EXCEPT !.pending = FALSE]
    BY <2>1 DEF NotExecuted, DryRun, Redrive
  <2>7. KeepsServer([r EXCEPT !.pending = FALSE])
    <3> DEFINE s == [r EXCEPT !.pending = FALSE]
    <3>1. DOMAIN s = DOMAIN r /\ \A f \in DOMAIN r \ {"pending"} : s[f] = r[f]
      BY Zenon
    <3>2. s.server = r.server /\ s.origin = r.origin
      BY <2>3, <3>1 DEF KeepsServer
    <3> QED
      BY <2>3, <3>1, <3>2 DEF KeepsServer
  <2>8. \A s \in (dlq \cup todo)' : KeepsServer(s)
    BY <2>2, <2>6, <2>7 DEF ServerInv
  <2> QED
    BY <2>2, <2>5, <2>8 DEF ServerInv, KeepsServer
<1>15. CASE UNCHANGED vars
  <2>1. UNCHANGED <<pc, line, launched, current, dlq, todo>>
    BY <1>15 DEF vars, parseVars, touchVars
  <2> QED
    BY <1>1, <1>2, <2>1 DEF ServerInv, KeepsServer
<1> QED
  BY <1>5, <1>6, <1>7, <1>8, <1>9, <1>10, <1>11, <1>12, <1>13, <1>14, <1>15 DEF Next

\* parseArgs of cli/run.ts, buildServerCommand, quoteCommandLine, parseCommandLine and
\* connectStoredServer: whatever a command line is, the session starts the words behind
\* `--`, or asks the last URL of --http, and the replay of a record of that session
\* starts or asks the same, every character included.
THEOREM ServersAsTyped == Spec => []ServerAsTyped
<1>1. Init => LineInv /\ ServerInv
  BY DEF Init, LineInv, ServerInv, ServerAsTyped
<1>2. LineInv /\ ServerInv /\ [Next]_vars => (LineInv /\ ServerInv)'
  BY LineStep, ServerStep
<1>3. ServerInv => ServerAsTyped
  BY DEF ServerInv
<1> QED
  BY <1>1, <1>2, <1>3, PTL DEF Spec

-----------------------------------------------------------------------------
\* The rules d steps below a rule at most, and those below one of them.
LEMMA RuleLevels ==
    ASSUME NEW rule
    PROVE  \E levels : /\ levels[MaxDepth] = RulesIn(rule)
                       /\ \A d \in 0..MaxDepth : rule \in levels[d]
                       /\ \A d \in 1..MaxDepth : \A r \in levels[d - 1] : RuleParts(r) \subseteq levels[d]
<1> DEFINE RulesOf(S) == UNION {RuleParts(r) : r \in S}
           Under(f, d) == {rule} \cup IF d = 0 THEN {} ELSE RulesOf(f[d - 1])
           To(f, m) == f = [d \in 0..m |-> Under(f, d)]
           T == {m \in 0..MaxDepth : \E f : To(f, m)}
<1>1. MaxDepth \in Nat /\ MaxDepth >= 6
  BY SettingsAssumption, JsonAssumption
<1>2. \A f, d : d = 0 => Under(f, d) = {rule}
  OBVIOUS
<1>3. 0 \in T
  <2> DEFINE f == [d \in 0..0 |-> {rule}]
  <2>1. \A d \in 0..0 : Under(f, d) = {rule}
    BY <1>2
  <2> HIDE DEF Under
  <2>2. To(f, 0)
    BY <2>1
  <2> HIDE DEF f, To
  <2> QED
    BY <1>1, <2>2
<1>4. ASSUME NEW m \in 0..(MaxDepth - 1), m \in T PROVE m + 1 \in T
  <2>1. PICK f : To(f, m)
    BY <1>4
  <2> DEFINE g == [d \in 0..(m + 1) |-> Under(f, d)]
  <2>2. \A d \in 0..m : f[d] = Under(f, d)
    <3> HIDE DEF Under
    <3> QED
      BY <2>1
  <2>3. ASSUME NEW d \in 0..(m + 1) PROVE g[d] = Under(g, d)
    <3>1. CASE d = 0
      BY <1>2, <3>1
    <3>2. CASE d # 0
      <4>1. d - 1 \in 0..m /\ d - 1 \in 0..(m + 1)
        BY <1>1, <3>2
      <4>2. g[d - 1] = f[d - 1]
        <5> HIDE DEF Under
        <5> QED
          BY <2>2, <4>1
      <4>3. Under(g, d) = Under(f, d)
        BY <4>2
      <4> HIDE DEF Under
      <4> QED
        BY <4>3
    <3> QED
      BY <3>1, <3>2
  <2> HIDE DEF Under
  <2>4. To(g, m + 1)
    BY <2>3
  <2> HIDE DEF g, To
  <2> QED
    BY <1>1, <2>4
<1>5. MaxDepth \in T
  <2> HIDE DEF T
  <2>1. \A m \in 0..MaxDepth : m \in T
    BY <1>1, <1>3, <1>4, BoundedInduction
  <2> QED
    BY <1>1, <2>1
<1> DEFINE w == CHOOSE f : To(f, MaxDepth)
<1>6. RulesIn(rule) = w[MaxDepth]
  BY DEF RulesIn
<1>7. To(w, MaxDepth)
  <2> HIDE DEF To
  <2> QED
    BY <1>5
<1> HIDE DEF w
<1>8. \A d \in 0..MaxDepth : w[d] = Under(w, d)
  <2> HIDE DEF Under
  <2> QED
    BY <1>7
<1>9. \A d \in 0..MaxDepth : rule \in w[d]
  BY <1>8
<1>10. \A d \in 1..MaxDepth : d - 1 \in 0..MaxDepth /\ w[d] = {rule} \cup RulesOf(w[d - 1])
  <2> TAKE d \in 1..MaxDepth
  <2>1. d \in 0..MaxDepth /\ d - 1 \in 0..MaxDepth /\ d # 0
    BY <1>1
  <2>2. w[d] = Under(w, d)
    BY <1>8, <2>1
  <2> QED
    BY <2>1, <2>2
<1>11. \A d \in 1..MaxDepth : \A r \in w[d - 1] : RuleParts(r) \subseteq w[d]
  BY <1>10
<1> QED
  BY <1>6, <1>9, <1>11

\* The rules up to five steps below a rule.
LEMMA RulesReached ==
    ASSUME NEW rule
    PROVE  /\ rule \in RulesIn(rule)
           /\ \A r \in RuleParts(rule) :
                /\ r \in RulesIn(rule)
                /\ \A s \in RuleParts(r) :
                     /\ s \in RulesIn(rule)
                     /\ \A t \in RuleParts(s) :
                          /\ t \in RulesIn(rule)
                          /\ \A u \in RuleParts(t) : u \in RulesIn(rule) /\ RuleParts(u) \subseteq RulesIn(rule)
<1>1. PICK w : /\ w[MaxDepth] = RulesIn(rule)
               /\ \A d \in 0..MaxDepth : rule \in w[d]
               /\ \A d \in 1..MaxDepth : \A r \in w[d - 1] : RuleParts(r) \subseteq w[d]
  BY RuleLevels, Zenon
<1>2. MaxDepth \in Nat /\ MaxDepth >= 6
  BY SettingsAssumption, JsonAssumption
<1> DEFINE From(n, r) == \A d \in n..MaxDepth : r \in w[d]
<1>3. ASSUME NEW n \in 0..5, NEW r, From(n, r), NEW s \in RuleParts(r) PROVE From(n + 1, s)
  <2> TAKE d \in (n + 1)..MaxDepth
  <2>1. d \in 1..MaxDepth /\ d - 1 \in n..MaxDepth
    BY <1>2
  <2> QED
    BY <1>1, <1>3, <2>1
<1>4. \A n \in 0..5 : \A r : From(n, r) => r \in RulesIn(rule)
  BY <1>1, <1>2
<1>5. From(0, rule)
  BY <1>1
<1> HIDE DEF From
<1>6. \A r \in RuleParts(rule) : From(1, r)
  BY <1>3, <1>5
<1>7. \A r \in RuleParts(rule) : \A s \in RuleParts(r) : From(2, s)
  BY <1>3, <1>6
<1>8. \A r \in RuleParts(rule) : \A s \in RuleParts(r) : \A t \in RuleParts(s) : From(3, t)
  BY <1>3, <1>7
<1>9. \A r \in RuleParts(rule) : \A s \in RuleParts(r) : \A t \in RuleParts(s) : \A u \in RuleParts(t) :
         From(4, u)
  BY <1>3, <1>8
<1>10. \A r \in RuleParts(rule) : \A s \in RuleParts(r) : \A t \in RuleParts(s) : \A u \in RuleParts(t) :
          \A x \in RuleParts(u) : From(5, x)
  BY <1>3, <1>9
<1> QED
  BY <1>4, <1>5, <1>6, <1>7, <1>8, <1>9, <1>10

-----------------------------------------------------------------------------
\* What is accepted.

BreakStep(v, rules, broken) == [r \in rules |-> Broken(v, r, broken)]
AreBroken(broken, nodes, rules) == broken = [v \in nodes |-> BreakStep(v, rules, broken)]
BrokenIn(value, rules) == CHOOSE broken : AreBroken(broken, Nodes(value), rules)

LEMMA BreakStepLocal ==
    ASSUME NEW v, NEW rules, NEW f, NEW g, \A p \in Parts(v) : f[p] = g[p], WellFormed(v)
    PROVE  BreakStep(v, rules, f) = BreakStep(v, rules, g)
<1>1. IsRecord(v) => \A k \in DOMAIN v.object : f[v.object[k]] = g[v.object[k]]
  BY PartAt
<1>2. IsList(v) => \A i \in DOMAIN v.array : f[v.array[i]] = g[v.array[i]]
  BY PartAt DEF WellFormed, IsList, IsRecord, List
<1>3. \A r : Broken(v, r, f) = Broken(v, r, g)
  <2> TAKE r
  <2> DEFINE Field(h) == [k \in DOMAIN v.object \cap DOMAIN r.fields |-> h[v.object[k]][r.fields[k]]]
             Each(h) == [k \in DOMAIN v.object |-> h[v.object[k]][r.each]]
             Entry(h) == [i \in DOMAIN v.array |-> h[v.array[i]][r.entry]]
             All(F) == UNION {F[k] : k \in DOMAIN F}
             Twice == \E field \in r.unique, i, j \in DOMAIN v.array :
                         i # j /\ v.array[i].object[field] = v.array[j].object[field]
  <2>1. IsRecord(v) => Field(f) = Field(g) /\ Each(f) = Each(g)
    BY <1>1
  <2>2. IsList(v) => Entry(f) = Entry(g)
    BY <1>2
  <2>3. \A h : /\ All(Field(h)) = UNION {h[v.object[k]][r.fields[k]] : k \in DOMAIN v.object \cap DOMAIN r.fields}
               /\ All(Each(h)) = UNION {h[v.object[k]][r.each] : k \in DOMAIN v.object}
               /\ All(Entry(h)) = UNION {h[v.array[i]][r.entry] : i \in DOMAIN v.array}
    OBVIOUS
  <2>4. \A h : Broken(v, r, h) =
          CASE "fields" \in DOMAIN r -> IF HasFields(v, r) THEN All(Field(h)) ELSE {r}
            [] "each" \in DOMAIN r ->
                 IF IsRecord(v) /\ DOMAIN v.object \cap r.refused = {} THEN All(Each(h)) ELSE {r}
            [] "entry" \in DOMAIN r ->
                 IF IsList(v) THEN IF All(Entry(h)) = {} /\ Twice THEN {r} ELSE All(Entry(h)) ELSE {r}
            [] OTHER -> IF HasScalar(v, r) THEN {} ELSE {r}
    <3> HIDE DEF All, Field, Each, Entry, Twice
    <3> QED
      BY <2>3 DEF Broken, Twice
  <2>5. HasFields(v, r) => IsRecord(v)
    BY DEF HasFields
  <2> HIDE DEF All, Field, Each, Entry, Twice
  <2> QED
    BY <2>1, <2>2, <2>4, <2>5
<1> QED
  BY <1>3 DEF BreakStep

LEMMA BrokenExist ==
    ASSUME NEW value, IsJson(value), NEW rules
    PROVE  AreBroken(BrokenIn(value, rules), Nodes(value), rules)
<1> DEFINE Are(f, nodes) == AreBroken(f, nodes, rules)
           Step(n, f) == BreakStep(n, rules, f)
           T == {d \in 0..(MaxDepth + 1) : \E f : Are(f, Shallow(value, d))}
<1>1. MaxDepth \in Nat /\ MaxDepth + 1 \in Nat /\ MaxDepth + 1 - 1 = MaxDepth
  BY JsonAssumption
<1>2. Bounded(value) /\ \A n \in Nodes(value) : WellFormed(n)
  BY NodesAreTrees DEF IsJson, Bounded
<1>3. \A f, nodes : Are(f, nodes) <=> f = [n \in nodes |-> Step(n, f)]
  BY DEF AreBroken
<1>4. \A n \in Nodes(value) : \A f, g : (\A p \in Parts(n) : f[p] = g[p]) => Step(n, f) = Step(n, g)
  BY <1>2, BreakStepLocal
<1> HIDE DEF Are, Step
<1>5. 0 \in T
  <2> DEFINE f == [n \in {} |-> {}]
  <2>1. f = [n \in {} |-> Step(n, f)]
    OBVIOUS
  <2> HIDE DEF f
  <2>2. Are(f, Shallow(value, 0))
    BY <1>2, <1>3, <2>1, Heights
  <2> QED
    BY <1>1, <2>2
<1>6. ASSUME NEW d \in 0..MaxDepth, d \in T PROVE d + 1 \in T
  <2>1. PICK f : Are(f, Shallow(value, d))
    BY <1>6
  <2> DEFINE low == Shallow(value, d)
             high == Shallow(value, d + 1)
             g == [n \in high |-> Step(n, f)]
  <2>2. low \subseteq high /\ high \subseteq Nodes(value) /\ \A n \in high : Parts(n) \subseteq low
    BY <1>2, Heights DEF Shallow
  <2>3. \A n \in low : f[n] = Step(n, f)
    BY <1>3, <2>1
  <2> HIDE DEF low, high
  <2>4. \A n \in low : g[n] = f[n]
    BY <2>2, <2>3
  <2>5. \A n \in high : Step(n, f) = Step(n, g)
    <3> HIDE DEF g
    <3> QED
      BY <1>4, <2>2, <2>4
  <2>6. g = [n \in high |-> Step(n, g)]
    BY <2>5
  <2> HIDE DEF g
  <2>7. Are(g, Shallow(value, d + 1))
    BY <1>3, <2>6 DEF high
  <2> QED
    BY <1>1, <2>7
<1>7. \A d \in 0..(MaxDepth + 1) : d \in T
  <2> HIDE DEF T
  <2> QED
    BY <1>1, <1>5, <1>6, BoundedInduction
<1>8. \E f : Are(f, Nodes(value))
  BY <1>1, <1>2, <1>7, Heights
<1> QED
  BY <1>8, Zenon DEF BrokenIn, Are

LEMMA AcceptsIs ==
    ASSUME NEW value, IsJson(value), NEW rule
    PROVE  LET rules == RulesIn(rule)
               broken == BrokenIn(value, rules)
           IN  /\ Accepts(rule, value) <=> broken[value][rule] = {}
               /\ \A v \in Nodes(value), r \in rules : broken[v][r] = Broken(v, r, broken)
<1> DEFINE rules == RulesIn(rule)
           broken == BrokenIn(value, rules)
<1>1. Accepts(rule, value) <=> broken[value][rule] = {}
  BY Zenon DEF Accepts, BrokenIn, AreBroken, BreakStep
<1> HIDE DEF rules
<1>2. broken = [v \in Nodes(value) |-> BreakStep(v, rules, broken)]
  BY BrokenExist DEF AreBroken
<1> HIDE DEF broken
<1>3. ASSUME NEW v \in Nodes(value), NEW r \in rules PROVE broken[v][r] = Broken(v, r, broken)
  BY <1>2 DEF BreakStep
<1> QED
  BY <1>1, <1>3 DEF rules, broken
-----------------------------------------------------------------------------
\* What is in force.

ApplyStep(v, places, applied) == [x \in places |-> Replacing(x[1], x[2], v, applied)]
AreApplied(applied, nodes, places) == applied = [v \in nodes |-> ApplyStep(v, places, applied)]
AppliedIn(value, places) == CHOOSE applied : AreApplied(applied, Nodes(value), places)
Places(rule, old) == RulesIn(rule) \X (Nodes(old) \cup {EmptyObject})

\* The field of what is in force that a field of a file replaces.
OldField(before, k) == IF k \in DOMAIN before.object THEN before.object[k] ELSE EmptyObject

LEMMA ApplyStepLocal ==
    ASSUME NEW v, NEW places, NEW f, NEW g, \A p \in Parts(v) : f[p] = g[p]
    PROVE  ApplyStep(v, places, f) = ApplyStep(v, places, g)
<1>1. IsRecord(v) => \A k \in DOMAIN v.object : f[v.object[k]] = g[v.object[k]]
  BY PartAt
<1>2. \A r, before : Replacing(r, before, v, f) = Replacing(r, before, v, g)
  <2> TAKE r, before
  <2> DEFINE Field(h) == [k \in DOMAIN v.object \cap DOMAIN r.fields |->
                            h[v.object[k]][<<r.fields[k], OldField(before, k)>>]]
             Each(h) == [k \in DOMAIN v.object |-> h[v.object[k]][<<r.each, EmptyObject>>]]
  <2>1. IsRecord(v) => Field(f) = Field(g) /\ Each(f) = Each(g)
    BY <1>1
  <2>2. \A h : Replacing(r, before, v, h) =
          CASE r = Scalar("duration") -> Number(ParseDuration(v.string))
            [] IsRecord(v) /\ "fields" \in DOMAIN r -> Object(Over(Field(h), before.object))
            [] IsRecord(v) /\ "each" \in DOMAIN r -> Object(Over(Each(h), before.object))
            [] OTHER -> v
    BY Zenon DEF Replacing, OldField
  <2> HIDE DEF Field, Each
  <2> QED
    BY <2>1, <2>2
<1> QED
  BY <1>2 DEF ApplyStep

LEMMA AppliedExist ==
    ASSUME NEW value, Bounded(value), NEW places
    PROVE  AreApplied(AppliedIn(value, places), Nodes(value), places)
<1> DEFINE Are(f, nodes) == AreApplied(f, nodes, places)
           Step(n, f) == ApplyStep(n, places, f)
           T == {d \in 0..(MaxDepth + 1) : \E f : Are(f, Shallow(value, d))}
<1>1. MaxDepth \in Nat /\ MaxDepth + 1 \in Nat /\ MaxDepth + 1 - 1 = MaxDepth
  BY JsonAssumption
<1>2. \A f, nodes : Are(f, nodes) <=> f = [n \in nodes |-> Step(n, f)]
  BY DEF AreApplied
<1>3. \A n, f, g : (\A p \in Parts(n) : f[p] = g[p]) => Step(n, f) = Step(n, g)
  BY ApplyStepLocal
<1> HIDE DEF Are, Step
<1>4. 0 \in T
  <2> DEFINE f == [n \in {} |-> {}]
  <2>1. f = [n \in {} |-> Step(n, f)]
    OBVIOUS
  <2> HIDE DEF f
  <2>2. Are(f, Shallow(value, 0))
    BY <1>2, <2>1, Heights
  <2> QED
    BY <1>1, <2>2
<1>5. ASSUME NEW d \in 0..MaxDepth, d \in T PROVE d + 1 \in T
  <2>1. PICK f : Are(f, Shallow(value, d))
    BY <1>5
  <2> DEFINE low == Shallow(value, d)
             high == Shallow(value, d + 1)
             g == [n \in high |-> Step(n, f)]
  <2>2. low \subseteq high /\ \A n \in high : Parts(n) \subseteq low
    BY Heights
  <2>3. \A n \in low : f[n] = Step(n, f)
    BY <1>2, <2>1
  <2> HIDE DEF low, high
  <2>4. \A n \in low : g[n] = f[n]
    BY <2>2, <2>3
  <2>5. \A n \in high : Step(n, f) = Step(n, g)
    <3> HIDE DEF g
    <3> QED
      BY <1>3, <2>2, <2>4
  <2>6. g = [n \in high |-> Step(n, g)]
    BY <2>5
  <2> HIDE DEF g
  <2>7. Are(g, Shallow(value, d + 1))
    BY <1>2, <2>6 DEF high
  <2> QED
    BY <1>1, <2>7
<1>6. \A d \in 0..(MaxDepth + 1) : d \in T
  <2> HIDE DEF T
  <2> QED
    BY <1>1, <1>4, <1>5, BoundedInduction
<1>7. \E f : Are(f, Nodes(value))
  BY <1>1, <1>6, Heights
<1> QED
  BY <1>7, Zenon DEF AppliedIn, Are

\* The recursion at each place.
AreApplications(applied, value, rule, old) ==
    /\ Applied(rule, old, value) = applied[value][<<rule, old>>]
    /\ \A v \in Nodes(value), r \in RulesIn(rule), before \in Nodes(old) \cup {EmptyObject} :
          applied[v][<<r, before>>] = Replacing(r, before, v, applied)

LEMMA AppliedIs ==
    ASSUME NEW value, Bounded(value), NEW rule, NEW old
    PROVE  \E applied : AreApplications(applied, value, rule, old)
<1> DEFINE places == Places(rule, old)
           applied == AppliedIn(value, places)
<1>1. Applied(rule, old, value) = applied[value][<<rule, old>>]
  BY Zenon DEF Applied, AppliedIn, AreApplied, ApplyStep, Places
<1>2. \A r \in RulesIn(rule), before \in Nodes(old) \cup {EmptyObject} : <<r, before>> \in places
  BY DEF Places
<1> HIDE DEF places
<1>3. applied = [v \in Nodes(value) |-> ApplyStep(v, places, applied)]
  BY AppliedExist DEF AreApplied
<1> HIDE DEF applied
<1>4. ASSUME NEW v \in Nodes(value), NEW r \in RulesIn(rule), NEW before \in Nodes(old) \cup {EmptyObject}
      PROVE  applied[v][<<r, before>>] = Replacing(r, before, v, applied)
  <2>1. applied[v] = ApplyStep(v, places, applied)
    BY <1>3
  <2> DEFINE x == <<r, before>>
  <2>2. x \in places /\ x[1] = r /\ x[2] = before
    BY <1>2
  <2> HIDE DEF x
  <2>3. applied[v][x] = Replacing(x[1], x[2], v, applied)
    BY <2>1, <2>2 DEF ApplyStep
  <2> QED
    BY <2>2, <2>3 DEF x
<1>5. AreApplications(applied, value, rule, old)
  BY <1>1, <1>4 DEF AreApplications
<1> QED
  BY <1>5

\* The fields, the fields of those and the fields of those stand in a value.
LEMMA NodeAt ==
    ASSUME NEW value
    PROVE  /\ value \in Nodes(value)
           /\ \A p \in Parts(value) :
                /\ p \in Nodes(value) /\ Parts(p) \subseteq Nodes(value)
                /\ \A q \in Parts(p) : Parts(q) \subseteq Nodes(value)
<1>1. 0 \in 0..MaxDepth /\ 1 \in 0..MaxDepth /\ 2 \in 0..MaxDepth /\ 3 \in 0..MaxDepth
  BY SettingsAssumption, JsonAssumption
<1>2. Level(value)[0] = {value} /\ Level(value)[0 + 1] = PartsOf({value})
  BY <1>1, LevelNext, LevelZero
<1>3. Level(value)[1 + 1] = PartsOf(Level(value)[1]) /\ Level(value)[2 + 1] = PartsOf(Level(value)[2])
  BY <1>1, LevelNext
<1>4. Level(value)[1] = Parts(value)
  BY <1>2 DEF PartsOf
<1>5. \A p \in Parts(value) : Parts(p) \subseteq Level(value)[2]
  BY <1>3, <1>4 DEF PartsOf
<1>6. \A p \in Parts(value) : \A q \in Parts(p) : Parts(q) \subseteq Level(value)[3]
  BY <1>3, <1>5 DEF PartsOf
<1> QED
  BY <1>1, <1>2, <1>4, <1>5, <1>6 DEF Nodes

-----------------------------------------------------------------------------
\* The patterns in force.

IsPatterns == ListOf(NonEmptyText, {})

\* `list` is what a configuration has for them.
HasPatterns(settings, list) ==
    /\ settings = Object(settings.object)
    /\ "redaction" \in DOMAIN settings.object
    /\ settings.object["redaction"].object["patterns"] = list

LEMMA RedactionRules ==
    /\ Sections \in RulesIn(Sections) /\ RedactionSection \in RulesIn(Sections)
    /\ IsPatterns \in RulesIn(Sections)
    /\ RedactionSection \in RulesIn(RedactionSection)
    /\ IsPatterns \in RulesIn(RedactionSection) /\ NonEmptyText \in RulesIn(RedactionSection)
    /\ DOMAIN Sections = {"fields", "required"} /\ Sections # Scalar("duration")
    /\ "redaction" \in DOMAIN Sections.fields /\ Sections.fields["redaction"] = RedactionSection
    /\ DOMAIN RedactionSection = {"fields", "required"} /\ RedactionSection # Scalar("duration")
    /\ RedactionSection.required = {}
    /\ DOMAIN RedactionSection.fields = {"patterns"} /\ RedactionSection.fields["patterns"] = IsPatterns
    /\ DOMAIN IsPatterns = {"entry", "unique"} /\ IsPatterns.entry = NonEmptyText
    /\ IsPatterns # Scalar("duration")
<1>1. /\ DOMAIN Sections = {"fields", "required"} /\ Sections # Scalar("duration")
      /\ "redaction" \in DOMAIN Sections.fields /\ Sections.fields["redaction"] = RedactionSection
  BY DEF Sections, Mapping, Scalar
<1>2. /\ DOMAIN RedactionSection = {"fields", "required"} /\ RedactionSection # Scalar("duration")
      /\ DOMAIN RedactionSection.fields = {"patterns"} /\ RedactionSection.fields["patterns"] = IsPatterns
      /\ RedactionSection.required = {}
  BY DEF RedactionSection, Mapping, Scalar, IsPatterns
<1>3. /\ DOMAIN IsPatterns = {"entry", "unique"} /\ IsPatterns.entry = NonEmptyText
      /\ IsPatterns # Scalar("duration")
  BY DEF IsPatterns, ListOf, Scalar
<1>4. RuleParts(Sections) = {Sections.fields[k] : k \in DOMAIN Sections.fields}
  BY <1>1 DEF RuleParts
<1>5. RedactionSection \in RuleParts(Sections)
  <2> HIDE DEF Sections
  <2> QED
    BY <1>1, <1>4
<1>6. IsPatterns \in RuleParts(RedactionSection)
  <2>1. RuleParts(RedactionSection) = {RedactionSection.fields[k] : k \in DOMAIN RedactionSection.fields}
    BY <1>2 DEF RuleParts
  <2> QED
    BY <1>2, <2>1
<1>7. NonEmptyText \in RuleParts(IsPatterns)
  BY <1>3 DEF RuleParts
<1> QED
  BY <1>1, <1>2, <1>3, <1>5, <1>6, <1>7, RulesReached

\* A section of redaction that is accepted has a list of texts, or says nothing.
LEMMA AcceptedPatterns ==
    ASSUME NEW red, IsJson(red), Accepts(RedactionSection, red)
    PROVE  /\ IsRecord(red) /\ DOMAIN red.object \subseteq {"patterns"}
           /\ "patterns" \in DOMAIN red.object =>
                /\ IsList(red.object["patterns"])
                /\ \A i \in DOMAIN red.object["patterns"].array : IsText(red.object["patterns"].array[i])
<1> DEFINE rules == RulesIn(RedactionSection)
           broken == BrokenIn(red, rules)
           list == red.object["patterns"]
<1>1. /\ broken[red][RedactionSection] = {}
      /\ \A v \in Nodes(red), r \in rules : broken[v][r] = Broken(v, r, broken)
  BY AcceptsIs, Zenon
<1> HIDE DEF broken
<1>2. red \in Nodes(red) /\ \A p \in Parts(red) : p \in Nodes(red) /\ Parts(p) \subseteq Nodes(red)
  BY NodeAt
<1>3. Broken(red, RedactionSection, broken) = {}
  BY <1>1, <1>2, RedactionRules
<1>4. HasFields(red, RedactionSection)
  BY <1>3, RedactionRules DEF Broken
<1>5. IsRecord(red) /\ DOMAIN red.object \subseteq {"patterns"}
  BY <1>4, RedactionRules DEF HasFields
<1>6. ASSUME "patterns" \in DOMAIN red.object
      PROVE  IsList(list) /\ \A i \in DOMAIN list.array : IsText(list.array[i])
  <2>1. list \in Parts(red)
    BY <1>5, <1>6, PartAt
  <2>2. Broken(red, RedactionSection, broken) =
          UNION {broken[red.object[k]][RedactionSection.fields[k]] :
                   k \in DOMAIN red.object \cap DOMAIN RedactionSection.fields}
    BY <1>4, RedactionRules DEF Broken
  <2>3. broken[list][IsPatterns] = {}
    BY <1>3, <1>6, <2>2, RedactionRules
  <2>4. Broken(list, IsPatterns, broken) = {}
    BY <1>1, <1>2, <2>1, <2>3, RedactionRules
  <2>5. "fields" \notin DOMAIN IsPatterns /\ "each" \notin DOMAIN IsPatterns /\ "entry" \in DOMAIN IsPatterns
    BY RedactionRules
  <2> DEFINE inItems == UNION {broken[list.array[i]][IsPatterns.entry] : i \in DOMAIN list.array}
  <2>6. IsList(list) /\ inItems = {}
    BY <2>4, <2>5 DEF Broken
  <2>7. WellFormed(list)
    BY <1>2, <2>1, NodesAreTrees
  <2>8. ~IsRecord(list)
    BY <2>6, <2>7 DEF WellFormed, IsList, IsRecord, List
  <2>9. ASSUME NEW i \in DOMAIN list.array PROVE IsText(list.array[i])
    <3>1. list.array[i] \in Parts(list)
      BY <2>6, <2>8, PartAt
    <3>2. list.array[i] \in Nodes(red)
      BY <1>2, <2>1, <3>1
    <3>3. broken[list.array[i]][NonEmptyText] = {}
      BY <2>6, RedactionRules
    <3>4. Broken(list.array[i], NonEmptyText, broken) = {}
      BY <1>1, <3>2, <3>3, RedactionRules
    <3>5. HasScalar(list.array[i], NonEmptyText)
      BY <3>4 DEF Broken, NonEmptyText, Scalar
    <3> QED
      BY <3>5 DEF HasScalar, NonEmptyText, Scalar, IsSetting
  <2> QED
    BY <2>6, <2>9
<1> QED
  BY <1>5, <1>6

\* What a mapping puts over what was in force.
IsOver(new, v, r, before, applied) ==
    LET set == DOMAIN v.object \cap DOMAIN r.fields
    IN  /\ new = Object(new.object) /\ DOMAIN new.object = set \cup DOMAIN before.object
        /\ \A k \in set : new.object[k] = applied[v.object[k]][<<r.fields[k], OldField(before, k)>>]
        /\ \A k \in DOMAIN before.object : k \notin set => new.object[k] = before.object[k]

LEMMA MappingApplied ==
    ASSUME NEW v, IsRecord(v), NEW r, DOMAIN r = {"fields", "required"}, r # Scalar("duration"),
           NEW before, NEW applied
    PROVE  IsOver(Replacing(r, before, v, applied), v, r, before, applied)
<1> DEFINE new == Replacing(r, before, v, applied)
           set == DOMAIN v.object \cap DOMAIN r.fields
           fields == [k \in set |-> applied[v.object[k]][<<r.fields[k], OldField(before, k)>>]]
           over == Over(fields, before.object)
<1>1. new = Object(over)
  BY DEF Replacing, OldField
<1>2. DOMAIN fields = set /\ \A k \in set : fields[k] = applied[v.object[k]][<<r.fields[k], OldField(before, k)>>]
  OBVIOUS
<1> HIDE DEF fields
<1>3. DOMAIN over = set \cup DOMAIN before.object
  BY <1>2 DEF Over
<1>4. \A k \in set : over[k] = fields[k]
  BY <1>2 DEF Over
<1>5. \A k \in DOMAIN before.object : k \notin set => over[k] = before.object[k]
  BY <1>2 DEF Over
<1> HIDE DEF over, new
<1>6. new.object = over
  BY <1>1 DEF Object
<1> QED
  BY <1>1, <1>2, <1>3, <1>4, <1>5, <1>6 DEF new, IsOver

DefaultList == List([i \in DOMAIN DefaultPatterns |-> Text(DefaultPatterns[i])])

LEMMA DefaultsHavePatterns ==
    LET red == DefaultConfig.object["redaction"]
    IN  /\ HasPatterns(DefaultConfig, DefaultList)
        /\ red \in Nodes(DefaultConfig) /\ red = Object([patterns |-> DefaultList])
        /\ DefaultList \in Nodes(DefaultConfig)
<1> DEFINE red == DefaultConfig.object["redaction"]
<1>1. /\ DefaultConfig = Object(DefaultConfig.object) /\ IsRecord(DefaultConfig)
      /\ "redaction" \in DOMAIN DefaultConfig.object
      /\ red = Object([patterns |-> DefaultList])
  BY DEF DefaultConfig, DefaultList, Object, IsRecord
<1>2. IsRecord(red) /\ "patterns" \in DOMAIN red.object /\ red.object["patterns"] = DefaultList
  BY <1>1 DEF Object, IsRecord
<1>3. red \in Parts(DefaultConfig)
  BY <1>1, PartAt
<1>4. DefaultList \in Parts(red)
  BY <1>2, PartAt
<1> QED
  BY <1>1, <1>2, <1>3, <1>4, NodeAt DEF HasPatterns

\* Whether a document asks for patterns, and the list that is then in force.
Asks(document) ==
    "redaction" \in DOMAIN document.object /\ "patterns" \in DOMAIN document.object["redaction"].object

ListFor(document) ==
    IF Asks(document) THEN document.object["redaction"].object["patterns"] ELSE DefaultList

\* A document that is accepted puts its patterns in force, if it has any.
LEMMA PatternsOfDocument ==
    ASSUME NEW document, IsJson(document), document # Null, AcceptsDocument(document)
    PROVE  IsRecord(document) /\ HasPatterns(ApplyDocument(DefaultConfig, document), ListFor(document))
<1> DEFINE red == document.object["redaction"]
           asks == "redaction" \in DOMAIN document.object /\ "patterns" \in DOMAIN red.object
           list == IF asks THEN red.object["patterns"] ELSE DefaultList
           old == DefaultConfig
           oldRed == old.object["redaction"]
           new == ApplyDocument(old, document)
           set == DOMAIN document.object \cap DOMAIN Sections.fields
<1>1. /\ IsRecord(document)
      /\ "redaction" \in DOMAIN document.object => Accepts(RedactionSection, red)
  BY RedactionRules DEF AcceptsDocument, KnownSections
<1>2. Bounded(document)
  BY DEF IsJson, Bounded
<1>3. PICK applied : AreApplications(applied, document, Sections, old)
  BY <1>2, AppliedIs
<1>4. /\ Applied(Sections, old, document) = applied[document][<<Sections, old>>]
      /\ \A v \in Nodes(document), r \in RulesIn(Sections), before \in Nodes(old) \cup {EmptyObject} :
             applied[v][<<r, before>>] = Replacing(r, before, v, applied)
  BY <1>3 DEF AreApplications
<1>5. document \in Nodes(document) /\ old \in Nodes(old)
  BY NodeAt
<1>6. new = Replacing(Sections, old, document, applied)
  BY <1>4, <1>5, RedactionRules DEF ApplyDocument
<1>7. /\ new = Object(new.object) /\ DOMAIN new.object = set \cup DOMAIN old.object
      /\ \A k \in set : new.object[k] = applied[document.object[k]][<<Sections.fields[k], OldField(old, k)>>]
      /\ \A k \in DOMAIN old.object : k \notin set => new.object[k] = old.object[k]
  BY <1>1, <1>6, MappingApplied, RedactionRules DEF IsOver
<1> HIDE DEF new
<1>8. /\ "redaction" \in DOMAIN old.object /\ oldRed \in Nodes(old)
      /\ oldRed = Object([patterns |-> DefaultList]) /\ DefaultList \in Nodes(old)
  BY DefaultsHavePatterns DEF HasPatterns
<1>9. OldField(old, "redaction") = oldRed
  BY <1>8 DEF OldField
<1>10. /\ oldRed.object["patterns"] = DefaultList /\ "patterns" \in DOMAIN oldRed.object
      /\ OldField(oldRed, "patterns") = DefaultList
  BY <1>8 DEF OldField, Object
<1>11. new.object["redaction"].object["patterns"] = list
  <2>1. CASE "redaction" \notin DOMAIN document.object
    BY <1>7, <1>8, <1>10, <2>1
  <2>2. CASE "redaction" \in DOMAIN document.object
    <3> DEFINE newRed == new.object["redaction"]
    <3>1. "redaction" \in set
      BY <2>2, RedactionRules
    <3>2. red \in Nodes(document) /\ Parts(red) \subseteq Nodes(document)
      BY <1>1, <2>2, NodeAt, PartAt
    <3>3. newRed = applied[red][<<RedactionSection, oldRed>>]
      BY <1>7, <1>9, <3>1, RedactionRules
    <3> HIDE DEF red, oldRed, newRed
    <3>4. newRed = Replacing(RedactionSection, oldRed, red, applied)
      BY <1>4, <1>8, <3>2, <3>3, RedactionRules
    <3>5. IsJson(red)
      BY <3>2, NodesAreTrees
    <3>6. IsRecord(red) /\ DOMAIN red.object \subseteq {"patterns"}
          /\ ("patterns" \in DOMAIN red.object => IsList(red.object["patterns"]))
      BY <1>1, <2>2, <3>5, AcceptedPatterns DEF red
    <3> DEFINE setRed == DOMAIN red.object \cap DOMAIN RedactionSection.fields
    <3>7. /\ \A k \in setRed : newRed.object[k] =
                                 applied[red.object[k]][<<RedactionSection.fields[k], OldField(oldRed, k)>>]
          /\ \A k \in DOMAIN oldRed.object : k \notin setRed => newRed.object[k] = oldRed.object[k]
      BY <3>4, <3>6, MappingApplied, RedactionRules DEF IsOver
    <3>8. CASE "patterns" \notin DOMAIN red.object
      BY <1>10, <3>7, <3>8 DEF newRed, red
    <3>9. CASE "patterns" \in DOMAIN red.object
      <4> DEFINE pat == red.object["patterns"]
      <4>1. "patterns" \in setRed
        BY <3>9, RedactionRules
      <4>2. pat \in Nodes(document)
        BY <3>2, <3>6, <3>9, PartAt
      <4>3. newRed.object["patterns"] = applied[pat][<<IsPatterns, DefaultList>>]
        BY <1>10, <3>7, <4>1, RedactionRules
      <4>4. applied[pat][<<IsPatterns, DefaultList>>] = Replacing(IsPatterns, DefaultList, pat, applied)
        BY <1>4, <1>8, <4>2, RedactionRules
      <4>5. Replacing(IsPatterns, DefaultList, pat, applied) = pat
        BY RedactionRules DEF Replacing
      <4> QED
        BY <2>2, <3>9, <4>3, <4>4, <4>5 DEF newRed, red
    <3> QED
      BY <3>8, <3>9
  <2> QED
    BY <2>1, <2>2
<1>12. list = ListFor(document)
  BY Zenon DEF ListFor, Asks
<1> QED
  BY <1>1, <1>7, <1>8, <1>11, <1>12 DEF HasPatterns, new

LEMMA PartsOfObject ==
    ASSUME NEW fields
    PROVE  Parts(Object(fields)) = {fields[k] : k \in DOMAIN fields}
<1> DEFINE n == Object(fields)
<1>1. IsRecord(n) /\ n.object = fields
  BY DEF Object, IsRecord
<1> HIDE DEF n
<1>2. \A k \in DOMAIN fields : fields[k] \in Parts(n)
  BY <1>1, PartAt
<1>3. ASSUME NEW p \in Parts(n) PROVE \E k \in DOMAIN fields : p = fields[k]
  <2>1. Entries(n) = {<<Key(k), fields[k]>> : k \in DOMAIN fields}
    BY <1>1 DEF Entries
  <2> QED
    BY <2>1 DEF Parts
<1> QED
  BY <1>2, <1>3 DEF n

\* A value of no more than four levels.
LEMMA FourLevels ==
    ASSUME NEW value, \A p \in Parts(value) : \A q \in Parts(p) : \A x \in Parts(q) : Parts(x) = {}
    PROVE  Bounded(value)
<1>1. \A d \in 0..MaxDepth : Level(value)[d + 1] = PartsOf(Level(value)[d])
  BY LevelNext
<1>2. Level(value)[0] = {value}
  BY LevelZero
<1>3. MaxDepth >= 6 /\ MaxDepth \in Nat
  BY SettingsAssumption, JsonAssumption
<1>4. 0 \in 0..MaxDepth /\ 1 \in 0..MaxDepth /\ 2 \in 0..MaxDepth /\ 3 \in 0..MaxDepth
  BY <1>3
<1>5. Level(value)[1] = Parts(value)
  <2>1. Level(value)[0 + 1] = PartsOf({value})
    BY <1>1, <1>2, <1>4
  <2> QED
    BY <2>1 DEF PartsOf
<1>6. Level(value)[4] = {}
  <2>1. /\ Level(value)[1 + 1] = PartsOf(Level(value)[1]) /\ Level(value)[2 + 1] = PartsOf(Level(value)[2])
        /\ Level(value)[3 + 1] = PartsOf(Level(value)[3])
    BY <1>1, <1>4
  <2>2. \A x \in Level(value)[3] : Parts(x) = {}
    BY <1>5, <2>1 DEF PartsOf
  <2> QED
    BY <2>1, <2>2 DEF PartsOf
<1> DEFINE T == {d \in 0..(MaxDepth - 3) : Level(value)[d + 4] = {}}
<1>7. 0 \in T
  BY <1>3, <1>6
<1>8. ASSUME NEW d \in 0..(MaxDepth - 3 - 1), d \in T PROVE d + 1 \in T
  <2>1. d + 4 \in 0..MaxDepth /\ d + 4 + 1 = d + 1 + 4 /\ d + 1 \in 0..(MaxDepth - 3)
    BY <1>3
  <2>2. Level(value)[d + 4 + 1] = {}
    BY <1>8, <2>1, EmptyLevel
  <2> QED
    BY <2>1, <2>2
<1>9. \A d \in 0..(MaxDepth - 3) : d \in T
  <2>1. MaxDepth - 3 \in Nat
    BY <1>3
  <2> HIDE DEF T
  <2> QED
    BY <1>7, <1>8, <2>1, BoundedInduction
<1>10. MaxDepth - 3 \in 0..(MaxDepth - 3) /\ MaxDepth - 3 + 4 = MaxDepth + 1
  BY <1>3
<1> QED
  BY <1>9, <1>10 DEF Bounded

\* What --timeout-ms and --max-attempts say, as a section.
FlagFields(flags) ==
    Over([f \in {"timeout_ms"} \cap DOMAIN flags |-> Number(flags[f])],
         IF "max_attempts" \in DOMAIN flags
         THEN [retry |-> Object([max_attempts |-> Number(flags["max_attempts"])])]
         ELSE <<>>)

FlagDocument(flags) == Object([reliability |-> Object(FlagFields(flags))])

LEMMA FlagsSaid ==
    ASSUME NEW flags
    PROVE  /\ DOMAIN FlagFields(flags) \subseteq {"timeout_ms", "retry"}
           /\ "timeout_ms" \in DOMAIN FlagFields(flags) <=> "timeout_ms" \in DOMAIN flags
           /\ "retry" \in DOMAIN FlagFields(flags) <=> "max_attempts" \in DOMAIN flags
           /\ "timeout_ms" \in DOMAIN flags =>
                 FlagFields(flags)["timeout_ms"] = Number(flags["timeout_ms"])
           /\ "max_attempts" \in DOMAIN flags =>
                 FlagFields(flags)["retry"] = Object([max_attempts |-> Number(flags["max_attempts"])])
<1> DEFINE retry == IF "max_attempts" \in DOMAIN flags
                    THEN [retry |-> Object([max_attempts |-> Number(flags["max_attempts"])])]
                    ELSE <<>>
           timeout == [f \in {"timeout_ms"} \cap DOMAIN flags |-> Number(flags[f])]
<1>1. /\ DOMAIN timeout = {"timeout_ms"} \cap DOMAIN flags
      /\ "timeout_ms" \in DOMAIN flags => timeout["timeout_ms"] = Number(flags["timeout_ms"])
  OBVIOUS
<1>2. /\ DOMAIN retry = {k \in {"retry"} : "max_attempts" \in DOMAIN flags}
      /\ "max_attempts" \in DOMAIN flags =>
            retry["retry"] = Object([max_attempts |-> Number(flags["max_attempts"])])
  OBVIOUS
<1>3. FlagFields(flags) = Over(timeout, retry)
  BY Zenon DEF FlagFields
<1> HIDE DEF timeout, retry
<1> QED
  BY <1>1, <1>2, <1>3 DEF Over

LEMMA FlagDocumentIs ==
    ASSUME NEW flags
    PROVE  /\ IsRecord(FlagDocument(flags)) /\ DOMAIN FlagDocument(flags).object = {"reliability"}
           /\ FlagDocument(flags).object["reliability"] = Object(FlagFields(flags))
           /\ Bounded(FlagDocument(flags))
           /\ \A settings : ApplyFlags(settings, flags) = Applied(Sections, settings, FlagDocument(flags))
<1> DEFINE raw == FlagDocument(flags)
           fields == FlagFields(flags)
<1>1. /\ IsRecord(raw) /\ DOMAIN raw.object = {"reliability"} /\ raw.object["reliability"] = Object(fields)
  BY DEF FlagDocument, Object, IsRecord
<1>2. \A x : Parts(Number(x)) = {}
  BY DEF Parts, Entries, Number, IsRecord, IsList
<1>3. Parts(raw) = {Object(fields)}
  <2> DEFINE all == [reliability |-> Object(fields)]
  <2>1. Parts(Object(all)) = {all[k] : k \in DOMAIN all}
    BY PartsOfObject
  <2> QED
    BY <2>1 DEF FlagDocument
<1> HIDE DEF fields
<1>4. Parts(Object(fields)) = {fields[k] : k \in DOMAIN fields}
  BY PartsOfObject
<1>5. ASSUME NEW k \in DOMAIN fields, NEW q \in Parts(fields[k]) PROVE Parts(q) = {}
  <2> DEFINE count == [max_attempts |-> Number(flags["max_attempts"])]
  <2>1. fields[k] = Number(flags["timeout_ms"]) \/ fields[k] = Object(count)
    BY <1>5, FlagsSaid DEF fields
  <2>2. Parts(Object(count)) = {count[x] : x \in DOMAIN count}
    BY PartsOfObject
  <2> QED
    BY <1>2, <1>5, <2>1, <2>2
<1>6. Bounded(raw)
  <2> HIDE DEF raw
  <2>1. \A p \in Parts(raw) : \A q \in Parts(p) : \A x \in Parts(q) : Parts(x) = {}
    BY <1>3, <1>4, <1>5
  <2> QED
    BY <2>1, FourLevels
<1>7. \A settings : ApplyFlags(settings, flags) = Applied(Sections, settings, FlagDocument(flags))
  BY Zenon DEF ApplyFlags, FlagDocument, FlagFields
<1> QED
  BY <1>1, <1>6, <1>7 DEF fields

\* The flags say nothing of the patterns.
LEMMA FlagsKeepPatterns ==
    ASSUME NEW settings, NEW list, HasPatterns(settings, list), NEW flags
    PROVE  HasPatterns(ApplyFlags(settings, flags), list)
<1> DEFINE raw == FlagDocument(flags)
           new == ApplyFlags(settings, flags)
<1>1. IsRecord(raw) /\ DOMAIN raw.object = {"reliability"}
  BY FlagDocumentIs
<1>2. Bounded(raw)
  BY FlagDocumentIs
<1>3. new = Applied(Sections, settings, raw)
  BY FlagDocumentIs
<1> HIDE DEF raw, new
<1>4. PICK applied : AreApplications(applied, raw, Sections, settings)
  BY <1>2, AppliedIs
<1>5. /\ Applied(Sections, settings, raw) = applied[raw][<<Sections, settings>>]
      /\ \A v \in Nodes(raw), r \in RulesIn(Sections), before \in Nodes(settings) \cup {EmptyObject} :
             applied[v][<<r, before>>] = Replacing(r, before, v, applied)
  BY <1>4 DEF AreApplications
<1>6. raw \in Nodes(raw) /\ settings \in Nodes(settings)
  BY NodeAt
<1>7. new = Replacing(Sections, settings, raw, applied)
  BY <1>3, <1>5, <1>6, RedactionRules
<1>8. /\ new = Object(new.object)
      /\ DOMAIN new.object = (DOMAIN raw.object \cap DOMAIN Sections.fields) \cup DOMAIN settings.object
      /\ \A k \in DOMAIN settings.object :
            k \notin DOMAIN raw.object \cap DOMAIN Sections.fields => new.object[k] = settings.object[k]
  BY <1>1, <1>7, MappingApplied, RedactionRules DEF IsOver
<1> QED
  BY <1>1, <1>8 DEF HasPatterns, new

-----------------------------------------------------------------------------
\* The patterns a file asks for are in force.

\* The values of the leaves of a list of texts.
LEMMA LeavesOfTexts ==
    ASSUME NEW list, IsJson(list), IsList(list), \A i \in DOMAIN list.array : IsText(list.array[i])
    PROVE  {leaf.value : leaf \in Leaves(list)} \ {List(<<>>)} = {list.array[i] : i \in DOMAIN list.array}
<1>1. Bounded(list) /\ WellFormed(list)
  BY NodesAreTrees, NodesOfParts DEF IsJson, Bounded
<1>2. ~IsRecord(list) /\ list = List([i \in DOMAIN list.array |-> list.array[i]])
  BY <1>1 DEF WellFormed, IsRecord, IsList, List
<1>3. Entries(list) = {<<Index(i), list.array[i]>> : i \in DOMAIN list.array}
  BY <1>2 DEF Entries
<1>4. Leaves(list) = IF Entries(list) = {} THEN {[path |-> <<>>, value |-> list]}
                     ELSE UNION {Below(e[1], Leaves(e[2])) : e \in Entries(list)}
  BY <1>1, LeavesOfParts
<1>5. CASE DOMAIN list.array = {}
  <2>1. list = List(<<>>)
    <3>1. [i \in DOMAIN list.array |-> list.array[i]] = <<>>
      BY <1>5
    <3> QED
      BY <1>2, <3>1
  <2>2. Leaves(list) = {[path |-> <<>>, value |-> list]}
    BY <1>3, <1>4, <1>5
  <2>3. \A leaf \in Leaves(list) : leaf.value = List(<<>>)
    BY <2>1, <2>2
  <2> QED
    BY <1>5, <2>3
<1>6. CASE DOMAIN list.array # {}
  <2>1. \A i \in DOMAIN list.array : WellFormed(list.array[i])
    BY <1>2, PartAt, NodeAt, NodesAreTrees
  <2>2. \A i \in DOMAIN list.array : ~IsRecord(list.array[i]) /\ ~IsList(list.array[i])
    BY <2>1 DEF WellFormed, IsText, IsRecord, IsList, Object, List
  <2>3. \A i \in DOMAIN list.array : Leaves(list.array[i]) = {[path |-> <<>>, value |-> list.array[i]]}
    BY <2>2, ScalarLeaf DEF Entries
  <2>4. \A i \in DOMAIN list.array : list.array[i] # List(<<>>)
    BY DEF IsText, List
  <2>5. Entries(list) # {}
    BY <1>3, <1>6
  <2>6. \A step, leaves, leaf : leaf \in Below(step, leaves) <=> \E l \in leaves : leaf = LeafBelow(step, l)
    BY DEF Below, LeafBelow
  <2>7. \A leaf : leaf \in Leaves(list) <=>
                    \E i \in DOMAIN list.array : leaf \in Below(Index(i), Leaves(list.array[i]))
    <3>1. \A leaf : leaf \in Leaves(list) <=> \E e \in Entries(list) : leaf \in Below(e[1], Leaves(e[2]))
      BY <1>4, <2>5
    <3>2. ASSUME NEW i \in DOMAIN list.array, NEW leaf
          PROVE  leaf \in Below(Index(i), Leaves(list.array[i])) => leaf \in Leaves(list)
      <4> DEFINE e == <<Index(i), list.array[i]>>
      <4>1. e \in Entries(list) /\ e[1] = Index(i) /\ e[2] = list.array[i]
        BY <1>3
      <4> HIDE DEF e
      <4> QED
        BY <3>1, <4>1
    <3>3. ASSUME NEW leaf \in Leaves(list)
          PROVE  \E i \in DOMAIN list.array : leaf \in Below(Index(i), Leaves(list.array[i]))
      <4>1. PICK e \in Entries(list) : leaf \in Below(e[1], Leaves(e[2]))
        BY <3>1
      <4>2. PICK i \in DOMAIN list.array : e = <<Index(i), list.array[i]>>
        BY <1>3
      <4>3. e[1] = Index(i) /\ e[2] = list.array[i]
        BY <4>2
      <4> QED
        BY <4>1, <4>3
    <3> QED
      BY <3>2, <3>3
  <2>8. ASSUME NEW leaf \in Leaves(list) PROVE \E i \in DOMAIN list.array : leaf.value = list.array[i]
    <3>1. PICK i \in DOMAIN list.array : leaf \in Below(Index(i), Leaves(list.array[i]))
      BY <2>7
    <3>2. PICK l \in Leaves(list.array[i]) : leaf = LeafBelow(Index(i), l)
      BY <2>6, <3>1
    <3>3. leaf.value = l.value /\ l.value = list.array[i]
      BY <2>3, <3>2 DEF LeafBelow
    <3> QED
      BY <3>3
  <2>9. ASSUME NEW i \in DOMAIN list.array PROVE \E leaf \in Leaves(list) : leaf.value = list.array[i]
    <3> DEFINE l == [path |-> <<>>, value |-> list.array[i]]
               leaf == LeafBelow(Index(i), l)
    <3>1. l \in Leaves(list.array[i])
      BY <2>3
    <3>2. leaf \in Leaves(list)
      BY <2>6, <2>7, <3>1
    <3>3. leaf.value = list.array[i]
      BY DEF LeafBelow
    <3> QED
      BY <3>2, <3>3
  <2> QED
    BY <2>4, <2>8, <2>9
<1> QED
  BY <1>5, <1>6
\* The leaves of a document that say which patterns are asked for.
AskedIn(document) ==
    {leaf \in Leaves(document) :
       Len(leaf.path) >= 2 /\ leaf.path[1] = Key("redaction") /\ leaf.path[2] = Key("patterns")}

\* They are those of the list of patterns.
LEMMA AskedAre ==
    ASSUME NEW v, Bounded(v), IsRecord(v),
           "redaction" \in DOMAIN v.object => IsRecord(v.object["redaction"])
    PROVE  /\ ~Asks(v) => AskedIn(v) = {}
           /\ Asks(v) =>
                /\ \A leaf \in AskedIn(v) : \E l \in Leaves(ListFor(v)) : leaf.value = l.value
                /\ \A l \in Leaves(ListFor(v)) : \E leaf \in AskedIn(v) : leaf.value = l.value
<1> DEFINE red == v.object["redaction"]
           list == red.object["patterns"]
           asks == "redaction" \in DOMAIN v.object /\ "patterns" \in DOMAIN red.object
<1>1. ASSUME "redaction" \in DOMAIN v.object
      PROVE  /\ Bounded(red) /\ IsRecord(red)
             /\ \A l \in Leaves(red) :
                  LET leaf == LeafBelow(Key("redaction"), l)
                  IN  /\ leaf \in Leaves(v) /\ Len(leaf.path) >= 1 /\ leaf.path[1] = Key("redaction")
                      /\ Len(l.path) \in Nat /\ Len(leaf.path) = Len(l.path) + 1
                      /\ Len(l.path) >= 1 => leaf.path[2] = l.path[1]
  <2>1. Bounded(red) /\ IsRecord(red)
    BY <1>1, PartAt, BoundedParts
  <2>2. ASSUME NEW l \in Leaves(red)
        PROVE  LET leaf == LeafBelow(Key("redaction"), l)
               IN  /\ Len(l.path) \in Nat /\ Len(leaf.path) = Len(l.path) + 1
                   /\ Len(l.path) >= 1 => leaf.path[2] = l.path[1]
    <3> DEFINE leaf == LeafBelow(Key("redaction"), l)
    <3>1. IsPath(l.path)
      BY <2>1, LeafPaths
    <3>2. leaf.path = <<Key("redaction")>> \o l.path
      BY DEF LeafBelow
    <3> HIDE DEF leaf
    <3>3. /\ Len(l.path) \in Nat /\ Len(leaf.path) = Len(l.path) + 1
          /\ \A i \in 1..Len(l.path) : leaf.path[i + 1] = l.path[i]
      BY <3>1, <3>2, Prepended
    <3>4. Len(l.path) >= 1 => leaf.path[1 + 1] = l.path[1]
      BY <3>3
    <3> QED
      BY <3>3, <3>4 DEF leaf
  <2>3. ASSUME NEW l \in Leaves(red)
        PROVE  LET leaf == LeafBelow(Key("redaction"), l)
               IN  leaf \in Leaves(v) /\ Len(leaf.path) >= 1 /\ leaf.path[1] = Key("redaction")
    BY <1>1, LeavesAt
  <2> QED
    BY <2>1, <2>2, <2>3
<1>2. ASSUME NEW leaf \in AskedIn(v)
      PROVE  asks /\ \E l \in Leaves(list) : leaf.value = l.value
  <2>1. leaf \in Leaves(v) /\ Len(leaf.path) >= 2
        /\ leaf.path[1] = Key("redaction") /\ leaf.path[2] = Key("patterns")
    BY DEF AskedIn
  <2>2. PICK x : "redaction" \in DOMAIN v.object /\ x \in Leaves(red) /\ leaf = LeafBelow(Key("redaction"), x)
    <3>1. Len(leaf.path) >= 1
      <4>1. PICK n \in {Len(leaf.path)} : n >= 2
        BY <2>1
      <4> QED
        BY <2>1, LeavesAt
    <3> QED
      BY <2>1, <3>1, LeavesAt
  <2>3. /\ Len(x.path) \in Nat /\ Len(leaf.path) = Len(x.path) + 1
        /\ Len(x.path) >= 1 => leaf.path[2] = x.path[1]
    BY <1>1, <2>2
  <2>4. Len(x.path) >= 1 /\ x.path[1] = Key("patterns")
    BY <2>1, <2>3
  <2>5. Bounded(red) /\ IsRecord(red)
    BY <1>1, <2>2
  <2> HIDE DEF red
  <2>6. PICK l : "patterns" \in DOMAIN red.object /\ l \in Leaves(list) /\ x = LeafBelow(Key("patterns"), l)
    BY <2>2, <2>4, <2>5, LeavesAt
  <2>7. leaf.value = l.value
    BY <2>2, <2>6 DEF LeafBelow
  <2> QED
    BY <2>2, <2>6, <2>7
<1>3. ASSUME asks, NEW l \in Leaves(list) PROVE \E leaf \in AskedIn(v) : leaf.value = l.value
  <2> DEFINE x == LeafBelow(Key("patterns"), l)
             leaf == LeafBelow(Key("redaction"), x)
  <2>1. Bounded(red) /\ IsRecord(red)
    BY <1>1, <1>3
  <2>2. x \in Leaves(red) /\ Len(x.path) >= 1 /\ x.path[1] = Key("patterns")
    <3> HIDE DEF red
    <3> QED
      BY <1>3, <2>1, LeavesAt
  <2>3. leaf.value = l.value
    BY DEF LeafBelow
  <2> HIDE DEF x
  <2>4. /\ leaf \in Leaves(v) /\ leaf.path[1] = Key("redaction")
        /\ Len(x.path) \in Nat /\ Len(leaf.path) = Len(x.path) + 1
        /\ Len(x.path) >= 1 => leaf.path[2] = x.path[1]
    BY <1>1, <1>3, <2>2
  <2> HIDE DEF leaf
  <2>5. leaf \in AskedIn(v)
    BY <2>2, <2>4 DEF AskedIn
  <2> QED
    BY <2>3, <2>5
<1>4. (Asks(v) <=> asks) /\ (asks => ListFor(v) = list)
  BY Zenon DEF Asks, ListFor
<1> QED
  BY <1>2, <1>3, <1>4

LEMMA PatternsAre ==
    ASSUME NEW settings, NEW list, HasPatterns(settings, list)
    PROVE  PatternsOf(settings) = {list.array[i].string : i \in DOMAIN list.array}
BY DEF HasPatterns, PatternsOf

LEMMA DefaultsAre ==
    {DefaultList.array[i].string : i \in DOMAIN DefaultList.array} = ToSet(DefaultPatterns)
<1>1. /\ DOMAIN DefaultList.array = DOMAIN DefaultPatterns
      /\ \A i \in DOMAIN DefaultPatterns : DefaultList.array[i].string = DefaultPatterns[i]
  BY DEF DefaultList, List, Text
<1> QED
  BY <1>1 DEF ToSet

\* A list of texts is asked for by its leaves.
LEMMA MeantOfList ==
    ASSUME NEW f, HasDocument(f), IsJson(f.document), AcceptsDocument(f.document), f.document # Null,
           Asks(f.document)
    PROVE  PatternsMeant(f) = {ListFor(f.document).array[i].string : i \in DOMAIN ListFor(f.document).array}
<1> DEFINE v == f.document
           red == v.object["redaction"]
           list == red.object["patterns"]
           asked == AskedIn(v)
<1>1. /\ "redaction" \in DOMAIN v.object /\ "patterns" \in DOMAIN red.object
      /\ ListFor(v) = list
  BY Zenon DEF Asks, ListFor
<1>2. IsRecord(v) /\ Accepts(RedactionSection, red)
  BY <1>1, RedactionRules DEF AcceptsDocument, KnownSections
<1>3. IsJson(red) /\ Bounded(v)
  <2>1. red \in Nodes(v)
    BY <1>1, <1>2, PartAt, NodeAt
  <2> QED
    BY <2>1, NodesAreTrees DEF IsJson, Bounded
<1>4. IsRecord(red) /\ IsList(list) /\ \A i \in DOMAIN list.array : IsText(list.array[i])
  BY <1>1, <1>2, <1>3, AcceptedPatterns
<1>5. IsJson(list)
  <2> HIDE DEF red
  <2>1. list \in Nodes(red)
    BY <1>1, <1>4, PartAt, NodeAt DEF red
  <2> QED
    BY <1>3, <2>1, NodesAreTrees
<1>6. {leaf.value : leaf \in Leaves(list)} \ {List(<<>>)} = {list.array[i] : i \in DOMAIN list.array}
  <2> HIDE DEF list
  <2> QED
    BY <1>4, <1>5, LeavesOfTexts
<1>7. /\ \A leaf \in asked : \E l \in Leaves(list) : leaf.value = l.value
      /\ \A l \in Leaves(list) : \E leaf \in asked : leaf.value = l.value
  BY <1>1, <1>2, <1>3, <1>4, AskedAre
<1>8. asked # {}
  <2> HIDE DEF list
  <2>1. Leaves(list) # {}
    BY <1>5, SomeLeaf DEF IsJson, Bounded
  <2> QED
    BY <1>7, <2>1
<1>9. PatternsMeant(f) = IF asked = {} THEN ToSet(DefaultPatterns)
                         ELSE {leaf.value.string : leaf \in {l \in asked : l.value # List(<<>>)}}
  BY Zenon DEF PatternsMeant, AskedIn
<1> HIDE DEF asked, list
<1>10. ASSUME NEW leaf \in asked, leaf.value # List(<<>>)
      PROVE  \E i \in DOMAIN list.array : leaf.value.string = list.array[i].string
  <2>1. leaf.value \in {list.array[i] : i \in DOMAIN list.array}
    BY <1>6, <1>7, <1>10
  <2> QED
    BY <2>1
<1>11. ASSUME NEW i \in DOMAIN list.array
       PROVE  \E leaf \in asked : leaf.value # List(<<>>) /\ leaf.value.string = list.array[i].string
  <2>1. list.array[i] \in {leaf.value : leaf \in Leaves(list)} /\ list.array[i] # List(<<>>)
    BY <1>6
  <2>2. PICK l \in Leaves(list) : l.value = list.array[i]
    BY <2>1
  <2> QED
    BY <1>7, <2>1, <2>2
<1>12. PatternsMeant(f) = {leaf.value.string : leaf \in {l \in asked : l.value # List(<<>>)}}
  BY <1>8, <1>9
<1>13. PatternsMeant(f) = {list.array[i].string : i \in DOMAIN list.array}
  BY <1>10, <1>11, <1>12
<1> QED
  BY <1>1, <1>13 DEF list

\* What is asked for is in force, whatever the flags say of the rest.
LEMMA PatternsInForce ==
    ASSUME NEW f, HasDocument(f) => IsJson(f.document), NEW required, AcceptsFile(f, required), NEW flags
    PROVE  \E list : /\ HasPatterns(LoadConfig(f, flags), list)
                     /\ PatternsMeant(f) = {list.array[i].string : i \in DOMAIN list.array}
<1>1. \A leaf : leaf \in AskedIn(Null) => FALSE
  <2>1. Leaves(Null) = {[path |-> <<>>, value |-> Null]}
    <3>1. Entries(Null) = {}
      BY DEF Entries, Null, IsRecord, IsList
    <3> QED
      BY <3>1, ScalarLeaf
  <2> QED
    BY <2>1 DEF AskedIn
<1>2. CASE ~HasDocument(f) \/ f.document = Null
  <2>1. PatternsMeant(f) = ToSet(DefaultPatterns)
    <3>1. AskedIn(Null) = {}
      BY <1>1
    <3> QED
      BY <1>2, <3>1, Zenon DEF PatternsMeant, AskedIn
  <2>2. LoadConfig(f, flags) = ApplyFlags(DefaultConfig, flags)
    BY <1>2, Zenon DEF LoadConfig, ApplyDocument
  <2>3. HasPatterns(LoadConfig(f, flags), DefaultList)
    BY <2>2, DefaultsHavePatterns, FlagsKeepPatterns
  <2> QED
    BY <2>1, <2>3, DefaultsAre
<1>3. CASE HasDocument(f) /\ f.document # Null
  <2> DEFINE v == f.document
             red == v.object["redaction"]
             list == ListFor(v)
  <2>1. AcceptsDocument(v)
    BY <1>3 DEF AcceptsFile
  <2>2. IsRecord(v) /\ HasPatterns(ApplyDocument(DefaultConfig, v), list)
    BY <1>3, <2>1, PatternsOfDocument
  <2>3. HasPatterns(LoadConfig(f, flags), list)
    <3> HIDE DEF list
    <3>1. LoadConfig(f, flags) = ApplyFlags(ApplyDocument(DefaultConfig, v), flags)
      BY <1>3, Zenon DEF LoadConfig
    <3> QED
      BY <2>2, <3>1, FlagsKeepPatterns
  <2>4. CASE Asks(v)
    BY <1>3, <2>1, <2>3, <2>4, MeantOfList
  <2>5. CASE ~Asks(v)
    <3>1. "redaction" \in DOMAIN v.object => IsRecord(red)
      <4> SUFFICES ASSUME "redaction" \in DOMAIN v.object PROVE IsRecord(red)
        OBVIOUS
      <4>1. Accepts(RedactionSection, red)
        BY <1>3, <2>1, <2>2, RedactionRules DEF AcceptsDocument, KnownSections
      <4>2. IsJson(red)
        BY <1>3, <2>2, PartAt, NodeAt, NodesAreTrees
      <4> QED
        BY <4>1, <4>2, AcceptedPatterns
    <3>2. Bounded(v)
      BY <1>3 DEF IsJson, Bounded
    <3>3. AskedIn(v) = {}
      BY <2>2, <2>5, <3>1, <3>2, AskedAre
    <3>4. PatternsMeant(f) = ToSet(DefaultPatterns)
      BY <1>3, <3>3, Zenon DEF PatternsMeant, AskedIn
    <3>5. list = DefaultList
      BY <2>5 DEF ListFor
    <3> QED
      BY <2>3, <3>4, <3>5, DefaultsAre
  <2> QED
    BY <2>4, <2>5
<1> QED
  BY <1>2, <1>3

\* The identity says nothing of the patterns.
LEMMA IdentityKeepsPatterns ==
    ASSUME NEW loaded, NEW list, HasPatterns(loaded, list)
    PROVE  HasPatterns(WithIdentity(loaded), list)
<1> DEFINE new == [loaded EXCEPT !.object.identity.object.profile = Text(Value("--identity"))]
<1>1. DOMAIN loaded = {"object"}
  BY DEF HasPatterns, Object
<1>2. /\ DOMAIN new = {"object"} /\ DOMAIN new.object = DOMAIN loaded.object
      /\ new = [k \in {"object"} |-> new[k]]
  BY <1>1
<1>3. new = Object(new.object)
  BY <1>2 DEF Object
<1>4. "redaction" \in DOMAIN loaded.object => new.object["redaction"] = loaded.object["redaction"]
  BY <1>1
<1>5. HasPatterns(new, list)
  BY <1>2, <1>3, <1>4 DEF HasPatterns
<1> QED
  BY <1>5, Zenon DEF WithIdentity

-----------------------------------------------------------------------------
\* A record is redacted with the patterns that are asked for.

KeepsArguments(r) ==
    /\ {"arguments", "origin"} \subseteq DOMAIN r
    /\ IsRedactionOf(r.arguments, r.origin.arguments, r.origin.patterns)

RedactionInv ==
    /\ pc \in {"open", "start", "session"} => PatternsOf(config) = PatternsMeant(file)
    /\ \A r \in dlq \cup todo : KeepsArguments(r)

LEMMA RedactionStep == RedactionInv /\ [Next]_vars => RedactionInv'
<1> SUFFICES ASSUME RedactionInv, [Next]_vars PROVE RedactionInv'
  OBVIOUS
<1>1. ASSUME \A r \in (dlq \cup todo)' : r \in dlq \cup todo PROVE \A r \in (dlq \cup todo)' : KeepsArguments(r)
  BY <1>1 DEF RedactionInv
<1>2. ASSUME pc' \notin {"open", "start", "session"}, todo' \subseteq dlq \cup todo, UNCHANGED dlq
      PROVE  RedactionInv'
  BY <1>1, <1>2 DEF RedactionInv, KeepsArguments
<1>3. ASSUME pc \in {"open", "start", "session"}, UNCHANGED <<file, config, dlq, todo>> PROVE RedactionInv'
  BY <1>1, <1>3 DEF RedactionInv, KeepsArguments
<1>4. ASSUME NEW l \in Lines, Type(l) PROVE RedactionInv'
  <2>1. dlq' = dlq /\ pc' \in {"prompt", "parse"} /\ todo' \subseteq todo
    BY <1>4 DEF Type, Exit, Goto
  <2> QED
    BY <1>2, <2>1
<1>5. CASE ReadSwitch \/ ReadOption \/ ReadId
  <2>1. pc = "parse" /\ UNCHANGED <<pc, dlq, todo>>
    BY <1>5 DEF ReadSwitch, ReadOption, ReadId, Read, touchVars
  <2> QED
    BY <1>2, <2>1
<1>6. CASE Reject \/ EndSession \/ Query \/ EndReplay
  <2>1. pc' = "prompt" /\ todo' = {} /\ UNCHANGED dlq
    BY <1>6, Zenon DEF Reject, EndSession, Query, EndReplay, Exit, Goto, kept
  <2> QED
    BY <1>2, <2>1
<1>7. CASE EndOptions
  <2>1. pc' \in {"load", "prompt"} /\ todo' \subseteq todo /\ UNCHANGED dlq
    BY <1>7 DEF EndOptions, Exit, Goto, kept, touchVars
  <2> QED
    BY <1>2, <2>1
<1>8. CASE LoadSettings
  <2>1. PICK f \in Files :
          \/ pc' = "prompt" /\ todo' = {} /\ UNCHANGED dlq
          \/ /\ AcceptsFile(f, Given("--config"))
             /\ file' = f /\ config' = WithIdentity(LoadConfig(f, FlagNumbers))
             /\ UNCHANGED <<dlq, todo>>
    BY <1>8 DEF LoadSettings, Exit, Goto, kept, touchVars
  <2>2. CASE pc' = "prompt" /\ todo' = {} /\ UNCHANGED dlq
    BY <1>2, <2>2
  <2>3. CASE /\ AcceptsFile(f, Given("--config"))
             /\ file' = f /\ config' = WithIdentity(LoadConfig(f, FlagNumbers))
             /\ UNCHANGED <<dlq, todo>>
    <3>1. HasDocument(f) => IsJson(f.document)
      BY CommandsAssumption
    <3>2. PICK list : /\ HasPatterns(LoadConfig(f, FlagNumbers), list)
                      /\ PatternsMeant(f) = {list.array[i].string : i \in DOMAIN list.array}
      BY <2>3, <3>1, PatternsInForce
    <3>3. HasPatterns(WithIdentity(LoadConfig(f, FlagNumbers)), list)
      BY <3>2, IdentityKeepsPatterns
    <3>4. PatternsOf(WithIdentity(LoadConfig(f, FlagNumbers))) = PatternsMeant(f)
      BY <3>2, <3>3, PatternsAre
    <3>5. PatternsOf(config') = PatternsMeant(file')
      BY <2>3, <3>4
    <3> QED
      BY <1>1, <2>3, <3>5 DEF RedactionInv, KeepsArguments
  <2> QED
    BY <2>1, <2>2, <2>3
<1>9. CASE OpenStores \/ StartServer
  <2>1. pc \in {"open", "start"} /\ UNCHANGED dlq
    BY <1>9 DEF OpenStores, StartServer, kept
  <2>2. \/ UNCHANGED <<file, config, todo>>
        \/ pc' = "prompt" /\ todo' = {}
    BY <1>9 DEF OpenStores, StartServer, Exit, Goto
  <2> QED
    BY <1>2, <1>3, <2>1, <2>2
<1>10. ASSUME NEW call \in Calls, CallTool(call) PROVE RedactionInv'
  <2>1. pc = "session" /\ UNCHANGED <<pc, file, config, todo>>
    BY <1>10 DEF CallTool
  <2>2. PatternsOf(config) = PatternsMeant(file)
    BY <2>1 DEF RedactionInv
  <2>3. IsRedactionOf(RedactValue(call.arguments, PatternsMeant(file)), call.arguments, PatternsMeant(file))
    BY RedactsOnlySecrets, CommandsAssumption
  <2>4. ASSUME NEW id PROVE KeepsArguments(RecordOf(id, call))
    <3>1. /\ {"arguments", "origin"} \subseteq DOMAIN RecordOf(id, call)
          /\ RecordOf(id, call).arguments = RedactValue(call.arguments, PatternsOf(config))
          /\ RecordOf(id, call).origin.arguments = call.arguments
          /\ RecordOf(id, call).origin.patterns = PatternsMeant(file)
      BY DEF RecordOf
    <3> QED
      BY <2>2, <2>3, <3>1 DEF KeepsArguments
  <2>5. \A r \in dlq' : r \in dlq \/ \E id : r = RecordOf(id, call)
    BY <1>10 DEF CallTool
  <2>6. \A r \in (dlq \cup todo)' : KeepsArguments(r)
    BY <2>1, <2>4, <2>5 DEF RedactionInv
  <2>7. PatternsOf(config') = PatternsMeant(file')
    BY <2>1, <2>2
  <2> QED
    BY <2>6, <2>7 DEF RedactionInv, KeepsArguments
<1>11. CASE Select
  <2>1. pc' \in {"replay", "prompt"} /\ todo' \subseteq dlq \cup todo /\ UNCHANGED dlq
    BY <1>11 DEF Select, Exit, Goto
  <2> QED
    BY <1>2, <2>1
<1>12. CASE ReplayRecord
  <2>1. PICK r \in todo : NotExecuted(r) \/ DryRun(r) \/ Redrive(r)
    BY <1>12 DEF ReplayRecord
  <2>2. pc = "replay" /\ pc' = pc /\ todo' \subseteq todo
    BY <1>12, <2>1 DEF ReplayRecord, NotExecuted, DryRun, Redrive, Take
  <2>3. \A s \in dlq' : s \in dlq \/ s = [r EXCEPT !.pending = FALSE]
    BY <2>1 DEF NotExecuted, DryRun, Redrive
  <2>4. KeepsArguments([r EXCEPT !.pending = FALSE])
    <3> DEFINE s == [r EXCEPT !.pending = FALSE]
    <3>1. DOMAIN s = DOMAIN r /\ \A f \in DOMAIN r \ {"pending"} : s[f] = r[f]
      BY Zenon
    <3>2. KeepsArguments(r)
      BY DEF RedactionInv
    <3>3. s.arguments = r.arguments /\ s.origin = r.origin
      BY <3>1, <3>2 DEF KeepsArguments
    <3> QED
      BY <3>1, <3>2, <3>3 DEF KeepsArguments
  <2>5. \A s \in (dlq \cup todo)' : KeepsArguments(s)
    BY <2>2, <2>3, <2>4 DEF RedactionInv
  <2> QED
    BY <2>2, <2>5 DEF RedactionInv, KeepsArguments
<1>13. CASE UNCHANGED vars
  <2>1. UNCHANGED <<pc, file, config, dlq, todo>>
    BY <1>13 DEF vars, touchVars
  <2> QED
    BY <1>1, <2>1 DEF RedactionInv, KeepsArguments
<1> QED
  BY <1>4, <1>5, <1>6, <1>7, <1>8, <1>9, <1>10, <1>11, <1>12, <1>13 DEF Next

\* loadConfig, redactValue and captureFailure: whatever file is accepted and whatever
\* a call is made with, a record keeps every value of the arguments but those below
\* a key that matches a pattern the file asks for, or a default one if it asks for
\* none; those it hides, behind one marker at the first such key.
THEOREM OnlySecrets == Spec => []OnlySecretsAreRedacted
<1>1. Init => RedactionInv
  BY DEF Init, RedactionInv
<1>2. RedactionInv => OnlySecretsAreRedacted
  BY DEF RedactionInv, KeepsArguments, OnlySecretsAreRedacted
<1> QED
  BY <1>1, <1>2, RedactionStep, PTL DEF Spec

-----------------------------------------------------------------------------
\* A replay sends the call of its record again.

\* A record keeps the arguments of its call, redacted with some patterns.
KeepsCall(r) ==
    /\ {"arguments", "origin"} \subseteq DOMAIN r
    /\ IsJson(r.origin.arguments) /\ IsRecord(r.origin.arguments)
    /\ \E patterns : r.arguments = RedactValue(r.origin.arguments, patterns)

ReplayInv ==
    /\ pc \in {"parse", "load", "open", "act", "start"} => sent = Nothing
    /\ pc = "replay" /\ Given("--dry-run") => sent = Nothing
    /\ pc \notin {"replay", "prompt"} => current = {}
    /\ \A r \in dlq \cup todo : KeepsCall(r)
    /\ ReplayIsComplete

\* What is sent for a record.
LEMMA SentForRecord ==
    ASSUME LineInv, pc = "replay", NEW r, KeepsCall(r), NEW sending,
           sending = ApplyOverrides(r.arguments, Overrides), RedactedMarkerKeys(sending) = {}
    PROVE  IsCallAgain(sending, r.origin.arguments, OverridesTo(Len(line.groups)))
<1>1. command = <<"replay", "run">> /\ ReadTo(Len(line.groups))
  BY DEF LineInv, Followed
<1>2. Overrides = OverridesTo(Len(line.groups))
  BY <1>1 DEF ReadTo, OptionsRead
<1>3. PICK patterns : r.arguments = RedactValue(r.origin.arguments, patterns)
  BY DEF KeepsCall
<1> DEFINE value == r.origin.arguments
           overrides == OverridesTo(Len(line.groups))
<1>4. IsJson(value) /\ IsRecord(value)
  BY DEF KeepsCall
<1>5. sending = ApplyOverrides(RedactValue(value, patterns), overrides)
  BY <1>2, <1>3
<1> HIDE DEF value, overrides
<1>6. MaxDepth >= 1
  BY SettingsAssumption, JsonAssumption
<1>7. RedactedMarkerKeys(ApplyOverrides(RedactValue(value, patterns), overrides)) = {}
  BY <1>5
<1>8. IsCallAgain(ApplyOverrides(RedactValue(value, patterns), overrides), value, overrides)
  BY <1>4, <1>6, <1>7, SentAgain
<1> QED
  BY <1>5, <1>8 DEF value, overrides

LEMMA ReplayStep == LineInv /\ ReplayInv /\ [Next]_vars => ReplayInv'
<1> SUFFICES ASSUME LineInv, ReplayInv, [Next]_vars PROVE ReplayInv'
  OBVIOUS
<1>1. ASSUME UNCHANGED <<line, sent, current>> PROVE ReplayIsComplete'
  BY <1>1 DEF ReplayInv, ReplayIsComplete, OverridesTo, Sets, PairAt
<1>2. ASSUME dlq' = dlq, todo' \subseteq dlq \cup todo PROVE \A r \in (dlq \cup todo)' : KeepsCall(r)
  BY <1>2 DEF ReplayInv
<1>3. ASSUME pc' = "prompt", todo' = {}, UNCHANGED <<line, sent, current, dlq>>
      PROVE  ReplayInv'
  BY <1>1, <1>2, <1>3 DEF ReplayInv, KeepsCall
<1>4. ASSUME pc \in {"parse", "load", "open", "start"}, pc' # "replay",
             UNCHANGED <<line, sent, current, dlq, todo>>
      PROVE  ReplayInv'
  BY <1>1, <1>2, <1>4 DEF ReplayInv, KeepsCall
<1>5. ASSUME NEW l \in Lines, Type(l) PROVE ReplayInv'
  <2>1. sent' = Nothing /\ current' = {} /\ dlq' = dlq /\ todo' \subseteq todo
    BY <1>5 DEF Type, Exit, Goto
  <2> QED
    BY <1>2, <2>1 DEF ReplayInv, ReplayIsComplete, KeepsCall
<1>6. CASE ReadSwitch \/ ReadOption \/ ReadId
  BY <1>4, <1>6 DEF ReadSwitch, ReadOption, ReadId, Read, touchVars
<1>7. CASE Reject \/ EndSession \/ Query \/ EndReplay
  BY <1>3, <1>7, Zenon DEF Reject, EndSession, Query, EndReplay, Exit, Goto, kept
<1>8. CASE EndOptions
  BY <1>3, <1>4, <1>8 DEF EndOptions, Exit, Goto, kept, touchVars, parseVars
<1>9. CASE LoadSettings
  BY <1>3, <1>4, <1>9 DEF LoadSettings, Exit, Goto, kept, touchVars, parseVars
<1>10. CASE OpenStores
  BY <1>3, <1>4, <1>10 DEF OpenStores, Exit, Goto, parseVars
<1>11. CASE StartServer
  BY <1>3, <1>4, <1>11 DEF StartServer, Exit, Goto, kept, parseVars
<1>12. ASSUME NEW call \in Calls, CallTool(call) PROVE ReplayInv'
  <2>1. pc = "session" /\ current = {} /\ UNCHANGED <<pc, current, todo>>
    BY <1>12 DEF CallTool, ReplayInv
  <2>2. ASSUME NEW id PROVE KeepsCall(RecordOf(id, call))
    <3>1. /\ {"arguments", "origin"} \subseteq DOMAIN RecordOf(id, call)
          /\ RecordOf(id, call).arguments = RedactValue(call.arguments, PatternsOf(config))
          /\ RecordOf(id, call).origin.arguments = call.arguments
      BY DEF RecordOf
    <3>2. IsJson(call.arguments) /\ IsRecord(call.arguments)
      BY CommandsAssumption DEF CommandsAssumption
    <3> QED
      BY <3>1, <3>2 DEF KeepsCall
  <2>3. \A r \in dlq' : r \in dlq \/ \E id : r = RecordOf(id, call)
    BY <1>12 DEF CallTool
  <2>4. \A r \in (dlq \cup todo)' : KeepsCall(r)
    BY <2>1, <2>2, <2>3 DEF ReplayInv
  <2>5. ReplayIsComplete'
    BY <2>1 DEF ReplayIsComplete
  <2> QED
    BY <2>1, <2>4, <2>5 DEF ReplayInv, KeepsCall
<1>13. CASE Select
  <2>1. CASE pc' = "replay"
    <3>1. UNCHANGED <<line, sent, current, dlq>> /\ todo' \subseteq dlq /\ sent = Nothing
      BY <1>13, <2>1 DEF Select, parseVars, Exit, Goto, ReplayInv
    <3> QED
      BY <1>1, <1>2, <2>1, <3>1 DEF ReplayInv, KeepsCall
  <2>2. CASE pc' = "prompt"
    BY <1>3, <1>13, <2>2 DEF Select, Exit, Goto
  <2> QED
    BY <1>13, <2>1, <2>2 DEF Select, Exit, Goto
<1>14. CASE ReplayRecord
  <2>1. PICK r \in todo : NotExecuted(r) \/ DryRun(r) \/ Redrive(r)
    BY <1>14 DEF ReplayRecord
  <2>2. /\ pc = "replay" /\ todo' \subseteq todo /\ current' = {r}
        /\ UNCHANGED <<pc, line, options>>
    BY <1>14, <2>1 DEF ReplayRecord, NotExecuted, DryRun, Redrive, Take, parseVars
  <2>3. KeepsCall(r)
    BY DEF ReplayInv
  <2>4. Given("--dry-run") => sent' = Nothing
    BY <2>1, <2>2 DEF NotExecuted, DryRun, Redrive, ReplayInv
  <2>5. ReplayIsComplete'
    <3>1. CASE sent' = Nothing
      BY <3>1 DEF ReplayIsComplete
    <3>2. CASE sent' # Nothing
      <4>1. Redrive(r)
        BY <2>1, <2>2, <3>2 DEF NotExecuted, DryRun, ReplayInv
      <4> DEFINE sending == ApplyOverrides(r.arguments, Overrides)
      <4>2. RedactedMarkerKeys(sending) = {} /\ sent'.arguments = sending
        BY <4>1 DEF Redrive
      <4> HIDE DEF sending
      <4>3. IsCallAgain(sending, r.origin.arguments, OverridesTo(Len(line.groups)))
        BY <2>2, <2>3, <4>2, SentForRecord DEF sending
      <4>4. OverridesTo(Len(line.groups))' = OverridesTo(Len(line.groups))
        BY <2>2 DEF OverridesTo, Sets, PairAt
      <4> QED
        BY <2>2, <4>2, <4>3, <4>4 DEF ReplayIsComplete
    <3> QED
      BY <3>1, <3>2
  <2>6. \A s \in dlq' : s \in dlq \/ s = [r EXCEPT !.pending = FALSE]
    BY <2>1 DEF NotExecuted, DryRun, Redrive
  <2>7. KeepsCall([r EXCEPT !.pending = FALSE])
    <3> DEFINE s == [r EXCEPT !.pending = FALSE]
    <3>1. DOMAIN s = DOMAIN r /\ \A f \in DOMAIN r \ {"pending"} : s[f] = r[f]
      BY Zenon
    <3>2. s.arguments = r.arguments /\ s.origin = r.origin
      BY <2>3, <3>1 DEF KeepsCall
    <3> QED
      BY <2>3, <3>1, <3>2 DEF KeepsCall
  <2>8. \A s \in (dlq \cup todo)' : KeepsCall(s)
    BY <2>2, <2>6, <2>7 DEF ReplayInv
  <2> QED
    BY <2>2, <2>4, <2>5, <2>8 DEF ReplayInv, KeepsCall, Given
<1>15. CASE UNCHANGED vars
  <2>1. UNCHANGED <<pc, options, line, sent, current, dlq, todo>>
    BY <1>15 DEF vars, parseVars, touchVars
  <2> QED
    BY <1>1, <1>2, <2>1 DEF ReplayInv, KeepsCall, Given
<1> QED
  BY <1>5, <1>6, <1>7, <1>8, <1>9, <1>10, <1>11, <1>12, <1>13, <1>14, <1>15 DEF Next

\* parseRunTokens, captureFailure, redactedMarkerKeys, resolveArguments and attemptReplay:
\* whatever is typed and whatever the call was, what `replay run` sends for a record is
\* the call that failed, with each key that --set names set to the text it was given
\* last: nothing redaction took away is missing, and no marker is sent for it.
THEOREM ReplaysAreComplete == Spec => []ReplayIsComplete
<1>1. Init => LineInv /\ ReplayInv
  BY DEF Init, LineInv, ReplayInv, ReplayIsComplete
<1>2. LineInv /\ ReplayInv /\ [Next]_vars => (LineInv /\ ReplayInv)'
  BY LineStep, ReplayStep
<1>3. ReplayInv => ReplayIsComplete
  BY DEF ReplayInv
<1> QED
  BY <1>1, <1>2, <1>3, PTL DEF Spec

-----------------------------------------------------------------------------
\* The settings of the calls.

ToolEntry == PerTool.each

\* A rule of single values.
IsPlain(r) ==
    /\ "fields" \notin DOMAIN r /\ "each" \notin DOMAIN r /\ "entry" \notin DOMAIN r
    /\ r # Scalar("duration")
    /\ \A v : WellFormed(v) /\ HasScalar(v, r) => Entries(v) = {}

LEMMA PlainRules ==
    /\ \A n : IsPlain(IntegerFrom(n))
    /\ \A words : IsPlain(OneOf(words))
    /\ IsPlain(Scalar("boolean"))
<1>1. ASSUME NEW v, WellFormed(v), IsNumber(v) \/ IsText(v) \/ IsBoolean(v) PROVE Entries(v) = {}
  <2>1. IsRecord(v) => DOMAIN v = {"object"}
    BY <1>1 DEF WellFormed, Object
  <2>2. IsList(v) => DOMAIN v = {"array"}
    BY <1>1 DEF WellFormed, List
  <2> QED
    BY <1>1, <2>1, <2>2 DEF Entries, IsNumber, IsText, IsBoolean, IsRecord, IsList
<1>2. ASSUME NEW n PROVE IsPlain(IntegerFrom(n))
  <2>1. DOMAIN IntegerFrom(n) = {"least"} /\ DOMAIN Scalar("duration") = {"of"}
    BY DEF IntegerFrom, Scalar
  <2>2. \A v : HasScalar(v, IntegerFrom(n)) => IsNumber(v)
    BY <2>1 DEF HasScalar
  <2> QED
    BY <1>1, <2>1, <2>2 DEF IsPlain
<1>3. ASSUME NEW words PROVE IsPlain(OneOf(words))
  <2>1. DOMAIN OneOf(words) = {"among"} /\ DOMAIN Scalar("duration") = {"of"}
    BY DEF OneOf, Scalar
  <2>2. \A v : HasScalar(v, OneOf(words)) => IsText(v)
    BY <2>1 DEF HasScalar
  <2> QED
    BY <1>1, <2>1, <2>2 DEF IsPlain
<1>4. IsPlain(Scalar("boolean"))
  <2>1. DOMAIN Scalar("boolean") = {"of"} /\ Scalar("boolean").of = "boolean"
        /\ Scalar("boolean") # Scalar("duration")
    BY DEF Scalar
  <2>2. \A v : HasScalar(v, Scalar("boolean")) => IsBoolean(v)
    BY <2>1 DEF HasScalar, IsSetting
  <2> QED
    BY <1>1, <2>1, <2>2 DEF IsPlain
<1> QED
  BY <1>2, <1>3, <1>4

LEMMA MappingParts ==
    ASSUME NEW r, DOMAIN r = {"fields", "required"}
    PROVE  \A k \in DOMAIN r.fields : r.fields[k] \in RuleParts(r)
BY DEF RuleParts

\* The rules of the section and of the mappings in it.
LEMMA ReliabilityShapes ==
    /\ DOMAIN Reliability = {"fields", "required"} /\ Reliability # Scalar("duration")
    /\ DOMAIN Reliability.fields = {"timeout_ms", "idempotent_default", "retry", "replay", "per_tool"}
    /\ IsPlain(Reliability.fields["timeout_ms"]) /\ IsPlain(Reliability.fields["idempotent_default"])
    /\ Reliability.fields["retry"] = Retry /\ Reliability.fields["per_tool"] = PerTool
    /\ DOMAIN PerTool = {"each", "refused"} /\ PerTool # Scalar("duration")
    /\ DOMAIN ToolEntry = {"fields", "required"} /\ ToolEntry # Scalar("duration")
    /\ DOMAIN ToolEntry.fields = {"timeout_ms", "idempotent", "effects", "retry", "capture_tool_errors"}
    /\ \A k \in DOMAIN ToolEntry.fields : k # "retry" => IsPlain(ToolEntry.fields[k])
    /\ ToolEntry.fields["retry"] = Retry
    /\ DOMAIN Retry = {"fields", "required"} /\ Retry # Scalar("duration")
    /\ DOMAIN Retry.fields = {"max_attempts", "backoff", "base_ms", "jitter"}
    /\ \A k \in DOMAIN Retry.fields : IsPlain(Retry.fields[k])
<1>1. /\ IsPlain(IntegerFrom(0)) /\ IsPlain(IntegerFrom(1)) /\ IsPlain(Scalar("boolean"))
      /\ IsPlain(OneOf({"exponential"})) /\ IsPlain(OneOf({"read", "write"}))
  BY PlainRules
<1>2. DOMAIN Scalar("duration") = {"of"}
  BY DEF Scalar
<1>3. /\ DOMAIN Retry = {"fields", "required"}
      /\ DOMAIN Retry.fields = {"max_attempts", "backoff", "base_ms", "jitter"}
      /\ Retry.fields["max_attempts"] = IntegerFrom(1) /\ Retry.fields["base_ms"] = IntegerFrom(0)
      /\ Retry.fields["backoff"] = OneOf({"exponential"}) /\ Retry.fields["jitter"] = Scalar("boolean")
  BY DEF Retry, Mapping
<1>4. /\ DOMAIN PerTool = {"each", "refused"}
      /\ ToolEntry = Mapping([timeout_ms |-> IntegerFrom(1), idempotent |-> Scalar("boolean"),
                              effects |-> OneOf({"read", "write"}), retry |-> Retry,
                              capture_tool_errors |-> Scalar("boolean")], {})
  BY DEF PerTool, ByName, ToolEntry
<1>5. /\ DOMAIN ToolEntry = {"fields", "required"}
      /\ DOMAIN ToolEntry.fields = {"timeout_ms", "idempotent", "effects", "retry", "capture_tool_errors"}
      /\ ToolEntry.fields["timeout_ms"] = IntegerFrom(1) /\ ToolEntry.fields["idempotent"] = Scalar("boolean")
      /\ ToolEntry.fields["effects"] = OneOf({"read", "write"}) /\ ToolEntry.fields["retry"] = Retry
      /\ ToolEntry.fields["capture_tool_errors"] = Scalar("boolean")
  BY <1>4 DEF Mapping
<1>6. /\ DOMAIN Reliability = {"fields", "required"}
      /\ DOMAIN Reliability.fields = {"timeout_ms", "idempotent_default", "retry", "replay", "per_tool"}
      /\ Reliability.fields["timeout_ms"] = IntegerFrom(1)
      /\ Reliability.fields["idempotent_default"] = Scalar("boolean")
      /\ Reliability.fields["retry"] = Retry /\ Reliability.fields["per_tool"] = PerTool
  BY DEF Reliability, Mapping
<1>7. Reliability # Scalar("duration") /\ PerTool # Scalar("duration") /\ ToolEntry # Scalar("duration")
      /\ Retry # Scalar("duration")
  BY <1>2, <1>3, <1>4, <1>5, <1>6
<1>8. \A k \in DOMAIN ToolEntry.fields : k # "retry" => IsPlain(ToolEntry.fields[k])
  BY <1>1, <1>5
<1>9. \A k \in DOMAIN Retry.fields : IsPlain(Retry.fields[k])
  BY <1>1, <1>3
<1> QED
  BY <1>1, <1>3, <1>4, <1>5, <1>6, <1>7, <1>8, <1>9, Zenon

\* They stand in the rules of a section that has them.
ReliabilityIn(rules) ==
    /\ {Reliability, Retry, PerTool, ToolEntry} \subseteq rules
    /\ Reliability.fields["timeout_ms"] \in rules /\ Reliability.fields["idempotent_default"] \in rules
    /\ \A k \in DOMAIN ToolEntry.fields : ToolEntry.fields[k] \in rules
    /\ \A k \in DOMAIN Retry.fields : Retry.fields[k] \in rules

LEMMA ReliabilityRules == ReliabilityIn(RulesIn(Reliability)) /\ ReliabilityIn(RulesIn(Sections))
<1>1. /\ DOMAIN Sections = {"fields", "required"} /\ "reliability" \in DOMAIN Sections.fields
      /\ Sections.fields["reliability"] = Reliability
  BY DEF Sections, Mapping
<1>2. Reliability \in RuleParts(Sections)
  BY <1>1, MappingParts
<1>3. /\ Retry \in RuleParts(Reliability) /\ PerTool \in RuleParts(Reliability)
      /\ Reliability.fields["timeout_ms"] \in RuleParts(Reliability)
      /\ Reliability.fields["idempotent_default"] \in RuleParts(Reliability)
  <2>1. \A k \in DOMAIN Reliability.fields : Reliability.fields[k] \in RuleParts(Reliability)
    BY ReliabilityShapes, MappingParts
  <2>2. {"retry", "per_tool", "timeout_ms", "idempotent_default"} \subseteq DOMAIN Reliability.fields
    BY ReliabilityShapes
  <2>3. Reliability.fields["retry"] = Retry /\ Reliability.fields["per_tool"] = PerTool
    BY ReliabilityShapes
  <2> QED
    BY <2>1, <2>2, <2>3
<1>4. ToolEntry \in RuleParts(PerTool)
  BY ReliabilityShapes DEF RuleParts, ToolEntry
<1>5. \A k \in DOMAIN ToolEntry.fields : ToolEntry.fields[k] \in RuleParts(ToolEntry)
  BY ReliabilityShapes, MappingParts
<1>6. \A k \in DOMAIN Retry.fields : Retry.fields[k] \in RuleParts(Retry)
  BY ReliabilityShapes, MappingParts
<1>7. ReliabilityIn(RulesIn(Reliability))
  BY <1>3, <1>4, <1>5, <1>6, RulesReached DEF ReliabilityIn
<1>8. ReliabilityIn(RulesIn(Sections))
  BY <1>2, <1>3, <1>4, <1>5, <1>6, RulesReached DEF ReliabilityIn
<1> QED
  BY <1>7, <1>8

\* What is known of the parts of a value that breaks no rule.
NothingBroken(broken, value, rules) ==
    /\ IsJson(value)
    /\ \A v \in Nodes(value), r \in rules : broken[v][r] = Broken(v, r, broken)

LEMMA MappingAccepted ==
    ASSUME NEW value, NEW rules, NEW broken, NothingBroken(broken, value, rules), NEW v \in Nodes(value),
           NEW r \in rules, DOMAIN r = {"fields", "required"}, broken[v][r] = {}
    PROVE  /\ IsRecord(v) /\ WellFormed(v) /\ DOMAIN v.object \subseteq DOMAIN r.fields
           /\ \A k \in DOMAIN v.object : v.object[k] \in Nodes(value) /\ broken[v.object[k]][r.fields[k]] = {}
<1>1. Broken(v, r, broken) = {}
  BY DEF NothingBroken
<1>2. HasFields(v, r)
  BY <1>1 DEF Broken
<1>3. IsRecord(v) /\ DOMAIN v.object \subseteq DOMAIN r.fields
  BY <1>2 DEF HasFields
<1>4. Broken(v, r, broken)
        = UNION {broken[v.object[k]][r.fields[k]] : k \in DOMAIN v.object \cap DOMAIN r.fields}
  BY <1>2 DEF Broken
<1>5. \A k \in DOMAIN v.object : broken[v.object[k]][r.fields[k]] = {}
  BY <1>1, <1>3, <1>4
<1>6. \A k \in DOMAIN v.object : v.object[k] \in Nodes(value)
  BY <1>3, PartAt, BoundedNodes DEF NothingBroken, IsJson, Bounded
<1>7. WellFormed(v)
  BY NodesAreTrees DEF NothingBroken
<1> QED
  BY <1>3, <1>5, <1>6, <1>7

LEMMA NamesAccepted ==
    ASSUME NEW value, NEW rules, NEW broken, NothingBroken(broken, value, rules), NEW v \in Nodes(value),
           NEW r \in rules, DOMAIN r = {"each", "refused"}, broken[v][r] = {}
    PROVE  /\ IsRecord(v) /\ WellFormed(v)
           /\ \A k \in DOMAIN v.object : v.object[k] \in Nodes(value) /\ broken[v.object[k]][r.each] = {}
<1>1. Broken(v, r, broken) = {}
  BY DEF NothingBroken
<1>2. IsRecord(v) /\ Broken(v, r, broken) = UNION {broken[v.object[k]][r.each] : k \in DOMAIN v.object}
  BY <1>1 DEF Broken
<1>3. \A k \in DOMAIN v.object : broken[v.object[k]][r.each] = {}
  BY <1>1, <1>2
<1>4. \A k \in DOMAIN v.object : v.object[k] \in Nodes(value)
  BY <1>2, PartAt, BoundedNodes DEF NothingBroken, IsJson, Bounded
<1>5. WellFormed(v)
  BY NodesAreTrees DEF NothingBroken
<1> QED
  BY <1>2, <1>3, <1>4, <1>5

LEMMA PlainAccepted ==
    ASSUME NEW value, NEW rules, NEW broken, NothingBroken(broken, value, rules), NEW v \in Nodes(value),
           NEW r \in rules, IsPlain(r), broken[v][r] = {}
    PROVE  Entries(v) = {}
<1>1. Broken(v, r, broken) = {}
  BY DEF NothingBroken
<1>2. HasScalar(v, r)
  BY <1>1 DEF Broken, IsPlain
<1>3. WellFormed(v)
  BY NodesAreTrees DEF NothingBroken
<1> QED
  BY <1>2, <1>3 DEF IsPlain

\* What the mappings of an accepted section look like.
IsRetry(v) ==
    /\ IsRecord(v) /\ WellFormed(v) /\ DOMAIN v.object \subseteq DOMAIN Retry.fields
    /\ \A k \in DOMAIN v.object : Entries(v.object[k]) = {}

IsToolEntry(v) ==
    /\ IsRecord(v) /\ WellFormed(v) /\ DOMAIN v.object \subseteq DOMAIN ToolEntry.fields
    /\ \A k \in DOMAIN v.object : IF k = "retry" THEN IsRetry(v.object[k]) ELSE Entries(v.object[k]) = {}

IsPerTool(v) ==
    /\ IsRecord(v) /\ WellFormed(v)
    /\ \A tool \in DOMAIN v.object : IsToolEntry(v.object[tool])

Settled == {"timeout_ms", "idempotent_default"}

IsReliability(v) ==
    /\ IsRecord(v)
    /\ \A k \in DOMAIN v.object \cap Settled : Entries(v.object[k]) = {}
    /\ "retry" \in DOMAIN v.object => IsRetry(v.object["retry"])
    /\ "per_tool" \in DOMAIN v.object => IsPerTool(v.object["per_tool"])

LEMMA AcceptedReliability ==
    ASSUME NEW v, IsJson(v), Accepts(Reliability, v)
    PROVE  IsReliability(v)
<1> DEFINE rules == RulesIn(Reliability)
           broken == BrokenIn(v, rules)
<1>1. /\ broken[v][Reliability] = {}
      /\ \A n \in Nodes(v), r \in rules : broken[n][r] = Broken(n, r, broken)
  BY AcceptsIs, Zenon
<1>2. ReliabilityIn(rules)
  BY ReliabilityRules
<1> HIDE DEF rules, broken
<1>3. NothingBroken(broken, v, rules)
  BY <1>1 DEF NothingBroken
<1>4. v \in Nodes(v)
  BY NodeAt
<1>5. ASSUME NEW n \in Nodes(v), broken[n][Retry] = {} PROVE IsRetry(n)
  <2>1. Retry \in rules /\ DOMAIN Retry = {"fields", "required"}
    BY <1>2, ReliabilityShapes DEF ReliabilityIn
  <2>2. /\ IsRecord(n) /\ WellFormed(n) /\ DOMAIN n.object \subseteq DOMAIN Retry.fields
        /\ \A k \in DOMAIN n.object : n.object[k] \in Nodes(v) /\ broken[n.object[k]][Retry.fields[k]] = {}
    BY <1>3, <1>5, <2>1, MappingAccepted
  <2>3. \A k \in DOMAIN Retry.fields : Retry.fields[k] \in rules /\ IsPlain(Retry.fields[k])
    BY <1>2, ReliabilityShapes DEF ReliabilityIn
  <2>4. ASSUME NEW k \in DOMAIN n.object PROVE Entries(n.object[k]) = {}
    <3>1. n.object[k] \in Nodes(v) /\ broken[n.object[k]][Retry.fields[k]] = {}
      BY <2>2
    <3>2. Retry.fields[k] \in rules /\ IsPlain(Retry.fields[k])
      BY <2>2, <2>3
    <3> QED
      BY <1>3, <3>1, <3>2, PlainAccepted
  <2> QED
    BY <2>2, <2>4 DEF IsRetry
<1>6. ASSUME NEW n \in Nodes(v), broken[n][ToolEntry] = {} PROVE IsToolEntry(n)
  <2>1. ToolEntry \in rules /\ DOMAIN ToolEntry = {"fields", "required"} /\ ToolEntry.fields["retry"] = Retry
    BY <1>2, ReliabilityShapes DEF ReliabilityIn
  <2>2. /\ IsRecord(n) /\ WellFormed(n) /\ DOMAIN n.object \subseteq DOMAIN ToolEntry.fields
        /\ \A k \in DOMAIN n.object : n.object[k] \in Nodes(v) /\ broken[n.object[k]][ToolEntry.fields[k]] = {}
    BY <1>3, <1>6, <2>1, MappingAccepted
  <2>3. \A k \in DOMAIN ToolEntry.fields :
           ToolEntry.fields[k] \in rules /\ (k # "retry" => IsPlain(ToolEntry.fields[k]))
    BY <1>2, ReliabilityShapes DEF ReliabilityIn
  <2>4. ASSUME NEW k \in DOMAIN n.object
        PROVE  IF k = "retry" THEN IsRetry(n.object[k]) ELSE Entries(n.object[k]) = {}
    <3>1. n.object[k] \in Nodes(v) /\ broken[n.object[k]][ToolEntry.fields[k]] = {}
      BY <2>2
    <3>2. k # "retry" => ToolEntry.fields[k] \in rules /\ IsPlain(ToolEntry.fields[k])
      BY <2>2, <2>3
    <3>3. k # "retry" => Entries(n.object[k]) = {}
      BY <1>3, <3>1, <3>2, PlainAccepted
    <3>4. k = "retry" => IsRetry(n.object[k])
      BY <1>5, <2>1, <3>1
    <3> QED
      BY <3>3, <3>4
  <2> QED
    BY <2>2, <2>4 DEF IsToolEntry
<1>7. ASSUME NEW n \in Nodes(v), broken[n][PerTool] = {} PROVE IsPerTool(n)
  <2>1. PerTool \in rules /\ DOMAIN PerTool = {"each", "refused"} /\ PerTool.each = ToolEntry
    BY <1>2, ReliabilityShapes DEF ReliabilityIn, ToolEntry
  <2>2. /\ IsRecord(n) /\ WellFormed(n)
        /\ \A k \in DOMAIN n.object : n.object[k] \in Nodes(v) /\ broken[n.object[k]][PerTool.each] = {}
    BY <1>3, <1>7, <2>1, NamesAccepted
  <2> QED
    BY <1>6, <2>1, <2>2 DEF IsPerTool
<1>8. Reliability \in rules /\ DOMAIN Reliability = {"fields", "required"}
  BY <1>2, ReliabilityShapes DEF ReliabilityIn
<1>9. /\ IsRecord(v)
      /\ \A k \in DOMAIN v.object : v.object[k] \in Nodes(v) /\ broken[v.object[k]][Reliability.fields[k]] = {}
  BY <1>1, <1>3, <1>4, <1>8, MappingAccepted
<1>10. \A k \in Settled : Reliability.fields[k] \in rules /\ IsPlain(Reliability.fields[k])
  BY <1>2, ReliabilityShapes DEF ReliabilityIn, Settled
<1>11. ASSUME NEW k \in DOMAIN v.object \cap Settled PROVE Entries(v.object[k]) = {}
  <2>1. Reliability.fields[k] \in rules /\ IsPlain(Reliability.fields[k])
    BY <1>10
  <2>2. v.object[k] \in Nodes(v) /\ broken[v.object[k]][Reliability.fields[k]] = {}
    BY <1>9
  <2> QED
    BY <1>3, <2>1, <2>2, PlainAccepted
<1>12. "retry" \in DOMAIN v.object => IsRetry(v.object["retry"])
  BY <1>5, <1>9, ReliabilityShapes
<1>13. "per_tool" \in DOMAIN v.object => IsPerTool(v.object["per_tool"])
  BY <1>7, <1>9, ReliabilityShapes
<1> QED
  BY <1>9, <1>11, <1>12, <1>13 DEF IsReliability

\* What stands over what was in force in each of them.
Applies(applied, value, old) ==
    \A v \in Nodes(value), r \in RulesIn(Sections), before \in Nodes(old) \cup {EmptyObject} :
       applied[v][<<r, before>>] = Replacing(r, before, v, applied)

LEMMA PlainReplaced ==
    ASSUME NEW r, IsPlain(r)
    PROVE  \A before, v, applied : Replacing(r, before, v, applied) = v
BY DEF IsPlain, Replacing

\* The fields a mapping has, over those that were in force.
LEMMA FieldsReplaced ==
    ASSUME NEW v, IsRecord(v), NEW r, DOMAIN r = {"fields", "required"}, r # Scalar("duration"),
           DOMAIN v.object \subseteq DOMAIN r.fields, NEW before, NEW applied,
           \A k \in DOMAIN v.object : applied[v.object[k]][<<r.fields[k], OldField(before, k)>>] = v.object[k]
    PROVE  Replacing(r, before, v, applied) = Object(Over(v.object, before.object))
<1> DEFINE fields == [k \in DOMAIN v.object \cap DOMAIN r.fields |->
                        applied[v.object[k]][<<r.fields[k], OldField(before, k)>>]]
<1>1. Replacing(r, before, v, applied) = Object(Over(fields, before.object))
  BY DEF Replacing, OldField
<1>2. DOMAIN fields = DOMAIN v.object /\ \A k \in DOMAIN v.object : fields[k] = v.object[k]
  OBVIOUS
<1> HIDE DEF fields
<1>3. Over(fields, before.object) = Over(v.object, before.object)
  BY <1>2 DEF Over
<1> QED
  BY <1>1, <1>3

LEMMA RetryReplaced ==
    ASSUME NEW value, NEW old, NEW applied, Bounded(value), Applies(applied, value, old),
           NEW v \in Nodes(value), IsRetry(v), NEW before \in Nodes(old) \cup {EmptyObject},
           IsRecord(before), Parts(before) \subseteq Nodes(old)
    PROVE  applied[v][<<Retry, before>>] = Object(Over(v.object, before.object))
<1>1. /\ Retry \in RulesIn(Sections) /\ DOMAIN Retry = {"fields", "required"} /\ Retry # Scalar("duration")
      /\ \A k \in DOMAIN Retry.fields : Retry.fields[k] \in RulesIn(Sections) /\ IsPlain(Retry.fields[k])
  BY ReliabilityRules, ReliabilityShapes DEF ReliabilityIn
<1>2. IsRecord(v) /\ DOMAIN v.object \subseteq DOMAIN Retry.fields
  BY DEF IsRetry
<1>3. ASSUME NEW k \in DOMAIN v.object
      PROVE  applied[v.object[k]][<<Retry.fields[k], OldField(before, k)>>] = v.object[k]
  <2>1. v.object[k] \in Nodes(value)
    BY <1>2, PartAt, BoundedNodes
  <2>2. OldField(before, k) \in Nodes(old) \cup {EmptyObject}
    BY PartAt DEF OldField
  <2>3. Retry.fields[k] \in RulesIn(Sections) /\ IsPlain(Retry.fields[k])
    BY <1>1, <1>2
  <2>4. applied[v.object[k]][<<Retry.fields[k], OldField(before, k)>>]
          = Replacing(Retry.fields[k], OldField(before, k), v.object[k], applied)
    BY <2>1, <2>2, <2>3 DEF Applies
  <2> QED
    BY <2>3, <2>4, PlainReplaced
<1>4. Replacing(Retry, before, v, applied) = Object(Over(v.object, before.object))
  BY <1>1, <1>2, <1>3, FieldsReplaced
<1> QED
  BY <1>1, <1>4 DEF Applies

\* An object over nothing is that object.
LEMMA OverNothing ==
    ASSUME NEW v, IsRecord(v), WellFormed(v)
    PROVE  Object(Over(v.object, EmptyObject.object)) = v
<1>1. DOMAIN EmptyObject.object = {}
  BY DEF EmptyObject, Object
<1>2. v = Object([k \in DOMAIN v.object |-> v.object[k]])
  BY DEF WellFormed
<1>3. Over(v.object, EmptyObject.object) = [k \in DOMAIN v.object |-> v.object[k]]
  BY <1>1 DEF Over
<1> QED
  BY <1>2, <1>3

LEMMA EntryReplaced ==
    ASSUME NEW value, NEW old, NEW applied, Bounded(value), Applies(applied, value, old),
           NEW v \in Nodes(value), IsToolEntry(v)
    PROVE  applied[v][<<ToolEntry, EmptyObject>>] = v
<1>1. /\ ToolEntry \in RulesIn(Sections) /\ DOMAIN ToolEntry = {"fields", "required"}
      /\ ToolEntry # Scalar("duration") /\ ToolEntry.fields["retry"] = Retry
      /\ \A k \in DOMAIN ToolEntry.fields :
            ToolEntry.fields[k] \in RulesIn(Sections) /\ (k # "retry" => IsPlain(ToolEntry.fields[k]))
  BY ReliabilityRules, ReliabilityShapes DEF ReliabilityIn
<1>2. IsRecord(v) /\ DOMAIN v.object \subseteq DOMAIN ToolEntry.fields /\ WellFormed(v)
  BY DEF IsToolEntry
<1>3. \A k : OldField(EmptyObject, k) = EmptyObject
  BY DEF OldField, EmptyObject, Object
<1>4. IsRecord(EmptyObject) /\ Parts(EmptyObject) = {}
  BY DEF EmptyObject, Object, IsRecord, Parts, Entries
<1>5. ASSUME NEW k \in DOMAIN v.object
      PROVE  applied[v.object[k]][<<ToolEntry.fields[k], OldField(EmptyObject, k)>>] = v.object[k]
  <2>1. v.object[k] \in Nodes(value)
    BY <1>2, PartAt, BoundedNodes
  <2>2. CASE k = "retry"
    <3>1. IsRetry(v.object[k])
      BY <2>2 DEF IsToolEntry
    <3> DEFINE retry == v.object[k]
    <3>2. retry \in Nodes(value) /\ IsRetry(retry)
      BY <2>1, <3>1
    <3> HIDE DEF retry
    <3>3. applied[retry][<<Retry, EmptyObject>>] = Object(Over(retry.object, EmptyObject.object))
      BY <1>4, <3>2, RetryReplaced
    <3>4. Object(Over(retry.object, EmptyObject.object)) = retry
      BY <3>2, OverNothing DEF IsRetry
    <3> QED
      BY <1>1, <1>3, <2>2, <3>3, <3>4 DEF retry
  <2>3. CASE k # "retry"
    <3>1. ToolEntry.fields[k] \in RulesIn(Sections) /\ IsPlain(ToolEntry.fields[k])
      BY <1>1, <1>2, <2>3
    <3>2. applied[v.object[k]][<<ToolEntry.fields[k], EmptyObject>>]
            = Replacing(ToolEntry.fields[k], EmptyObject, v.object[k], applied)
      BY <2>1, <3>1 DEF Applies
    <3> QED
      BY <1>3, <3>1, <3>2, PlainReplaced
  <2> QED
    BY <2>2, <2>3
<1>6. Replacing(ToolEntry, EmptyObject, v, applied) = Object(Over(v.object, EmptyObject.object))
  BY <1>1, <1>2, <1>5, FieldsReplaced
<1>7. applied[v][<<ToolEntry, EmptyObject>>] = Replacing(ToolEntry, EmptyObject, v, applied)
  BY <1>1 DEF Applies
<1> QED
  BY <1>2, <1>6, <1>7, OverNothing

LEMMA PerToolReplaced ==
    ASSUME NEW value, NEW old, NEW applied, Bounded(value), Applies(applied, value, old),
           NEW v \in Nodes(value), IsPerTool(v), NEW before \in Nodes(old) \cup {EmptyObject}
    PROVE  applied[v][<<PerTool, before>>] = Object(Over(v.object, before.object))
<1> DEFINE each == [k \in DOMAIN v.object |-> applied[v.object[k]][<<ToolEntry, EmptyObject>>]]
<1>1. PerTool \in RulesIn(Sections) /\ DOMAIN PerTool = {"each", "refused"} /\ PerTool # Scalar("duration")
  BY ReliabilityRules, ReliabilityShapes DEF ReliabilityIn
<1>2. IsRecord(v)
  BY DEF IsPerTool
<1>3. Replacing(PerTool, before, v, applied) = Object(Over(each, before.object))
  BY <1>1, <1>2 DEF Replacing, ToolEntry
<1>4. ASSUME NEW k \in DOMAIN v.object PROVE applied[v.object[k]][<<ToolEntry, EmptyObject>>] = v.object[k]
  <2>1. v.object[k] \in Nodes(value) /\ IsToolEntry(v.object[k])
    BY <1>2, PartAt, BoundedNodes DEF IsPerTool
  <2> QED
    BY <2>1, EntryReplaced
<1>5. DOMAIN each = DOMAIN v.object /\ \A k \in DOMAIN v.object : each[k] = v.object[k]
  BY <1>4
<1> HIDE DEF each
<1>6. Over(each, before.object) = Over(v.object, before.object)
  BY <1>5 DEF Over
<1> QED
  BY <1>1, <1>3, <1>6 DEF Applies

\* The fields of a section that are in force, and those a document has for it.
InForce(settings) == settings.object["reliability"].object
FieldsOf(fields, k) == IF k \in DOMAIN fields THEN fields[k].object ELSE <<>>
Written(document) == FieldsOf(document.object, "reliability")

HasSettings(settings) ==
    /\ settings = Object(settings.object) /\ "reliability" \in DOMAIN settings.object
    /\ settings.object["reliability"] = Object(InForce(settings))
    /\ Settled \cup {"retry", "per_tool"} \subseteq DOMAIN InForce(settings)
    /\ \A k \in {"retry", "per_tool"} : InForce(settings)[k] = Object(InForce(settings)[k].object)

\* What they come to: a mapping is merged, anything else replaced.
Settles(after, written, before) ==
    /\ \A k \in Settled : after[k] = IF k \in DOMAIN written THEN written[k] ELSE before[k]
    /\ \A k \in {"retry", "per_tool"} :
          after[k] = IF k \in DOMAIN written THEN Object(Over(written[k].object, before[k].object)) ELSE before[k]

LEMMA ReliabilityApplied ==
    ASSUME NEW value, Bounded(value), IsRecord(value),
           "reliability" \in DOMAIN value.object => IsReliability(value.object["reliability"]),
           NEW old, HasSettings(old)
    PROVE  LET new == Applied(Sections, old, value)
           IN  HasSettings(new) /\ Settles(InForce(new), Written(value), InForce(old))
<1> DEFINE v == value.object["reliability"]
           before == old.object["reliability"]
           new == Applied(Sections, old, value)
           after == new.object["reliability"]
<1>1. PICK applied : AreApplications(applied, value, Sections, old)
  BY AppliedIs
<1>2. new = applied[value][<<Sections, old>>] /\ Applies(applied, value, old)
  BY <1>1 DEF AreApplications, Applies
<1>3. value \in Nodes(value) /\ old \in Nodes(old) /\ Sections \in RulesIn(Sections)
  BY NodeAt, RulesReached
<1>4. /\ DOMAIN Sections = {"fields", "required"} /\ Sections # Scalar("duration")
      /\ "reliability" \in DOMAIN Sections.fields /\ Sections.fields["reliability"] = Reliability
  BY RedactionRules DEF Sections, Mapping
<1>5. new = Replacing(Sections, old, value, applied)
  BY <1>2, <1>3 DEF Applies
<1> HIDE DEF new
<1>6. IsOver(new, value, Sections, old, applied)
  BY <1>4, <1>5, MappingApplied
<1>7. /\ new = Object(new.object) /\ "reliability" \in DOMAIN new.object
      /\ "reliability" \in DOMAIN value.object => after = applied[v][<<Reliability, OldField(old, "reliability")>>]
      /\ "reliability" \notin DOMAIN value.object => after = before
  BY <1>4, <1>6 DEF IsOver, HasSettings
<1>8. "reliability" \in DOMAIN old.object /\ before = Object(before.object) /\ IsRecord(old)
  BY DEF HasSettings, InForce, IsRecord, Object
<1>9. OldField(old, "reliability") = before /\ IsRecord(before)
  BY <1>8 DEF OldField, IsRecord, Object
<1>10. /\ before \in Nodes(old) /\ Parts(before) \subseteq Nodes(old)
       /\ \A p \in Parts(before) : Parts(p) \subseteq Nodes(old)
  BY <1>8, PartAt, NodeAt
<1>11. CASE "reliability" \notin DOMAIN value.object
  <2>1. Written(value) = <<>>
    BY <1>11 DEF Written, FieldsOf
  <2>2. InForce(new) = InForce(old) /\ HasSettings(new)
    BY <1>7, <1>11 DEF InForce, HasSettings
  <2> QED
    BY <2>1, <2>2 DEF Settles, new
<1>12. CASE "reliability" \in DOMAIN value.object
  <2> HIDE DEF v, before, after
  <2>1. IsReliability(v) /\ v \in Nodes(value) /\ IsRecord(v) /\ Written(value) = v.object
    BY <1>12, PartAt, NodeAt DEF v, IsReliability, Written, FieldsOf
  <2>2. /\ Reliability \in RulesIn(Sections) /\ DOMAIN Reliability = {"fields", "required"}
        /\ Reliability # Scalar("duration")
    BY ReliabilityRules, ReliabilityShapes DEF ReliabilityIn
  <2>3. after = Replacing(Reliability, before, v, applied)
    BY <1>2, <1>7, <1>9, <1>10, <1>12, <2>1, <2>2 DEF Applies
  <2>4. IsOver(after, v, Reliability, before, applied)
    BY <2>1, <2>2, <2>3, MappingApplied
  <2>5. Settled \cup {"retry", "per_tool"} \subseteq DOMAIN before.object
    BY DEF HasSettings, InForce, before
  <2>6. Settled \cup {"retry", "per_tool"} \subseteq DOMAIN Reliability.fields
    BY ReliabilityShapes DEF Settled
  <2>7. ASSUME NEW k \in Settled \cup {"retry", "per_tool"}
        PROVE  /\ k \in DOMAIN after.object
               /\ after.object[k] = IF k \in DOMAIN v.object
                                    THEN applied[v.object[k]][<<Reliability.fields[k], before.object[k]>>]
                                    ELSE before.object[k]
    BY <2>4, <2>5, <2>6 DEF IsOver, OldField
  <2>8. ASSUME NEW k \in Settled \cup {"retry", "per_tool"}
        PROVE  /\ before.object[k] \in Nodes(old)
               /\ k \in DOMAIN v.object => v.object[k] \in Nodes(value)
               /\ IsRecord(before.object[k]) => Parts(before.object[k]) \subseteq Nodes(old)
    <3>1. before.object[k] \in Parts(before)
      BY <1>9, <2>5, PartAt
    <3>2. k \in DOMAIN v.object => v.object[k] \in Nodes(value)
      BY <2>1, PartAt, BoundedNodes
    <3> QED
      BY <1>10, <3>1, <3>2
  <2>9. ASSUME NEW k \in Settled, k \in DOMAIN v.object
        PROVE  applied[v.object[k]][<<Reliability.fields[k], before.object[k]>>] = v.object[k]
    <3>1. Reliability.fields[k] \in RulesIn(Sections) /\ IsPlain(Reliability.fields[k])
      BY ReliabilityRules, ReliabilityShapes DEF ReliabilityIn, Settled
    <3>2. applied[v.object[k]][<<Reliability.fields[k], before.object[k]>>]
            = Replacing(Reliability.fields[k], before.object[k], v.object[k], applied)
      BY <1>2, <2>8, <2>9, <3>1 DEF Applies
    <3> QED
      BY <3>1, <3>2, PlainReplaced
  <2>10. \A k \in {"retry", "per_tool"} : IsRecord(before.object[k])
    BY DEF HasSettings, InForce, before, IsRecord, Object
  <2>11. ASSUME "retry" \in DOMAIN v.object
         PROVE  applied[v.object["retry"]][<<Reliability.fields["retry"], before.object["retry"]>>]
                  = Object(Over(v.object["retry"].object, before.object["retry"].object))
    <3> DEFINE retry == v.object["retry"]
               oldRetry == before.object["retry"]
    <3>1. /\ retry \in Nodes(value) /\ IsRetry(retry) /\ oldRetry \in Nodes(old) \cup {EmptyObject}
          /\ IsRecord(oldRetry) /\ Parts(oldRetry) \subseteq Nodes(old)
      BY <2>1, <2>8, <2>10, <2>11 DEF IsReliability
    <3> HIDE DEF retry, oldRetry
    <3>2. applied[retry][<<Retry, oldRetry>>] = Object(Over(retry.object, oldRetry.object))
      BY <1>2, <3>1, RetryReplaced
    <3> QED
      BY <3>2, ReliabilityShapes DEF retry, oldRetry
  <2>12. ASSUME "per_tool" \in DOMAIN v.object
         PROVE  applied[v.object["per_tool"]][<<Reliability.fields["per_tool"], before.object["per_tool"]>>]
                  = Object(Over(v.object["per_tool"].object, before.object["per_tool"].object))
    <3> DEFINE tools == v.object["per_tool"]
               oldTools == before.object["per_tool"]
    <3>1. tools \in Nodes(value) /\ IsPerTool(tools) /\ oldTools \in Nodes(old) \cup {EmptyObject}
      BY <2>1, <2>8, <2>12 DEF IsReliability
    <3> HIDE DEF tools, oldTools
    <3>2. applied[tools][<<PerTool, oldTools>>] = Object(Over(tools.object, oldTools.object))
      BY <1>2, <3>1, PerToolReplaced
    <3> QED
      BY <3>2, ReliabilityShapes DEF tools, oldTools
  <2>13. Settles(after.object, v.object, before.object)
    BY <2>7, <2>9, <2>11, <2>12 DEF Settles
  <2>14. after = Object(after.object) /\ Settled \cup {"retry", "per_tool"} \subseteq DOMAIN after.object
    BY <2>4, <2>7 DEF IsOver
  <2>15. \A k \in {"retry", "per_tool"} : after.object[k] = Object(after.object[k].object)
    <3>1. \A fields : Object(fields) = Object(Object(fields).object)
      BY DEF Object
    <3>2. \A k \in {"retry", "per_tool"} : before.object[k] = Object(before.object[k].object)
      BY DEF HasSettings, InForce, before
    <3>3. \A k \in {"retry", "per_tool"} : \E fields : after.object[k] = Object(fields)
      BY <2>13, <3>2 DEF Settles
    <3> QED
      BY <3>1, <3>3
  <2>16. HasSettings(new)
    BY <1>7, <2>14, <2>15 DEF HasSettings, InForce, after
  <2> QED
    BY <2>1, <2>13, <2>16, Zenon DEF InForce, after, before, new
<1> QED
  BY <1>11, <1>12

\* The defaults.
LEMMA DefaultFields ==
    /\ DOMAIN DefaultRetry = {"max_attempts", "backoff", "base_ms", "jitter"}
    /\ DefaultRetry = [k \in DOMAIN DefaultRetry |-> DefaultRetry[k]]
    /\ \A k \in DOMAIN DefaultRetry : Entries(DefaultRetry[k]) = {}
    /\ DOMAIN DefaultReliability = {"timeout_ms", "retry", "replay", "idempotent_default", "per_tool"}
    /\ Entries(DefaultReliability["timeout_ms"]) = {}
    /\ Entries(DefaultReliability["idempotent_default"]) = {}
    /\ DefaultReliability["retry"] = Object(DefaultRetry) /\ DefaultReliability["per_tool"] = EmptyObject
<1>1. /\ DOMAIN DefaultRetry = {"max_attempts", "backoff", "base_ms", "jitter"}
      /\ DefaultRetry = [k \in DOMAIN DefaultRetry |-> DefaultRetry[k]]
  BY DEF DefaultRetry
<1>2. /\ Entries(DefaultRetry["max_attempts"]) = {} /\ Entries(DefaultRetry["base_ms"]) = {}
  BY DEF DefaultRetry, Entries, IsRecord, IsList, Number
<1>3. Entries(DefaultRetry["backoff"]) = {}
  BY DEF DefaultRetry, Entries, IsRecord, IsList, Text
<1>4. Entries(DefaultRetry["jitter"]) = {}
  BY DEF DefaultRetry, Entries, IsRecord, IsList, Boolean
<1>5. /\ DOMAIN DefaultReliability = {"timeout_ms", "retry", "replay", "idempotent_default", "per_tool"}
      /\ DefaultReliability["retry"] = Object(DefaultRetry) /\ DefaultReliability["per_tool"] = EmptyObject
  BY DEF DefaultReliability
<1>6. Entries(DefaultReliability["timeout_ms"]) = {}
  BY DEF DefaultReliability, Entries, IsRecord, IsList, Number
<1>7. Entries(DefaultReliability["idempotent_default"]) = {}
  BY DEF DefaultReliability, Entries, IsRecord, IsList, Boolean
<1> QED
  BY <1>1, <1>2, <1>3, <1>4, <1>5, <1>6, <1>7

LEMMA DefaultSettings ==
    /\ HasSettings(DefaultConfig) /\ IsReliability(DefaultConfig.object["reliability"])
    /\ IsRecord(DefaultConfig) /\ Written(DefaultConfig) = InForce(DefaultConfig)
    /\ InForce(DefaultConfig) = DefaultReliability
<1>1. /\ DefaultConfig = Object(DefaultConfig.object) /\ "reliability" \in DOMAIN DefaultConfig.object
      /\ DefaultConfig.object["reliability"] = Object(DefaultReliability)
  BY DEF DefaultConfig, Object
<1>2. \A fields : IsRecord(Object(fields)) /\ ~IsList(Object(fields)) /\ Object(fields).object = fields
  BY DEF IsRecord, IsList, Object
<1>3. InForce(DefaultConfig) = DefaultReliability
  BY <1>1, <1>2 DEF InForce
<1>4. IsRetry(Object(DefaultRetry))
  <2> DEFINE retry == Object(DefaultRetry)
  <2>1. IsRecord(retry) /\ ~IsList(retry) /\ retry.object = DefaultRetry /\ retry = Object(DefaultRetry)
    BY <1>2
  <2> HIDE DEF retry
  <2>2. WellFormed(retry)
    BY <2>1, DefaultFields DEF WellFormed
  <2>3. IsRetry(retry)
    BY <2>1, <2>2, DefaultFields, ReliabilityShapes DEF IsRetry
  <2> QED
    BY <2>3 DEF retry
<1>5. IsPerTool(EmptyObject) /\ EmptyObject = Object(EmptyObject.object)
  <2>1. EmptyObject.object = <<>> /\ DOMAIN EmptyObject.object = {} /\ IsRecord(EmptyObject)
        /\ ~IsList(EmptyObject)
    BY <1>2 DEF EmptyObject
  <2>2. [k \in DOMAIN EmptyObject.object |-> EmptyObject.object[k]] = <<>>
    BY <2>1
  <2> QED
    BY <2>1, <2>2 DEF IsPerTool, WellFormed, EmptyObject
<1>6. IsReliability(Object(DefaultReliability))
  <2> DEFINE section == Object(DefaultReliability)
  <2>1. IsRecord(section) /\ section.object = DefaultReliability
    BY <1>2
  <2> HIDE DEF section
  <2>2. IsReliability(section)
    BY <1>4, <1>5, <2>1, DefaultFields DEF IsReliability, Settled
  <2> QED
    BY <2>2 DEF section
<1>7. HasSettings(DefaultConfig)
  BY <1>1, <1>2, <1>3, <1>5, DefaultFields DEF HasSettings, Settled
<1>8. IsRecord(DefaultConfig) /\ Written(DefaultConfig) = InForce(DefaultConfig)
  BY <1>1, <1>2 DEF Written, FieldsOf, InForce
<1> QED
  BY <1>1, <1>3, <1>6, <1>7, <1>8

LEMMA DefaultBounded == Bounded(DefaultConfig)
<1> DEFINE Low(v) == Parts(v) = {}
           Mid(v) == \A p \in Parts(v) : Low(p)
           High(v) == \A p \in Parts(v) : Mid(p)
<1>1. /\ \A n : Low(Number(n))
      /\ \A s : Low(Text(s))
      /\ \A b : Low(Boolean(b))
  BY DEF Parts, Entries, IsRecord, IsList, Number, Text, Boolean
<1>2. Low(EmptyObject)
  BY DEF Parts, Entries, IsRecord, IsList, EmptyObject, Object
<1>3. Low(List(<<>>))
  BY DEF Parts, Entries, IsRecord, IsList, List
<1>4. \A fields : Parts(Object(fields)) = {fields[k] : k \in DOMAIN fields}
  BY PartsOfObject
<1> HIDE DEF Low
<1>5. \A v : Low(v) => Mid(v)
  BY DEF Low
<1>6. \A fields : (\A k \in DOMAIN fields : Low(fields[k])) => Mid(Object(fields))
  BY <1>4
<1> HIDE DEF Mid
<1>7. \A v : Low(v) => High(v)
  BY DEF Low
<1>8. \A fields : (\A k \in DOMAIN fields : Mid(fields[k])) => High(Object(fields))
  BY <1>4
<1> HIDE DEF High
<1>9. High(DefaultConfig.object["reliability"])
  <2> DEFINE window == [dedup_window |-> Number(24 * 60 * 60 * 1000)]
  <2>1. \A k \in DOMAIN DefaultRetry : Low(DefaultRetry[k])
    BY DefaultFields DEF Low, Parts
  <2>2. Mid(Object(DefaultRetry))
    BY <1>6, <2>1
  <2>3. Mid(Object(window))
    BY <1>1, <1>6
  <2>4. Low(DefaultReliability["timeout_ms"]) /\ Low(DefaultReliability["idempotent_default"])
    BY DefaultFields DEF Low, Parts
  <2>5. DefaultReliability["replay"] = Object(window)
    BY DEF DefaultReliability
  <2> HIDE DEF window
  <2>6. \A k \in DOMAIN DefaultReliability : Mid(DefaultReliability[k])
    BY <1>2, <1>5, <2>2, <2>3, <2>4, <2>5, DefaultFields
  <2>7. High(Object(DefaultReliability))
    BY <1>8, <2>6
  <2> QED
    BY <2>7 DEF DefaultConfig, Object
<1>10. \A path : Mid(Object([path |-> Text(path)]))
  BY <1>1, <1>6
<1>11. High(DefaultConfig.object["queue"])
  <2> DEFINE rabbitmq == [url |-> Text("amqp://localhost"), exchange |-> Text("mcp.dlx"), queue |-> Text("mcp.dlq")]
             sqlite == Object([path |-> Text("./.mcprelay/queue.db")])
             section == [provider |-> Text("sqlite"), sqlite |-> sqlite, rabbitmq |-> Object(rabbitmq)]
  <2>1. Mid(Object(rabbitmq))
    BY <1>1, <1>6
  <2>2. Mid(sqlite)
    BY <1>10
  <2> HIDE DEF rabbitmq, sqlite
  <2>3. High(Object(section))
    BY <1>1, <1>5, <1>8, <2>1, <2>2
  <2> QED
    BY <2>3 DEF DefaultConfig, section, rabbitmq, sqlite, Object
<1>12. High(DefaultConfig.object["store"])
  <2> DEFINE sqlite == Object([path |-> Text("./.mcprelay/history.db")])
             section == [provider |-> Text("sqlite"), sqlite |-> sqlite, retention_days |-> Number(30)]
  <2>1. Mid(sqlite)
    BY <1>10
  <2> HIDE DEF sqlite
  <2>2. High(Object(section))
    BY <1>1, <1>5, <1>8, <2>1
  <2> QED
    BY <2>2 DEF DefaultConfig, section, sqlite, Object
<1>13. High(DefaultConfig.object["redaction"])
  <2> DEFINE section == [patterns |-> DefaultList]
  <2>1. \A p \in Parts(DefaultList) : Low(p)
    <3>1. /\ ~IsRecord(DefaultList) /\ IsList(DefaultList)
          /\ \A i \in DOMAIN DefaultList.array : DefaultList.array[i] = Text(DefaultPatterns[i])
      BY DEF DefaultList, List, IsRecord, IsList
    <3>2. Entries(DefaultList) = {<<Index(i), DefaultList.array[i]>> : i \in DOMAIN DefaultList.array}
      BY <3>1 DEF Entries
    <3>3. \A p \in Parts(DefaultList) : \E i \in DOMAIN DefaultList.array : p = DefaultList.array[i]
      BY <3>2 DEF Parts
    <3> QED
      BY <1>1, <3>1, <3>3
  <2>2. Mid(DefaultList)
    BY <2>1 DEF Mid
  <2> HIDE DEF DefaultList
  <2>3. High(Object(section))
    BY <1>8, <2>2
  <2> QED
    BY <2>3 DEF DefaultConfig, section, DefaultList, Object
<1>14. High(DefaultConfig.object["identity"])
  <2> DEFINE section == [profile |-> Text("local"), keys |-> List(<<>>)]
  <2>1. High(Object(section))
    BY <1>1, <1>3, <1>5, <1>8
  <2> QED
    BY <2>1 DEF DefaultConfig, section, Object
<1>15. High(DefaultConfig.object["policy"])
  <2> DEFINE section == [default |-> Text("allow"), rules |-> List(<<>>)]
  <2>1. High(Object(section))
    BY <1>1, <1>3, <1>5, <1>8
  <2> QED
    BY <2>1 DEF DefaultConfig, section, Object
<1>16. High(DefaultConfig.object["upstream"])
  <2> DEFINE http == [headers |-> EmptyObject]
             section == [http |-> Object(http)]
  <2>1. Mid(Object(http))
    BY <1>2, <1>6
  <2> HIDE DEF http
  <2>2. High(Object(section))
    BY <1>8, <2>1
  <2> QED
    BY <2>2 DEF DefaultConfig, section, http, Object
<1>17. \A p \in Parts(DefaultConfig) : High(p)
  <2>1. /\ IsRecord(DefaultConfig)
        /\ DOMAIN DefaultConfig.object
             = {"reliability", "queue", "store", "redaction", "identity", "policy", "upstream"}
        /\ DefaultConfig = Object(DefaultConfig.object)
    BY DEF DefaultConfig, Object, IsRecord
  <2>2. Parts(DefaultConfig) = {DefaultConfig.object[k] : k \in DOMAIN DefaultConfig.object}
    BY <1>4, <2>1
  <2> QED
    BY <1>9, <1>11, <1>12, <1>13, <1>14, <1>15, <1>16, <2>1, <2>2
<1>18. \A p \in Parts(DefaultConfig) : \A q \in Parts(p) : \A x \in Parts(q) : Parts(x) = {}
  BY <1>17 DEF High, Mid, Low
<1> QED
  BY <1>18, FourLevels

\* The identity says nothing of them.
LEMMA IdentityKeepsSettings ==
    ASSUME NEW loaded, HasSettings(loaded)
    PROVE  HasSettings(WithIdentity(loaded)) /\ InForce(WithIdentity(loaded)) = InForce(loaded)
<1> DEFINE new == [loaded EXCEPT !.object.identity.object.profile = Text(Value("--identity"))]
<1>1. DOMAIN loaded = {"object"}
  BY DEF HasSettings, Object
<1>2. /\ DOMAIN new = {"object"} /\ DOMAIN new.object = DOMAIN loaded.object
      /\ new = [k \in {"object"} |-> new[k]]
  BY <1>1
<1>3. new = Object(new.object)
  BY <1>2 DEF Object
<1>4. "reliability" \in DOMAIN loaded.object => new.object["reliability"] = loaded.object["reliability"]
  BY <1>1
<1> HIDE DEF new
<1>5. HasSettings(new) /\ InForce(new) = InForce(loaded)
  BY <1>2, <1>3, <1>4 DEF HasSettings, InForce
<1> QED
  BY <1>5, Zenon DEF WithIdentity, new

-----------------------------------------------------------------------------
\* The leaves at a path.

Said(fields, k) == IF k \in DOMAIN fields THEN {fields[k]} ELSE {}

LEMMA SamePath ==
    ASSUME NEW s, NEW p, IsPath(p), NEW q, IsPath(q), <<s>> \o p = <<s>> \o q
    PROVE  p = q
<1> PICK S : p \in Seq(S)
  BY DEF IsPath
<1> PICK T : q \in Seq(T)
  BY DEF IsPath
<1> DEFINE U == S \cup T
<1>1. p \in Seq(U) /\ q \in Seq(U)
  OBVIOUS
<1>2. /\ Len(p) \in Nat /\ Len(q) \in Nat /\ Len(<<s>> \o p) = Len(p) + 1 /\ Len(<<s>> \o q) = Len(q) + 1
      /\ \A i \in 1..Len(p) : (<<s>> \o p)[i + 1] = p[i]
      /\ \A i \in 1..Len(q) : (<<s>> \o q)[i + 1] = q[i]
  BY Prepended
<1>3. Len(p) = Len(q) /\ \A i \in 1..Len(p) : p[i] = q[i]
  BY <1>2
<1> HIDE DEF U
<1> QED
  BY <1>1, <1>3, SeqEqual

LEMMA AtField ==
    ASSUME NEW v, Bounded(v), IsRecord(v), NEW k, NEW path, IsPath(path)
    PROVE  At(Leaves(v), <<Key(k)>> \o path)
             = IF k \in DOMAIN v.object THEN At(Leaves(v.object[k]), path) ELSE {}
<1> DEFINE whole == <<Key(k)>> \o path
<1>1. \A leaves, p, x : x \in At(leaves, p) <=> \E leaf \in leaves : leaf.path = p /\ x = leaf.value
  BY DEF At
<1>2. Len(whole) >= 1 /\ whole[1] = Key(k)
  BY Prepended
<1> HIDE DEF whole
<1>3. ASSUME NEW x \in At(Leaves(v), whole)
      PROVE  k \in DOMAIN v.object /\ x \in At(Leaves(v.object[k]), path)
  <2>1. PICK leaf \in Leaves(v) : leaf.path = whole /\ x = leaf.value
    BY <1>1, <1>3
  <2>2. k \in DOMAIN v.object /\ \E l \in Leaves(v.object[k]) : leaf = LeafBelow(Key(k), l)
    BY <1>2, <2>1, LeavesAt
  <2>3. PICK l \in Leaves(v.object[k]) : leaf = LeafBelow(Key(k), l)
    BY <2>2
  <2>4. leaf.path = <<Key(k)>> \o l.path /\ leaf.value = l.value
    BY <2>3 DEF LeafBelow
  <2>5. IsPath(l.path)
    BY <2>2, PartAt, BoundedParts, LeafPaths
  <2>6. l.path = path
    BY <2>1, <2>4, <2>5, SamePath DEF whole
  <2> QED
    BY <1>1, <2>1, <2>2, <2>4, <2>6
<1>4. ASSUME k \in DOMAIN v.object, NEW x \in At(Leaves(v.object[k]), path) PROVE x \in At(Leaves(v), whole)
  <2>1. PICK l \in Leaves(v.object[k]) : l.path = path /\ x = l.value
    BY <1>1, <1>4
  <2> DEFINE leaf == LeafBelow(Key(k), l)
  <2>2. leaf \in Leaves(v)
    BY <1>4, LeavesAt
  <2>3. leaf.path = whole /\ leaf.value = x
    BY <2>1 DEF LeafBelow, whole
  <2> HIDE DEF leaf
  <2> QED
    BY <1>1, <2>2, <2>3
<1>5. At(Leaves(v), whole) = IF k \in DOMAIN v.object THEN At(Leaves(v.object[k]), path) ELSE {}
  BY <1>3, <1>4
<1> QED
  BY <1>5 DEF whole

LEMMA Joins ==
    ASSUME NEW U, NEW x \in Seq(U), NEW y \in Seq(U), NEW z \in Seq(U), Len(z) = Len(x) + Len(y),
           \A i \in 1..Len(x) : z[i] = x[i], \A i \in 1..Len(y) : z[Len(x) + i] = y[i]
    PROVE  x \o y = z
<1> DEFINE w == x \o y
<1>1. /\ w \in Seq(U) /\ Len(w) = Len(x) + Len(y)
      /\ \A i \in 1..Len(w) : w[i] = IF i <= Len(x) THEN x[i] ELSE y[i - Len(x)]
  OBVIOUS
<1>2. Len(x) \in Nat /\ Len(y) \in Nat
  OBVIOUS
<1> HIDE DEF w
<1>3. ASSUME NEW i \in 1..Len(w) PROVE w[i] = z[i]
  <2>1. CASE i <= Len(x)
    BY <1>1, <1>2, <2>1
  <2>2. CASE ~(i <= Len(x))
    <3>1. i - Len(x) \in 1..Len(y) /\ Len(x) + (i - Len(x)) = i
      BY <1>1, <1>2, <2>2
    <3>2. z[Len(x) + (i - Len(x))] = y[i - Len(x)]
      BY <3>1
    <3> QED
      BY <1>1, <2>2, <3>1, <3>2
  <2> QED
    BY <2>1, <2>2
<1>4. w = z
  BY <1>1, <1>3, SeqEqual
<1> QED
  BY <1>4 DEF w

LEMMA Paths ==
    /\ IsPath(<<>>)
    /\ \A a : IsPath(<<a>>) /\ <<a>> \o <<>> = <<a>>
    /\ \A a, b : <<a>> \o <<b>> = <<a, b>>
    /\ \A a, b, c, q : IsPath(q) => <<a, b, c>> \o q = <<a>> \o (<<b>> \o (<<c>> \o q))
<1>1. IsPath(<<>>)
  <2>1. <<>> \in Seq({})
    OBVIOUS
  <2> QED
    BY <2>1 DEF IsPath
<1>2. ASSUME NEW a PROVE IsPath(<<a>>) /\ <<a>> \o <<>> = <<a>>
  <2> DEFINE U == {a}
  <2>1. <<a>> \in Seq(U)
    OBVIOUS
  <2>2. IsPath(<<a>>)
    BY <2>1 DEF IsPath
  <2> DEFINE x == <<a>>
  <2>3. x \in Seq(U)
    BY <2>1
  <2> HIDE DEF U, x
  <2>4. x \o <<>> = x
    BY <2>3
  <2> QED
    BY <2>2, <2>4 DEF x
<1>3. ASSUME NEW a, NEW b PROVE <<a>> \o <<b>> = <<a, b>>
  <2> DEFINE U == {a, b}
             x == <<a>>
             y == <<b>>
             z == <<a, b>>
  <2>1. x \in Seq(U) /\ y \in Seq(U) /\ z \in Seq(U)
    OBVIOUS
  <2>2. /\ Len(x) = 1 /\ Len(y) = 1 /\ Len(z) = 2
        /\ x[1] = a /\ y[1] = b /\ z[1] = a /\ z[2] = b
    OBVIOUS
  <2> HIDE DEF U, x, y, z
  <2>3. /\ Len(z) = Len(x) + Len(y) /\ \A i \in 1..Len(x) : z[i] = x[i]
        /\ \A i \in 1..Len(y) : z[Len(x) + i] = y[i]
    BY <2>2
  <2>4. x \o y = z
    BY <2>1, <2>3, Joins
  <2> QED
    BY <2>4 DEF x, y, z
<1>4. ASSUME NEW a, NEW b, NEW c, NEW q, IsPath(q) PROVE <<a, b, c>> \o q = <<a>> \o (<<b>> \o (<<c>> \o q))
  <2> DEFINE tail == <<c>> \o q
             most == <<b>> \o tail
             path == <<a>> \o most
             tool == <<a, b, c>>
  <2>1. /\ IsPath(tail) /\ Len(q) \in Nat /\ Len(tail) = Len(q) + 1 /\ tail[1] = c
        /\ \A i \in 1..Len(q) : tail[i + 1] = q[i]
    BY <1>4, Prepended
  <2> HIDE DEF tail
  <2>2. /\ IsPath(most) /\ Len(most) = Len(tail) + 1 /\ most[1] = b /\ \A i \in 1..Len(tail) : most[i + 1] = tail[i]
    BY <2>1, Prepended
  <2> HIDE DEF most
  <2>3. /\ IsPath(path) /\ Len(path) = Len(most) + 1 /\ path[1] = a /\ \A i \in 1..Len(most) : path[i + 1] = most[i]
    BY <2>2, Prepended
  <2> HIDE DEF path
  <2> PICK S : path \in Seq(S)
    BY <2>3 DEF IsPath
  <2> PICK T : q \in Seq(T)
    BY <1>4 DEF IsPath
  <2> DEFINE U == S \cup T \cup {a, b, c}
  <2>4. path \in Seq(U) /\ q \in Seq(U) /\ tool \in Seq(U)
    OBVIOUS
  <2>5. Len(tool) = 3 /\ tool[1] = a /\ tool[2] = b /\ tool[3] = c
    OBVIOUS
  <2> HIDE DEF tool, U
  <2>6. Len(path) = 3 + Len(q) /\ path[1] = a /\ path[2] = b /\ path[3] = c
    BY <2>1, <2>2, <2>3
  <2>7. ASSUME NEW i \in 1..Len(q) PROVE path[3 + i] = q[i]
    <3>1. /\ i + 1 \in 1..Len(tail) /\ i + 2 \in 1..Len(most)
          /\ (i + 1) + 1 = i + 2 /\ (i + 2) + 1 = 3 + i
      BY <2>1, <2>2
    <3>2. tail[i + 1] = q[i] /\ most[(i + 1) + 1] = tail[i + 1] /\ path[(i + 2) + 1] = most[i + 2]
      BY <2>1, <2>2, <2>3, <3>1
    <3> QED
      BY <3>1, <3>2
  <2>8. /\ Len(path) = Len(tool) + Len(q) /\ \A i \in 1..Len(tool) : path[i] = tool[i]
        /\ \A i \in 1..Len(q) : path[Len(tool) + i] = q[i]
    BY <2>5, <2>6, <2>7
  <2>9. tool \o q = path
    BY <2>4, <2>8, Joins
  <2> QED
    BY <2>9 DEF tool, path, most, tail
<1> QED
  BY <1>1, <1>2, <1>3, <1>4

\* Nothing stands in a value that is single.
LEMMA AtSingle ==
    ASSUME NEW v, Bounded(v), IsRecord(v), NEW k, k \in DOMAIN v.object => Entries(v.object[k]) = {}
    PROVE  At(Leaves(v), <<Key(k)>>) = Said(v.object, k)
<1>1. At(Leaves(v), <<Key(k)>> \o <<>>) = IF k \in DOMAIN v.object THEN At(Leaves(v.object[k]), <<>>) ELSE {}
  BY AtField, Paths
<1>2. ASSUME k \in DOMAIN v.object PROVE At(Leaves(v.object[k]), <<>>) = {v.object[k]}
  <2> DEFINE x == v.object[k]
             leaf == [path |-> <<>>, value |-> x]
  <2>1. Entries(x) = {}
    BY <1>2
  <2> HIDE DEF x
  <2>2. Leaves(x) = {leaf}
    BY <2>1, ScalarLeaf
  <2>3. leaf.path = <<>> /\ leaf.value = x
    OBVIOUS
  <2> HIDE DEF leaf
  <2>4. At(Leaves(x), <<>>) = {x}
    BY <2>2, <2>3 DEF At
  <2> QED
    BY <2>4 DEF x
<1>3. <<Key(k)>> \o <<>> = <<Key(k)>>
  BY Paths
<1> QED
  BY <1>1, <1>2, <1>3 DEF Said

\* What a section says of its retry mapping, and of a tool.
EntryOf(fields, tool) == FieldsOf(FieldsOf(fields, "per_tool"), tool)

LEMMA RetryLeaves ==
    ASSUME NEW v, Bounded(v), IsRecord(v), "retry" \in DOMAIN v.object => IsRetry(v.object["retry"]), NEW n
    PROVE  At(Leaves(v), <<Key("retry"), Key(n)>>) = Said(FieldsOf(v.object, "retry"), n)
<1> DEFINE retry == v.object["retry"]
<1>1. At(Leaves(v), <<Key("retry"), Key(n)>>)
        = IF "retry" \in DOMAIN v.object THEN At(Leaves(retry), <<Key(n)>>) ELSE {}
  <2>1. IsPath(<<Key(n)>>) /\ <<Key("retry")>> \o <<Key(n)>> = <<Key("retry"), Key(n)>>
    BY Paths
  <2> QED
    BY <2>1, AtField
<1>2. CASE "retry" \in DOMAIN v.object
  <2>1. IsRetry(retry) /\ Bounded(retry)
    BY <1>2, PartAt, BoundedParts
  <2>2. FieldsOf(v.object, "retry") = retry.object
    BY <1>2 DEF FieldsOf
  <2> HIDE DEF retry
  <2>3. At(Leaves(retry), <<Key(n)>>) = Said(retry.object, n)
    BY <2>1, AtSingle DEF IsRetry
  <2> QED
    BY <1>1, <1>2, <2>2, <2>3
<1>3. CASE "retry" \notin DOMAIN v.object
  BY <1>1, <1>3 DEF FieldsOf, Said
<1> QED
  BY <1>2, <1>3

LEMMA EntryLeaves ==
    ASSUME NEW v, Bounded(v), IsReliability(v), NEW tool
    PROVE  LET tools == FieldsOf(v.object, "per_tool")
               At2(path) == At(Leaves(v), <<Key("per_tool")>> \o (<<Key(tool)>> \o path))
           IN  IF tool \in DOMAIN tools
               THEN /\ Bounded(tools[tool]) /\ IsToolEntry(tools[tool])
                    /\ \A path : IsPath(path) => At2(path) = At(Leaves(tools[tool]), path)
               ELSE \A path : IsPath(path) => At2(path) = {}
<1> DEFINE tools == FieldsOf(v.object, "per_tool")
           perTool == v.object["per_tool"]
           At2(path) == At(Leaves(v), <<Key("per_tool")>> \o (<<Key(tool)>> \o path))
<1>1. IsRecord(v)
  BY DEF IsReliability
<1>2. ASSUME NEW path, IsPath(path)
      PROVE  At2(path) = IF "per_tool" \in DOMAIN v.object THEN At(Leaves(perTool), <<Key(tool)>> \o path) ELSE {}
  <2>1. IsPath(<<Key(tool)>> \o path)
    BY <1>2, Prepended
  <2> QED
    BY <1>1, <2>1, AtField
<1>3. CASE "per_tool" \notin DOMAIN v.object
  <2>1. tools = <<>>
    BY <1>3 DEF FieldsOf
  <2> QED
    BY <1>2, <1>3, <2>1
<1>4. CASE "per_tool" \in DOMAIN v.object
  <2>1. IsPerTool(perTool) /\ Bounded(perTool)
    BY <1>1, <1>4, PartAt, BoundedParts DEF IsReliability
  <2>2. tools = perTool.object
    BY <1>4 DEF FieldsOf
  <2> HIDE DEF perTool, tools
  <2>3. IsRecord(perTool)
    BY <2>1 DEF IsPerTool
  <2>4. ASSUME NEW path, IsPath(path)
        PROVE  At2(path) = IF tool \in DOMAIN tools THEN At(Leaves(tools[tool]), path) ELSE {}
    BY <1>2, <1>4, <2>1, <2>2, <2>3, <2>4, AtField
  <2>5. tool \in DOMAIN tools => Bounded(tools[tool]) /\ IsToolEntry(tools[tool])
    BY <2>1, <2>2, <2>3, PartAt, BoundedParts DEF IsPerTool
  <2> HIDE DEF At2
  <2>6. IF tool \in DOMAIN tools
        THEN /\ Bounded(tools[tool]) /\ IsToolEntry(tools[tool])
             /\ \A path : IsPath(path) => At2(path) = At(Leaves(tools[tool]), path)
        ELSE \A path : IsPath(path) => At2(path) = {}
    BY <2>4, <2>5
  <2> QED
    BY <2>6 DEF At2, tools
<1> QED
  BY <1>3, <1>4

\* What the leaves below the section say.
SaidIn(leaves, fields, tool) ==
    LET all == <<Key("reliability")>>
        own == <<Key("reliability"), Key("per_tool"), Key(tool)>>
        entry == EntryOf(fields, tool)
    IN  /\ \A k \in Settled : At(leaves, all \o <<Key(k)>>) = Said(fields, k)
        /\ \A n : At(leaves, all \o <<Key("retry"), Key(n)>>) = Said(FieldsOf(fields, "retry"), n)
        /\ \A k : k # "retry" => At(leaves, own \o <<Key(k)>>) = Said(entry, k)
        /\ \A n : At(leaves, own \o <<Key("retry"), Key(n)>>) = Said(FieldsOf(entry, "retry"), n)

LEMMA LeavesMeant ==
    ASSUME NEW document, Bounded(document), IsRecord(document),
           "reliability" \in DOMAIN document.object => IsReliability(document.object["reliability"]), NEW tool
    PROVE  SaidIn(Leaves(document), Written(document), tool)
<1> DEFINE v == document.object["reliability"]
           leaves == Leaves(document)
           all == <<Key("reliability")>>
           own == <<Key("reliability"), Key("per_tool"), Key(tool)>>
           fields == Written(document)
           entry == EntryOf(fields, tool)
<1>1. ASSUME NEW path, IsPath(path)
      PROVE  At(leaves, all \o path) = IF "reliability" \in DOMAIN document.object THEN At(Leaves(v), path) ELSE {}
  BY <1>1, AtField
<1>2. ASSUME NEW path, IsPath(path)
      PROVE  /\ IsPath(<<Key("per_tool")>> \o (<<Key(tool)>> \o path))
             /\ own \o path = all \o (<<Key("per_tool")>> \o (<<Key(tool)>> \o path))
  BY <1>2, Paths, Prepended
<1>3. ASSUME NEW a, NEW b PROVE IsPath(<<a>>) /\ IsPath(<<a, b>>)
  <2>1. IsPath(<<b>>) /\ <<a>> \o <<b>> = <<a, b>>
    BY Paths
  <2>2. IsPath(<<a>> \o <<b>>)
    BY <2>1, Prepended
  <2> QED
    BY <2>1, <2>2, Paths
<1> HIDE DEF leaves, all, own
<1>4. CASE "reliability" \notin DOMAIN document.object
  <2>1. fields = <<>>
    BY <1>4 DEF Written, FieldsOf
  <2>2. entry = <<>> /\ FieldsOf(fields, "retry") = <<>> /\ FieldsOf(entry, "retry") = <<>>
    BY <2>1 DEF EntryOf, FieldsOf
  <2>3. \A k : Said(<<>>, k) = {}
    BY DEF Said
  <2>4. \A path : IsPath(path) => At(leaves, all \o path) = {} /\ At(leaves, own \o path) = {}
    BY <1>1, <1>2, <1>4
  <2> HIDE DEF fields, entry
  <2>5. /\ \A k \in Settled : At(leaves, all \o <<Key(k)>>) = Said(fields, k)
        /\ \A n : At(leaves, all \o <<Key("retry"), Key(n)>>) = Said(FieldsOf(fields, "retry"), n)
        /\ \A k : k # "retry" => At(leaves, own \o <<Key(k)>>) = Said(entry, k)
        /\ \A n : At(leaves, own \o <<Key("retry"), Key(n)>>) = Said(FieldsOf(entry, "retry"), n)
    BY <1>3, <2>1, <2>2, <2>3, <2>4
  <2> QED
    BY <2>5 DEF SaidIn, leaves, all, own, fields, entry
<1>5. CASE "reliability" \in DOMAIN document.object
  <2>1. IsReliability(v) /\ Bounded(v) /\ IsRecord(v) /\ fields = v.object
    BY <1>5, PartAt, BoundedParts DEF IsReliability, Written, FieldsOf
  <2> DEFINE tools == FieldsOf(v.object, "per_tool")
             At2(path) == At(Leaves(v), <<Key("per_tool")>> \o (<<Key(tool)>> \o path))
  <2> HIDE DEF v, fields, entry
  <2>2. \A path : IsPath(path) => At(leaves, all \o path) = At(Leaves(v), path)
    BY <1>1, <1>5
  <2>3. IF tool \in DOMAIN tools
        THEN /\ Bounded(tools[tool]) /\ IsToolEntry(tools[tool])
             /\ \A path : IsPath(path) => At2(path) = At(Leaves(tools[tool]), path)
        ELSE \A path : IsPath(path) => At2(path) = {}
    BY <2>1, EntryLeaves
  <2>4. \A path : IsPath(path) => At(leaves, own \o path) = At2(path)
    BY <1>2, <2>2
  <2>5. entry = FieldsOf(tools, tool)
    BY <2>1 DEF entry, EntryOf
  <2> HIDE DEF At2, tools
  <2>6. ASSUME NEW k \in Settled PROVE At(leaves, all \o <<Key(k)>>) = Said(fields, k)
    <3>1. At(Leaves(v), <<Key(k)>>) = Said(v.object, k)
      BY <2>1, AtSingle DEF IsReliability
    <3> QED
      BY <1>3, <2>1, <2>2, <3>1
  <2>7. ASSUME NEW n PROVE At(leaves, all \o <<Key("retry"), Key(n)>>) = Said(FieldsOf(fields, "retry"), n)
    <3>1. At(Leaves(v), <<Key("retry"), Key(n)>>) = Said(FieldsOf(v.object, "retry"), n)
      BY <2>1, RetryLeaves DEF IsReliability
    <3> QED
      BY <1>3, <2>1, <2>2, <3>1
  <2>8. CASE tool \notin DOMAIN tools
    <3>1. entry = <<>> /\ FieldsOf(entry, "retry") = <<>>
      BY <2>5, <2>8 DEF FieldsOf
    <3>2. \A k : Said(<<>>, k) = {}
      BY DEF Said
    <3>3. \A path : IsPath(path) => At(leaves, own \o path) = {}
      BY <2>3, <2>4, <2>8
    <3>4. /\ \A k : k # "retry" => At(leaves, own \o <<Key(k)>>) = Said(entry, k)
          /\ \A n : At(leaves, own \o <<Key("retry"), Key(n)>>) = Said(FieldsOf(entry, "retry"), n)
      BY <1>3, <3>1, <3>2, <3>3
    <3> QED
      BY <2>6, <2>7, <3>4 DEF SaidIn, leaves, all, own, fields, entry
  <2>9. CASE tool \in DOMAIN tools
    <3> DEFINE x == tools[tool]
    <3>1. /\ Bounded(x) /\ IsToolEntry(x) /\ entry = x.object
          /\ \A path : IsPath(path) => At(leaves, own \o path) = At(Leaves(x), path)
      BY <2>3, <2>4, <2>5, <2>9 DEF FieldsOf
    <3> HIDE DEF x
    <3>2. /\ IsRecord(x)
          /\ "retry" \in DOMAIN x.object => IsRetry(x.object["retry"])
          /\ \A k \in DOMAIN x.object : k # "retry" => Entries(x.object[k]) = {}
      BY <3>1 DEF IsToolEntry
    <3>3. ASSUME NEW k, k # "retry" PROVE At(leaves, own \o <<Key(k)>>) = Said(entry, k)
      <4>1. At(Leaves(x), <<Key(k)>>) = Said(x.object, k)
        BY <3>1, <3>2, <3>3, AtSingle
      <4> QED
        BY <1>3, <3>1, <4>1
    <3>4. ASSUME NEW n PROVE At(leaves, own \o <<Key("retry"), Key(n)>>) = Said(FieldsOf(entry, "retry"), n)
      <4>1. At(Leaves(x), <<Key("retry"), Key(n)>>) = Said(FieldsOf(x.object, "retry"), n)
        BY <3>1, <3>2, RetryLeaves
      <4> QED
        BY <1>3, <3>1, <4>1
    <3> QED
      BY <2>6, <2>7, <3>3, <3>4 DEF SaidIn, leaves, all, own, fields, entry
  <2> QED
    BY <2>8, <2>9
<1> QED
  BY <1>4, <1>5

-----------------------------------------------------------------------------
\* What is in force once a configuration is loaded.

LEMMA FlagsAreSettings ==
    ASSUME NEW flags
    PROVE  IsReliability(FlagDocument(flags).object["reliability"])
<1> DEFINE fields == FlagFields(flags)
           section == Object(fields)
           count == [max_attempts |-> Number(flags["max_attempts"])]
           retry == Object(count)
<1>1. \A x : Entries(Number(x)) = {}
  BY DEF Entries, Number, IsRecord, IsList
<1>2. \A x : IsRecord(Object(x)) /\ ~IsList(Object(x)) /\ Object(x).object = x
  BY DEF IsRecord, IsList, Object
<1>3. /\ DOMAIN count = {"max_attempts"} /\ count["max_attempts"] = Number(flags["max_attempts"])
      /\ count = [k \in DOMAIN count |-> count[k]]
  OBVIOUS
<1>4. /\ DOMAIN fields \subseteq {"timeout_ms", "retry"}
      /\ "timeout_ms" \in DOMAIN fields => fields["timeout_ms"] = Number(flags["timeout_ms"])
      /\ "retry" \in DOMAIN fields => fields["retry"] = retry
  BY FlagsSaid
<1>5. FlagDocument(flags).object["reliability"] = section
  BY FlagDocumentIs
<1>6. IsRecord(retry) /\ ~IsList(retry) /\ retry.object = count /\ retry = Object(count)
  BY <1>2
<1>7. IsRecord(section) /\ section.object = fields
  BY <1>2
<1> HIDE DEF count, retry, fields, section
<1>8. IsRetry(retry)
  <2>1. WellFormed(retry)
    BY <1>3, <1>6 DEF WellFormed
  <2>2. \A k \in DOMAIN count : Entries(count[k]) = {}
    BY <1>1, <1>3
  <2>3. DOMAIN count \subseteq DOMAIN Retry.fields
    BY <1>3, ReliabilityShapes
  <2> QED
    BY <1>6, <2>1, <2>2, <2>3 DEF IsRetry
<1>9. IsReliability(section)
  BY <1>1, <1>4, <1>7, <1>8 DEF IsReliability, Settled
<1> QED
  BY <1>5, <1>9

\* The fields a file has for the section.
WrittenIn(f) == IF HasDocument(f) /\ f.document # Null THEN Written(f.document) ELSE <<>>

LEMMA SaysNothing ==
    ASSUME NEW leaves, \A leaf \in leaves : leaf.path = <<>>, NEW tool
    PROVE  SaidIn(leaves, <<>>, tool)
<1>1. EntryOf(<<>>, tool) = <<>> /\ FieldsOf(<<>>, "retry") = <<>> /\ \A k : Said(<<>>, k) = {}
  BY DEF EntryOf, FieldsOf, Said
<1>2. ASSUME NEW a, NEW path, IsPath(path) PROVE At(leaves, <<a>> \o path) = {}
  <2>1. Len(<<a>> \o path) = Len(path) + 1 /\ Len(path) \in Nat
    BY <1>2, Prepended
  <2> DEFINE whole == <<a>> \o path
  <2> HIDE DEF whole
  <2>2. whole # <<>>
    <3>1. Len(<<>>) = 0
      OBVIOUS
    <3> QED
      BY <2>1, <3>1 DEF whole
  <2>3. At(leaves, whole) = {}
    BY <2>2 DEF At
  <2> QED
    BY <2>3 DEF whole
<1>3. ASSUME NEW path, IsPath(path)
      PROVE  /\ At(leaves, <<Key("reliability")>> \o path) = {}
             /\ At(leaves, <<Key("reliability"), Key("per_tool"), Key(tool)>> \o path) = {}
  <2>1. IsPath(<<Key("per_tool")>> \o (<<Key(tool)>> \o path))
    BY <1>3, Prepended
  <2>2. <<Key("reliability"), Key("per_tool"), Key(tool)>> \o path
          = <<Key("reliability")>> \o (<<Key("per_tool")>> \o (<<Key(tool)>> \o path))
    BY <1>3, Paths
  <2> QED
    BY <1>2, <1>3, <2>1, <2>2
<1>4. ASSUME NEW a, NEW b PROVE IsPath(<<a>>) /\ IsPath(<<a, b>>)
  <2>1. IsPath(<<b>>) /\ <<a>> \o <<b>> = <<a, b>>
    BY Paths
  <2>2. IsPath(<<a>> \o <<b>>)
    BY <2>1, Prepended
  <2> QED
    BY <2>1, <2>2, Paths
<1> QED
  BY <1>1, <1>3, <1>4 DEF SaidIn

\* Of a file that is accepted, the section is, and its leaves say what it has.
LEMMA FileSays ==
    ASSUME NEW f, HasDocument(f) => IsJson(f.document), NEW required, AcceptsFile(f, required)
    PROVE  /\ \A tool : SaidIn(LeavesOf(f), WrittenIn(f), tool)
           /\ \A settings : HasSettings(settings) =>
                 LET new == IF HasDocument(f) THEN ApplyDocument(settings, f.document) ELSE settings
                 IN  HasSettings(new) /\ Settles(InForce(new), WrittenIn(f), InForce(settings))
           /\ WrittenIn(f) = <<>> \/ \E v : IsReliability(v) /\ WrittenIn(f) = v.object
<1> DEFINE new(settings) == IF HasDocument(f) THEN ApplyDocument(settings, f.document) ELSE settings
<1>1. CASE ~HasDocument(f) \/ f.document = Null
  <2>1. WrittenIn(f) = <<>> /\ \A settings : new(settings) = settings
    BY <1>1 DEF WrittenIn, ApplyDocument
  <2>2. \A leaf \in LeavesOf(f) : leaf.path = <<>>
    <3>1. Entries(Null) = {}
      BY DEF Entries, Null, IsRecord, IsList
    <3>2. Leaves(Null) = {[path |-> <<>>, value |-> Null]}
      BY <3>1, ScalarLeaf
    <3> QED
      BY <1>1, <3>2 DEF LeavesOf
  <2>3. \A before : Settles(before, <<>>, before)
    BY DEF Settles
  <2> HIDE DEF new
  <2>4. \A settings : HasSettings(settings) =>
            HasSettings(new(settings)) /\ Settles(InForce(new(settings)), WrittenIn(f), InForce(settings))
    BY <2>1, <2>3
  <2>5. \A tool : SaidIn(LeavesOf(f), WrittenIn(f), tool)
    BY <2>1, <2>2, SaysNothing
  <2> QED
    BY <2>1, <2>4, <2>5 DEF new
<1>2. CASE HasDocument(f) /\ f.document # Null
  <2> DEFINE v == f.document
             section == v.object["reliability"]
  <2>1. IsRecord(v) /\ Bounded(v) /\ IsJson(v)
    BY <1>2 DEF AcceptsFile, AcceptsDocument, IsJson, Bounded
  <2>2. /\ WrittenIn(f) = Written(v) /\ LeavesOf(f) = Leaves(v)
        /\ \A settings : new(settings) = Applied(Sections, settings, v)
    BY <1>2 DEF WrittenIn, LeavesOf, ApplyDocument
  <2>3. "reliability" \in DOMAIN v.object => IsReliability(section)
    <3> SUFFICES ASSUME "reliability" \in DOMAIN v.object PROVE IsReliability(section)
      OBVIOUS
    <3>1. "reliability" \in DOMAIN Sections.fields /\ Sections.fields["reliability"] = Reliability
      BY DEF Sections, Mapping
    <3>2. Accepts(Reliability, section)
      BY <1>2, <3>1 DEF AcceptsFile, AcceptsDocument, KnownSections
    <3>3. IsJson(section)
      BY <2>1, PartAt, NodeAt, NodesAreTrees
    <3> QED
      BY <3>2, <3>3, AcceptedReliability
  <2> HIDE DEF new
  <2>4. ASSUME NEW settings, HasSettings(settings)
        PROVE  HasSettings(new(settings)) /\ Settles(InForce(new(settings)), WrittenIn(f), InForce(settings))
    BY <2>1, <2>2, <2>3, <2>4, ReliabilityApplied
  <2>5. \A tool : SaidIn(LeavesOf(f), WrittenIn(f), tool)
    BY <2>1, <2>2, <2>3, LeavesMeant
  <2>6. WrittenIn(f) = <<>> \/ \E x : IsReliability(x) /\ WrittenIn(f) = x.object
    BY <2>2, <2>3 DEF Written, FieldsOf
  <2> QED
    BY <2>4, <2>5, <2>6 DEF new
<1> QED
  BY <1>1, <1>2

\* The flags over the file over the defaults; no default and no flag is about one tool.
Loads(r, fields, flags) ==
    LET tools == FieldsOf(fields, "per_tool")
        retry == FieldsOf(fields, "retry")
    IN  /\ r["timeout_ms"] = IF "timeout_ms" \in DOMAIN flags THEN Number(flags["timeout_ms"])
                             ELSE IF "timeout_ms" \in DOMAIN fields THEN fields["timeout_ms"]
                             ELSE DefaultReliability["timeout_ms"]
        /\ r["idempotent_default"] = IF "idempotent_default" \in DOMAIN fields THEN fields["idempotent_default"]
                                     ELSE DefaultReliability["idempotent_default"]
        /\ DOMAIN r["per_tool"].object = DOMAIN tools
        /\ \A tool \in DOMAIN tools : r["per_tool"].object[tool] = tools[tool]
        /\ DOMAIN r["retry"].object = DOMAIN DefaultRetry
        /\ \A n \in DOMAIN DefaultRetry :
              r["retry"].object[n] = IF n = "max_attempts" /\ n \in DOMAIN flags THEN Number(flags[n])
                                     ELSE IF n \in DOMAIN retry THEN retry[n] ELSE DefaultRetry[n]

LEMMA LoadedSettings ==
    ASSUME NEW f, HasDocument(f) => IsJson(f.document), NEW required, AcceptsFile(f, required), NEW flags
    PROVE  LET new == LoadConfig(f, flags)
           IN  HasSettings(new) /\ Loads(InForce(new), WrittenIn(f), flags)
<1> DEFINE mid == IF HasDocument(f) THEN ApplyDocument(DefaultConfig, f.document) ELSE DefaultConfig
           new == LoadConfig(f, flags)
           raw == FlagDocument(flags)
           said == FlagFields(flags)
           fields == WrittenIn(f)
           before == InForce(DefaultConfig)
           then == InForce(mid)
           after == InForce(new)
<1>1. HasSettings(mid) /\ Settles(then, fields, before)
  BY FileSays, DefaultSettings
<1>2. new = ApplyFlags(mid, flags)
  BY Zenon DEF LoadConfig
<1>3. new = Applied(Sections, mid, raw)
  BY <1>2, FlagDocumentIs
<1>4. Bounded(raw) /\ IsRecord(raw) /\ IsReliability(raw.object["reliability"])
  BY FlagDocumentIs, FlagsAreSettings
<1>5. Written(raw) = said
  <2>1. "reliability" \in DOMAIN raw.object /\ raw.object["reliability"] = Object(said)
    BY FlagDocumentIs
  <2> HIDE DEF raw, said
  <2> QED
    BY <2>1 DEF Written, FieldsOf, Object
<1> HIDE DEF mid, raw, new, said, fields
<1>6. HasSettings(new) /\ Settles(after, said, then)
  BY <1>1, <1>3, <1>4, <1>5, ReliabilityApplied
<1>7. before = DefaultReliability
  BY DefaultSettings
<1>8. /\ DOMAIN said \subseteq {"timeout_ms", "retry"}
      /\ "timeout_ms" \in DOMAIN said <=> "timeout_ms" \in DOMAIN flags
      /\ "retry" \in DOMAIN said <=> "max_attempts" \in DOMAIN flags
      /\ "timeout_ms" \in DOMAIN flags => said["timeout_ms"] = Number(flags["timeout_ms"])
      /\ "max_attempts" \in DOMAIN flags => said["retry"] = Object([max_attempts |-> Number(flags["max_attempts"])])
  BY FlagsSaid DEF said
<1> HIDE DEF then, after, before
<1>9. after["timeout_ms"] = IF "timeout_ms" \in DOMAIN flags THEN Number(flags["timeout_ms"])
                            ELSE IF "timeout_ms" \in DOMAIN fields THEN fields["timeout_ms"]
                            ELSE DefaultReliability["timeout_ms"]
  BY <1>1, <1>6, <1>7, <1>8 DEF Settles, Settled
<1>10. after["idempotent_default"] = IF "idempotent_default" \in DOMAIN fields THEN fields["idempotent_default"]
                                     ELSE DefaultReliability["idempotent_default"]
  BY <1>1, <1>6, <1>7, <1>8 DEF Settles, Settled
<1>11. \A x : Object(x).object = x
  BY DEF Object
<1>12. LET tools == FieldsOf(fields, "per_tool")
       IN  /\ DOMAIN after["per_tool"].object = DOMAIN tools
           /\ \A tool \in DOMAIN tools : after["per_tool"].object[tool] = tools[tool]
  <2> DEFINE tools == FieldsOf(fields, "per_tool")
  <2>1. after["per_tool"] = then["per_tool"]
    BY <1>6, <1>8 DEF Settles
  <2>2. before["per_tool"].object = <<>>
    BY <1>7, <1>11, DefaultFields DEF EmptyObject
  <2>3. CASE "per_tool" \in DOMAIN fields
    <3>1. then["per_tool"].object = Over(fields["per_tool"].object, <<>>)
      BY <1>1, <1>11, <2>2, <2>3 DEF Settles
    <3>2. tools = fields["per_tool"].object
      BY <2>3 DEF FieldsOf
    <3> HIDE DEF tools
    <3>3. /\ DOMAIN then["per_tool"].object = DOMAIN tools
          /\ \A tool \in DOMAIN tools : then["per_tool"].object[tool] = tools[tool]
      BY <3>1, <3>2 DEF Over
    <3> QED
      BY <2>1, <3>3 DEF tools
  <2>4. CASE "per_tool" \notin DOMAIN fields
    BY <1>1, <2>1, <2>2, <2>4 DEF Settles, FieldsOf
  <2> QED
    BY <2>3, <2>4
<1>13. LET retry == FieldsOf(fields, "retry")
       IN  /\ DOMAIN after["retry"].object = DOMAIN DefaultRetry
           /\ \A n \in DOMAIN DefaultRetry :
                 after["retry"].object[n] = IF n = "max_attempts" /\ n \in DOMAIN flags THEN Number(flags[n])
                                            ELSE IF n \in DOMAIN retry THEN retry[n] ELSE DefaultRetry[n]
  <2> DEFINE retry == FieldsOf(fields, "retry")
             count == [max_attempts |-> Number(flags["max_attempts"])]
             most == then["retry"].object
             all == after["retry"].object
  <2>1. before["retry"].object = DefaultRetry
    BY <1>7, <1>11, DefaultFields
  <2>2. DOMAIN retry \subseteq DOMAIN DefaultRetry
    <3>1. CASE fields = <<>> \/ "retry" \notin DOMAIN fields
      BY <3>1 DEF FieldsOf
    <3>2. CASE fields # <<>> /\ "retry" \in DOMAIN fields
      <4>1. PICK v : IsReliability(v) /\ fields = v.object
        BY <3>2, FileSays DEF fields
      <4>2. IsRetry(v.object["retry"])
        BY <3>2, <4>1 DEF IsReliability
      <4> QED
        BY <3>2, <4>1, <4>2, ReliabilityShapes, DefaultFields DEF IsRetry, FieldsOf
    <3> QED
      BY <3>1, <3>2
  <2>3. /\ DOMAIN most = DOMAIN DefaultRetry
        /\ \A n \in DOMAIN DefaultRetry : most[n] = IF n \in DOMAIN retry THEN retry[n] ELSE DefaultRetry[n]
    <3>1. CASE "retry" \in DOMAIN fields
      <4>1. most = Over(retry, DefaultRetry)
        BY <1>1, <1>11, <2>1, <3>1 DEF Settles, FieldsOf
      <4> HIDE DEF most, retry
      <4> QED
        BY <2>2, <4>1 DEF Over
    <3>2. CASE "retry" \notin DOMAIN fields
      <4>1. most = DefaultRetry /\ DOMAIN retry = {}
        BY <1>1, <2>1, <3>2 DEF Settles, FieldsOf
      <4> HIDE DEF most, retry
      <4> QED
        BY <4>1
    <3> QED
      BY <3>1, <3>2
  <2>4. "max_attempts" \in DOMAIN DefaultRetry
    BY DefaultFields
  <2>5. DOMAIN count = {"max_attempts"} /\ count["max_attempts"] = Number(flags["max_attempts"])
    OBVIOUS
  <2>6. CASE "max_attempts" \in DOMAIN flags
    <3>1. all = Over(count, most)
      BY <1>6, <1>8, <1>11, <2>6 DEF Settles
    <3> HIDE DEF all, count, most, retry
    <3>2. /\ DOMAIN all = DOMAIN DefaultRetry
          /\ \A n \in DOMAIN DefaultRetry :
                all[n] = IF n = "max_attempts" THEN Number(flags["max_attempts"]) ELSE most[n]
      BY <2>3, <2>4, <2>5, <3>1 DEF Over
    <3> QED
      BY <2>3, <2>6, <3>2 DEF all, retry
  <2>7. CASE "max_attempts" \notin DOMAIN flags
    <3>1. all = most
      BY <1>6, <1>8, <2>7 DEF Settles
    <3> HIDE DEF all, most
    <3> QED
      BY <2>3, <2>7, <3>1 DEF all
  <2> QED
    BY <2>6, <2>7
<1>14. Loads(after, fields, flags)
  BY <1>9, <1>10, <1>12, <1>13, Zenon DEF Loads
<1> QED
  BY <1>6, <1>14, Zenon DEF after, fields, new

-----------------------------------------------------------------------------
\* The settings of a call come from the first place that has them.

LEMMA FirstOfFour ==
    ASSUME NEW a, NEW b, NEW c, NEW d
    PROVE  FirstOf(<<a, b, c, d>>) = IF a # {} THEN a ELSE IF b # {} THEN b ELSE IF c # {} THEN c ELSE d
<1> DEFINE places == <<a, b, c, d>>
           saying == {i \in DOMAIN places : places[i] # {}}
<1>1. /\ DOMAIN places = 1..4
      /\ places[1] = a /\ places[2] = b /\ places[3] = c /\ places[4] = d
  OBVIOUS
<1>2. FirstOf(places) = IF saying = {} THEN {} ELSE places[Min(saying)]
  BY DEF FirstOf
<1> HIDE DEF places
<1>3. saying \subseteq 1..4 /\ \A i \in 1..4 : i \in saying <=> places[i] # {}
  BY <1>1
<1> HIDE DEF saying
<1>4. saying # {} => Min(saying) \in saying /\ \A i \in saying : Min(saying) <= i
  <2> SUFFICES ASSUME saying # {} PROVE Min(saying) \in saying /\ \A i \in saying : Min(saying) <= i
    OBVIOUS
  <2>1. \E i \in saying : \A j \in saying : i <= j
    <3>1. 1 \in saying \/ 2 \in saying \/ 3 \in saying \/ 4 \in saying
      <4>1. PICK i \in saying : TRUE
        OBVIOUS
      <4>2. i \in 1..4
        BY <1>3
      <4>3. i = 1 \/ i = 2 \/ i = 3 \/ i = 4
        BY <4>2
      <4> QED
        BY <4>3
    <3>2. \A i \in saying : i \in 1..4
      BY <1>3
    <3> QED
      BY <3>1, <3>2
  <2> QED
    BY <2>1 DEF Min
<1>5. FirstOf(places) = IF a # {} THEN a ELSE IF b # {} THEN b ELSE IF c # {} THEN c ELSE d
  <2>1. CASE saying = {}
    BY <1>1, <1>2, <1>3, <2>1
  <2>2. CASE saying # {}
    <3>1. Min(saying) \in {1, 2, 3, 4} /\ places[Min(saying)] # {}
      <4> DEFINE m == Min(saying)
      <4>1. m \in saying
        BY <1>4, <2>2
      <4> HIDE DEF m
      <4>2. m \in 1..4 /\ places[m] # {}
        BY <1>3, <4>1
      <4>3. m \in {1, 2, 3, 4}
        BY <4>2
      <4> QED
        BY <4>2, <4>3 DEF m
    <3>2. \A i \in 1..4 : places[i] # {} => Min(saying) <= i
      BY <1>3, <1>4, <2>2
    <3>3. FirstOf(places) = places[Min(saying)]
      BY <1>2, <2>2
    <3> QED
      BY <1>1, <3>1, <3>2, <3>3
  <2> QED
    BY <2>1, <2>2
<1> QED
  BY <1>5 DEF places

\* The property, of a file, the policy of a tool, and what the flags say.
PolicyMeant(f, policy, name, timeout, attempts) ==
    LET inFile == LeavesOf(f)
        retry == Leaves(Object(policy.retry))
        tool == <<Key("reliability"), Key("per_tool"), Key(name)>>
        all == <<Key("reliability")>>
        Meant(flag, perTool, general) ==
            FirstOf(<<At(inFile, tool \o perTool), flag, At(inFile, all \o general),
                      At(DefaultLeaves, all \o general)>>)
        Retried(field, flag) ==
            Meant(flag, <<Key("retry"), Key(field)>>, <<Key("retry"), Key(field)>>)
    IN  /\ {policy.timeoutMs} = Meant(timeout, <<Key("timeout_ms")>>, <<Key("timeout_ms")>>)
        /\ {policy.idempotent} = Meant({}, <<Key("idempotent")>>, <<Key("idempotent_default")>>)
        /\ At(retry, <<Key("max_attempts")>>) = Retried("max_attempts", attempts)
        /\ At(retry, <<Key("base_ms")>>) = Retried("base_ms", {})

\* What a flag says of a number.
NumberOf(flags, name) == IF name \in DOMAIN flags THEN {Number(flags[name])} ELSE {}

LEMMA Resolved ==
    ASSUME NEW config1, NEW fields, NEW flags, Loads(InForce(config1), fields, flags), NEW tool
    PROVE  LET policy == ResolveToolPolicy(config1, tool)
               entry == EntryOf(fields, tool)
               r == InForce(config1)
           IN  /\ policy.timeoutMs = IF "timeout_ms" \in DOMAIN entry THEN entry["timeout_ms"] ELSE r["timeout_ms"]
               /\ policy.idempotent = IF "idempotent" \in DOMAIN entry THEN entry["idempotent"]
                                      ELSE r["idempotent_default"]
               /\ policy.retry = Over(FieldsOf(entry, "retry"), r["retry"].object)
<1> DEFINE policy == ResolveToolPolicy(config1, tool)
           entry == EntryOf(fields, tool)
           r == InForce(config1)
           own == r["per_tool"].object
           override == IF tool \in DOMAIN own THEN own[tool].object ELSE <<>>
           Prefer(name, otherwise) == IF name \in DOMAIN override THEN override[name] ELSE otherwise
<1>1. override = entry
  BY DEF Loads, EntryOf, FieldsOf
<1>2. /\ policy.timeoutMs = Prefer("timeout_ms", r["timeout_ms"])
      /\ policy.retry = Over(Prefer("retry", EmptyObject).object, r["retry"].object)
      /\ policy.idempotent = Prefer("idempotent", r["idempotent_default"])
  BY DEF ResolveToolPolicy, InForce
<1> HIDE DEF policy, entry, r, override
<1>3. Prefer("retry", EmptyObject).object = FieldsOf(entry, "retry")
  BY <1>1 DEF FieldsOf, EmptyObject, Object
<1> QED
  BY <1>1, <1>2, <1>3 DEF policy, entry, r

LEMMA RetriesAreSingle ==
    ASSUME NEW fields, fields = <<>> \/ \E v : IsReliability(v) /\ fields = v.object, NEW tool
    PROVE  /\ \A n \in DOMAIN FieldsOf(fields, "retry") : Entries(FieldsOf(fields, "retry")[n]) = {}
           /\ LET own == FieldsOf(EntryOf(fields, tool), "retry")
              IN  \A n \in DOMAIN own : Entries(own[n]) = {}
<1> DEFINE entry == EntryOf(fields, tool)
           own == FieldsOf(entry, "retry")
           all == FieldsOf(fields, "retry")
<1>1. \A n : n \in DOMAIN <<>> => FALSE
  OBVIOUS
<1>2. "retry" \in DOMAIN fields => IsRetry(fields["retry"])
  BY <1>1 DEF IsReliability
<1>3. "per_tool" \in DOMAIN fields => IsPerTool(fields["per_tool"])
  BY <1>1 DEF IsReliability
<1>4. "retry" \in DOMAIN entry => IsRetry(entry["retry"])
  <2>1. CASE "per_tool" \notin DOMAIN fields
    BY <1>1, <2>1 DEF EntryOf, FieldsOf
  <2>2. CASE "per_tool" \in DOMAIN fields
    <3> DEFINE tools == fields["per_tool"].object
    <3>1. entry = FieldsOf(tools, tool) /\ \A x \in DOMAIN tools : IsToolEntry(tools[x])
      BY <1>3, <2>2 DEF EntryOf, FieldsOf, IsPerTool
    <3> HIDE DEF tools, entry
    <3> QED
      BY <1>1, <3>1 DEF FieldsOf, IsToolEntry
  <2> QED
    BY <2>1, <2>2
<1> HIDE DEF entry
<1>5. \A g : ("retry" \in DOMAIN g => IsRetry(g["retry"])) =>
         \A n \in DOMAIN FieldsOf(g, "retry") : Entries(FieldsOf(g, "retry")[n]) = {}
  BY <1>1 DEF FieldsOf, IsRetry
<1>6. /\ \A n \in DOMAIN all : Entries(all[n]) = {}
      /\ \A n \in DOMAIN own : Entries(own[n]) = {}
  BY <1>2, <1>4, <1>5
<1> QED
  BY <1>6 DEF entry

LEMMA PolicyInOrder ==
    ASSUME NEW f, HasDocument(f) => IsJson(f.document), NEW required, AcceptsFile(f, required), NEW flags,
           NEW config1, HasSettings(config1), Loads(InForce(config1), WrittenIn(f), flags), NEW tool
    PROVE  PolicyMeant(f, ResolveToolPolicy(config1, tool), tool,
                       NumberOf(flags, "timeout_ms"), NumberOf(flags, "max_attempts"))
<1> DEFINE policy == ResolveToolPolicy(config1, tool)
           fields == WrittenIn(f)
           entry == EntryOf(fields, tool)
           r == InForce(config1)
           retry == Object(policy.retry)
           inFile == LeavesOf(f)
           own == <<Key("reliability"), Key("per_tool"), Key(tool)>>
           all == <<Key("reliability")>>
           timeout == NumberOf(flags, "timeout_ms")
           attempts == NumberOf(flags, "max_attempts")
           ownRetry == FieldsOf(entry, "retry")
           allRetry == FieldsOf(fields, "retry")
<1>1. SaidIn(inFile, fields, tool)
  BY FileSays
<1>2. SaidIn(DefaultLeaves, DefaultReliability, tool)
  <2>1. SaidIn(Leaves(DefaultConfig), Written(DefaultConfig), tool)
    BY DefaultBounded, DefaultSettings, LeavesMeant
  <2> QED
    BY <2>1, DefaultSettings DEF DefaultLeaves
<1>3. /\ policy.timeoutMs = IF "timeout_ms" \in DOMAIN entry THEN entry["timeout_ms"] ELSE r["timeout_ms"]
      /\ policy.idempotent = IF "idempotent" \in DOMAIN entry THEN entry["idempotent"] ELSE r["idempotent_default"]
      /\ policy.retry = Over(ownRetry, r["retry"].object)
  BY Resolved
<1>4. \A k : Said(fields, k) = {} <=> k \notin DOMAIN fields
  BY DEF Said
<1>5. \A g, k : Said(g, k) = IF k \in DOMAIN g THEN {g[k]} ELSE {}
  BY DEF Said
<1>6. \A name : NumberOf(flags, name) = IF name \in DOMAIN flags THEN {Number(flags[name])} ELSE {}
  BY DEF NumberOf
<1>7. /\ FieldsOf(DefaultReliability, "retry") = DefaultRetry
      /\ {"timeout_ms", "idempotent_default"} \subseteq DOMAIN DefaultReliability
      /\ {"max_attempts", "base_ms"} \subseteq DOMAIN DefaultRetry
  <2>1. Object(DefaultRetry).object = DefaultRetry
    BY DEF Object
  <2> QED
    BY <2>1, DefaultFields DEF FieldsOf
<1> HIDE DEF policy, r, fields, entry, own, all, inFile, timeout, attempts, ownRetry, allRetry
<1>8. {policy.timeoutMs}
        = FirstOf(<<At(inFile, own \o <<Key("timeout_ms")>>), timeout, At(inFile, all \o <<Key("timeout_ms")>>),
                    At(DefaultLeaves, all \o <<Key("timeout_ms")>>)>>)
  <2>1. /\ At(inFile, own \o <<Key("timeout_ms")>>) = Said(entry, "timeout_ms")
        /\ At(inFile, all \o <<Key("timeout_ms")>>) = Said(fields, "timeout_ms")
        /\ At(DefaultLeaves, all \o <<Key("timeout_ms")>>) = Said(DefaultReliability, "timeout_ms")
    BY <1>1, <1>2, Zenon DEF SaidIn, Settled, own, all, entry
  <2>2. r["timeout_ms"] = IF "timeout_ms" \in DOMAIN flags THEN Number(flags["timeout_ms"])
                          ELSE IF "timeout_ms" \in DOMAIN fields THEN fields["timeout_ms"]
                          ELSE DefaultReliability["timeout_ms"]
    BY DEF Loads, r, fields
  <2> DEFINE a == At(inFile, own \o <<Key("timeout_ms")>>)
             c == At(inFile, all \o <<Key("timeout_ms")>>)
             d == At(DefaultLeaves, all \o <<Key("timeout_ms")>>)
  <2>3. /\ a = IF "timeout_ms" \in DOMAIN entry THEN {entry["timeout_ms"]} ELSE {}
        /\ c = IF "timeout_ms" \in DOMAIN fields THEN {fields["timeout_ms"]} ELSE {}
        /\ d = {DefaultReliability["timeout_ms"]}
    BY <1>5, <1>7, <2>1
  <2>4. timeout = IF "timeout_ms" \in DOMAIN flags THEN {Number(flags["timeout_ms"])} ELSE {}
    BY <1>6 DEF timeout
  <2> HIDE DEF a, c, d
  <2>5. FirstOf(<<a, timeout, c, d>>) = {policy.timeoutMs}
    BY <1>3, <2>2, <2>3, <2>4, FirstOfFour
  <2> QED
    BY <2>5, Zenon DEF a, c, d
<1>9. {policy.idempotent}
        = FirstOf(<<At(inFile, own \o <<Key("idempotent")>>), {}, At(inFile, all \o <<Key("idempotent_default")>>),
                    At(DefaultLeaves, all \o <<Key("idempotent_default")>>)>>)
  <2>1. /\ At(inFile, own \o <<Key("idempotent")>>) = Said(entry, "idempotent")
        /\ At(inFile, all \o <<Key("idempotent_default")>>) = Said(fields, "idempotent_default")
        /\ At(DefaultLeaves, all \o <<Key("idempotent_default")>>) = Said(DefaultReliability, "idempotent_default")
    BY <1>1, <1>2, Zenon DEF SaidIn, Settled, own, all, entry
  <2>2. r["idempotent_default"] = IF "idempotent_default" \in DOMAIN fields THEN fields["idempotent_default"]
                                  ELSE DefaultReliability["idempotent_default"]
    BY DEF Loads, r, fields
  <2> QED
    BY <1>3, <1>5, <1>7, <2>1, <2>2, FirstOfFour
<1>10. /\ DOMAIN r["retry"].object = DOMAIN DefaultRetry
       /\ \A n \in DOMAIN DefaultRetry :
             r["retry"].object[n] = IF n = "max_attempts" /\ n \in DOMAIN flags THEN Number(flags[n])
                                    ELSE IF n \in DOMAIN allRetry THEN allRetry[n] ELSE DefaultRetry[n]
  BY DEF Loads, r, fields, allRetry
<1>11. /\ DOMAIN policy.retry = DOMAIN ownRetry \cup DOMAIN DefaultRetry
       /\ \A n \in DOMAIN policy.retry :
             policy.retry[n] = IF n \in DOMAIN ownRetry THEN ownRetry[n] ELSE r["retry"].object[n]
  BY <1>3, <1>10 DEF Over
<1>12. \A n \in DOMAIN policy.retry : Entries(policy.retry[n]) = {}
  <2>1. fields = <<>> \/ \E v : IsReliability(v) /\ fields = v.object
    BY FileSays DEF fields
  <2>2. /\ \A n \in DOMAIN ownRetry : Entries(ownRetry[n]) = {}
        /\ \A n \in DOMAIN allRetry : Entries(allRetry[n]) = {}
    BY <2>1, RetriesAreSingle, Zenon DEF ownRetry, allRetry, entry
  <2>3. \A x : Entries(Number(x)) = {}
    BY DEF Entries, Number, IsRecord, IsList
  <2> QED
    BY <1>10, <1>11, <2>2, <2>3, DefaultFields
<1>13. IsRecord(retry) /\ retry.object = policy.retry /\ Bounded(retry)
  <2>1. Parts(retry) = {policy.retry[n] : n \in DOMAIN policy.retry}
    BY PartsOfObject
  <2>2. \A p \in Parts(retry) : Parts(p) = {}
    BY <1>12, <2>1 DEF Parts
  <2>3. IsRecord(retry) /\ retry.object = policy.retry
    BY DEF IsRecord, Object
  <2> HIDE DEF retry
  <2> QED
    BY <2>2, <2>3, FourLevels
<1> HIDE DEF retry
<1>14. \A n : At(Leaves(retry), <<Key(n)>>) = Said(policy.retry, n)
  BY <1>12, <1>13, AtSingle
<1>15. ASSUME NEW n \in DOMAIN DefaultRetry
       PROVE  At(Leaves(retry), <<Key(n)>>)
                = FirstOf(<<At(inFile, own \o <<Key("retry"), Key(n)>>),
                            IF n = "max_attempts" THEN attempts ELSE {},
                            At(inFile, all \o <<Key("retry"), Key(n)>>),
                            At(DefaultLeaves, all \o <<Key("retry"), Key(n)>>)>>)
  <2>1. /\ At(inFile, own \o <<Key("retry"), Key(n)>>) = Said(ownRetry, n)
        /\ At(inFile, all \o <<Key("retry"), Key(n)>>) = Said(allRetry, n)
        /\ At(DefaultLeaves, all \o <<Key("retry"), Key(n)>>) = Said(FieldsOf(DefaultReliability, "retry"), n)
    BY <1>1, <1>2, Zenon DEF SaidIn, own, all, entry, ownRetry, allRetry
  <2>2. policy.retry[n] = IF n \in DOMAIN ownRetry THEN ownRetry[n]
                          ELSE IF n = "max_attempts" /\ n \in DOMAIN flags THEN Number(flags[n])
                          ELSE IF n \in DOMAIN allRetry THEN allRetry[n] ELSE DefaultRetry[n]
    BY <1>10, <1>11
  <2>3. At(Leaves(retry), <<Key(n)>>) = {policy.retry[n]}
    BY <1>5, <1>11, <1>14
  <2>4. (IF n = "max_attempts" THEN attempts ELSE {})
          = IF n = "max_attempts" /\ n \in DOMAIN flags THEN {Number(flags[n])} ELSE {}
    BY <1>6 DEF attempts
  <2> DEFINE flag == IF n = "max_attempts" THEN attempts ELSE {}
             a == At(inFile, own \o <<Key("retry"), Key(n)>>)
             c == At(inFile, all \o <<Key("retry"), Key(n)>>)
             d == At(DefaultLeaves, all \o <<Key("retry"), Key(n)>>)
  <2>5. /\ a = IF n \in DOMAIN ownRetry THEN {ownRetry[n]} ELSE {}
        /\ c = IF n \in DOMAIN allRetry THEN {allRetry[n]} ELSE {}
        /\ d = {DefaultRetry[n]}
    BY <1>5, <1>7, <2>1
  <2> HIDE DEF flag, a, c, d
  <2>6. FirstOf(<<a, flag, c, d>>) = {policy.retry[n]}
    BY <2>2, <2>4, <2>5, FirstOfFour DEF flag
  <2> QED
    BY <2>3, <2>6, Zenon DEF flag, a, c, d
<1>16. /\ At(Leaves(retry), <<Key("max_attempts")>>)
            = FirstOf(<<At(inFile, own \o <<Key("retry"), Key("max_attempts")>>), attempts,
                        At(inFile, all \o <<Key("retry"), Key("max_attempts")>>),
                        At(DefaultLeaves, all \o <<Key("retry"), Key("max_attempts")>>)>>)
       /\ At(Leaves(retry), <<Key("base_ms")>>)
            = FirstOf(<<At(inFile, own \o <<Key("retry"), Key("base_ms")>>), {},
                        At(inFile, all \o <<Key("retry"), Key("base_ms")>>),
                        At(DefaultLeaves, all \o <<Key("retry"), Key("base_ms")>>)>>)
  BY <1>7, <1>15
<1> QED
  BY <1>8, <1>9, <1>16, Zenon DEF PolicyMeant, policy, own, all, inFile, timeout, attempts, retry

\* What is typed for the numbers is what the option loop has read.
LEMMA FlagsTyped ==
    ASSUME LineInv, pc = "load", command \in Followed
    PROVE  /\ InFlag("--timeout-ms") = NumberOf(FlagNumbers, "timeout_ms")
           /\ InFlag("--max-attempts") = NumberOf(FlagNumbers, "max_attempts")
<1> DEFINE k == Len(line.groups)
<1>1. ReadTo(k)
  BY DEF LineInv
<1>2. /\ line \in Lines /\ IsLineOf(line, command)
      /\ command = <<"run">> => \A flag \in NumberFlags : FlagRead(flag, k)
      /\ command = <<"replay", "run">> => \A flag \in NumberFlags : ~Given(flag)
  BY <1>1 DEF ReadTo, OptionsRead
<1>3. \A flag : GroupsOf(flag) = {i \in 1..k : line.groups[i][1] = flag}
  <2>1. DOMAIN line.groups = 1..k
    BY <1>2, LineTypes
  <2> QED
    BY <2>1 DEF GroupsOf
<1>4. /\ "timeout_ms" \in DOMAIN FlagNumbers <=> Given("--timeout-ms")
      /\ "max_attempts" \in DOMAIN FlagNumbers <=> Given("--max-attempts")
      /\ Given("--timeout-ms") => FlagNumbers["timeout_ms"] = Numbers[Value("--timeout-ms")]
      /\ Given("--max-attempts") => FlagNumbers["max_attempts"] = Numbers[Value("--max-attempts")]
  BY DEF FlagNumbers
<1>5. ASSUME NEW flag \in NumberFlags
      PROVE  InFlag(flag) = IF Given(flag) THEN {Number(Numbers[Value(flag)])} ELSE {}
  <2>1. CASE command = <<"run">>
    <3>1. line.verb \in {<<"run">>, <<>>}
      BY <1>2, <2>1 DEF IsLineOf
    <3>2. FlagRead(flag, k)
      BY <1>2, <2>1
    <3>3. IF GroupsOf(flag) = {} THEN ~Given(flag) ELSE Given(flag) /\ Value(flag) = LastMeant(flag)
      BY <1>3, <3>2 DEF FlagRead, LastMeant
    <3> QED
      BY <3>1, <3>3 DEF InFlag
  <2>2. CASE command = <<"replay", "run">>
    <3>1. line.verb = <<"replay", "run">>
      <4>1. <<"replay", "run">> # <<"run">>
        OBVIOUS
      <4> QED
        BY <1>2, <2>2, <4>1 DEF IsLineOf
    <3>2. <<"replay", "run">> # <<"run">> /\ <<"replay", "run">> # <<>>
      OBVIOUS
    <3> QED
      BY <1>2, <2>2, <3>1, <3>2 DEF InFlag
  <2> QED
    BY <2>1, <2>2 DEF Followed
<1> QED
  BY <1>4, <1>5 DEF NumberFlags, NumberOf

\* The policy of every tool, once the configuration is loaded.
InOrder ==
    \A tool : PolicyMeant(file, ResolveToolPolicy(config, tool), tool,
                          InFlag("--timeout-ms"), InFlag("--max-attempts"))

SettingsInv ==
    /\ pc \in {"start", "session"} => command = <<"run">>
    /\ command \in Followed /\ pc \in {"open", "start", "session", "act", "replay"} => InOrder
    /\ sent # Nothing /\ file # Nothing =>
          PolicyMeant(file, sent.policy, sent.tool, InFlag("--timeout-ms"), InFlag("--max-attempts"))

LEMMA SettingsStep == LineInv /\ ReplayInv /\ SettingsInv /\ [Next]_vars => SettingsInv'
<1> SUFFICES ASSUME LineInv, ReplayInv, SettingsInv, [Next]_vars PROVE SettingsInv'
  OBVIOUS
<1>1. ASSUME UNCHANGED line PROVE \A flag : InFlag(flag)' = InFlag(flag)
  BY <1>1 DEF InFlag, GroupsOf, LastMeant
<1>2. ASSUME UNCHANGED <<line, file, config>>, InOrder PROVE InOrder'
  <2>1. /\ file' = file /\ config' = config
        /\ InFlag("--timeout-ms")' = InFlag("--timeout-ms")
        /\ InFlag("--max-attempts")' = InFlag("--max-attempts")
    BY <1>1, <1>2
  <2> QED
    BY <1>2, <2>1 DEF InOrder
<1>3. ASSUME pc' = "prompt", file' = Nothing PROVE SettingsInv'
  BY <1>3 DEF SettingsInv
<1>4. ASSUME pc' \notin {"open", "start", "session", "act", "replay"}, sent' = Nothing PROVE SettingsInv'
  BY <1>4 DEF SettingsInv
<1>5. ASSUME pc \in {"open", "start", "session", "act", "replay"},
             pc' \in {"open", "start", "session", "act", "replay"},
             pc' \in {"start", "session"} => command = <<"run">>,
             UNCHANGED <<line, command, file, config>>,
             \/ sent' = Nothing
             \/ UNCHANGED sent
             \/ /\ command \in Followed
                /\ sent'.policy = ResolveToolPolicy(config, sent'.tool)
      PROVE  SettingsInv'
  <2>1. command' \in Followed => InOrder'
    BY <1>2, <1>5 DEF SettingsInv
  <2>2. sent' # Nothing /\ file' # Nothing =>
           PolicyMeant(file', sent'.policy, sent'.tool, InFlag("--timeout-ms"), InFlag("--max-attempts"))
    BY <1>5 DEF SettingsInv, InOrder
  <2> QED
    BY <1>1, <1>5, <2>1, <2>2 DEF SettingsInv
<1>6. ASSUME NEW l \in Lines, Type(l) PROVE SettingsInv'
  BY <1>4, <1>6 DEF Type, Exit, Goto
<1>7. CASE ReadSwitch \/ ReadOption \/ ReadId
  <2>1. pc' = "parse" /\ sent' = Nothing
    BY <1>7 DEF ReadSwitch, ReadOption, ReadId, Read, touchVars, ReplayInv
  <2> QED
    BY <1>4, <2>1
<1>8. CASE Reject \/ EndSession \/ Query \/ EndReplay
  <2>1. pc' = "prompt" /\ file' = Nothing
    BY <1>8, Zenon DEF Reject, EndSession, Query, EndReplay, Exit, Goto
  <2> QED
    BY <1>3, <2>1
<1>9. CASE EndOptions
  <2>1. \/ pc' = "prompt" /\ file' = Nothing
        \/ pc' = "load" /\ sent' = Nothing
    BY <1>9 DEF EndOptions, Exit, Goto, touchVars, ReplayInv
  <2> QED
    BY <1>3, <1>4, <2>1
<1>10. CASE LoadSettings
  <2>1. PICK f \in Files :
          \/ pc' = "prompt" /\ file' = Nothing
          \/ /\ AcceptsFile(f, Given("--config"))
             /\ file' = f /\ config' = WithIdentity(LoadConfig(f, FlagNumbers))
             /\ pc' = "open" /\ UNCHANGED <<line, command, sent>>
    BY <1>10 DEF LoadSettings, Exit, Goto, touchVars, parseVars
  <2>2. pc = "load" /\ sent = Nothing
    BY <1>10 DEF LoadSettings, ReplayInv
  <2>3. CASE pc' = "prompt" /\ file' = Nothing
    BY <1>3, <2>3
  <2>4. CASE /\ AcceptsFile(f, Given("--config"))
             /\ file' = f /\ config' = WithIdentity(LoadConfig(f, FlagNumbers))
             /\ pc' = "open" /\ UNCHANGED <<line, command, sent>>
    <3> DEFINE loaded == LoadConfig(f, FlagNumbers)
               new == WithIdentity(loaded)
    <3>1. HasDocument(f) => IsJson(f.document)
      BY CommandsAssumption
    <3>2. HasSettings(loaded) /\ Loads(InForce(loaded), WrittenIn(f), FlagNumbers)
      BY <2>4, <3>1, LoadedSettings
    <3> HIDE DEF loaded
    <3>3. HasSettings(new) /\ InForce(new) = InForce(loaded)
      BY <3>2, IdentityKeepsSettings
    <3> HIDE DEF new
    <3>4. Loads(InForce(new), WrittenIn(f), FlagNumbers)
      BY <3>2, <3>3
    <3>5. \A tool : PolicyMeant(f, ResolveToolPolicy(new, tool), tool,
                                NumberOf(FlagNumbers, "timeout_ms"), NumberOf(FlagNumbers, "max_attempts"))
      BY <2>4, <3>1, <3>3, <3>4, PolicyInOrder
    <3>6. command \in Followed => InOrder'
      <4> SUFFICES ASSUME command \in Followed PROVE InOrder'
        OBVIOUS
      <4>1. /\ InFlag("--timeout-ms") = NumberOf(FlagNumbers, "timeout_ms")
            /\ InFlag("--max-attempts") = NumberOf(FlagNumbers, "max_attempts")
        BY <2>2, FlagsTyped
      <4>2. config' = new /\ file' = f
        BY <2>4 DEF new, loaded
      <4>3. /\ InFlag("--timeout-ms")' = InFlag("--timeout-ms")
            /\ InFlag("--max-attempts")' = InFlag("--max-attempts")
        BY <1>1, <2>4
      <4> QED
        BY <3>5, <4>1, <4>2, <4>3 DEF InOrder
    <3> QED
      BY <2>2, <2>4, <3>6 DEF SettingsInv
  <2> QED
    BY <2>1, <2>3, <2>4
<1>11. CASE OpenStores
  <2>1. CASE pc' = "prompt" /\ file' = Nothing
    BY <1>3, <2>1
  <2>2. CASE /\ pc' = IF command = <<"run">> THEN "start" ELSE "act"
             /\ UNCHANGED <<line, command, file, config, sent>>
    <3>1. pc = "open"
      BY <1>11 DEF OpenStores
    <3> QED
      BY <1>5, <2>2, <3>1
  <2> QED
    BY <1>11, <2>1, <2>2 DEF OpenStores, Exit, Goto, parseVars
<1>12. CASE StartServer
  <2>1. \/ pc' = "prompt" /\ file' = Nothing
        \/ /\ pc = "start" /\ pc' = "session"
           /\ UNCHANGED <<line, command, file, config, sent>>
    BY <1>12 DEF StartServer, Exit, Goto, parseVars
  <2>2. pc = "start" => command = <<"run">>
    BY DEF SettingsInv
  <2> QED
    BY <1>3, <1>5, <2>1, <2>2
<1>13. ASSUME NEW call \in Calls, CallTool(call) PROVE SettingsInv'
  <2>1. /\ pc = "session" /\ UNCHANGED <<pc, line, command, file, config>>
        /\ sent' = [arguments |-> call.arguments, tool |-> call.tool,
                    policy |-> ResolveToolPolicy(config, call.tool)]
    BY <1>13 DEF CallTool, parseVars
  <2>2. command = <<"run">>
    BY <2>1 DEF SettingsInv
  <2>3. sent'.tool = call.tool /\ sent'.policy = ResolveToolPolicy(config, call.tool)
    BY <2>1
  <2> QED
    BY <1>5, <2>1, <2>2, <2>3 DEF Followed
<1>14. CASE Select
  <2>1. \/ pc' = "prompt" /\ file' = Nothing
        \/ /\ pc = "act" /\ pc' = "replay"
           /\ UNCHANGED <<line, command, file, config, sent>>
    BY <1>14 DEF Select, Exit, Goto, parseVars
  <2> QED
    BY <1>3, <1>5, <2>1
<1>15. CASE ReplayRecord
  <2>1. PICK r \in todo : NotExecuted(r) \/ DryRun(r) \/ Redrive(r)
    BY <1>15 DEF ReplayRecord
  <2>2. pc = "replay" /\ UNCHANGED <<pc, line, command, file, config>>
    BY <1>15, <2>1 DEF ReplayRecord, NotExecuted, DryRun, Redrive, Take, parseVars
  <2>3. command \in Followed
    BY <2>2 DEF LineInv, Followed
  <2>4. \/ sent' = Nothing
        \/ UNCHANGED sent
        \/ sent'.policy = ResolveToolPolicy(config, sent'.tool)
    <3>1. NotExecuted(r) => sent' = Nothing
      BY DEF NotExecuted
    <3>2. DryRun(r) => UNCHANGED sent
      BY DEF DryRun
    <3>3. Redrive(r) => sent'.policy = ResolveToolPolicy(config, r.tool) /\ sent'.tool = r.tool
      BY DEF Redrive
    <3> QED
      BY <2>1, <3>1, <3>2, <3>3
  <2> QED
    BY <1>5, <2>2, <2>3, <2>4
<1>16. CASE UNCHANGED vars
  <2>1. UNCHANGED <<pc, line, command, file, config, sent>>
    BY <1>16 DEF vars, parseVars, touchVars
  <2> QED
    BY <1>1, <1>2, <2>1 DEF SettingsInv
<1> QED
  BY <1>6, <1>7, <1>8, <1>9, <1>10, <1>11, <1>12, <1>13, <1>14, <1>15, <1>16 DEF Next

\* loadConfig, applyReliability, applyRetry and resolveToolPolicy: whatever file is
\* accepted and whatever is typed, the timeout, the retries and the idempotency a call
\* is made with, in a session or by a replay, are the tool's own in the file, else
\* what the flag of this `run` says, else what the file says for all, else the
\* default, each field by itself.
THEOREM SettingsInOrder == Spec => []SettingsByPrecedence
<1>1. Init => LineInv /\ ReplayInv /\ SettingsInv
  BY DEF Init, LineInv, ReplayInv, ReplayIsComplete, SettingsInv
<1>2. LineInv /\ ReplayInv /\ SettingsInv /\ [Next]_vars => (LineInv /\ ReplayInv /\ SettingsInv)'
  BY LineStep, ReplayStep, SettingsStep
<1>3. SettingsInv => SettingsByPrecedence
  BY Zenon DEF SettingsInv, SettingsByPrecedence, PolicyMeant
<1> QED
  BY <1>1, <1>2, <1>3, PTL DEF Spec

-----------------------------------------------------------------------------
\* What is written in a tree is not lost: the leaves at a path.

\* A path has one leaf.
LEMMA LeafUnique ==
    ASSUME NEW value, Bounded(value)
    PROVE  \A leaf \in Leaves(value) : At(Leaves(value), leaf.path) = {leaf.value}
<1> DEFINE One(n) == \A l, m \in Leaves(n) : l.path = m.path => l.value = m.value
           T == {n \in Nodes(value) : One(n)}
<1>1. ASSUME NEW n \in Nodes(value), Parts(n) \subseteq T PROVE One(n)
  <2>1. /\ Bounded(n)
        /\ Leaves(n) = IF Entries(n) = {} THEN {[path |-> <<>>, value |-> n]}
                       ELSE UNION {Below(e[1], Leaves(e[2])) : e \in Entries(n)}
    BY BoundedNodes, LeavesOfParts
  <2>2. CASE Entries(n) = {}
    BY <2>1, <2>2
  <2>3. CASE Entries(n) # {}
    <3> SUFFICES ASSUME NEW l \in Leaves(n), NEW m \in Leaves(n), l.path = m.path PROVE l.value = m.value
      OBVIOUS
    <3>1. ASSUME NEW leaf \in Leaves(n)
          PROVE  \E e \in Entries(n) : \E x \in Leaves(e[2]) : leaf = LeafBelow(e[1], x)
      <4>1. PICK e \in Entries(n) : leaf \in Below(e[1], Leaves(e[2]))
        BY <2>1, <2>3, <3>1
      <4> QED
        BY <4>1 DEF Below, LeafBelow
    <3>2. PICK e \in Entries(n) : \E x \in Leaves(e[2]) : l = LeafBelow(e[1], x)
      BY <3>1
    <3>3. PICK f \in Entries(n) : \E y \in Leaves(f[2]) : m = LeafBelow(f[1], y)
      BY <3>1
    <3>4. PICK x \in Leaves(e[2]) : l = LeafBelow(e[1], x)
      BY <3>2
    <3>5. PICK y \in Leaves(f[2]) : m = LeafBelow(f[1], y)
      BY <3>3
    <3>6. \A g \in Entries(n) : g[2] \in Parts(n)
      BY DEF Parts
    <3>7. IsPath(x.path) /\ IsPath(y.path)
      BY <2>1, <3>6, BoundedParts, LeafPaths
    <3>8. /\ <<e[1]>> \o x.path = <<f[1]>> \o y.path
          /\ l.value = x.value /\ m.value = y.value
      BY <3>4, <3>5 DEF LeafBelow
    <3>9. e[1] = f[1]
      BY <3>7, <3>8, Prepended
    <3>10. e = f
      <4>1. \A s, t : Key(s) = Key(t) => s = t
        BY DEF Key
      <4>2. \A s, t : Index(s) = Index(t) => s = t
        BY DEF Index
      <4> QED
        BY <3>9, <4>1, <4>2 DEF Entries
    <3>11. x.path = y.path
      BY <3>7, <3>8, <3>9, SamePath
    <3>12. One(e[2])
      BY <1>1, <3>6
    <3> QED
      BY <3>8, <3>10, <3>11, <3>12
  <2> QED
    BY <2>2, <2>3
<1>2. Nodes(value) \subseteq T
  BY <1>1, NodeInduction
<1>3. One(value)
  BY <1>2, NodeAt
<1> QED
  BY <1>3 DEF At

\* The place of a path is behind the same fields, and up to a list.
LEMMA Placed ==
    /\ PlaceOf(<<>>) = <<>>
    /\ \A k, p : IsPath(p) => PlaceOf(<<Key(k)>> \o p) = <<Key(k)>> \o PlaceOf(p) /\ IsPath(PlaceOf(p))
    /\ \A i, p : IsPath(p) => PlaceOf(<<Index(i)>> \o p) = <<>>
<1> DEFINE IndexesOf(path) == {i \in DOMAIN path : "index" \in DOMAIN path[i]}
<1>1. \A path : PlaceOf(path) = IF IndexesOf(path) = {} THEN path ELSE SubSeq(path, 1, Min(IndexesOf(path)) - 1)
  BY Zenon DEF PlaceOf
<1>2. \A k : "index" \notin DOMAIN Key(k) /\ "index" \in DOMAIN Index(k)
  BY DEF Key, Index
<1>3. PlaceOf(<<>>) = <<>>
  <2>1. DOMAIN <<>> = {}
    OBVIOUS
  <2> QED
    BY <1>1, <2>1
<1>4. ASSUME NEW S, S \subseteq Nat, S # {}
      PROVE  Min(S) \in S /\ \A n \in S : Min(S) <= n
  BY <1>4, LeastExists DEF Min
<1>5. ASSUME NEW k, NEW p, IsPath(p)
      PROVE  PlaceOf(<<Key(k)>> \o p) = <<Key(k)>> \o PlaceOf(p) /\ IsPath(PlaceOf(p))
  <2> DEFINE s == Key(k)
             path == <<s>> \o p
             within == IndexesOf(p)
             all == IndexesOf(path)
             least == Min(within)
  <2> PICK U0 : p \in Seq(U0)
    BY <1>5 DEF IsPath
  <2> DEFINE U == U0 \cup {s}
  <2>1. p \in Seq(U) /\ <<s>> \in Seq(U) /\ Len(<<s>>) = 1 /\ <<s>>[1] = s
    OBVIOUS
  <2>2. /\ IsPath(path) /\ Len(p) \in Nat /\ DOMAIN p = 1..Len(p)
        /\ Len(path) = Len(p) + 1 /\ DOMAIN path = 1..(Len(p) + 1)
        /\ path[1] = s /\ \A i \in 1..Len(p) : path[i + 1] = p[i]
    BY <1>5, Prepended
  <2>3. path \in Seq(U)
    BY <2>1
  <2>4. "index" \notin DOMAIN s
    BY <1>2
  <2> HIDE DEF path, s, U
  <2>5. all = {i + 1 : i \in within}
    <3>1. ASSUME NEW j \in all PROVE j - 1 \in within /\ j = (j - 1) + 1
      <4>1. j \in 1..(Len(p) + 1) /\ j # 1
        BY <2>2, <2>4
      <4>2. j - 1 \in 1..Len(p) /\ j = (j - 1) + 1
        BY <2>2, <4>1
      <4> QED
        BY <2>2, <4>2
    <3>2. ASSUME NEW i \in within PROVE i + 1 \in all
      <4>1. i \in 1..Len(p) /\ i + 1 \in 1..(Len(p) + 1)
        BY <2>2
      <4> QED
        BY <2>2, <4>1
    <3> HIDE DEF all, within
    <3> QED
      BY <3>1, <3>2
  <2>6. CASE within = {}
    <3>1. PlaceOf(path) = path /\ PlaceOf(p) = p
      BY <1>1, <2>5, <2>6
    <3> QED
      BY <1>5, <3>1 DEF path, s
  <2>7. CASE within # {}
    <3>1. within \subseteq Nat /\ within \subseteq 1..Len(p) /\ all \subseteq Nat /\ all # {}
      BY <2>2, <2>5, <2>7
    <3> HIDE DEF within, all
    <3>2. least \in within /\ \A n \in within : least <= n
      BY <1>4, <2>7, <3>1
    <3> DEFINE first == Min(all)
    <3>3. first \in all /\ \A n \in all : first <= n
      BY <1>4, <3>1
    <3> HIDE DEF least, first
    <3>4. first = least + 1
      <4>1. PICK i \in within : first = i + 1
        BY <2>5, <3>3
      <4>2. i + 1 <= least + 1 /\ least <= i /\ i \in Nat /\ least \in Nat
        BY <2>5, <3>1, <3>2, <3>3, <4>1
      <4> QED
        BY <4>1, <4>2
    <3>5. least \in 1..Len(p) /\ first - 1 = least
      BY <2>2, <3>1, <3>2, <3>4
    <3> DEFINE head == SubSeq(p, 1, least - 1)
               more == SubSeq(path, 1, least)
    <3>6. PlaceOf(p) = head /\ PlaceOf(path) = more
      <4>1. PlaceOf(p) = SubSeq(p, 1, least - 1)
        BY <1>1, <2>7 DEF within, least
      <4>2. PlaceOf(path) = SubSeq(path, 1, first - 1)
        BY <1>1, <3>1 DEF all, first
      <4> QED
        BY <3>5, <4>1, <4>2
    <3>7. head \in Seq(U) /\ Len(head) = least - 1 /\ \A i \in 1..(least - 1) : head[i] = p[i]
      BY <2>1, <2>2, <3>5
    <3>8. more \in Seq(U) /\ Len(more) = least /\ \A i \in 1..least : more[i] = path[i]
      BY <2>2, <2>3, <3>5
    <3> DEFINE one == <<s>>
    <3>9. one \in Seq(U) /\ Len(one) = 1 /\ one[1] = s
      BY <2>1
    <3> HIDE DEF head, more, one
    <3>10. \A i \in 1..Len(head) : more[Len(one) + i] = head[i]
      <4> TAKE i \in 1..Len(head)
      <4>1. i \in 1..(least - 1) /\ i + 1 \in 1..least /\ i \in 1..Len(p) /\ 1 + i = i + 1
        BY <2>2, <3>5, <3>7
      <4> QED
        BY <2>2, <3>7, <3>8, <3>9, <4>1
    <3>11. Len(more) = Len(one) + Len(head) /\ \A i \in 1..Len(one) : more[i] = one[i]
      BY <2>2, <3>5, <3>7, <3>8, <3>9
    <3>12. one \o head = more
      BY <3>7, <3>8, <3>9, <3>10, <3>11, Joins
    <3> QED
      BY <3>6, <3>7, <3>12 DEF path, s, one, IsPath
  <2> QED
    BY <2>6, <2>7
<1>6. ASSUME NEW i, NEW p, IsPath(p) PROVE PlaceOf(<<Index(i)>> \o p) = <<>>
  <2> DEFINE path == <<Index(i)>> \o p
             all == IndexesOf(path)
  <2>1. /\ IsPath(path) /\ Len(p) \in Nat /\ DOMAIN path = 1..(Len(p) + 1) /\ path[1] = Index(i)
    BY <1>6, Prepended
  <2> HIDE DEF path
  <2>2. 1 \in all /\ all \subseteq Nat /\ all \subseteq 1..(Len(p) + 1)
    BY <1>2, <2>1
  <2>3. Min(all) = 1
    <3> DEFINE first == Min(all)
    <3> HIDE DEF all
    <3>1. first \in all /\ first <= 1
      BY <1>4, <2>2
    <3> HIDE DEF first
    <3>2. first \in 1..(Len(p) + 1)
      BY <2>2, <3>1
    <3>3. first = 1
      BY <2>1, <3>1, <3>2
    <3> QED
      BY <3>3 DEF first
  <2>4. PlaceOf(path) = SubSeq(path, 1, 0)
    BY <1>1, <2>2, <2>3
  <2> PICK U : path \in Seq(U)
    BY <2>1 DEF IsPath
  <2>5. SubSeq(path, 1, 0) = <<>>
    OBVIOUS
  <2> QED
    BY <2>4, <2>5 DEF path
<1> QED
  BY <1>3, <1>5, <1>6

-----------------------------------------------------------------------------
\* What a value writes: its leaves but the empty objects, and their places, with a
\* list as a whole unless it is to be exact.
Writes(v) == {leaf \in Leaves(v) : leaf.value # EmptyObject}
Place(exact, path) == IF exact THEN path ELSE PlaceOf(path)
PlacesIn(exact, v) == {Place(exact, leaf.path) : leaf \in Writes(v)}

\* `windows` are the paths of what is written as a duration and kept in milliseconds.
StoredAs(leaf, windows) ==
    IF leaf.path \in windows THEN Number(ParseDuration(leaf.value.string)) ELSE leaf.value

\* `after` has what `v` writes, and of `before` what `v` does not write over.
Merged(v, before, after, windows, exact) ==
    /\ \A d \in 1..(MaxDepth + 1) : Level(v)[d] = {} /\ Level(before)[d] = {} => Level(after)[d] = {}
    /\ \A leaf \in Writes(v) : At(Leaves(after), leaf.path) = {StoredAs(leaf, windows)}
    /\ \A leaf \in Writes(before) :
          Place(exact, leaf.path) \notin PlacesIn(exact, v) => At(Leaves(after), leaf.path) = {leaf.value}

\* The windows below a field.
AreWindows(inner, k, windows) ==
    \A path : IsPath(path) => (path \in inner <=> <<Key(k)>> \o path \in windows)

FullRecord(v) == IsRecord(v) /\ (DOMAIN v.object = {} => v = EmptyObject)

LEMMA NothingWritten == Leaves(EmptyObject) = {[path |-> <<>>, value |-> EmptyObject]} /\ Writes(EmptyObject) = {}
<1>1. Entries(EmptyObject) = {}
  BY DEF EmptyObject, Object, Entries, IsRecord
<1>2. Leaves(EmptyObject) = {[path |-> <<>>, value |-> EmptyObject]}
  BY <1>1, ScalarLeaf
<1> DEFINE leaf == [path |-> <<>>, value |-> EmptyObject]
<1>3. leaf.value = EmptyObject
  OBVIOUS
<1> HIDE DEF leaf
<1>4. Writes(EmptyObject) = {}
  BY <1>2, <1>3 DEF Writes, leaf
<1> QED
  BY <1>2, <1>4

LEMMA WrittenBelow ==
    ASSUME NEW v, Bounded(v), FullRecord(v)
    PROVE  /\ \A leaf \in Writes(v) : \E k \in DOMAIN v.object : \E l \in Writes(v.object[k]) :
                leaf = LeafBelow(Key(k), l)
           /\ \A k \in DOMAIN v.object : \A l \in Writes(v.object[k]) : LeafBelow(Key(k), l) \in Writes(v)
           /\ \A k \in DOMAIN v.object : \A l \in Leaves(v.object[k]) : IsPath(l.path)
<1>1. \A k, l : LeafBelow(Key(k), l).value = l.value
  BY DEF LeafBelow
<1>2. ASSUME NEW leaf \in Writes(v)
      PROVE  \E k \in DOMAIN v.object : \E l \in Writes(v.object[k]) : leaf = LeafBelow(Key(k), l)
  <2>1. DOMAIN v.object # {}
    BY NothingWritten DEF FullRecord
  <2>2. PICK k \in DOMAIN v.object : Len(leaf.path) >= 1 /\ leaf.path[1] = Key(k)
    BY <2>1, FieldOfLeaf DEF Writes, FullRecord
  <2>3. PICK l \in Leaves(v.object[k]) : leaf = LeafBelow(Key(k), l)
    BY <2>2, LeavesAt DEF Writes, FullRecord
  <2> QED
    BY <1>1, <2>3 DEF Writes
<1>3. ASSUME NEW k \in DOMAIN v.object, NEW l \in Writes(v.object[k]) PROVE LeafBelow(Key(k), l) \in Writes(v)
  BY <1>1, LeavesAt DEF Writes, FullRecord
<1>4. ASSUME NEW k \in DOMAIN v.object, NEW l \in Leaves(v.object[k]) PROVE IsPath(l.path)
  BY PartAt, BoundedParts, LeafPaths DEF FullRecord
<1> QED
  BY <1>2, <1>3, <1>4

\* An object is merged when its fields are.
LEMMA FieldsMerged ==
    ASSUME NEW v, Bounded(v), FullRecord(v), NEW before, Bounded(before), FullRecord(before),
           NEW after, IsRecord(after), DOMAIN after.object = DOMAIN v.object \cup DOMAIN before.object,
           NEW windows, NEW within, NEW exact,
           \A k \in DOMAIN v.object : AreWindows(within[k], k, windows),
           \A k \in DOMAIN v.object :
              Merged(v.object[k], OldField(before, k), after.object[k], within[k], exact),
           \A k \in DOMAIN before.object : k \notin DOMAIN v.object => after.object[k] = before.object[k]
    PROVE  Merged(v, before, after, windows, exact) /\ Bounded(after)
<1>1. \A x : IsRecord(x) => /\ \A k \in DOMAIN x.object : x.object[k] \in Parts(x)
                            /\ \A p \in Parts(x) : \E k \in DOMAIN x.object : p = x.object[k]
  <2> SUFFICES ASSUME NEW x, IsRecord(x) PROVE \A p \in Parts(x) : \E k \in DOMAIN x.object : p = x.object[k]
    BY PartAt
  <2>1. Entries(x) = {<<Key(k), x.object[k]>> : k \in DOMAIN x.object}
    BY DEF Entries
  <2> QED
    BY <2>1 DEF Parts
<1>2. MaxDepth \in Nat
  BY JsonAssumption
<1>3. ASSUME NEW d \in 1..(MaxDepth + 1), Level(v)[d] = {}, Level(before)[d] = {} PROVE Level(after)[d] = {}
  <2>1. d - 1 \in 0..MaxDepth /\ (d - 1) + 1 = d
    BY <1>2
  <2>2. \A x : Level(x)[d] = UNION {Level(p)[d - 1] : p \in Parts(x)}
    BY <2>1, LevelOfParts
  <2>3. \A x : Level(x)[d] = {} => \A p \in Parts(x) : Level(p)[d - 1] = {}
    BY <2>2
  <2>4. ASSUME NEW k \in DOMAIN after.object PROVE Level(after.object[k])[d - 1] = {}
    <3>1. CASE k \notin DOMAIN v.object
      BY <1>1, <1>3, <2>3, <3>1 DEF FullRecord
    <3>2. CASE k \in DOMAIN v.object
      <4>1. Level(v.object[k])[d - 1] = {}
        BY <1>1, <1>3, <2>3, <3>2 DEF FullRecord
      <4>2. d # 1
        BY <4>1, LevelZero
      <4>3. d - 1 \in 1..(MaxDepth + 1)
        BY <1>2, <4>2
      <4>4. Level(OldField(before, k))[d - 1] = {}
        <5>1. CASE k \in DOMAIN before.object
          BY <1>1, <1>3, <2>3, <5>1 DEF FullRecord, OldField
        <5>2. CASE k \notin DOMAIN before.object
          <6>1. Entries(EmptyObject) = {}
            BY DEF EmptyObject, Object, Entries, IsRecord
          <6> QED
            BY <4>3, <5>2, <6>1, ScalarLeaf DEF OldField
        <5> QED
          BY <5>1, <5>2
      <4> QED
        BY <3>2, <4>1, <4>3, <4>4 DEF Merged
    <3> QED
      BY <3>1, <3>2
  <2>5. \A p \in Parts(after) : Level(p)[d - 1] = {}
    BY <1>1, <2>4
  <2> QED
    BY <2>2, <2>5
<1>4. Bounded(after)
  <2>1. MaxDepth + 1 \in 1..(MaxDepth + 1)
    BY <1>2
  <2> QED
    BY <1>3, <2>1 DEF Bounded
<1>5. ASSUME NEW k \in DOMAIN after.object, NEW l, IsPath(l.path)
      PROVE  At(Leaves(after), LeafBelow(Key(k), l).path) = At(Leaves(after.object[k]), l.path)
  BY <1>4, <1>5, AtField DEF LeafBelow
<1>6. ASSUME NEW leaf \in Writes(v) PROVE At(Leaves(after), leaf.path) = {StoredAs(leaf, windows)}
  <2>1. PICK k \in DOMAIN v.object : \E l \in Writes(v.object[k]) : leaf = LeafBelow(Key(k), l)
    BY WrittenBelow
  <2>2. PICK l \in Writes(v.object[k]) : leaf = LeafBelow(Key(k), l)
    BY <2>1
  <2>3. IsPath(l.path)
    BY WrittenBelow DEF Writes
  <2>4. leaf.path = <<Key(k)>> \o l.path /\ leaf.value = l.value
    BY <2>2 DEF LeafBelow
  <2>5. StoredAs(leaf, windows) = StoredAs(l, within[k])
    BY <2>3, <2>4 DEF StoredAs, AreWindows
  <2>6. At(Leaves(after.object[k]), l.path) = {StoredAs(l, within[k])}
    BY DEF Merged
  <2> QED
    BY <1>5, <2>2, <2>3, <2>5, <2>6
<1>7. ASSUME NEW leaf \in Writes(before), Place(exact, leaf.path) \notin PlacesIn(exact, v)
      PROVE  At(Leaves(after), leaf.path) = {leaf.value}
  <2>1. PICK k \in DOMAIN before.object : \E l \in Writes(before.object[k]) : leaf = LeafBelow(Key(k), l)
    BY WrittenBelow
  <2>2. PICK l \in Writes(before.object[k]) : leaf = LeafBelow(Key(k), l)
    BY <2>1
  <2>3. IsPath(l.path)
    BY WrittenBelow DEF Writes
  <2>4. leaf.path = <<Key(k)>> \o l.path /\ leaf.value = l.value
    BY <2>2 DEF LeafBelow
  <2>5. At(Leaves(after), leaf.path) = At(Leaves(after.object[k]), l.path)
    BY <1>5, <2>2, <2>3
  <2>6. CASE k \notin DOMAIN v.object
    <3>1. Bounded(before.object[k])
      BY <1>1, BoundedParts DEF FullRecord
    <3>2. At(Leaves(before.object[k]), l.path) = {l.value}
      BY <3>1, LeafUnique DEF Writes
    <3> QED
      BY <2>4, <2>5, <2>6, <3>2
  <2>7. CASE k \in DOMAIN v.object
    <3>1. Merged(v.object[k], before.object[k], after.object[k], within[k], exact)
      BY <2>7 DEF OldField
    <3>2. ASSUME NEW w \in Writes(v.object[k]), Place(exact, l.path) = Place(exact, w.path) PROVE FALSE
      <4>1. IsPath(w.path)
        BY <2>7, WrittenBelow DEF Writes
      <4> DEFINE whole == LeafBelow(Key(k), w)
      <4>2. whole.path = <<Key(k)>> \o w.path /\ whole \in Writes(v)
        BY <2>7, WrittenBelow DEF LeafBelow
      <4> HIDE DEF whole
      <4>3. \A path : IsPath(path) => Place(exact, <<Key(k)>> \o path) = <<Key(k)>> \o Place(exact, path)
        <5>1. \A path : IsPath(path) => PlaceOf(<<Key(k)>> \o path) = <<Key(k)>> \o PlaceOf(path)
          BY Placed
        <5>2. CASE exact
          BY <5>2 DEF Place
        <5>3. CASE ~exact
          BY <5>1, <5>3, Zenon DEF Place
        <5> QED
          BY <5>2, <5>3
      <4>4. Place(exact, whole.path) = Place(exact, leaf.path)
        BY <2>3, <2>4, <3>2, <4>1, <4>2, <4>3
      <4> QED
        BY <1>7, <4>2, <4>4 DEF PlacesIn
    <3>3. Place(exact, l.path) \notin PlacesIn(exact, v.object[k])
      BY <3>2 DEF PlacesIn
    <3> QED
      BY <2>4, <2>5, <3>1, <3>3 DEF Merged
  <2> QED
    BY <2>6, <2>7
<1> QED
  BY <1>3, <1>4, <1>6, <1>7 DEF Merged

\* A list or a single value takes the place of one that stands at its place.
AtTop(v) == \A leaf \in Writes(v) : PlaceOf(leaf.path) = <<>>

LEMMA Tops ==
    ASSUME NEW v, Bounded(v), Entries(v) = {} \/ ~IsRecord(v)
    PROVE  AtTop(v)
<1> SUFFICES ASSUME NEW leaf \in Leaves(v) PROVE PlaceOf(leaf.path) = <<>>
  BY DEF AtTop, Writes
<1>1. CASE Entries(v) = {}
  <2>1. leaf = [path |-> <<>>, value |-> v]
    BY <1>1, ScalarLeaf
  <2> QED
    BY <2>1, Placed
<1>2. CASE Entries(v) # {}
  <2>1. IsList(v) /\ Entries(v) = {<<Index(i), v.array[i]>> : i \in DOMAIN v.array}
    BY <1>2 DEF Entries
  <2>2. PICK e \in Entries(v) : leaf \in Below(e[1], Leaves(e[2]))
    BY <1>2, LeavesOfParts
  <2>3. PICK i \in DOMAIN v.array : e = <<Index(i), v.array[i]>>
    BY <2>1
  <2>4. PICK l \in Leaves(e[2]) : leaf = [path |-> <<e[1]>> \o l.path, value |-> l.value]
    BY <2>2 DEF Below
  <2>5. e[2] \in Parts(v)
    BY DEF Parts
  <2>6. IsPath(l.path)
    BY <2>5, BoundedParts, LeafPaths
  <2>7. leaf.path = <<Index(i)>> \o l.path
    BY <2>3, <2>4
  <2> QED
    BY <2>6, <2>7, Placed
<1> QED
  BY <1>1, <1>2

LEMMA Replaced ==
    ASSUME NEW v, Bounded(v), AtTop(v), Writes(v) # {}, NEW before, AtTop(before)
    PROVE  Merged(v, before, v, {}, FALSE)
<1>1. \A leaf \in Writes(v) : At(Leaves(v), leaf.path) = {StoredAs(leaf, {})}
  BY LeafUnique DEF Writes, StoredAs
<1>2. \A leaf \in Writes(before) : Place(FALSE, leaf.path) \in PlacesIn(FALSE, v)
  BY DEF AtTop, Place, PlacesIn
<1> QED
  BY <1>1, <1>2 DEF Merged

LEMMA SingleReplaced ==
    ASSUME NEW v, Entries(v) = {}, v # EmptyObject, NEW before, Entries(before) = {}, NEW exact
    PROVE  Merged(v, before, v, {}, exact)
<1> DEFINE of(x) == [path |-> <<>>, value |-> x]
<1>1. Leaves(v) = {of(v)} /\ Leaves(before) = {of(before)} /\ Bounded(v)
  BY ScalarLeaf
<1>2. \A x : of(x).path = <<>> /\ of(x).value = x
  OBVIOUS
<1> HIDE DEF of
<1>3. Writes(v) = {of(v)} /\ Writes(before) \subseteq {of(before)}
  BY <1>1, <1>2 DEF Writes
<1>4. \A leaf \in Writes(v) : At(Leaves(v), leaf.path) = {StoredAs(leaf, {})}
  BY <1>1, LeafUnique DEF Writes, StoredAs
<1>5. Place(exact, of(v).path) = Place(exact, of(before).path)
  BY <1>2
<1>6. \A leaf \in Writes(before) : Place(exact, leaf.path) \in PlacesIn(exact, v)
  BY <1>3, <1>5 DEF PlacesIn
<1> QED
  BY <1>4, <1>6 DEF Merged

LEMMA DurationReplaced ==
    ASSUME NEW v, Entries(v) = {}, v # EmptyObject, NEW before, Entries(before) = {}
    PROVE  Merged(v, before, Number(ParseDuration(v.string)), {<<>>}, FALSE)
<1> DEFINE of(x) == [path |-> <<>>, value |-> x]
           after == Number(ParseDuration(v.string))
<1>1. Entries(after) = {}
  BY DEF Number, Entries, IsRecord, IsList
<1> HIDE DEF after
<1>2. /\ Leaves(v) = {of(v)} /\ Leaves(before) = {of(before)} /\ Leaves(after) = {of(after)}
      /\ \A d \in 1..(MaxDepth + 1) : Level(after)[d] = {}
  BY <1>1, ScalarLeaf
<1>3. \A x : of(x).path = <<>> /\ of(x).value = x
  OBVIOUS
<1> HIDE DEF of
<1>4. Writes(v) = {of(v)} /\ Writes(before) \subseteq {of(before)}
  BY <1>2, <1>3 DEF Writes
<1>5. At(Leaves(after), <<>>) = {after}
  BY <1>2, <1>3 DEF At
<1>6. StoredAs(of(v), {<<>>}) = after
  BY <1>3 DEF StoredAs, after
<1>7. \A leaf \in Writes(v) : At(Leaves(after), leaf.path) = {StoredAs(leaf, {<<>>})}
  BY <1>3, <1>4, <1>5, <1>6
<1>8. \A leaf \in Writes(before) : Place(FALSE, leaf.path) \in PlacesIn(FALSE, v)
  BY <1>3, <1>4 DEF PlacesIn
<1>9. Merged(v, before, after, {<<>>}, FALSE)
  BY <1>2, <1>7, <1>8 DEF Merged
<1> QED
  BY <1>9 DEF after

IsMapping(r) == DOMAIN r = {"fields", "required"}

-----------------------------------------------------------------------------
\* A section `c.section` of a file, of which `c.broken` says what is accepted, and what
\* `c.applied` makes of its parts over those of `c.old`.
InContext(c) ==
    /\ NothingBroken(c.broken, c.section, c.rules) /\ Bounded(c.old)
    /\ \A v \in Nodes(c.section), r \in c.rules, before \in Nodes(c.old) \cup {EmptyObject} :
          c.applied[v][<<r, before>>] = Replacing(r, before, v, c.applied)

Merges(c, r, before, windows) ==
    \A v \in Nodes(c.section) :
       c.broken[v][r] = {} => Merged(v, before, c.applied[v][<<r, before>>], windows, FALSE)

\* A rule of single values, which an empty object is not.
IsSingle(r) == IsPlain(r) /\ ~HasScalar(EmptyObject, r)

LEMMA SingleRules ==
    /\ \A n : IsSingle(IntegerFrom(n))
    /\ \A words : IsSingle(OneOf(words))
    /\ \A type \in {"boolean", "text", "non-empty text", "amqp url"} : IsSingle(Scalar(type))
<1>1. /\ ~IsNumber(EmptyObject) /\ ~IsText(EmptyObject) /\ ~IsBoolean(EmptyObject)
  BY DEF EmptyObject, Object, IsNumber, IsText, IsBoolean
<1>2. ASSUME NEW n, NEW v, HasScalar(v, IntegerFrom(n)) PROVE IsNumber(v)
  <2>1. DOMAIN IntegerFrom(n) = {"least"}
    BY DEF IntegerFrom
  <2> QED
    BY <1>2, <2>1 DEF HasScalar
<1>3. ASSUME NEW words, NEW v, HasScalar(v, OneOf(words)) PROVE IsText(v)
  <2>1. DOMAIN OneOf(words) = {"among"}
    BY DEF OneOf
  <2> QED
    BY <1>3, <2>1 DEF HasScalar
<1>4. ASSUME NEW type \in {"boolean", "text", "non-empty text", "amqp url"}
      PROVE  /\ DOMAIN Scalar(type) = {"of"} /\ Scalar(type) # Scalar("duration")
             /\ \A v : HasScalar(v, Scalar(type)) => IsText(v) \/ IsBoolean(v)
  <2>1. DOMAIN Scalar(type) = {"of"} /\ Scalar(type).of = type /\ Scalar("duration").of = "duration"
    BY DEF Scalar
  <2>2. ASSUME NEW v, HasScalar(v, Scalar(type)) PROVE IsText(v) \/ IsBoolean(v)
    <3>1. IsSetting(type, v)
      BY <2>1, <2>2 DEF HasScalar
    <3> QED
      BY <3>1 DEF IsSetting
  <2> QED
    BY <2>1, <2>2
<1>5. ASSUME NEW v, WellFormed(v), IsText(v) \/ IsBoolean(v) PROVE Entries(v) = {}
  <2>1. IsRecord(v) => DOMAIN v = {"object"}
    BY <1>5 DEF WellFormed, Object
  <2>2. IsList(v) => DOMAIN v = {"array"}
    BY <1>5 DEF WellFormed, List
  <2> QED
    BY <1>5, <2>1, <2>2 DEF Entries, IsText, IsBoolean, IsRecord, IsList
<1>6. ASSUME NEW type \in {"boolean", "text", "non-empty text", "amqp url"} PROVE IsPlain(Scalar(type))
  <2> DEFINE r == Scalar(type)
  <2>1. DOMAIN r = {"of"} /\ r # Scalar("duration") /\ \A v : HasScalar(v, r) => IsText(v) \/ IsBoolean(v)
    BY <1>4
  <2> HIDE DEF r
  <2>2. "fields" \notin DOMAIN r /\ "each" \notin DOMAIN r /\ "entry" \notin DOMAIN r
    BY <2>1
  <2>3. IsPlain(r)
    BY <1>5, <2>1, <2>2 DEF IsPlain
  <2> QED
    BY <2>3 DEF r
<1> QED
  BY <1>1, <1>2, <1>3, <1>4, <1>6, PlainRules DEF IsSingle

LEMMA SingleMerges ==
    ASSUME NEW c, InContext(c), NEW r \in c.rules, IsSingle(r),
           NEW before \in Nodes(c.old) \cup {EmptyObject}, Entries(before) = {}
    PROVE  Merges(c, r, before, {})
<1> SUFFICES ASSUME NEW v \in Nodes(c.section), c.broken[v][r] = {}
             PROVE  Merged(v, before, c.applied[v][<<r, before>>], {}, FALSE)
  BY DEF Merges
<1>1. NothingBroken(c.broken, c.section, c.rules) /\ IsPlain(r)
  BY DEF InContext, IsSingle
<1>2. Entries(v) = {}
  BY <1>1, PlainAccepted
<1>3. Broken(v, r, c.broken) = {}
  BY <1>1 DEF NothingBroken
<1>4. HasScalar(v, r)
  BY <1>1, <1>3 DEF Broken, IsPlain
<1>5. v # EmptyObject
  BY <1>4 DEF IsSingle
<1>6. c.applied[v][<<r, before>>] = v
  BY <1>1, PlainReplaced DEF InContext
<1> QED
  BY <1>2, <1>5, <1>6, SingleReplaced

LEMMA DurationMerges ==
    ASSUME NEW c, InContext(c), Scalar("duration") \in c.rules,
           NEW before \in Nodes(c.old) \cup {EmptyObject}, Entries(before) = {}
    PROVE  Merges(c, Scalar("duration"), before, {<<>>})
<1> DEFINE r == Scalar("duration")
<1>1. DOMAIN r = {"of"} /\ r.of = "duration"
  BY DEF Scalar
<1> SUFFICES ASSUME NEW v \in Nodes(c.section), c.broken[v][r] = {}
             PROVE  Merged(v, before, c.applied[v][<<r, before>>], {<<>>}, FALSE)
  BY DEF Merges
<1>2. NothingBroken(c.broken, c.section, c.rules)
  BY DEF InContext
<1>3. c.applied[v][<<r, before>>] = Replacing(r, before, v, c.applied)
  BY DEF InContext
<1>4. Broken(v, r, c.broken) = {} /\ WellFormed(v)
  BY <1>2, NodesAreTrees DEF NothingBroken
<1>5. \A applied : Replacing(r, before, v, applied) = Number(ParseDuration(v.string))
  <2>1. r = Scalar("duration") /\ "fields" \notin DOMAIN r /\ "each" \notin DOMAIN r
    BY <1>1
  <2> HIDE DEF r
  <2> QED
    BY <2>1 DEF Replacing
<1> HIDE DEF r
<1>6. HasScalar(v, r)
  BY <1>1, <1>4 DEF Broken
<1>7. IsText(v)
  BY <1>1, <1>6 DEF HasScalar, IsSetting
<1>8. v # EmptyObject
  BY <1>7 DEF EmptyObject, Object, IsText
<1>9. Entries(v) = {}
  <2>1. IsRecord(v) => DOMAIN v = {"object"}
    BY <1>4 DEF WellFormed, Object
  <2>2. IsList(v) => DOMAIN v = {"array"}
    BY <1>4 DEF WellFormed, List
  <2> QED
    BY <1>7, <2>1, <2>2 DEF Entries, IsText, IsRecord, IsList
<1> QED
  BY <1>3, <1>5, <1>8, <1>9, DurationReplaced

LEMMA ListMerges ==
    ASSUME NEW c, InContext(c), NEW r \in c.rules, DOMAIN r = {"entry", "unique"},
           \A v \in Nodes(c.section) : c.broken[v][r.entry] = {} => Writes(v) # {},
           NEW before \in Nodes(c.old) \cup {EmptyObject}, AtTop(before)
    PROVE  Merges(c, r, before, {})
<1> SUFFICES ASSUME NEW v \in Nodes(c.section), c.broken[v][r] = {}
             PROVE  Merged(v, before, c.applied[v][<<r, before>>], {}, FALSE)
  BY DEF Merges
<1>1. /\ IsJson(c.section) /\ c.broken[v][r] = Broken(v, r, c.broken) /\ WellFormed(v) /\ Bounded(v)
      /\ Parts(v) \subseteq Nodes(c.section)
  BY NodesAreTrees, BoundedNodes DEF InContext, NothingBroken, IsJson, Bounded
<1> DEFINE inItems == UNION {c.broken[v.array[i]][r.entry] : i \in DOMAIN v.array}
<1>2. IsList(v) /\ inItems = {}
  BY <1>1 DEF Broken
<1>3. ~IsRecord(v)
  BY <1>1, <1>2 DEF WellFormed, IsList, IsRecord, List
<1>4. r # Scalar("duration")
  BY DEF Scalar
<1>5. c.applied[v][<<r, before>>] = v
  BY <1>3, <1>4 DEF InContext, Replacing
<1>6. Writes(v) # {}
  <2>1. Entries(v) = {<<Index(i), v.array[i]>> : i \in DOMAIN v.array}
    BY <1>2, <1>3 DEF Entries
  <2>2. CASE DOMAIN v.array = {}
    <3>1. Entries(v) = {}
      BY <2>1, <2>2
    <3>2. [path |-> <<>>, value |-> v] \in Leaves(v)
      BY <3>1, ScalarLeaf
    <3>3. v # EmptyObject
      BY <1>3 DEF EmptyObject, Object, IsRecord
    <3> QED
      BY <3>2, <3>3 DEF Writes
  <2>3. CASE DOMAIN v.array # {}
    <3>1. PICK i \in DOMAIN v.array : TRUE
      BY <2>3
    <3>2. v.array[i] \in Nodes(c.section) /\ c.broken[v.array[i]][r.entry] = {}
      BY <1>1, <1>2, <1>3, PartAt
    <3>3. PICK w \in Writes(v.array[i]) : TRUE
      BY <3>2
    <3> DEFINE e == <<Index(i), v.array[i]>>
               leaf == [path |-> <<Index(i)>> \o w.path, value |-> w.value]
    <3>4. e \in Entries(v) /\ e[1] = Index(i) /\ e[2] = v.array[i]
      BY <2>1
    <3> HIDE DEF e
    <3>5. leaf \in Below(e[1], Leaves(e[2]))
      BY <3>3, <3>4 DEF Below, Writes
    <3>6. leaf \in Leaves(v)
      BY <1>1, <3>4, <3>5, LeavesOfParts
    <3>7. leaf.value = w.value
      OBVIOUS
    <3> HIDE DEF leaf
    <3> QED
      BY <3>3, <3>6, <3>7 DEF Writes
  <2> QED
    BY <2>2, <2>3
<1>7. AtTop(v)
  BY <1>1, <1>3, Tops
<1> QED
  BY <1>1, <1>5, <1>6, <1>7, Replaced

\* A mapping merges when its fields do, and a mapping by name when its entries do.
LEMMA FullRecords ==
    /\ \A v : IsRecord(v) /\ WellFormed(v) => FullRecord(v)
    /\ IsRecord(EmptyObject) /\ FullRecord(EmptyObject) /\ DOMAIN EmptyObject.object = {} /\ AtTop(EmptyObject)
    /\ Entries(EmptyObject) = {} /\ Bounded(EmptyObject)
    /\ \A k : OldField(EmptyObject, k) = EmptyObject
<1>1. ASSUME NEW v, IsRecord(v), WellFormed(v) PROVE FullRecord(v)
  <2>1. v = Object([k \in DOMAIN v.object |-> v.object[k]])
    BY <1>1 DEF WellFormed
  <2>2. DOMAIN v.object = {} => [k \in DOMAIN v.object |-> v.object[k]] = <<>>
    OBVIOUS
  <2> QED
    BY <1>1, <2>1, <2>2 DEF FullRecord, EmptyObject
<1>2. IsRecord(EmptyObject) /\ DOMAIN EmptyObject.object = {}
  BY DEF IsRecord, EmptyObject, Object
<1>3. FullRecord(EmptyObject) /\ \A k : OldField(EmptyObject, k) = EmptyObject
  BY <1>2 DEF FullRecord, OldField
<1>4. AtTop(EmptyObject) /\ Entries(EmptyObject) = {}
  BY NothingWritten DEF AtTop, EmptyObject, Object, Entries, IsRecord
<1> QED
  BY <1>1, <1>2, <1>3, <1>4, ScalarLeaf

LEMMA NoDuration ==
    /\ \A r : IsMapping(r) => r # Scalar("duration")
    /\ \A r : DOMAIN r = {"each", "refused"} => r # Scalar("duration")
BY DEF IsMapping, Scalar

LEMMA FieldsAccepted ==
    ASSUME NEW c, InContext(c), NEW r \in c.rules, IsMapping(r),
           NEW v \in Nodes(c.section), c.broken[v][r] = {}
    PROVE  /\ IsRecord(v) /\ WellFormed(v) /\ Bounded(v) /\ FullRecord(v) /\ DOMAIN v.object \subseteq DOMAIN r.fields
           /\ \A k \in DOMAIN v.object : v.object[k] \in Nodes(c.section) /\ c.broken[v.object[k]][r.fields[k]] = {}
<1>1. /\ NothingBroken(c.broken, c.section, c.rules) /\ Bounded(c.section)
      /\ DOMAIN r = {"fields", "required"}
  BY DEF InContext, NothingBroken, IsJson, Bounded, IsMapping
<1>2. /\ IsRecord(v) /\ WellFormed(v) /\ DOMAIN v.object \subseteq DOMAIN r.fields
      /\ \A k \in DOMAIN v.object : v.object[k] \in Nodes(c.section) /\ c.broken[v.object[k]][r.fields[k]] = {}
  BY <1>1, MappingAccepted
<1> QED
  BY <1>1, <1>2, BoundedNodes, FullRecords

LEMMA MappingMerges ==
    ASSUME NEW c, InContext(c), NEW r \in c.rules, IsMapping(r),
           NEW before \in Nodes(c.old) \cup {EmptyObject}, FullRecord(before), NEW windows, NEW within,
           \A k \in DOMAIN r.fields : AreWindows(within[k], k, windows),
           \A k \in DOMAIN r.fields : Merges(c, r.fields[k], OldField(before, k), within[k])
    PROVE  Merges(c, r, before, windows)
<1> SUFFICES ASSUME NEW v \in Nodes(c.section), c.broken[v][r] = {}
             PROVE  Merged(v, before, c.applied[v][<<r, before>>], windows, FALSE)
  BY DEF Merges
<1> DEFINE after == c.applied[v][<<r, before>>]
<1>2. /\ NothingBroken(c.broken, c.section, c.rules) /\ Bounded(c.old) /\ IsJson(c.section)
      /\ after = Replacing(r, before, v, c.applied)
  BY DEF InContext, NothingBroken
<1>3. /\ IsRecord(v) /\ DOMAIN v.object \subseteq DOMAIN r.fields
      /\ \A k \in DOMAIN v.object : v.object[k] \in Nodes(c.section) /\ c.broken[v.object[k]][r.fields[k]] = {}
  BY FieldsAccepted
<1>4. Bounded(v) /\ FullRecord(v)
  BY FieldsAccepted
<1>5. Bounded(before)
  BY <1>2, BoundedNodes, FullRecords
<1> HIDE DEF after
<1>6. IsOver(after, v, r, before, c.applied)
  BY <1>2, <1>3, MappingApplied, NoDuration DEF IsMapping
<1>7. /\ IsRecord(after) /\ DOMAIN after.object = DOMAIN v.object \cup DOMAIN before.object
      /\ \A k \in DOMAIN v.object :
            after.object[k] = c.applied[v.object[k]][<<r.fields[k], OldField(before, k)>>]
      /\ \A k \in DOMAIN before.object : k \notin DOMAIN v.object => after.object[k] = before.object[k]
  <2>1. after = Object(after.object) => IsRecord(after)
    BY DEF Object, IsRecord
  <2> QED
    BY <1>3, <1>6, <2>1 DEF IsOver
<1>8. \A k \in DOMAIN v.object :
         Merged(v.object[k], OldField(before, k), after.object[k], within[k], FALSE)
  BY <1>3, <1>7 DEF Merges
<1>9. \A k \in DOMAIN v.object : AreWindows(within[k], k, windows)
  BY <1>3
<1>10. Merged(v, before, after, windows, FALSE)
  BY <1>4, <1>5, <1>7, <1>8, <1>9, FieldsMerged
<1> QED
  BY <1>10 DEF after

LEMMA PlainMappingMerges ==
    ASSUME NEW c, InContext(c), NEW r \in c.rules, IsMapping(r),
           NEW before \in Nodes(c.old) \cup {EmptyObject}, FullRecord(before),
           \A k \in DOMAIN r.fields : Merges(c, r.fields[k], OldField(before, k), {})
    PROVE  Merges(c, r, before, {})
<1> DEFINE within == [k \in DOMAIN r.fields |-> {}]
<1>1. \A k \in DOMAIN r.fields : within[k] = {}
  OBVIOUS
<1> HIDE DEF within
<1>2. \A k \in DOMAIN r.fields : AreWindows(within[k], k, {})
  BY <1>1 DEF AreWindows
<1> QED
  BY <1>1, <1>2, MappingMerges

LEMMA NamesMerge ==
    ASSUME NEW c, InContext(c), NEW r \in c.rules, DOMAIN r = {"each", "refused"}, r # Scalar("duration"),
           Merges(c, r.each, EmptyObject, {})
    PROVE  Merges(c, r, EmptyObject, {})
<1> SUFFICES ASSUME NEW v \in Nodes(c.section), c.broken[v][r] = {}
             PROVE  Merged(v, EmptyObject, c.applied[v][<<r, EmptyObject>>], {}, FALSE)
  BY DEF Merges
<1> DEFINE after == c.applied[v][<<r, EmptyObject>>]
           fields == [k \in DOMAIN v.object |-> c.applied[v.object[k]][<<r.each, EmptyObject>>]]
<1>1. /\ NothingBroken(c.broken, c.section, c.rules) /\ IsJson(c.section)
      /\ after = Replacing(r, EmptyObject, v, c.applied)
  BY DEF InContext, NothingBroken
<1>2. /\ IsRecord(v) /\ WellFormed(v)
      /\ \A k \in DOMAIN v.object : v.object[k] \in Nodes(c.section) /\ c.broken[v.object[k]][r.each] = {}
  BY <1>1, NamesAccepted
<1>3. Bounded(v) /\ FullRecord(v)
  BY <1>1, <1>2, BoundedNodes, FullRecords DEF IsJson, Bounded
<1>4. after = Object(Over(fields, EmptyObject.object))
  BY <1>1, <1>2 DEF Replacing
<1>5. DOMAIN fields = DOMAIN v.object
      /\ \A k \in DOMAIN v.object : fields[k] = c.applied[v.object[k]][<<r.each, EmptyObject>>]
  OBVIOUS
<1> HIDE DEF fields, after
<1>6. /\ IsRecord(after) /\ DOMAIN after.object = DOMAIN v.object \cup DOMAIN EmptyObject.object
      /\ \A k \in DOMAIN v.object : after.object[k] = c.applied[v.object[k]][<<r.each, EmptyObject>>]
  BY <1>4, <1>5 DEF Over, Object, IsRecord
<1> DEFINE within == [k \in DOMAIN v.object |-> {}]
<1>7. \A k \in DOMAIN v.object : within[k] = {} /\ AreWindows(within[k], k, {})
  BY DEF AreWindows
<1> HIDE DEF within
<1>8. \A k \in DOMAIN v.object :
         Merged(v.object[k], OldField(EmptyObject, k), after.object[k], within[k], FALSE)
  BY <1>2, <1>6, <1>7, FullRecords DEF Merges
<1>9. Merged(v, EmptyObject, after, {}, FALSE)
  BY <1>3, <1>6, <1>7, <1>8, FieldsMerged, FullRecords
<1> QED
  BY <1>9 DEF after

\* Rules as far below a rule as the sections go.
Near(rules, r) == r \in rules /\ RuleParts(r) \subseteq rules
Wide(rules, r) == r \in rules /\ \A p \in RuleParts(r) : Near(rules, p)
Deep(rules, r) == r \in rules /\ \A p \in RuleParts(r) : Wide(rules, p)
Rooted(rules, r) == r \in rules /\ \A p \in RuleParts(r) : Deep(rules, p)

LEMMA SectionRules ==
    ASSUME NEW s \in DOMAIN Sections.fields
    PROVE  Rooted(RulesIn(Sections.fields[s]) \cap RulesIn(Sections), Sections.fields[s])
<1> DEFINE rule == Sections.fields[s]
           rules == RulesIn(rule)
           all == RulesIn(Sections)
<1>1. rule \in RuleParts(Sections)
  BY RedactionRules, MappingParts
<1> HIDE DEF rule
<1>2. Rooted(rules, rule)
  BY RulesReached DEF Rooted, Deep, Wide, Near
<1>3. Rooted(all, rule)
  BY <1>1, RulesReached DEF Rooted, Deep, Wide, Near
<1> HIDE DEF rules, all
<1>4. Rooted(rules \cap all, rule)
  <2>1. \A r : Near(rules, r) /\ Near(all, r) => Near(rules \cap all, r)
    BY DEF Near
  <2>2. \A r : Wide(rules, r) /\ Wide(all, r) => Wide(rules \cap all, r)
    BY <2>1 DEF Wide
  <2>3. \A r : Deep(rules, r) /\ Deep(all, r) => Deep(rules \cap all, r)
    BY <2>2 DEF Deep
  <2> QED
    BY <1>2, <1>3, <2>3 DEF Rooted
<1> QED
  BY <1>4 DEF rules, all, rule

\* A mapping of single values.
FlatOld(before) == FullRecord(before) /\ \A k \in DOMAIN before.object : Entries(before.object[k]) = {}

LEMMA OldParts ==
    ASSUME NEW c, InContext(c), NEW before \in Nodes(c.old) \cup {EmptyObject}, IsRecord(before)
    PROVE  \A k : OldField(before, k) \in Nodes(c.old) \cup {EmptyObject}
<1> SUFFICES ASSUME NEW k \in DOMAIN before.object PROVE before.object[k] \in Nodes(c.old)
  BY DEF OldField
<1>1. before \in Nodes(c.old)
  BY FullRecords
<1> QED
  BY <1>1, PartAt, BoundedNodes DEF InContext

LEMMA FlatMerges ==
    ASSUME NEW c, InContext(c), NEW r, Near(c.rules, r), IsMapping(r),
           \A k \in DOMAIN r.fields : IsSingle(r.fields[k]),
           NEW before \in Nodes(c.old) \cup {EmptyObject}, FlatOld(before)
    PROVE  Merges(c, r, before, {})
<1>1. r \in c.rules /\ \A k \in DOMAIN r.fields : r.fields[k] \in c.rules
  BY MappingParts DEF Near, IsMapping
<1>2. ASSUME NEW k \in DOMAIN r.fields PROVE Merges(c, r.fields[k], OldField(before, k), {})
  <2>1. Entries(OldField(before, k)) = {}
    BY FullRecords DEF FlatOld, OldField
  <2>2. OldField(before, k) \in Nodes(c.old) \cup {EmptyObject}
    BY OldParts DEF FlatOld, FullRecord
  <2> QED
    BY <1>1, <2>1, <2>2, SingleMerges
<1> QED
  BY <1>1, <1>2, PlainMappingMerges DEF FlatOld

LEMMA FlatRules ==
    /\ IsMapping(Retry) /\ \A k \in DOMAIN Retry.fields : IsSingle(Retry.fields[k])
    /\ IsMapping(Sqlite) /\ \A k \in DOMAIN Sqlite.fields : IsSingle(Sqlite.fields[k])
    /\ IsMapping(Rabbitmq) /\ \A k \in DOMAIN Rabbitmq.fields : IsSingle(Rabbitmq.fields[k])
<1>1. IsSingle(NonEmptyText) /\ IsSingle(Scalar("amqp url")) /\ IsSingle(Scalar("boolean"))
  BY SingleRules DEF NonEmptyText
<1>2. \A n : IsSingle(IntegerFrom(n))
  BY SingleRules
<1>3. IsSingle(OneOf({"exponential"}))
  BY SingleRules
<1>4. IsMapping(Retry) /\ \A k \in DOMAIN Retry.fields : IsSingle(Retry.fields[k])
  <2>1. /\ IsMapping(Retry) /\ DOMAIN Retry.fields = {"max_attempts", "backoff", "base_ms", "jitter"}
        /\ Retry.fields["max_attempts"] = IntegerFrom(1) /\ Retry.fields["base_ms"] = IntegerFrom(0)
        /\ Retry.fields["backoff"] = OneOf({"exponential"}) /\ Retry.fields["jitter"] = Scalar("boolean")
    BY DEF Retry, Mapping, IsMapping
  <2> QED
    BY <1>1, <1>2, <1>3, <2>1
<1>5. IsMapping(Sqlite) /\ \A k \in DOMAIN Sqlite.fields : IsSingle(Sqlite.fields[k])
  <2>1. /\ IsMapping(Sqlite) /\ DOMAIN Sqlite.fields = {"path"}
        /\ Sqlite.fields["path"] = NonEmptyText
    BY DEF Sqlite, Mapping, IsMapping
  <2> QED
    BY <1>1, <2>1
<1>6. IsMapping(Rabbitmq) /\ \A k \in DOMAIN Rabbitmq.fields : IsSingle(Rabbitmq.fields[k])
  <2>1. /\ IsMapping(Rabbitmq) /\ DOMAIN Rabbitmq.fields = {"url", "exchange", "queue"}
        /\ Rabbitmq.fields["url"] = Scalar("amqp url") /\ Rabbitmq.fields["exchange"] = NonEmptyText
        /\ Rabbitmq.fields["queue"] = NonEmptyText
    BY DEF Rabbitmq, Mapping, IsMapping
  <2> QED
    BY <1>1, <2>1
<1> QED
  BY <1>4, <1>5, <1>6

-----------------------------------------------------------------------------
\* The rules of the sections.
LEMMA SectionShapes ==
    /\ IsMapping(Reliability)
    /\ DOMAIN Reliability.fields = {"timeout_ms", "idempotent_default", "retry", "replay", "per_tool"}
    /\ IsSingle(Reliability.fields["timeout_ms"]) /\ IsSingle(Reliability.fields["idempotent_default"])
    /\ Reliability.fields["retry"] = Retry /\ Reliability.fields["per_tool"] = PerTool
    /\ IsMapping(Reliability.fields["replay"]) /\ DOMAIN Reliability.fields["replay"].fields = {"dedup_window"}
    /\ Reliability.fields["replay"].fields["dedup_window"] = Scalar("duration")
    /\ DOMAIN PerTool = {"each", "refused"} /\ PerTool.each = ToolEntry /\ IsMapping(ToolEntry)
    /\ \A k \in DOMAIN ToolEntry.fields : k # "retry" => IsSingle(ToolEntry.fields[k])
    /\ ToolEntry.fields["retry"] = Retry
<1>1. /\ \A n : IsSingle(IntegerFrom(n))
      /\ IsSingle(Scalar("boolean")) /\ IsSingle(OneOf({"read", "write"}))
  BY SingleRules
<1>2. /\ IsMapping(Reliability)
      /\ DOMAIN Reliability.fields = {"timeout_ms", "idempotent_default", "retry", "replay", "per_tool"}
      /\ Reliability.fields["timeout_ms"] = IntegerFrom(1)
      /\ Reliability.fields["idempotent_default"] = Scalar("boolean")
      /\ Reliability.fields["retry"] = Retry /\ Reliability.fields["per_tool"] = PerTool
      /\ Reliability.fields["replay"] = Mapping([dedup_window |-> Scalar("duration")], {})
  BY DEF Reliability, Mapping, IsMapping
<1>3. LET replay == Mapping([dedup_window |-> Scalar("duration")], {})
      IN  IsMapping(replay) /\ DOMAIN replay.fields = {"dedup_window"}
          /\ replay.fields["dedup_window"] = Scalar("duration")
  BY DEF Mapping, IsMapping
<1>4. /\ DOMAIN PerTool = {"each", "refused"} /\ PerTool.each = ToolEntry
      /\ ToolEntry = Mapping([timeout_ms |-> IntegerFrom(1), idempotent |-> Scalar("boolean"),
                              effects |-> OneOf({"read", "write"}), retry |-> Retry,
                              capture_tool_errors |-> Scalar("boolean")], {})
  BY DEF PerTool, ByName, ToolEntry
<1>5. /\ IsMapping(ToolEntry)
      /\ DOMAIN ToolEntry.fields = {"timeout_ms", "idempotent", "effects", "retry", "capture_tool_errors"}
      /\ ToolEntry.fields["timeout_ms"] = IntegerFrom(1) /\ ToolEntry.fields["idempotent"] = Scalar("boolean")
      /\ ToolEntry.fields["effects"] = OneOf({"read", "write"}) /\ ToolEntry.fields["retry"] = Retry
      /\ ToolEntry.fields["capture_tool_errors"] = Scalar("boolean")
  BY <1>4 DEF Mapping, IsMapping
<1>6. \A k \in DOMAIN ToolEntry.fields : k # "retry" => IsSingle(ToolEntry.fields[k])
  BY <1>1, <1>5
<1> QED
  BY <1>1, <1>2, <1>3, <1>4, <1>5, <1>6, Zenon

LEMMA OtherShapes ==
    /\ IsMapping(Queue) /\ DOMAIN Queue.fields = {"provider", "sqlite", "rabbitmq"}
    /\ IsSingle(Queue.fields["provider"])
    /\ Queue.fields["sqlite"] = Sqlite /\ Queue.fields["rabbitmq"] = Rabbitmq
    /\ IsMapping(Store) /\ DOMAIN Store.fields = {"provider", "sqlite", "retention_days"}
    /\ IsSingle(Store.fields["provider"]) /\ IsSingle(Store.fields["retention_days"])
    /\ Store.fields["sqlite"] = Sqlite
    /\ IsMapping(Identity) /\ DOMAIN Identity.fields = {"profile", "keys"}
    /\ IsSingle(Identity.fields["profile"])
    /\ LET keys == Identity.fields["keys"]
       IN  DOMAIN keys = {"entry", "unique"} /\ IsMapping(keys.entry)
           /\ "key" \in DOMAIN keys.entry.fields /\ {"key"} \in keys.entry.required
           /\ IsSingle(keys.entry.fields["key"])
    /\ IsMapping(PolicySection) /\ DOMAIN PolicySection.fields = {"default", "rules"}
    /\ IsSingle(PolicySection.fields["default"])
    /\ LET rules == PolicySection.fields["rules"]
       IN  DOMAIN rules = {"entry", "unique"} /\ IsMapping(rules.entry)
           /\ "tool" \in DOMAIN rules.entry.fields /\ {"tool"} \in rules.entry.required
           /\ IsSingle(rules.entry.fields["tool"])
    /\ IsMapping(Upstream) /\ DOMAIN Upstream.fields = {"http"}
    /\ LET http == Upstream.fields["http"]
       IN  IsMapping(http) /\ DOMAIN http.fields = {"headers"}
           /\ DOMAIN http.fields["headers"] = {"each", "refused"} /\ IsSingle(http.fields["headers"].each)
<1>1. /\ \A n : IsSingle(IntegerFrom(n)) /\ IsSingle(NonEmptyText) /\ IsSingle(Scalar("text"))
      /\ \A words : IsSingle(OneOf(words))
  BY SingleRules DEF NonEmptyText
<1>2. /\ IsMapping(Queue) /\ DOMAIN Queue.fields = {"provider", "sqlite", "rabbitmq"}
      /\ Queue.fields["provider"] = OneOf({"sqlite", "rabbitmq"})
      /\ Queue.fields["sqlite"] = Sqlite /\ Queue.fields["rabbitmq"] = Rabbitmq
  BY DEF Queue, Mapping, IsMapping
<1>3. /\ IsMapping(Store) /\ DOMAIN Store.fields = {"provider", "sqlite", "retention_days"}
      /\ Store.fields["provider"] = OneOf({"sqlite"}) /\ Store.fields["retention_days"] = IntegerFrom(0)
      /\ Store.fields["sqlite"] = Sqlite
  BY DEF Store, Mapping, IsMapping
<1>4. /\ IsMapping(Identity) /\ DOMAIN Identity.fields = {"profile", "keys"}
      /\ Identity.fields["profile"] = NonEmptyText
      /\ Identity.fields["keys"]
           = ListOf(Mapping([key |-> NonEmptyText, identity |-> NonEmptyText], {{"key"}, {"identity"}}), {"key"})
  BY DEF Identity, Mapping, IsMapping
<1>5. LET keys == ListOf(Mapping([key |-> NonEmptyText, identity |-> NonEmptyText], {{"key"}, {"identity"}}), {"key"})
      IN  DOMAIN keys = {"entry", "unique"} /\ IsMapping(keys.entry)
          /\ "key" \in DOMAIN keys.entry.fields /\ {"key"} \in keys.entry.required
          /\ keys.entry.fields["key"] = NonEmptyText
  BY DEF Mapping, IsMapping, ListOf
<1>6. /\ IsMapping(PolicySection) /\ DOMAIN PolicySection.fields = {"default", "rules"}
      /\ PolicySection.fields["default"] = OneOf({"allow", "deny"})
      /\ PolicySection.fields["rules"] = ListOf(Rule, {})
  BY DEF PolicySection, Mapping, IsMapping
<1>7. DOMAIN ListOf(Rule, {}) = {"entry", "unique"} /\ ListOf(Rule, {}).entry = Rule
  BY DEF ListOf
<1>8. /\ IsMapping(Rule) /\ "tool" \in DOMAIN Rule.fields /\ {"tool"} \in Rule.required
      /\ Rule.fields["tool"] = NonEmptyText
  BY DEF Mapping, IsMapping, Rule
<1>9. /\ IsMapping(Upstream) /\ DOMAIN Upstream.fields = {"http"}
      /\ Upstream.fields["http"] = Mapping([headers |-> ByName(Scalar("text"), {})], {})
  BY DEF Upstream, Mapping, IsMapping
<1>10. LET http == Mapping([headers |-> ByName(Scalar("text"), {})], {})
       IN  IsMapping(http) /\ DOMAIN http.fields = {"headers"}
           /\ http.fields["headers"] = ByName(Scalar("text"), {})
  BY DEF Mapping, IsMapping
<1>11. DOMAIN ByName(Scalar("text"), {}) = {"each", "refused"} /\ ByName(Scalar("text"), {}).each = Scalar("text")
  BY DEF ByName
<1>12. IsSingle(Queue.fields["provider"]) /\ IsSingle(Store.fields["provider"])
       /\ IsSingle(Store.fields["retention_days"]) /\ IsSingle(Identity.fields["profile"])
       /\ IsSingle(PolicySection.fields["default"])
  BY <1>1, <1>2, <1>3, <1>4, <1>6
<1> QED
  BY <1>1, <1>2, <1>3, <1>4, <1>5, <1>6, <1>7, <1>8, <1>9, <1>10, <1>11, <1>12, Zenon

\* What stands in a list that is accepted is not nothing.
LEMMA EntryWrites ==
    ASSUME NEW c, InContext(c), NEW r \in c.rules, IsMapping(r), NEW field \in DOMAIN r.fields,
           {field} \in r.required, r.fields[field] \in c.rules, IsSingle(r.fields[field])
    PROVE  \A v \in Nodes(c.section) : c.broken[v][r] = {} => Writes(v) # {}
<1> SUFFICES ASSUME NEW v \in Nodes(c.section), c.broken[v][r] = {} PROVE Writes(v) # {}
  OBVIOUS
<1>1. NothingBroken(c.broken, c.section, c.rules) /\ IsJson(c.section)
  BY DEF InContext, NothingBroken
<1>2. \A k \in DOMAIN v.object : v.object[k] \in Nodes(c.section) /\ c.broken[v.object[k]][r.fields[k]] = {}
  BY FieldsAccepted
<1>3. Bounded(v) /\ FullRecord(v)
  BY FieldsAccepted
<1>4. field \in DOMAIN v.object
  <2>1. Broken(v, r, c.broken) = {}
    BY <1>1 DEF NothingBroken
  <2>2. HasFields(v, r)
    BY <2>1 DEF Broken, IsMapping
  <2>3. {field} \cap DOMAIN v.object # {}
    BY <2>2 DEF HasFields
  <2> QED
    BY <2>3
<1> DEFINE x == v.object[field]
           single == r.fields[field]
<1>5. x \in Nodes(c.section) /\ c.broken[x][single] = {} /\ single \in c.rules /\ IsSingle(single)
  BY <1>2, <1>4
<1> HIDE DEF x, single
<1>6. Broken(x, single, c.broken) = {}
  BY <1>1, <1>5 DEF NothingBroken
<1>7. x # EmptyObject
  BY <1>5, <1>6 DEF IsSingle, IsPlain, Broken
<1>8. Entries(x) = {}
  BY <1>1, <1>5, PlainAccepted DEF IsSingle
<1> DEFINE leaf == [path |-> <<>>, value |-> x]
<1>9. leaf \in Leaves(x) /\ leaf.value # EmptyObject
  BY <1>7, <1>8, ScalarLeaf
<1> HIDE DEF leaf
<1>10. leaf \in Writes(v.object[field])
  BY <1>9 DEF Writes, x
<1> QED
  BY <1>3, <1>4, <1>10, WrittenBelow

\* The window below a field.
LEMMA WindowBelow ==
    ASSUME NEW s, NEW p, IsPath(p)
    PROVE  \A k : AreWindows(IF k = s THEN {p} ELSE {}, k, {<<Key(s)>> \o p})
<1> SUFFICES ASSUME NEW k, NEW path, IsPath(path)
             PROVE  path \in (IF k = s THEN {p} ELSE {}) <=> <<Key(k)>> \o path \in {<<Key(s)>> \o p}
  BY DEF AreWindows
<1>1. CASE k = s
  BY <1>1, SamePath
<1>2. CASE k # s
  <2>1. Key(k) # Key(s)
    BY <1>2 DEF Key
  <2>2. (<<Key(k)>> \o path)[1] = Key(k) /\ (<<Key(s)>> \o p)[1] = Key(s)
    BY Prepended
  <2> QED
    BY <1>2, <2>1, <2>2
<1> QED
  BY <1>1, <1>2

\* The sections, over what they are by default.
LEMMA QueueMerges ==
    ASSUME NEW c, InContext(c), Rooted(c.rules, Queue), NEW before \in Nodes(c.old) \cup {EmptyObject},
           FullRecord(before), Entries(OldField(before, "provider")) = {},
           FlatOld(OldField(before, "sqlite")), FlatOld(OldField(before, "rabbitmq"))
    PROVE  Merges(c, Queue, before, {})
<1>1. Queue \in c.rules /\ \A k \in DOMAIN Queue.fields : Deep(c.rules, Queue.fields[k])
  BY OtherShapes, MappingParts DEF Rooted, IsMapping
<1>2. Queue.fields["provider"] \in c.rules /\ Near(c.rules, Sqlite) /\ Near(c.rules, Rabbitmq)
  BY <1>1, OtherShapes DEF Deep, Wide, Near
<1>3. \A k : OldField(before, k) \in Nodes(c.old) \cup {EmptyObject}
  BY OldParts DEF FullRecord
<1>4. Merges(c, Queue.fields["provider"], OldField(before, "provider"), {})
  BY <1>2, <1>3, OtherShapes, SingleMerges
<1>5. Merges(c, Queue.fields["sqlite"], OldField(before, "sqlite"), {})
  BY <1>2, <1>3, OtherShapes, FlatRules, FlatMerges
<1>6. Merges(c, Queue.fields["rabbitmq"], OldField(before, "rabbitmq"), {})
  BY <1>2, <1>3, OtherShapes, FlatRules, FlatMerges
<1>7. \A k \in DOMAIN Queue.fields : Merges(c, Queue.fields[k], OldField(before, k), {})
  BY <1>4, <1>5, <1>6, OtherShapes
<1> QED
  BY <1>1, <1>7, OtherShapes, PlainMappingMerges

LEMMA StoreMerges ==
    ASSUME NEW c, InContext(c), Rooted(c.rules, Store), NEW before \in Nodes(c.old) \cup {EmptyObject},
           FullRecord(before), Entries(OldField(before, "provider")) = {},
           FlatOld(OldField(before, "sqlite")), Entries(OldField(before, "retention_days")) = {}
    PROVE  Merges(c, Store, before, {})
<1>1. Store \in c.rules /\ \A k \in DOMAIN Store.fields : Deep(c.rules, Store.fields[k])
  BY OtherShapes, MappingParts DEF Rooted, IsMapping
<1>2. /\ Store.fields["provider"] \in c.rules /\ Store.fields["retention_days"] \in c.rules
      /\ Near(c.rules, Sqlite)
  BY <1>1, OtherShapes DEF Deep, Wide, Near
<1>3. \A k : OldField(before, k) \in Nodes(c.old) \cup {EmptyObject}
  BY OldParts DEF FullRecord
<1>4. Merges(c, Store.fields["provider"], OldField(before, "provider"), {})
  BY <1>2, <1>3, OtherShapes, SingleMerges
<1>5. Merges(c, Store.fields["sqlite"], OldField(before, "sqlite"), {})
  BY <1>2, <1>3, OtherShapes, FlatRules, FlatMerges
<1>6. Merges(c, Store.fields["retention_days"], OldField(before, "retention_days"), {})
  BY <1>2, <1>3, OtherShapes, SingleMerges
<1>7. \A k \in DOMAIN Store.fields : Merges(c, Store.fields[k], OldField(before, k), {})
  BY <1>4, <1>5, <1>6, OtherShapes
<1> QED
  BY <1>1, <1>7, OtherShapes, PlainMappingMerges

LEMMA RedactionMerges ==
    ASSUME NEW c, InContext(c), Rooted(c.rules, RedactionSection),
           NEW before \in Nodes(c.old) \cup {EmptyObject}, FullRecord(before), AtTop(OldField(before, "patterns"))
    PROVE  Merges(c, RedactionSection, before, {})
<1>1. RedactionSection \in c.rules /\ Deep(c.rules, IsPatterns)
  BY RedactionRules, MappingParts DEF Rooted
<1>2. IsPatterns \in c.rules /\ NonEmptyText \in c.rules
  <2>1. NonEmptyText \in RuleParts(IsPatterns)
    BY RedactionRules DEF RuleParts
  <2> QED
    BY <1>1, <2>1 DEF Deep, Wide, Near
<1>3. \A k : OldField(before, k) \in Nodes(c.old) \cup {EmptyObject}
  BY OldParts DEF FullRecord
<1>4. ASSUME NEW v \in Nodes(c.section), c.broken[v][NonEmptyText] = {} PROVE Writes(v) # {}
  <2>1. IsSingle(NonEmptyText) /\ NothingBroken(c.broken, c.section, c.rules)
    BY SingleRules DEF NonEmptyText, InContext
  <2>2. Broken(v, NonEmptyText, c.broken) = {}
    BY <1>2, <1>4, <2>1 DEF NothingBroken
  <2>3. Entries(v) = {}
    BY <1>2, <1>4, <2>1, PlainAccepted DEF IsSingle
  <2>4. v # EmptyObject
    BY <2>1, <2>2 DEF IsSingle, IsPlain, Broken
  <2> DEFINE leaf == [path |-> <<>>, value |-> v]
  <2>5. leaf \in Leaves(v) /\ leaf.value # EmptyObject
    BY <2>3, <2>4, ScalarLeaf
  <2> HIDE DEF leaf
  <2> QED
    BY <2>5 DEF Writes
<1>5. Merges(c, IsPatterns, OldField(before, "patterns"), {})
  BY <1>2, <1>3, <1>4, RedactionRules, ListMerges
<1>6. \A k \in DOMAIN RedactionSection.fields : Merges(c, RedactionSection.fields[k], OldField(before, k), {})
  BY <1>5, RedactionRules
<1> QED
  BY <1>1, <1>6, RedactionRules, PlainMappingMerges DEF IsMapping

LEMMA IdentityMerges ==
    ASSUME NEW c, InContext(c), Rooted(c.rules, Identity), NEW before \in Nodes(c.old) \cup {EmptyObject},
           FullRecord(before), Entries(OldField(before, "profile")) = {}, AtTop(OldField(before, "keys"))
    PROVE  Merges(c, Identity, before, {})
<1> DEFINE keys == Identity.fields["keys"]
<1>1. Identity \in c.rules /\ \A k \in DOMAIN Identity.fields : Deep(c.rules, Identity.fields[k])
  BY OtherShapes, MappingParts DEF Rooted, IsMapping
<1>2. Identity.fields["profile"] \in c.rules /\ keys \in c.rules /\ Wide(c.rules, keys.entry)
  <2>1. keys.entry \in RuleParts(keys)
    BY OtherShapes DEF RuleParts
  <2> QED
    BY <1>1, <2>1, OtherShapes DEF Deep, Wide, Near
<1>3. keys.entry \in c.rules /\ keys.entry.fields["key"] \in c.rules
  BY <1>2, OtherShapes, MappingParts DEF Wide, Near, IsMapping
<1>4. \A k : OldField(before, k) \in Nodes(c.old) \cup {EmptyObject}
  BY OldParts DEF FullRecord
<1>5. \A v \in Nodes(c.section) : c.broken[v][keys.entry] = {} => Writes(v) # {}
  BY <1>3, OtherShapes, EntryWrites
<1>6. Merges(c, keys, OldField(before, "keys"), {})
  BY <1>2, <1>4, <1>5, OtherShapes, ListMerges
<1>7. Merges(c, Identity.fields["profile"], OldField(before, "profile"), {})
  BY <1>2, <1>4, OtherShapes, SingleMerges
<1>8. \A k \in DOMAIN Identity.fields : Merges(c, Identity.fields[k], OldField(before, k), {})
  BY <1>6, <1>7, OtherShapes
<1> QED
  BY <1>1, <1>8, OtherShapes, PlainMappingMerges

LEMMA PolicyMerges ==
    ASSUME NEW c, InContext(c), Rooted(c.rules, PolicySection), NEW before \in Nodes(c.old) \cup {EmptyObject},
           FullRecord(before), Entries(OldField(before, "default")) = {}, AtTop(OldField(before, "rules"))
    PROVE  Merges(c, PolicySection, before, {})
<1> DEFINE rules == PolicySection.fields["rules"]
<1>1. PolicySection \in c.rules /\ \A k \in DOMAIN PolicySection.fields : Deep(c.rules, PolicySection.fields[k])
  BY OtherShapes, MappingParts DEF Rooted, IsMapping
<1>2. PolicySection.fields["default"] \in c.rules /\ rules \in c.rules /\ Wide(c.rules, rules.entry)
  <2>1. rules.entry \in RuleParts(rules)
    BY OtherShapes DEF RuleParts
  <2> QED
    BY <1>1, <2>1, OtherShapes DEF Deep, Wide, Near
<1>3. rules.entry \in c.rules /\ rules.entry.fields["tool"] \in c.rules
  BY <1>2, OtherShapes, MappingParts DEF Wide, Near, IsMapping
<1>4. \A k : OldField(before, k) \in Nodes(c.old) \cup {EmptyObject}
  BY OldParts DEF FullRecord
<1>5. \A v \in Nodes(c.section) : c.broken[v][rules.entry] = {} => Writes(v) # {}
  BY <1>3, OtherShapes, EntryWrites
<1>6. Merges(c, rules, OldField(before, "rules"), {})
  BY <1>2, <1>4, <1>5, OtherShapes, ListMerges
<1>7. Merges(c, PolicySection.fields["default"], OldField(before, "default"), {})
  BY <1>2, <1>4, OtherShapes, SingleMerges
<1>8. \A k \in DOMAIN PolicySection.fields : Merges(c, PolicySection.fields[k], OldField(before, k), {})
  BY <1>6, <1>7, OtherShapes
<1> QED
  BY <1>1, <1>8, OtherShapes, PlainMappingMerges

LEMMA UpstreamMerges ==
    ASSUME NEW c, InContext(c), Rooted(c.rules, Upstream), NEW before \in Nodes(c.old) \cup {EmptyObject},
           FullRecord(before), FullRecord(OldField(before, "http")),
           OldField(OldField(before, "http"), "headers") = EmptyObject
    PROVE  Merges(c, Upstream, before, {})
<1> DEFINE http == Upstream.fields["http"]
           headers == http.fields["headers"]
<1>1. Upstream \in c.rules /\ Deep(c.rules, http)
  BY OtherShapes, MappingParts DEF Rooted, IsMapping
<1>2. http \in c.rules /\ Wide(c.rules, headers)
  BY <1>1, OtherShapes, MappingParts DEF Deep, IsMapping
<1>3. headers \in c.rules /\ headers.each \in c.rules
  <2>1. headers.each \in RuleParts(headers)
    BY OtherShapes DEF RuleParts
  <2> QED
    BY <1>2, <2>1 DEF Wide, Near
<1>4. OldField(before, "http") \in Nodes(c.old) \cup {EmptyObject}
  BY OldParts DEF FullRecord
<1>5. Merges(c, headers.each, EmptyObject, {})
  BY <1>3, OtherShapes, FullRecords, SingleMerges
<1>6. Merges(c, headers, EmptyObject, {})
  BY <1>3, <1>5, OtherShapes, NoDuration, NamesMerge
<1>7. Merges(c, http, OldField(before, "http"), {})
  BY <1>2, <1>4, <1>6, OtherShapes, PlainMappingMerges
<1>8. \A k \in DOMAIN Upstream.fields : Merges(c, Upstream.fields[k], OldField(before, k), {})
  BY <1>7, OtherShapes
<1> QED
  BY <1>1, <1>8, OtherShapes, PlainMappingMerges

LEMMA ReliabilityMerges ==
    ASSUME NEW c, InContext(c), Rooted(c.rules, Reliability), NEW before \in Nodes(c.old) \cup {EmptyObject},
           FullRecord(before), \A k \in Settled : Entries(OldField(before, k)) = {},
           FlatOld(OldField(before, "retry")), OldField(before, "per_tool") = EmptyObject,
           FlatOld(OldField(before, "replay"))
    PROVE  Merges(c, Reliability, before, {<<Key("replay")>> \o (<<Key("dedup_window")>> \o <<>>)})
<1> DEFINE replay == Reliability.fields["replay"]
           duration == Scalar("duration")
           place == <<Key("dedup_window")>> \o <<>>
<1>1. /\ Reliability \in c.rules /\ Deep(c.rules, replay) /\ Deep(c.rules, Retry) /\ Deep(c.rules, PerTool)
      /\ \A k \in Settled : Reliability.fields[k] \in c.rules /\ IsSingle(Reliability.fields[k])
  <2>1. \A k \in DOMAIN Reliability.fields : Deep(c.rules, Reliability.fields[k])
    BY SectionShapes, MappingParts DEF Rooted, IsMapping
  <2> QED
    BY <2>1, SectionShapes DEF Rooted, Deep, Settled
<1>2. /\ replay \in c.rules /\ duration \in c.rules /\ Near(c.rules, Retry)
      /\ PerTool \in c.rules /\ Wide(c.rules, ToolEntry)
  <2>1. ToolEntry \in RuleParts(PerTool) /\ duration \in RuleParts(replay)
    BY SectionShapes, MappingParts DEF RuleParts, IsMapping
  <2>2. \A r : Wide(c.rules, r) => Near(c.rules, r)
    BY DEF Wide, Near
  <2>3. \A r : Deep(c.rules, r) => Near(c.rules, r)
    BY <2>2 DEF Deep, Wide, Near
  <2> QED
    BY <1>1, <2>1, <2>3 DEF Deep, Near
<1>3. \A k : OldField(before, k) \in Nodes(c.old) \cup {EmptyObject}
  BY OldParts DEF FullRecord
<1>4. \A k \in Settled : Merges(c, Reliability.fields[k], OldField(before, k), {})
  BY <1>1, <1>3, SingleMerges
<1>5. Merges(c, Retry, OldField(before, "retry"), {})
  BY <1>2, <1>3, FlatRules, FlatMerges
<1>6. Merges(c, PerTool, EmptyObject, {})
  <2>1. FlatOld(EmptyObject)
    BY FullRecords DEF FlatOld
  <2>2. Merges(c, Retry, EmptyObject, {})
    BY <1>2, <2>1, FlatRules, FlatMerges
  <2>3. ToolEntry \in c.rules /\ \A k \in DOMAIN ToolEntry.fields : ToolEntry.fields[k] \in c.rules
    BY <1>2, SectionShapes, MappingParts DEF Wide, Near, IsMapping
  <2>4. \A k \in DOMAIN ToolEntry.fields : k # "retry" => Merges(c, ToolEntry.fields[k], EmptyObject, {})
    BY <2>3, SectionShapes, FullRecords, SingleMerges
  <2>5. \A k \in DOMAIN ToolEntry.fields : Merges(c, ToolEntry.fields[k], OldField(EmptyObject, k), {})
    BY <2>2, <2>4, SectionShapes, FullRecords
  <2>6. Merges(c, ToolEntry, EmptyObject, {})
    BY <2>3, <2>5, SectionShapes, FullRecords, PlainMappingMerges
  <2> QED
    BY <1>2, <2>6, SectionShapes, NoDuration, NamesMerge
<1>7. Merges(c, replay, OldField(before, "replay"), {place})
  <2> DEFINE old == OldField(before, "replay")
             within == [k \in {"dedup_window"} |-> {<<>>}]
  <2>1. Entries(OldField(old, "dedup_window")) = {}
    BY FullRecords DEF FlatOld, OldField
  <2>2. OldField(old, "dedup_window") \in Nodes(c.old) \cup {EmptyObject} /\ FullRecord(old)
    BY <1>3, OldParts DEF FlatOld, FullRecord
  <2> HIDE DEF old
  <2>3. Merges(c, duration, OldField(old, "dedup_window"), {<<>>})
    BY <1>2, <2>1, <2>2, DurationMerges
  <2>4. AreWindows({<<>>}, "dedup_window", {place})
    BY WindowBelow, Paths
  <2>5. within["dedup_window"] = {<<>>}
    OBVIOUS
  <2> HIDE DEF within, place, duration
  <2>6. \A k \in DOMAIN replay.fields : AreWindows(within[k], k, {place})
    BY <2>4, <2>5, SectionShapes
  <2>7. \A k \in DOMAIN replay.fields : Merges(c, replay.fields[k], OldField(old, k), within[k])
    BY <2>3, <2>5, SectionShapes DEF duration
  <2>8. old \in Nodes(c.old) \cup {EmptyObject}
    BY <1>3 DEF old
  <2>9. Merges(c, replay, old, {place})
    BY <1>2, <2>2, <2>6, <2>7, <2>8, SectionShapes, MappingMerges
  <2> QED
    BY <2>9 DEF old
<1> DEFINE windows == {<<Key("replay")>> \o place}
           within == [k \in DOMAIN Reliability.fields |-> IF k = "replay" THEN {place} ELSE {}]
<1>8. IsPath(place)
  BY Paths
<1> HIDE DEF place
<1>9. \A k \in DOMAIN Reliability.fields : within[k] = IF k = "replay" THEN {place} ELSE {}
  OBVIOUS
<1>10. \A k : AreWindows(IF k = "replay" THEN {place} ELSE {}, k, windows)
  BY <1>8, WindowBelow
<1> HIDE DEF windows, within
<1>11. \A k \in DOMAIN Reliability.fields : AreWindows(within[k], k, windows)
  BY <1>9, <1>10
<1>12. \A k \in DOMAIN Reliability.fields : Merges(c, Reliability.fields[k], OldField(before, k), within[k])
  BY <1>4, <1>5, <1>6, <1>7, <1>9, SectionShapes DEF Settled
<1>13. Merges(c, Reliability, before, windows)
  BY <1>1, <1>11, <1>12, SectionShapes, MappingMerges
<1> QED
  BY <1>13 DEF windows, place

\* The defaults the sections are set over.
LEMMA Constructed ==
    /\ \A n : Entries(Number(n)) = {}
    /\ \A s : Entries(Text(s)) = {}
    /\ \A b : Entries(Boolean(b)) = {}
    /\ Entries(List(<<>>)) = {} /\ AtTop(List(<<>>))
    /\ \A fields : /\ IsRecord(Object(fields)) /\ Object(fields).object = fields
                   /\ DOMAIN fields # {} => FullRecord(Object(fields))
                   /\ \A k \in DOMAIN fields : OldField(Object(fields), k) = fields[k]
<1>1. \A n : Entries(Number(n)) = {}
  BY DEF Entries, IsRecord, IsList, Number
<1>2. \A s : Entries(Text(s)) = {}
  BY DEF Entries, IsRecord, IsList, Text
<1>3. \A b : Entries(Boolean(b)) = {}
  BY DEF Entries, IsRecord, IsList, Boolean
<1>4. Entries(List(<<>>)) = {}
  BY DEF Entries, IsRecord, IsList, List
<1>5. AtTop(List(<<>>))
  BY <1>4, ScalarLeaf, Tops
<1>6. \A fields : IsRecord(Object(fields)) /\ Object(fields).object = fields
  BY DEF IsRecord, Object
<1>7. \A fields : DOMAIN fields # {} => FullRecord(Object(fields))
  BY <1>6 DEF FullRecord
<1>8. \A fields : \A k \in DOMAIN fields : OldField(Object(fields), k) = fields[k]
  BY <1>6 DEF OldField
<1> QED
  BY <1>1, <1>2, <1>3, <1>4, <1>5, <1>6, <1>7, <1>8

LEMMA DefaultSections ==
    /\ IsRecord(DefaultConfig) /\ FullRecord(DefaultConfig)
    /\ DOMAIN DefaultConfig.object = DOMAIN Sections.fields
    /\ \A s \in DOMAIN Sections.fields :
          OldField(DefaultConfig, s) \in Nodes(DefaultConfig) /\ FullRecord(OldField(DefaultConfig, s))
<1>1. /\ DefaultConfig = Object(DefaultConfig.object)
      /\ DOMAIN DefaultConfig.object
           = {"reliability", "queue", "store", "redaction", "identity", "policy", "upstream"}
  BY DEF DefaultConfig, Object
<1>2. DOMAIN Sections.fields
        = {"reliability", "queue", "store", "redaction", "identity", "policy", "upstream"}
  BY DEF Sections, Mapping
<1>3. /\ IsRecord(DefaultConfig) /\ FullRecord(DefaultConfig)
      /\ \A s \in DOMAIN DefaultConfig.object : OldField(DefaultConfig, s) = DefaultConfig.object[s]
  BY <1>1, Constructed DEF OldField
<1>4. \A s \in DOMAIN DefaultConfig.object : DefaultConfig.object[s] \in Nodes(DefaultConfig)
  BY <1>3, PartAt, NodeAt
<1>5. ASSUME NEW s \in DOMAIN DefaultConfig.object PROVE FullRecord(DefaultConfig.object[s])
  <2>1. \E fields : DefaultConfig.object[s] = Object(fields) /\ DOMAIN fields # {}
    <3> DEFINE queue == [provider |-> Text("sqlite"),
                         sqlite |-> Object([path |-> Text("./.mcprelay/queue.db")]),
                         rabbitmq |-> Object([url |-> Text("amqp://localhost"),
                                              exchange |-> Text("mcp.dlx"), queue |-> Text("mcp.dlq")])]
               store == [provider |-> Text("sqlite"),
                         sqlite |-> Object([path |-> Text("./.mcprelay/history.db")]),
                         retention_days |-> Number(30)]
               redaction == [patterns |-> DefaultList]
               identity == [profile |-> Text("local"), keys |-> List(<<>>)]
               policy == [default |-> Text("allow"), rules |-> List(<<>>)]
               upstream == [http |-> Object([headers |-> EmptyObject])]
    <3>1. /\ DOMAIN DefaultReliability # {} /\ DOMAIN queue # {} /\ DOMAIN store # {} /\ DOMAIN redaction # {}
          /\ DOMAIN identity # {} /\ DOMAIN policy # {} /\ DOMAIN upstream # {}
      BY DefaultFields
    <3>2. /\ DefaultConfig.object["reliability"] = Object(DefaultReliability)
          /\ DefaultConfig.object["queue"] = Object(queue) /\ DefaultConfig.object["store"] = Object(store)
          /\ DefaultConfig.object["redaction"] = Object(redaction)
          /\ DefaultConfig.object["identity"] = Object(identity)
          /\ DefaultConfig.object["policy"] = Object(policy)
          /\ DefaultConfig.object["upstream"] = Object(upstream)
      BY DEF DefaultConfig, Object, DefaultList
    <3> HIDE DEF queue, store, redaction, identity, policy, upstream
    <3> QED
      BY <1>1, <3>1, <3>2
  <2> QED
    BY <2>1, Constructed
<1> QED
  BY <1>1, <1>2, <1>3, <1>4, <1>5

Section(s) == OldField(DefaultConfig, s)

LEMMA DefaultParts ==
    /\ \A k \in Settled : Entries(OldField(Section("reliability"), k)) = {}
    /\ FlatOld(OldField(Section("reliability"), "retry")) /\ FlatOld(OldField(Section("reliability"), "replay"))
    /\ OldField(Section("reliability"), "per_tool") = EmptyObject
    /\ Entries(OldField(Section("queue"), "provider")) = {}
    /\ FlatOld(OldField(Section("queue"), "sqlite")) /\ FlatOld(OldField(Section("queue"), "rabbitmq"))
    /\ Entries(OldField(Section("store"), "provider")) = {} /\ FlatOld(OldField(Section("store"), "sqlite"))
    /\ Entries(OldField(Section("store"), "retention_days")) = {}
    /\ AtTop(OldField(Section("redaction"), "patterns"))
    /\ Entries(OldField(Section("identity"), "profile")) = {} /\ AtTop(OldField(Section("identity"), "keys"))
    /\ Entries(OldField(Section("policy"), "default")) = {} /\ AtTop(OldField(Section("policy"), "rules"))
    /\ FullRecord(OldField(Section("upstream"), "http"))
    /\ OldField(OldField(Section("upstream"), "http"), "headers") = EmptyObject
<1>1. \A fields : (DOMAIN fields # {} /\ \A k \in DOMAIN fields : Entries(fields[k]) = {}) => FlatOld(Object(fields))
  BY Constructed DEF FlatOld
<1>2. \A s \in DOMAIN DefaultConfig.object : Section(s) = DefaultConfig.object[s]
  BY DEF Section, OldField
<1>3. DOMAIN DefaultConfig.object
        = {"reliability", "queue", "store", "redaction", "identity", "policy", "upstream"}
  BY DEF DefaultConfig, Object
<1>4. \A text : FlatOld(Object([path |-> Text(text)]))
  <2> TAKE text
  <2> DEFINE fields == [path |-> Text(text)]
  <2>1. DOMAIN fields # {} /\ \A k \in DOMAIN fields : Entries(fields[k]) = {}
    BY Constructed
  <2> HIDE DEF fields
  <2>2. FlatOld(Object(fields))
    BY <1>1, <2>1
  <2> QED
    BY <2>2 DEF fields
<1>5. /\ \A k \in Settled : Entries(OldField(Section("reliability"), k)) = {}
      /\ FlatOld(OldField(Section("reliability"), "retry")) /\ FlatOld(OldField(Section("reliability"), "replay"))
      /\ OldField(Section("reliability"), "per_tool") = EmptyObject
  <2> DEFINE window == [dedup_window |-> Number(24 * 60 * 60 * 1000)]
  <2>1. Section("reliability") = Object(DefaultReliability)
    BY <1>2, <1>3 DEF DefaultConfig, Object
  <2>2. \A k \in DOMAIN DefaultReliability : OldField(Section("reliability"), k) = DefaultReliability[k]
    BY <2>1, Constructed
  <2>3. DOMAIN window # {} /\ \A k \in DOMAIN window : Entries(window[k]) = {}
    BY Constructed
  <2>4. DefaultReliability["replay"] = Object(window)
    BY DEF DefaultReliability
  <2> HIDE DEF window
  <2>5. FlatOld(Object(window)) /\ FlatOld(Object(DefaultRetry))
    BY <1>1, <2>3, DefaultFields
  <2> QED
    BY <2>2, <2>4, <2>5, DefaultFields DEF Settled
<1>6. /\ Entries(OldField(Section("queue"), "provider")) = {}
      /\ FlatOld(OldField(Section("queue"), "sqlite")) /\ FlatOld(OldField(Section("queue"), "rabbitmq"))
  <2> DEFINE rabbitmq == [url |-> Text("amqp://localhost"), exchange |-> Text("mcp.dlx"), queue |-> Text("mcp.dlq")]
             sqlite == Object([path |-> Text("./.mcprelay/queue.db")])
             section == [provider |-> Text("sqlite"), sqlite |-> sqlite, rabbitmq |-> Object(rabbitmq)]
  <2>1. DOMAIN rabbitmq # {} /\ \A k \in DOMAIN rabbitmq : Entries(rabbitmq[k]) = {}
    BY Constructed
  <2>2. Section("queue") = Object(section)
    BY <1>2, <1>3 DEF DefaultConfig, Object
  <2>3. FlatOld(sqlite)
    BY <1>4
  <2> HIDE DEF rabbitmq, sqlite
  <2>4. FlatOld(Object(rabbitmq))
    BY <1>1, <2>1
  <2>5. /\ DOMAIN section = {"provider", "sqlite", "rabbitmq"} /\ section["provider"] = Text("sqlite")
        /\ section["sqlite"] = sqlite /\ section["rabbitmq"] = Object(rabbitmq)
    OBVIOUS
  <2> HIDE DEF section
  <2> QED
    BY <2>2, <2>3, <2>4, <2>5, Constructed
<1>7. /\ Entries(OldField(Section("store"), "provider")) = {} /\ FlatOld(OldField(Section("store"), "sqlite"))
      /\ Entries(OldField(Section("store"), "retention_days")) = {}
  <2> DEFINE sqlite == Object([path |-> Text("./.mcprelay/history.db")])
             section == [provider |-> Text("sqlite"), sqlite |-> sqlite, retention_days |-> Number(30)]
  <2>1. Section("store") = Object(section)
    BY <1>2, <1>3 DEF DefaultConfig, Object
  <2>2. FlatOld(sqlite)
    BY <1>4
  <2> HIDE DEF sqlite
  <2>3. /\ DOMAIN section = {"provider", "sqlite", "retention_days"} /\ section["provider"] = Text("sqlite")
        /\ section["sqlite"] = sqlite /\ section["retention_days"] = Number(30)
    OBVIOUS
  <2> HIDE DEF section
  <2> QED
    BY <2>1, <2>2, <2>3, Constructed
<1>8. AtTop(OldField(Section("redaction"), "patterns"))
  <2>1. DefaultConfig.object["redaction"] = Object([patterns |-> DefaultList])
    BY DefaultsHavePatterns
  <2>2. OldField(Section("redaction"), "patterns") = DefaultList
    <3> DEFINE fields == [patterns |-> DefaultList]
    <3>1. DOMAIN fields = {"patterns"} /\ fields["patterns"] = DefaultList
      OBVIOUS
    <3>2. Section("redaction") = Object(fields)
      BY <1>2, <1>3, <2>1
    <3> HIDE DEF fields
    <3> QED
      BY <3>1, <3>2, Constructed
  <2>3. ~IsRecord(DefaultList)
    BY DEF DefaultList, List, IsRecord
  <2> QED
    BY <2>2, <2>3, DefaultsHavePatterns, DefaultBounded, BoundedNodes, Tops
<1>9. Entries(OldField(Section("identity"), "profile")) = {} /\ AtTop(OldField(Section("identity"), "keys"))
  <2> DEFINE section == [profile |-> Text("local"), keys |-> List(<<>>)]
  <2>1. Section("identity") = Object(section)
    BY <1>2, <1>3 DEF DefaultConfig, Object
  <2>2. DOMAIN section = {"profile", "keys"} /\ section["profile"] = Text("local") /\ section["keys"] = List(<<>>)
    OBVIOUS
  <2> HIDE DEF section
  <2> QED
    BY <2>1, <2>2, Constructed
<1>10. Entries(OldField(Section("policy"), "default")) = {} /\ AtTop(OldField(Section("policy"), "rules"))
  <2> DEFINE section == [default |-> Text("allow"), rules |-> List(<<>>)]
  <2>1. Section("policy") = Object(section)
    BY <1>2, <1>3 DEF DefaultConfig, Object
  <2>2. DOMAIN section = {"default", "rules"} /\ section["default"] = Text("allow") /\ section["rules"] = List(<<>>)
    OBVIOUS
  <2> HIDE DEF section
  <2> QED
    BY <2>1, <2>2, Constructed
<1>11. /\ FullRecord(OldField(Section("upstream"), "http"))
       /\ OldField(OldField(Section("upstream"), "http"), "headers") = EmptyObject
  <2> DEFINE http == [headers |-> EmptyObject]
             section == [http |-> Object(http)]
  <2>1. Section("upstream") = Object(section)
    BY <1>2, <1>3 DEF DefaultConfig, Object
  <2>2. DOMAIN section = {"http"} /\ section["http"] = Object(http)
    OBVIOUS
  <2>3. DOMAIN http = {"headers"} /\ http["headers"] = EmptyObject
    OBVIOUS
  <2> HIDE DEF section, http
  <2> QED
    BY <2>1, <2>2, <2>3, Constructed
<1> QED
  BY <1>5, <1>6, <1>7, <1>8, <1>9, <1>10, <1>11

ReplayWindow == <<Key("replay")>> \o (<<Key("dedup_window")>> \o <<>>)

LEMMA SectionMerges ==
    ASSUME NEW c, InContext(c), c.old = DefaultConfig, NEW s \in DOMAIN Sections.fields,
           Rooted(c.rules, Sections.fields[s])
    PROVE  Merges(c, Sections.fields[s], Section(s), IF s = "reliability" THEN {ReplayWindow} ELSE {})
<1>1. Section(s) \in Nodes(c.old) \cup {EmptyObject} /\ FullRecord(Section(s))
  BY DefaultSections DEF Section
<1>2. /\ DOMAIN Sections.fields
            = {"reliability", "queue", "store", "redaction", "identity", "policy", "upstream"}
      /\ Sections.fields["reliability"] = Reliability /\ Sections.fields["queue"] = Queue
      /\ Sections.fields["store"] = Store /\ Sections.fields["redaction"] = RedactionSection
      /\ Sections.fields["identity"] = Identity /\ Sections.fields["policy"] = PolicySection
      /\ Sections.fields["upstream"] = Upstream
  BY DEF Sections, Mapping
<1>3. CASE s = "reliability"
  BY <1>1, <1>2, <1>3, DefaultParts, ReliabilityMerges DEF ReplayWindow
<1>4. CASE s = "queue"
  BY <1>1, <1>2, <1>4, DefaultParts, QueueMerges
<1>5. CASE s = "store"
  BY <1>1, <1>2, <1>5, DefaultParts, StoreMerges
<1>6. CASE s = "redaction"
  BY <1>1, <1>2, <1>6, DefaultParts, RedactionMerges
<1>7. CASE s = "identity"
  BY <1>1, <1>2, <1>7, DefaultParts, IdentityMerges
<1>8. CASE s = "policy"
  BY <1>1, <1>2, <1>8, DefaultParts, PolicyMerges
<1>9. CASE s = "upstream"
  BY <1>1, <1>2, <1>9, DefaultParts, UpstreamMerges
<1> QED
  BY <1>2, <1>3, <1>4, <1>5, <1>6, <1>7, <1>8, <1>9

-----------------------------------------------------------------------------
\* What a file writes in the sections that are known.
Known(document) == Object([s \in KnownSections(document) |-> document.object[s]])

WrittenOf(document) ==
    {leaf \in Leaves(document) :
       leaf.path # <<>> /\ leaf.path[1].key \in DOMAIN Sections.fields /\ leaf.value # EmptyObject}

LEMMA PathHead ==
    ASSUME NEW k, NEW p, IsPath(p)
    PROVE  <<Key(k)>> \o p # <<>> /\ (<<Key(k)>> \o p)[1].key = k
<1> DEFINE s == Key(k)
           path == <<s>> \o p
<1>1. Len(path) = Len(p) + 1 /\ Len(p) \in Nat /\ path[1] = s
  BY Prepended
<1>2. s.key = k
  BY DEF Key
<1> HIDE DEF s, path
<1>3. path # <<>> /\ path[1].key = k
  BY <1>1, <1>2
<1> QED
  BY <1>3 DEF s, path

LEMMA KnownLeaves ==
    ASSUME NEW document, IsJson(document), IsRecord(document)
    PROVE  /\ Bounded(Known(document)) /\ FullRecord(Known(document))
           /\ DOMAIN Known(document).object = KnownSections(document)
           /\ \A s \in KnownSections(document) : Known(document).object[s] = document.object[s]
           /\ Writes(Known(document)) = WrittenOf(document)
<1> DEFINE known == Known(document)
           names == KnownSections(document)
           fields == [s \in names |-> document.object[s]]
<1>1. /\ IsRecord(known) /\ known.object = fields /\ known = Object(fields)
  BY Constructed DEF Known
<1>2. DOMAIN fields = names /\ \A s \in names : fields[s] = document.object[s]
  OBVIOUS
<1>3. names = {} => fields = <<>>
  OBVIOUS
<1>4. names = DOMAIN document.object \cap DOMAIN Sections.fields
  BY DEF KnownSections
<1> HIDE DEF fields, names, known
<1>5. FullRecord(known)
  BY <1>1, <1>2, <1>3 DEF FullRecord, EmptyObject
<1>6. WellFormed(document) /\ Bounded(document) /\ FullRecord(document)
  BY NodeAt, NodesAreTrees, FullRecords DEF IsJson, Bounded
<1>7. Bounded(known)
  <2>1. Parts(known) \subseteq Parts(document)
    BY <1>1, <1>2, <1>4, PartsOfObject, PartAt
  <2>2. MaxDepth \in 0..MaxDepth
    BY JsonAssumption
  <2>3. \A x : Level(x)[MaxDepth + 1] = UNION {Level(p)[MaxDepth] : p \in Parts(x)}
    BY <2>2, LevelOfParts
  <2> QED
    BY <1>6, <2>1, <2>3 DEF Bounded
<1>8. ASSUME NEW leaf \in Writes(known) PROVE leaf \in WrittenOf(document)
  <2>1. PICK k \in names : \E l \in Writes(document.object[k]) : leaf = LeafBelow(Key(k), l)
    BY <1>1, <1>2, <1>5, <1>7, WrittenBelow
  <2>2. PICK l \in Writes(document.object[k]) : leaf = LeafBelow(Key(k), l)
    BY <2>1
  <2>3. leaf \in Writes(document) /\ IsPath(l.path)
    BY <1>4, <1>6, <2>2, WrittenBelow DEF Writes
  <2>4. leaf.path = <<Key(k)>> \o l.path
    BY <2>2 DEF LeafBelow
  <2>5. leaf.path # <<>> /\ leaf.path[1].key = k
    BY <2>3, <2>4, PathHead
  <2> QED
    BY <1>4, <2>3, <2>5 DEF Writes, WrittenOf
<1>9. ASSUME NEW leaf \in WrittenOf(document) PROVE leaf \in Writes(known)
  <2>1. leaf \in Writes(document)
    BY DEF WrittenOf, Writes
  <2>2. PICK k \in DOMAIN document.object : \E l \in Writes(document.object[k]) : leaf = LeafBelow(Key(k), l)
    BY <1>6, <2>1, WrittenBelow
  <2>3. PICK l \in Writes(document.object[k]) : leaf = LeafBelow(Key(k), l)
    BY <2>2
  <2>4. IsPath(l.path)
    BY <1>6, WrittenBelow DEF Writes
  <2>5. leaf.path = <<Key(k)>> \o l.path
    BY <2>3 DEF LeafBelow
  <2>6. leaf.path[1].key = k
    BY <2>4, <2>5, PathHead
  <2>7. k \in names
    BY <1>4, <2>6 DEF WrittenOf
  <2> QED
    BY <1>1, <1>2, <1>5, <1>7, <2>3, <2>7, WrittenBelow
<1> QED
  BY <1>1, <1>2, <1>5, <1>7, <1>8, <1>9 DEF known, names

Window == <<Key("reliability"), Key("replay"), Key("dedup_window")>>

LEMMA ThreeSteps ==
    ASSUME NEW a, NEW b, NEW c
    PROVE  LET p == <<b>> \o (<<c>> \o <<>>)
           IN  IsPath(p) /\ <<a>> \o p = <<a, b, c>>
<1> DEFINE path == <<a, b, c>>
<1>1. IsPath(<<>>) /\ IsPath(<<c>> \o <<>>) /\ IsPath(<<b>> \o (<<c>> \o <<>>))
  BY Paths, Prepended
<1>2. <<a, b, c>> \o <<>> = <<a>> \o (<<b>> \o (<<c>> \o <<>>))
  BY <1>1, Paths
<1>3. path \in Seq({a, b, c})
  OBVIOUS
<1> HIDE DEF path
<1>4. path \o <<>> = path
  BY <1>3
<1> QED
  BY <1>1, <1>2, <1>4 DEF path

LEMMA WindowIs == IsPath(ReplayWindow) /\ <<Key("reliability")>> \o ReplayWindow = Window
BY ThreeSteps DEF ReplayWindow, Window

\* The premises of FieldsMerged in one piece.
FieldsAre(v, before, after, windows, within, exact) ==
    /\ Bounded(v) /\ FullRecord(v) /\ Bounded(before) /\ FullRecord(before) /\ IsRecord(after)
    /\ DOMAIN after.object = DOMAIN v.object \cup DOMAIN before.object
    /\ \A k \in DOMAIN v.object : AreWindows(within[k], k, windows)
    /\ \A k \in DOMAIN v.object : Merged(v.object[k], OldField(before, k), after.object[k], within[k], exact)
    /\ \A k \in DOMAIN before.object : k \notin DOMAIN v.object => after.object[k] = before.object[k]

LEMMA MergedFields ==
    ASSUME NEW v, NEW before, NEW after, NEW windows, NEW within, NEW exact,
           FieldsAre(v, before, after, windows, within, exact)
    PROVE  Merged(v, before, after, windows, exact) /\ Bounded(after)
BY FieldsMerged DEF FieldsAre

\* What becomes of the sections of a document that is accepted.
IsLoaded(document, mid, applied) ==
    LET names == KnownSections(document)
        old == DefaultConfig
    IN  /\ mid = Object(mid.object) /\ DOMAIN mid.object = names \cup DOMAIN old.object
        /\ \A s \in names : mid.object[s] = applied[document.object[s]][<<Sections.fields[s], Section(s)>>]
        /\ \A s \in DOMAIN old.object : s \notin names => mid.object[s] = old.object[s]

IsAccepted(c, document, s, applied) ==
    /\ InContext(c) /\ c.section = document.object[s] /\ c.applied = applied /\ c.old = DefaultConfig
    /\ Rooted(c.rules, Sections.fields[s]) /\ c.broken[c.section][Sections.fields[s]] = {}

LEMMA DocumentLoaded ==
    ASSUME NEW document, IsJson(document), document # Null, AcceptsDocument(document)
    PROVE  \E applied : /\ IsLoaded(document, ApplyDocument(DefaultConfig, document), applied)
                        /\ \A s \in KnownSections(document) : \E c : IsAccepted(c, document, s, applied)
<1> DEFINE old == DefaultConfig
           mid == ApplyDocument(old, document)
           names == KnownSections(document)
<1>1. IsRecord(document) /\ Bounded(document)
  BY DEF AcceptsDocument, IsJson, Bounded
<1>2. names = DOMAIN document.object \cap DOMAIN Sections.fields
  BY DEF KnownSections
<1>3. PICK applied : AreApplications(applied, document, Sections, old)
  BY <1>1, AppliedIs
<1>4. /\ Applied(Sections, old, document) = applied[document][<<Sections, old>>]
      /\ \A v \in Nodes(document), r \in RulesIn(Sections), before \in Nodes(old) \cup {EmptyObject} :
            applied[v][<<r, before>>] = Replacing(r, before, v, applied)
  BY <1>3 DEF AreApplications
<1>5. document \in Nodes(document) /\ old \in Nodes(old)
  BY NodeAt
<1>6. mid = Replacing(Sections, old, document, applied)
  BY <1>4, <1>5, RedactionRules DEF ApplyDocument
<1> HIDE DEF mid
<1>7. IsOver(mid, document, Sections, old, applied)
  BY <1>1, <1>6, MappingApplied, RedactionRules
<1>8. IsLoaded(document, mid, applied)
  BY <1>2, <1>7 DEF IsOver, IsLoaded, Section
<1>9. ASSUME NEW s \in names PROVE \E c : IsAccepted(c, document, s, applied)
  <2> DEFINE section == document.object[s]
             rule == Sections.fields[s]
             rules == RulesIn(rule) \cap RulesIn(Sections)
             broken == BrokenIn(section, RulesIn(rule))
             c == [section |-> section, rules |-> rules, broken |-> broken, applied |-> applied, old |-> old]
  <2>1. section \in Nodes(document)
    BY <1>1, <1>2, PartAt, NodeAt
  <2>2. IsJson(section) /\ Nodes(section) \subseteq Nodes(document)
    BY <2>1, NodesAreTrees
  <2>3. Accepts(rule, section)
    BY <1>1 DEF AcceptsDocument
  <2>4. broken[section][rule] = {} /\ \A v \in Nodes(section), r \in RulesIn(rule) : broken[v][r] = Broken(v, r, broken)
    BY <2>2, <2>3, AcceptsIs
  <2>5. c.section = section /\ c.rules = rules /\ c.broken = broken /\ c.applied = applied /\ c.old = old
    OBVIOUS
  <2>6. rules \subseteq RulesIn(rule) /\ rules \subseteq RulesIn(Sections)
    OBVIOUS
  <2>7. Rooted(rules, rule)
    BY <1>2, SectionRules
  <2> HIDE DEF section, rule, rules, broken, c
  <2>8. InContext(c)
    BY <1>4, <2>2, <2>4, <2>5, <2>6, DefaultBounded DEF InContext, NothingBroken
  <2>9. IsAccepted(c, document, s, applied)
    BY <2>4, <2>5, <2>7, <2>8 DEF IsAccepted, section, rule
  <2> QED
    BY <2>9
<1> QED
  BY <1>8, <1>9 DEF mid

LEMMA DocumentMerges ==
    ASSUME NEW document, IsJson(document), document # Null, AcceptsDocument(document)
    PROVE  LET mid == ApplyDocument(DefaultConfig, document)
           IN  /\ Merged(Known(document), DefaultConfig, mid, {Window}, FALSE)
               /\ IsRecord(mid) /\ Bounded(mid)
<1> DEFINE old == DefaultConfig
           mid == ApplyDocument(old, document)
           known == Known(document)
           names == KnownSections(document)
           within == [s \in names |-> IF s = "reliability" THEN {ReplayWindow} ELSE {}]
<1>1. IsRecord(document) /\ names \subseteq DOMAIN Sections.fields
  BY DEF AcceptsDocument, KnownSections
<1>2. PICK applied : /\ IsLoaded(document, mid, applied)
                     /\ \A s \in names : \E c : IsAccepted(c, document, s, applied)
  BY DocumentLoaded
<1> HIDE DEF mid
<1>3. IsRecord(mid)
  <2>1. mid = Object(mid.object)
    BY <1>2 DEF IsLoaded
  <2>2. IsRecord(Object(mid.object))
    BY Constructed
  <2> QED
    BY <2>1, <2>2
<1>4. ASSUME NEW s \in names
      PROVE  Merged(document.object[s], OldField(old, s), mid.object[s], within[s], FALSE)
  <2> DEFINE section == document.object[s]
             rule == Sections.fields[s]
  <2>1. PICK c : IsAccepted(c, document, s, applied)
    BY <1>2
  <2>2. Merges(c, rule, Section(s), IF s = "reliability" THEN {ReplayWindow} ELSE {})
    BY <1>1, <2>1, SectionMerges DEF IsAccepted
  <2>3. section \in Nodes(section)
    BY NodeAt
  <2>4. c.section = section /\ c.applied = applied /\ c.broken[section][rule] = {}
    BY <2>1 DEF IsAccepted
  <2> HIDE DEF section, rule
  <2>5. Merged(section, Section(s), applied[section][<<rule, Section(s)>>],
               IF s = "reliability" THEN {ReplayWindow} ELSE {}, FALSE)
    BY <2>2, <2>3, <2>4 DEF Merges
  <2>6. mid.object[s] = applied[section][<<rule, Section(s)>>]
    BY <1>2 DEF IsLoaded, section, rule
  <2> QED
    BY <2>5, <2>6 DEF Section, section, rule
<1>5. \A s \in names : AreWindows(within[s], s, {Window})
  BY WindowIs, WindowBelow
<1>6. /\ Bounded(known) /\ FullRecord(known) /\ DOMAIN known.object = names
      /\ \A s \in names : known.object[s] = document.object[s]
  BY <1>1, KnownLeaves
<1> HIDE DEF names, known, within
<1>7. Bounded(old) /\ FullRecord(old) /\ DOMAIN mid.object = DOMAIN known.object \cup DOMAIN old.object
  BY <1>2, <1>6, DefaultBounded, DefaultSections DEF IsLoaded, names
<1>8. \A s \in DOMAIN known.object : Merged(known.object[s], OldField(old, s), mid.object[s], within[s], FALSE)
  BY <1>4, <1>6
<1>9. \A s \in DOMAIN old.object : s \notin DOMAIN known.object => mid.object[s] = old.object[s]
  BY <1>2, <1>6 DEF IsLoaded, names
<1> DEFINE windows == {Window}
<1>10. \A s \in DOMAIN known.object : AreWindows(within[s], s, windows)
  BY <1>5, <1>6
<1> HIDE DEF old, windows
<1>11. FieldsAre(known, old, mid, windows, within, FALSE)
  BY <1>3, <1>6, <1>7, <1>8, <1>9, <1>10 DEF FieldsAre
<1> QED
  BY <1>3, <1>11, MergedFields DEF windows, mid, known, old

\* The profile in force is a single value.
HasIdentity(settings) ==
    LET identity == settings.object["identity"]
    IN  /\ settings = Object(settings.object) /\ "identity" \in DOMAIN settings.object
        /\ identity = Object(identity.object) /\ "profile" \in DOMAIN identity.object
        /\ Entries(identity.object["profile"]) = {}

LEMMA DefaultIdentity ==
    /\ HasIdentity(DefaultConfig) /\ Section("identity") = DefaultConfig.object["identity"]
    /\ "profile" \in DOMAIN Section("identity").object
<1> DEFINE section == [profile |-> Text("local"), keys |-> List(<<>>)]
<1>1. DefaultConfig = Object(DefaultConfig.object) /\ "identity" \in DOMAIN DefaultConfig.object
      /\ DefaultConfig.object["identity"] = Object(section)
  BY DEF DefaultConfig, Object
<1>2. "profile" \in DOMAIN section /\ section["profile"] = Text("local")
  OBVIOUS
<1>3. Section("identity") = DefaultConfig.object["identity"]
  BY <1>1 DEF Section, OldField
<1> HIDE DEF section
<1>4. Object(section).object = section
  BY Constructed
<1>5. Entries(section["profile"]) = {}
  BY <1>2, Constructed
<1> QED
  BY <1>1, <1>2, <1>3, <1>4, <1>5 DEF HasIdentity

LEMMA DocumentIdentity ==
    ASSUME NEW document, IsJson(document), document # Null, AcceptsDocument(document)
    PROVE  HasIdentity(ApplyDocument(DefaultConfig, document))
<1> DEFINE mid == ApplyDocument(DefaultConfig, document)
           names == KnownSections(document)
           before == Section("identity")
           after == mid.object["identity"]
           section == document.object["identity"]
<1>1. PICK applied : /\ IsLoaded(document, mid, applied)
                     /\ \A s \in names : \E c : IsAccepted(c, document, s, applied)
  BY DocumentLoaded
<1> HIDE DEF mid
<1>2. mid = Object(mid.object) /\ "identity" \in DOMAIN mid.object
  BY <1>1, DefaultIdentity DEF IsLoaded, HasIdentity
<1>3. CASE "identity" \notin names
  <2>1. after = DefaultConfig.object["identity"]
    BY <1>1, <1>3, DefaultIdentity DEF IsLoaded, HasIdentity
  <2> QED
    BY <1>2, <2>1, DefaultIdentity DEF HasIdentity, mid
<1>4. CASE "identity" \in names
  <2>1. PICK c : IsAccepted(c, document, "identity", applied)
    BY <1>1, <1>4
  <2>2. "identity" \in DOMAIN Sections.fields /\ Sections.fields["identity"] = Identity
    BY DEF Sections, Mapping
  <2>3. after = applied[section][<<Identity, before>>]
    BY <1>1, <1>4, <2>2 DEF IsLoaded
  <2>4. /\ InContext(c) /\ c.section = section /\ c.applied = applied /\ c.old = DefaultConfig
        /\ Rooted(c.rules, Identity) /\ c.broken[section][Identity] = {}
    BY <2>1, <2>2 DEF IsAccepted
  <2>5. section \in Nodes(section)
    BY NodeAt
  <2>6. before \in Nodes(DefaultConfig)
    BY <2>2, DefaultSections DEF Section
  <2> DEFINE rule == Identity.fields["profile"]
             profile == section.object["profile"]
             old == OldField(before, "profile")
  <2>7. IsMapping(Identity) /\ DOMAIN Identity.fields = {"profile", "keys"} /\ IsSingle(rule)
    BY OtherShapes
  <2>8. Identity \in c.rules /\ rule \in c.rules
    BY <2>4, <2>7, MappingParts DEF Rooted, Deep, IsMapping
  <2>9. Entries(old) = {}
    BY DefaultParts
  <2>10. old \in Nodes(DefaultConfig) \cup {EmptyObject}
    BY <2>2, <2>4, <2>6, DefaultSections, OldParts DEF Section, FullRecord
  <2> HIDE DEF section, before, after, rule, profile, old
  <2>11. /\ IsRecord(section)
         /\ "profile" \in DOMAIN section.object => profile \in Nodes(section) /\ c.broken[profile][rule] = {}
    BY <2>4, <2>5, <2>7, <2>8, FieldsAccepted DEF profile, rule
  <2>12. after = Replacing(Identity, before, section, applied)
    BY <2>3, <2>4, <2>5, <2>6, <2>8 DEF InContext
  <2>13. IsOver(after, section, Identity, before, applied)
    BY <2>7, <2>11, <2>12, MappingApplied, NoDuration DEF IsMapping
  <2>14. after = Object(after.object) /\ "profile" \in DOMAIN after.object
    BY <2>13, DefaultIdentity DEF IsOver, before
  <2>15. CASE "profile" \notin DOMAIN section.object
    <3>1. after.object["profile"] = old
      BY <2>13, <2>15, DefaultIdentity DEF IsOver, before, old, OldField
    <3> QED
      BY <1>2, <2>9, <2>14, <3>1 DEF HasIdentity, after, mid
  <2>16. CASE "profile" \in DOMAIN section.object
    <3>1. after.object["profile"] = applied[profile][<<rule, old>>]
      BY <2>7, <2>13, <2>16 DEF IsOver, old, rule, profile
    <3>2. applied[profile][<<rule, old>>] = Replacing(rule, old, profile, applied)
      BY <2>4, <2>8, <2>10, <2>11, <2>16 DEF InContext
    <3>3. after.object["profile"] = profile
      BY <2>7, <3>1, <3>2, PlainReplaced DEF IsSingle
    <3>4. Entries(profile) = {}
      BY <2>4, <2>7, <2>8, <2>11, <2>16, PlainAccepted DEF InContext, IsSingle
    <3> QED
      BY <1>2, <2>14, <3>3, <3>4 DEF HasIdentity, after, mid
  <2> QED
    BY <2>15, <2>16
<1> QED
  BY <1>3, <1>4

-----------------------------------------------------------------------------
\* What the command line sets.

\* An object over another, field by field.
KeepsOthers(v, before, after) ==
    \A k \in DOMAIN before.object :
       k \in DOMAIN after.object /\ (k \notin DOMAIN v.object => after.object[k] = before.object[k])

LEMMA FieldsOver ==
    ASSUME NEW value, NEW old, Bounded(old), NEW applied, Applies(applied, value, old),
           NEW r \in RulesIn(Sections), IsMapping(r),
           NEW v \in Nodes(value), Bounded(v), FullRecord(v), DOMAIN v.object \subseteq DOMAIN r.fields,
           NEW before \in Nodes(old), FullRecord(before), NEW exact,
           \A k \in DOMAIN v.object :
              Merged(v.object[k], OldField(before, k),
                     applied[v.object[k]][<<r.fields[k], OldField(before, k)>>], {}, exact)
    PROVE  LET after == applied[v][<<r, before>>]
           IN  /\ Merged(v, before, after, {}, exact) /\ Bounded(after) /\ IsRecord(after)
               /\ KeepsOthers(v, before, after)
<1> DEFINE after == applied[v][<<r, before>>]
           within == [k \in DOMAIN v.object |-> {}]
<1>1. after = Replacing(r, before, v, applied)
  BY DEF Applies
<1> HIDE DEF after
<1>2. IsOver(after, v, r, before, applied)
  BY <1>1, MappingApplied, NoDuration DEF IsMapping, FullRecord
<1>3. /\ after = Object(after.object) /\ DOMAIN after.object = DOMAIN v.object \cup DOMAIN before.object
      /\ \A k \in DOMAIN v.object : after.object[k] = applied[v.object[k]][<<r.fields[k], OldField(before, k)>>]
      /\ \A k \in DOMAIN before.object : k \notin DOMAIN v.object => after.object[k] = before.object[k]
  BY <1>2 DEF IsOver
<1>4. IsRecord(after)
  <2>1. IsRecord(Object(after.object))
    BY Constructed
  <2> QED
    BY <1>3, <2>1
<1>5. \A k \in DOMAIN v.object : within[k] = {} /\ AreWindows(within[k], k, {})
  BY DEF AreWindows
<1> HIDE DEF within
<1>6. \A k \in DOMAIN v.object : Merged(v.object[k], OldField(before, k), after.object[k], within[k], exact)
  BY <1>3, <1>5
<1>7. Bounded(before)
  BY BoundedNodes
<1>8. FieldsAre(v, before, after, {}, within, exact)
  BY <1>3, <1>4, <1>5, <1>6, <1>7 DEF FieldsAre
<1>9. Merged(v, before, after, {}, exact) /\ Bounded(after)
  BY <1>8, MergedFields
<1>10. KeepsOthers(v, before, after)
  BY <1>3 DEF KeepsOthers
<1> QED
  BY <1>4, <1>9, <1>10 DEF after

\* What the flags say is set, and only that.
LEMMA FlagsMerge ==
    ASSUME NEW mid, HasSettings(mid), Bounded(mid), Entries(InForce(mid)["timeout_ms"]) = {},
           "max_attempts" \in DOMAIN InForce(mid)["retry"].object,
           Entries(InForce(mid)["retry"].object["max_attempts"]) = {}, NEW flags
    PROVE  LET new == ApplyFlags(mid, flags)
           IN  /\ Merged(FlagDocument(flags), mid, new, {}, TRUE) /\ Bounded(new) /\ IsRecord(new)
               /\ \A s \in DOMAIN mid.object :
                     s \in DOMAIN new.object /\ (s # "reliability" => new.object[s] = mid.object[s])
<1> DEFINE raw == FlagDocument(flags)
           said == FlagFields(flags)
           section == Object(said)
           number == Number(flags["max_attempts"])
           count == [max_attempts |-> number]
           retry == Object(count)
           timeout == Number(flags["timeout_ms"])
           oldSection == mid.object["reliability"]
           oldRetry == oldSection.object["retry"]
           oldNumber == oldRetry.object["max_attempts"]
           oldTimeout == oldSection.object["timeout_ms"]
           new == ApplyFlags(mid, flags)
<1>1. /\ IsRecord(raw) /\ DOMAIN raw.object = {"reliability"} /\ raw.object["reliability"] = section
      /\ Bounded(raw) /\ new = Applied(Sections, mid, raw)
  BY FlagDocumentIs
<1>2. PICK applied : AreApplications(applied, raw, Sections, mid)
  BY <1>1, AppliedIs
<1>3. Applies(applied, raw, mid) /\ new = applied[raw][<<Sections, mid>>]
  BY <1>1, <1>2 DEF AreApplications, Applies
<1>4. /\ DOMAIN said \subseteq {"timeout_ms", "retry"}
      /\ "timeout_ms" \in DOMAIN said => said["timeout_ms"] = timeout
      /\ "retry" \in DOMAIN said => said["retry"] = retry
  BY FlagsSaid
<1>5. DOMAIN said = {} => said = <<>>
  BY DEF FlagFields, Over
<1>6. DOMAIN count = {"max_attempts"} /\ count["max_attempts"] = number
  OBVIOUS
<1>7. /\ Entries(number) = {} /\ Entries(timeout) = {} /\ number # EmptyObject /\ timeout # EmptyObject
  BY Constructed DEF Number, EmptyObject, Object
<1> HIDE DEF count, said
<1>8. IsRecord(section) /\ section.object = said /\ IsRecord(retry) /\ retry.object = count
  BY Constructed
<1>9. FullRecord(raw) /\ FullRecord(section) /\ FullRecord(retry)
  BY <1>1, <1>5, <1>6, <1>8 DEF FullRecord, EmptyObject
<1>10. raw \in Nodes(raw) /\ section \in Parts(raw) /\ section \in Nodes(raw)
  BY <1>1, NodeAt, PartAt
<1>11. "retry" \in DOMAIN said => retry \in Nodes(raw) /\ number \in Nodes(raw)
  <2> SUFFICES ASSUME "retry" \in DOMAIN said PROVE retry \in Nodes(raw) /\ number \in Nodes(raw)
    OBVIOUS
  <2>1. retry \in Parts(section)
    BY <1>4, <1>8, PartAt
  <2>2. retry \in Nodes(raw)
    BY <1>1, <1>10, <2>1, BoundedNodes
  <2>3. number \in Parts(retry)
    BY <1>6, <1>8, PartAt
  <2> QED
    BY <1>1, <2>2, <2>3, BoundedNodes
<1>12. "timeout_ms" \in DOMAIN said => timeout \in Nodes(raw)
  <2> SUFFICES ASSUME "timeout_ms" \in DOMAIN said PROVE timeout \in Nodes(raw)
    OBVIOUS
  <2>1. timeout \in Parts(section)
    BY <1>4, <1>8, PartAt
  <2> QED
    BY <1>1, <1>10, <2>1, BoundedNodes
<1>13. /\ mid = Object(mid.object) /\ "reliability" \in DOMAIN mid.object
       /\ oldSection = Object(oldSection.object) /\ {"timeout_ms", "retry"} \subseteq DOMAIN oldSection.object
       /\ oldRetry = Object(oldRetry.object) /\ "max_attempts" \in DOMAIN oldRetry.object
       /\ Entries(oldNumber) = {} /\ Entries(oldTimeout) = {}
  BY DEF HasSettings, InForce, Settled
<1>14. FullRecord(mid) /\ FullRecord(oldSection) /\ FullRecord(oldRetry)
  <2>1. \A x : x = Object(x.object) /\ DOMAIN x.object # {} => FullRecord(x)
    BY Constructed
  <2> HIDE DEF oldSection, oldRetry
  <2> QED
    BY <1>13, <2>1
<1>15. /\ mid \in Nodes(mid) /\ oldSection \in Nodes(mid) /\ oldRetry \in Nodes(mid)
       /\ oldNumber \in Nodes(mid) /\ oldTimeout \in Nodes(mid)
  <2>1. mid \in Nodes(mid) /\ oldSection \in Nodes(mid)
    BY <1>13, <1>14, NodeAt, PartAt DEF FullRecord
  <2>2. oldRetry \in Nodes(mid) /\ oldTimeout \in Nodes(mid)
    BY <1>13, <1>14, <2>1, BoundedNodes, PartAt DEF FullRecord
  <2>3. oldNumber \in Nodes(mid)
    BY <1>13, <1>14, <2>2, BoundedNodes, PartAt DEF FullRecord
  <2> QED
    BY <2>1, <2>2, <2>3
<1>16. /\ OldField(mid, "reliability") = oldSection
       /\ OldField(oldSection, "retry") = oldRetry /\ OldField(oldSection, "timeout_ms") = oldTimeout
       /\ OldField(oldRetry, "max_attempts") = oldNumber
  BY <1>13 DEF OldField
<1>17. ReliabilityIn(RulesIn(Sections)) /\ Sections \in RulesIn(Sections)
  BY ReliabilityRules, RulesReached
<1>18. /\ DOMAIN Sections.fields
             = {"reliability", "queue", "store", "redaction", "identity", "policy", "upstream"}
       /\ Sections.fields["reliability"] = Reliability /\ IsMapping(Sections)
  BY RedactionRules DEF Sections, Mapping, IsMapping
<1>19. IsMapping(Reliability) /\ IsMapping(Retry)
  BY ReliabilityShapes DEF IsMapping
<1> DEFINE newNumber == applied[number][<<Retry.fields["max_attempts"], oldNumber>>]
           newTimeout == applied[timeout][<<Reliability.fields["timeout_ms"], oldTimeout>>]
           newRetry == applied[retry][<<Retry, oldRetry>>]
           newSection == applied[section][<<Reliability, oldSection>>]
<1> HIDE DEF new, raw, section, retry, number, timeout, oldSection, oldRetry, oldNumber, oldTimeout
<1>20. "retry" \in DOMAIN said => Merged(number, oldNumber, newNumber, {}, TRUE)
  <2> SUFFICES ASSUME "retry" \in DOMAIN said PROVE Merged(number, oldNumber, newNumber, {}, TRUE)
    OBVIOUS
  <2> DEFINE rule == Retry.fields["max_attempts"]
  <2>1. rule \in RulesIn(Sections) /\ IsPlain(rule)
    BY <1>17, ReliabilityShapes DEF ReliabilityIn
  <2> HIDE DEF rule
  <2>2. applied[number][<<rule, oldNumber>>] = number
    BY <1>3, <1>11, <1>15, <2>1, PlainReplaced DEF Applies
  <2>3. newNumber = number
    BY <2>2 DEF rule
  <2> QED
    BY <1>7, <1>13, <2>3, SingleReplaced
<1>21. "timeout_ms" \in DOMAIN said => Merged(timeout, oldTimeout, newTimeout, {}, TRUE)
  <2> SUFFICES ASSUME "timeout_ms" \in DOMAIN said PROVE Merged(timeout, oldTimeout, newTimeout, {}, TRUE)
    OBVIOUS
  <2> DEFINE rule == Reliability.fields["timeout_ms"]
  <2>1. rule \in RulesIn(Sections) /\ IsPlain(rule)
    BY <1>17, ReliabilityShapes DEF ReliabilityIn
  <2> HIDE DEF rule
  <2>2. applied[timeout][<<rule, oldTimeout>>] = timeout
    BY <1>3, <1>12, <1>15, <2>1, PlainReplaced DEF Applies
  <2>3. newTimeout = timeout
    BY <2>2 DEF rule
  <2> QED
    BY <1>7, <1>13, <2>3, SingleReplaced
<1>22. "retry" \in DOMAIN said => Merged(retry, oldRetry, newRetry, {}, TRUE)
  <2> SUFFICES ASSUME "retry" \in DOMAIN said PROVE Merged(retry, oldRetry, newRetry, {}, TRUE)
    OBVIOUS
  <2>1. Retry \in RulesIn(Sections) /\ DOMAIN retry.object \subseteq DOMAIN Retry.fields
    BY <1>6, <1>8, <1>17, ReliabilityShapes DEF ReliabilityIn
  <2>2. Bounded(retry) /\ retry \in Nodes(raw)
    BY <1>1, <1>11, BoundedNodes
  <2>3. \A k \in DOMAIN retry.object :
           Merged(retry.object[k], OldField(oldRetry, k),
                  applied[retry.object[k]][<<Retry.fields[k], OldField(oldRetry, k)>>], {}, TRUE)
    BY <1>6, <1>8, <1>16, <1>20
  <2> QED
    BY <1>3, <1>9, <1>14, <1>15, <1>19, <2>1, <2>2, <2>3, FieldsOver
<1>23. Merged(section, oldSection, newSection, {}, TRUE)
  <2>1. Reliability \in RulesIn(Sections) /\ DOMAIN section.object \subseteq DOMAIN Reliability.fields
    BY <1>4, <1>8, <1>17, ReliabilityShapes DEF ReliabilityIn
  <2>2. Bounded(section)
    BY <1>1, <1>10, BoundedNodes
  <2>3. Reliability.fields["retry"] = Retry
    BY ReliabilityShapes
  <2>4. \A k \in DOMAIN section.object :
           Merged(section.object[k], OldField(oldSection, k),
                  applied[section.object[k]][<<Reliability.fields[k], OldField(oldSection, k)>>], {}, TRUE)
    BY <1>4, <1>8, <1>16, <1>21, <1>22, <2>3
  <2> QED
    BY <1>3, <1>9, <1>10, <1>14, <1>15, <1>19, <2>1, <2>2, <2>4, FieldsOver
<1>24. /\ Merged(raw, mid, new, {}, TRUE) /\ Bounded(new) /\ IsRecord(new)
       /\ \A s \in DOMAIN mid.object :
             s \in DOMAIN new.object /\ (s \notin DOMAIN raw.object => new.object[s] = mid.object[s])
  <2>1. DOMAIN raw.object \subseteq DOMAIN Sections.fields
    BY <1>1, <1>18
  <2>2. \A k \in DOMAIN raw.object :
           Merged(raw.object[k], OldField(mid, k),
                  applied[raw.object[k]][<<Sections.fields[k], OldField(mid, k)>>], {}, TRUE)
    BY <1>1, <1>16, <1>18, <1>23
  <2> DEFINE last == applied[raw][<<Sections, mid>>]
  <2>3. /\ Applies(applied, raw, mid) /\ Bounded(raw) /\ FullRecord(raw) /\ raw \in Nodes(raw)
        /\ FullRecord(mid) /\ mid \in Nodes(mid) /\ Sections \in RulesIn(Sections) /\ IsMapping(Sections)
    BY <1>1, <1>3, <1>9, <1>10, <1>14, <1>15, <1>17, <1>18
  <2>4. Merged(raw, mid, last, {}, TRUE) /\ Bounded(last) /\ IsRecord(last) /\ KeepsOthers(raw, mid, last)
    BY <2>1, <2>2, <2>3, FieldsOver
  <2>5. new = last
    BY <1>3
  <2> HIDE DEF last
  <2> QED
    BY <2>4, <2>5 DEF KeepsOthers
<1> QED
  BY <1>1, <1>24 DEF raw, new

\* The paths of what the command line sets.
TimeoutPath == <<Key("reliability"), Key("timeout_ms")>>
AttemptsPath == <<Key("reliability"), Key("retry"), Key("max_attempts")>>
ProfilePath == <<Key("identity"), Key("profile")>>

LEMMA SinglePath ==
    ASSUME NEW v, Entries(v) = {}
    PROVE  \A leaf \in Writes(v) : leaf.path = <<>>
<1> DEFINE one == [path |-> <<>>, value |-> v]
<1>1. Leaves(v) = {one} /\ one.path = <<>>
  BY ScalarLeaf
<1> HIDE DEF one
<1> QED
  BY <1>1 DEF Writes

LEMMA FlagPaths ==
    ASSUME NEW flags, NEW leaf \in Writes(FlagDocument(flags))
    PROVE  \/ leaf.path = TimeoutPath /\ "timeout_ms" \in DOMAIN flags
           \/ leaf.path = AttemptsPath /\ "max_attempts" \in DOMAIN flags
<1> DEFINE raw == FlagDocument(flags)
           said == FlagFields(flags)
           section == Object(said)
           count == [max_attempts |-> Number(flags["max_attempts"])]
           retry == Object(count)
           timeout == Number(flags["timeout_ms"])
<1>1. /\ IsRecord(raw) /\ DOMAIN raw.object = {"reliability"} /\ raw.object["reliability"] = section
      /\ Bounded(raw)
  BY FlagDocumentIs
<1>2. /\ DOMAIN said \subseteq {"timeout_ms", "retry"}
      /\ "timeout_ms" \in DOMAIN said => said["timeout_ms"] = timeout /\ "timeout_ms" \in DOMAIN flags
      /\ "retry" \in DOMAIN said => said["retry"] = retry /\ "max_attempts" \in DOMAIN flags
  BY FlagsSaid
<1>3. DOMAIN said = {} => said = <<>>
  BY DEF FlagFields, Over
<1>4. DOMAIN count = {"max_attempts"} /\ Entries(count["max_attempts"]) = {} /\ Entries(timeout) = {}
  BY Constructed
<1> HIDE DEF count, said, timeout
<1>5. IsRecord(section) /\ section.object = said /\ IsRecord(retry) /\ retry.object = count
  BY Constructed
<1>6. FullRecord(raw) /\ FullRecord(section) /\ FullRecord(retry)
  BY <1>1, <1>3, <1>4, <1>5 DEF FullRecord, EmptyObject
<1>7. Bounded(section)
  BY <1>1, PartAt, BoundedParts
<1>8. "retry" \in DOMAIN said => Bounded(retry)
  BY <1>2, <1>5, <1>7, PartAt, BoundedParts
<1> HIDE DEF raw, section, retry
<1>11. PICK l \in Writes(section) : leaf = LeafBelow(Key("reliability"), l)
  BY <1>1, <1>6, WrittenBelow DEF raw
<1>12. PICK k \in DOMAIN said : \E m \in Writes(said[k]) : l = LeafBelow(Key(k), m)
  BY <1>5, <1>6, <1>7, WrittenBelow
<1>13. PICK m \in Writes(said[k]) : l = LeafBelow(Key(k), m)
  BY <1>12
<1>14. CASE k = "timeout_ms"
  <2>1. m.path = <<>>
    BY <1>2, <1>4, <1>14, SinglePath
  <2>2. leaf.path = <<Key("reliability")>> \o (<<Key("timeout_ms")>> \o <<>>)
    <3>1. l.path = <<Key("timeout_ms")>> \o m.path
      BY <1>13, <1>14 DEF LeafBelow
    <3>2. leaf.path = <<Key("reliability")>> \o l.path
      BY <1>11 DEF LeafBelow
    <3> QED
      BY <2>1, <3>1, <3>2
  <2>3. leaf.path = TimeoutPath
    BY <2>2, Paths DEF TimeoutPath
  <2> QED
    BY <1>2, <1>14, <2>3
<1>15. CASE k = "retry"
  <2>1. said[k] = retry /\ Bounded(retry)
    BY <1>2, <1>8, <1>15
  <2>2. PICK n \in Writes(count["max_attempts"]) : m = LeafBelow(Key("max_attempts"), n)
    BY <1>4, <1>5, <1>6, <2>1, WrittenBelow
  <2>3. n.path = <<>>
    BY <1>4, SinglePath
  <2>4. leaf.path = <<Key("reliability")>> \o (<<Key("retry")>> \o (<<Key("max_attempts")>> \o <<>>))
    <3>1. m.path = <<Key("max_attempts")>> \o n.path
      BY <2>2 DEF LeafBelow
    <3>2. l.path = <<Key("retry")>> \o m.path
      BY <1>13, <1>15 DEF LeafBelow
    <3>3. leaf.path = <<Key("reliability")>> \o l.path
      BY <1>11 DEF LeafBelow
    <3> QED
      BY <2>3, <3>1, <3>2, <3>3
  <2>5. leaf.path = AttemptsPath
    BY <2>4, ThreeSteps DEF AttemptsPath
  <2> QED
    BY <1>2, <1>15, <2>5
<1> QED
  BY <1>2, <1>14, <1>15

IdentityDocument(text) == Object([identity |-> Object([profile |-> text])])

LEMMA ProfileMerges ==
    ASSUME NEW loaded, HasIdentity(loaded), Bounded(loaded), NEW text, Entries(text) = {}, text # EmptyObject
    PROVE  LET new == [loaded EXCEPT !.object.identity.object.profile = text]
           IN  /\ Merged(IdentityDocument(text), loaded, new, {}, TRUE)
               /\ \A leaf \in Writes(IdentityDocument(text)) : leaf.path = ProfilePath
<1> DEFINE profiles == [profile |-> text]
           identity == Object(profiles)
           sections == [identity |-> identity]
           raw == Object(sections)
           before == loaded.object["identity"]
           after == [before EXCEPT !.object["profile"] = text]
           new == [loaded EXCEPT !.object["identity"].object["profile"] = text]
           within == [k \in {"identity", "profile"} |-> {}]
<1>1. /\ DOMAIN profiles = {"profile"} /\ profiles["profile"] = text
      /\ DOMAIN sections = {"identity"} /\ sections["identity"] = identity
  OBVIOUS
<1>2. raw = IdentityDocument(text)
  BY DEF IdentityDocument
<1>3. /\ loaded = Object(loaded.object) /\ "identity" \in DOMAIN loaded.object
      /\ before = Object(before.object) /\ "profile" \in DOMAIN before.object
      /\ Entries(before.object["profile"]) = {}
  BY DEF HasIdentity
<1>4. \A x : x = Object(x.object) => IsRecord(x) /\ DOMAIN x = {"object"}
  BY DEF IsRecord, Object
<1>5. DOMAIN loaded = {"object"} /\ DOMAIN before = {"object"}
  BY <1>3, <1>4
<1>6. /\ IsRecord(new) /\ DOMAIN new.object = DOMAIN loaded.object
      /\ new.object["identity"] = after
      /\ \A s \in DOMAIN loaded.object : s # "identity" => new.object[s] = loaded.object[s]
  BY <1>3, <1>5 DEF IsRecord
<1>7. /\ IsRecord(after) /\ DOMAIN after.object = DOMAIN before.object
      /\ after.object["profile"] = text
      /\ \A k \in DOMAIN before.object : k # "profile" => after.object[k] = before.object[k]
  BY <1>3, <1>5 DEF IsRecord
<1> HIDE DEF profiles, sections
<1>8. /\ IsRecord(identity) /\ identity.object = profiles /\ FullRecord(identity)
      /\ IsRecord(raw) /\ raw.object = sections /\ FullRecord(raw)
  BY <1>1, Constructed
<1>9. Bounded(raw) /\ Bounded(identity)
  <2>1. Parts(raw) = {identity} /\ Parts(identity) = {text}
    BY <1>1, PartsOfObject
  <2>2. Parts(text) = {}
    BY DEF Parts
  <2>3. \A p \in Parts(raw) : \A q \in Parts(p) : \A x \in Parts(q) : Parts(x) = {}
    BY <2>1, <2>2
  <2>4. Bounded(raw)
    BY <2>3, FourLevels
  <2> QED
    BY <2>1, <2>4, BoundedParts
<1>10. FullRecord(loaded) /\ FullRecord(before) /\ Bounded(before)
  <2>1. IsRecord(loaded) /\ IsRecord(before)
    BY <1>3, <1>4
  <2> QED
    BY <1>3, <2>1, PartAt, BoundedParts DEF FullRecord
<1> HIDE DEF raw, identity, before, after, new
<1>11. Merged(text, before.object["profile"], text, {}, TRUE)
  BY <1>3, SingleReplaced
<1>12. \A k \in {"identity", "profile"} : within[k] = {} /\ AreWindows(within[k], k, {})
  BY DEF AreWindows
<1> HIDE DEF within
<1>13. FieldsAre(identity, before, after, {}, within, TRUE)
  <2>1. OldField(before, "profile") = before.object["profile"]
    BY <1>3 DEF OldField
  <2> QED
    BY <1>1, <1>3, <1>7, <1>8, <1>9, <1>10, <1>11, <1>12, <2>1 DEF FieldsAre
<1>14. Merged(identity, before, after, {}, TRUE)
  BY <1>13, MergedFields
<1>15. FieldsAre(raw, loaded, new, {}, within, TRUE)
  <2>1. OldField(loaded, "identity") = before
    BY <1>3 DEF OldField, before
  <2> QED
    BY <1>1, <1>3, <1>6, <1>8, <1>9, <1>10, <1>12, <1>14, <2>1 DEF FieldsAre
<1>16. Merged(raw, loaded, new, {}, TRUE)
  BY <1>15, MergedFields
<1>17. ASSUME NEW leaf \in Writes(raw) PROVE leaf.path = ProfilePath
  <2>1. PICK l \in Writes(identity) : leaf = LeafBelow(Key("identity"), l)
    BY <1>1, <1>8, <1>9, WrittenBelow
  <2>2. PICK m \in Writes(text) : l = LeafBelow(Key("profile"), m)
    BY <1>1, <1>8, <1>9, WrittenBelow
  <2>3. m.path = <<>>
    BY SinglePath
  <2>4. l.path = <<Key("profile")>> \o m.path
    BY <2>2 DEF LeafBelow
  <2>5. leaf.path = <<Key("identity")>> \o l.path
    BY <2>1 DEF LeafBelow
  <2>6. leaf.path = <<Key("identity")>> \o (<<Key("profile")>> \o <<>>)
    BY <2>3, <2>4, <2>5
  <2> QED
    BY <2>6, Paths DEF ProfilePath
<1> QED
  BY <1>2, <1>16, <1>17 DEF new

-----------------------------------------------------------------------------
\* What a file says, and the configuration before the command line is applied.
DocumentOf(f) == IF HasDocument(f) /\ IsRecord(f.document) THEN f.document ELSE EmptyObject
KnownIn(f) == IF HasDocument(f) /\ f.document # Null THEN Known(f.document) ELSE EmptyObject
FromFile(f) == IF HasDocument(f) THEN ApplyDocument(DefaultConfig, f.document) ELSE DefaultConfig

LEMMA FileMerges ==
    ASSUME NEW f, HasDocument(f) => IsJson(f.document), NEW required, AcceptsFile(f, required)
    PROVE  /\ Merged(KnownIn(f), DefaultConfig, FromFile(f), {Window}, FALSE)
           /\ Bounded(FromFile(f)) /\ HasIdentity(FromFile(f))
           /\ Writes(KnownIn(f)) = WrittenOf(DocumentOf(f))
<1>1. CASE ~HasDocument(f) \/ f.document = Null
  <2>1. ~IsRecord(Null)
    BY DEF Null, IsRecord
  <2>2. DocumentOf(f) = EmptyObject /\ KnownIn(f) = EmptyObject /\ FromFile(f) = DefaultConfig
    BY <1>1, <2>1 DEF DocumentOf, KnownIn, FromFile, ApplyDocument
  <2>3. Writes(EmptyObject) = {} /\ WrittenOf(EmptyObject) = {}
    BY NothingWritten DEF WrittenOf
  <2>4. Bounded(DefaultConfig) /\ HasIdentity(DefaultConfig)
    BY DefaultBounded, DefaultIdentity
  <2>5. Merged(EmptyObject, DefaultConfig, DefaultConfig, {Window}, FALSE)
    <3>1. \A leaf \in Writes(DefaultConfig) : At(Leaves(DefaultConfig), leaf.path) = {leaf.value}
      BY <2>4, LeafUnique DEF Writes
    <3> QED
      BY <2>3, <3>1 DEF Merged
  <2> QED
    BY <2>2, <2>3, <2>4, <2>5
<1>2. CASE HasDocument(f) /\ f.document # Null
  <2> DEFINE document == f.document
             mid == ApplyDocument(DefaultConfig, document)
  <2>1. IsJson(document) /\ AcceptsDocument(document) /\ document # Null
    BY <1>2 DEF AcceptsFile
  <2>2. IsRecord(document)
    BY <2>1 DEF AcceptsDocument
  <2>3. DocumentOf(f) = document /\ KnownIn(f) = Known(document) /\ FromFile(f) = mid
    BY <1>2, <2>2 DEF DocumentOf, KnownIn, FromFile
  <2>4. Writes(Known(document)) = WrittenOf(document)
    BY <2>1, <2>2, KnownLeaves
  <2>5. Merged(Known(document), DefaultConfig, mid, {Window}, FALSE) /\ Bounded(mid)
    BY <2>1, DocumentMerges
  <2>6. HasIdentity(mid)
    BY <2>1, DocumentIdentity
  <2> QED
    BY <2>3, <2>4, <2>5, <2>6
<1> QED
  BY <1>1, <1>2

LEMMA LoadMerges ==
    ASSUME NEW f, HasDocument(f) => IsJson(f.document), NEW required, AcceptsFile(f, required), NEW flags
    PROVE  LET new == LoadConfig(f, flags)
           IN  Merged(FlagDocument(flags), FromFile(f), new, {}, TRUE) /\ Bounded(new) /\ HasIdentity(new)
<1> DEFINE mid == FromFile(f)
           new == LoadConfig(f, flags)
           fields == WrittenIn(f)
           before == InForce(DefaultConfig)
           after == InForce(mid)
<1>1. HasSettings(DefaultConfig) /\ before = DefaultReliability
  BY DefaultSettings
<1>2. HasSettings(mid) /\ Settles(after, fields, before)
  BY <1>1, FileSays DEF FromFile
<1>3. fields = <<>> \/ \E v : IsReliability(v) /\ fields = v.object
  BY FileSays
<1>4. /\ "timeout_ms" \in DOMAIN fields => Entries(fields["timeout_ms"]) = {}
      /\ "retry" \in DOMAIN fields => \A k \in DOMAIN fields["retry"].object : Entries(fields["retry"].object[k]) = {}
  <2> HIDE DEF fields
  <2>1. CASE fields = <<>>
    BY <2>1
  <2>2. ASSUME NEW v, IsReliability(v), fields = v.object
        PROVE  /\ "timeout_ms" \in DOMAIN fields => Entries(fields["timeout_ms"]) = {}
               /\ "retry" \in DOMAIN fields =>
                    \A k \in DOMAIN fields["retry"].object : Entries(fields["retry"].object[k]) = {}
    BY <2>2 DEF IsReliability, IsRetry, Settled
  <2> QED
    BY <1>3, <2>1, <2>2
<1> HIDE DEF mid, fields, before, after
<1>5. Entries(after["timeout_ms"]) = {}
  BY <1>1, <1>2, <1>4, DefaultFields DEF Settles, Settled
<1>6. LET retry == after["retry"].object
      IN  "max_attempts" \in DOMAIN retry /\ Entries(retry["max_attempts"]) = {}
  <2>1. \A x : Object(x).object = x
    BY DEF Object
  <2>2. before["retry"].object = DefaultRetry
    BY <1>1, <2>1, DefaultFields
  <2>3. after["retry"].object = IF "retry" \in DOMAIN fields THEN Over(fields["retry"].object, DefaultRetry)
                                ELSE DefaultRetry
    BY <1>2, <2>1, <2>2 DEF Settles
  <2>4. "max_attempts" \in DOMAIN DefaultRetry /\ Entries(DefaultRetry["max_attempts"]) = {}
    BY DefaultFields
  <2>5. CASE "retry" \in DOMAIN fields
    <3> DEFINE said == fields["retry"].object
    <3>1. after["retry"].object = Over(said, DefaultRetry)
      BY <2>3, <2>5
    <3>2. \A k \in DOMAIN said : Entries(said[k]) = {}
      BY <1>4, <2>5
    <3> HIDE DEF said
    <3> QED
      BY <2>4, <3>1, <3>2 DEF Over
  <2>6. CASE "retry" \notin DOMAIN fields
    BY <2>3, <2>4, <2>6
  <2> QED
    BY <2>5, <2>6
<1>7. Bounded(mid) /\ HasIdentity(mid)
  BY FileMerges DEF mid
<1>8. new = ApplyFlags(mid, flags)
  BY Zenon DEF LoadConfig, FromFile, mid
<1>9. /\ Merged(FlagDocument(flags), mid, new, {}, TRUE) /\ Bounded(new) /\ IsRecord(new)
      /\ \A s \in DOMAIN mid.object :
            s \in DOMAIN new.object /\ (s # "reliability" => new.object[s] = mid.object[s])
  <2>1. /\ Entries(InForce(mid)["timeout_ms"]) = {}
        /\ "max_attempts" \in DOMAIN InForce(mid)["retry"].object
        /\ Entries(InForce(mid)["retry"].object["max_attempts"]) = {}
    BY <1>5, <1>6 DEF after
  <2> DEFINE last == ApplyFlags(mid, flags)
  <2>2. /\ Merged(FlagDocument(flags), mid, last, {}, TRUE) /\ Bounded(last) /\ IsRecord(last)
        /\ \A s \in DOMAIN mid.object :
              s \in DOMAIN last.object /\ (s # "reliability" => last.object[s] = mid.object[s])
    BY <1>2, <1>7, <2>1, FlagsMerge
  <2>3. new = last
    BY <1>8
  <2> HIDE DEF new, last
  <2> QED
    BY <2>2, <2>3
<1> HIDE DEF new
<1>10. HasIdentity(new)
  <2>1. new = Object(new.object)
    BY LoadedSettings DEF HasSettings, new
  <2> QED
    BY <1>7, <1>9, <2>1 DEF HasIdentity
<1> QED
  BY <1>9, <1>10 DEF new, mid

\* What stands by itself stays, but for the paths that are set over it.
Keeps(before, after, over) ==
    \A path, x : x # EmptyObject /\ At(Leaves(before), path) = {x} /\ path \notin over
                   => At(Leaves(after), path) = {x}

LEMMA MergedKeeps ==
    ASSUME NEW v, NEW before, NEW after, Merged(v, before, after, {}, TRUE), NEW over,
           \A w \in Writes(v) : w.path \in over
    PROVE  Keeps(before, after, over)
<1> SUFFICES ASSUME NEW path, NEW x, x # EmptyObject, At(Leaves(before), path) = {x}, path \notin over
             PROVE  At(Leaves(after), path) = {x}
  BY DEF Keeps
<1>1. PICK leaf \in Leaves(before) : leaf.path = path /\ leaf.value = x
  BY DEF At
<1>2. leaf \in Writes(before)
  BY <1>1 DEF Writes
<1>3. Place(TRUE, leaf.path) = path /\ \A w \in Writes(v) : Place(TRUE, w.path) = w.path
  BY <1>1 DEF Place
<1>4. Place(TRUE, leaf.path) \notin PlacesIn(TRUE, v)
  BY <1>3 DEF PlacesIn
<1> QED
  BY <1>1, <1>2, <1>4 DEF Merged

FlagsOver(flags) ==
    {p \in {TimeoutPath} : "timeout_ms" \in DOMAIN flags} \cup {p \in {AttemptsPath} : "max_attempts" \in DOMAIN flags}

LEMMA PlaceBehind ==
    ASSUME NEW k, NEW p, IsPath(p)
    PROVE  PlaceOf(<<Key(k)>> \o p) = <<Key(k)>> \o PlaceOf(p)
BY Placed, Zenon

LEMMA PlainPlaces == \A p \in {TimeoutPath, AttemptsPath, ProfilePath} : PlaceOf(p) = p
<1>1. \A a : IsPath(<<>>) /\ IsPath(<<a>>) /\ <<a>> \o <<>> = <<a>>
  BY Paths
<1>2. ASSUME NEW k PROVE PlaceOf(<<Key(k)>>) = <<Key(k)>>
  <2>1. PlaceOf(<<Key(k)>> \o <<>>) = <<Key(k)>> \o <<>>
    <3>1. PlaceOf(<<>>) = <<>>
      BY Placed, Zenon
    <3> QED
      BY <1>1, <3>1, PlaceBehind
  <2> QED
    BY <1>1, <2>1
<1>3. ASSUME NEW j, NEW k PROVE PlaceOf(<<Key(j), Key(k)>>) = <<Key(j), Key(k)>>
  <2>1. PlaceOf(<<Key(j)>> \o <<Key(k)>>) = <<Key(j)>> \o <<Key(k)>>
    BY <1>1, <1>2, PlaceBehind
  <2> QED
    BY <2>1, Paths
<1>4. ASSUME NEW i, NEW j, NEW k PROVE PlaceOf(<<Key(i), Key(j), Key(k)>>) = <<Key(i), Key(j), Key(k)>>
  <2> DEFINE p == <<Key(j)>> \o (<<Key(k)>> \o <<>>)
  <2>1. IsPath(p) /\ <<Key(i)>> \o p = <<Key(i), Key(j), Key(k)>>
    BY ThreeSteps
  <2>2. p = <<Key(j), Key(k)>>
    BY Paths
  <2>3. PlaceOf(p) = p
    BY <1>3, <2>2
  <2>4. PlaceOf(<<Key(i)>> \o p) = <<Key(i)>> \o p
    BY <2>1, <2>3, PlaceBehind
  <2> HIDE DEF p
  <2> QED
    BY <2>1, <2>4
<1> QED
  BY <1>3, <1>4 DEF TimeoutPath, AttemptsPath, ProfilePath

NotDropped(f, settings, overridden) ==
    LET written == WrittenOf(DocumentOf(f))
        places == {PlaceOf(leaf.path) : leaf \in written} \cup overridden
    IN  /\ \A leaf \in written :
              leaf.path \notin overridden => At(Leaves(settings), leaf.path) = {StoredAs(leaf, {Window})}
        /\ \A leaf \in DefaultLeaves :
              PlaceOf(leaf.path) \notin places /\ leaf.value # EmptyObject =>
                  At(Leaves(settings), leaf.path) = {leaf.value}

\* A file over the defaults, and the command line over both.
LEMMA Overlaid ==
    ASSUME NEW f, NEW known, NEW mid, NEW new, NEW overridden, NEW over, over \subseteq overridden,
           \A p \in over : PlaceOf(p) = p,
           Writes(known) = WrittenOf(DocumentOf(f)),
           Merged(known, DefaultConfig, mid, {Window}, FALSE), Keeps(mid, new, over)
    PROVE  NotDropped(f, new, overridden)
<1> DEFINE written == WrittenOf(DocumentOf(f))
           places == {PlaceOf(leaf.path) : leaf \in written} \cup overridden
<1>1. ASSUME NEW leaf \in written, leaf.path \notin overridden
      PROVE  At(Leaves(new), leaf.path) = {StoredAs(leaf, {Window})}
  <2> DEFINE x == StoredAs(leaf, {Window})
  <2>1. At(Leaves(mid), leaf.path) = {x}
    BY DEF Merged
  <2>2. x # EmptyObject
    <3>1. \A n : Number(n) # EmptyObject
      BY DEF Number, EmptyObject, Object
    <3>2. leaf.value # EmptyObject
      BY DEF WrittenOf
    <3> QED
      BY <3>1, <3>2 DEF StoredAs
  <2> HIDE DEF x
  <2>3. At(Leaves(new), leaf.path) = {x}
    BY <1>1, <2>1, <2>2 DEF Keeps
  <2> QED
    BY <2>3 DEF x
<1>2. ASSUME NEW leaf \in DefaultLeaves, PlaceOf(leaf.path) \notin places, leaf.value # EmptyObject
      PROVE  At(Leaves(new), leaf.path) = {leaf.value}
  <2>1. leaf \in Writes(DefaultConfig)
    BY <1>2 DEF Writes, DefaultLeaves
  <2>2. Place(FALSE, leaf.path) \notin PlacesIn(FALSE, known)
    BY <1>2 DEF Place, PlacesIn
  <2>3. At(Leaves(mid), leaf.path) = {leaf.value}
    BY <2>1, <2>2 DEF Merged
  <2>4. leaf.path \notin over
    BY <1>2
  <2> QED
    BY <1>2, <2>3, <2>4 DEF Keeps
<1> QED
  BY <1>1, <1>2 DEF NotDropped

LEMMA LoadedKeeps ==
    ASSUME NEW f, HasDocument(f) => IsJson(f.document), NEW required, AcceptsFile(f, required), NEW flags,
           NEW overridden, FlagsOver(flags) \subseteq overridden,
           command = <<"run">> /\ Given("--identity") => ProfilePath \in overridden
    PROVE  NotDropped(f, WithIdentity(LoadConfig(f, flags)), overridden)
<1> DEFINE mid == FromFile(f)
           loaded == LoadConfig(f, flags)
           text == Text(Value("--identity"))
           named == command = <<"run">> /\ Given("--identity")
           set == [loaded EXCEPT !.object.identity.object.profile = text]
           new == WithIdentity(loaded)
           over == FlagsOver(flags) \cup {p \in {ProfilePath} : named}
<1>1. /\ Merged(KnownIn(f), DefaultConfig, mid, {Window}, FALSE)
      /\ Writes(KnownIn(f)) = WrittenOf(DocumentOf(f))
  BY FileMerges
<1>2. Merged(FlagDocument(flags), mid, loaded, {}, TRUE) /\ Bounded(loaded) /\ HasIdentity(loaded)
  BY LoadMerges
<1>3. new = IF named THEN set ELSE loaded
  BY DEF WithIdentity
<1> HIDE DEF mid, loaded, new
<1>4. \A w \in Writes(FlagDocument(flags)) : w.path \in FlagsOver(flags)
  BY FlagPaths DEF FlagsOver
<1>5. Keeps(mid, loaded, FlagsOver(flags))
  BY <1>2, <1>4, MergedKeeps
<1>6. /\ Merged(IdentityDocument(text), loaded, set, {}, TRUE)
      /\ \A leaf \in Writes(IdentityDocument(text)) : leaf.path = ProfilePath
  <2>1. Entries(text) = {} /\ text # EmptyObject
    <3>1. text # EmptyObject
      BY DEF Text, EmptyObject, Object
    <3> QED
      BY <3>1, Constructed
  <2> HIDE DEF text
  <2> QED
    BY <1>2, <2>1, ProfileMerges
<1>7. Keeps(loaded, set, {ProfilePath})
  BY <1>6, MergedKeeps
<1> HIDE DEF set
<1>8. Keeps(mid, new, over)
  <2>1. CASE named
    BY <1>3, <1>5, <1>7, <2>1 DEF Keeps
  <2>2. CASE ~named
    BY <1>3, <1>5, <2>2 DEF Keeps
  <2> QED
    BY <2>1, <2>2
<1>9. over \subseteq overridden
  OBVIOUS
<1>10. \A p \in over : PlaceOf(p) = p
  BY PlainPlaces DEF FlagsOver
<1> HIDE DEF over
<1> QED
  BY <1>1, <1>8, <1>9, <1>10, Overlaid DEF new, loaded
-----------------------------------------------------------------------------
\* A command that takes none of the numbers has read none.
OthersInv ==
    pc \in {"parse", "load"} /\ command \notin Followed =>
        command \in DOMAIN Flags /\ \A flag \in NumberFlags : ~Given(flag)

LEMMA NumbersOfOthers ==
    ASSUME NEW cmd \in DOMAIN Flags, cmd \notin Followed
    PROVE  \A flag \in NumberFlags : flag \notin DOMAIN Flags[cmd] /\ flag # "id"
<1>1. \A flag \in NumberFlags : flag = "--timeout-ms" \/ flag = "--max-attempts"
  BY DEF NumberFlags
<1>2. \A flag \in NumberFlags :
         /\ flag \notin DOMAIN ReportFlags /\ flag \notin DOMAIN PolicyFlags /\ flag \notin {"--config"}
         /\ flag \notin DOMAIN ListFlags /\ flag # "id"
  BY <1>1 DEF ReportFlags, PolicyFlags, ListFlags, FilterFlags, Over
<1>3. Flags[cmd] \in {ReportFlags, PolicyFlags, ListFlags, [flag \in {"--config"} |-> "text"]}
  BY DEF Flags, Followed
<1>4. DOMAIN [flag \in {"--config"} |-> "text"] = {"--config"}
  OBVIOUS
<1> QED
  BY <1>2, <1>3, <1>4

LEMMA OthersStep == OthersInv /\ LineInv /\ [Next]_vars => OthersInv'
<1> SUFFICES ASSUME OthersInv, LineInv, [Next]_vars PROVE OthersInv'
  OBVIOUS
<1>1. ASSUME pc' \notin {"parse", "load"} PROVE OthersInv'
  BY <1>1 DEF OthersInv
<1>2. ASSUME NEW l \in Lines, Type(l) PROVE OthersInv'
  <2> DEFINE named == Dispatch(TokensOf(l))
  <2>1. pc = "prompt" /\ options = <<>>
    BY <1>2 DEF LineInv, Type
  <2>2. \/ pc' = "prompt"
        \/ command' = named.command /\ named.command \notin {<<"print">>, <<"unknown">>} /\ options' = options
    BY <1>2, Zenon DEF Type, Exit, Goto
  <2>3. named.command \in DOMAIN Flags \cup {<<"print">>, <<"unknown">>}
    <3> DEFINE argv == TokensOf(l)
               two == SubSeq(argv, 1, 2)
               behind == SubSeq(argv, 3, Len(argv))
               plain == argv = <<>> \/ argv = <<"version">>
               first == argv[1]
    <3>1. Dispatch(argv) =
            IF plain \/ first \in {"help", "--help", "-h", "--version", "-v"}
            THEN [command |-> <<"print">>, rest |-> <<>>]
            ELSE IF first \in {"validate", "report", "run"}
            THEN [command |-> <<first>>, rest |-> Tail(argv)]
            ELSE IF first = "--" \/ first \in DOMAIN RunFlags
            THEN [command |-> <<"run">>, rest |-> argv]
            ELSE IF first \in {"replay", "policy"} /\ Len(argv) > 1 /\ two \in DOMAIN Flags
            THEN [command |-> two, rest |-> behind]
            ELSE [command |-> <<"unknown">>, rest |-> <<>>]
      BY DEF Dispatch
    <3>2. {<<"validate">>, <<"report">>, <<"run">>} \subseteq DOMAIN Flags
      BY DEF Flags
    <3> HIDE DEF two, behind, plain, first
    <3> QED
      BY <3>1, <3>2
  <2>4. options' = <<>> => \A flag : ~Given(flag)'
    BY DEF Given
  <2> QED
    BY <1>1, <2>1, <2>2, <2>3, <2>4 DEF OthersInv
<1>3. CASE ReadSwitch \/ ReadOption \/ ReadId
  <2>1. pc = "parse" /\ UNCHANGED command
    BY <1>3 DEF ReadSwitch, ReadOption, ReadId, Read
  <2>2. SUFFICES ASSUME command \notin Followed
                 PROVE  command' \in DOMAIN Flags /\ \A flag \in NumberFlags : ~Given(flag)'
    BY <2>1 DEF OthersInv
  <2>3. command \in DOMAIN Flags /\ \A flag \in NumberFlags : ~Given(flag)
    BY <2>1, <2>2 DEF OthersInv
  <2>4. \/ options' = options
        \/ \E flag \in DOMAIN Flags[command] \cup {"id"} : \E values : options' = Put(flag, values)
    BY <1>3 DEF ReadSwitch, ReadOption, ReadId, Read, IsFlag
  <2>5. ASSUME NEW flag \in DOMAIN Flags[command] \cup {"id"}, NEW values, options' = Put(flag, values)
        PROVE  \A f \in NumberFlags : ~Given(f)'
    <3>1. \A f \in NumberFlags : f # flag
      BY <2>2, <2>3, NumbersOfOthers
    <3> QED
      BY <2>3, <2>5, <3>1, NotRead
  <2>6. ASSUME options' = options PROVE \A f \in NumberFlags : ~Given(f)'
    BY <2>3, <2>6 DEF Given
  <2> QED
    BY <2>1, <2>3, <2>4, <2>5, <2>6
<1>4. CASE Reject \/ EndSession \/ Query \/ EndReplay
  BY <1>1, <1>4, Zenon DEF Reject, EndSession, Query, EndReplay, Exit, Goto
<1>5. CASE EndOptions
  <2>1. \/ pc' = "prompt"
        \/ pc = "parse" /\ UNCHANGED <<command, options>>
    BY <1>5, Zenon DEF EndOptions, Exit, Goto, parseVars
  <2> QED
    BY <1>1, <2>1 DEF OthersInv, Given
<1>6. CASE LoadSettings
  <2>1. pc' \in {"prompt", "open"}
    BY <1>6 DEF LoadSettings, Exit, Goto
  <2> QED
    BY <1>1, <2>1
<1>7. CASE OpenStores \/ StartServer \/ Select
  <2>1. pc' \in {"prompt", "start", "act", "session", "replay"}
    BY <1>7 DEF OpenStores, StartServer, Select, Exit, Goto
  <2> QED
    BY <1>1, <2>1
<1>8. CASE (\E call \in Calls : CallTool(call)) \/ ReplayRecord
  <2>1. pc' \in {"session", "replay"}
    BY <1>8 DEF CallTool, ReplayRecord, NotExecuted, DryRun, Redrive, Take
  <2> QED
    BY <1>1, <2>1
<1>9. CASE UNCHANGED vars
  BY <1>9 DEF vars, parseVars, OthersInv, Given
<1> QED
  BY <1>2, <1>3, <1>4, <1>5, <1>6, <1>7, <1>8, <1>9 DEF Next

\* What is set over the file is what was typed.
LEMMA OverTyped ==
    ASSUME LineInv, OthersInv, pc = "load"
    PROVE  /\ FlagsOver(FlagNumbers) \subseteq Overridden
           /\ command = <<"run">> /\ Given("--identity") => ProfilePath \in Overridden
<1>1. /\ "timeout_ms" \in DOMAIN FlagNumbers <=> Given("--timeout-ms")
      /\ "max_attempts" \in DOMAIN FlagNumbers <=> Given("--max-attempts")
  BY DEF FlagNumbers
<1>2. /\ InFlag("--timeout-ms") # {} => TimeoutPath \in Overridden
      /\ InFlag("--max-attempts") # {} => AttemptsPath \in Overridden
      /\ GroupsOf("--identity") # {} => ProfilePath \in Overridden
  BY DEF Overridden, TimeoutPath, AttemptsPath, ProfilePath
<1>3. /\ "timeout_ms" \in DOMAIN FlagNumbers => InFlag("--timeout-ms") # {}
      /\ "max_attempts" \in DOMAIN FlagNumbers => InFlag("--max-attempts") # {}
  <2>1. CASE command \in Followed
    BY <2>1, FlagsTyped DEF NumberOf
  <2>2. CASE command \notin Followed
    BY <1>1, <2>2 DEF OthersInv, NumberFlags
  <2> QED
    BY <2>1, <2>2
<1>4. ASSUME command = <<"run">>, Given("--identity") PROVE GroupsOf("--identity") # {}
  <2> DEFINE k == Len(line.groups)
  <2>1. ReadTo(k)
    BY <1>4 DEF LineInv, Followed
  <2>2. line \in Lines /\ FlagRead("--identity", k)
    BY <1>4, <2>1 DEF ReadTo, OptionsRead
  <2>3. DOMAIN line.groups = 1..k
    BY <2>2, LineTypes
  <2> QED
    BY <1>4, <2>2, <2>3 DEF FlagRead, GroupsOf
<1>5. FlagsOver(FlagNumbers) \subseteq Overridden
  BY <1>2, <1>3 DEF FlagsOver
<1> QED
  BY <1>2, <1>4, <1>5

LEMMA DroppedStep == LineInv /\ OthersInv /\ NoSettingIsDropped /\ [Next]_vars => NoSettingIsDropped'
<1> SUFFICES ASSUME LineInv, OthersInv, NoSettingIsDropped, [Next]_vars PROVE NoSettingIsDropped'
  OBVIOUS
<1>1. NoSettingIsDropped <=> (pc = "open" => NotDropped(file, config, Overridden))
  BY DEF NoSettingIsDropped, NotDropped, WrittenOf, DocumentOf, StoredAs, Window
<1>2. NoSettingIsDropped' <=> (pc' = "open" => NotDropped(file', config', Overridden'))
  BY DEF NoSettingIsDropped, NotDropped, WrittenOf, DocumentOf, StoredAs, Window
<1>3. ASSUME pc' # "open" PROVE NoSettingIsDropped'
  BY <1>2, <1>3
<1>4. line' = line => Overridden' = Overridden
  BY DEF Overridden, InFlag, GroupsOf, LastMeant
<1>5. CASE LoadSettings
  <2>1. PICK f \in Files :
          \/ pc' = "prompt"
          \/ /\ AcceptsFile(f, Given("--config"))
             /\ file' = f /\ config' = WithIdentity(LoadConfig(f, FlagNumbers))
             /\ pc' = "open" /\ UNCHANGED line
    BY <1>5 DEF LoadSettings, Exit, Goto, parseVars
  <2>2. pc = "load"
    BY <1>5 DEF LoadSettings
  <2>3. CASE pc' = "prompt"
    BY <1>3, <2>3
  <2>4. CASE /\ AcceptsFile(f, Given("--config"))
             /\ file' = f /\ config' = WithIdentity(LoadConfig(f, FlagNumbers))
             /\ pc' = "open" /\ UNCHANGED line
    <3>1. HasDocument(f) => IsJson(f.document)
      BY CommandsAssumption
    <3>2. /\ FlagsOver(FlagNumbers) \subseteq Overridden
          /\ command = <<"run">> /\ Given("--identity") => ProfilePath \in Overridden
      BY <2>2, OverTyped
    <3>3. NotDropped(f, WithIdentity(LoadConfig(f, FlagNumbers)), Overridden)
      BY <2>4, <3>1, <3>2, LoadedKeeps
    <3> QED
      BY <1>2, <1>4, <2>4, <3>3
  <2> QED
    BY <2>1, <2>3, <2>4
<1>6. CASE (\E l \in Lines : Type(l)) \/ ReadSwitch \/ ReadOption \/ ReadId \/ Reject \/ EndOptions
  <2>1. pc' \in {"prompt", "parse", "load"}
    BY <1>6 DEF Type, ReadSwitch, ReadOption, ReadId, Read, Reject, EndOptions, Exit, Goto, LineInv
  <2> QED
    BY <1>3, <2>1
<1>7. CASE OpenStores \/ StartServer \/ EndSession \/ Query \/ Select \/ EndReplay
  <2>1. pc' \in {"prompt", "start", "act", "session", "replay"}
    BY <1>7 DEF OpenStores, StartServer, EndSession, Query, Select, EndReplay, Exit, Goto
  <2> QED
    BY <1>3, <2>1
<1>8. CASE (\E call \in Calls : CallTool(call)) \/ ReplayRecord
  <2>1. pc' \in {"session", "replay"}
    BY <1>8 DEF CallTool, ReplayRecord, NotExecuted, DryRun, Redrive, Take
  <2> QED
    BY <1>3, <2>1
<1>9. CASE UNCHANGED vars
  <2>1. UNCHANGED <<pc, line, file, config>>
    BY <1>9 DEF vars, parseVars
  <2> QED
    BY <1>1, <1>2, <1>4, <2>1
<1> QED
  BY <1>5, <1>6, <1>7, <1>8, <1>9 DEF Next

\* loadConfig, the parsers of its sections, applyReliability and runProxy: whatever
\* file is accepted and whatever is typed, a configuration in force has every value
\* the file writes in a section the program knows, at its path and however deep, and
\* every default the file does not write over, but for what the command line sets.
THEOREM NothingIsDropped == Spec => []NoSettingIsDropped
<1>1. Init => LineInv /\ OthersInv /\ NoSettingIsDropped
  BY DEF Init, LineInv, OthersInv, NoSettingIsDropped
<1>2. LineInv /\ OthersInv /\ NoSettingIsDropped /\ [Next]_vars
        => (LineInv /\ OthersInv /\ NoSettingIsDropped)'
  BY LineStep, OthersStep, DroppedStep
<1> QED
  BY <1>1, <1>2, PTL DEF Spec
=============================================================================

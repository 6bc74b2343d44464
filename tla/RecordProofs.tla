---------------------------- MODULE RecordProofs ----------------------------
(***************************************************************************)
(* What a record keeps.  Its command line, stored and parsed again, is the  *)
(* one that was typed, whatever its words are; its arguments are those of   *)
(* the call but for what redaction hides, whatever the tree and the        *)
(* patterns are.                                                           *)
(***************************************************************************)
EXTENDS CommandLine, Redaction, SequenceTheorems, WellFoundedInduction, TLAPS

-----------------------------------------------------------------------------
\* Induction over the naturals, of a set.
LEMMA SetInduction ==
    ASSUME NEW T \in SUBSET Nat, 0 \in T, \A n \in T : n + 1 \in T
    PROVE  T = Nat
<1> SUFFICES ASSUME Nat \ T # {} PROVE FALSE
  OBVIOUS
<1>1. PICK x \in Nat \ T : \A y \in Nat \ T : ~(<<y, x>> \in OpToRel(<, Nat))
  <2>1. Nat \ T \subseteq Nat
    OBVIOUS
  <2> QED
    BY <2>1, NatLessThanWellFounded, WFMin
<1>2. \A y \in Nat \ T : ~(y < x)
  BY <1>1 DEF OpToRel
<1>3. x # 0 /\ x - 1 \in Nat
  OBVIOUS
<1>4. x - 1 \in T
  BY <1>2, <1>3
<1> QED
  BY <1>3, <1>4

\* The same up to a bound.
LEMMA BoundedInduction ==
    ASSUME NEW n \in Nat, NEW T, 0 \in T, \A i \in 0..(n - 1) : i \in T => i + 1 \in T
    PROVE  \A i \in 0..n : i \in T
<1> DEFINE U == {i \in Nat : i <= n => i \in T}
<1>1. 0 \in U /\ \A i \in U : i + 1 \in U
  OBVIOUS
<1>2. U = Nat
  BY <1>1, SetInduction
<1> QED
  BY <1>2

\* The recursions of n steps that start with `base` and go on by `step`.
Runs(S, base, n, step) ==
    {f \in [0..n -> S] : f[0] = base /\ \A i \in 1..n : f[i] = step[<<i, f[i - 1]>>]}

\* A recursion of n steps has a value.
LEMMA RecursionExists ==
    ASSUME NEW S, NEW base \in S, NEW n \in Nat, NEW step \in [(1..n) \X S -> S]
    PROVE  Runs(S, base, n, step) # {}
<1> DEFINE Reaches(m) == \E f \in [0..m -> S] :
                            f[0] = base /\ \A i \in 1..m : f[i] = step[<<i, f[i - 1]>>]
           T == {m \in 0..n : Reaches(m)}
<1>1. Reaches(0)
  <2> DEFINE f == [i \in 0..0 |-> base]
  <2>1. f \in [0..0 -> S] /\ f[0] = base /\ 1..0 = {}
    OBVIOUS
  <2> HIDE DEF f
  <2> QED
    BY <2>1
<1>2. ASSUME NEW m \in 0..(n - 1), Reaches(m) PROVE Reaches(m + 1)
  <2>1. PICK f \in [0..m -> S] : f[0] = base /\ \A i \in 1..m : f[i] = step[<<i, f[i - 1]>>]
    BY <1>2
  <2> DEFINE v == step[<<m + 1, f[m]>>]
             g == [i \in 0..(m + 1) |-> IF i = m + 1 THEN v ELSE f[i]]
  <2>2. v \in S
    OBVIOUS
  <2>3. g \in [0..(m + 1) -> S] /\ g[m + 1] = v /\ \A i \in 0..m : g[i] = f[i]
    BY <2>2
  <2> HIDE DEF g
  <2>4. ASSUME NEW i \in 1..(m + 1) PROVE g[i] = step[<<i, g[i - 1]>>]
    <3>1. CASE i \in 1..m
      BY <2>1, <2>3, <3>1
    <3>2. CASE i = m + 1
      BY <2>3, <3>2
    <3> QED
      BY <3>1, <3>2
  <2>5. g[0] = base
    BY <2>1, <2>3
  <2> QED
    BY <2>3, <2>4, <2>5
<1> HIDE DEF Reaches
<1>3. n \in T
  <2>1. 0 \in T /\ \A m \in 0..(n - 1) : m \in T => m + 1 \in T
    BY <1>1, <1>2
  <2> HIDE DEF T
  <2>2. \A m \in 0..n : m \in T
    BY <2>1, BoundedInduction
  <2> QED
    BY <2>2
<1>4. Reaches(n)
  BY <1>3
<1> QED
  BY <1>4 DEF Reaches, Runs

\* What every step of a recursion keeps.
LEMMA RunType ==
    ASSUME NEW S, NEW n \in Nat, NEW f, f[0] \in S, \A i \in 1..n : f[i - 1] \in S => f[i] \in S
    PROVE  \A i \in 0..n : f[i] \in S
<1> DEFINE T == {i \in 0..n : f[i] \in S}
<1>1. 0 \in T /\ \A i \in 0..(n - 1) : i \in T => i + 1 \in T
  OBVIOUS
<1>2. \A i \in 0..n : i \in T
  BY <1>1, BoundedInduction
<1> QED
  BY <1>2

\* The texts that begin with another.
Begins(S, s, t) == \E after \in Seq(S) : t = s \o after

LEMMA BeginsReflexive ==
    ASSUME NEW S, NEW s \in Seq(S)
    PROVE  Begins(S, s, s)
<1>1. <<>> \in Seq(S)
  OBVIOUS
<1>2. s \o <<>> = s
  BY ConcatEmptySeq, Zenon
<1> QED
  BY <1>1, <1>2, Zenon DEF Begins

LEMMA BeginsTransitive ==
    ASSUME NEW S, NEW s \in Seq(S), NEW t, NEW u, Begins(S, s, t), Begins(S, t, u)
    PROVE  Begins(S, s, u)
<1> PICK a \in Seq(S) : t = s \o a
  BY DEF Begins
<1> PICK b \in Seq(S) : u = t \o b
  BY DEF Begins
<1>1. (s \o a) \o b = s \o (a \o b)
  BY ConcatAssociative, SMT
<1>2. a \o b \in Seq(S)
  BY ConcatProperties, Zenon
<1> QED
  BY <1>1, <1>2, Zenon DEF Begins

\* What is written a piece at a time begins with each of its parts.
LEMMA PartsBegin ==
    ASSUME NEW S, NEW n \in Nat, NEW f, \A i \in 0..n : f[i] \in Seq(S),
           \A i \in 1..n : Begins(S, f[i - 1], f[i])
    PROVE  \A i \in 0..n : Begins(S, f[i], f[n])
<1> DEFINE T == {j \in 0..n : Begins(S, f[n - j], f[n])}
<1>1. 0 \in T
  BY BeginsReflexive
<1>2. ASSUME NEW j \in 0..(n - 1), j \in T PROVE j + 1 \in T
  <2>1. Begins(S, f[n - j - 1], f[n - j]) /\ n - j - 1 = n - (j + 1)
    BY n - j \in 1..n
  <2>2. Begins(S, f[n - j], f[n])
    BY <1>2
  <2>3. f[n - (j + 1)] \in Seq(S)
    OBVIOUS
  <2>4. Begins(S, f[n - (j + 1)], f[n])
    BY <2>1, <2>2, <2>3, BeginsTransitive
  <2> QED
    BY <2>4
<1>3. \A j \in 0..n : j \in T
  <2> HIDE DEF T
  <2> QED
    BY <1>1, <1>2, BoundedInduction
<1> QED
  <2> TAKE i \in 0..n
  <2>1. n - i \in 0..n /\ n - (n - i) = i
    OBVIOUS
  <2>2. n - i \in T
    BY <1>3, <2>1
  <2> QED
    BY <2>1, <2>2

-----------------------------------------------------------------------------
\* The loop of the parser over a text that goes on.

States == [tokens : Seq(Seq(Characters)), current : Seq(Characters),
           place : {"between", "word", "escape"}, quote : {NoQuote, SingleQuote, DoubleQuote}]

LEMMA StateType ==
    ASSUME NEW t \in Seq(Seq(Characters)), NEW w \in Seq(Characters),
           NEW p \in {"between", "word", "escape"}, NEW q \in {NoQuote, SingleQuote, DoubleQuote}
    PROVE  State(t, w, p, q) \in States
BY DEF State, States

LEMMA StartType == Start \in States
<1>1. <<>> \in Seq(Characters) /\ <<>> \in Seq(Seq(Characters))
  OBVIOUS
<1> QED
  BY <1>1, StateType DEF Start

LEMMA ConsumeType ==
    ASSUME NEW s \in States, NEW text \in Seq(Characters), NEW i \in 1..Len(text)
    PROVE  Consume(s, text, i) \in States
<1> DEFINE c == text[i]
<1>1. PICK t \in Seq(Seq(Characters)), w \in Seq(Characters), p \in {"between", "word", "escape"},
           q \in {NoQuote, SingleQuote, DoubleQuote} : s = State(t, w, p, q)
  BY DEF States, State
<1>2. c \in Characters /\ Append(w, c) \in Seq(Characters) /\ Append(t, w) \in Seq(Seq(Characters))
      /\ <<>> \in Seq(Characters)
  OBVIOUS
<1>3. s.tokens = t /\ s.current = w /\ s.place = p /\ s.quote = q
  BY <1>1 DEF State
<1> HIDE DEF c
<1>4. /\ State(t, Append(w, c), "word", q) \in States
      /\ State(t, w, "word", NoQuote) \in States /\ State(t, w, "escape", q) \in States
      /\ c \in {SingleQuote, DoubleQuote} => State(t, w, "word", c) \in States
      /\ State(Append(t, w), <<>>, "between", q) \in States
  BY <1>2, StateType
<1> QED
  BY <1>3, <1>4 DEF Consume, c

LEMMA ConsumedSteps ==
    ASSUME NEW text \in Seq(Characters)
    PROVE  /\ Consumed(text)[0] = Start
           /\ \A i \in 1..Len(text) : Consumed(text)[i] = Consume(Consumed(text)[i - 1], text, i)
<1> DEFINE n == Len(text)
           step == [x \in (1..n) \X States |-> Consume(x[2], text, x[1])]
           Is(f) == f = [i \in 0..n |-> IF i = 0 THEN Start ELSE Consume(f[i - 1], text, i)]
<1>1. n \in Nat
  OBVIOUS
<1>2. \A i \in 1..n, s \in States : Consume(s, text, i) \in States
  BY ConsumeType
<1> HIDE DEF n
<1>3. step \in [(1..n) \X States -> States]
  BY <1>2
<1>4. \A i \in 1..n, s \in States : step[<<i, s>>] = Consume(s, text, i)
  OBVIOUS
<1> HIDE DEF step
<1>5. Runs(States, Start, n, step) # {}
  BY <1>1, <1>3, StartType, RecursionExists
<1> PICK f \in [0..n -> States] : f[0] = Start /\ \A i \in 1..n : f[i] = step[<<i, f[i - 1]>>]
  BY <1>5 DEF Runs
<1>6. ASSUME NEW i \in 1..n PROVE f[i] = Consume(f[i - 1], text, i)
  <2>1. f[i - 1] \in States
    BY <1>1
  <2> QED
    BY <1>4, <2>1
<1>7. Is(f)
  BY <1>1, <1>6
<1>8. Consumed(text) = CHOOSE g : Is(g)
  BY DEF Consumed, n
<1> HIDE DEF Is
<1>9. Is(Consumed(text))
  BY <1>7, <1>8
<1> QED
  BY <1>1, <1>9 DEF Is, n

-----------------------------------------------------------------------------
\* The loops that write.

LEMMA EscapeType ==
    ASSUME NEW c \in Characters
    PROVE  Escape(c) \in Seq(Characters)
<1>1. SingleQuote \in Characters /\ Backslash \in Characters
  BY DEF Characters
<1> QED
  BY <1>1 DEF Escape, EscapedQuote

LEMMA EscapedSteps ==
    ASSUME NEW token \in Seq(Characters)
    PROVE  /\ Escaped(token)[0] = <<>>
           /\ \A i \in 1..Len(token) : Escaped(token)[i] = Escaped(token)[i - 1] \o Escape(token[i])
           /\ \A i \in 0..Len(token) : Escaped(token)[i] \in Seq(Characters)
<1> DEFINE n == Len(token)
           Texts == Seq(Characters)
           Write(s, i) == s \o Escape(token[i])
           step == [x \in (1..n) \X Texts |-> Write(x[2], x[1])]
           Is(f) == f = [i \in 0..n |-> IF i = 0 THEN <<>> ELSE Write(f[i - 1], i)]
<1>1. n \in Nat /\ <<>> \in Texts
  OBVIOUS
<1>2. \A i \in 1..n, s \in Texts : Write(s, i) \in Texts
  BY EscapeType
<1>3. Escaped(token) = CHOOSE g : Is(g)
  BY Zenon DEF Escaped
<1> SUFFICES /\ Escaped(token)[0] = <<>>
             /\ \A i \in 1..n : Escaped(token)[i] = Write(Escaped(token)[i - 1], i)
             /\ \A i \in 0..n : Escaped(token)[i] \in Texts
  BY Zenon
<1> HIDE DEF n, Texts, Write
<1>4. step \in [(1..n) \X Texts -> Texts]
  BY <1>2
<1>5. \A i \in 1..n, s \in Texts : step[<<i, s>>] = Write(s, i)
  OBVIOUS
<1> HIDE DEF step
<1>6. Runs(Texts, <<>>, n, step) # {}
  BY <1>1, <1>4, RecursionExists
<1> PICK f \in [0..n -> Texts] : f[0] = <<>> /\ \A i \in 1..n : f[i] = step[<<i, f[i - 1]>>]
  BY <1>6 DEF Runs
<1>7. ASSUME NEW i \in 1..n PROVE f[i] = Write(f[i - 1], i)
  <2>1. f[i - 1] \in Texts
    BY <1>1
  <2> QED
    BY <1>5, <2>1
<1>8. Is(f)
  BY <1>1, <1>7
<1> HIDE DEF Is
<1>9. Is(Escaped(token))
  BY <1>3, <1>8
<1>10. /\ Escaped(token)[0] = <<>>
       /\ \A i \in 1..n : Escaped(token)[i] = Write(Escaped(token)[i - 1], i)
  BY <1>1, <1>9 DEF Is
<1>11. \A i \in 0..n : Escaped(token)[i] \in Texts
  BY <1>1, <1>2, <1>10, RunType
<1> QED
  BY <1>10, <1>11

LEMMA EscapedType ==
    ASSUME NEW token \in Seq(Characters)
    PROVE  Escaped(token)[Len(token)] \in Seq(Characters)
<1>1. Len(token) \in 0..Len(token)
  OBVIOUS
<1> QED
  BY <1>1, EscapedSteps, Zenon

LEMMA QuoteTokenType ==
    ASSUME NEW token \in Seq(Characters)
    PROVE  QuoteToken(token) \in Seq(Characters)
<1> DEFINE middle == Escaped(token)[Len(token)]
<1>1. middle \in Seq(Characters)
  BY EscapedType, Zenon
<1>2. <<SingleQuote>> \in Seq(Characters)
  BY DEF Characters
<1> HIDE DEF middle
<1>3. <<SingleQuote>> \o middle \o <<SingleQuote>> \in Seq(Characters)
  BY <1>1, <1>2
<1> QED
  BY <1>3 DEF QuoteToken, middle

\* What stands before a word.
Gap(i) == IF i = 1 THEN <<>> ELSE <<Blank>>

LEMMA GapType == \A i : Gap(i) \in Seq(Characters)
<1>1. Blank \in Characters
  BY DEF Characters
<1> QED
  BY <1>1 DEF Gap

LEMMA JoinedSteps ==
    ASSUME NEW words \in Seq(Seq(Characters))
    PROVE  /\ Joined(words)[0] = <<>>
           /\ \A i \in 1..Len(words) : Joined(words)[i] = Joined(words)[i - 1] \o Gap(i) \o QuoteToken(words[i])
           /\ \A i \in 0..Len(words) : Joined(words)[i] \in Seq(Characters)
<1> DEFINE n == Len(words)
           Texts == Seq(Characters)
           Write(s, i) == s \o Gap(i) \o QuoteToken(words[i])
           step == [x \in (1..n) \X Texts |-> Write(x[2], x[1])]
           Is(f) == f = [i \in 0..n |-> IF i = 0 THEN <<>> ELSE Write(f[i - 1], i)]
<1>1. n \in Nat /\ <<>> \in Texts
  OBVIOUS
<1>2. \A i \in 1..n, s \in Texts : Write(s, i) \in Texts
  BY QuoteTokenType, GapType
<1>3. Joined(words) = CHOOSE g : Is(g)
  BY Zenon DEF Joined, Gap
<1> SUFFICES /\ Joined(words)[0] = <<>>
             /\ \A i \in 1..n : Joined(words)[i] = Write(Joined(words)[i - 1], i)
             /\ \A i \in 0..n : Joined(words)[i] \in Texts
  BY Zenon
<1> HIDE DEF n, Texts, Write
<1>4. step \in [(1..n) \X Texts -> Texts]
  BY <1>2
<1>5. \A i \in 1..n, s \in Texts : step[<<i, s>>] = Write(s, i)
  OBVIOUS
<1> HIDE DEF step
<1>6. Runs(Texts, <<>>, n, step) # {}
  BY <1>1, <1>4, RecursionExists
<1> PICK f \in [0..n -> Texts] : f[0] = <<>> /\ \A i \in 1..n : f[i] = step[<<i, f[i - 1]>>]
  BY <1>6 DEF Runs
<1>7. ASSUME NEW i \in 1..n PROVE f[i] = Write(f[i - 1], i)
  <2>1. f[i - 1] \in Texts
    BY <1>1
  <2> QED
    BY <1>5, <2>1
<1>8. Is(f)
  BY <1>1, <1>7
<1> HIDE DEF Is
<1>9. Is(Joined(words))
  BY <1>3, <1>8
<1>10. /\ Joined(words)[0] = <<>>
       /\ \A i \in 1..n : Joined(words)[i] = Write(Joined(words)[i - 1], i)
  BY <1>1, <1>9 DEF Is
<1>11. \A i \in 0..n : Joined(words)[i] \in Texts
  BY <1>1, <1>2, <1>10, RunType
<1> QED
  BY <1>10, <1>11

-----------------------------------------------------------------------------
\* One character read.

LEMMA StateFields ==
    \A t, v, p, q : LET s == State(t, v, p, q)
                    IN  s.tokens = t /\ s.current = v /\ s.place = p /\ s.quote = q
BY DEF State

LEMMA ReadsQuoted ==
    ASSUME NEW text, NEW i, NEW t, NEW v
    PROVE  Consume(State(t, v, "word", SingleQuote), text, i) =
             IF text[i] = SingleQuote THEN State(t, v, "word", NoQuote)
             ELSE State(t, Append(v, text[i]), "word", SingleQuote)
BY StateFields DEF Consume, SingleQuote, DoubleQuote, NoQuote

LEMMA ReadsEscaped ==
    ASSUME NEW text, NEW i, NEW t, NEW v, NEW q
    PROVE  Consume(State(t, v, "escape", q), text, i) = State(t, Append(v, text[i]), "word", q)
BY StateFields DEF Consume

LEMMA ReadsPlain ==
    ASSUME NEW text, NEW i, NEW t, NEW v, NEW p \in {"between", "word"}
    PROVE  LET s == Consume(State(t, v, p, NoQuote), text, i)
           IN  /\ text[i] = Backslash /\ i < Len(text) => s = State(t, v, "escape", NoQuote)
               /\ text[i] = SingleQuote => s = State(t, v, "word", SingleQuote)
               /\ text[i] \in Safe => s = State(t, Append(v, text[i]), "word", NoQuote)
               /\ text[i] = Blank /\ p = "word" => s = State(Append(t, v), <<>>, "between", NoQuote)
BY StateFields DEF Consume, Safe, Backslash, SingleQuote, DoubleQuote, Blank, NoQuote

LEMMA Concatenated ==
    ASSUME NEW a \in Seq(Characters), NEW b \in Seq(Characters)
    PROVE  /\ a \o b \in Seq(Characters) /\ Len(a \o b) = Len(a) + Len(b)
           /\ Len(a) \in Nat /\ Len(b) \in Nat
           /\ \A i \in 1..Len(a) : (a \o b)[i] = a[i]
           /\ \A i \in 1..Len(b) : (a \o b)[Len(a) + i] = b[i]
OBVIOUS

\* Where a piece of a text stands.
LEMMA CharactersOf ==
    ASSUME NEW before \in Seq(Characters), NEW piece \in Seq(Characters), NEW text,
           Begins(Characters, before \o piece, text)
    PROVE  /\ text \in Seq(Characters)
           /\ Len(before \o piece) = Len(before) + Len(piece)
           /\ \A i \in 1..Len(piece) : /\ Len(before) + i \in 1..Len(text)
                                       /\ text[Len(before) + i] = piece[i]
<1> PICK after \in Seq(Characters) : text = (before \o piece) \o after
  BY DEF Begins
<1> DEFINE whole == before \o piece
<1>1. /\ whole \in Seq(Characters) /\ Len(whole) = Len(before) + Len(piece)
      /\ Len(before) \in Nat /\ Len(piece) \in Nat
      /\ \A i \in 1..Len(piece) : whole[Len(before) + i] = piece[i]
  BY Concatenated, Zenon
<1>2. /\ text \in Seq(Characters) /\ Len(text) = Len(whole) + Len(after) /\ Len(after) \in Nat
      /\ \A i \in 1..Len(whole) : text[i] = whole[i]
  BY <1>1, Concatenated, Zenon
<1> HIDE DEF whole
<1>3. \A i \in 1..Len(piece) : Len(before) + i \in 1..Len(whole)
  BY <1>1
<1>4. \A i \in 1..Len(whole) : i \in 1..Len(text)
  BY <1>1, <1>2
<1> QED
  BY <1>1, <1>2, <1>3, <1>4, Zenon DEF whole

\* The state after a character of a piece.
LEMMA NextState ==
    ASSUME NEW before \in Seq(Characters), NEW piece \in Seq(Characters), NEW text,
           Begins(Characters, before \o piece, text), NEW i \in 1..Len(piece)
    PROVE  LET k == Len(before) + i
           IN  Consumed(text)[k] = Consume(Consumed(text)[k - 1], text, k)
<1>1. text \in Seq(Characters) /\ Len(before) + i \in 1..Len(text)
  BY CharactersOf
<1> QED
  BY <1>1, ConsumedSteps

-----------------------------------------------------------------------------
\* Between single quotes.

\* The state of the loop where `before` ends.
After(text, before, t, v, p, q) == Consumed(text)[Len(before)] = State(t, v, p, q)

\* A character of a quoted token, as it was escaped.
LEMMA EscapeRead ==
    ASSUME NEW before \in Seq(Characters), NEW c \in Characters, NEW text,
           Begins(Characters, before \o Escape(c), text), NEW t, NEW v,
           After(text, before, t, v, "word", SingleQuote)
    PROVE  After(text, before \o Escape(c), t, Append(v, c), "word", SingleQuote)
<1> USE DEF After
<1> DEFINE n == Len(before)
           At(i) == Consumed(text)[n + i]
<1>1. /\ n \in Nat /\ Len(before \o Escape(c)) = n + Len(Escape(c))
      /\ \A i \in 1..Len(Escape(c)) : n + i <= Len(text) /\ text[n + i] = Escape(c)[i]
      /\ Len(text) \in Nat
  BY EscapeType, CharactersOf
<1>2. \A i \in 1..Len(Escape(c)) : At(i) = Consume(At(i - 1), text, n + i)
  BY <1>1, EscapeType, NextState
<1>3. At(0) = State(t, v, "word", SingleQuote)
  BY <1>1
<1> HIDE DEF n, At
<1>4. CASE c # SingleQuote
  <2>1. Escape(c) = <<c>>
    BY <1>4 DEF Escape
  <2>2. text[n + 1] = c /\ At(1) = Consume(At(0), text, n + 1)
    BY <1>1, <1>2, <2>1
  <2>3. At(1) = State(t, Append(v, c), "word", SingleQuote)
    BY <1>3, <1>4, <2>2, ReadsQuoted
  <2> QED
    BY <1>1, <2>1, <2>3 DEF At
<1>5. CASE c = SingleQuote
  <2>1. Escape(c) = EscapedQuote /\ Len(EscapedQuote) = 4
    BY <1>5 DEF Escape, EscapedQuote
  <2>2. /\ text[n + 1] = SingleQuote /\ text[n + 2] = Backslash
        /\ text[n + 3] = SingleQuote /\ text[n + 4] = SingleQuote /\ n + 2 < Len(text)
    BY <1>1, <2>1 DEF EscapedQuote
  <2>3. /\ At(1) = Consume(At(0), text, n + 1) /\ At(2) = Consume(At(1), text, n + 2)
        /\ At(3) = Consume(At(2), text, n + 3) /\ At(4) = Consume(At(3), text, n + 4)
    BY <1>2, <2>1
  <2>4. At(1) = State(t, v, "word", NoQuote)
    BY <1>3, <2>2, <2>3, ReadsQuoted
  <2>5. At(2) = State(t, v, "escape", NoQuote)
    BY <2>2, <2>3, <2>4, ReadsPlain
  <2>6. At(3) = State(t, Append(v, c), "word", NoQuote)
    BY <1>5, <2>2, <2>3, <2>5, ReadsEscaped
  <2>7. At(4) = State(t, Append(v, c), "word", SingleQuote)
    BY <2>2, <2>3, <2>6, ReadsPlain
  <2> QED
    BY <1>1, <2>1, <2>7 DEF At
<1> QED
  BY <1>4, <1>5

LEMMA Associative ==
    \A a, b, c \in Seq(Characters) : (a \o b) \o c = a \o (b \o c)
BY ConcatAssociative

LEMMA BeginsConcat ==
    ASSUME NEW a \in Seq(Characters), NEW b \in Seq(Characters)
    PROVE  Begins(Characters, a, a \o b)
BY Zenon DEF Begins

LEMMA OneRead ==
    ASSUME NEW before \in Seq(Characters), NEW c \in Characters, NEW text,
           Begins(Characters, before \o <<c>>, text)
    PROVE  /\ text[Len(before) + 1] = c
           /\ Consumed(text)[Len(before \o <<c>>)]
                = Consume(Consumed(text)[Len(before)], text, Len(before) + 1)
<1> DEFINE piece == <<c>>
<1>1. piece \in Seq(Characters) /\ Len(piece) = 1 /\ piece[1] = c /\ 1 \in 1..Len(piece)
      /\ Begins(Characters, before \o piece, text)
  OBVIOUS
<1> HIDE DEF piece
<1>2. Len(before \o piece) = Len(before) + Len(piece) /\ text[Len(before) + 1] = piece[1]
  BY <1>1, CharactersOf, Zenon
<1>3. LET k == Len(before) + 1 IN Consumed(text)[k] = Consume(Consumed(text)[k - 1], text, k)
  BY <1>1, NextState
<1>4. (Len(before) + 1) - 1 = Len(before)
  OBVIOUS
<1> QED
  BY <1>1, <1>2, <1>3, <1>4 DEF piece

LEMMA EscapedRead ==
    ASSUME NEW opened \in Seq(Characters), NEW w \in Seq(Characters), NEW text,
           Begins(Characters, opened \o Escaped(w)[Len(w)], text),
           NEW t, After(text, opened, t, <<>>, "word", SingleQuote)
    PROVE  After(text, opened \o Escaped(w)[Len(w)], t, w, "word", SingleQuote)
<1> DEFINE m == Len(w)
           Part(i) == opened \o Escaped(w)[i]
           Holds(i) == After(text, Part(i), t, SubSeq(w, 1, i), "word", SingleQuote)
<1>1. m \in Nat /\ \A i \in 1..m : w[i] \in Characters
  OBVIOUS
<1>2. \A i \in 0..m : Part(i) \in Seq(Characters)
  BY EscapedSteps, Concatenated
<1>3. Part(0) = opened
  BY EscapedSteps, ConcatEmptySeq
<1>4. \A i \in 1..m : Part(i) = Part(i - 1) \o Escape(w[i])
  <2> TAKE i \in 1..m
  <2> DEFINE u == Escaped(w)[i - 1]
             v == Escape(w[i])
  <2>1. i - 1 \in 0..m
    BY <1>1
  <2>2. u \in Seq(Characters) /\ v \in Seq(Characters) /\ Escaped(w)[i] = u \o v
    BY <1>1, <2>1, EscapedSteps, EscapeType
  <2> HIDE DEF u, v
  <2>3. (opened \o u) \o v = opened \o (u \o v)
    BY <2>2, Associative
  <2> QED
    BY <2>2, <2>3, Zenon DEF u, v
<1>5. Begins(Characters, Part(m), text)
  OBVIOUS
<1>6. Holds(0)
  <2>1. SubSeq(w, 1, 0) = <<>>
    BY SubSeqEmpty
  <2> QED
    BY <1>3, <2>1
<1>7. SubSeq(w, 1, m) = w
  BY SubSeqFull
<1>8. \A i \in 0..(m - 1) : Append(SubSeq(w, 1, i), w[i + 1]) = SubSeq(w, 1, i + 1)
  OBVIOUS
<1> SUFFICES Holds(m)
  BY <1>7, Zenon
<1> HIDE DEF m, Part
<1>9. \A i \in 0..m : Begins(Characters, Part(i), text)
  <2> DEFINE f == [i \in 0..m |-> Part(i)]
  <2>1. \A i \in 0..m : f[i] = Part(i)
    OBVIOUS
  <2>2. \A i \in 0..m : f[i] \in Seq(Characters)
    BY <1>2, <2>1
  <2>3. ASSUME NEW i \in 1..m PROVE Begins(Characters, f[i - 1], f[i])
    <3>1. i - 1 \in 0..m /\ i \in 0..m
      BY <1>1
    <3>2. Part(i - 1) \in Seq(Characters) /\ Escape(w[i]) \in Seq(Characters)
          /\ Part(i) = Part(i - 1) \o Escape(w[i])
      BY <1>1, <1>2, <1>4, <3>1, EscapeType
    <3> QED
      BY <2>1, <3>1, <3>2, BeginsConcat, Zenon
  <2> HIDE DEF f
  <2>4. \A i \in 0..m : Begins(Characters, f[i], f[m])
    BY <1>1, <2>2, <2>3, PartsBegin
  <2>5. m \in 0..m
    BY <1>1
  <2> TAKE i \in 0..m
  <2>6. Begins(Characters, Part(i), Part(m)) /\ Part(i) \in Seq(Characters) /\ Part(m) \in Seq(Characters)
    BY <1>2, <2>1, <2>4, <2>5
  <2> QED
    BY <1>5, <2>6, BeginsTransitive, Zenon
<1>10. ASSUME NEW i \in 0..(m - 1), Holds(i) PROVE Holds(i + 1)
  <2>1. i + 1 \in 1..m /\ (i + 1) - 1 = i /\ i \in 0..m /\ i + 1 \in 0..m
    BY <1>1
  <2>2. Part(i) \in Seq(Characters) /\ w[i + 1] \in Characters /\ Part(i + 1) = Part(i) \o Escape(w[i + 1])
    BY <1>1, <1>2, <1>4, <2>1
  <2>3. Begins(Characters, Part(i) \o Escape(w[i + 1]), text)
    BY <1>9, <2>1, <2>2
  <2>4. After(text, Part(i) \o Escape(w[i + 1]), t, Append(SubSeq(w, 1, i), w[i + 1]), "word", SingleQuote)
    BY <1>10, <2>2, <2>3, EscapeRead, Zenon
  <2> QED
    BY <1>8, <2>2, <2>4, Zenon
<1> HIDE DEF Holds
<1> DEFINE T == {i \in 0..m : Holds(i)}
<1>11. 0 \in T /\ \A i \in 0..(m - 1) : i \in T => i + 1 \in T
  BY <1>1, <1>6, <1>10
<1> HIDE DEF T
<1>12. \A i \in 0..m : i \in T
  BY <1>1, <1>11, BoundedInduction
<1> QED
  BY <1>1, <1>12 DEF T

LEMMA QuotedRead ==
    ASSUME NEW before \in Seq(Characters), NEW w \in Seq(Characters), NEW text,
           NEW quoted, quoted = <<SingleQuote>> \o Escaped(w)[Len(w)] \o <<SingleQuote>>,
           Begins(Characters, before \o quoted, text),
           NEW t, After(text, before, t, <<>>, "between", NoQuote)
    PROVE  After(text, before \o quoted, t, w, "word", NoQuote)
<1> DEFINE Q == <<SingleQuote>>
           E == Escaped(w)[Len(w)]
           opened == before \o Q
           inside == opened \o E
           whole == inside \o Q
<1>1. Q \in Seq(Characters) /\ SingleQuote \in Characters
  BY DEF Characters
<1>2. E \in Seq(Characters)
  BY EscapedType, Zenon
<1>3. quoted = (Q \o E) \o Q
  OBVIOUS
<1> HIDE DEF E
<1>4. whole = before \o quoted
  <2> HIDE DEF Q
  <2>1. (before \o Q) \o E = before \o (Q \o E)
    BY <1>1, <1>2, Associative, Zenon
  <2>2. Q \o E \in Seq(Characters)
    BY <1>1, <1>2, Concatenated, Zenon
  <2>3. (before \o (Q \o E)) \o Q = before \o ((Q \o E) \o Q)
    BY <1>1, <2>2, Associative, Zenon
  <2> QED
    BY <1>3, <2>1, <2>3, Zenon
<1>5. Begins(Characters, whole, text)
  BY <1>4, Zenon
<1>6. opened \in Seq(Characters) /\ inside \in Seq(Characters)
  <2>1. opened \in Seq(Characters)
    BY <1>1, Concatenated, Zenon
  <2> HIDE DEF opened
  <2> QED
    BY <1>2, <2>1, Concatenated, Zenon
<1>7. Begins(Characters, inside, text) /\ Begins(Characters, opened, text)
  <2> HIDE DEF opened
  <2>1. Begins(Characters, opened, inside)
    BY <1>2, <1>6, BeginsConcat, Zenon
  <2> HIDE DEF inside
  <2>2. Begins(Characters, inside, whole)
    BY <1>1, <1>6, BeginsConcat, Zenon
  <2>3. Begins(Characters, inside, text)
    BY <1>5, <1>6, <2>2, BeginsTransitive, Zenon
  <2> QED
    BY <1>6, <2>1, <2>3, BeginsTransitive, Zenon
<1>8. After(text, opened, t, <<>>, "word", SingleQuote)
  <2>1. /\ text[Len(before) + 1] = SingleQuote
        /\ Consumed(text)[Len(opened)] = Consume(Consumed(text)[Len(before)], text, Len(before) + 1)
    BY <1>1, <1>7, OneRead, Zenon
  <2> HIDE DEF opened
  <2> QED
    BY <2>1, ReadsPlain DEF After
<1>9. After(text, inside, t, w, "word", SingleQuote)
  <2> HIDE DEF opened
  <2> QED
    BY <1>6, <1>7, <1>8, EscapedRead, Zenon DEF E
<1>10. /\ text[Len(inside) + 1] = SingleQuote
       /\ Consumed(text)[Len(whole)] = Consume(Consumed(text)[Len(inside)], text, Len(inside) + 1)
  BY <1>1, <1>5, <1>6, OneRead, Zenon
<1> HIDE DEF whole, inside
<1>11. After(text, whole, t, w, "word", NoQuote)
  BY <1>9, <1>10, ReadsQuoted DEF After
<1> QED
  BY <1>4, <1>11, Zenon

-----------------------------------------------------------------------------
\* A token that needs no quotes, and any token.

LEMMA TwoParts ==
    ASSUME NEW w \in Seq(Characters), NEW i \in 0..Len(w)
    PROVE  SubSeq(w, 1, i) \o SubSeq(w, i + 1, Len(w)) = w
<1>1. 1 \in 1..(Len(w) + 1) /\ i \in (1 - 1)..Len(w) /\ Len(w) \in i..Len(w)
  OBVIOUS
<1>2. SubSeq(w, 1, i) \o SubSeq(w, i + 1, Len(w)) = SubSeq(w, 1, Len(w))
  BY <1>1, ConcatAdjacentSubSeq, Zenon
<1>3. SubSeq(w, 1, Len(w)) = w
  BY SubSeqFull
<1> QED
  BY <1>2, <1>3, Zenon

LEMMA PlainRead ==
    ASSUME NEW before \in Seq(Characters), NEW w \in Seq(Characters), w # <<>>,
           \A i \in 1..Len(w) : w[i] \in Safe, NEW text, Begins(Characters, before \o w, text),
           NEW t, After(text, before, t, <<>>, "between", NoQuote)
    PROVE  After(text, before \o w, t, w, "word", NoQuote)
<1> DEFINE m == Len(w)
           Taken(i) == SubSeq(w, 1, i)
           Part(i) == before \o Taken(i)
           Place(i) == IF i = 0 THEN "between" ELSE "word"
           Holds(i) == After(text, Part(i), t, Taken(i), Place(i), NoQuote)
<1>1. m \in Nat /\ m # 0 /\ \A i \in 1..m : w[i] \in Characters /\ w[i] \in Safe
  BY EmptySeq
<1>2. Taken(0) = <<>> /\ Taken(m) = w
  BY SubSeqEmpty, SubSeqFull
<1>3. \A i \in 0..m : Taken(i) \in Seq(Characters)
  OBVIOUS
<1>4. \A i \in 0..(m - 1) : Taken(i + 1) = Append(Taken(i), w[i + 1])
  OBVIOUS
<1>5. Begins(Characters, Part(m), text)
  BY <1>2
<1>6. \A i \in 0..m : \E after \in Seq(Characters) : Taken(m) = Taken(i) \o after
  <2> TAKE i \in 0..m
  <2>1. SubSeq(w, 1, i) \o SubSeq(w, i + 1, m) = w
    BY TwoParts, Zenon
  <2>2. SubSeq(w, i + 1, m) \in Seq(Characters)
    OBVIOUS
  <2> QED
    BY <1>2, <2>1, <2>2, Zenon
<1> SUFFICES Holds(m)
  BY <1>1, <1>2
<1> HIDE DEF m, Taken
<1>7. \A i \in 0..m : Part(i) \in Seq(Characters)
  BY <1>3, Concatenated
<1>8. \A i \in 0..m : Begins(Characters, Part(i), text)
  <2> TAKE i \in 0..m
  <2>1. PICK after \in Seq(Characters) : Taken(m) = Taken(i) \o after
    BY <1>6
  <2>2. m \in 0..m
    BY <1>1
  <2>3. Part(m) = Part(i) \o after
    <3>1. (before \o Taken(i)) \o after = before \o (Taken(i) \o after)
      BY <1>3, Associative, Zenon
    <3> QED
      BY <2>1, <3>1, Zenon
  <2>4. Begins(Characters, Part(i), Part(m))
    BY <1>7, <2>3, BeginsConcat, Zenon
  <2> HIDE DEF Part
  <2> QED
    BY <1>5, <1>7, <2>4, BeginsTransitive, Zenon
<1>9. \A i \in 0..(m - 1) : Part(i + 1) = Part(i) \o <<w[i + 1]>>
  <2> TAKE i \in 0..(m - 1)
  <2>1. i \in 0..m /\ i + 1 \in 1..m
    BY <1>1
  <2>2. w[i + 1] \in Characters /\ Taken(i) \in Seq(Characters)
    BY <1>1, <1>3, <2>1
  <2>3. Append(Taken(i), w[i + 1]) = Taken(i) \o <<w[i + 1]>> /\ <<w[i + 1]>> \in Seq(Characters)
    BY <2>2, AppendIsConcat
  <2>4. (before \o Taken(i)) \o <<w[i + 1]>> = before \o (Taken(i) \o <<w[i + 1]>>)
    BY <2>2, <2>3, Associative, Zenon
  <2> QED
    BY <1>4, <2>3, <2>4, Zenon
<1>10. Holds(0)
  <2>1. Part(0) = before
    BY <1>2, ConcatEmptySeq
  <2> QED
    BY <1>2, <2>1
<1> HIDE DEF Part
<1>11. ASSUME NEW i \in 0..(m - 1), Holds(i) PROVE Holds(i + 1)
  <2>1. i \in 0..m /\ i + 1 \in 1..m /\ i + 1 \in 0..m /\ i + 1 # 0
    BY <1>1
  <2>2. /\ w[i + 1] \in Characters /\ w[i + 1] \in Safe /\ Part(i) \in Seq(Characters)
        /\ Part(i + 1) = Part(i) \o <<w[i + 1]>>
    BY <1>1, <1>7, <1>9, <2>1
  <2>3. Begins(Characters, Part(i) \o <<w[i + 1]>>, text)
    BY <1>8, <2>1, <2>2, Zenon
  <2> DEFINE k == Len(Part(i)) + 1
  <2>4. text[k] = w[i + 1] /\ Consumed(text)[Len(Part(i + 1))] = Consume(Consumed(text)[Len(Part(i))], text, k)
    <3>1. /\ text[k] = w[i + 1]
          /\ Consumed(text)[Len(Part(i) \o <<w[i + 1]>>)] = Consume(Consumed(text)[Len(Part(i))], text, k)
      BY <2>2, <2>3, OneRead, Zenon
    <3> QED
      BY <2>2, <3>1, Zenon
  <2> HIDE DEF k
  <2>5. Place(i) \in {"between", "word"} /\ Place(i + 1) = "word"
    BY <2>1
  <2> HIDE DEF Place
  <2>6. Consumed(text)[Len(Part(i))] = State(t, Taken(i), Place(i), NoQuote)
    BY <1>11 DEF After
  <2>7. Consumed(text)[Len(Part(i + 1))] = State(t, Append(Taken(i), text[k]), "word", NoQuote)
    BY <2>2, <2>4, <2>5, <2>6, ReadsPlain
  <2> QED
    BY <1>4, <2>4, <2>5, <2>7, Zenon DEF After
<1> HIDE DEF Holds
<1> DEFINE T == {i \in 0..m : Holds(i)}
<1>12. 0 \in T /\ \A i \in 0..(m - 1) : i \in T => i + 1 \in T
  BY <1>1, <1>10, <1>11
<1> HIDE DEF T
<1>13. \A i \in 0..m : i \in T
  BY <1>1, <1>12, BoundedInduction
<1> QED
  BY <1>1, <1>13 DEF T

LEMMA TokenRead ==
    ASSUME NEW before \in Seq(Characters), NEW w \in Seq(Characters), NEW text,
           Begins(Characters, before \o QuoteToken(w), text),
           NEW t, After(text, before, t, <<>>, "between", NoQuote)
    PROVE  After(text, before \o QuoteToken(w), t, w, "word", NoQuote)
<1>1. CASE w # <<>> /\ \A i \in DOMAIN w : w[i] \in Safe
  <2>1. QuoteToken(w) = w
    BY <1>1 DEF QuoteToken
  <2>2. \A i \in 1..Len(w) : w[i] \in Safe
    BY <1>1
  <2> QED
    BY <1>1, <2>1, <2>2, PlainRead, Zenon
<1>2. CASE ~(w # <<>> /\ \A i \in DOMAIN w : w[i] \in Safe)
  <2>1. QuoteToken(w) = <<SingleQuote>> \o Escaped(w)[Len(w)] \o <<SingleQuote>>
    BY <1>2, Zenon DEF QuoteToken
  <2> QED
    BY <2>1, QuotedRead, Zenon
<1> QED
  BY <1>1, <1>2, Zenon

-----------------------------------------------------------------------------
\* The words of a command line, one after the other.

LEMMA JoinedBegins ==
    ASSUME NEW words \in Seq(Seq(Characters)), NEW text, text = Joined(words)[Len(words)]
    PROVE  \A i \in 0..Len(words) : Begins(Characters, Joined(words)[i], text)
<1> DEFINE n == Len(words)
           f == Joined(words)
<1>1. n \in Nat
  OBVIOUS
<1>2. \A i \in 0..n : f[i] \in Seq(Characters)
  BY JoinedSteps, Zenon
<1>3. ASSUME NEW i \in 1..n PROVE Begins(Characters, f[i - 1], f[i])
  <2> DEFINE gap == Gap(i)
             token == QuoteToken(words[i])
  <2>1. f[i] = (f[i - 1] \o gap) \o token
    BY JoinedSteps, Zenon
  <2>2. f[i - 1] \in Seq(Characters)
    BY <1>1, <1>2
  <2>3. gap \in Seq(Characters) /\ token \in Seq(Characters)
    BY GapType, QuoteTokenType
  <2> HIDE DEF gap, token, f
  <2>4. (f[i - 1] \o gap) \o token = f[i - 1] \o (gap \o token)
    BY <2>2, <2>3, Associative, Zenon
  <2>5. gap \o token \in Seq(Characters)
    BY <2>3, Concatenated, Zenon
  <2> QED
    BY <2>1, <2>2, <2>4, <2>5, BeginsConcat, Zenon
<1> HIDE DEF n, f
<1>4. \A i \in 0..n : Begins(Characters, f[i], f[n])
  BY <1>1, <1>2, <1>3, PartsBegin
<1> QED
  BY <1>4, Zenon DEF n, f

LEMMA WordsRead ==
    ASSUME NEW words \in Seq(Seq(Characters)), words # <<>>
    PROVE  LET text == QuoteCommandLine(words)
               n == Len(words)
           IN  Consumed(text)[Len(text)] = State(SubSeq(words, 1, n - 1), words[n], "word", NoQuote)
<1> DEFINE n == Len(words)
           J(i) == Joined(words)[i]
           text == J(n)
           Before(i) == SubSeq(words, 1, i - 1)
           Opened(i) == J(i - 1) \o Gap(i)
           Holds(i) == After(text, J(i), Before(i), words[i], "word", NoQuote)
<1>1. n \in Nat /\ n # 0 /\ \A i \in 1..n : words[i] \in Seq(Characters)
  BY EmptySeq
<1>2. /\ J(0) = <<>> /\ \A i \in 0..n : J(i) \in Seq(Characters)
      /\ \A i \in 1..n : J(i) = Opened(i) \o QuoteToken(words[i])
  BY JoinedSteps, Zenon
<1>3. \A i \in 0..n : Begins(Characters, J(i), text)
  BY JoinedBegins, Zenon
<1>4. text \in Seq(Characters)
  BY <1>1, <1>2
<1>5. /\ Before(1) = <<>>
      /\ \A i \in 2..n : Before(i) = Append(Before(i - 1), words[i - 1])
  <2>1. Before(1) = <<>>
    BY SubSeqEmpty
  <2>2. \A i \in 2..n : Before(i) = Append(Before(i - 1), words[i - 1])
    OBVIOUS
  <2> QED
    BY <2>1, <2>2
<1>6. Consumed(text)[0] = State(<<>>, <<>>, "between", NoQuote)
  BY <1>4, ConsumedSteps, Zenon DEF Start
<1> SUFFICES Holds(n)
  BY Zenon DEF QuoteCommandLine, After
<1> HIDE DEF n, J, Before
<1>7. ASSUME NEW i \in 1..n
      PROVE  Opened(i) \in Seq(Characters) /\ Begins(Characters, Opened(i), text)
  <2>1. i - 1 \in 0..n /\ i \in 0..n
    BY <1>1
  <2>2. J(i - 1) \in Seq(Characters) /\ Gap(i) \in Seq(Characters) /\ QuoteToken(words[i]) \in Seq(Characters)
    BY <1>1, <1>2, <2>1, GapType, QuoteTokenType
  <2>3. Opened(i) \in Seq(Characters)
    BY <2>2, Concatenated, Zenon
  <2> HIDE DEF Opened
  <2>4. Begins(Characters, Opened(i), J(i))
    BY <1>2, <2>2, <2>3, BeginsConcat, Zenon
  <2>5. Begins(Characters, J(i), text)
    BY <1>3, <2>1
  <2> QED
    BY <2>3, <2>4, <2>5, BeginsTransitive, Zenon
<1> HIDE DEF text
\* A token, from where it begins.
<1>8. ASSUME NEW i \in 1..n, After(text, Opened(i), Before(i), <<>>, "between", NoQuote)
      PROVE  Holds(i)
  <2>1. i \in 0..n
    BY <1>1
  <2>2. /\ Opened(i) \in Seq(Characters) /\ words[i] \in Seq(Characters)
        /\ Begins(Characters, Opened(i) \o QuoteToken(words[i]), text)
    BY <1>1, <1>2, <1>3, <1>7, <2>1
  <2> HIDE DEF Opened
  <2>3. After(text, Opened(i) \o QuoteToken(words[i]), Before(i), words[i], "word", NoQuote)
    BY <1>8, <2>2, TokenRead, Zenon
  <2> QED
    BY <1>2, <2>3, Zenon
<1>9. Holds(1)
  <2>1. 1 \in 1..n
    BY <1>1
  <2>2. Gap(1) = <<>> /\ 1 - 1 = 0
    BY DEF Gap
  <2>3. Opened(1) = <<>> \o <<>>
    BY <1>2, <2>2
  <2>4. <<>> \o <<>> = <<>> /\ Len(<<>>) = 0
    BY ConcatEmptySeq
  <2>5. After(text, Opened(1), Before(1), <<>>, "between", NoQuote)
    BY <1>5, <1>6, <2>3, <2>4, Zenon DEF After
  <2> QED
    BY <1>8, <2>1, <2>5
<1>10. ASSUME NEW i \in 2..n, Holds(i - 1) PROVE Holds(i)
  <2>1. i \in 1..n /\ i - 1 \in 0..n /\ i # 1
    BY <1>1
  <2>2. Gap(i) = <<Blank>> /\ Blank \in Characters
    BY <2>1 DEF Gap, Characters
  <2>3. J(i - 1) \in Seq(Characters) /\ Begins(Characters, J(i - 1) \o <<Blank>>, text)
    BY <1>2, <1>7, <2>1, <2>2
  <2> DEFINE k == Len(J(i - 1)) + 1
  <2>4. /\ text[k] = Blank
        /\ Consumed(text)[Len(Opened(i))] = Consume(Consumed(text)[Len(J(i - 1))], text, k)
    <3>1. /\ text[k] = Blank
          /\ Consumed(text)[Len(J(i - 1) \o <<Blank>>)] = Consume(Consumed(text)[Len(J(i - 1))], text, k)
      BY <2>2, <2>3, OneRead, Zenon
    <3> QED
      BY <2>2, <3>1, Zenon
  <2> HIDE DEF k, Opened
  <2>5. Consumed(text)[Len(J(i - 1))] = State(Before(i - 1), words[i - 1], "word", NoQuote)
    BY <1>10, Zenon DEF After
  <2>6. Consumed(text)[Len(Opened(i))] = State(Append(Before(i - 1), words[i - 1]), <<>>, "between", NoQuote)
    BY <2>4, <2>5, ReadsPlain
  <2>7. After(text, Opened(i), Before(i), <<>>, "between", NoQuote)
    BY <1>5, <2>6, Zenon DEF After
  <2> QED
    BY <1>8, <2>1, <2>7
<1> HIDE DEF Holds
<1> DEFINE T == {i \in 0..(n - 1) : Holds(i + 1)}
<1>11. 0 \in T /\ \A i \in 0..(n - 1 - 1) : i \in T => i + 1 \in T
  <2>1. 0 \in T
    BY <1>1, <1>9
  <2>2. ASSUME NEW i \in 0..(n - 1 - 1), i \in T PROVE i + 1 \in T
    <3>1. i + 2 \in 2..n /\ (i + 2) - 1 = i + 1 /\ (i + 1) + 1 = i + 2 /\ i + 1 \in 0..(n - 1)
      BY <1>1
    <3>2. Holds((i + 2) - 1)
      BY <2>2, <3>1
    <3>3. Holds(i + 2)
      BY <1>10, <3>1, <3>2
    <3> QED
      BY <3>1, <3>3
  <2> QED
    BY <2>1, <2>2
<1>12. n - 1 \in Nat /\ n - 1 \in 0..(n - 1) /\ (n - 1) + 1 = n
  BY <1>1
<1> HIDE DEF T
<1>13. \A i \in 0..(n - 1) : i \in T
  BY <1>11, <1>12, BoundedInduction
<1>14. n - 1 \in T
  BY <1>12, <1>13
<1> QED
  BY <1>12, <1>14 DEF T

-----------------------------------------------------------------------------
LEMMA LastAppended ==
    ASSUME NEW s \in Seq(Seq(Characters)), s # <<>>
    PROVE  Append(SubSeq(s, 1, Len(s) - 1), s[Len(s)]) = s
<1>1. Len(s) \in Nat /\ Len(s) # 0
  BY EmptySeq
<1> DEFINE n == Len(s)
           front == SubSeq(s, 1, n - 1)
<1>2. 1 \in 1..n /\ n \in 1..n /\ s[n] \in Seq(Characters) /\ front \in Seq(Seq(Characters))
  BY <1>1
<1>3. SubSeq(s, 1, n) = front \o <<s[n]>>
  BY <1>2, SubSeqRecursiveSecond, Zenon
<1>4. Append(front, s[n]) = front \o <<s[n]>>
  BY <1>2, AppendIsConcat, Zenon
<1>5. SubSeq(s, 1, n) = s
  BY SubSeqFull
<1> QED
  BY <1>3, <1>4, <1>5, Zenon

\* quoteCommandLine and parseCommandLine: the words that come back from the stored
\* text are the ones that were typed, in number and in every character, for every
\* command that has a word.  A replay starts the server the session started.
THEOREM RoundTrip ==
    \A words \in Seq(Seq(Characters)) \ {<<>>} :
        ParseCommandLine(QuoteCommandLine(words)) = [words |-> words]
<1> TAKE words \in Seq(Seq(Characters)) \ {<<>>}
<1> DEFINE text == QuoteCommandLine(words)
           end == Consumed(text)[Len(text)]
           n == Len(words)
           before == SubSeq(words, 1, n - 1)
           last == words[n]
<1>1. end = State(before, last, "word", NoQuote)
  BY WordsRead, Zenon
<1>2. Append(before, last) = words
  BY LastAppended
<1> HIDE DEF end, before, last
<1>3. end.place = "word" /\ end.quote = NoQuote /\ end.tokens = before /\ end.current = last
  BY <1>1, StateFields
<1>4. Append(end.tokens, end.current) = words /\ words # <<>>
  BY <1>2, <1>3, Zenon
<1> QED
  BY <1>3, <1>4, Zenon DEF ParseCommandLine, end

-----------------------------------------------------------------------------
\* Trees.

PartsOf(nodes) == UNION {Parts(n) : n \in nodes}

\* A level is what stands in the level above it.
LEMMA LevelNext ==
    ASSUME NEW value
    PROVE  /\ Level(value)[0] = {value}
           /\ \A d \in 0..MaxDepth : Level(value)[d + 1] = PartsOf(Level(value)[d])
<1> DEFINE Next(f, d) == PartsOf(f[d - 1])
           To(f, m) == f = [d \in 0..m |-> IF d = 0 THEN {value} ELSE Next(f, d)]
           T == {m \in 0..(MaxDepth + 1) : \E f : To(f, m)}
<1>1. MaxDepth \in Nat /\ MaxDepth + 1 \in Nat
  BY JsonAssumption
<1>2. 0 \in T
  <2> DEFINE f == [d \in 0..0 |-> {value}]
  <2>1. To(f, 0)
    OBVIOUS
  <2> HIDE DEF f, To
  <2> QED
    BY <1>1, <2>1
<1>3. ASSUME NEW m \in 0..MaxDepth, m \in T PROVE m + 1 \in T
  <2>1. PICK f : To(f, m)
    BY <1>3
  <2> DEFINE last == Next(f, m + 1)
             g == [d \in 0..(m + 1) |-> IF d = m + 1 THEN last ELSE f[d]]
  <2> HIDE DEF last
  <2>2. g[m + 1] = last /\ \A d \in 0..m : g[d] = f[d]
    BY <1>1
  <2>3. ASSUME NEW d \in 0..(m + 1) PROVE g[d] = IF d = 0 THEN {value} ELSE Next(g, d)
    <3>1. CASE d = 0
      BY <1>1, <2>1, <2>2, <3>1
    <3>2. CASE d \in 1..m
      <4>1. d \in 0..m /\ d - 1 \in 0..m /\ d # 0
        BY <1>1, <3>2
      <4>2. g[d] = f[d] /\ g[d - 1] = f[d - 1]
        BY <2>2, <4>1
      <4>3. Next(g, d) = Next(f, d)
        BY <4>2
      <4> HIDE DEF Next
      <4>4. f[d] = Next(f, d)
        BY <2>1, <4>1
      <4> HIDE DEF g
      <4> QED
        BY <4>1, <4>2, <4>3, <4>4
    <3>3. CASE d = m + 1
      <4>1. g[m] = f[m] /\ d - 1 = m /\ d # 0
        BY <1>1, <2>2, <3>3
      <4>2. Next(g, d) = last
        BY <3>3, <4>1 DEF last
      <4> QED
        BY <2>2, <3>3, <4>1, <4>2
    <3> QED
      BY <1>1, <3>1, <3>2, <3>3
  <2>4. To(g, m + 1)
    BY <2>3
  <2> HIDE DEF To, g
  <2> QED
    BY <1>1, <2>4
<1>4. MaxDepth + 1 \in T
  <2> HIDE DEF T
  <2>1. \A m \in 0..(MaxDepth + 1) : m \in T
    BY <1>1, <1>2, <1>3, BoundedInduction
  <2> QED
    BY <1>1, <2>1
<1>5. Level(value) = CHOOSE f : To(f, MaxDepth + 1)
  BY DEF Level, PartsOf
<1> HIDE DEF To
<1>6. To(Level(value), MaxDepth + 1)
  BY <1>4, <1>5
<1> DEFINE level == Level(value)
<1> HIDE DEF level
<1>7. level = [d \in 0..(MaxDepth + 1) |-> IF d = 0 THEN {value} ELSE Next(level, d)]
  BY <1>6 DEF To, level
<1>8. level[0] = {value}
  BY <1>1, <1>7
<1>9. ASSUME NEW d \in 0..MaxDepth PROVE level[d + 1] = PartsOf(level[d])
  <2>1. d + 1 \in 0..(MaxDepth + 1) /\ d + 1 # 0 /\ d + 1 - 1 = d
    BY <1>1
  <2>2. Next(level, d + 1) = PartsOf(level[d])
    BY <2>1
  <2> HIDE DEF Next
  <2>3. level[d + 1] = Next(level, d + 1)
    BY <1>7, <2>1
  <2> QED
    BY <2>2, <2>3
<1> QED
  BY <1>8, <1>9 DEF level

\* It is also what stands in the same level of the parts, one above.
LEMMA LevelOfParts ==
    ASSUME NEW value
    PROVE  \A d \in 0..MaxDepth : Level(value)[d + 1] = UNION {Level(p)[d] : p \in Parts(value)}
<1> DEFINE Of(d) == Level(value)[d + 1] = UNION {Level(p)[d] : p \in Parts(value)}
           T == {d \in 0..MaxDepth : Of(d)}
<1>1. MaxDepth \in Nat
  BY JsonAssumption
<1>2. Of(0)
  <2>1. 0 \in 0..MaxDepth
    BY <1>1
  <2>2. Level(value)[0 + 1] = PartsOf(Level(value)[0]) /\ \A p : Level(p)[0] = {p}
    BY <2>1, LevelNext
  <2> QED
    BY <2>2 DEF PartsOf
<1>3. ASSUME NEW d \in 0..(MaxDepth - 1), Of(d) PROVE Of(d + 1)
  <2>1. d \in 0..MaxDepth /\ d + 1 \in 0..MaxDepth
    BY <1>1
  <2>2. Level(value)[d + 1 + 1] = PartsOf(Level(value)[d + 1])
    BY <2>1, LevelNext
  <2>3. \A p : Level(p)[d + 1] = PartsOf(Level(p)[d])
    BY <2>1, LevelNext
  <2> DEFINE up == Level(value)[d + 1]
             low == [p \in Parts(value) |-> Level(p)[d]]
  <2>4. up = UNION {low[p] : p \in Parts(value)}
    BY <1>3
  <2>5. \A p \in Parts(value) : low[p] = Level(p)[d]
    OBVIOUS
  <2> HIDE DEF up, low
  <2>6. PartsOf(up) = UNION {PartsOf(low[p]) : p \in Parts(value)}
    BY <2>4 DEF PartsOf
  <2> QED
    BY <2>2, <2>3, <2>5, <2>6 DEF up
<1>4. 0 \in T /\ \A d \in 0..(MaxDepth - 1) : d \in T => d + 1 \in T
  <2> HIDE DEF Of
  <2> QED
    BY <1>1, <1>2, <1>3
<1>5. \A d \in 0..MaxDepth : d \in T
  <2> HIDE DEF T
  <2> QED
    BY <1>1, <1>4, BoundedInduction
<1> QED
  BY <1>5
Bounded(value) == Level(value)[MaxDepth + 1] = {}

\* The nodes that are d levels high at most.
Shallow(value, d) == {n \in Nodes(value) : Level(n)[d] = {}}

LEMMA LevelZero == \A n : Level(n)[0] = {n}
BY LevelNext

LEMMA EmptyLevel ==
    ASSUME NEW n, NEW d \in 0..MaxDepth, Level(n)[d] = {}
    PROVE  Level(n)[d + 1] = {}
<1>1. Level(n)[d + 1] = PartsOf(Level(n)[d])
  BY LevelNext
<1> QED
  BY <1>1 DEF PartsOf

\* A part has one level less.
LEMMA LevelOfPart ==
    ASSUME NEW n, NEW d \in 0..MaxDepth, NEW p \in Parts(n)
    PROVE  Level(p)[d] \subseteq Level(n)[d + 1]
<1>1. Level(n)[d + 1] = UNION {Level(q)[d] : q \in Parts(n)}
  BY LevelOfParts
<1> QED
  BY <1>1

LEMMA BoundedParts ==
    ASSUME NEW n, Bounded(n), NEW p \in Parts(n)
    PROVE  Bounded(p)
<1>1. MaxDepth \in 0..MaxDepth
  BY JsonAssumption
<1>2. Level(p)[MaxDepth] = {}
  BY <1>1, LevelOfPart DEF Bounded
<1> QED
  BY <1>1, <1>2, EmptyLevel DEF Bounded

LEMMA BoundedNodes ==
    ASSUME NEW value, Bounded(value), NEW n \in Nodes(value)
    PROVE  Bounded(n) /\ Parts(n) \subseteq Nodes(value)
<1> DEFINE T == {d \in 0..MaxDepth : \A m \in Level(value)[d] : Bounded(m)}
<1>1. MaxDepth \in Nat
  BY JsonAssumption
<1>2. 0 \in T
  BY <1>1, LevelZero
<1>3. ASSUME NEW d \in 0..(MaxDepth - 1), d \in T PROVE d + 1 \in T
  <2>1. d \in 0..MaxDepth /\ d + 1 \in 0..MaxDepth
    BY <1>1
  <2>2. Level(value)[d + 1] = PartsOf(Level(value)[d])
    BY <2>1, LevelNext
  <2>3. ASSUME NEW m \in Level(value)[d + 1] PROVE Bounded(m)
    <3>1. PICK q \in Level(value)[d] : m \in Parts(q)
      BY <2>2 DEF PartsOf
    <3> QED
      BY <1>3, <3>1, BoundedParts
  <2> QED
    BY <2>1, <2>3
<1>4. \A d \in 0..MaxDepth : d \in T
  <2> HIDE DEF T
  <2> QED
    BY <1>1, <1>2, <1>3, BoundedInduction
<1>5. PICK d \in 0..MaxDepth : n \in Level(value)[d]
  BY DEF Nodes
<1>6. Bounded(n)
  BY <1>4, <1>5
<1>7. ASSUME NEW p \in Parts(n) PROVE p \in Nodes(value)
  <2>1. Level(value)[d + 1] = PartsOf(Level(value)[d])
    BY LevelNext
  <2>2. p \in Level(value)[d + 1]
    BY <1>5, <2>1 DEF PartsOf
  <2>3. d # MaxDepth
    BY <2>2 DEF Bounded
  <2>4. d + 1 \in 0..MaxDepth
    BY <1>1, <2>3
  <2> QED
    BY <2>2, <2>4 DEF Nodes
<1> QED
  BY <1>6, <1>7

LEMMA Heights ==
    ASSUME NEW value, Bounded(value)
    PROVE  /\ Shallow(value, 0) = {} /\ Shallow(value, MaxDepth + 1) = Nodes(value)
           /\ \A d \in 0..MaxDepth : /\ Shallow(value, d) \subseteq Shallow(value, d + 1)
                                     /\ \A n \in Shallow(value, d + 1) : Parts(n) \subseteq Shallow(value, d)
<1>1. Shallow(value, 0) = {}
  BY LevelZero DEF Shallow
<1>2. Shallow(value, MaxDepth + 1) = Nodes(value)
  BY BoundedNodes DEF Shallow, Bounded
<1>3. ASSUME NEW d \in 0..MaxDepth PROVE Shallow(value, d) \subseteq Shallow(value, d + 1)
  BY EmptyLevel DEF Shallow
<1>4. ASSUME NEW d \in 0..MaxDepth, NEW n \in Shallow(value, d + 1), NEW p \in Parts(n)
      PROVE  p \in Shallow(value, d)
  <2>1. n \in Nodes(value) /\ Level(n)[d + 1] = {}
    BY <1>4 DEF Shallow
  <2>2. p \in Nodes(value)
    BY <2>1, BoundedNodes
  <2>3. Level(p)[d] = {}
    BY <2>1, LevelOfPart
  <2> QED
    BY <2>2, <2>3 DEF Shallow
<1> QED
  BY <1>1, <1>2, <1>3, <1>4

\* What holds of a node when it holds of its parts holds of all nodes.
LEMMA NodeInduction ==
    ASSUME NEW value, Bounded(value), NEW T, \A n \in Nodes(value) : Parts(n) \subseteq T => n \in T
    PROVE  Nodes(value) \subseteq T
<1> DEFINE U == {d \in 0..(MaxDepth + 1) : Shallow(value, d) \subseteq T}
<1>1. MaxDepth \in Nat /\ MaxDepth + 1 \in Nat /\ MaxDepth + 1 - 1 = MaxDepth
  BY JsonAssumption
<1>2. 0 \in U
  BY <1>1, Heights
<1>3. ASSUME NEW d \in 0..MaxDepth, d \in U PROVE d + 1 \in U
  <2>1. \A n \in Shallow(value, d + 1) : n \in Nodes(value) /\ Parts(n) \subseteq T
    BY <1>3, Heights DEF Shallow
  <2> QED
    BY <1>1, <2>1
<1>4. \A d \in 0..(MaxDepth + 1) : d \in U
  <2> HIDE DEF U
  <2> QED
    BY <1>1, <1>2, <1>3, BoundedInduction
<1> QED
  BY <1>1, <1>4, Heights

\* The nodes of a value are the value and the nodes of its parts.
LEMMA NodesOfParts ==
    ASSUME NEW value, Bounded(value)
    PROVE  Nodes(value) = {value} \cup UNION {Nodes(p) : p \in Parts(value)}
<1>1. MaxDepth \in Nat
  BY JsonAssumption
<1>2. value \in Nodes(value)
  BY <1>1, LevelZero DEF Nodes
<1>3. ASSUME NEW n \in Nodes(value), n # value PROVE \E p \in Parts(value) : n \in Nodes(p)
  <2>1. PICK d \in 0..MaxDepth : n \in Level(value)[d]
    BY DEF Nodes
  <2>2. d # 0
    BY <1>3, <2>1, LevelZero
  <2>3. d - 1 \in 0..MaxDepth /\ d - 1 + 1 = d
    BY <1>1, <2>2
  <2>4. Level(value)[d] = UNION {Level(p)[d - 1] : p \in Parts(value)}
    BY <2>3, LevelOfParts
  <2>5. PICK p \in Parts(value) : n \in Level(p)[d - 1]
    BY <2>1, <2>4
  <2> QED
    BY <2>3, <2>5 DEF Nodes
<1>4. ASSUME NEW p \in Parts(value), NEW n \in Nodes(p) PROVE n \in Nodes(value)
  <2>1. PICK d \in 0..MaxDepth : n \in Level(p)[d]
    BY DEF Nodes
  <2>2. n \in Level(value)[d + 1]
    BY <2>1, LevelOfPart
  <2>3. d + 1 \in 0..MaxDepth
    BY <1>1, <2>2 DEF Bounded
  <2> QED
    BY <2>2, <2>3 DEF Nodes
<1> QED
  BY <1>2, <1>3, <1>4

WellFormed(node) ==
    /\ IsRecord(node) => node = Object([k \in DOMAIN node.object |-> node.object[k]])
    /\ IsList(node) => node = List([i \in DOMAIN node.array |-> node.array[i]])

\* A tree is one whose parts are trees.
LEMMA TreeOfParts ==
    ASSUME NEW value, Bounded(value)
    PROVE  IsJson(value) <=> WellFormed(value) /\ \A p \in Parts(value) : IsJson(p)
<1>1. \A v : IsJson(v) <=> Bounded(v) /\ \A n \in Nodes(v) : WellFormed(n)
  BY DEF IsJson, Bounded, WellFormed
<1>2. \A p \in Parts(value) : Bounded(p)
  BY BoundedParts
<1>3. Nodes(value) = {value} \cup UNION {Nodes(p) : p \in Parts(value)}
  BY NodesOfParts
<1> QED
  BY <1>1, <1>2, <1>3

LEMMA NodesAreTrees ==
    ASSUME NEW value, IsJson(value)
    PROVE  \A n \in Nodes(value) : IsJson(n) /\ WellFormed(n) /\ Nodes(n) \subseteq Nodes(value)
<1> DEFINE T == {n \in Nodes(value) : Nodes(n) \subseteq Nodes(value)}
<1>1. Bounded(value) /\ \A n \in Nodes(value) : WellFormed(n)
  BY DEF IsJson, Bounded, WellFormed
<1>2. ASSUME NEW n \in Nodes(value), Parts(n) \subseteq T PROVE n \in T
  <2>1. Bounded(n)
    BY <1>1, BoundedNodes
  <2>2. Nodes(n) = {n} \cup UNION {Nodes(p) : p \in Parts(n)}
    BY <2>1, NodesOfParts
  <2> QED
    BY <1>2, <2>2
<1>3. Nodes(value) \subseteq T
  <2> HIDE DEF T
  <2> QED
    BY <1>1, <1>2, NodeInduction
<1>4. \A n \in Nodes(value) : IsJson(n)
  BY <1>1, <1>3, BoundedNodes DEF IsJson, Bounded, WellFormed
<1> QED
  BY <1>1, <1>3, <1>4
-----------------------------------------------------------------------------
\* The leaves of a tree.

\* What the recursion makes of a node when `leaves` is what it makes of the parts.
LeavesStep(node, leaves) ==
    IF Entries(node) = {} THEN {[path |-> <<>>, value |-> node]}
    ELSE UNION {Below(entry[1], leaves[entry[2]]) : entry \in Entries(node)}

AreLeaves(leaves, nodes) == leaves = [n \in nodes |-> LeavesStep(n, leaves)]
LeavesIn(value) == CHOOSE leaves : AreLeaves(leaves, Nodes(value))

LEMMA LeavesStepLocal ==
    ASSUME NEW n, NEW f, NEW g, \A p \in Parts(n) : f[p] = g[p]
    PROVE  LeavesStep(n, f) = LeavesStep(n, g)
<1> DEFINE E == Entries(n)
           A(e) == Below(e[1], f[e[2]])
           B(e) == Below(e[1], g[e[2]])
<1>1. \A e \in E : A(e) = B(e)
  <2> SUFFICES ASSUME NEW e \in E PROVE f[e[2]] = g[e[2]]
    OBVIOUS
  <2> QED
    BY DEF Parts
<1>2. LeavesStep(n, f) = IF E = {} THEN {[path |-> <<>>, value |-> n]} ELSE UNION {A(e) : e \in E}
  BY Zenon DEF LeavesStep
<1>3. LeavesStep(n, g) = IF E = {} THEN {[path |-> <<>>, value |-> n]} ELSE UNION {B(e) : e \in E}
  BY Zenon DEF LeavesStep
<1>4. {A(e) : e \in E} = {B(e) : e \in E}
  <2> HIDE DEF A, B, E
  <2> QED
    BY <1>1
<1> QED
  BY <1>2, <1>3, <1>4, Zenon

LEMMA LeavesExist ==
    ASSUME NEW value, Bounded(value)
    PROVE  AreLeaves(LeavesIn(value), Nodes(value))
<1> DEFINE T == {d \in 0..(MaxDepth + 1) : \E f : AreLeaves(f, Shallow(value, d))}
<1>1. MaxDepth \in Nat /\ MaxDepth + 1 \in Nat /\ MaxDepth + 1 - 1 = MaxDepth
  BY JsonAssumption
<1>2. 0 \in T
  <2> DEFINE f == [n \in {} |-> {}]
  <2>1. f = [n \in {} |-> LeavesStep(n, f)]
    OBVIOUS
  <2> HIDE DEF f
  <2>2. AreLeaves(f, Shallow(value, 0))
    BY <2>1, Heights DEF AreLeaves
  <2> QED
    BY <1>1, <2>2
<1>3. ASSUME NEW d \in 0..MaxDepth, d \in T PROVE d + 1 \in T
  <2>1. PICK f : AreLeaves(f, Shallow(value, d))
    BY <1>3
  <2> DEFINE low == Shallow(value, d)
             high == Shallow(value, d + 1)
             g == [n \in high |-> LeavesStep(n, f)]
  <2>2. low \subseteq high /\ \A n \in high : Parts(n) \subseteq low
    BY Heights
  <2>3. \A n \in low : f[n] = LeavesStep(n, f)
    BY <2>1 DEF AreLeaves
  <2> HIDE DEF low, high
  <2>4. \A n \in low : g[n] = f[n]
    BY <2>2, <2>3
  <2>5. \A n \in high : LeavesStep(n, f) = LeavesStep(n, g)
    <3> HIDE DEF g
    <3> QED
      BY <2>2, <2>4, LeavesStepLocal
  <2>6. g = [n \in high |-> LeavesStep(n, g)]
    BY <2>5
  <2> HIDE DEF g
  <2>7. AreLeaves(g, Shallow(value, d + 1))
    BY <2>6 DEF AreLeaves, high
  <2> QED
    BY <1>1, <2>7
<1>4. \A d \in 0..(MaxDepth + 1) : d \in T
  <2> HIDE DEF T
  <2> QED
    BY <1>1, <1>2, <1>3, BoundedInduction
<1>5. \E f : AreLeaves(f, Nodes(value))
  BY <1>1, <1>4, Heights
<1> QED
  BY <1>5, Zenon DEF LeavesIn

\* The leaves of a value are those of its parts.
LEMMA LeavesOfParts ==
    ASSUME NEW value, Bounded(value)
    PROVE  Leaves(value) = IF Entries(value) = {} THEN {[path |-> <<>>, value |-> value]}
                           ELSE UNION {Below(e[1], Leaves(e[2])) : e \in Entries(value)}
<1>1. \A v : Leaves(v) = LeavesIn(v)[v]
  BY Zenon DEF Leaves, LeavesIn, AreLeaves, LeavesStep
<1>2. \A v : Bounded(v) => /\ v \in Nodes(v)
                           /\ \A n \in Nodes(v) : LeavesIn(v)[n] = LeavesStep(n, LeavesIn(v))
  BY LeavesExist, NodesOfParts DEF AreLeaves
<1>3. ASSUME NEW p \in Parts(value) PROVE LeavesIn(value)[p] = Leaves(p)
  <2> DEFINE T == {n \in Nodes(p) : LeavesIn(value)[n] = LeavesIn(p)[n]}
  <2>1. Bounded(p) /\ p \in Nodes(p)
    BY <1>2, BoundedParts
  <2>2. Nodes(p) \subseteq Nodes(value)
    BY NodesOfParts
  <2>3. ASSUME NEW n \in Nodes(p), Parts(n) \subseteq T PROVE n \in T
    <3>1. LeavesStep(n, LeavesIn(value)) = LeavesStep(n, LeavesIn(p))
      BY <2>3, LeavesStepLocal
    <3> QED
      BY <1>2, <2>1, <2>2, <3>1
  <2>4. Nodes(p) \subseteq T
    <3> HIDE DEF T
    <3> QED
      BY <2>1, <2>3, NodeInduction
  <2> QED
    BY <1>1, <2>1, <2>4
<1> DEFINE E == Entries(value)
           A(e) == Below(e[1], LeavesIn(value)[e[2]])
           B(e) == Below(e[1], Leaves(e[2]))
<1>4. \A e \in E : A(e) = B(e)
  <2> SUFFICES ASSUME NEW e \in E PROVE LeavesIn(value)[e[2]] = Leaves(e[2])
    OBVIOUS
  <2> QED
    BY <1>3 DEF Parts
<1>5. Leaves(value) = LeavesStep(value, LeavesIn(value))
  BY <1>1, <1>2
<1>6. Leaves(value) = IF E = {} THEN {[path |-> <<>>, value |-> value]} ELSE UNION {A(e) : e \in E}
  BY <1>5, Zenon DEF LeavesStep
<1>7. {A(e) : e \in E} = {B(e) : e \in E}
  <2> HIDE DEF A, B, E
  <2> QED
    BY <1>4
<1> QED
  BY <1>6, <1>7, Zenon

LEMMA LeastExists ==
    ASSUME NEW S \in SUBSET Nat, S # {}
    PROVE  \E i \in S : \A j \in S : i <= j
<1>1. PICK i \in S : \A j \in S : ~(<<j, i>> \in OpToRel(<, Nat))
  BY NatLessThanWellFounded, WFMin
<1>2. \A j \in S : ~(j < i)
  BY <1>1 DEF OpToRel
<1> QED
  BY <1>2

\* A path is a sequence of steps.
IsPath(p) == \E S : p \in Seq(S)

LEMMA Prepended ==
    ASSUME NEW s, NEW p, IsPath(p)
    PROVE  /\ IsPath(<<s>> \o p) /\ Len(p) \in Nat /\ DOMAIN p = 1..Len(p)
           /\ Len(<<s>> \o p) = Len(p) + 1 /\ DOMAIN (<<s>> \o p) = 1..(Len(p) + 1)
           /\ (<<s>> \o p)[1] = s
           /\ \A i \in 1..Len(p) : (<<s>> \o p)[i + 1] = p[i]
<1> PICK S : p \in Seq(S)
  BY DEF IsPath
<1> DEFINE U == S \cup {s}
<1>1. p \in Seq(U) /\ <<s>> \in Seq(U) /\ Len(<<s>>) = 1
  OBVIOUS
<1>2. <<s>> \o p \in Seq(U)
  BY <1>1
<1> QED
  BY <1>1, <1>2 DEF IsPath

\* What begins a path with one more step is that step and what begins the path.
LEMMA PathPrefixes ==
    ASSUME NEW s, NEW p, IsPath(p)
    PROVE  /\ SubSeq(<<s>> \o p, 1, 1) = <<s>>
           /\ \A m \in 1..Len(p) : SubSeq(<<s>> \o p, 1, m + 1) = <<s>> \o SubSeq(p, 1, m)
<1> PICK S : p \in Seq(S)
  BY DEF IsPath
<1> DEFINE U == S \cup {s}
           q == <<s>> \o p
<1>1. p \in Seq(U) /\ <<s>> \in Seq(U)
  OBVIOUS
<1>2. q \in Seq(U) /\ Len(q) = Len(p) + 1 /\ q[1] = s /\ \A i \in 1..Len(p) : q[i + 1] = p[i]
  BY <1>1, Prepended
<1>3. Len(p) \in Nat
  OBVIOUS
<1> HIDE DEF q, U
<1>4. SubSeq(q, 1, 1) = <<s>>
  <2>1. SubSeq(q, 1, 1) \in Seq(U) /\ Len(SubSeq(q, 1, 1)) = 1 /\ SubSeq(q, 1, 1)[1] = q[1]
    BY <1>2, <1>3
  <2> DEFINE a == SubSeq(q, 1, 1)
             b == <<s>>
  <2>2. b \in Seq(U) /\ Len(b) = 1 /\ b[1] = s
    BY <1>1
  <2> HIDE DEF a, b
  <2>3. a \in Seq(U) /\ Len(a) = Len(b) /\ \A i \in 1..Len(a) : a[i] = b[i]
    BY <1>2, <2>1, <2>2 DEF a
  <2> QED
    BY <2>2, <2>3, SeqEqual DEF a, b
<1>5. ASSUME NEW m \in 1..Len(p) PROVE SubSeq(q, 1, m + 1) = <<s>> \o SubSeq(p, 1, m)
  <2> DEFINE a == SubSeq(q, 1, m + 1)
             r == SubSeq(p, 1, m)
             b == <<s>> \o r
  <2>1. a \in Seq(U) /\ Len(a) = m + 1 /\ \A i \in 1..(m + 1) : a[i] = q[i]
    BY <1>2, <1>3
  <2>2. r \in Seq(U) /\ Len(r) = m /\ \A i \in 1..m : r[i] = p[i]
    BY <1>1, <1>3
  <2> HIDE DEF a, r
  <2>3. IsPath(r)
    BY <2>2 DEF IsPath
  <2>4. b \in Seq(U)
    BY <1>1, <2>2
  <2>5. Len(b) = m + 1 /\ b[1] = s /\ \A i \in 1..m : b[i + 1] = r[i]
    BY <2>2, <2>3, Prepended
  <2> HIDE DEF b
  <2>6. ASSUME NEW i \in 1..(m + 1) PROVE a[i] = b[i]
    <3>1. CASE i = 1
      BY <1>2, <2>1, <2>5, <3>1
    <3>2. CASE i # 1
      <4>1. i - 1 \in 1..m /\ i - 1 \in 1..Len(p) /\ i - 1 + 1 = i
        BY <1>3, <3>2
      <4>2. q[i] = p[i - 1] /\ b[i] = r[i - 1] /\ r[i - 1] = p[i - 1]
        BY <1>2, <2>2, <2>5, <4>1
      <4> QED
        BY <2>1, <4>2
    <3> QED
      BY <3>1, <3>2
  <2> QED
    BY <2>1, <2>4, <2>5, <2>6, SeqEqual DEF a, b, r
<1> QED
  BY <1>4, <1>5 DEF q

LEMMA LeafPaths ==
    ASSUME NEW value, Bounded(value)
    PROVE  \A leaf \in Leaves(value) : IsPath(leaf.path)
<1> DEFINE Fine(n) == \A leaf \in Leaves(n) : IsPath(leaf.path)
           T == {n \in Nodes(value) : Fine(n)}
<1>1. ASSUME NEW n \in Nodes(value), Parts(n) \subseteq T PROVE Fine(n)
  <2>1. Leaves(n) = IF Entries(n) = {} THEN {[path |-> <<>>, value |-> n]}
                    ELSE UNION {Below(e[1], Leaves(e[2])) : e \in Entries(n)}
    BY BoundedNodes, LeavesOfParts
  <2> TAKE leaf \in Leaves(n)
  <2>2. CASE Entries(n) = {}
    <3>1. leaf.path = <<>> /\ <<>> \in Seq({})
      BY <2>1, <2>2
    <3> QED
      BY <3>1 DEF IsPath
  <2>3. CASE Entries(n) # {}
    <3>1. PICK e \in Entries(n) : leaf \in Below(e[1], Leaves(e[2]))
      BY <2>1, <2>3
    <3>2. PICK l \in Leaves(e[2]) : leaf = [path |-> <<e[1]>> \o l.path, value |-> l.value]
      BY <3>1 DEF Below
    <3>3. Fine(e[2])
      BY <1>1 DEF Parts
    <3>4. leaf.path = <<e[1]>> \o l.path /\ IsPath(l.path)
      BY <3>2, <3>3
    <3> QED
      BY <3>4, Prepended
  <2> QED
    BY <2>2, <2>3
<1>2. Nodes(value) \subseteq T
  <2> HIDE DEF Fine
  <2> QED
    BY <1>1, NodeInduction
<1>3. value \in Nodes(value)
  BY NodesOfParts
<1> QED
  BY <1>2, <1>3

-----------------------------------------------------------------------------
\* Redaction.

RedactStep(node, patterns, redact) ==
    IF IsList(node) THEN List([i \in DOMAIN node.array |-> redact[node.array[i]]])
    ELSE IF IsRecord(node)
    THEN Object([k \in DOMAIN node.object |->
                   IF MatchesPattern(k, patterns) THEN Redacted ELSE redact[node.object[k]]])
    ELSE node

AreRedacted(redact, nodes, patterns) == redact = [n \in nodes |-> RedactStep(n, patterns, redact)]
RedactIn(value, patterns) == CHOOSE redact : AreRedacted(redact, Nodes(value), patterns)

RedactEntry(entry, patterns, redact) ==
    <<entry[1], IF IsSecretStep(entry[1], patterns) THEN Redacted ELSE redact[entry[2]]>>

\* An object or a list keeps its fields or items, each redacted.
LEMMA RedactEntries ==
    ASSUME NEW n, WellFormed(n), NEW patterns, NEW redact
    PROVE  LET stored == RedactStep(n, patterns, redact)
           IN  /\ WellFormed(stored)
               /\ Entries(stored) = {RedactEntry(e, patterns, redact) : e \in Entries(n)}
               /\ Entries(n) = {} => stored = n
<1> DEFINE stored == RedactStep(n, patterns, redact)
<1>1. CASE IsList(n)
  <2> DEFINE items == [i \in DOMAIN n.array |-> redact[n.array[i]]]
  <2>1. ~IsRecord(n) /\ n = List([i \in DOMAIN n.array |-> n.array[i]])
    BY <1>1 DEF WellFormed, IsList, IsRecord, List, Object
  <2>2. stored = List(items)
    BY <1>1 DEF RedactStep
  <2>3. DOMAIN items = DOMAIN n.array /\ \A i \in DOMAIN n.array : items[i] = redact[n.array[i]]
    OBVIOUS
  <2>4. items = [i \in DOMAIN items |-> items[i]]
    OBVIOUS
  <2> HIDE DEF items, stored
  <2>5. ~IsRecord(stored) /\ IsList(stored) /\ stored.array = items
    BY <2>2 DEF IsRecord, IsList, List
  <2>6. WellFormed(stored)
    BY <2>2, <2>4, <2>5 DEF WellFormed
  <2>7. Entries(n) = {<<Index(i), n.array[i]>> : i \in DOMAIN n.array}
    BY <1>1, <2>1 DEF Entries
  <2>8. Entries(stored) = {<<Index(i), items[i]>> : i \in DOMAIN n.array}
    BY <2>3, <2>5 DEF Entries
  <2>9. \A i : ~IsSecretStep(Index(i), patterns)
    BY DEF IsSecretStep, Index
  <2>10. \A i \in DOMAIN n.array :
            RedactEntry(<<Index(i), n.array[i]>>, patterns, redact) = <<Index(i), items[i]>>
    BY <2>3, <2>9 DEF RedactEntry
  <2>11. Entries(stored) = {RedactEntry(e, patterns, redact) : e \in Entries(n)}
    <3> DEFINE K == DOMAIN n.array
               old(i) == <<Index(i), n.array[i]>>
               new(i) == <<Index(i), items[i]>>
               R(e) == RedactEntry(e, patterns, redact)
    <3>1. \A i \in K : R(old(i)) = new(i)
      BY <2>10
    <3>2. Entries(n) = {old(i) : i \in K} /\ Entries(stored) = {new(i) : i \in K}
      BY <2>7, <2>8
    <3> HIDE DEF K, old, new, R
    <3>3. Entries(stored) = {R(e) : e \in Entries(n)}
      BY <3>1, <3>2
    <3> QED
      BY <3>3 DEF R
  <2>12. ASSUME Entries(n) = {} PROVE stored = n
    <3>1. DOMAIN n.array = {}
      BY <2>7, <2>12
    <3>2. items = [i \in DOMAIN n.array |-> n.array[i]]
      BY <2>3, <2>4, <3>1
    <3> QED
      BY <2>1, <2>2, <3>2
  <2> QED
    BY <2>6, <2>11, <2>12 DEF stored
<1>2. CASE IsRecord(n)
  <2> DEFINE Field(k) == IF MatchesPattern(k, patterns) THEN Redacted ELSE redact[n.object[k]]
             fields == [k \in DOMAIN n.object |-> Field(k)]
  <2>1. ~IsList(n) /\ n = Object([k \in DOMAIN n.object |-> n.object[k]])
    BY <1>2 DEF WellFormed, IsList, IsRecord, List, Object
  <2>2. stored = Object(fields)
    BY <1>2, <2>1 DEF RedactStep
  <2>3. DOMAIN fields = DOMAIN n.object /\ \A k \in DOMAIN n.object : fields[k] = Field(k)
    OBVIOUS
  <2>4. fields = [k \in DOMAIN fields |-> fields[k]]
    OBVIOUS
  <2> HIDE DEF fields, stored
  <2>5. ~IsList(stored) /\ IsRecord(stored) /\ stored.object = fields
    BY <2>2 DEF IsRecord, IsList, Object
  <2>6. WellFormed(stored)
    BY <2>2, <2>4, <2>5 DEF WellFormed
  <2>7. Entries(n) = {<<Key(k), n.object[k]>> : k \in DOMAIN n.object}
    BY <1>2 DEF Entries
  <2>8. Entries(stored) = {<<Key(k), fields[k]>> : k \in DOMAIN n.object}
    BY <2>3, <2>5 DEF Entries
  <2>9. \A k : IsSecretStep(Key(k), patterns) <=> MatchesPattern(k, patterns)
    BY DEF IsSecretStep, Key
  <2>10. \A k \in DOMAIN n.object :
            RedactEntry(<<Key(k), n.object[k]>>, patterns, redact) = <<Key(k), fields[k]>>
    BY <2>3, <2>9 DEF RedactEntry
  <2>11. Entries(stored) = {RedactEntry(e, patterns, redact) : e \in Entries(n)}
    <3> DEFINE K == DOMAIN n.object
               old(k) == <<Key(k), n.object[k]>>
               new(k) == <<Key(k), fields[k]>>
               R(e) == RedactEntry(e, patterns, redact)
    <3>1. \A k \in K : R(old(k)) = new(k)
      BY <2>10
    <3>2. Entries(n) = {old(k) : k \in K} /\ Entries(stored) = {new(k) : k \in K}
      BY <2>7, <2>8
    <3> HIDE DEF K, old, new, R
    <3>3. Entries(stored) = {R(e) : e \in Entries(n)}
      BY <3>1, <3>2
    <3> QED
      BY <3>3 DEF R
  <2>12. ASSUME Entries(n) = {} PROVE stored = n
    <3>1. DOMAIN n.object = {}
      BY <2>7, <2>12
    <3>2. fields = [k \in DOMAIN n.object |-> n.object[k]]
      BY <2>3, <2>4, <3>1
    <3> QED
      BY <2>1, <2>2, <3>2
  <2> QED
    BY <2>6, <2>11, <2>12 DEF stored
<1>3. CASE ~IsList(n) /\ ~IsRecord(n)
  <2>1. stored = n /\ Entries(n) = {}
    BY <1>3 DEF RedactStep, Entries
  <2> QED
    BY <2>1
<1> QED
  BY <1>1, <1>2, <1>3

LEMMA PartAt ==
    ASSUME NEW n
    PROVE  /\ IsRecord(n) => \A k \in DOMAIN n.object : n.object[k] \in Parts(n)
           /\ ~IsRecord(n) /\ IsList(n) => \A i \in DOMAIN n.array : n.array[i] \in Parts(n)
<1>1. ASSUME IsRecord(n), NEW k \in DOMAIN n.object PROVE n.object[k] \in Parts(n)
  <2>1. <<Key(k), n.object[k]>> \in Entries(n)
    BY <1>1 DEF Entries
  <2>2. <<Key(k), n.object[k]>>[2] = n.object[k]
    OBVIOUS
  <2> QED
    BY <2>1, <2>2 DEF Parts
<1>2. ASSUME ~IsRecord(n), IsList(n), NEW i \in DOMAIN n.array PROVE n.array[i] \in Parts(n)
  <2>1. <<Index(i), n.array[i]>> \in Entries(n)
    BY <1>2 DEF Entries
  <2>2. <<Index(i), n.array[i]>>[2] = n.array[i]
    OBVIOUS
  <2> QED
    BY <2>1, <2>2 DEF Parts
<1> QED
  BY <1>1, <1>2

LEMMA RedactStepLocal ==
    ASSUME NEW n, WellFormed(n), NEW patterns, NEW f, NEW g, \A p \in Parts(n) : f[p] = g[p]
    PROVE  RedactStep(n, patterns, f) = RedactStep(n, patterns, g)
<1>1. CASE IsList(n)
  <2>1. ~IsRecord(n)
    BY <1>1 DEF WellFormed, IsList, IsRecord, List
  <2>2. \A i \in DOMAIN n.array : n.array[i] \in Parts(n)
    BY <1>1, <2>1, PartAt
  <2>3. [i \in DOMAIN n.array |-> f[n.array[i]]] = [i \in DOMAIN n.array |-> g[n.array[i]]]
    BY <2>2
  <2> QED
    BY <1>1, <2>3, Zenon DEF RedactStep
<1>2. CASE ~IsList(n) /\ IsRecord(n)
  <2>1. \A k \in DOMAIN n.object : n.object[k] \in Parts(n)
    BY <1>2, PartAt
  <2> DEFINE F(k) == IF MatchesPattern(k, patterns) THEN Redacted ELSE f[n.object[k]]
             G(k) == IF MatchesPattern(k, patterns) THEN Redacted ELSE g[n.object[k]]
  <2>2. \A k \in DOMAIN n.object : F(k) = G(k)
    BY <2>1
  <2>3. [k \in DOMAIN n.object |-> F(k)] = [k \in DOMAIN n.object |-> G(k)]
    <3> HIDE DEF F, G
    <3> QED
      BY <2>2
  <2> QED
    BY <1>2, <2>3, Zenon DEF RedactStep
<1>3. CASE ~IsList(n) /\ ~IsRecord(n)
  BY <1>3 DEF RedactStep
<1> QED
  BY <1>1, <1>2, <1>3

LEMMA RedactionExists ==
    ASSUME NEW value, IsJson(value), NEW patterns
    PROVE  AreRedacted(RedactIn(value, patterns), Nodes(value), patterns)
<1> DEFINE Are(f, nodes) == AreRedacted(f, nodes, patterns)
           Step(n, f) == RedactStep(n, patterns, f)
           T == {d \in 0..(MaxDepth + 1) : \E f : Are(f, Shallow(value, d))}
<1>1. MaxDepth \in Nat /\ MaxDepth + 1 \in Nat /\ MaxDepth + 1 - 1 = MaxDepth
  BY JsonAssumption
<1>2. Bounded(value) /\ \A n \in Nodes(value) : WellFormed(n)
  BY NodesAreTrees DEF IsJson, Bounded
<1>3. \A f, nodes : Are(f, nodes) <=> f = [n \in nodes |-> Step(n, f)]
  BY DEF AreRedacted
<1>4. \A n \in Nodes(value) : \A f, g : (\A p \in Parts(n) : f[p] = g[p]) => Step(n, f) = Step(n, g)
  BY <1>2, RedactStepLocal
<1> HIDE DEF Are, Step
<1>5. 0 \in T
  <2> DEFINE f == [n \in {} |-> {}]
  <2>1. f = [n \in {} |-> Step(n, f)]
    OBVIOUS
  <2> HIDE DEF f
  <2>2. Are(f, Shallow(value, 0))
    BY <1>2, <1>3, <2>1, Heights
  <2> QED
    BY <1>1, <2>2
<1>6. ASSUME NEW d \in 0..MaxDepth, d \in T PROVE d + 1 \in T
  <2>1. PICK f : Are(f, Shallow(value, d))
    BY <1>6
  <2> DEFINE low == Shallow(value, d)
             high == Shallow(value, d + 1)
             g == [n \in high |-> Step(n, f)]
  <2>2. low \subseteq high /\ high \subseteq Nodes(value) /\ \A n \in high : Parts(n) \subseteq low
    BY <1>2, Heights DEF Shallow
  <2>3. \A n \in low : f[n] = Step(n, f)
    BY <1>3, <2>1
  <2> HIDE DEF low, high
  <2>4. \A n \in low : g[n] = f[n]
    BY <2>2, <2>3
  <2>5. \A n \in high : Step(n, f) = Step(n, g)
    <3> HIDE DEF g
    <3> QED
      BY <1>4, <2>2, <2>4
  <2>6. g = [n \in high |-> Step(n, g)]
    BY <2>5
  <2> HIDE DEF g
  <2>7. Are(g, Shallow(value, d + 1))
    BY <1>3, <2>6 DEF high
  <2> QED
    BY <1>1, <2>7
<1>7. \A d \in 0..(MaxDepth + 1) : d \in T
  <2> HIDE DEF T
  <2> QED
    BY <1>1, <1>5, <1>6, BoundedInduction
<1>8. \E f : Are(f, Nodes(value))
  BY <1>1, <1>2, <1>7, Heights
<1> QED
  BY <1>8, Zenon DEF RedactIn, Are

\* Below a step, a leaf is redacted as it was, unless the step is to a secret.
LEMMA RedactedBelow ==
    ASSUME NEW s, NEW leaf, IsPath(leaf.path), NEW patterns
    PROVE  RedactedLeaf([path |-> <<s>> \o leaf.path, value |-> leaf.value], patterns) =
              IF IsSecretStep(s, patterns) THEN [path |-> <<s>>, value |-> Redacted]
              ELSE [path |-> <<s>> \o RedactedLeaf(leaf, patterns).path,
                    value |-> RedactedLeaf(leaf, patterns).value]
<1> DEFINE p == leaf.path
           q == <<s>> \o p
           Secret(path) == {i \in DOMAIN path : IsSecretStep(path[i], patterns)}
           First(path) == CHOOSE i \in Secret(path) : \A j \in Secret(path) : i <= j
           whole == [path |-> q, value |-> leaf.value]
<1>1. /\ Len(p) \in Nat /\ DOMAIN p = 1..Len(p) /\ DOMAIN q = 1..(Len(p) + 1) /\ q[1] = s
      /\ \A i \in 1..Len(p) : q[i + 1] = p[i]
  BY Prepended
<1>2. RedactedLeaf(whole, patterns) =
        IF Secret(q) = {} THEN whole ELSE [path |-> SubSeq(q, 1, First(q)), value |-> Redacted]
  BY Zenon DEF RedactedLeaf
<1>3. RedactedLeaf(leaf, patterns) =
        IF Secret(p) = {} THEN leaf ELSE [path |-> SubSeq(p, 1, First(p)), value |-> Redacted]
  BY Zenon DEF RedactedLeaf
<1>4. Secret(p) \subseteq 1..Len(p) /\ Secret(q) \subseteq 1..(Len(p) + 1)
  BY <1>1
<1>5. \A i \in 1..Len(p) : i \in Secret(p) <=> i + 1 \in Secret(q)
  BY <1>1
<1>6. 1 \in Secret(q) <=> IsSecretStep(s, patterns)
  BY <1>1
<1> HIDE DEF Secret, p, q
<1>7. CASE IsSecretStep(s, patterns)
  <2>1. 1 \in Secret(q) /\ \A j \in Secret(q) : 1 <= j
    BY <1>1, <1>4, <1>6, <1>7
  <2>2. \A i \in Secret(q) : (\A j \in Secret(q) : i <= j) => i = 1
    BY <1>1, <1>4, <2>1
  <2>3. First(q) = 1
    BY <2>1, <2>2
  <2>4. SubSeq(q, 1, 1) = <<s>>
    BY PathPrefixes DEF p, q
  <2>5. RedactedLeaf(whole, patterns) = [path |-> <<s>>, value |-> Redacted]
    <3> HIDE DEF First, whole
    <3> QED
      BY <1>2, <2>1, <2>3, <2>4
  <2> QED
    BY <1>7, <2>5 DEF p, q
<1>8. CASE ~IsSecretStep(s, patterns) /\ Secret(p) = {}
  <2>1. Secret(q) = {}
    <3> SUFFICES ASSUME NEW i \in Secret(q) PROVE FALSE
      OBVIOUS
    <3>1. i # 1 /\ i \in 1..(Len(p) + 1)
      BY <1>4, <1>6, <1>8
    <3>2. i - 1 \in 1..Len(p) /\ i - 1 + 1 = i
      BY <1>1, <3>1
    <3> QED
      BY <1>5, <1>8, <3>2
  <2> QED
    BY <1>2, <1>3, <1>8, <2>1 DEF p, q
<1>9. CASE ~IsSecretStep(s, patterns) /\ Secret(p) # {}
  <2>1. First(p) \in Secret(p) /\ \A j \in Secret(p) : First(p) <= j
    <3>1. Secret(p) \subseteq Nat
      BY <1>1, <1>4
    <3>2. \E i \in Secret(p) : \A j \in Secret(p) : i <= j
      BY <1>9, <3>1, LeastExists
    <3> QED
      BY <3>2
  <2> DEFINE m == First(p)
  <2> HIDE DEF m
  <2>2. m \in 1..Len(p) /\ m + 1 \in Secret(q)
    BY <1>4, <1>5, <2>1 DEF m
  <2>3. ASSUME NEW j \in Secret(q) PROVE m + 1 <= j
    <3>1. j # 1 /\ j \in 1..(Len(p) + 1)
      BY <1>4, <1>6, <1>9
    <3>2. j - 1 \in 1..Len(p) /\ j - 1 + 1 = j
      BY <1>1, <3>1
    <3>3. m <= j - 1
      BY <1>5, <2>1, <3>2 DEF m
    <3> QED
      BY <1>1, <2>2, <3>1, <3>3
  <2>4. \A i \in Secret(q) : (\A j \in Secret(q) : i <= j) => i = m + 1
    BY <1>1, <1>4, <2>2, <2>3
  <2>5. First(q) = m + 1
    BY <2>2, <2>3, <2>4
  <2>6. SubSeq(q, 1, m + 1) = <<s>> \o SubSeq(p, 1, m)
    BY <1>1, <2>2, PathPrefixes DEF p, q
  <2>7. RedactedLeaf(whole, patterns) = [path |-> <<s>> \o SubSeq(p, 1, m), value |-> Redacted]
    <3> HIDE DEF First, whole
    <3> QED
      BY <1>2, <2>2, <2>5, <2>6
  <2>8. RedactedLeaf(leaf, patterns) = [path |-> SubSeq(p, 1, m), value |-> Redacted]
    BY <1>3, <1>9 DEF m
  <2> QED
    BY <1>9, <2>7, <2>8 DEF p, q
<1> QED
  BY <1>7, <1>8, <1>9 DEF p, q

\* What has no parts is a leaf.
LEMMA ScalarLeaf ==
    ASSUME NEW v, Entries(v) = {}
    PROVE  /\ \A d \in 1..(MaxDepth + 1) : Level(v)[d] = {}
           /\ Bounded(v) /\ Leaves(v) = {[path |-> <<>>, value |-> v]}
<1>1. MaxDepth \in Nat
  BY JsonAssumption
<1>2. Parts(v) = {}
  BY DEF Parts
<1>3. \A d \in 0..MaxDepth : Level(v)[d + 1] = {}
  BY <1>2, LevelOfParts
<1>4. \A d \in 1..(MaxDepth + 1) : Level(v)[d] = {}
  <2> TAKE d \in 1..(MaxDepth + 1)
  <2>1. d - 1 \in 0..MaxDepth /\ d - 1 + 1 = d
    BY <1>1
  <2> QED
    BY <1>3, <2>1
<1>5. Bounded(v)
  BY <1>1, <1>4 DEF Bounded
<1> QED
  BY <1>4, <1>5, LeavesOfParts

LEMMA MarkerLeaf ==
    /\ \A d \in 1..(MaxDepth + 1) : Level(Redacted)[d] = {}
    /\ IsJson(Redacted) /\ Leaves(Redacted) = {[path |-> <<>>, value |-> Redacted]}
<1>1. Entries(Redacted) = {} /\ Parts(Redacted) = {} /\ WellFormed(Redacted)
  BY DEF Entries, Parts, WellFormed, IsRecord, IsList, Redacted, Text
<1> QED
  BY <1>1, ScalarLeaf, TreeOfParts

\* A tree has a leaf.
LEMMA SomeLeaf ==
    ASSUME NEW value, Bounded(value)
    PROVE  Leaves(value) # {}
<1> DEFINE T == {n \in Nodes(value) : Leaves(n) # {}}
<1>1. ASSUME NEW n \in Nodes(value), Parts(n) \subseteq T PROVE Leaves(n) # {}
  <2>1. Leaves(n) = IF Entries(n) = {} THEN {[path |-> <<>>, value |-> n]}
                    ELSE UNION {Below(e[1], Leaves(e[2])) : e \in Entries(n)}
    BY BoundedNodes, LeavesOfParts
  <2>2. CASE Entries(n) # {}
    <3>1. PICK e \in Entries(n) : TRUE
      BY <2>2
    <3>2. PICK l \in Leaves(e[2]) : TRUE
      BY <1>1 DEF Parts
    <3>3. Below(e[1], Leaves(e[2])) # {}
      BY <3>2 DEF Below
    <3> QED
      BY <2>1, <2>2, <3>3
  <2> QED
    BY <2>1, <2>2
<1>2. Nodes(value) \subseteq T
  BY <1>1, NodeInduction
<1>3. value \in Nodes(value)
  BY NodesOfParts
<1> QED
  BY <1>2, <1>3

LeafBelow(step, leaf) == [path |-> <<step>> \o leaf.path, value |-> leaf.value]

\* The leaves below a field.
LEMMA LeavesAt ==
    ASSUME NEW v, Bounded(v), IsRecord(v), NEW k
    PROVE  /\ \A leaf \in Leaves(v) : Len(leaf.path) >= 1 /\ leaf.path[1] = Key(k) =>
                k \in DOMAIN v.object /\ \E l \in Leaves(v.object[k]) : leaf = LeafBelow(Key(k), l)
           /\ k \in DOMAIN v.object => \A l \in Leaves(v.object[k]) :
                 /\ LeafBelow(Key(k), l) \in Leaves(v)
                 /\ Len(LeafBelow(Key(k), l).path) >= 1 /\ LeafBelow(Key(k), l).path[1] = Key(k)
<1>1. Leaves(v) = IF Entries(v) = {} THEN {[path |-> <<>>, value |-> v]}
                  ELSE UNION {Below(e[1], Leaves(e[2])) : e \in Entries(v)}
  BY LeavesOfParts
<1>2. \A e : e \in Entries(v) <=> \E j \in DOMAIN v.object : e = <<Key(j), v.object[j]>>
  BY DEF Entries
<1>3. \A step, leaves, leaf : leaf \in Below(step, leaves) <=> \E l \in leaves : leaf = LeafBelow(step, l)
  BY DEF Below, LeafBelow
<1>4. \A j \in DOMAIN v.object : \A l \in Leaves(v.object[j]) :
         /\ IsPath(l.path) /\ Len(LeafBelow(Key(j), l).path) = Len(l.path) + 1 /\ Len(l.path) \in Nat
         /\ LeafBelow(Key(j), l).path[1] = Key(j)
  <2> TAKE j \in DOMAIN v.object
  <2> TAKE l \in Leaves(v.object[j])
  <2>1. Bounded(v.object[j])
    BY PartAt, BoundedParts
  <2>2. IsPath(l.path)
    BY <2>1, LeafPaths
  <2>3. LeafBelow(Key(j), l).path = <<Key(j)>> \o l.path
    BY DEF LeafBelow
  <2> QED
    BY <2>2, <2>3, Prepended
<1>5. ASSUME NEW leaf \in Leaves(v), Len(leaf.path) >= 1, leaf.path[1] = Key(k)
      PROVE  k \in DOMAIN v.object /\ \E l \in Leaves(v.object[k]) : leaf = LeafBelow(Key(k), l)
  <2>1. Entries(v) # {}
    <3> SUFFICES ASSUME Entries(v) = {} PROVE FALSE
      OBVIOUS
    <3>1. leaf.path = <<>>
      BY <1>1
    <3> QED
      BY <1>5, <3>1
  <2>2. PICK e \in Entries(v) : leaf \in Below(e[1], Leaves(e[2]))
    BY <1>1, <2>1
  <2>3. PICK j \in DOMAIN v.object : e = <<Key(j), v.object[j]>>
    BY <1>2
  <2>4. leaf \in Below(Key(j), Leaves(v.object[j]))
    BY <2>2, <2>3
  <2>5. PICK l \in Leaves(v.object[j]) : leaf = LeafBelow(Key(j), l)
    BY <1>3, <2>4
  <2>6. Key(j) = Key(k)
    BY <1>4, <1>5, <2>5
  <2>7. j = k
    BY <2>6 DEF Key
  <2> QED
    BY <2>5, <2>7
<1>6. ASSUME k \in DOMAIN v.object, NEW l \in Leaves(v.object[k]) PROVE LeafBelow(Key(k), l) \in Leaves(v)
  <2> DEFINE e == <<Key(k), v.object[k]>>
  <2>1. e \in Entries(v) /\ e[1] = Key(k) /\ e[2] = v.object[k]
    BY <1>2, <1>6
  <2> HIDE DEF e
  <2>2. LeafBelow(Key(k), l) \in Below(e[1], Leaves(e[2]))
    BY <1>3, <1>6, <2>1
  <2> QED
    BY <1>1, <2>1, <2>2
<1> QED
  BY <1>4, <1>5, <1>6

\* Every leaf of an object that is not empty is below a field.
LEMMA FieldOfLeaf ==
    ASSUME NEW v, Bounded(v), IsRecord(v), DOMAIN v.object # {}, NEW leaf \in Leaves(v)
    PROVE  \E k \in DOMAIN v.object : Len(leaf.path) >= 1 /\ leaf.path[1] = Key(k)
<1>1. \A e : e \in Entries(v) <=> \E j \in DOMAIN v.object : e = <<Key(j), v.object[j]>>
  BY DEF Entries
<1>2. PICK e \in Entries(v) : leaf \in Below(e[1], Leaves(e[2]))
  <2>1. Entries(v) # {}
    BY <1>1
  <2> QED
    BY <2>1, LeavesOfParts
<1>3. PICK k \in DOMAIN v.object : e = <<Key(k), v.object[k]>>
  BY <1>1
<1>4. PICK l \in Leaves(v.object[k]) : leaf = LeafBelow(Key(k), l)
  BY <1>2, <1>3 DEF Below, LeafBelow
<1> QED
  BY <1>4, LeavesAt

\* Redaction of the entries redacts the whole.
LEMMA RedactsBranch ==
    ASSUME NEW n, NEW stored, NEW patterns, NEW redact,
           Bounded(n), Bounded(stored),
           Entries(stored) = {RedactEntry(e, patterns, redact) : e \in Entries(n)},
           Entries(n) = {} => stored = n,
           \A p \in Parts(n) : IsRedactionOf(redact[p], p, patterns)
    PROVE  IsRedactionOf(stored, n, patterns)
<1> DEFINE Put(e, l) == [path |-> <<e[1]>> \o l.path, value |-> l.value]
           Kept(e) == IF IsSecretStep(e[1], patterns) THEN Redacted ELSE redact[e[2]]
           Hidden(leaf) == RedactedLeaf(leaf, patterns)
           Marker(e) == [path |-> <<e[1]>>, value |-> Redacted]
<1>1. CASE Entries(n) = {}
  <2>1. Leaves(n) = {[path |-> <<>>, value |-> n]} /\ stored = n
    BY <1>1, LeavesOfParts
  <2>2. \A leaf \in Leaves(n) : Hidden(leaf) = leaf
    BY <2>1 DEF RedactedLeaf
  <2> HIDE DEF Hidden
  <2>3. Leaves(stored) = {Hidden(leaf) : leaf \in Leaves(n)}
    BY <2>1, <2>2
  <2> QED
    BY <2>3 DEF IsRedactionOf, Hidden
<1>2. CASE Entries(n) # {}
  <2>1. \A leaf : leaf \in Leaves(n) <=> \E e \in Entries(n) : leaf \in Below(e[1], Leaves(e[2]))
    BY <1>2, LeavesOfParts
  <2>2. \A leaf : leaf \in Leaves(n) <=> \E e \in Entries(n) : \E l \in Leaves(e[2]) : leaf = Put(e, l)
    BY <2>1 DEF Below
  <2>3. \A e : RedactEntry(e, patterns, redact)[1] = e[1] /\ RedactEntry(e, patterns, redact)[2] = Kept(e)
    BY DEF RedactEntry
  <2>4. Entries(stored) # {}
    BY <1>2
  <2>5. \A leaf : leaf \in Leaves(stored) <=> \E f \in Entries(stored) : leaf \in Below(f[1], Leaves(f[2]))
    BY <2>4, LeavesOfParts
  <2>6. \A leaf : leaf \in Leaves(stored) <=> \E e \in Entries(n) : leaf \in Below(e[1], Leaves(Kept(e)))
    <3> HIDE DEF Kept
    <3> QED
      BY <2>3, <2>5
  <2>7. \A leaf : leaf \in Leaves(stored) <=> \E e \in Entries(n) : \E l \in Leaves(Kept(e)) : leaf = Put(e, l)
    BY <2>6 DEF Below
  <2>8. \A e \in Entries(n) : Bounded(e[2]) /\ IsRedactionOf(redact[e[2]], e[2], patterns)
    BY BoundedParts DEF Parts
  <2>9. \A e \in Entries(n) : /\ \E l \in Leaves(e[2]) : TRUE
                              /\ \A l \in Leaves(e[2]) : IsPath(l.path)
    BY <2>8, SomeLeaf, LeafPaths
  <2>10. \A e \in Entries(n) : \A l \in Leaves(e[2]) :
            Hidden(Put(e, l)) = IF IsSecretStep(e[1], patterns) THEN Marker(e) ELSE Put(e, Hidden(l))
    BY <2>9, RedactedBelow
  <2>11. \A e \in Entries(n) : IsSecretStep(e[1], patterns) =>
            \A leaf : (\E l \in Leaves(Kept(e)) : leaf = Put(e, l)) <=> leaf = Marker(e)
    <3> SUFFICES ASSUME NEW e \in Entries(n), IsSecretStep(e[1], patterns)
                 PROVE  \A leaf : (\E l \in Leaves(Kept(e)) : leaf = Put(e, l)) <=> leaf = Marker(e)
      OBVIOUS
    <3>1. Leaves(Kept(e)) = {[path |-> <<>>, value |-> Redacted]}
      BY MarkerLeaf
    <3>2. <<e[1]>> \o <<>> = <<e[1]>>
      <4>1. <<e[1]>> \in Seq({e[1]})
        OBVIOUS
      <4> QED
        BY <4>1, ConcatEmptySeq
    <3>3. Put(e, [path |-> <<>>, value |-> Redacted]) = Marker(e)
      BY <3>2
    <3> HIDE DEF Put, Marker, Kept
    <3> QED
      BY <3>1, <3>3
  <2>12. \A e \in Entries(n) : ~IsSecretStep(e[1], patterns) =>
            Leaves(Kept(e)) = {Hidden(l) : l \in Leaves(e[2])}
    BY <2>8 DEF IsRedactionOf
  <2> HIDE DEF Put, Kept, Hidden, Marker
  <2>13. ASSUME NEW leaf \in Leaves(stored) PROVE \E l \in Leaves(n) : leaf = Hidden(l)
    <3>1. PICK e \in Entries(n) : \E l \in Leaves(Kept(e)) : leaf = Put(e, l)
      BY <2>7
    <3>2. CASE IsSecretStep(e[1], patterns)
      <4>1. PICK l \in Leaves(e[2]) : TRUE
        BY <2>9
      <4>2. Put(e, l) \in Leaves(n) /\ Hidden(Put(e, l)) = leaf
        BY <2>2, <2>10, <2>11, <3>1, <3>2
      <4> QED
        BY <4>2
    <3>3. CASE ~IsSecretStep(e[1], patterns)
      <4>1. PICK l \in Leaves(e[2]) : leaf = Put(e, Hidden(l))
        BY <2>12, <3>1, <3>3
      <4>2. Put(e, l) \in Leaves(n) /\ Hidden(Put(e, l)) = leaf
        BY <2>2, <2>10, <3>3, <4>1
      <4> QED
        BY <4>2
    <3> QED
      BY <3>2, <3>3
  <2>14. ASSUME NEW leaf \in Leaves(n) PROVE Hidden(leaf) \in Leaves(stored)
    <3>1. PICK e \in Entries(n) : \E l \in Leaves(e[2]) : leaf = Put(e, l)
      BY <2>2
    <3>2. PICK l \in Leaves(e[2]) : leaf = Put(e, l)
      BY <3>1
    <3>3. CASE IsSecretStep(e[1], patterns)
      BY <2>7, <2>10, <2>11, <3>2, <3>3
    <3>4. CASE ~IsSecretStep(e[1], patterns)
      <4>1. Hidden(l) \in Leaves(Kept(e))
        BY <2>12, <3>4
      <4> QED
        BY <2>7, <2>10, <3>2, <3>4, <4>1
    <3> QED
      BY <3>3, <3>4
  <2>15. Leaves(stored) = {Hidden(leaf) : leaf \in Leaves(n)}
    BY <2>13, <2>14
  <2> QED
    BY <2>15 DEF IsRedactionOf, Hidden
<1> QED
  BY <1>1, <1>2

\* What is stored is no deeper than what it stands for, an object with the same keys
\* if that is one, and its redaction.
LEMMA RedactedTree ==
    ASSUME NEW value, IsJson(value), NEW patterns
    PROVE  LET stored == RedactValue(value, patterns)
           IN  /\ Bounded(stored) /\ IsRedactionOf(stored, value, patterns)
               /\ IsRecord(value) =>
                     /\ IsRecord(stored) /\ DOMAIN stored.object = DOMAIN value.object
<1> DEFINE R == RedactIn(value, patterns)
           Flat(n) == \A d \in 1..(MaxDepth + 1) : Level(n)[d] = {} => Level(R[n])[d] = {}
           Fine(n) == Flat(n) /\ IsRedactionOf(R[n], n, patterns)
           T == {n \in Nodes(value) : Fine(n)}
<1>1. MaxDepth \in Nat
  BY JsonAssumption
<1>2. Bounded(value) /\ value \in Nodes(value)
  BY NodesOfParts DEF IsJson, Bounded
<1>3. \A n \in Nodes(value) : R[n] = RedactStep(n, patterns, R)
  BY RedactionExists DEF AreRedacted
<1>4. RedactValue(value, patterns) = R[value]
  BY Zenon DEF RedactValue, RedactIn, AreRedacted, RedactStep
<1> HIDE DEF R
<1>5. ASSUME NEW n \in Nodes(value), Parts(n) \subseteq T PROVE Fine(n)
  <2> DEFINE stored == R[n]
             Kept(e) == IF IsSecretStep(e[1], patterns) THEN Redacted ELSE R[e[2]]
  <2>1. Bounded(n) /\ WellFormed(n)
    BY <1>2, BoundedNodes, NodesAreTrees
  <2>2. Entries(stored) = {RedactEntry(e, patterns, R) : e \in Entries(n)} /\ (Entries(n) = {} => stored = n)
    BY <1>3, <2>1, RedactEntries
  <2>3. \A e : RedactEntry(e, patterns, R)[2] = Kept(e)
    BY DEF RedactEntry
  <2>4. \A q \in Parts(stored) : \E e \in Entries(n) : q = Kept(e)
    <3> HIDE DEF Kept
    <3> QED
      BY <2>2, <2>3 DEF Parts
  <2>5. \A e \in Entries(n) : e[2] \in Parts(n)
    BY DEF Parts
  <2>6. Flat(n)
    <3> SUFFICES ASSUME NEW d \in 1..(MaxDepth + 1), Level(n)[d] = {} PROVE Level(stored)[d] = {}
      OBVIOUS
    <3>1. d - 1 \in 0..MaxDepth /\ d - 1 + 1 = d
      BY <1>1
    <3>2. Level(stored)[d] = UNION {Level(q)[d - 1] : q \in Parts(stored)}
      BY <3>1, LevelOfParts
    <3>3. ASSUME NEW q \in Parts(stored) PROVE Level(q)[d - 1] = {}
      <4>1. PICK e \in Entries(n) : q = Kept(e)
        BY <2>4
      <4>2. Level(e[2])[d - 1] = {}
        BY <2>5, <3>1, LevelOfPart
      <4>3. d - 1 # 0
        BY <4>2, LevelZero
      <4>4. d - 1 \in 1..(MaxDepth + 1)
        BY <1>1, <4>3
      <4>5. Level(Redacted)[d - 1] = {}
        BY <4>4, MarkerLeaf
      <4>6. Level(R[e[2]])[d - 1] = {}
        BY <1>5, <2>5, <4>2, <4>4
      <4> QED
        BY <4>1, <4>5, <4>6
    <3> QED
      BY <3>2, <3>3
  <2>7. Bounded(stored)
    BY <1>1, <2>1, <2>6 DEF Bounded
  <2>8. IsRedactionOf(stored, n, patterns)
    <3>1. \A p \in Parts(n) : IsRedactionOf(R[p], p, patterns)
      BY <1>5
    <3> HIDE DEF stored
    <3> QED
      BY <2>1, <2>2, <2>7, <3>1, RedactsBranch
  <2> QED
    BY <2>6, <2>8
<1>6. Nodes(value) \subseteq T
  <2> HIDE DEF Fine
  <2> QED
    BY <1>2, <1>5, NodeInduction
<1>7. Bounded(R[value])
  <2>1. Flat(value) /\ MaxDepth + 1 \in 1..(MaxDepth + 1)
    BY <1>1, <1>2, <1>6
  <2> QED
    BY <1>2, <2>1 DEF Bounded
<1>8. ASSUME IsRecord(value)
      PROVE  IsRecord(R[value]) /\ DOMAIN R[value].object = DOMAIN value.object
  <2> DEFINE Field(k) == IF MatchesPattern(k, patterns) THEN Redacted ELSE R[value.object[k]]
             fields == [k \in DOMAIN value.object |-> Field(k)]
  <2>1. ~IsList(value)
    <3>1. WellFormed(value)
      BY <1>2, NodesAreTrees
    <3> QED
      BY <1>8, <3>1 DEF WellFormed, IsList, IsRecord, List, Object
  <2>2. R[value] = Object(fields)
    BY <1>2, <1>3, <1>8, <2>1 DEF RedactStep
  <2>3. DOMAIN fields = DOMAIN value.object
    OBVIOUS
  <2> HIDE DEF fields
  <2> QED
    BY <2>2, <2>3 DEF Object, IsRecord
<1> QED
  BY <1>2, <1>4, <1>6, <1>7, <1>8

\* Whatever the arguments and the patterns are, what is stored is their redaction:
\* it has every value that is not below a key that matches a pattern, where it was,
\* the marker at the first key that matches on the way to another, and nothing else.
THEOREM RedactsOnlySecrets ==
    ASSUME NEW value, IsJson(value), NEW patterns
    PROVE  IsRedactionOf(RedactValue(value, patterns), value, patterns)
BY RedactedTree

-----------------------------------------------------------------------------
\* Where markers remain.

MarkersStep(node, markers) ==
    IF node = Redacted THEN {<<>>}
    ELSE UNION {{<<entry[1]>> \o rest : rest \in markers[entry[2]]} : entry \in Entries(node)}

AreMarkers(markers, nodes) == markers = [n \in nodes |-> MarkersStep(n, markers)]
MarkersIn(value) == CHOOSE markers : AreMarkers(markers, Nodes(value))

LEMMA MarkersStepLocal ==
    ASSUME NEW n, NEW f, NEW g, \A p \in Parts(n) : f[p] = g[p]
    PROVE  MarkersStep(n, f) = MarkersStep(n, g)
<1> DEFINE E == Entries(n)
           A(e) == {<<e[1]>> \o rest : rest \in f[e[2]]}
           B(e) == {<<e[1]>> \o rest : rest \in g[e[2]]}
<1>1. \A e \in E : A(e) = B(e)
  <2> SUFFICES ASSUME NEW e \in E PROVE f[e[2]] = g[e[2]]
    OBVIOUS
  <2> QED
    BY DEF Parts
<1>2. MarkersStep(n, f) = IF n = Redacted THEN {<<>>} ELSE UNION {A(e) : e \in E}
  BY Zenon DEF MarkersStep
<1>3. MarkersStep(n, g) = IF n = Redacted THEN {<<>>} ELSE UNION {B(e) : e \in E}
  BY Zenon DEF MarkersStep
<1>4. {A(e) : e \in E} = {B(e) : e \in E}
  <2> HIDE DEF A, B, E
  <2> QED
    BY <1>1
<1> QED
  BY <1>2, <1>3, <1>4, Zenon

LEMMA MarkersExist ==
    ASSUME NEW value, Bounded(value)
    PROVE  AreMarkers(MarkersIn(value), Nodes(value))
<1> DEFINE T == {d \in 0..(MaxDepth + 1) : \E f : AreMarkers(f, Shallow(value, d))}
<1>1. MaxDepth \in Nat /\ MaxDepth + 1 \in Nat /\ MaxDepth + 1 - 1 = MaxDepth
  BY JsonAssumption
<1>2. 0 \in T
  <2> DEFINE f == [n \in {} |-> {}]
  <2>1. f = [n \in {} |-> MarkersStep(n, f)]
    OBVIOUS
  <2> HIDE DEF f
  <2>2. AreMarkers(f, Shallow(value, 0))
    BY <2>1, Heights DEF AreMarkers
  <2> QED
    BY <1>1, <2>2
<1>3. ASSUME NEW d \in 0..MaxDepth, d \in T PROVE d + 1 \in T
  <2>1. PICK f : AreMarkers(f, Shallow(value, d))
    BY <1>3
  <2> DEFINE low == Shallow(value, d)
             high == Shallow(value, d + 1)
             g == [n \in high |-> MarkersStep(n, f)]
  <2>2. low \subseteq high /\ \A n \in high : Parts(n) \subseteq low
    BY Heights
  <2>3. \A n \in low : f[n] = MarkersStep(n, f)
    BY <2>1 DEF AreMarkers
  <2> HIDE DEF low, high
  <2>4. \A n \in low : g[n] = f[n]
    BY <2>2, <2>3
  <2>5. \A n \in high : MarkersStep(n, f) = MarkersStep(n, g)
    <3> HIDE DEF g
    <3> QED
      BY <2>2, <2>4, MarkersStepLocal
  <2>6. g = [n \in high |-> MarkersStep(n, g)]
    BY <2>5
  <2> HIDE DEF g
  <2>7. AreMarkers(g, Shallow(value, d + 1))
    BY <2>6 DEF AreMarkers, high
  <2> QED
    BY <1>1, <2>7
<1>4. \A d \in 0..(MaxDepth + 1) : d \in T
  <2> HIDE DEF T
  <2> QED
    BY <1>1, <1>2, <1>3, BoundedInduction
<1>5. \E f : AreMarkers(f, Nodes(value))
  BY <1>1, <1>4, Heights
<1> QED
  BY <1>5, Zenon DEF MarkersIn

\* A tree in which no marker remains has none for a leaf.
LEMMA NoMarkerLeft ==
    ASSUME NEW value, Bounded(value), RedactedMarkerKeys(value) = {}
    PROVE  \A leaf \in Leaves(value) : leaf.value # Redacted
<1> DEFINE M == MarkersIn(value)
           Fine(n) == M[n] = {} => \A leaf \in Leaves(n) : leaf.value # Redacted
           T == {n \in Nodes(value) : Fine(n)}
<1>1. M[value] = {}
  BY Zenon DEF RedactedMarkerKeys, MarkersIn, AreMarkers, MarkersStep
<1>2. \A n \in Nodes(value) : M[n] = MarkersStep(n, M)
  BY MarkersExist DEF AreMarkers
<1> HIDE DEF M
<1>3. ASSUME NEW n \in Nodes(value), Parts(n) \subseteq T PROVE Fine(n)
  <2> SUFFICES ASSUME M[n] = {}, NEW leaf \in Leaves(n) PROVE leaf.value # Redacted
    OBVIOUS
  <2>1. Leaves(n) = IF Entries(n) = {} THEN {[path |-> <<>>, value |-> n]}
                    ELSE UNION {Below(e[1], Leaves(e[2])) : e \in Entries(n)}
    BY BoundedNodes, LeavesOfParts
  <2>2. MarkersStep(n, M) = {}
    BY <1>2
  <2>3. n # Redacted
    BY <2>2 DEF MarkersStep
  <2>4. ASSUME NEW e \in Entries(n) PROVE M[e[2]] = {}
    <3> DEFINE A(f) == {<<f[1]>> \o rest : rest \in M[f[2]]}
    <3>1. UNION {A(f) : f \in Entries(n)} = {}
      BY <2>2, <2>3, Zenon DEF MarkersStep
    <3>2. A(e) = {}
      <4> HIDE DEF A
      <4> QED
        BY <3>1
    <3> QED
      BY <3>2
  <2>5. CASE Entries(n) = {}
    BY <2>1, <2>3, <2>5
  <2>6. CASE Entries(n) # {}
    <3>1. PICK e \in Entries(n) : leaf \in Below(e[1], Leaves(e[2]))
      BY <2>1, <2>6
    <3>2. PICK l \in Leaves(e[2]) : leaf.value = l.value
      BY <3>1 DEF Below
    <3>3. Fine(e[2])
      BY <1>3 DEF Parts
    <3> QED
      BY <2>4, <3>2, <3>3
  <2> QED
    BY <2>5, <2>6
<1>4. Nodes(value) \subseteq T
  <2> HIDE DEF Fine
  <2> QED
    BY <1>3, NodeInduction
<1>5. value \in Nodes(value)
  BY NodesOfParts
<1> QED
  BY <1>1, <1>4, <1>5

\* The texts of --set over the fields of what is stored.
LEMMA OverridesApplied ==
    ASSUME NEW stored, NEW overrides
    PROVE  LET sent == ApplyOverrides(stored, overrides)
           IN  /\ sent = Object(sent.object)
               /\ IsRecord(sent)
               /\ DOMAIN sent.object = DOMAIN overrides \cup DOMAIN stored.object
               /\ \A k \in DOMAIN sent.object :
                     sent.object[k] = IF k \in DOMAIN overrides THEN Text(overrides[k]) ELSE stored.object[k]
               /\ sent.object = [k \in DOMAIN sent.object |-> sent.object[k]]
<1> DEFINE texts == [k \in DOMAIN overrides |-> Text(overrides[k])]
           fields == Over(texts, stored.object)
           sent == ApplyOverrides(stored, overrides)
<1>1. DOMAIN texts = DOMAIN overrides /\ \A k \in DOMAIN overrides : texts[k] = Text(overrides[k])
  OBVIOUS
<1>2. sent = Object(fields)
  BY Zenon DEF ApplyOverrides
<1> HIDE DEF texts
<1>3. /\ DOMAIN fields = DOMAIN texts \cup DOMAIN stored.object
      /\ \A k \in DOMAIN fields : fields[k] = IF k \in DOMAIN texts THEN texts[k] ELSE stored.object[k]
      /\ fields = [k \in DOMAIN fields |-> fields[k]]
  BY DEF Over
<1> HIDE DEF fields, sent
<1>4. sent.object = fields /\ IsRecord(sent)
  BY <1>2 DEF Object, IsRecord
<1> QED
  BY <1>1, <1>2, <1>3, <1>4 DEF sent

LEMMA TextLeaf ==
    ASSUME NEW s
    PROVE  Bounded(Text(s)) /\ Leaves(Text(s)) = {[path |-> <<>>, value |-> Text(s)]}
<1>1. Entries(Text(s)) = {}
  BY DEF Entries, IsRecord, IsList, Text
<1> QED
  BY <1>1, ScalarLeaf

\* An object of bounded fields is bounded, if there is room for it.
LEMMA ObjectBounded ==
    ASSUME NEW v, IsRecord(v), NEW stored, IsRecord(stored), Bounded(stored), MaxDepth >= 1, NEW texts,
           \A k \in DOMAIN v.object :
              \/ v.object[k] = Text(texts[k])
              \/ k \in DOMAIN stored.object /\ v.object[k] = stored.object[k]
    PROVE  Bounded(v)
<1>1. MaxDepth \in Nat /\ MaxDepth \in 1..(MaxDepth + 1) /\ MaxDepth \in 0..MaxDepth
  BY JsonAssumption
<1>2. ASSUME NEW p \in Parts(v) PROVE Level(p)[MaxDepth] = {}
  <2>1. PICK k \in DOMAIN v.object : p = v.object[k]
    BY DEF Parts, Entries
  <2>2. CASE p = Text(texts[k])
    <3>1. Entries(p) = {}
      BY <2>2 DEF Entries, IsRecord, IsList, Text
    <3> QED
      BY <1>1, <3>1, ScalarLeaf
  <2>3. CASE k \in DOMAIN stored.object /\ p = stored.object[k]
    <3>1. p \in Parts(stored)
      BY <2>3, PartAt
    <3>2. Level(p)[MaxDepth] \subseteq Level(stored)[MaxDepth + 1]
      BY <1>1, <3>1, LevelOfPart
    <3> QED
      BY <3>2 DEF Bounded
  <2> QED
    BY <2>1, <2>2, <2>3
<1>3. Level(v)[MaxDepth + 1] = UNION {Level(p)[MaxDepth] : p \in Parts(v)}
  BY <1>1, LevelOfParts
<1> QED
  BY <1>2, <1>3 DEF Bounded

\* Redacted, a leaf is as it was or the marker, below the same field.
LEMMA RedactedIs ==
    ASSUME NEW leaf, IsPath(leaf.path), NEW patterns
    PROVE  LET hidden == RedactedLeaf(leaf, patterns)
           IN  \/ hidden = leaf
               \/ /\ hidden.value = Redacted /\ leaf.path # <<>>
                  /\ Len(hidden.path) >= 1 /\ hidden.path[1] = leaf.path[1]
<1> DEFINE p == leaf.path
           secret == {i \in DOMAIN p : IsSecretStep(p[i], patterns)}
           first == CHOOSE i \in secret : \A j \in secret : i <= j
           hidden == RedactedLeaf(leaf, patterns)
<1>1. hidden = IF secret = {} THEN leaf ELSE [path |-> SubSeq(p, 1, first), value |-> Redacted]
  BY Zenon DEF RedactedLeaf
<1>2. PICK S : p \in Seq(S)
  BY DEF IsPath
<1>3. secret \subseteq 1..Len(p) /\ Len(p) \in Nat
  BY <1>2
<1> HIDE DEF secret
<1>4. ASSUME secret # {} PROVE first \in 1..Len(p)
  <2>1. \E i \in secret : \A j \in secret : i <= j
    BY <1>3, <1>4, LeastExists
  <2> QED
    BY <1>3, <2>1
<1> HIDE DEF first, p, hidden
<1>5. CASE secret # {}
  <2>1. Len(SubSeq(p, 1, first)) = first /\ SubSeq(p, 1, first)[1] = p[1] /\ first >= 1 /\ p # <<>>
    BY <1>2, <1>3, <1>4, <1>5
  <2> DEFINE part == SubSeq(p, 1, first)
  <2>2. Len(part) >= 1 /\ part[1] = p[1]
    BY <1>3, <1>4, <1>5, <2>1
  <2> HIDE DEF part
  <2>3. hidden.value = Redacted /\ hidden.path = part
    BY <1>1, <1>5 DEF part
  <2>4. Len(hidden.path) >= 1 /\ hidden.path[1] = p[1]
    BY <2>2, <2>3
  <2> QED
    BY <2>1, <2>3, <2>4, Zenon DEF p, hidden
<1> QED
  BY <1>1, <1>5 DEF hidden

\* What is sent when no marker remains is the call again.
LEMMA SentAgain ==
    ASSUME NEW value, IsJson(value), IsRecord(value), NEW patterns, NEW overrides, MaxDepth >= 1,
           RedactedMarkerKeys(ApplyOverrides(RedactValue(value, patterns), overrides)) = {}
    PROVE  IsCallAgain(ApplyOverrides(RedactValue(value, patterns), overrides), value, overrides)
<1> DEFINE stored == RedactValue(value, patterns)
           sent == ApplyOverrides(stored, overrides)
           Given(k) == [path |-> <<Key(k)>>, value |-> Text(overrides[k])]
           Kept(leaf) == IF leaf.path = <<>> THEN DOMAIN overrides = {}
                         ELSE leaf.path[1].key \notin DOMAIN overrides
<1>1. /\ Bounded(stored) /\ IsRedactionOf(stored, value, patterns)
      /\ IsRecord(stored) /\ DOMAIN stored.object = DOMAIN value.object
  BY RedactedTree
<1> HIDE DEF stored
<1>2. /\ sent = Object(sent.object) /\ IsRecord(sent)
      /\ DOMAIN sent.object = DOMAIN overrides \cup DOMAIN stored.object
      /\ \A k \in DOMAIN sent.object :
            sent.object[k] = IF k \in DOMAIN overrides THEN Text(overrides[k]) ELSE stored.object[k]
      /\ sent.object = [k \in DOMAIN sent.object |-> sent.object[k]]
  BY OverridesApplied
<1> HIDE DEF sent
<1>3. Bounded(sent)
  <2>1. \A k \in DOMAIN sent.object :
           \/ sent.object[k] = Text(overrides[k])
           \/ k \in DOMAIN stored.object /\ sent.object[k] = stored.object[k]
    BY <1>2
  <2> QED
    BY <1>1, <1>2, <2>1, ObjectBounded
<1>4. \A leaf \in Leaves(sent) : leaf.value # Redacted
  BY <1>3, NoMarkerLeft DEF sent, stored
<1>5. Bounded(value) /\ WellFormed(value)
  BY NodesOfParts, NodesAreTrees DEF IsJson, Bounded
<1>6. \A leaf \in Leaves(value) : IsPath(leaf.path)
  BY <1>5, LeafPaths
<1>7. ASSUME NEW k \in DOMAIN overrides
      PROVE  /\ Given(k) \in Leaves(sent)
             /\ \A leaf \in Leaves(sent) : Len(leaf.path) >= 1 /\ leaf.path[1] = Key(k) => leaf = Given(k)
  <2>1. k \in DOMAIN sent.object /\ sent.object[k] = Text(overrides[k])
    BY <1>2
  <2>2. Leaves(sent.object[k]) = {[path |-> <<>>, value |-> Text(overrides[k])]}
    BY <2>1, TextLeaf
  <2>3. LeafBelow(Key(k), [path |-> <<>>, value |-> Text(overrides[k])]) = Given(k)
    <3>1. <<Key(k)>> \in Seq({Key(k)})
      OBVIOUS
    <3>2. <<Key(k)>> \o <<>> = <<Key(k)>>
      BY <3>1, ConcatEmptySeq
    <3> QED
      BY <3>2 DEF LeafBelow
  <2> HIDE DEF Given
  <2> QED
    BY <1>2, <1>3, <2>1, <2>2, <2>3, LeavesAt
<1>8. ASSUME NEW k \in DOMAIN value.object \ DOMAIN overrides, NEW leaf,
             Len(leaf.path) >= 1, leaf.path[1] = Key(k)
      PROVE  leaf \in Leaves(sent) <=> leaf \in Leaves(stored)
  <2>1. /\ k \in DOMAIN sent.object /\ k \in DOMAIN stored.object
        /\ sent.object[k] = stored.object[k]
    BY <1>1, <1>2, <1>8
  <2> QED
    BY <1>1, <1>2, <1>3, <1>8, <2>1, LeavesAt
<1>9. \A hidden : hidden \in Leaves(stored) <=> \E leaf \in Leaves(value) : hidden = RedactedLeaf(leaf, patterns)
  BY <1>1 DEF IsRedactionOf
<1>10. CASE DOMAIN sent.object = {}
  <2>1. DOMAIN overrides = {} /\ DOMAIN value.object = {}
    BY <1>1, <1>2, <1>10
  <2>2. sent = value
    <3>1. value = Object([k \in DOMAIN value.object |-> value.object[k]])
      BY <1>5 DEF WellFormed
    <3>2. [k \in DOMAIN value.object |-> value.object[k]] = [k \in DOMAIN sent.object |-> sent.object[k]]
      BY <1>10, <2>1
    <3> QED
      BY <1>2, <3>1, <3>2
  <2>3. Entries(value) = {}
    BY <2>1 DEF Entries
  <2>4. Leaves(value) = {[path |-> <<>>, value |-> value]}
    BY <2>3, ScalarLeaf
  <2>5. \A leaf \in Leaves(value) : Kept(leaf)
    BY <2>1, <2>4
  <2> HIDE DEF Kept, Given
  <2>6. Leaves(sent) = {leaf \in Leaves(value) : Kept(leaf)} \cup {Given(k) : k \in DOMAIN overrides}
    BY <2>1, <2>2, <2>5
  <2> QED
    BY <2>6, Zenon DEF IsCallAgain, Kept, Given, sent, stored
<1>11. CASE DOMAIN sent.object # {}
  <2>1. ASSUME NEW leaf \in Leaves(sent)
        PROVE  \/ \E k \in DOMAIN overrides : leaf = Given(k)
               \/ leaf \in Leaves(value) /\ Kept(leaf)
    <3>1. PICK k \in DOMAIN sent.object : Len(leaf.path) >= 1 /\ leaf.path[1] = Key(k)
      BY <1>2, <1>3, <1>11, FieldOfLeaf
    <3>2. CASE k \in DOMAIN overrides
      <4> HIDE DEF Given, Kept
      <4> QED
        BY <1>7, <3>1, <3>2
    <3>3. CASE k \notin DOMAIN overrides
      <4>1. k \in DOMAIN value.object \ DOMAIN overrides
        BY <1>1, <1>2, <3>3
      <4>2. leaf \in Leaves(stored)
        BY <1>8, <3>1, <4>1
      <4>3. PICK l \in Leaves(value) : leaf = RedactedLeaf(l, patterns)
        BY <1>9, <4>2
      <4>4. leaf = l
        BY <1>4, <1>6, <4>3, RedactedIs
      <4>5. leaf.path[1].key = k /\ leaf.path # <<>>
        BY <3>1 DEF Key
      <4> QED
        BY <3>3, <4>4, <4>5
    <3> QED
      BY <3>2, <3>3
  <2>2. ASSUME NEW leaf \in Leaves(value), Kept(leaf) PROVE leaf \in Leaves(sent)
    <3>1. Entries(value) # {}
      <4> SUFFICES ASSUME Entries(value) = {} PROVE FALSE
        OBVIOUS
      <4>1. leaf.path = <<>>
        BY ScalarLeaf
      <4>2. DOMAIN value.object = {}
        BY DEF Entries
      <4> QED
        BY <1>1, <1>2, <1>11, <2>2, <4>1, <4>2
    <3>2. PICK k \in DOMAIN value.object : Len(leaf.path) >= 1 /\ leaf.path[1] = Key(k)
      <4>1. DOMAIN value.object # {}
        BY <3>1 DEF Entries
      <4> QED
        BY <1>5, <4>1, FieldOfLeaf
    <3>3. leaf.path # <<>> /\ leaf.path[1].key = k
      BY <3>2 DEF Key
    <3>4. k \notin DOMAIN overrides
      BY <2>2, <3>3
    <3> DEFINE hidden == RedactedLeaf(leaf, patterns)
    <3>5. \/ hidden = leaf
          \/ hidden.value = Redacted /\ Len(hidden.path) >= 1 /\ hidden.path[1] = leaf.path[1]
      BY <1>6, RedactedIs
    <3>6. hidden \in Leaves(stored)
      BY <1>9
    <3> HIDE DEF hidden
    <3>7. Len(hidden.path) >= 1 /\ hidden.path[1] = Key(k)
      BY <3>2, <3>5
    <3>8. hidden \in Leaves(sent)
      BY <1>8, <3>4, <3>6, <3>7
    <3> QED
      BY <1>4, <3>5, <3>8
  <2>3. ASSUME NEW k \in DOMAIN overrides PROVE Given(k) \in Leaves(sent)
    <3> HIDE DEF Given
    <3> QED
      BY <1>7
  <2> HIDE DEF Kept, Given
  <2>4. Leaves(sent) = {leaf \in Leaves(value) : Kept(leaf)} \cup {Given(k) : k \in DOMAIN overrides}
    BY <2>1, <2>2, <2>3
  <2> QED
    BY <2>4, Zenon DEF IsCallAgain, Kept, Given, sent, stored
<1> QED
  BY <1>10, <1>11
=============================================================================

--------------------------- MODULE TransportProofs ---------------------------
(***************************************************************************)
(* What holds of UpstreamTransport for any kinds and any number of frames. *)
(***************************************************************************)
EXTENDS UpstreamTransport, FunctionTheorems, FiniteSetTheorems, SequenceTheorems, TLAPS

\* What decides how the transport ends: finish() alone counts, and close() ends
\* it, so that an exit it brings about finds `closing` set.
EndInv ==
    /\ closed \in BOOLEAN /\ closing \in BOOLEAN /\ blamed \in BOOLEAN
    /\ closes = (IF closed THEN 1 ELSE 0)
    /\ closing => closed

\* The steps that neither end the transport nor look at how it ended.
LEMMA OthersLeaveTheEnd ==
    ASSUME Start \/ Write \/ Die \/ Read \/ RunTask \/ Send \/ SendBatch
    PROVE  UNCHANGED <<closing, closed, closes, blamed>>
BY DEF Start, Write, Die, Read, RunTask, Send, SendBatch, lifeVars

\* EndInv is kept by every step, and no step gives the transport a second end or
\* a second cause.
LEMMA EndStep ==
    ASSUME EndInv, [Next]_vars
    PROVE  /\ EndInv'
           /\ closes' = (IF closed' THEN 1 ELSE 0)
           /\ closing /\ ~blamed => ~blamed'
<1> USE DEF EndInv
<1>1. CASE Start \/ Write \/ Die \/ Read \/ RunTask \/ Send \/ SendBatch
  BY <1>1, OthersLeaveTheEnd
<1>2. CASE ChildError
  BY <1>2 DEF ChildError, Finish
<1>3. CASE ChildExit
  BY <1>3 DEF ChildExit, Finish
<1>4. CASE Close
  BY <1>4 DEF Close, Finish
<1>5. CASE UNCHANGED vars
  BY <1>5 DEF vars, lifeVars
<1> QED
  BY <1>1, <1>2, <1>3, <1>4, <1>5 DEF Next

\* In whatever order exit, error and close() come, the transport of the upstream
\* ends once, and an end that close() brought about is not the upstream's.
THEOREM OneEnd == Spec => OneEndOneCause
<1>1. Init => EndInv
  BY DEF Init, EndInv
<1>2. EndInv /\ [Next]_vars => EndInv'
  BY EndStep
<1>3. EndInv /\ [Next]_vars =>
        [ /\ closes' = (IF closed' THEN 1 ELSE 0)
          /\ closing /\ ~blamed => ~blamed' ]_vars
  BY EndStep
<1> QED
  BY <1>1, <1>2, <1>3, PTL DEF Spec, OneEndOneCause

-----------------------------------------------------------------------------
\* Frames in order

Piece == [frame : Nat, last : BOOLEAN]

\* s is what the child writes after frame m, from the start of a frame on; it
\* may be preceded by a blank line, b pieces long.
Follows(s, b, m) ==
    /\ b \in {0, 1}
    /\ b = 1 => Len(s) >= 1 /\ s[1] = Blank[1]
    /\ \A i \in (b + 1)..Len(s) :
        i = b + 2 * (s[i].frame - m) - (IF s[i].last THEN 0 ELSE 1)

\* What is written and not yet split into lines.
Stream == buffer \o pipe

\* The frame that is handled, or is next to be.
Current == IF tasks = <<Line(Len(handled) + 1)>> THEN Len(handled) + 1 ELSE Len(handled)

\* The frames that are split from the stream: those in the chain come last.
Decoded == Current + Len(chain)

SeqsOK ==
    /\ written \in Seq(Kinds)
    /\ pipe \in Seq(Piece) /\ buffer \in Seq(Piece)
    /\ chain \in Seq(Nat) /\ handled \in Seq(Nat) /\ effects \in Seq(Nat)

\* The stream goes on where the decoder is, up to the frame last written, of
\* which a child that died may have written one piece more.
StreamInv ==
    \E b \in {0, 1}, half \in {0, 1} :
        /\ Follows(Stream, b, Decoded)
        /\ Len(Stream) = b + 2 * (Len(written) - Decoded) + half
        /\ child \in {"none", "running"} => half = 0

\* One frame of the chain is worked on at a time: its line, the handler it may
\* have queued, then the yield that takes up the next line.
TaskInv ==
    \/ tasks = <<>> /\ chain = <<>>
    \/ tasks = <<Line(Len(handled) + 1)>>
    \/ tasks = <<Resume>>
    \/ /\ tasks = <<Handler(Len(handled)), Resume>>
       /\ \A i \in 1..Len(effects) : effects[i] < Len(handled)

OrderInv ==
    /\ \A i \in 1..Len(handled) : handled[i] = i
    /\ \A k \in 1..Len(chain) : chain[k] = Current + k
    /\ \A i \in 1..Len(effects) : effects[i] <= Len(handled)
    /\ \A i, j \in 1..Len(effects) : i < j => effects[i] < effects[j]

FrameInv == SeqsOK /\ StreamInv /\ TaskInv /\ OrderInv

EveryOther(b, q) == {b + 2 * k : k \in 1..q}

\* The k-th of q positions that lie two apart is the one 2 k further on.
LEMMA NthOfEveryOther ==
    ASSUME NEW b \in Nat, NEW q \in Nat, NEW S, S = EveryOther(b, q)
    PROVE  /\ Cardinality(S) = q
           /\ \A k \in 1..q : Nth(S, k) = b + 2 * k
<1> USE DEF EveryOther
<1> DEFINE Rank(i) == Cardinality({j \in S : j <= i})
<1>1. ASSUME NEW n \in 0..q
      PROVE  Rank(b + 2 * n) = n
  <2> DEFINE T == {j \in S : j <= b + 2 * n}
             f == [k \in 1..n |-> b + 2 * k]
  <2>1. f \in [1..n -> T]
    OBVIOUS
  <2>2. \A x, y \in 1..n : f[x] = f[y] => x = y
    OBVIOUS
  <2>3. \A j \in T : \E k \in 1..n : f[k] = j
    <3> SUFFICES ASSUME NEW j \in T
                 PROVE  \E k \in 1..n : f[k] = j
      OBVIOUS
    <3>1. PICK k \in 1..q : j = b + 2 * k
      OBVIOUS
    <3> QED
      BY <3>1
  <2> HIDE DEF f, T
  <2>4. f \in Bijection(1..n, T)
    BY <2>1, <2>2, <2>3, Fun_IsBij
  <2>5. ExistsBijection(1..n, T)
    BY <2>4 DEF ExistsBijection
  <2>6. IsFiniteSet(1..n) /\ Cardinality(1..n) = n
    BY FS_Interval
  <2> QED
    BY <2>5, <2>6, FS_Bijection DEF T
<1>2. Cardinality(S) = q
  <2> DEFINE T == {j \in S : j <= b + 2 * q}
  <2>1. S = T
    OBVIOUS
  <2>2. Cardinality(T) = q
    BY <1>1
  <2> HIDE DEF T
  <2> QED
    BY <2>1, <2>2
<1>3. ASSUME NEW k \in 1..q
      PROVE  Nth(S, k) = b + 2 * k
  <2>1. b + 2 * k \in S
    OBVIOUS
  <2>2. Rank(b + 2 * k) = k
    BY <1>1
  <2>3. ASSUME NEW i \in S, Rank(i) = k
        PROVE  i = b + 2 * k
    <3>1. PICK n \in 1..q : i = b + 2 * n
      OBVIOUS
    <3>2. Rank(i) = n
      BY <1>1, <3>1
    <3> QED
      BY <2>3, <3>1, <3>2
  <2>4. Nth(S, k) = CHOOSE i \in S : Rank(i) = k
    BY DEF Nth
  <2> HIDE DEF Rank
  <2> QED
    BY <2>1, <2>2, <2>3, <2>4
<1> QED
  BY <1>2, <1>3

LEMMA FollowsPrefix ==
    ASSUME NEW s, NEW t, NEW b, NEW m, Follows(s, b, m),
           Len(s) \in Nat, Len(t) \in 1..Len(s),
           \A i \in 1..Len(t) : t[i] = s[i]
    PROVE  Follows(t, b, m)
BY DEF Follows

\* What is split from the stream: the lines of the next q frames.  The rest starts
\* where the frame after them does.
LEMMA SplitStream ==
    ASSUME NEW s \in Seq(Piece), Len(s) >= 1,
           NEW b \in Nat, NEW m \in Nat, Follows(s, b, m)
    PROVE  \E q \in Nat :
             /\ b + 2 * q <= Len(s)
             /\ Split(s).lines = [k \in 1..q |-> m + k]
             /\ Split(s).rest = SubSeq(s, b + 2 * q + 1, Len(s))
<1> DEFINE ends == {i \in Ends(s) : s[i].frame # 0}
           last == IF Ends(s) = {} THEN 0 ELSE Max(Ends(s))
<1>1. /\ b <= 1 /\ Len(s) \in Nat /\ b <= Len(s)
      /\ \A i \in 1..Len(s) : s[i] \in Piece
      /\ DOMAIN s = 1..Len(s)
  BY DEF Follows
<1>2. PICK q \in Nat : b + 2 * q <= Len(s) /\ Len(s) <= b + 2 * q + 1
  <2> DEFINE half == (Len(s) - b) \div 2
  <2>1. half \in Nat /\ b + 2 * half <= Len(s) /\ Len(s) <= b + 2 * half + 1
    BY <1>1
  <2> QED
    BY <2>1
<1>3. ASSUME NEW i \in (b + 1)..Len(s)
      PROVE  \E f \in Nat, l \in BOOLEAN :
                /\ s[i] = [frame |-> f, last |-> l]
                /\ i = b + 2 * (f - m) - (IF l THEN 0 ELSE 1)
  <2>1. PICK f \in Nat, l \in BOOLEAN : s[i] = [frame |-> f, last |-> l]
    BY <1>1 DEF Piece
  <2>2. i = b + 2 * (s[i].frame - m) - (IF s[i].last THEN 0 ELSE 1)
    BY DEF Follows
  <2> QED
    BY <2>1, <2>2
<1>4. b = 1 => s[1] = [frame |-> 0, last |-> TRUE]
  BY DEF Follows, Blank
<1>5. ASSUME NEW k \in 1..q, NEW i, i = b + 2 * k
      PROVE  i \in ends /\ i <= Len(s) /\ LineAt(s, i) = m + k
  <2> DEFINE j == i - 1
  <2>1. i \in (b + 1)..Len(s) /\ j \in (b + 1)..Len(s) /\ i > 1
    BY <1>1, <1>2, <1>5
  <2>2. s[i].last /\ s[i].frame = m + k
    <3>1. PICK f \in Nat, l \in BOOLEAN :
            /\ s[i] = [frame |-> f, last |-> l]
            /\ i = b + 2 * (f - m) - (IF l THEN 0 ELSE 1)
      BY <1>3, <2>1
    <3>2. l /\ f = m + k
      BY <1>5, <3>1
    <3> QED
      BY <3>1, <3>2
  <2>3. s[j] = [frame |-> m + k, last |-> FALSE]
    <3>1. PICK f \in Nat, l \in BOOLEAN :
            /\ s[j] = [frame |-> f, last |-> l]
            /\ j = b + 2 * (f - m) - (IF l THEN 0 ELSE 1)
      BY <1>3, <2>1
    <3>2. ~l /\ f = m + k
      BY <1>5, <3>1
    <3> QED
      BY <3>1, <3>2
  <2>4. i \in ends /\ i <= Len(s)
    BY <1>1, <2>1, <2>2 DEF Ends
  <2>5. LineAt(s, i) = m + k
    BY <2>1, <2>2, <2>3 DEF LineAt, Pieces
  <2> QED
    BY <2>4, <2>5
<1>6. ASSUME NEW i \in Ends(s), i > b
      PROVE  \E k \in 1..q : i = b + 2 * k
  <2>1. i \in (b + 1)..Len(s) /\ s[i].last
    BY <1>1, <1>6 DEF Ends
  <2>2. PICK f \in Nat, l \in BOOLEAN :
          /\ s[i] = [frame |-> f, last |-> l]
          /\ i = b + 2 * (f - m) - (IF l THEN 0 ELSE 1)
    BY <1>3, <2>1
  <2>3. i = b + 2 * (f - m) /\ f - m \in 1..q
    BY <1>1, <1>2, <2>1, <2>2
  <2> QED
    BY <2>3
<1>7. ends = EveryOther(b, q)
  <2>1. ASSUME NEW i \in ends
        PROVE  \E k \in 1..q : i = b + 2 * k
    <3>1. i \in DOMAIN s /\ s[i].last /\ s[i].frame # 0
      BY DEF Ends
    <3>2. i > b
      BY <1>1, <1>4, <3>1
    <3> QED
      BY <1>6, <3>2
  <2>2. ASSUME NEW k \in 1..q
        PROVE  b + 2 * k \in ends
    BY <1>5
  <2> HIDE DEF ends
  <2> QED
    BY <2>1, <2>2 DEF EveryOther
<1>8. last = b + 2 * q
  <2> DEFINE top == b + 2 * q
  <2>1. ASSUME NEW i \in Ends(s)
        PROVE  i \in 1..Len(s) /\ i <= top
    <3>1. i \in 1..Len(s)
      BY <1>1 DEF Ends
    <3>2. CASE i <= b
      BY <1>1, <3>1, <3>2
    <3>3. CASE i > b
      BY <1>6, <3>1, <3>3
    <3> QED
      BY <1>1, <3>1, <3>2, <3>3
  <2>2. CASE q = 0 /\ b = 0
    <3>1. Ends(s) = {}
      BY <2>1, <2>2
    <3> QED
      BY <2>2, <3>1
  <2>3. ASSUME top \in Ends(s)
        PROVE  last = top
    <3>1. \A i \in Ends(s) : i \in Int /\ i <= top
      BY <2>1
    <3> HIDE DEF top
    <3> QED
      BY <2>3, <3>1 DEF Max
  <2>4. CASE q = 0 /\ b = 1
    <3>1. 1 \in Ends(s)
      BY <1>1, <1>4, <2>4 DEF Ends
    <3> QED
      BY <2>3, <2>4, <3>1
  <2>5. CASE q # 0
    <3>1. top \in ends
      BY <1>5, <2>5
    <3> QED
      BY <2>3, <3>1
  <2> QED
    BY <1>1, <2>2, <2>4, <2>5
<1> HIDE DEF ends, last
<1>9. Cardinality(ends) = q /\ \A k \in 1..q : Nth(ends, k) = b + 2 * k
  BY <1>7, NthOfEveryOther
<1>10. \A k \in 1..q : LineAt(s, Nth(ends, k)) = m + k
  BY <1>5, <1>9
<1>11. /\ Split(s).lines = [k \in 1..Cardinality(ends) |-> LineAt(s, Nth(ends, k))]
       /\ Split(s).rest = SubSeq(s, last + 1, Len(s))
  BY DEF Split, ends, last
<1>12. Split(s).lines = [k \in 1..q |-> m + k]
  BY <1>9, <1>10, <1>11
<1> QED
  BY <1>2, <1>8, <1>11, <1>12

\* A stream without what was split from it goes on behind that.
LEMMA FollowsRest ==
    ASSUME NEW s \in Seq(Piece), NEW t \in Seq(Piece),
           NEW b \in Nat, NEW m \in Nat, NEW q \in Nat,
           Follows(s, b, m), Len(s) = b + 2 * q + Len(t),
           \A i \in 1..Len(t) : t[i] = s[b + 2 * q + i]
    PROVE  Follows(t, 0, m + q)
<1> SUFFICES ASSUME NEW i \in 1..Len(t)
             PROVE  i = 0 + 2 * (t[i].frame - (m + q)) - (IF t[i].last THEN 0 ELSE 1)
  BY DEF Follows
<1> DEFINE j == b + 2 * q + i
<1>1. j \in (b + 1)..Len(s) /\ Len(s) \in Nat
  OBVIOUS
<1>2. t[i] = s[j]
  OBVIOUS
<1>3. j = b + 2 * (t[i].frame - m) - (IF t[i].last THEN 0 ELSE 1)
  BY <1>1, <1>2 DEF Follows
<1>4. t[i] \in Piece
  OBVIOUS
<1>5. PICK f \in Nat, l \in BOOLEAN : t[i] = [frame |-> f, last |-> l]
  BY <1>4 DEF Piece
<1> QED
  BY <1>3, <1>5

\* The next frame, or its first piece, goes on where a stream ends.
LEMMA FollowsNext ==
    ASSUME NEW s \in Seq(Piece), NEW b \in Nat, NEW m \in Nat, NEW w \in Nat,
           Follows(s, b, m), Len(s) = b + 2 * (w - m)
    PROVE  /\ Follows(s \o Pieces(w + 1), b, m)
           /\ Follows(Append(s, Pieces(w + 1)[1]), b, m)
<1>1. ASSUME NEW t, Len(t) \in {Len(s) + 1, Len(s) + 2},
             \A i \in 1..Len(s) : t[i] = s[i],
             t[Len(s) + 1] = [frame |-> w + 1, last |-> FALSE],
             Len(t) = Len(s) + 2 => t[Len(s) + 2] = [frame |-> w + 1, last |-> TRUE]
      PROVE  Follows(t, b, m)
  <2>1. b = 1 => Len(t) >= 1 /\ t[1] = Blank[1]
    BY <1>1 DEF Follows
  <2>2. ASSUME NEW i \in (b + 1)..Len(t)
        PROVE  i = b + 2 * (t[i].frame - m) - (IF t[i].last THEN 0 ELSE 1)
    <3>1. CASE i <= Len(s)
      BY <1>1, <3>1 DEF Follows
    <3>2. CASE i = Len(s) + 1
      BY <1>1, <3>2
    <3>3. CASE i = Len(s) + 2
      BY <1>1, <3>3
    <3>4. i <= Len(s) \/ i = Len(s) + 1 \/ i = Len(s) + 2
      <4>1. Len(s) \in Nat
        OBVIOUS
      <4> QED
        BY ONLY <4>1, <1>1, <2>2, b \in Nat
    <3> QED
      BY ONLY <3>1, <3>2, <3>3, <3>4
  <2> QED
    BY <2>1, <2>2 DEF Follows
<1> DEFINE first == [frame |-> w + 1, last |-> FALSE]
           second == [frame |-> w + 1, last |-> TRUE]
<1>2. first \in Piece /\ second \in Piece
  BY DEF Piece
<1>3. Pieces(w + 1) = <<first, second>> /\ Pieces(w + 1)[1] = first
  BY DEF Pieces
<1> HIDE DEF first, second
<1>4. Follows(s \o <<first, second>>, b, m)
  <2> DEFINE t == s \o <<first, second>>
  <2>1. /\ Len(t) = Len(s) + 2 /\ \A i \in 1..Len(s) : t[i] = s[i]
        /\ t[Len(s) + 1] = first /\ t[Len(s) + 2] = second
    BY <1>2
  <2> HIDE DEF t
  <2>2. Follows(t, b, m)
    BY <1>1, <2>1 DEF first, second
  <2> QED
    BY <2>2 DEF t
<1>5. Follows(Append(s, first), b, m)
  <2> DEFINE t == Append(s, first)
  <2>1. /\ Len(t) = Len(s) + 1 /\ \A i \in 1..Len(s) : t[i] = s[i]
        /\ t[Len(s) + 1] = first
    BY <1>2
  <2>2. Len(s) \in Nat
    OBVIOUS
  <2> HIDE DEF t
  <2>3. Follows(t, b, m)
    BY <1>1, <2>1, <2>2 DEF first, second
  <2> QED
    BY <2>3 DEF t
<1> QED
  BY <1>3, <1>4, <1>5

LEMMA PieceConcat ==
    ASSUME NEW u \in Seq(Piece), NEW v \in Seq(Piece)
    PROVE  /\ u \o v \in Seq(Piece)
           /\ Len(u \o v) = Len(u) + Len(v)
           /\ \A i \in 1..Len(u) + Len(v) :
                (u \o v)[i] = IF i <= Len(u) THEN u[i] ELSE v[i - Len(u)]
BY ConcatProperties

LEMMA PieceConcatAssociative ==
    ASSUME NEW u \in Seq(Piece), NEW v \in Seq(Piece), NEW w \in Seq(Piece)
    PROVE  (u \o v) \o w = u \o (v \o w)
BY ONLY u \in Seq(Piece), v \in Seq(Piece), w \in Seq(Piece), ConcatAssociative

LEMMA ConcatRest ==
    ASSUME NEW u \in Seq(Piece), NEW v \in Seq(Piece), NEW d \in 0..Len(u)
    PROVE  LET rest == SubSeq(u, d + 1, Len(u))
           IN  /\ rest \in Seq(Piece) /\ rest \o v \in Seq(Piece)
               /\ d + Len(rest \o v) = Len(u \o v)
               /\ \A i \in 1..Len(rest \o v) : (rest \o v)[i] = (u \o v)[d + i]
<1> DEFINE rest == SubSeq(u, d + 1, Len(u))
<1>1. Len(u) \in Nat /\ Len(v) \in Nat /\ d \in Nat /\ d <= Len(u)
  OBVIOUS
<1>2. /\ rest \in Seq(Piece) /\ Len(rest) = Len(u) - d
      /\ \A i \in 1..Len(rest) : rest[i] = u[d + i]
  <2>1. \A i \in d + 1..Len(u) : u[i] \in Piece
    BY <1>1
  <2>2. /\ rest \in Seq(Piece)
        /\ Len(rest) = IF d + 1 <= Len(u) THEN Len(u) - (d + 1) + 1 ELSE 0
        /\ \A i \in 1..Len(u) - (d + 1) + 1 : rest[i] = u[d + 1 + i - 1]
    BY <1>1, <2>1, SubSeqProperties
  <2> HIDE DEF rest
  <2>3. Len(rest) = Len(u) - d
    BY <1>1, <2>2
  <2>4. ASSUME NEW i \in 1..Len(rest)
        PROVE  rest[i] = u[d + i]
    <3>1. i \in 1..Len(u) - (d + 1) + 1 /\ d + 1 + i - 1 = d + i
      BY <1>1, <2>3
    <3> QED
      BY <2>2, <3>1
  <2> QED
    BY <2>2, <2>3, <2>4
<1> HIDE DEF rest
<1>3. /\ rest \o v \in Seq(Piece) /\ Len(rest \o v) = Len(rest) + Len(v)
      /\ Len(u \o v) = Len(u) + Len(v)
  BY <1>2, ConcatProperties
<1>4. ASSUME NEW i \in 1..Len(rest \o v)
      PROVE  (rest \o v)[i] = (u \o v)[d + i]
  <2>1. i \in 1..Len(rest) + Len(v) /\ d + i \in 1..Len(u) + Len(v)
    BY <1>1, <1>2, <1>3
  <2>2. (rest \o v)[i] = IF i <= Len(rest) THEN rest[i] ELSE v[i - Len(rest)]
    BY <1>2, <2>1, ConcatProperties
  <2>3. (u \o v)[d + i] = IF d + i <= Len(u) THEN u[d + i] ELSE v[d + i - Len(u)]
    BY <2>1, ConcatProperties
  <2>4. CASE i <= Len(rest)
    BY <1>1, <1>2, <2>1, <2>2, <2>3, <2>4
  <2>5. CASE ~(i <= Len(rest))
    <3>1. i - Len(rest) = d + i - Len(u) /\ ~(d + i <= Len(u))
      BY <1>1, <1>2, <2>1, <2>5
    <3> QED
      BY <2>2, <2>3, <2>5, <3>1
  <2> QED
    BY <2>4, <2>5
<1>5. d + Len(rest \o v) = Len(u \o v)
  BY <1>1, <1>2, <1>3
<1> QED
  BY <1>2, <1>3, <1>4, <1>5 DEF rest

\* What a read chunk leaves: whole lines are split off, and the rest of the stream
\* follows them without a blank line.
LEMMA ReadChunk ==
    ASSUME SeqsOK, NEW b \in Nat, NEW m \in Nat, Follows(Stream, b, m),
           NEW n \in 1..Len(pipe)
    PROVE  LET split == SplitLines(buffer, SubSeq(pipe, 1, n))
               left  == SubSeq(pipe, n + 1, Len(pipe))
           IN  \E q \in Nat :
                 /\ split.lines = [k \in 1..q |-> m + k]
                 /\ split.rest \in Seq(Piece) /\ left \in Seq(Piece)
                 /\ Follows(split.rest \o left, 0, m + q)
                 /\ Len(Stream) = b + 2 * q + Len(split.rest \o left)
<1> DEFINE chunk == SubSeq(pipe, 1, n)
           all   == buffer \o chunk
           left  == SubSeq(pipe, n + 1, Len(pipe))
<1>1. buffer \in Seq(Piece) /\ pipe \in Seq(Piece)
  BY DEF SeqsOK
<1>2. chunk \in Seq(Piece) /\ left \in Seq(Piece) /\ Len(chunk) >= 1
  <2>1. Len(pipe) \in Nat /\ \A i \in 1..Len(pipe) : pipe[i] \in Piece
    BY <1>1
  <2> QED
    BY <2>1, SubSeqProperties
<1>3. pipe = chunk \o left
  BY <1>1, ConcatAdjacentSubSeq, SubSeqFull
<1> HIDE DEF chunk, left
<1>4. all \in Seq(Piece) /\ Len(all) = Len(buffer) + Len(chunk)
  BY <1>1, <1>2, PieceConcat
<1>5. Stream = all \o left
  <2>1. (buffer \o chunk) \o left = buffer \o (chunk \o left)
    BY <1>1, <1>2, PieceConcatAssociative
  <2> QED
    BY <1>3, <2>1 DEF Stream
<1> HIDE DEF all
<1>6. Len(all) \in Nat \ {0} /\ Len(left) \in Nat /\ Stream \in Seq(Piece)
  BY <1>1, <1>2, <1>4, <1>5, PieceConcat
<1>7. Follows(all, b, m)
  <2>1. /\ Len(Stream) = Len(all) + Len(left)
        /\ \A i \in 1..Len(all) + Len(left) :
             Stream[i] = IF i <= Len(all) THEN all[i] ELSE left[i - Len(all)]
    <3>1. /\ Len(all \o left) = Len(all) + Len(left)
          /\ \A i \in 1..Len(all) + Len(left) :
               (all \o left)[i] = IF i <= Len(all) THEN all[i] ELSE left[i - Len(all)]
      BY <1>2, <1>4, PieceConcat
    <3> QED
      BY <1>5, <3>1
  <2>2. \A i \in 1..Len(all) : all[i] = Stream[i]
    BY <1>6, <2>1
  <2>3. Len(Stream) \in Nat /\ Len(all) \in 1..Len(Stream)
    BY <1>6, <2>1
  <2> QED
    BY <2>2, <2>3, FollowsPrefix
<1>8. PICK q \in Nat :
        /\ b + 2 * q <= Len(all)
        /\ Split(all).lines = [k \in 1..q |-> m + k]
        /\ Split(all).rest = SubSeq(all, b + 2 * q + 1, Len(all))
  <2>1. Len(all) >= 1
    BY <1>6
  <2> QED
    BY <1>4, <1>7, <2>1, SplitStream
<1> DEFINE rest == Split(all).rest
           next == rest \o left
<1>9. /\ rest \in Seq(Piece) /\ next \in Seq(Piece)
      /\ b + 2 * q + Len(next) = Len(Stream)
      /\ \A i \in 1..Len(next) : next[i] = Stream[b + 2 * q + i]
  <2> DEFINE d == b + 2 * q
  <2>1. d \in 0..Len(all)
    BY <1>6, <1>8
  <2>2. rest = SubSeq(all, d + 1, Len(all))
    BY <1>8
  <2> HIDE DEF d, rest
  <2>3. /\ rest \in Seq(Piece) /\ next \in Seq(Piece)
        /\ d + Len(next) = Len(all \o left)
        /\ \A i \in 1..Len(next) : next[i] = (all \o left)[d + i]
    BY <1>2, <1>4, <2>1, <2>2, ConcatRest
  <2> QED
    BY <1>5, <2>3 DEF d
<1> HIDE DEF rest, next
<1>10. Follows(next, 0, m + q)
  BY <1>6, <1>9, FollowsRest
<1> QED
  BY <1>2, <1>8, <1>9, <1>10 DEF SplitLines, all, chunk, left, rest, next

-----------------------------------------------------------------------------
LEMMA FrameInit == Init => FrameInv
<1> SUFFICES ASSUME Init
             PROVE  FrameInv
  OBVIOUS
<1>1. SeqsOK
  BY DEF Init, SeqsOK
<1>2. Decoded = 0
  BY DEF Init, Decoded, Current
<1>3. Stream = <<>>
  BY DEF Init, Stream
<1>4. Follows(Stream, 0, Decoded) /\ Len(Stream) = 0 + 2 * (Len(written) - Decoded) + 0
  BY <1>2, <1>3 DEF Init, Follows
<1>5. StreamInv
  BY <1>4 DEF StreamInv
<1>6. TaskInv /\ OrderInv
  BY DEF Init, TaskInv, OrderInv
<1> QED
  BY <1>1, <1>5, <1>6 DEF FrameInv

\* Frames and the decoder's place are naturals.
LEMMA Places ==
    ASSUME SeqsOK
    PROVE  /\ Stream \in Seq(Piece)
           /\ Current \in Nat /\ Decoded \in Nat
           /\ Len(written) \in Nat /\ Len(handled) \in Nat /\ Len(chain) \in Nat
BY PieceConcat DEF SeqsOK, Stream, Current, Decoded

\* The child adds to the stream what comes next.
LEMMA WriteStep ==
    ASSUME FrameInv, Write
    PROVE  FrameInv'
<1> USE DEF FrameInv
<1>1. UNCHANGED <<child, buffer, chain, tasks, handled, effects>> /\ child = "running"
  BY DEF Write, decoderVars
<1>2. Decoded' = Decoded /\ Current' = Current
  BY <1>1 DEF Decoded, Current
<1>3. TaskInv' /\ OrderInv'
  BY <1>1, <1>2 DEF TaskInv, OrderInv
<1>4. PICK b \in {0, 1} :
        Follows(Stream, b, Decoded) /\ Len(Stream) = b + 2 * (Len(written) - Decoded)
  BY <1>1, Places DEF StreamInv
<1> DEFINE w == Len(written)
<1>5. CASE written # written'
  <2>1. PICK kind \in Kinds : written' = Append(written, kind)
    BY <1>5 DEF Write
  <2>2. pipe' = pipe \o Pieces(w + 1)
    BY <1>5 DEF Write
  <2>3. Pieces(w + 1) \in Seq(Piece) /\ Len(Pieces(w + 1)) = 2
    BY Places DEF Pieces, Piece
  <2>4. pipe \in Seq(Piece) /\ buffer \in Seq(Piece)
    BY DEF SeqsOK
  <2>5. Stream' = Stream \o Pieces(w + 1)
    BY <1>1, <2>2, <2>3, <2>4, PieceConcatAssociative DEF Stream
  <2>6. Follows(Stream', b, Decoded')
    <3>1. /\ Stream \in Seq(Piece) /\ b \in Nat /\ Decoded \in Nat /\ w \in Nat
          /\ Follows(Stream, b, Decoded) /\ Len(Stream) = b + 2 * (w - Decoded)
      BY <1>4, Places
    <3> HIDE DEF w
    <3>2. Follows(Stream \o Pieces(w + 1), b, Decoded)
      BY ONLY <3>1, FollowsNext
    <3> QED
      BY ONLY <1>2, <2>5, <3>2
  <2>7. Len(Stream') = Len(Stream) + 2
    BY <2>3, <2>5, Places, PieceConcat
  <2>8. Len(written') = w + 1
    BY <2>1 DEF SeqsOK
  <2>9. StreamInv'
    <3>1. Len(Stream) \in Nat /\ Decoded \in Nat /\ w \in Nat /\ b \in Nat
      BY Places
    <3> HIDE DEF w
    <3>2. Len(Stream') = b + 2 * (Len(written') - Decoded') + 0
      BY <1>2, <1>4, <2>7, <2>8, <3>1 DEF w
    <3> QED
      BY <1>4, <2>6, <3>2 DEF StreamInv
  <2>10. pipe' \in Seq(Piece)
    BY <2>2, <2>3, <2>4, PieceConcat
  <2> QED
    BY <1>1, <1>3, <2>1, <2>9, <2>10 DEF SeqsOK
<1>6. CASE written = written'
  <2>1. pipe = <<>> /\ buffer = <<>> /\ pipe' = Blank
    BY <1>6, Places DEF Write, SeqsOK
  <2>2. Stream = <<>> /\ Stream' = Blank
    BY <1>1, <2>1 DEF Stream, Blank
  <2>3. b = 0 /\ Len(written) - Decoded = 0
    BY <1>4, <2>2, Places
  <2>4. Follows(Stream', 1, Decoded') /\ Len(Stream') = 1
    BY <2>2 DEF Follows, Blank
  <2>5. StreamInv'
    BY <1>2, <1>6, <2>3, <2>4 DEF StreamInv
  <2> QED
    BY <1>1, <1>3, <1>6, <2>1, <2>5 DEF SeqsOK, Blank, Piece
<1> QED
  BY <1>5, <1>6

LEMMA DieStep ==
    ASSUME FrameInv, Die
    PROVE  FrameInv'
<1> USE DEF FrameInv
<1>1. /\ UNCHANGED <<written, buffer, chain, tasks, handled, effects>>
      /\ child = "running" /\ child' = "dead"
  BY DEF Die, decoderVars
<1>2. Decoded' = Decoded /\ Current' = Current
  BY <1>1 DEF Decoded, Current
<1>3. TaskInv' /\ OrderInv'
  BY <1>1, <1>2 DEF TaskInv, OrderInv
<1>4. PICK b \in {0, 1} :
        Follows(Stream, b, Decoded) /\ Len(Stream) = b + 2 * (Len(written) - Decoded)
  BY <1>1, Places DEF StreamInv
<1> DEFINE first == Pieces(Len(written) + 1)[1]
<1>5. CASE pipe' = pipe
  <2>1. Stream' = Stream
    BY <1>1, <1>5 DEF Stream
  <2>2. StreamInv'
    BY <1>1, <1>2, <1>4, <2>1, Places DEF StreamInv
  <2> QED
    BY <1>1, <1>3, <1>5, <2>2 DEF SeqsOK
<1>6. CASE pipe' = Append(pipe, first)
  <2>1. first \in Piece
    BY Places DEF Pieces, Piece
  <2>2. pipe \in Seq(Piece) /\ buffer \in Seq(Piece)
    BY DEF SeqsOK
  <2> HIDE DEF first
  <2>3. Stream' = Append(Stream, first)
    BY <1>1, <1>6, <2>1, <2>2 DEF Stream
  <2>4. Follows(Stream', b, Decoded')
    BY <1>2, <1>4, <2>3, Places, FollowsNext DEF first
  <2>5. Len(Stream') = Len(Stream) + 1
    BY <2>1, <2>3, Places
  <2>6. StreamInv'
    BY <1>1, <1>2, <1>4, <2>4, <2>5, Places DEF StreamInv
  <2> QED
    BY <1>1, <1>3, <1>6, <2>1, <2>2, <2>6 DEF SeqsOK
<1> QED
  BY <1>5, <1>6 DEF Die

\* The lines of a chunk are the next frames: the first is queued, the others are
\* its chain.
LEMMA ReadStep ==
    ASSUME FrameInv, Read
    PROVE  FrameInv'
<1> USE DEF FrameInv
<1>1. UNCHANGED <<child, written, handled, effects>> /\ tasks = <<>>
  BY DEF Read, NextEvent
<1>2. chain = <<>> /\ Current = Len(handled) /\ Decoded = Len(handled)
  BY <1>1, Places DEF TaskInv, Current, Decoded
<1>3. PICK b \in {0, 1}, half \in {0, 1} :
        /\ Follows(Stream, b, Decoded)
        /\ Len(Stream) = b + 2 * (Len(written) - Decoded) + half
        /\ child \in {"none", "running"} => half = 0
  BY DEF StreamInv
<1>4. PICK n \in 1..Len(pipe) :
        LET split == SplitLines(buffer, SubSeq(pipe, 1, n))
        IN  /\ pipe' = SubSeq(pipe, n + 1, Len(pipe))
            /\ buffer' = split.rest
            /\ IF split.lines = <<>> THEN UNCHANGED <<tasks, chain>>
               ELSE tasks' = <<Line(split.lines[1])>> /\ chain' = Tail(split.lines)
  BY DEF Read
<1> DEFINE lines == SplitLines(buffer, SubSeq(pipe, 1, n)).lines
<1>5. PICK q \in Nat :
        /\ lines = [k \in 1..q |-> Decoded + k]
        /\ buffer' \in Seq(Piece) /\ pipe' \in Seq(Piece)
        /\ Follows(Stream', 0, Decoded + q)
        /\ Len(Stream) = b + 2 * q + Len(Stream')
  <2>1. b \in Nat /\ Decoded \in Nat /\ SeqsOK
    BY Places
  <2> DEFINE split == SplitLines(buffer, SubSeq(pipe, 1, n))
             left  == SubSeq(pipe, n + 1, Len(pipe))
  <2>2. \E q \in Nat :
          /\ split.lines = [k \in 1..q |-> Decoded + k]
          /\ split.rest \in Seq(Piece) /\ left \in Seq(Piece)
          /\ Follows(split.rest \o left, 0, Decoded + q)
          /\ Len(Stream) = b + 2 * q + Len(split.rest \o left)
    BY <1>3, <2>1, ReadChunk
  <2>3. buffer' = split.rest /\ pipe' = left
    BY <1>4
  <2> HIDE DEF split, left
  <2>4. Stream' = split.rest \o left
    BY <2>3 DEF Stream
  <2> QED
    BY <2>2, <2>3, <2>4 DEF split
<1>6. /\ lines = <<>> => UNCHANGED <<tasks, chain>>
      /\ lines # <<>> => tasks' = <<Line(lines[1])>> /\ chain' = Tail(lines)
  BY <1>4
<1> HIDE DEF lines
<1>7. lines \in Seq(Nat) /\ Len(lines) = q
  BY <1>5, Places
<1>8. /\ TaskInv' /\ Decoded' = Decoded + q /\ chain' \in Seq(Nat)
      /\ \A k \in 1..Len(chain') : chain'[k] = Current' + k
  <2>1. CASE q = 0
    <3>1. UNCHANGED <<tasks, chain>>
      BY <1>6, <1>7, <2>1
    <3> QED
      BY <1>1, <1>2, <2>1, <3>1, Places DEF TaskInv, Decoded, Current
  <2>2. CASE q # 0
    <3>1. lines # <<>> /\ lines[1] = Len(handled) + 1
      BY <1>2, <1>5, <1>7, <2>2
    <3>2. tasks' = <<Line(Len(handled) + 1)>> /\ chain' = Tail(lines)
      BY <1>6, <3>1
    <3>3. Current' = Len(handled) + 1
      BY <1>1, <3>2 DEF Current
    <3>4. /\ chain' \in Seq(Nat) /\ Len(chain') = q - 1
          /\ \A k \in 1..Len(chain') : chain'[k] = lines[k + 1]
      BY ONLY <1>7, <3>1, <3>2
    <3>5. Decoded' = Decoded + q
      BY <1>2, <3>3, <3>4, Places DEF Decoded
    <3>6. ASSUME NEW k \in 1..Len(chain')
          PROVE  chain'[k] = Current' + k
      <4>0. k \in 1..Len(chain')
        BY <3>6
      <4>1. Len(handled) \in Nat /\ k + 1 \in 1..q
        <5>1. Len(handled) \in Nat
          BY Places
        <5> QED
          BY ONLY <3>4, <4>0, <5>1, q \in Nat
      <4>2. chain'[k] = lines[k + 1]
        BY ONLY <3>4, <4>0
      <4>3. lines[k + 1] = Decoded + (k + 1)
        BY <1>5, <4>1
      <4> QED
        BY <1>2, <3>3, <4>1, <4>2, <4>3
    <3> QED
      BY <1>1, <3>2, <3>4, <3>5, <3>6 DEF TaskInv
  <2> QED
    BY <2>1, <2>2
<1>9. StreamInv'
  <2>1. Len(Stream') = 0 + 2 * (Len(written') - Decoded') + half
    <3>1. Len(Stream') \in Nat
      BY <1>5, PieceConcat DEF Stream
    <3>2. Decoded \in Nat /\ Len(written) \in Nat /\ b \in Nat /\ half \in Nat
      BY Places
    <3>3. b + 2 * (Len(written) - Decoded) + half = b + 2 * q + Len(Stream')
      BY <1>3, <1>5
    <3>4. Len(written') = Len(written) /\ Decoded' = Decoded + q
      BY <1>1, <1>8
    <3> QED
      BY <3>1, <3>2, <3>3, <3>4
  <2> QED
    BY <1>1, <1>3, <1>5, <1>8, <2>1 DEF StreamInv
<1>10. OrderInv'
  BY <1>1, <1>8 DEF OrderInv
<1> QED
  BY <1>1, <1>5, <1>8, <1>9, <1>10 DEF SeqsOK

\* Work on the decoder's side leaves the stream and the place of the decoder.
LEMMA StreamStays ==
    ASSUME StreamInv, UNCHANGED <<child, written, pipe, buffer>>, Decoded' = Decoded
    PROVE  StreamInv'
<1>1. Stream' = Stream
  BY DEF Stream
<1> QED
  BY <1>1 DEF StreamInv

LEMMA Concatenations ==
    ASSUME NEW x, NEW y
    PROVE  <<>> \o <<x>> \o <<y>> = <<x, y>> /\ <<>> \o <<>> \o <<y>> = <<y>>
<1>1. <<x>> \in Seq({x, y}) /\ <<y>> \in Seq({x, y}) /\ <<x, y>> \in Seq({x, y})
  OBVIOUS
<1>2. <<>> \o <<x>> = <<x>> /\ <<>> \o <<y>> = <<y>> /\ <<>> \o <<>> = <<>>
  BY <1>1, ConcatEmptySeq, EmptySeq
<1>3. <<x>> \o <<y>> = <<x, y>>
  <2> DEFINE S == {x, y}
             u == <<x>>
             v == <<y>>
             w == <<x, y>>
  <2>1. u \in Seq(S) /\ v \in Seq(S) /\ w \in Seq(S)
    BY <1>1
  <2>2. /\ Len(u) = 1 /\ Len(v) = 1 /\ Len(w) = 2
        /\ u[1] = x /\ v[1] = y /\ w[1] = x /\ w[2] = y
    OBVIOUS
  <2> HIDE DEF S, u, v, w
  <2>3. /\ u \o v \in Seq(S) /\ Len(u \o v) = 2
        /\ \A i \in 1..2 : (u \o v)[i] = IF i <= 1 THEN u[i] ELSE v[i - 1]
    BY <2>1, <2>2, ConcatProperties
  <2>4. \A i \in 1..2 : (u \o v)[i] = w[i]
    BY <2>2, <2>3
  <2>5. u \o v = w
    BY <2>1, <2>2, <2>3, <2>4, SeqEqual
  <2> QED
    BY <2>5 DEF u, v, w
<1> QED
  BY <1>2, <1>3

\* An effect of a later frame than all before it keeps them in order.
LEMMA EffectLast ==
    ASSUME NEW s \in Seq(Nat), NEW n \in Nat, NEW t, t = Append(s, n),
           \A i \in 1..Len(s) : s[i] < n,
           \A i, j \in 1..Len(s) : i < j => s[i] < s[j]
    PROVE  /\ t \in Seq(Nat)
           /\ \A i \in 1..Len(t) : t[i] <= n
           /\ \A i, j \in 1..Len(t) : i < j => t[i] < t[j]
<1>1. /\ t \in Seq(Nat) /\ Len(t) = Len(s) + 1 /\ Len(s) \in Nat
      /\ \A i \in 1..Len(s) : t[i] = s[i] /\ s[i] \in Nat
      /\ t[Len(s) + 1] = n
  OBVIOUS
<1>2. ASSUME NEW i \in 1..Len(t)
      PROVE  t[i] <= n /\ (i <= Len(s) => t[i] < n)
  <2>1. i = Len(s) + 1 \/ i \in 1..Len(s)
    BY <1>1
  <2> QED
    BY <1>1, <2>1
<1>3. ASSUME NEW i \in 1..Len(t), NEW j \in 1..Len(t), i < j
      PROVE  t[i] < t[j]
  <2>1. i \in 1..Len(s) /\ (j = Len(s) + 1 \/ j \in 1..Len(s))
    <3>1. Len(s) \in Nat /\ Len(t) = Len(s) + 1
      BY <1>1
    <3> QED
      BY ONLY <1>3, <3>1
  <2> QED
    BY <1>1, <1>2, <1>3, <2>1
<1>4. t \in Seq(Nat) /\ \A i \in 1..Len(t) : t[i] <= n
  BY <1>1, <1>2
<1>5. \A i, j \in 1..Len(t) : i < j => t[i] < t[j]
  BY ONLY <1>3
<1> QED
  BY ONLY <1>4, <1>5

\* The line of the next frame is handled; its effect comes now or with the handler.
LEMMA LineStep ==
    ASSUME FrameInv, RunTask, Head(tasks).type = "line"
    PROVE  FrameInv'
<1> USE DEF FrameInv
<1> DEFINE n == Len(handled) + 1
<1>1. tasks = <<Line(n)>>
  BY DEF TaskInv, RunTask, Resume, Handler
<1>2. UNCHANGED <<child, written, pipe, buffer>> /\ ProcessLine(n)
  BY <1>1 DEF RunTask, Line
<1>3. /\ handled' = Append(handled, n) /\ chain' = chain
      /\ tasks' \in {<<Resume>>, <<Handler(n), Resume>>}
      /\ effects' \in {effects, Append(effects, n)}
      /\ tasks' = <<Handler(n), Resume>> => effects' = effects
  <2>1. /\ handled' = Append(handled, n) /\ chain' = chain
        /\ effects' = IF KindOf(n) \in {"response", "batch"}
                      THEN Append(effects, n) ELSE effects
    BY <1>2 DEF ProcessLine
  <2>2. tasks' = Tail(tasks) \o
            (IF KindOf(n) = "notification" THEN <<Handler(n)>> ELSE <<>>) \o <<Resume>>
    BY <1>2 DEF ProcessLine
  <2>3. Tail(tasks) = <<>>
    BY <1>1
  <2> HIDE DEF n
  <2>4. CASE KindOf(n) = "notification"
    <3>1. tasks' = <<Handler(n), Resume>>
      BY <2>2, <2>3, <2>4, Concatenations
    <3>2. effects' = effects
      BY <2>1, <2>4
    <3> QED
      BY <2>1, <3>1, <3>2
  <2>5. CASE KindOf(n) # "notification"
    <3>1. tasks' = <<Resume>>
      BY <2>2, <2>3, <2>5, Concatenations
    <3> QED
      BY <2>1, <3>1
  <2> QED
    BY <2>4, <2>5
<1>4. handled \in Seq(Nat) /\ Len(handled) \in Nat /\ effects \in Seq(Nat) /\ n \in Nat
  BY DEF SeqsOK
<1>5. /\ handled' \in Seq(Nat) /\ Len(handled') = n
      /\ \A i \in 1..n : handled'[i] = IF i = n THEN n ELSE handled[i]
  BY <1>3, <1>4
<1>6. Current = n /\ Current' = n /\ Decoded' = Decoded
  BY <1>1, <1>3, <1>5 DEF Current, Decoded, Line, Resume, Handler
<1>7. StreamInv'
  BY <1>2, <1>6, StreamStays
<1>8. /\ effects' \in Seq(Nat)
      /\ \A i \in 1..Len(effects') : effects'[i] <= n
      /\ \A i, j \in 1..Len(effects') : i < j => effects'[i] < effects'[j]
      /\ effects' = effects => \A i \in 1..Len(effects') : effects'[i] < n
  <2>1. \A i \in 1..Len(effects) : effects[i] \in Nat /\ effects[i] < n
    BY <1>4 DEF OrderInv
  <2>2. CASE effects' = effects
    BY <1>4, <2>1, <2>2 DEF OrderInv
  <2>3. CASE effects' = Append(effects, n) /\ effects' # effects
    <3>1. \A i, j \in 1..Len(effects) : i < j => effects[i] < effects[j]
      BY DEF OrderInv
    <3> HIDE DEF n
    <3>2. /\ effects' \in Seq(Nat)
          /\ \A i \in 1..Len(effects') : effects'[i] <= n
          /\ \A i, j \in 1..Len(effects') : i < j => effects'[i] < effects'[j]
      BY <1>4, <2>1, <2>3, <3>1, EffectLast
    <3> QED
      BY <2>3, <3>2
  <2> QED
    BY <1>3, <2>2, <2>3
<1>9. TaskInv'
  BY <1>3, <1>5, <1>8 DEF TaskInv, Resume, Handler
<1>10. OrderInv'
  <2>1. ASSUME NEW i \in 1..Len(handled')
        PROVE  handled'[i] = i
    <3>1. i = n \/ i \in 1..Len(handled)
      BY <1>4, <1>5
    <3>2. i \in 1..Len(handled) => handled[i] = i
      BY DEF OrderInv
    <3> HIDE DEF n
    <3> QED
      BY <1>5, <3>1, <3>2
  <2> QED
    BY <1>3, <1>5, <1>6, <1>8, <2>1 DEF OrderInv
<1> QED
  BY <1>2, <1>3, <1>5, <1>7, <1>8, <1>9, <1>10 DEF SeqsOK

\* The handler of a notification runs before the next line is taken up.
LEMMA HandlerStep ==
    ASSUME FrameInv, RunTask, Head(tasks).type = "handler"
    PROVE  FrameInv'
<1> USE DEF FrameInv
<1> DEFINE n == Len(handled)
<1>1. /\ tasks = <<Handler(n), Resume>>
      /\ \A i \in 1..Len(effects) : effects[i] < n
  BY DEF TaskInv, RunTask, Resume, Line
<1>2. /\ UNCHANGED <<child, written, pipe, buffer, chain, handled>>
      /\ tasks' = <<Resume>> /\ effects' = Append(effects, n)
  BY <1>1 DEF RunTask, Handler
<1>3. Current = n /\ Current' = n /\ Decoded' = Decoded
  BY <1>1, <1>2 DEF Current, Decoded, Line, Resume, Handler
<1>4. StreamInv'
  BY <1>2, <1>3, StreamStays
<1>5. effects \in Seq(Nat) /\ n \in Nat /\ Len(effects) \in Nat
  BY DEF SeqsOK
<1>6. \A i, j \in 1..Len(effects) : i < j => effects[i] < effects[j]
  BY DEF OrderInv
<1>7. /\ effects' \in Seq(Nat)
      /\ \A i \in 1..Len(effects') : effects'[i] <= n
      /\ \A i, j \in 1..Len(effects') : i < j => effects'[i] < effects'[j]
  BY <1>1, <1>2, <1>5, <1>6, EffectLast
<1>8. OrderInv'
  BY <1>2, <1>3, <1>7 DEF OrderInv
<1>9. TaskInv'
  BY <1>2 DEF TaskInv
<1> QED
  BY <1>2, <1>4, <1>7, <1>8, <1>9 DEF SeqsOK

\* The yield is over: the next line of the chunk is taken up, if there is one.
LEMMA ResumeStep ==
    ASSUME FrameInv, RunTask, Head(tasks).type = "resume"
    PROVE  FrameInv'
<1> USE DEF FrameInv
<1> DEFINE n == Len(handled)
<1>1. tasks = <<Resume>>
  BY DEF TaskInv, RunTask, Handler, Line
<1>2. UNCHANGED <<child, written, pipe, buffer, handled, effects>>
  BY <1>1 DEF RunTask, Resume
<1>3. Current = n /\ chain \in Seq(Nat) /\ n \in Nat
  BY <1>1 DEF Current, SeqsOK, Line, Resume
<1>4. /\ TaskInv' /\ Decoded' = Decoded /\ chain' \in Seq(Nat)
      /\ \A k \in 1..Len(chain') : chain'[k] = Current' + k
  <2>1. CASE chain = <<>>
    <3>1. tasks' = <<>> /\ chain' = chain
      BY <1>1, <2>1 DEF RunTask, Resume
    <3>2. Current' = Current
      BY <1>2, <1>3, <3>1 DEF Current
    <3> QED
      BY <1>3, <2>1, <3>1, <3>2 DEF TaskInv, Decoded, OrderInv
  <2>2. CASE chain # <<>>
    <3>1. tasks' = <<Line(Head(chain))>> /\ chain' = Tail(chain)
      BY <1>1, <2>2 DEF RunTask, Resume
    <3>2. Head(chain) = n + 1
      BY <1>3, <2>2 DEF OrderInv
    <3>3. /\ chain' \in Seq(Nat) /\ Len(chain') = Len(chain) - 1
          /\ \A k \in 1..Len(chain') : chain'[k] = chain[k + 1]
      BY <1>3, <2>2, <3>1
    <3>4. Current' = n + 1
      BY <1>2, <3>1, <3>2 DEF Current
    <3>5. Decoded' = Decoded
      BY <1>3, <3>3, <3>4 DEF Decoded
    <3>6. ASSUME NEW k \in 1..Len(chain')
          PROVE  chain'[k] = Current' + k
      <4>1. k + 1 \in 1..Len(chain)
        BY <1>3, <3>3
      <4>2. chain[k + 1] = Current + (k + 1)
        BY <4>1 DEF OrderInv
      <4> QED
        BY <1>3, <3>3, <3>4, <4>2
    <3>7. TaskInv'
      BY <1>2, <3>1, <3>2 DEF TaskInv
    <3> QED
      BY <3>3, <3>5, <3>6, <3>7
  <2> QED
    BY <2>1, <2>2
<1>5. StreamInv'
  BY <1>2, <1>4, StreamStays
<1>6. OrderInv'
  BY <1>2, <1>4 DEF OrderInv
<1> QED
  BY <1>2, <1>4, <1>5, <1>6 DEF SeqsOK

\* What ends the transport, or writes to the child, leaves its frames alone.
LEMMA FramesStay ==
    ASSUME FrameInv, UNCHANGED <<written, pipe, decoderVars>>,
           child' \in {"none", "running"} => child \in {"none", "running"}
    PROVE  FrameInv'
<1> USE DEF FrameInv
<1>1. Stream' = Stream /\ Decoded' = Decoded /\ Current' = Current
  BY DEF Stream, Decoded, Current, decoderVars
<1>2. StreamInv'
  BY <1>1 DEF StreamInv
<1> QED
  BY <1>1, <1>2 DEF SeqsOK, TaskInv, OrderInv, decoderVars

LEMMA FrameStep == FrameInv /\ [Next]_vars => FrameInv'
<1> SUFFICES ASSUME FrameInv, [Next]_vars
             PROVE  FrameInv'
  OBVIOUS
<1>1. CASE Write
  BY <1>1, WriteStep
<1>2. CASE Die
  BY <1>2, DieStep
<1>3. CASE Read
  BY <1>3, ReadStep
<1>4. CASE RunTask
  <2>1. Head(tasks).type \in {"line", "handler", "resume"}
    BY <1>4 DEF RunTask
  <2> QED
    BY <1>4, <2>1, LineStep, HandlerStep, ResumeStep
<1>5. CASE Start \/ ChildError \/ ChildExit \/ Close \/ Send \/ SendBatch
  BY <1>5, FramesStay DEF Start, ChildError, ChildExit, Close, Send, SendBatch
<1>6. CASE UNCHANGED vars
  BY <1>6, FramesStay DEF vars
<1> QED
  BY <1>1, <1>2, <1>3, <1>4, <1>5, <1>6 DEF Next

\* However many frames there are and wherever the pipe is cut, processLine sees
\* every frame whole, once and in the order in which the child wrote them.
THEOREM InOrder == Spec => []FramesInOrder
<1>1. FrameInv => FramesInOrder
  BY DEF FrameInv, SeqsOK, OrderInv, FramesInOrder
<1> QED
  BY <1>1, FrameInit, FrameStep, PTL DEF Spec

\* No response and no batch takes effect before a notification that was written
\* before it: the yield between two lines lets its handler run first.
THEOREM NoOvertaking == Spec => []ProgressNotOvertaken
<1>1. ASSUME FrameInv
      PROVE  ProgressNotOvertaken
  <2>1. DOMAIN effects = 1..Len(effects)
    BY <1>1 DEF FrameInv, SeqsOK
  <2> QED
    BY <1>1, <2>1 DEF FrameInv, OrderInv, ProgressNotOvertaken
<1> QED
  BY <1>1, FrameInit, FrameStep, PTL DEF Spec
=============================================================================

-------------------------- MODULE LogPreviewProofs --------------------------
(***************************************************************************)
(* Proofs about LogPreview, for every log, all arguments and any limits.   *)
(***************************************************************************)
EXTENDS LogPreview, Counting, SequenceTheorems

Byte == {"a", "nl", "lead", "trail"}

\* A character is written in one piece, only its end may still be missing.
Encoded(data) ==
    \A i \in 1..Len(data) :
        /\ data[i] = "trail" => i > 1 /\ data[i - 1] = "lead"
        /\ data[i] = "lead" /\ i < Len(data) => data[i + 1] = "trail"

-----------------------------------------------------------------------------
(* The two cuts.                                                            *)

LEMMA NewlinesFinite ==
    ASSUME NEW data \in Seq(Byte), NEW i \in Nat
    PROVE  /\ Newlines(data, i) \subseteq 0..Len(data)
           /\ IsFiniteSet(Newlines(data, i))
           /\ Cardinality(Newlines(data, i)) \in Nat
<1>1. Len(data) \in Nat
  OBVIOUS
<1>2. Newlines(data, i) \subseteq 0..Len(data)
  BY <1>1 DEF Newlines
<1>3. IsFiniteSet(0..Len(data))
  BY <1>1, FS_Interval
<1>4. IsFiniteSet(Newlines(data, i))
  BY <1>2, <1>3, FS_Subset
<1> QED BY <1>2, <1>4, FS_CardinalityType

\* Fewer newlines come after a later place.
LEMMA FewerNewlines ==
    ASSUME NEW data \in Seq(Byte), NEW i \in Nat, NEW j \in Nat, i <= j
    PROVE  Cardinality(Newlines(data, j)) <= Cardinality(Newlines(data, i))
<1>1. Newlines(data, j) \subseteq Newlines(data, i)
  BY DEF Newlines
<1> QED BY <1>1, NewlinesFinite, FS_Subset

LEMMA SuffixElements ==
    ASSUME NEW data \in Seq(Byte), NEW k \in 0..Len(data)
    PROVE  LET rest == SubSeq(data, k + 1, Len(data))
           IN /\ rest \in Seq(Byte) /\ Len(rest) = Len(data) - k
              /\ \A i \in 1..Len(rest) : rest[i] = data[k + i]
OBVIOUS

\* What a tail that starts after byte k says of the newlines.
CutsAfter(data, n, k) ==
    /\ k = 0 /\ n > 0 => \A j \in Newlines(data, 1) : Cardinality(Newlines(data, j)) <= n
    /\ k > 0 => /\ n > 0 /\ data[k] = "nl"
                /\ Cardinality(Newlines(data, k)) > n
                /\ \A j \in Newlines(data, k + 1) : Cardinality(Newlines(data, j)) <= n

LEMMA TailCut ==
    ASSUME NEW data \in Seq(Byte), NEW n \in Int
    PROVE  \E k \in 0..Len(data) :
              /\ tailByLines(data, n) = SubSeq(data, k + 1, Len(data))
              /\ CutsAfter(data, n, k)
<1> DEFINE over == {i \in Newlines(data, 1) : Cardinality(Newlines(data, i)) > n}
<1>1. Len(data) \in Nat /\ SubSeq(data, 1, Len(data)) = data
  BY SubSeqFull
<1>2. CASE n <= 0 \/ over = {}
  <2>1. tailByLines(data, n) = SubSeq(data, 0 + 1, Len(data))
    BY <1>1, <1>2 DEF tailByLines
  <2>2. \A j \in Newlines(data, 1) : j \in Nat
    BY DEF Newlines
  <2>3. CutsAfter(data, n, 0)
    BY <1>2, <2>2, NewlinesFinite DEF CutsAfter
  <2> QED BY <1>1, <2>1, <2>3
<1>3. CASE n > 0 /\ over # {}
  <2>1. over \subseteq 0..Len(data)
    BY NewlinesFinite
  <2>2. Max(over) \in over /\ \A x \in over : x <= Max(over)
    BY <1>1, <1>3, <2>1, GreatestElement
  <2> DEFINE k == Max(over)
  <2>a. ~(n <= 0 \/ over = {})
    BY <1>3
  <2>3. tailByLines(data, n) = SubSeq(data, k + 1, Len(data))
    BY <2>a, Zenon DEF tailByLines
  <2> HIDE DEF over
  <2>4. k \in 1..Len(data) /\ data[k] = "nl" /\ Cardinality(Newlines(data, k)) > n
    BY <2>2 DEF over, Newlines
  <2>5. ASSUME NEW j \in Newlines(data, k + 1)
        PROVE  Cardinality(Newlines(data, j)) <= n
    <3>1. j \in Newlines(data, 1) /\ j > k /\ j \in Nat
      BY <1>1, <2>4 DEF Newlines
    <3>2. j \notin over
      BY <2>2, <2>4, <3>1
    <3> QED BY <3>1, <3>2, NewlinesFinite DEF over
  <2> HIDE DEF k
  <2>6. k \in 0..Len(data) /\ CutsAfter(data, n, k)
    BY <1>1, <1>3, <2>4, <2>5 DEF CutsAfter
  <2> QED BY <2>3, <2>6
<1> QED BY <1>2, <1>3

\* What a limited text that starts after byte c says of the limit.
LimitsAfter(data, m, c) ==
    /\ c = 0 <=> limitBytes(data, m) = data
    /\ m > 0 => Len(data) - c <= m
    /\ c > 0 => m > 0 /\ Len(data) - c = m

LEMMA LimitCut ==
    ASSUME NEW data \in Seq(Byte), NEW m \in Int
    PROVE  \E c \in 0..Len(data) :
              /\ limitBytes(data, m) = SubSeq(data, c + 1, Len(data))
              /\ LimitsAfter(data, m, c)
<1>1. Len(data) \in Nat /\ SubSeq(data, 1, Len(data)) = data
  BY SubSeqFull
<1>2. CASE m <= 0 \/ Len(data) <= m
  <2>1. limitBytes(data, m) = data
    BY <1>2 DEF limitBytes
  <2>2. limitBytes(data, m) = SubSeq(data, 0 + 1, Len(data)) /\ 0 \in 0..Len(data)
    BY <1>1, <2>1
  <2>3. LimitsAfter(data, m, 0)
    BY <1>1, <1>2, <2>1 DEF LimitsAfter
  <2> QED BY <2>2, <2>3
<1>3. CASE ~(m <= 0 \/ Len(data) <= m)
  <2> DEFINE c == Len(data) - m
  <2>1. c \in 1..Len(data) /\ c \in 0..Len(data)
    BY <1>1, <1>3
  <2>2. limitBytes(data, m) = SubSeq(data, c + 1, Len(data))
    BY <1>3 DEF limitBytes
  <2>3. Len(SubSeq(data, c + 1, Len(data))) = m
    BY <1>1, <1>3
  <2>4. limitBytes(data, m) # data
    BY <1>1, <1>3, <2>2, <2>3
  <2>a. Len(data) \in Nat
    OBVIOUS
  <2>5. Len(data) - c = m /\ m > 0 /\ m <= m /\ c # 0
    BY <1>3, <2>a
  <2> HIDE DEF c
  <2>6. LimitsAfter(data, m, c)
    BY <2>4, <2>5 DEF LimitsAfter
  <2> QED BY <2>1, <2>2, <2>6
<1> QED BY <1>2, <1>3

-----------------------------------------------------------------------------
(* The answers.                                                             *)

\* An answer is the cut of what it saw of the log.
IsAnswer(p, seen) ==
    LET tailed == tailByLines(seen, p.tail_lines)
    IN /\ p.tail_lines \in Int /\ p.max_bytes \in Int
       /\ p.data = limitBytes(tailed, p.max_bytes)
       /\ p.truncated <=> p.data # tailed
       /\ p.log = Marshalled(p.data)

Answered(p) ==
    /\ p.bytes \in 0..Len(log)
    /\ IsAnswer(p, SubSeq(log, 1, p.bytes))

\* The log only grows, so the latest answer stays one about its beginning.
Polled ==
    /\ log \in Seq(Byte) /\ Encoded(log)
    /\ asked \in [lines : LineArgs, bytes : ByteArgs]
    /\ Answered(preview)
    /\ last.bytes \in 0..preview.bytes

LEMMA SeenIsPrefix ==
    ASSUME log \in Seq(Byte), preview.bytes \in 0..Len(log)
    PROVE  /\ Seen \in Seq(Byte) /\ Len(Seen) = preview.bytes
           /\ \A i \in 1..preview.bytes : Seen[i] = log[i]
BY DEF Seen

\* The latest answer holds what follows byte s of what it saw, where the cut by
\* lines falls after byte k.
Holds(p, k, s) ==
    /\ k \in 0..Len(Seen) /\ s \in k..Len(Seen)
    /\ CutsAfter(Seen, p.tail_lines, k)
    /\ p.data \in Seq(Byte) /\ Len(p.data) = Len(Seen) - s
    /\ \A i \in 1..Len(p.data) : p.data[i] = Seen[s + i]
    /\ ~p.truncated => s = k
    /\ p.max_bytes > 0 => Len(p.data) <= p.max_bytes
    /\ s > k => p.max_bytes > 0 /\ Len(p.data) = p.max_bytes

LEMMA AnswerHolds ==
    ASSUME log \in Seq(Byte), Answered(preview)
    PROVE  \E k, s \in Nat : Holds(preview, k, s)
<1> DEFINE n == preview.tail_lines
           m == preview.max_bytes
           tailed == tailByLines(Seen, n)
<1>1. /\ preview.bytes \in 0..Len(log) /\ n \in Int /\ m \in Int
      /\ preview.data = limitBytes(tailed, m)
      /\ preview.truncated <=> preview.data # tailed
  BY DEF Answered, IsAnswer, Seen
<1>2. Seen \in Seq(Byte) /\ Len(Seen) \in Nat
  BY <1>1, SeenIsPrefix
<1>3. PICK k \in 0..Len(Seen) : tailed = SubSeq(Seen, k + 1, Len(Seen)) /\ CutsAfter(Seen, n, k)
  BY <1>1, <1>2, TailCut
<1> HIDE DEF n, m, tailed
<1>4. /\ tailed \in Seq(Byte) /\ Len(tailed) = Len(Seen) - k
      /\ \A i \in 1..Len(tailed) : tailed[i] = Seen[k + i]
  BY <1>2, <1>3, SuffixElements
<1>5. PICK c \in 0..Len(tailed) :
        limitBytes(tailed, m) = SubSeq(tailed, c + 1, Len(tailed)) /\ LimitsAfter(tailed, m, c)
  BY <1>1, <1>4, LimitCut
<1>6. /\ preview.data \in Seq(Byte) /\ Len(preview.data) = Len(tailed) - c
      /\ \A i \in 1..Len(preview.data) : preview.data[i] = tailed[c + i]
  BY <1>1, <1>4, <1>5, SuffixElements
<1>a. k \in Nat /\ c \in Nat /\ Len(tailed) \in Nat /\ k + Len(tailed) = Len(Seen) /\ c <= Len(tailed)
      /\ Len(preview.data) = Len(tailed) - c /\ Len(Seen) \in Nat
  BY <1>2, <1>3, <1>4, <1>5, <1>6
<1> DEFINE s == k + c
<1>7. s \in k..Len(Seen) /\ Len(preview.data) = Len(Seen) - s /\ k \in Nat /\ s \in Nat
  BY <1>a
<1>8. \A i \in 1..Len(preview.data) : preview.data[i] = Seen[s + i]
  BY <1>2, <1>3, <1>4, <1>5, <1>6
<1>9. ~preview.truncated => s = k
  BY <1>1, <1>3, <1>5, <1>2 DEF LimitsAfter
<1>10. m > 0 => Len(preview.data) <= m
  BY <1>5, <1>6 DEF LimitsAfter
<1>11. s > k => m > 0 /\ Len(preview.data) = m
  BY <1>3, <1>5, <1>6 DEF LimitsAfter
<1> HIDE DEF s
<1>12. Holds(preview, k, s)
  BY <1>3, <1>6, <1>7, <1>8, <1>9, <1>10, <1>11 DEF Holds, n, m
<1> QED BY <1>7, <1>12

\* However they are given, the arguments come out as integers.
LEMMA ArgumentsAreIntegers ==
    ASSUME NEW arg \in LineArgs \cup ByteArgs, NEW default \in Int
    PROVE  GetOptionalInt(arg, default) \subseteq Int
<1>1. CASE arg \in {Absent, Huge, Junk}
  BY <1>1, PreviewAssumption DEF GetOptionalInt, ToInt64, Absent, Huge, Junk
<1>2. CASE arg.kind = "number" /\ arg.halves \in (2 * MinInt)..(2 * MaxInt)
  <2>1. arg.halves \in Int
    BY <1>2
  <2>2. CASE arg.halves >= 0
    <3>1. ToInt64(arg) = {arg.halves \div 2}
      BY <1>2, <2>2 DEF ToInt64
    <3> QED BY <2>1, <3>1 DEF GetOptionalInt
  <2>3. CASE ~(arg.halves >= 0)
    <3>1. ToInt64(arg) = {-((-arg.halves) \div 2)}
      BY <1>2, <2>1, <2>3 DEF ToInt64
    <3> QED BY <2>1, <3>1 DEF GetOptionalInt
  <2> QED BY <2>2, <2>3
<1>3. CASE arg.kind = "numeral" /\ arg.value \in MinInt..MaxInt
  BY <1>3 DEF GetOptionalInt, ToInt64
<1> QED BY <1>1, <1>2, <1>3, PreviewAssumption

LEMMA PolledInit == Init => Polled
<1> SUFFICES ASSUME Init PROVE Polled
  OBVIOUS
<1>1. /\ log = <<>> /\ asked \in [lines : LineArgs, bytes : ByteArgs]
      /\ last.bytes = 0 /\ preview.bytes = 0
      /\ preview.tail_lines = 0 /\ preview.max_bytes = 0 /\ preview.truncated = FALSE
      /\ preview.data = <<>> /\ preview.log = <<>>
  BY DEF Init, NoPreview
<1>2. SubSeq(log, 1, preview.bytes) = <<>>
  BY <1>1
<1>3. tailByLines(<<>>, 0) = <<>> /\ limitBytes(<<>>, 0) = <<>>
  BY DEF tailByLines, limitBytes
<1>4. Marshalled(<<>>) = <<>>
  BY DEF Marshalled
<1>a. ~preview.truncated
  BY <1>1
<1>b. IsAnswer(preview, <<>>)
  BY <1>1, <1>3, <1>4, <1>a DEF IsAnswer
<1>c. preview.bytes \in 0..Len(log)
  BY <1>1
<1>5. Answered(preview)
  BY <1>2, <1>b, <1>c DEF Answered
<1> QED BY <1>1, <1>5 DEF Polled, Encoded

\* The runner writes characters: what it adds keeps the log encoded.
LEMMA EncodedGrows ==
    ASSUME NEW s \in Seq(Byte), Encoded(s), NEW b \in Written(s)
    PROVE  Encoded(Append(s, b))
<1> DEFINE t == Append(s, b)
           n == Len(s)
<1>1. b \in Byte /\ n \in Nat
  BY DEF Written, Byte
<1>2. Len(t) = n + 1 /\ t[n + 1] = b /\ \A i \in 1..n : t[i] = s[i]
  BY <1>1, AppendProperties
<1>3. IF n > 0 /\ s[n] = "lead" THEN b = "trail" ELSE b # "trail"
  <2>1. n > 0 <=> s # <<>>
    BY <1>1
  <2> QED BY <2>1 DEF Written, Last
<1> HIDE DEF t, n
<1>4. ASSUME NEW i \in 1..n + 1, t[i] = "trail" PROVE i > 1 /\ t[i - 1] = "lead"
  <2>1. CASE i = n + 1
    <3>1. b = "trail"
      BY <1>2, <1>4, <2>1
    <3>2. n > 0 /\ s[n] = "lead"
      BY <1>3, <3>1
    <3>3. n \in 1..n /\ i - 1 = n /\ i > 1
      BY <1>1, <2>1, <3>2
    <3> QED BY <1>2, <3>2, <3>3
  <2>2. CASE i # n + 1
    <3>1. i \in 1..n
      BY <1>1, <2>2
    <3>2. s[i] = "trail"
      BY <1>2, <1>4, <3>1
    <3>3. i > 1 /\ s[i - 1] = "lead"
      BY <3>1, <3>2 DEF Encoded, n
    <3>4. i - 1 \in 1..n
      BY <1>1, <3>1, <3>3
    <3> QED BY <1>2, <3>3, <3>4
  <2> QED BY <2>1, <2>2
<1>5. ASSUME NEW i \in 1..n + 1, t[i] = "lead", i < n + 1 PROVE t[i + 1] = "trail"
  <2>1. i \in 1..n /\ s[i] = "lead"
    <3>1. i \in 1..n
      BY <1>1, <1>5
    <3> QED BY <1>2, <1>5, <3>1
  <2>2. CASE i = n
    <3>1. n > 0
      BY <1>1, <2>1
    <3>2. b = "trail"
      BY <1>3, <2>1, <2>2, <3>1
    <3> QED BY <1>2, <2>2, <3>2
  <2>3. CASE i # n
    <3>1. i < n /\ i + 1 \in 1..n
      BY <1>1, <2>1, <2>3
    <3>2. s[i + 1] = "trail"
      BY <2>1, <3>1 DEF Encoded, n
    <3> QED BY <1>2, <3>1, <3>2
  <2> QED BY <2>2, <2>3
<1>6. Encoded(t)
  BY <1>2, <1>4, <1>5 DEF Encoded
<1> QED BY <1>6 DEF t

LEMMA PolledKept == Polled /\ [Next]_vars => Polled'
<1> SUFFICES ASSUME Polled, [Next]_vars PROVE Polled'
  OBVIOUS
<1>1. CASE Write
  <2>1. PICK b \in Written(log) : log' = Append(log, b)
    BY <1>1 DEF Write
  <2>2. asked' = asked /\ last' = last /\ preview' = preview
    BY <1>1 DEF Write
  <2>3. log \in Seq(Byte) /\ Len(log) \in Nat /\ preview.bytes \in 0..Len(log)
    BY DEF Polled, Answered
  <2>4. b \in Byte
    BY DEF Written, Byte
  <2>5. /\ log' \in Seq(Byte) /\ Len(log') = Len(log) + 1
        /\ \A i \in 1..Len(log) : log'[i] = log[i]
        /\ log'[Len(log) + 1] = b
    BY <2>1, <2>3, <2>4, AppendProperties
  <2>6. Encoded(log')
    BY <2>1, <2>3, EncodedGrows DEF Polled
  <2>7. SubSeq(log', 1, preview.bytes) = SubSeq(log, 1, preview.bytes)
    BY <2>3, <2>5
  <2>8. preview'.bytes \in 0..Len(log')
    BY <2>2, <2>3, <2>5
  <2>9. IsAnswer(preview', SubSeq(log', 1, preview'.bytes))
    BY <2>2, <2>7 DEF Polled, Answered
  <2>10. Answered(preview)'
    BY <2>8, <2>9 DEF Answered
  <2>11. last'.bytes \in 0..preview'.bytes
    BY <2>2 DEF Polled
  <2>12. asked' \in [lines : LineArgs, bytes : ByteArgs]
    BY <2>2 DEF Polled
  <2> QED BY <2>5, <2>6, <2>10, <2>11, <2>12 DEF Polled
<1>2. CASE Poll
  <2>1. PICK n \in GetOptionalInt(asked.lines, DefaultTailLines),
             m \in GetOptionalInt(asked.bytes, DefaultMaxBytes) : preview' = Preview(n, m)
    BY <1>2 DEF Poll
  <2>2. last' = preview /\ log' = log /\ asked' = asked
    BY <1>2 DEF Poll
  <2>3. asked.lines \in LineArgs /\ asked.bytes \in ByteArgs
    BY DEF Polled
  <2>4. n \in Int /\ m \in Int
    BY <2>3, ArgumentsAreIntegers, PreviewAssumption
  <2>5. /\ preview'.bytes = Len(log)
        /\ preview'.tail_lines = n /\ preview'.max_bytes = m
        /\ preview'.data = limitBytes(tailByLines(log, n), m)
        /\ preview'.truncated <=> preview'.data # tailByLines(log, n)
        /\ preview'.log = Marshalled(preview'.data)
    BY <2>1 DEF Preview
  <2>6. log \in Seq(Byte) /\ Len(log) \in Nat /\ preview.bytes \in 0..Len(log)
    BY DEF Polled, Answered
  <2>7. SubSeq(log', 1, preview'.bytes) = log
    BY <2>2, <2>5, <2>6
  <2>8. IsAnswer(preview', log)
    BY <2>4, <2>5 DEF IsAnswer
  <2>a. preview'.bytes \in 0..Len(log')
    BY <2>2, <2>5, <2>6
  <2>9. Answered(preview)'
    BY <2>7, <2>8, <2>a DEF Answered
  <2> QED BY <2>2, <2>5, <2>6, <2>9 DEF Polled
<1>3. CASE UNCHANGED vars
  BY <1>3 DEF vars, Polled, Answered
<1> QED BY <1>1, <1>2, <1>3 DEF Next

LEMMA AlwaysPolled == Spec => []Polled
BY PolledInit, PolledKept, PTL DEF Spec

\* A client that polls often enough for its limits misses nothing.
THEOREM NoGaps == Spec => []NothingMissed
<1>1. Polled => NothingMissed
  <2> SUFFICES ASSUME Polled,
                      preview.max_bytes <= 0 \/ preview.bytes - last.bytes <= preview.max_bytes,
                      \/ preview.tail_lines <= 0
                      \/ Cardinality(Newlines(Seen, last.bytes + 1)) <= preview.tail_lines
               PROVE  preview.bytes - Len(preview.data) <= last.bytes
    BY DEF NothingMissed
  <2>1. PICK k, s \in Nat : Holds(preview, k, s)
    BY AnswerHolds DEF Polled
  <2>2. /\ Seen \in Seq(Byte) /\ Len(Seen) = preview.bytes /\ preview.bytes \in Nat
        /\ last.bytes \in 0..preview.bytes
        /\ preview.tail_lines \in Int /\ preview.max_bytes \in Int
    <3>1. log \in Seq(Byte) /\ preview.bytes \in 0..Len(log)
      BY DEF Polled, Answered
    <3>2. preview.tail_lines \in Int /\ preview.max_bytes \in Int
      BY DEF Polled, Answered, IsAnswer
    <3>3. last.bytes \in 0..preview.bytes
      BY DEF Polled
    <3>4. Seen \in Seq(Byte) /\ Len(Seen) = preview.bytes
      BY <3>1, SeenIsPrefix
    <3>5. preview.bytes \in Nat
      BY <3>1
    <3> QED BY <3>2, <3>3, <3>4, <3>5
  <2>3. k <= last.bytes
    <3> SUFFICES ASSUME k > last.bytes PROVE FALSE
      BY <2>2
    <3>1. preview.tail_lines > 0 /\ Cardinality(Newlines(Seen, k)) > preview.tail_lines
      BY <2>1, <2>2 DEF Holds, CutsAfter
    <3>2. Cardinality(Newlines(Seen, k)) <= Cardinality(Newlines(Seen, last.bytes + 1))
      BY <2>2, FewerNewlines
    <3>3. Cardinality(Newlines(Seen, last.bytes + 1)) <= preview.tail_lines
      BY <2>2, <3>1
    <3>4. /\ Cardinality(Newlines(Seen, k)) \in Nat
          /\ Cardinality(Newlines(Seen, last.bytes + 1)) \in Nat
      <4>1. last.bytes + 1 \in Nat
        BY <2>2
      <4> QED BY <2>2, <4>1, NewlinesFinite
    <3> QED BY <2>2, <3>1, <3>2, <3>3, <3>4
  <2>4. /\ s \in k..preview.bytes /\ Len(preview.data) = preview.bytes - s
        /\ s > k => preview.max_bytes > 0 /\ Len(preview.data) = preview.max_bytes
    BY <2>1, <2>2 DEF Holds
  <2> DEFINE n == preview.bytes
             m == preview.max_bytes
             old == last.bytes
  <2>5. /\ n \in Nat /\ m \in Int /\ old \in Nat /\ k \in Nat /\ s \in Nat
        /\ k <= old
        /\ m <= 0 \/ n - old <= m
        /\ s > k => m > 0 /\ n - s = m
    BY <2>2, <2>3, <2>4
  <2>6. s <= old
    <3> HIDE DEF n, m, old
    <3> QED BY <2>5
  <2> QED BY <2>2, <2>4, <2>6
<1> QED BY <1>1, AlwaysPolled, PTL

LEMMA EncodedPrefix ==
    ASSUME NEW data \in Seq(Byte), Encoded(data), NEW n \in 0..Len(data)
    PROVE  Encoded(SubSeq(data, 1, n))
<1> DEFINE begin == SubSeq(data, 1, n)
<1>1. Len(begin) = n /\ n \in Nat /\ Len(data) \in Nat /\ n <= Len(data)
      /\ \A i \in 1..n : begin[i] = data[i]
  OBVIOUS
<1> HIDE DEF begin
<1>2. Encoded(begin)
  BY <1>1 DEF Encoded
<1> QED BY <1>2 DEF begin

LEMMA BadBytes ==
    ASSUME NEW data \in Seq(Byte), NEW i \in DOMAIN Marshalled(data),
           Marshalled(data)[i] = "bad"
    PROVE  /\ i \in 1..Len(data)
           /\ \/ data[i] = "lead" /\ (i < Len(data) => data[i + 1] # "trail")
              \/ data[i] = "trail" /\ (i > 1 => data[i - 1] # "lead")
<1> DEFINE Wide(j) == (j \in 1..Len(data) /\ data[j] = "lead")
                      /\ (j + 1 \in 1..Len(data) /\ data[j + 1] = "trail")
           Char(j) == IF Wide(j) THEN "wide"
                      ELSE IF data[j] \in {"lead", "trail"} THEN "bad" ELSE data[j]
           D == {j \in 1..Len(data) : ~Wide(j - 1)}
<1>1. Marshalled(data) = [j \in D |-> Char(j)]
  BY DEF Marshalled
<1> HIDE DEF Char, D
<1>2. i \in D /\ Char(i) = "bad"
  BY <1>1
<1>3. i \in 1..Len(data) /\ Len(data) \in Nat /\ data[i] \in Byte
      /\ ~Wide(i - 1) /\ (i - 1) + 1 = i
  BY <1>2 DEF D
<1>4. data[i] \in {"lead", "trail"} /\ ~Wide(i)
  BY <1>2, <1>3 DEF Char, Byte
<1> QED BY <1>3, <1>4

\* In the end of an encoded text only its first and its last byte can be bad.
LEMMA BadAtEnds ==
    ASSUME NEW seen \in Seq(Byte), Encoded(seen), NEW s \in 0..Len(seen),
           NEW data \in Seq(Byte), Len(data) = Len(seen) - s,
           \A j \in 1..Len(data) : data[j] = seen[s + j],
           NEW i \in DOMAIN Marshalled(data), Marshalled(data)[i] = "bad"
    PROVE  \/ i = 1 /\ s > 0 /\ seen[s] = "lead"
           \/ i = Len(data) /\ Last(seen) = "lead"
<1>0. /\ i \in 1..Len(data) /\ s \in Nat /\ Len(seen) \in Nat
      /\ Len(data) \in Nat /\ Len(seen) = Len(data) + s
  BY BadBytes
<1>1. s + i \in 1..Len(seen) /\ seen[s + i] = data[i]
  <2>1. s + i \in 1..Len(seen)
    BY <1>0
  <2> QED BY <1>0, <2>1
<1>2. CASE data[i] = "lead" /\ (i < Len(data) => data[i + 1] # "trail")
  <2>1. ASSUME i < Len(data) PROVE FALSE
    <3>1. i + 1 \in 1..Len(data) /\ s + i < Len(seen) /\ s + (i + 1) = (s + i) + 1
      BY <1>0, <2>1
    <3>2. data[i + 1] = seen[(s + i) + 1]
      BY <3>1
    <3>3. seen[(s + i) + 1] = "trail"
      BY <1>1, <1>2, <3>1 DEF Encoded
    <3> QED BY <1>2, <2>1, <3>2, <3>3
  <2>2. i = Len(data) /\ s + i = Len(seen)
    BY <1>0, <2>1
  <2> QED BY <1>1, <1>2, <2>2 DEF Last
<1>3. CASE data[i] = "trail" /\ (i > 1 => data[i - 1] # "lead")
  <2>1. s + i > 1 /\ seen[(s + i) - 1] = "lead"
    BY <1>1, <1>3 DEF Encoded
  <2>2. ASSUME i > 1 PROVE FALSE
    <3>1. i - 1 \in 1..Len(data) /\ s + (i - 1) = (s + i) - 1
      BY <1>0, <2>2
    <3>2. data[i - 1] = seen[(s + i) - 1]
      BY <3>1
    <3> QED BY <1>3, <2>1, <2>2, <3>2
  <2>3. i = 1 /\ s > 0 /\ (s + i) - 1 = s
    BY <1>0, <2>1, <2>2
  <2> QED BY <2>1, <2>3
<1> QED BY <1>2, <1>3, BadBytes

\* A character is only lost at a cut by bytes or where the log still grows.
THEOREM CharactersKept == Spec => []BrokenOnlyAtCut
<1>1. Polled => BrokenOnlyAtCut
  <2> SUFFICES ASSUME Polled, NEW i \in DOMAIN preview.log, preview.log[i] = "bad"
               PROVE  \/ i = 1 /\ preview.truncated
                      \/ i = Len(preview.data) /\ Last(Seen) = "lead"
    BY DEF BrokenOnlyAtCut
  <2>1. PICK k, s \in Nat : Holds(preview, k, s)
    BY AnswerHolds DEF Polled
  <2>2. /\ Seen \in Seq(Byte) /\ Len(Seen) = preview.bytes /\ preview.bytes \in 0..Len(log)
        /\ \A j \in 1..preview.bytes : Seen[j] = log[j]
    BY SeenIsPrefix DEF Polled, Answered
  <2>3. /\ s \in k..Len(Seen) /\ Len(preview.data) = Len(Seen) - s /\ Len(Seen) \in Nat
        /\ \A j \in 1..Len(preview.data) : preview.data[j] = Seen[s + j]
    BY <2>1, <2>2 DEF Holds
  <2>4. Encoded(Seen)
    BY <2>2, EncodedPrefix DEF Polled, Seen
  <2>5. preview.log = Marshalled(preview.data) /\ preview.data \in Seq(Byte)
    BY <2>1 DEF Polled, Answered, IsAnswer, Holds
  <2>6. \/ i = 1 /\ s > 0 /\ Seen[s] = "lead"
        \/ i = Len(preview.data) /\ Last(Seen) = "lead"
    <3>1. s \in 0..Len(Seen)
      BY <2>3
    <3>2. i \in DOMAIN Marshalled(preview.data) /\ Marshalled(preview.data)[i] = "bad"
      BY <2>5
    <3> QED BY <2>2, <2>3, <2>4, <2>5, <3>1, <3>2, BadAtEnds
  <2>7. s > 0 /\ Seen[s] = "lead" => preview.truncated
    BY <2>1 DEF Holds, CutsAfter
  <2> QED BY <2>6, <2>7
<1> QED BY <1>1, AlwaysPolled, PTL

-----------------------------------------------------------------------------
(* Lines are counted by their newlines.                                     *)

LEMMA StartsCounted ==
    ASSUME NEW data \in Seq(Byte)
    PROVE  /\ IsFiniteSet(LineStarts(data))
           /\ Cardinality(LineStarts(data)) =
                  Cardinality(Newlines(data, 1)) + (IF EndsLine(data) THEN 0 ELSE 1)
<1> DEFINE N == Newlines(data, 1)
           n == Len(data)
<1>1. n \in Nat /\ N \subseteq Int /\ IsFiniteSet(N) /\ Cardinality(N) \in Nat
  BY NewlinesFinite DEF Newlines
<1>2. CASE data = <<>>
  <2>1. N = {} /\ LineStarts(data) = {} /\ EndsLine(data)
    BY <1>2 DEF Newlines, LineStarts, EndsLine
  <2>2. Cardinality(LineStarts(data)) = 0 /\ Cardinality(N) = 0 /\ IsFiniteSet(LineStarts(data))
    BY <2>1, FS_EmptySet
  <2> QED BY <2>1, <2>2
<1>3. CASE data # <<>>
  <2> DEFINE inner == N \ {n}
             later == {j + 1 : j \in inner}
  <2>1. n >= 1
    BY <1>3
  <2>2. /\ IsFiniteSet(inner)
        /\ n \in N => Cardinality(inner) = Cardinality(N) - 1
        /\ n \notin N => Cardinality(inner) = Cardinality(N)
    <3> HIDE DEF N, n
    <3> QED BY <1>1, FS_RemoveElement
  <2>3. inner \subseteq Int
    BY <1>1
  <2>4. IsFiniteSet(later) /\ Cardinality(later) = Cardinality(inner)
    <3> HIDE DEF inner
    <3>1. /\ \A x \in inner : x + 1 \in later
          /\ \A y \in later : \E x \in inner : y = x + 1
      OBVIOUS
    <3> HIDE DEF later
    <3>2. IsFiniteSet(inner) /\ 1 \in Int
      BY <2>2
    <3> QED BY <2>3, <3>1, <3>2, MovedSet
  <2>5. LineStarts(data) = later \cup {1}
    <3>1. ASSUME NEW i \in LineStarts(data) PROVE i \in later \cup {1}
      <4>1. i \in 1..n /\ (i = 1 \/ data[i - 1] = "nl")
        BY <3>1 DEF LineStarts
      <4>2. CASE i # 1
        <5>1. i - 1 \in inner /\ i = (i - 1) + 1
          BY <1>1, <4>1, <4>2 DEF Newlines
        <5> QED BY <5>1
      <4> QED BY <4>2
    <3>2. ASSUME NEW j \in inner PROVE j + 1 \in LineStarts(data)
      <4>1. j \in 1..n /\ j # n /\ data[j] = "nl"
        BY <3>2 DEF Newlines
      <4>2. j + 1 \in 1..n /\ (j + 1) - 1 = j
        BY <1>1, <4>1
      <4> QED BY <4>1, <4>2 DEF LineStarts
    <3>3. 1 \in LineStarts(data)
      BY <1>1, <2>1 DEF LineStarts
    <3> QED BY <3>1, <3>2, <3>3
  <2>6. 1 \notin later
    BY DEF Newlines
  <2>7. n \in N <=> EndsLine(data)
    BY <1>1, <1>3, <2>1 DEF Newlines, EndsLine, Last
  <2> HIDE DEF later, inner, N
  <2>8. IsFiniteSet(LineStarts(data)) /\ Cardinality(LineStarts(data)) = Cardinality(later) + 1
    BY <2>4, <2>5, <2>6, FS_AddElement
  <2>9. CASE EndsLine(data)
    BY <1>1, <2>2, <2>4, <2>7, <2>8, <2>9 DEF N
  <2>10. CASE ~EndsLine(data)
    BY <1>1, <2>2, <2>4, <2>7, <2>8, <2>10 DEF N
  <2> QED BY <2>9, <2>10
<1> QED BY <1>2, <1>3

\* If from each newline on there are at most n, there are at most n in all.
LEMMA AtMost ==
    ASSUME NEW data \in Seq(Byte), NEW i \in Nat, NEW n \in Nat,
           \A j \in Newlines(data, i) : Cardinality(Newlines(data, j)) <= n
    PROVE  Cardinality(Newlines(data, i)) <= n
<1>1. CASE Newlines(data, i) = {}
  BY <1>1, FS_EmptySet
<1>2. CASE Newlines(data, i) # {}
  <2>1. Newlines(data, i) \subseteq Nat
    BY NewlinesFinite
  <2>2. PICK j \in Newlines(data, i) : \A x \in Newlines(data, i) : j <= x
    BY <1>2, <2>1, LeastElement
  <2>3. Newlines(data, j) = Newlines(data, i)
    BY <2>1, <2>2 DEF Newlines
  <2> QED BY <2>2, <2>3
<1> QED BY <1>1, <1>2

\* The rest after the newline at k, if the cut by lines falls there, has n.
LEMMA ExactlyAfter ==
    ASSUME NEW data \in Seq(Byte), NEW n \in Nat, NEW k \in 1..Len(data), CutsAfter(data, n, k)
    PROVE  Cardinality(Newlines(data, k + 1)) = n
<1>1. /\ k \in Nat /\ k > 0 /\ k + 1 \in Nat /\ data[k] = "nl"
      /\ Cardinality(Newlines(data, k)) > n
      /\ \A j \in Newlines(data, k + 1) : Cardinality(Newlines(data, j)) <= n
  BY DEF CutsAfter
<1>2. Cardinality(Newlines(data, k + 1)) <= n
  BY <1>1, AtMost
<1>3. Newlines(data, k) = Newlines(data, k + 1) \cup {k} /\ k \notin Newlines(data, k + 1)
  BY <1>1 DEF Newlines
<1>4. Cardinality(Newlines(data, k)) = Cardinality(Newlines(data, k + 1)) + 1
  BY <1>1, <1>3, NewlinesFinite, FS_AddElement
<1>5. Cardinality(Newlines(data, k + 1)) \in Nat
  BY <1>1, NewlinesFinite
<1> QED BY <1>1, <1>2, <1>4, <1>5

\* The end of a text has the newlines that the text has from there on.
LEMMA RestCounted ==
    ASSUME NEW seen \in Seq(Byte), NEW s \in 0..Len(seen),
           NEW data \in Seq(Byte), Len(data) = Len(seen) - s,
           \A j \in 1..Len(data) : data[j] = seen[s + j]
    PROVE  Cardinality(Newlines(data, 1)) = Cardinality(Newlines(seen, s + 1))
<1>1. s \in Nat /\ Len(seen) \in Nat /\ Len(data) \in Nat /\ Len(seen) = Len(data) + s
  OBVIOUS
<1>2. ASSUME NEW x \in Newlines(seen, s + 1) PROVE \E y \in Newlines(data, 1) : x = y + s
  <2>1. x \in s + 1..Len(seen) /\ seen[x] = "nl"
    BY DEF Newlines
  <2>2. x - s \in 1..Len(data) /\ s + (x - s) = x /\ x = (x - s) + s
    BY <1>1, <2>1
  <2>3. x - s \in Newlines(data, 1)
    BY <2>1, <2>2 DEF Newlines
  <2> QED BY <2>2, <2>3
<1>3. ASSUME NEW y \in Newlines(data, 1) PROVE y + s \in Newlines(seen, s + 1)
  <2>1. y \in 1..Len(data) /\ data[y] = "nl"
    BY DEF Newlines
  <2>2. y + s \in s + 1..Len(seen) /\ y + s = s + y
    BY <1>1, <2>1
  <2>3. seen[y + s] = "nl"
    BY <2>1, <2>2
  <2> QED BY <2>2, <2>3 DEF Newlines
<1>5. Newlines(data, 1) \subseteq Int /\ IsFiniteSet(Newlines(data, 1))
  BY NewlinesFinite
<1>6. s \in Int
  BY <1>1
<1> QED BY <1>2, <1>3, <1>5, <1>6, MovedSet

LEMMA RestEndsAlike ==
    ASSUME NEW seen \in Seq(Byte), NEW s \in 0..Len(seen), s < Len(seen),
           NEW data \in Seq(Byte), Len(data) = Len(seen) - s,
           \A j \in 1..Len(data) : data[j] = seen[s + j]
    PROVE  EndsLine(data) <=> EndsLine(seen)
<1>a. Len(data) \in Nat /\ Len(seen) \in Nat /\ s \in Nat
  OBVIOUS
<1>1. Len(data) \in 1..Len(data) /\ s + Len(data) = Len(seen) /\ Len(data) > 0 /\ Len(seen) > 0
  BY <1>a
<1>2. data[Len(data)] = seen[Len(seen)]
  BY <1>1
<1>3. data # <<>> /\ seen # <<>>
  BY <1>1
<1> QED BY <1>2, <1>3 DEF EndsLine, Last

LEMMA RestIsSuffix ==
    ASSUME NEW seen \in Seq(Byte), NEW s \in 0..Len(seen),
           NEW data \in Seq(Byte), Len(data) = Len(seen) - s,
           \A j \in 1..Len(data) : data[j] = seen[s + j]
    PROVE  IsSuffix(data, seen)
<1>a. Len(data) \in Nat /\ Len(seen) \in Nat
  OBVIOUS
<1>1. PICK m, n \in Nat : m = Len(data) /\ n = Len(seen)
  BY <1>a
<1>2. s \in Nat /\ n = m + s
  BY <1>1
<1>3. /\ Reverse(data) \in Seq(Byte) /\ Len(Reverse(data)) = m
      /\ Reverse(seen) \in Seq(Byte) /\ Len(Reverse(seen)) = n
  BY <1>1 DEF Reverse
<1>4. ASSUME NEW i \in 1..m PROVE Reverse(data)[i] = Reverse(seen)[i]
  <2>1. (m - i) + 1 \in 1..m /\ (n - i) + 1 = s + ((m - i) + 1) /\ i \in 1..n
    BY <1>2
  <2>2. Reverse(data)[i] = data[(m - i) + 1] /\ Reverse(seen)[i] = seen[(n - i) + 1]
    BY <1>1, <2>1 DEF Reverse
  <2> QED BY <1>1, <2>1, <2>2
<1>5. m <= n
  BY <1>2
<1>6. SubSeq(Reverse(data), 1, m) = SubSeq(Reverse(seen), 1, m)
  BY <1>3, <1>4, <1>5
<1> QED BY <1>3, <1>5, <1>6 DEF IsSuffix, IsPrefix

\* An answer that is not truncated holds the lines that were asked for, whole.
THEOREM LinesComplete == Spec => []LinesKept
<1>1. Polled => LinesKept
  <2> DEFINE n == preview.tail_lines
             data == preview.data
             held == Cardinality(LineStarts(data))
             all == Cardinality(LineStarts(Seen))
             owed == n + (IF EndsLine(Seen) THEN 0 ELSE 1)
  <2> SUFFICES ASSUME Polled, ~preview.truncated, n > 0
               PROVE  held = Min({all, owed}) /\ IsSuffix(data, Seen)
    BY DEF LinesKept
  <2>1. PICK k, s \in Nat : Holds(preview, k, s)
    BY AnswerHolds DEF Polled
  <2>2. Seen \in Seq(Byte) /\ Len(Seen) \in Nat
    BY SeenIsPrefix DEF Polled, Answered
  <2>3. n \in Nat
    BY DEF Polled, Answered, IsAnswer
  <2>4. /\ s = k /\ s \in 0..Len(Seen) /\ CutsAfter(Seen, n, s)
        /\ data \in Seq(Byte) /\ Len(data) = Len(Seen) - s
        /\ \A j \in 1..Len(data) : data[j] = Seen[s + j]
    BY <2>1, <2>2 DEF Holds
  <2>5. IsSuffix(data, Seen)
    BY <2>2, <2>4, RestIsSuffix
  <2> DEFINE behind == Cardinality(Newlines(Seen, s + 1))
             inAll == Cardinality(Newlines(Seen, 1))
  <2>6. behind \in Nat /\ inAll \in Nat /\ behind <= inAll
    <3>1. s + 1 \in Nat /\ 1 \in Nat /\ 1 <= s + 1
      BY <2>2, <2>4
    <3> QED BY <2>2, <3>1, NewlinesFinite, FewerNewlines
  <2>7. held = behind + (IF EndsLine(data) THEN 0 ELSE 1)
    BY <2>2, <2>4, StartsCounted, RestCounted
  <2>8. all = inAll + (IF EndsLine(Seen) THEN 0 ELSE 1)
    BY <2>2, StartsCounted
  <2>9. \A x, y \in Int : x <= y => Min({x, y}) = x /\ Min({y, x}) = x
    BY DEF Min
  <2>10. CASE s = 0
    <3>1. inAll <= n
      BY <2>2, <2>3, <2>4, <2>10, AtMost DEF CutsAfter
    <3>2. data = Seen
      BY <2>2, <2>4, <2>10
    <3>3. held = all /\ all <= owed /\ all \in Int /\ owed \in Int
      BY <2>3, <2>6, <2>8, <3>1, <3>2
    <3> HIDE DEF held, all, owed
    <3> QED BY <2>5, <2>9, <3>3
  <2>11. CASE s > 0
    <3>1. behind = n
      BY <2>2, <2>3, <2>4, <2>11, ExactlyAfter
    <3>2. s < Len(Seen)
      <4> SUFFICES ASSUME s = Len(Seen) PROVE FALSE
        BY <2>4, <2>2
      <4>1. Newlines(Seen, s + 1) = {}
        BY <2>2 DEF Newlines
      <4>2. behind = 0
        BY <4>1, FS_EmptySet
      <4> QED BY <2>3, <3>1, <4>2
    <3>3. EndsLine(data) <=> EndsLine(Seen)
      BY <2>2, <2>4, <3>2, RestEndsAlike
    <3>4. held = owed /\ owed <= all /\ all \in Int /\ owed \in Int
      BY <2>3, <2>6, <2>7, <2>8, <3>1, <3>3
    <3> HIDE DEF held, all, owed
    <3> QED BY <2>5, <2>9, <3>4
  <2> QED BY <2>4, <2>10, <2>11
<1> QED BY <1>1, AlwaysPolled, PTL

=============================================================================

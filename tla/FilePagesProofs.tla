--------------------------- MODULE FilePagesProofs --------------------------
(***************************************************************************)
(* Proofs about FilePages, for all files, all arguments and any limits.    *)
(***************************************************************************)
EXTENDS FilePages, Counting, SequenceTheorems

Texts == Seq(Characters)

-----------------------------------------------------------------------------
(* Lines.                                                                   *)

LEMMA LineEndsFinite ==
    ASSUME NEW f \in Texts
    PROVE  /\ Len(f) \in Nat /\ LineEnds(f) \subseteq 1..Len(f)
           /\ IsFiniteSet(LineEnds(f)) /\ TotalLines(f) \in Nat
<1>1. Len(f) \in Nat /\ LineEnds(f) \subseteq 1..Len(f)
  BY DEF Texts, LineEnds
<1>2. IsFiniteSet(1..Len(f))
  BY <1>1, FS_Interval
<1>3. IsFiniteSet(LineEnds(f))
  BY <1>1, <1>2, FS_Subset
<1> QED BY <1>1, <1>3, FS_CardinalityType DEF TotalLines

UpTo(f, e) == {x \in LineEnds(f) : x <= e}
Rank(f, e) == Cardinality(UpTo(f, e))

LEMMA RankGrows ==
    ASSUME NEW f \in Texts, NEW d \in Nat, NEW e \in Nat, d <= e
    PROVE  /\ Rank(f, d) \in Nat /\ Rank(f, e) \in Nat /\ Rank(f, d) <= Rank(f, e)
           /\ IsFiniteSet(UpTo(f, d)) /\ IsFiniteSet(UpTo(f, e))
           /\ Rank(f, e) <= TotalLines(f)
<1>1. /\ UpTo(f, d) \subseteq UpTo(f, e) /\ UpTo(f, e) \subseteq LineEnds(f)
      /\ IsFiniteSet(LineEnds(f))
  BY LineEndsFinite DEF UpTo
<1>2. IsFiniteSet(UpTo(f, e)) /\ Rank(f, e) <= TotalLines(f)
  BY <1>1, FS_Subset DEF Rank, TotalLines
<1>3. IsFiniteSet(UpTo(f, d)) /\ Rank(f, d) <= Rank(f, e)
  BY <1>1, <1>2, FS_Subset DEF Rank
<1>4. Rank(f, d) \in Nat /\ Rank(f, e) \in Nat
  BY <1>2, <1>3, FS_CardinalityType DEF Rank
<1> QED BY <1>2, <1>3, <1>4

\* The line ends up to the n-th, and where the text begins.
Ended(f, n) == {0} \cup {e \in LineEnds(f) : Rank(f, e) <= n}

LEMMA LineEndIsGreatest ==
    ASSUME NEW f \in Texts, NEW n \in Int
    PROVE  /\ LineEnd(f, n) \in Ended(f, n) /\ \A e \in Ended(f, n) : e <= LineEnd(f, n)
           /\ LineEnd(f, n) \in 0..Len(f)
<1>1. Len(f) \in Nat /\ Ended(f, n) \in SUBSET (0..Len(f)) /\ Ended(f, n) # {}
  BY LineEndsFinite DEF Ended
<1>2. LineEnd(f, n) = Max(Ended(f, n))
  BY DEF LineEnd, Ended, Rank, UpTo
<1> QED BY <1>1, <1>2, GreatestElement

LEMMA LineEndGrows ==
    ASSUME NEW f \in Texts, NEW n \in Int, NEW m \in Int, n <= m
    PROVE  LineEnd(f, n) <= LineEnd(f, m)
<1>1. LineEnd(f, n) \in Ended(f, m)
  <2>1. LineEnd(f, n) \in Ended(f, n)
    BY LineEndIsGreatest
  <2>2. ASSUME NEW e \in LineEnds(f), Rank(f, e) <= n PROVE Rank(f, e) <= m
    <3>1. e \in Nat
      BY LineEndsFinite
    <3> QED BY <2>2, <3>1, RankGrows
  <2> QED BY <2>1, <2>2 DEF Ended
<1> QED BY <1>1, LineEndIsGreatest

\* Before the first line is nothing, after the last one neither.
LEMMA FirstAndLastEnd ==
    ASSUME NEW f \in Texts
    PROVE  /\ LineEnd(f, 0) = 0 /\ LineEnd(f, TotalLines(f)) = Len(f)
           /\ f # <<>> => TotalLines(f) >= 1
<1>1. Len(f) \in Nat /\ IsFiniteSet(LineEnds(f)) /\ LineEnds(f) \subseteq 1..Len(f)
      /\ TotalLines(f) \in Nat
  BY LineEndsFinite
<1>2. ASSUME NEW e \in LineEnds(f) PROVE Rank(f, e) >= 1
  <2>1. e \in UpTo(f, e) /\ e \in Nat
    BY <1>1 DEF UpTo
  <2>2. IsFiniteSet(UpTo(f, e)) /\ Rank(f, e) \in Nat
    BY <2>1, RankGrows
  <2>3. Rank(f, e) # 0
    BY <2>1, <2>2, FS_EmptySet DEF Rank
  <2> QED BY <2>2, <2>3
<1>3. LineEnd(f, 0) = 0
  <2>1. ASSUME NEW e \in LineEnds(f), Rank(f, e) <= 0 PROVE FALSE
    <3>1. e \in Nat
      BY <1>1
    <3> QED BY <1>2, <2>1, <3>1, RankGrows
  <2>2. LineEnd(f, 0) \in Ended(f, 0)
    BY LineEndIsGreatest
  <2> QED BY <2>1, <2>2 DEF Ended
<1>4. CASE f = <<>>
  <2>1. Len(f) = 0
    BY <1>4
  <2>2. LineEnd(f, TotalLines(f)) \in 0..0
    BY <1>1, <2>1, LineEndIsGreatest
  <2> QED BY <1>3, <1>4, <2>1, <2>2
<1>5. CASE f # <<>>
  <2>1. Len(f) \in LineEnds(f)
    <3>1. Len(f) \in 1..Len(f)
      BY <1>5 DEF Texts
    <3> QED BY <3>1 DEF LineEnds
  <2>2. Rank(f, Len(f)) <= TotalLines(f)
    BY <1>1, RankGrows
  <2>3. Len(f) \in Ended(f, TotalLines(f))
    BY <2>1, <2>2 DEF Ended
  <2>4. LineEnd(f, TotalLines(f)) \in 0..Len(f) /\ Len(f) <= LineEnd(f, TotalLines(f))
    BY <1>1, <2>3, LineEndIsGreatest
  <2>5. TotalLines(f) >= 1
    <3>1. Rank(f, Len(f)) >= 1 /\ Rank(f, Len(f)) \in Nat
      BY <1>1, <1>2, <2>1, RankGrows
    <3> QED BY <1>1, <2>2, <3>1
  <2> QED BY <1>1, <1>3, <2>4, <2>5
<1> QED BY <1>4, <1>5

\* Every line holds something.
LEMMA LinesAdvance ==
    ASSUME NEW f \in Texts, NEW n \in 1..TotalLines(f)
    PROVE  LineEnd(f, n - 1) < LineEnd(f, n)
<1> DEFINE k == LineEnd(f, n - 1)
<1>1. /\ Len(f) \in Nat /\ IsFiniteSet(LineEnds(f)) /\ LineEnds(f) \subseteq 1..Len(f)
      /\ TotalLines(f) \in Nat /\ n \in Nat /\ n - 1 \in Nat /\ n <= TotalLines(f)
  BY LineEndsFinite
<1>2. k \in Nat /\ k \in Ended(f, n - 1) /\ \A e \in Ended(f, n - 1) : e <= k
  <2>1. n - 1 \in Int
    BY <1>1
  <2>2. k \in 0..Len(f) /\ k \in Ended(f, n - 1) /\ \A e \in Ended(f, n - 1) : e <= k
    BY <2>1, LineEndIsGreatest
  <2> QED BY <2>2
<1> HIDE DEF k
<1>3. Rank(f, k) <= n - 1 /\ Rank(f, k) \in Nat
  <2>1. CASE k = 0
    <3>1. UpTo(f, k) = {}
      BY <1>1, <2>1 DEF UpTo
    <3>2. Rank(f, k) = 0
      BY <3>1, FS_EmptySet DEF Rank
    <3> QED BY <1>1, <3>2
  <2>2. CASE k # 0
    BY <1>2, <2>2, RankGrows DEF Ended
  <2> QED BY <2>1, <2>2
<1>4. \E e \in LineEnds(f) : e > k
  <2> SUFFICES ASSUME \A e \in LineEnds(f) : ~(e > k) PROVE FALSE
    OBVIOUS
  <2>1. UpTo(f, k) = LineEnds(f)
    BY <1>1, <1>2 DEF UpTo
  <2> QED BY <1>1, <1>3, <2>1 DEF Rank, TotalLines
<1> DEFINE Behind == {e \in LineEnds(f) : e > k}
<1>5. PICK e \in Behind : \A x \in Behind : e <= x
  <2>1. Behind \in SUBSET Nat /\ Behind # {}
    BY <1>1, <1>4
  <2> HIDE DEF Behind
  <2> QED BY <2>1, LeastElement
<1>6. e \in Nat /\ e > k /\ e \in LineEnds(f)
  BY <1>1, <1>5
<1>7. UpTo(f, e) = UpTo(f, k) \cup {e} /\ e \notin UpTo(f, k)
  BY <1>1, <1>2, <1>5, <1>6 DEF UpTo
<1>8. Rank(f, e) = Rank(f, k) + 1
  <2>1. IsFiniteSet(UpTo(f, k))
    BY <1>2, RankGrows
  <2> QED BY <1>7, <2>1, FS_AddElement DEF Rank
<1>9. e \in Ended(f, n)
  <2>1. Rank(f, e) <= n
    BY <1>1, <1>3, <1>8
  <2> QED BY <1>6, <2>1 DEF Ended
<1>10. e <= LineEnd(f, n) /\ LineEnd(f, n) \in Nat
  BY <1>1, <1>9, LineEndIsGreatest
<1> QED BY <1>2, <1>6, <1>10 DEF k

-----------------------------------------------------------------------------
(* What is emitted of a line, and its bytes.                                *)

LEMMA EmittedType ==
    ASSUME NEW f \in Texts, NEW n \in Nat, NEW withLines \in BOOLEAN
    PROVE  /\ Emitted(f, n, withLines) \in Texts
           /\ Line(f, n) \in Texts /\ Prefix(n) \in Texts
<1>1. /\ LineEnd(f, n - 1) \in 0..Len(f) /\ LineEnd(f, n) \in 0..Len(f)
      /\ Len(f) \in Nat
  <2>1. n - 1 \in Int /\ n \in Int
    OBVIOUS
  <2> QED BY <2>1, LineEndIsGreatest, LineEndsFinite
<1>2. Line(f, n) \in Texts
  BY <1>1 DEF Line, Texts
<1>3. Prefix(n) \in Texts
  <2>1. Digits(n) \in Nat
    <3>1. n \div 10 \in Int
      OBVIOUS
    <3>2. IsFiniteSet(0..n \div 10)
      BY <3>1, FS_Interval
    <3>3. IsFiniteSet({k \in 0..n \div 10 : 10^k <= n})
      BY <3>2, FS_Subset
    <3> QED BY <3>3, FS_CardinalityType DEF Digits
  <2>2. [i \in 1..Digits(n) |-> "digit"] \in Texts
    BY <2>1 DEF Texts, Characters
  <2>3. <<"tab">> \in Texts
    BY DEF Texts, Characters
  <2> QED BY <2>2, <2>3 DEF Prefix, Texts
<1> QED BY <1>2, <1>3 DEF Emitted, Texts

Wides(s) == {i \in 1..Len(s) : s[i] = "wide"}

LEMMA BytesType ==
    ASSUME NEW s \in Texts
    PROVE  /\ Len(s) \in Nat /\ Bytes(s) \in Nat
           /\ IsFiniteSet(Wides(s)) /\ Cardinality(Wides(s)) \in Nat
           /\ Bytes(s) = Len(s) + Cardinality(Wides(s))
<1>1. Len(s) \in Nat
  BY DEF Texts
<1>2. IsFiniteSet(1..Len(s)) /\ Wides(s) \subseteq 1..Len(s)
  BY <1>1, FS_Interval DEF Wides
<1>3. IsFiniteSet(Wides(s))
  BY <1>2, FS_Subset
<1>4. Cardinality(Wides(s)) \in Nat
  BY <1>3, FS_CardinalityType
<1>5. Bytes(s) = Len(s) + Cardinality(Wides(s))
  BY DEF Bytes, Wides
<1> QED BY <1>1, <1>3, <1>4, <1>5

LEMMA BytesOfNothing == Bytes(<<>>) = 0
<1>1. {i \in 1..Len(<<>>) : <<>>[i] = "wide"} = {} /\ Len(<<>>) = 0
  OBVIOUS
<1>2. Cardinality({}) = 0
  BY FS_EmptySet
<1> QED BY <1>1, <1>2 DEF Bytes

LEMMA BytesAdd ==
    ASSUME NEW s \in Texts, NEW t \in Texts
    PROVE  s \o t \in Texts /\ Bytes(s \o t) = Bytes(s) + Bytes(t)
<1>1. /\ s \o t \in Texts /\ Len(s \o t) = Len(s) + Len(t)
      /\ \A i \in 1..Len(s) + Len(t) : (s \o t)[i] = IF i <= Len(s) THEN s[i] ELSE t[i - Len(s)]
  BY ConcatProperties DEF Texts
<1>2. Len(s) \in Nat /\ Len(t) \in Nat
  BY BytesType
<1> DEFINE later == {i \in Wides(s \o t) : i > Len(s)}
<1>3. Wides(s \o t) = Wides(s) \cup later /\ Wides(s) \cap later = {}
  BY <1>1, <1>2 DEF Wides
<1>4. IsFiniteSet(later) /\ Cardinality(later) = Cardinality(Wides(t))
  <2>1. \A x \in Wides(t) : x + Len(s) \in later
    <3> SUFFICES ASSUME NEW x \in Wides(t) PROVE x + Len(s) \in later
      OBVIOUS
    <3>1. /\ x \in 1..Len(t) /\ t[x] = "wide" /\ x + Len(s) \in 1..Len(s) + Len(t)
          /\ ~(x + Len(s) <= Len(s)) /\ (x + Len(s)) - Len(s) = x /\ x + Len(s) > Len(s)
      BY <1>2 DEF Wides
    <3> QED BY <1>1, <3>1 DEF Wides
  <2>2. \A y \in later : \E x \in Wides(t) : y = x + Len(s)
    <3> SUFFICES ASSUME NEW y \in later PROVE \E x \in Wides(t) : y = x + Len(s)
      OBVIOUS
    <3>1. y \in 1..Len(s) + Len(t) /\ y > Len(s) /\ (s \o t)[y] = "wide"
      BY <1>1 DEF Wides
    <3>2. y - Len(s) \in 1..Len(t) /\ y = (y - Len(s)) + Len(s) /\ ~(y <= Len(s))
      BY <1>2, <3>1
    <3>3. y - Len(s) \in Wides(t)
      BY <1>1, <3>1, <3>2 DEF Wides
    <3> QED BY <3>2, <3>3
  <2>3. Wides(t) \subseteq Int /\ IsFiniteSet(Wides(t)) /\ Len(s) \in Int
    <3>1. Wides(t) \subseteq Int
      BY DEF Wides
    <3> QED BY <1>2, <3>1, BytesType
  <2> HIDE DEF later
  <2> QED BY <2>1, <2>2, <2>3, MovedSet
<1> HIDE DEF later
<1>5. Cardinality(Wides(s) \cup later) = Cardinality(Wides(s)) + Cardinality(later)
  <2>1. Cardinality(Wides(s) \cap later) = 0
    BY <1>3, FS_EmptySet
  <2>2. Cardinality(Wides(s) \cup later)
            = Cardinality(Wides(s)) + Cardinality(later) - Cardinality(Wides(s) \cap later)
    BY <1>4, BytesType, FS_Union
  <2>3. Cardinality(Wides(s)) \in Nat /\ Cardinality(later) \in Nat
    BY <1>4, BytesType
  <2> QED BY <2>1, <2>2, <2>3
<1>6. Bytes(s \o t) = Len(s \o t) + Cardinality(Wides(s \o t))
  BY <1>1, BytesType
<1> QED BY <1>1, <1>3, <1>4, <1>5, <1>6, BytesType

-----------------------------------------------------------------------------
(* Excerpts.                                                                *)

\* An excerpt is empty before its first line and grows line by line.
LEMMA ExcerptGrows ==
    ASSUME NEW f \in Texts, NEW first \in Nat \ {0}, NEW withLines \in BOOLEAN, NEW n \in Nat
    PROVE  /\ n < first => Excerpt(f, first, n, withLines) = <<>>
           /\ n >= first =>
                 Excerpt(f, first, n, withLines)
                     = Excerpt(f, first, n - 1, withLines) \o Emitted(f, n, withLines)
<1> DEFINE Body(u) == [m \in Nat |->
                          IF m < first THEN <<>> ELSE u[m - 1] \o Emitted(f, m, withLines)]
           upTo == CHOOSE u : u = Body(u)
           step == [p \in Nat \X Texts |->
                       IF p[1] < first THEN <<>> ELSE p[2] \o Emitted(f, p[1], withLines)]
<1>1. \A m : Excerpt(f, first, m, withLines) = upTo[m]
  BY DEF Excerpt
<1>2. <<>> \in Texts /\ step \in [Nat \X Texts -> Texts]
  <2>1. ASSUME NEW p \in Nat \X Texts PROVE p[2] \o Emitted(f, p[1], withLines) \in Texts
    <3>1. p[1] \in Nat /\ p[2] \in Texts
      OBVIOUS
    <3> QED BY <3>1, EmittedType, BytesAdd
  <2> QED BY <2>1 DEF Texts
<1>a. \A m \in Nat, t \in Texts :
        step[<<m, t>>] = IF m < first THEN <<>> ELSE t \o Emitted(f, m, withLines)
  OBVIOUS
<1> HIDE DEF step
<1>b. PICK g \in [Nat -> Texts] : Follows(g, <<>>, step)
  BY <1>2, Recursion
<1>3. g[0] = <<>> /\ \A m \in Nat \ {0} : g[m] = step[<<m, g[m - 1]>>]
  BY <1>b DEF Follows
<1>4. g = Body(g)
  <2>1. ASSUME NEW m \in Nat
        PROVE  g[m] = IF m < first THEN <<>> ELSE g[m - 1] \o Emitted(f, m, withLines)
    <3>1. CASE m = 0
      BY <1>3, <3>1
    <3>2. CASE m # 0
      <4>1. m - 1 \in Nat /\ g[m - 1] \in Texts
        BY <3>2
      <4>2. g[m] = step[<<m, g[m - 1]>>]
        BY <1>3, <3>2
      <4> QED BY <1>a, <4>1, <4>2
    <3> QED BY <3>1, <3>2
  <2> QED BY <2>1
<1>5. upTo = Body(upTo)
  <2> HIDE DEF Body
  <2> QED BY <1>4
<1> HIDE DEF upTo
<1>6. upTo[n] = IF n < first THEN <<>> ELSE upTo[n - 1] \o Emitted(f, n, withLines)
  BY <1>5
<1>7. CASE n < first
  BY <1>1, <1>6, <1>7
<1>8. CASE ~(n < first)
  <2>1. Excerpt(f, first, n, withLines) = upTo[n]
    BY <1>1
  <2>2. Excerpt(f, first, n - 1, withLines) = upTo[n - 1]
    BY <1>1
  <2> QED BY <1>6, <1>8, <2>1, <2>2
<1>9. n < first <=> ~(n >= first)
  OBVIOUS
<1> QED BY <1>7, <1>8, <1>9

LEMMA ExcerptAdds ==
    ASSUME NEW f \in Texts, NEW first \in Nat \ {0}, NEW withLines \in BOOLEAN,
           NEW n \in Nat, first <= n + 1
    PROVE  Excerpt(f, first, n + 1, withLines)
               = Excerpt(f, first, n, withLines) \o Emitted(f, n + 1, withLines)
<1>1. n + 1 \in Nat /\ n + 1 >= first /\ (n + 1) - 1 = n
  OBVIOUS
<1>2. Excerpt(f, first, n + 1, withLines)
        = Excerpt(f, first, (n + 1) - 1, withLines) \o Emitted(f, n + 1, withLines)
  BY <1>1, ExcerptGrows
<1> QED BY <1>1, <1>2

LEMMA ExcerptType ==
    ASSUME NEW f \in Texts, NEW first \in Nat \ {0}, NEW withLines \in BOOLEAN, NEW n \in Nat
    PROVE  Excerpt(f, first, n, withLines) \in Texts
<1> DEFINE A == {m \in Nat : Excerpt(f, first, m, withLines) \in Texts}
<1>a. <<>> \in Texts
  BY DEF Texts
<1>1. 0 \in A
  BY <1>a, ExcerptGrows
<1>2. ASSUME NEW m \in Nat, m \in A PROVE m + 1 \in A
  <2>1. m + 1 \in Nat /\ (m + 1) - 1 = m
    OBVIOUS
  <2>2. CASE m + 1 < first
    BY <1>a, <2>1, <2>2, ExcerptGrows
  <2>3. CASE m + 1 >= first
    <3>1. Excerpt(f, first, m + 1, withLines)
            = Excerpt(f, first, m, withLines) \o Emitted(f, m + 1, withLines)
      BY <2>1, <2>3, ExcerptGrows
    <3>2. Excerpt(f, first, m, withLines) \in Texts
      BY <1>2
    <3>3. Emitted(f, m + 1, withLines) \in Texts
      BY <2>1, EmittedType
    <3>4. Excerpt(f, first, m, withLines) \o Emitted(f, m + 1, withLines) \in Texts
      BY <3>2, <3>3, BytesAdd
    <3> QED BY <2>1, <3>1, <3>4
  <2> QED BY <2>1, <2>2, <2>3
<1> HIDE DEF A
<1>3. Nat \subseteq A
  BY <1>1, <1>2, AllNaturals
<1> QED BY <1>3 DEF A

\* Two excerpts of which one goes on where the other ends are one.
LEMMA ExcerptsJoin ==
    ASSUME NEW f \in Texts, NEW first \in Nat \ {0}, NEW withLines \in BOOLEAN,
           NEW mid \in Nat, first <= mid + 1, NEW last \in Nat, mid <= last
    PROVE  Excerpt(f, first, mid, withLines) \o Excerpt(f, mid + 1, last, withLines)
               = Excerpt(f, first, last, withLines)
<1> DEFINE Front == Excerpt(f, first, mid, withLines)
           Rest(n) == Excerpt(f, mid + 1, n, withLines)
           Whole(n) == Excerpt(f, first, n, withLines)
           A == {n \in Nat : n >= mid => Front \o Rest(n) = Whole(n)}
<1>a. mid + 1 \in Nat \ {0} /\ Front \in Texts /\ \A n \in Nat : Rest(n) \in Texts
  BY ExcerptType
<1>b. Front \o Rest(mid) = Whole(mid)
  <2>1. Rest(mid) = <<>>
    BY <1>a, ExcerptGrows
  <2> QED BY <1>a, <2>1, ConcatEmptySeq DEF Texts
<1>1. 0 \in A
  <2> SUFFICES ASSUME 0 >= mid PROVE Front \o Rest(0) = Whole(0)
    OBVIOUS
  <2>1. mid = 0
    OBVIOUS
  <2> QED BY <1>b, <2>1
<1>2. ASSUME NEW n \in Nat, n \in A PROVE n + 1 \in A
  <2> SUFFICES ASSUME n + 1 >= mid PROVE Front \o Rest(n + 1) = Whole(n + 1)
    OBVIOUS
  <2>1. CASE n + 1 = mid
    BY <1>b, <2>1
  <2>2. CASE n + 1 # mid
    <3>1. n >= mid /\ mid + 1 <= n + 1 /\ first <= n + 1 /\ n + 1 \in Nat
      BY <2>2
    <3>2. Rest(n + 1) = Rest(n) \o Emitted(f, n + 1, withLines)
      <4>1. mid + 1 \in Nat \ {0}
        BY <1>a
      <4> QED BY <3>1, <4>1, ExcerptAdds
    <3>3. Whole(n + 1) = Whole(n) \o Emitted(f, n + 1, withLines)
      BY <3>1, ExcerptAdds
    <3>4. Emitted(f, n + 1, withLines) \in Texts
      BY <3>1, EmittedType
    <3>5. Front \o Rest(n) = Whole(n)
      BY <1>2, <3>1
    <3> DEFINE rest == Rest(n)
               line == Emitted(f, n + 1, withLines)
    <3>6. Front \in Seq(Characters) /\ rest \in Seq(Characters) /\ line \in Seq(Characters)
      BY <1>a, <3>4 DEF Texts
    <3> HIDE DEF Front, rest, line
    <3>7. Front \o (rest \o line) = (Front \o rest) \o line
      BY <3>6, ConcatAssociative
    <3> HIDE DEF Rest, Whole
    <3> QED BY <3>2, <3>3, <3>5, <3>7 DEF rest, line
  <2> QED BY <2>1, <2>2
<1> HIDE DEF A, Front, Rest, Whole
<1>3. Nat \subseteq A
  BY <1>1, <1>2, AllNaturals
<1>4. Front \o Rest(last) = Whole(last)
  BY <1>3 DEF A
<1> QED BY <1>4 DEF Front, Rest, Whole

\* The first lines of a file, without numbers, are its beginning.
LEMMA ExcerptIsPrefix ==
    ASSUME NEW f \in Texts, NEW n \in Nat
    PROVE  Excerpt(f, 1, n, FALSE) = SubSeq(f, 1, LineEnd(f, n))
<1> DEFINE A == {m \in Nat : Excerpt(f, 1, m, FALSE) = SubSeq(f, 1, LineEnd(f, m))}
<1>a. 1 \in Nat \ {0} /\ FALSE \in BOOLEAN
  OBVIOUS
<1>1. 0 \in A
  <2>1. Excerpt(f, 1, 0, FALSE) = <<>>
    <3>1. 0 \in Nat /\ 0 < 1
      OBVIOUS
    <3> QED BY <1>a, <3>1, ExcerptGrows
  <2>2. LineEnd(f, 0) = 0
    BY FirstAndLastEnd
  <2>3. SubSeq(f, 1, 0) = <<>>
    BY SubSeqEmpty
  <2> QED BY <2>1, <2>2, <2>3
<1>2. ASSUME NEW m \in Nat, m \in A PROVE m + 1 \in A
  <2>1. m + 1 \in Nat /\ (m + 1) - 1 = m /\ m + 1 >= 1 /\ m \in Int /\ m + 1 \in Int /\ m <= m + 1
    OBVIOUS
  <2> DEFINE j == LineEnd(f, m)
             k == LineEnd(f, m + 1)
  <2>2. j \in 0..Len(f) /\ k \in 0..Len(f) /\ j <= k /\ Len(f) \in Nat
    BY <2>1, LineEndIsGreatest, LineEndGrows, LineEndsFinite
  <2>3. Excerpt(f, 1, m + 1, FALSE) = Excerpt(f, 1, m, FALSE) \o Emitted(f, m + 1, FALSE)
    BY <1>a, <2>1, ExcerptGrows
  <2>4. Line(f, m + 1) = SubSeq(f, j + 1, k) /\ Line(f, m + 1) \in Texts
    BY <2>1, <1>a, EmittedType DEF Line
  <2>5. Emitted(f, m + 1, FALSE) = SubSeq(f, j + 1, k)
    BY <2>4, ConcatEmptySeq DEF Emitted, Texts
  <2> HIDE DEF j, k
  <2>6. SubSeq(f, 1, j) \o SubSeq(f, j + 1, k) = SubSeq(f, 1, k)
    <3>1. 1 \in 1..Len(f) + 1 /\ j \in 1 - 1..Len(f) /\ k \in j..Len(f)
      BY <2>2
    <3> QED BY <3>1, ConcatAdjacentSubSeq DEF Texts
  <2>7. Excerpt(f, 1, m, FALSE) = SubSeq(f, 1, j)
    BY <1>2 DEF j
  <2>8. Excerpt(f, 1, m + 1, FALSE) = SubSeq(f, 1, k)
    BY <2>3, <2>5, <2>6, <2>7
  <2> QED BY <2>1, <2>8 DEF k
<1> HIDE DEF A
<1>3. Nat \subseteq A
  BY <1>1, <1>2, AllNaturals
<1> QED BY <1>3 DEF A

-----------------------------------------------------------------------------
(* The loop that fills a page.                                              *)

Buffers == [content : Texts, last : Nat]

\* The buffer before the first line, and after the n-th was tried.
Empty(start) == [content |-> <<>>, last |-> start - 1]
Tried(before, n, line, a) ==
    IF Fits(before, n, line, a) THEN [content |-> before.content \o line, last |-> n]
    ELSE before

LEMMA FillTries ==
    ASSUME NEW f \in Texts, NEW a, a.withLines \in BOOLEAN, NEW start \in Nat \ {0}
    PROVE  \E buf :
              /\ Fill(f, a, start) = buf[LastWanted(f, a)]
              /\ \A n \in Nat : n < start => buf[n] = Empty(start)
              /\ \A n \in Nat : n >= start =>
                    buf[n] = Tried(buf[n - 1], n, Emitted(f, n, a.withLines), a)
<1> DEFINE w == a.withLines
           Body(u) == [n \in Nat |-> IF n < start THEN Empty(start)
                                     ELSE Tried(u[n - 1], n, Emitted(f, n, w), a)]
           loop == CHOOSE u : u = Body(u)
           step == [p \in Nat \X Buffers |->
                       IF p[1] < start THEN Empty(start)
                       ELSE Tried(p[2], p[1], Emitted(f, p[1], w), a)]
<1>1. Fill(f, a, start) = loop[LastWanted(f, a)]
  BY DEF Fill, Empty, Tried
<1>2. w \in BOOLEAN
  OBVIOUS
<1> HIDE DEF w
<1>3. Empty(start) \in Buffers
  <2>1. start - 1 \in Nat /\ <<>> \in Texts
    BY DEF Texts
  <2> QED BY <2>1 DEF Empty, Buffers
<1>4. step \in [Nat \X Buffers -> Buffers]
  <2>1. ASSUME NEW n \in Nat, NEW b \in Buffers
        PROVE  Tried(b, n, Emitted(f, n, w), a) \in Buffers
    <3>1. b.content \in Texts /\ Emitted(f, n, w) \in Texts
      BY <1>2, EmittedType DEF Buffers
    <3>2. b.content \o Emitted(f, n, w) \in Texts
      BY <3>1, BytesAdd
    <3> QED BY <3>2 DEF Tried, Buffers
  <2> QED BY <1>3, <2>1
<1> HIDE DEF step
<1>5. PICK g \in [Nat -> Buffers] : Follows(g, Empty(start), step)
  BY <1>3, <1>4, Recursion
<1>6. g[0] = Empty(start) /\ \A n \in Nat \ {0} : g[n] = step[<<n, g[n - 1]>>]
  BY <1>5 DEF Follows
<1>7. ASSUME NEW n \in Nat
      PROVE  g[n] = IF n < start THEN Empty(start)
                    ELSE Tried(g[n - 1], n, Emitted(f, n, w), a)
  <2>1. CASE n = 0
    BY <1>6, <2>1
  <2>2. CASE n # 0
    <3>1. n - 1 \in Nat /\ <<n, g[n - 1]>> \in Nat \X Buffers
      BY <2>2
    <3>2. g[n] = step[<<n, g[n - 1]>>]
      BY <1>6, <2>2
    <3> QED BY <3>1, <3>2 DEF step
  <2> QED BY <2>1, <2>2
<1>8. g = Body(g)
  BY <1>7
<1>9. loop = Body(loop)
  BY <1>8
<1> HIDE DEF loop
<1>10. \A n \in Nat : n < start => loop[n] = Empty(start)
  BY <1>9
<1>11. \A n \in Nat : n >= start => loop[n] = Tried(loop[n - 1], n, Emitted(f, n, w), a)
  <2> SUFFICES ASSUME NEW n \in Nat, n >= start
               PROVE  loop[n] = Tried(loop[n - 1], n, Emitted(f, n, w), a)
    OBVIOUS
  <2>1. ~(n < start)
    OBVIOUS
  <2>2. loop[n] = IF n < start THEN Empty(start)
                  ELSE Tried(loop[n - 1], n, Emitted(f, n, w), a)
    BY <1>9
  <2> QED BY <2>1, <2>2
<1> QED BY <1>1, <1>10, <1>11 DEF w

\* The page ends where the next line would not fit, or where it was to end.
LEMMA FillStops ==
    ASSUME NEW f \in Texts, NEW a, a.withLines \in BOOLEAN, Cap(a) \in Nat,
           NEW start \in Nat \ {0}, LastWanted(f, a) \in Nat, start <= LastWanted(f, a) + 1
    PROVE  LET b == Fill(f, a, start) IN
              /\ b.last \in start - 1..LastWanted(f, a)
              /\ b.content = Excerpt(f, start, b.last, a.withLines)
              /\ b.content \in Texts /\ Bytes(b.content) <= Cap(a)
              /\ b.last < LastWanted(f, a) =>
                    Bytes(b.content) + Bytes(Emitted(f, b.last + 1, a.withLines)) > Cap(a)
<1> DEFINE w == a.withLines
           cap == Cap(a)
           Good(b, n) ==
               /\ b.last \in start - 1..n
               /\ b.content = Excerpt(f, start, b.last, w)
               /\ b.content \in Texts /\ Bytes(b.content) <= cap
               /\ b.last < n => Bytes(b.content) + Bytes(Emitted(f, b.last + 1, w)) > cap
<1>1. PICK buf : /\ Fill(f, a, start) = buf[LastWanted(f, a)]
                 /\ \A n \in Nat : n < start => buf[n] = Empty(start)
                 /\ \A n \in Nat : n >= start => buf[n] = Tried(buf[n - 1], n, Emitted(f, n, w), a)
  BY FillTries
<1>2. w \in BOOLEAN /\ cap \in Nat /\ start - 1 \in Nat /\ start \in Nat
  OBVIOUS
<1> HIDE DEF w, cap
<1> DEFINE A == {n \in Nat : n >= start - 1 => Good(buf[n], n)}
<1>3. Good(buf[start - 1], start - 1)
  <2>1. buf[start - 1] = Empty(start)
    BY <1>1, <1>2
  <2>2. Empty(start).last = start - 1 /\ Empty(start).content = <<>>
    BY DEF Empty
  <2>3. Excerpt(f, start, start - 1, w) = <<>>
    <3>1. start - 1 < start
      BY <1>2
    <3> QED BY <1>2, <3>1, ExcerptGrows
  <2>4. <<>> \in Texts /\ Bytes(<<>>) <= cap
    BY <1>2, BytesOfNothing DEF Texts
  <2> QED BY <1>2, <2>1, <2>2, <2>3, <2>4
<1>4. 0 \in A
  <2> SUFFICES ASSUME 0 >= start - 1 PROVE Good(buf[0], 0)
    OBVIOUS
  <2>1. start - 1 = 0
    BY <1>2
  <2> QED BY <1>3, <2>1
<1>5. ASSUME NEW n \in Nat, n \in A PROVE n + 1 \in A
  <2> SUFFICES ASSUME n + 1 >= start - 1 PROVE Good(buf[n + 1], n + 1)
    OBVIOUS
  <2>1. CASE n + 1 = start - 1
    BY <1>3, <2>1
  <2>2. CASE n + 1 # start - 1
    <3> DEFINE b == buf[n]
               line == Emitted(f, n + 1, w)
    <3>1. n >= start - 1 /\ n + 1 >= start /\ n + 1 \in Nat /\ (n + 1) - 1 = n
      BY <1>2, <2>2
    <3>2. Good(b, n)
      BY <1>5, <3>1
    <3>3. buf[n + 1] = Tried(b, n + 1, line, a)
      BY <1>1, <3>1
    <3>4. line \in Texts /\ Bytes(line) \in Nat /\ Bytes(b.content) \in Nat
      BY <1>2, <3>1, <3>2, EmittedType, BytesType
    <3>5. b.last \in Int
      BY <1>2, <3>2
    <3> HIDE DEF b, line
    <3>6. CASE b.last = n /\ Bytes(b.content) + Bytes(line) <= cap
      <4>1. Fits(b, n + 1, line, a)
        BY <3>1, <3>6 DEF Fits, cap
      <4>2. buf[n + 1].last = n + 1 /\ buf[n + 1].content = b.content \o line
        <5>1. buf[n + 1] = [content |-> b.content \o line, last |-> n + 1]
          BY <3>3, <4>1 DEF Tried
        <5> DEFINE more == [content |-> b.content \o line, last |-> n + 1]
        <5>2. more.last = n + 1 /\ more.content = b.content \o line
          OBVIOUS
        <5> HIDE DEF more
        <5>3. buf[n + 1] = more
          BY <5>1 DEF more
        <5> QED BY <5>2, <5>3
      <4>3. b.content \o line \in Texts /\ Bytes(b.content \o line) = Bytes(b.content) + Bytes(line)
        BY <3>2, <3>4, BytesAdd
      <4>4. Excerpt(f, start, n + 1, w) = Excerpt(f, start, n, w) \o line
        BY <1>2, <3>1, ExcerptGrows DEF line
      <4>5. b.content = Excerpt(f, start, n, w)
        BY <3>2, <3>6
      <4>6. n + 1 \in start - 1..n + 1 /\ ~(n + 1 < n + 1)
        BY <1>2, <3>1
      <4>7. Bytes(b.content \o line) <= cap
        BY <3>6, <4>3
      <4> QED BY <4>2, <4>3, <4>4, <4>5, <4>6, <4>7
    <3>7. CASE ~(b.last = n /\ Bytes(b.content) + Bytes(line) <= cap)
      <4>1. ~Fits(b, n + 1, line, a)
        BY <3>1, <3>7 DEF Fits, cap
      <4>2. buf[n + 1] = b
        BY <3>3, <4>1 DEF Tried
      <4>3. b.last \in start - 1..n + 1
        BY <1>2, <3>2
      <4>4. Bytes(b.content) + Bytes(Emitted(f, b.last + 1, w)) > cap
        <5>1. CASE b.last = n
          <6>1. ~(Bytes(b.content) + Bytes(line) <= cap)
            BY <3>7, <5>1
          <6>2. Bytes(b.content) + Bytes(line) > cap
            BY <1>2, <3>4, <6>1
          <6>3. line = Emitted(f, b.last + 1, w)
            BY <5>1 DEF line
          <6> QED BY <6>2, <6>3
        <5>2. CASE b.last # n
          <6>1. b.last < n
            BY <1>2, <3>2, <5>2
          <6> QED BY <3>2, <6>1
        <5> QED BY <5>1, <5>2
      <4> QED BY <3>2, <4>2, <4>3, <4>4
    <3> QED BY <3>6, <3>7
  <2> QED BY <2>1, <2>2
<1> HIDE DEF A
<1>6. Nat \subseteq A
  BY <1>4, <1>5, AllNaturals
<1>7. LastWanted(f, a) >= start - 1
  BY <1>2
<1>8. Good(buf[LastWanted(f, a)], LastWanted(f, a))
  BY <1>6, <1>7 DEF A
<1> QED BY <1>1, <1>8 DEF w, cap

-----------------------------------------------------------------------------
(* ShapeFileContent.                                                        *)

Anyone == [start : Int \cup {None}, end : Int \cup {None}, max : Int \cup {None},
           withLines : BOOLEAN]

LEMMA Usable ==
    ASSUME NEW f \in Texts, NEW a \in Anyone, ~Unusable(f, a)
    PROVE  /\ Cap(a) \in Nat /\ a.withLines \in BOOLEAN
           /\ f # <<>> => /\ OrElse(a.start, 1) \in Nat \ {0}
                          /\ LastWanted(f, a) \in OrElse(a.start, 1)..TotalLines(f)
<1>1. /\ a.start \in Int \cup {None} /\ a.end \in Int \cup {None} /\ a.max \in Int \cup {None}
      /\ a.withLines \in BOOLEAN
  BY DEF Anyone
<1>2. Cap(a) \in Nat
  <2>1. OrElse(a.max, DefaultMaxBytes) \in Nat /\ MaxMaxBytes \in Nat
    BY <1>1, PagesAssumption DEF Unusable, OrElse
  <2> QED BY <2>1 DEF Cap, Smaller
<1>3. ASSUME f # <<>>
      PROVE  /\ OrElse(a.start, 1) \in Nat \ {0}
             /\ LastWanted(f, a) \in OrElse(a.start, 1)..TotalLines(f)
  <2>1. TotalLines(f) \in Nat
    BY LineEndsFinite
  <2>2. OrElse(a.start, 1) \in Nat \ {0}
    BY <1>1 DEF Unusable, OrElse
  <2>3. /\ ~(OrElse(a.start, 1) > TotalLines(f))
        /\ ~(OrElse(a.end, TotalLines(f)) < OrElse(a.start, 1))
    BY <1>3 DEF Unusable
  <2>4. OrElse(a.end, TotalLines(f)) \in Int
    BY <1>1, <2>1 DEF OrElse
  <2> QED BY <2>1, <2>2, <2>3, <2>4 DEF LastWanted, Smaller
<1> QED BY <1>1, <1>2, <1>3

\* A line cut to the cap is within it.
LEMMA CutFits ==
    ASSUME NEW line \in Texts, NEW cap \in Nat
    PROVE  CutLine(line, cap) \in Texts /\ Bytes(CutLine(line, cap)) <= cap
<1> DEFINE fits == {k \in 0..Len(line) : Bytes(SubSeq(line, 1, k)) <= cap}
<1>1. Len(line) \in Nat
  BY BytesType
<1>2. 0 \in fits
  <2>1. SubSeq(line, 1, 0) = <<>>
    BY SubSeqEmpty
  <2>2. Bytes(SubSeq(line, 1, 0)) <= cap
    <3>1. 0 <= cap
      OBVIOUS
    <3> QED BY <2>1, <3>1, BytesOfNothing
  <2> QED BY <1>1, <2>2
<1>3. Max(fits) \in fits
  <2>1. fits \in SUBSET (0..Len(line)) /\ fits # {}
    BY <1>2
  <2> HIDE DEF fits
  <2> QED BY <1>1, <2>1, GreatestElement
<1>4. CutLine(line, cap) = SubSeq(line, 1, Max(fits))
  BY DEF CutLine
<1>5. Max(fits) \in 0..Len(line) /\ Bytes(SubSeq(line, 1, Max(fits))) <= cap
  BY <1>3
<1> HIDE DEF fits
<1>6. SubSeq(line, 1, Max(fits)) \in Texts
  BY <1>1, <1>5 DEF Texts
<1> QED BY <1>4, <1>5, <1>6

\* Only an excerpt of no lines is empty.
LEMMA ExcerptHolds ==
    ASSUME NEW f \in Texts, NEW first \in Nat \ {0}, NEW withLines \in BOOLEAN,
           NEW last \in Nat, first <= last, last <= TotalLines(f)
    PROVE  Excerpt(f, first, last, withLines) # <<>>
<1> DEFINE line == Emitted(f, last, withLines)
           before == Excerpt(f, first, last - 1, withLines)
<1>1. last - 1 \in Nat /\ last \in Nat /\ last \in 1..TotalLines(f) /\ last - 1 \in Int /\ last \in Int
  BY LineEndsFinite
<1>2. before \in Texts /\ Excerpt(f, first, last, withLines) = before \o line
  BY <1>1, ExcerptGrows, ExcerptType
<1>3. Len(Line(f, last)) > 0 /\ Line(f, last) \in Texts
  <2>1. LineEnd(f, last - 1) < LineEnd(f, last)
    BY <1>1, LinesAdvance
  <2>2. /\ LineEnd(f, last - 1) \in 0..Len(f) /\ LineEnd(f, last) \in 0..Len(f)
        /\ Len(f) \in Nat
    BY <1>1, LineEndIsGreatest, LineEndsFinite
  <2>3. Len(Line(f, last)) = LineEnd(f, last) - LineEnd(f, last - 1)
    BY <2>1, <2>2 DEF Line, Texts
  <2>4. Line(f, last) \in Texts
    BY <1>1, EmittedType
  <2> QED BY <2>1, <2>2, <2>3, <2>4
<1>4. line \in Texts /\ Len(line) > 0
  <2>1. line \in Texts
    BY <1>1, EmittedType
  <2>2. CASE withLines
    <3>1. Len(line) >= Len(Line(f, last))
      <4>1. line = Prefix(last) \o Line(f, last) /\ Prefix(last) \in Texts
        BY <1>1, <2>2, EmittedType DEF Emitted
      <4>2. Len(Prefix(last) \o Line(f, last)) = Len(Prefix(last)) + Len(Line(f, last))
        BY <1>3, <4>1, ConcatProperties DEF Texts
      <4>3. Len(Prefix(last)) \in Nat /\ Len(Line(f, last)) \in Nat
        BY <1>3, <4>1, BytesType
      <4> QED BY <4>1, <4>2, <4>3
    <3>2. Len(line) \in Nat /\ Len(Line(f, last)) \in Nat
      BY <1>3, <2>1, BytesType
    <3> QED BY <1>3, <2>1, <3>1, <3>2
  <2>3. CASE ~withLines
    <3>1. line = Line(f, last)
      BY <1>3, <2>3, ConcatEmptySeq DEF Emitted, Texts
    <3> QED BY <1>3, <2>1, <3>1
  <2> QED BY <2>1, <2>2, <2>3
<1> HIDE DEF line, before
<1>5. Len(before \o line) = Len(before) + Len(line)
  BY <1>2, <1>4, ConcatProperties DEF Texts
<1>6. Len(before) \in Nat /\ Len(line) \in Nat
  BY <1>2, <1>4, BytesType
<1>7. Len(before \o line) > 0
  BY <1>4, <1>5, <1>6
<1>8. Len(<<>>) = 0
  OBVIOUS
<1> QED BY <1>2, <1>7, <1>8

\* The text page a reading from file f with arguments a may give.
Right(content, start, end, truncated, next, f, a) ==
    LET first == OrElse(a.start, 1)
        firstCut == truncated /\ next = 0
    IN  /\ content \in Texts /\ start \in Nat /\ end \in Nat /\ next \in Nat
        /\ truncated \in BOOLEAN
        /\ Bytes(content) <= Cap(a)
        /\ next > 0 => next = end + 1 /\ start <= end
        /\ f = <<>> => content = <<>> /\ ~truncated
        /\ f # <<>> =>
              /\ first \in Nat \ {0} /\ start = first /\ first <= end
              /\ ~firstCut => content = Excerpt(f, first, end, a.withLines)
              /\ ~truncated => end = LastWanted(f, a)
              /\ firstCut => Bytes(Emitted(f, first, a.withLines)) > Cap(a)

Shaped(p, f, a) == Right(p.content, p.start, p.end, p.truncated, p.next, f, a)

LEMMA TextShaped ==
    ASSUME NEW f, NEW a, NEW content, NEW start, NEW end, NEW truncated, NEW next
    PROVE  /\ Text(content, start, end, truncated, next).kind = "text"
           /\ Right(content, start, end, truncated, next, f, a) =>
                 Shaped(Text(content, start, end, truncated, next), f, a)
<1> DEFINE p == Text(content, start, end, truncated, next)
<1>1. /\ p.kind = "text" /\ p.content = content /\ p.start = start /\ p.end = end
      /\ p.truncated = truncated /\ p.next = next
  BY DEF Text
<1> HIDE DEF p
<1>2. Right(content, start, end, truncated, next, f, a) => Shaped(p, f, a)
  BY <1>1 DEF Shaped
<1> QED BY <1>1, <1>2 DEF p

LEMMA FullPage ==
    ASSUME NEW f \in Texts, NEW a \in Anyone, ~Unusable(f, a), f # <<>>,
           NEW start, start = OrElse(a.start, 1),
           NEW b, b = Fill(f, a, start)
    PROVE  /\ start \in Nat \ {0} /\ b.last \in Nat
           /\ b.last = LastWanted(f, a) =>
                 Shaped(Text(b.content, start, b.last, FALSE, 0), f, a)
           /\ b.last # LastWanted(f, a) /\ b.content = <<>> =>
                 Shaped(CutPage(f, a, start), f, a)
           /\ b.last # LastWanted(f, a) /\ b.content # <<>> =>
                 Shaped(Text(b.content, start, b.last, TRUE, NextStart(b)), f, a)
<1> DEFINE w == a.withLines
           cap == Cap(a)
           last == LastWanted(f, a)
<1>1. /\ cap \in Nat /\ w \in BOOLEAN /\ start \in Nat \ {0} /\ last \in start..TotalLines(f)
      /\ start \in Nat /\ last \in Nat /\ start <= last /\ last <= TotalLines(f)
      /\ start - 1 \in Nat /\ TotalLines(f) \in Nat
  BY Usable, LineEndsFinite
<1>2. /\ b.last \in start - 1..last
      /\ b.content = Excerpt(f, start, b.last, w)
      /\ b.content \in Texts /\ Bytes(b.content) <= cap
      /\ b.last < last => Bytes(b.content) + Bytes(Emitted(f, b.last + 1, w)) > cap
  <2>1. start <= last + 1
    BY <1>1
  <2> QED BY <1>1, <2>1, FillStops
<1> DEFINE end == b.last
           text == b.content
<1>3. end \in Nat /\ start - 1 <= end /\ end <= last
  BY <1>1, <1>2
<1>4. end >= start <=> text # <<>>
  <2>1. CASE end >= start
    <3>1. start <= end /\ end <= TotalLines(f)
      BY <1>1, <1>3, <2>1
    <3> QED BY <1>1, <1>2, <1>3, <2>1, <3>1, ExcerptHolds
  <2>2. CASE ~(end >= start)
    <3>1. end < start
      BY <1>1, <1>3, <2>2
    <3> QED BY <1>1, <1>2, <1>3, <2>2, <3>1, ExcerptGrows
  <2> QED BY <2>1, <2>2
<1>5. text = Excerpt(f, start, end, w) /\ text \in Texts /\ Bytes(text) <= cap
  BY <1>2
<1>6. CASE end = last
  <2>1. start <= end
    BY <1>1, <1>6
  <2>2. Right(text, start, end, FALSE, 0, f, a)
    BY <1>1, <1>3, <1>5, <1>6, <2>1 DEF Right
  <2> HIDE DEF text, end
  <2>3. Shaped(Text(text, start, end, FALSE, 0), f, a)
    BY <2>2, TextShaped
  <2> QED BY <1>1, <1>3, <1>6, <2>3 DEF text, end
<1>7. CASE end # last /\ text = <<>>
  <2> DEFINE line == Emitted(f, start, w)
             cut == CutLine(line, cap)
  <2>1. line \in Texts /\ Bytes(line) \in Nat
    BY <1>1, EmittedType, BytesType
  <2>2. cut \in Texts /\ Bytes(cut) <= cap
    <3> HIDE DEF line, cap
    <3> QED BY <1>1, <2>1, CutFits
  <2>3. end = start - 1 /\ end < last
    BY <1>1, <1>3, <1>4, <1>7
  <2>4. Bytes(line) > cap
    <3>1. end + 1 = start
      BY <1>1, <2>3
    <3>2. Bytes(text) + Bytes(line) > cap
      BY <1>2, <2>3, <3>1
    <3>3. Bytes(text) = 0
      BY <1>7, BytesOfNothing
    <3> QED BY <2>1, <3>2, <3>3
  <2> HIDE DEF cut
  <2>5. Right(cut, start, start, TRUE, 0, f, a)
    BY <1>1, <2>2, <2>4 DEF Right
  <2>6. Shaped(Text(cut, start, start, TRUE, 0), f, a)
    BY <2>5, TextShaped
  <2> QED BY <1>1, <1>3, <1>7, <2>6 DEF CutPage, cut
<1>8. CASE end # last /\ text # <<>>
  <2>1. start <= end /\ end + 1 \in Nat /\ end + 1 # 0
    <3> HIDE DEF text, end
    <3>1. end >= start
      BY <1>4, <1>8
    <3> QED BY <1>1, <1>3, <3>1
  <2>2. Right(text, start, end, TRUE, end + 1, f, a)
    BY <1>1, <1>3, <1>5, <2>1 DEF Right
  <2> HIDE DEF text, end
  <2>3. Shaped(Text(text, start, end, TRUE, end + 1), f, a)
    BY <2>2, TextShaped
  <2>4. NextStart(b) = end + 1
    BY DEF NextStart, end
  <2> QED BY <1>1, <1>3, <1>8, <2>3, <2>4 DEF text, end
<1> QED BY <1>6, <1>7, <1>8

LEMMA ShapeGives ==
    ASSUME NEW f \in Texts, NEW a \in Anyone
    PROVE  /\ Shape(f, a).kind \in {"error", "binary", "text"}
           /\ Shape(f, a).kind = "text" => Shaped(Shape(f, a), f, a)
<1>1. CASE Binary(f)
  BY <1>1 DEF Shape, BinaryPage
<1>2. CASE ~Binary(f) /\ Unusable(f, a)
  BY <1>2 DEF Shape, Error
<1>3. CASE ~Binary(f) /\ ~Unusable(f, a) /\ f = <<>>
  <2>1. Shape(f, a) = Text(<<>>, 0, 0, FALSE, 0)
    BY <1>3 DEF Shape
  <2>2. Cap(a) \in Nat /\ Bytes(<<>>) = 0 /\ <<>> \in Texts
    BY <1>3, Usable, BytesOfNothing DEF Texts
  <2>3. Right(<<>>, 0, 0, FALSE, 0, f, a)
    BY <1>3, <2>2 DEF Right
  <2> QED BY <2>1, <2>3, TextShaped
<1>4. CASE ~Binary(f) /\ ~Unusable(f, a) /\ f # <<>>
  <2> DEFINE start == OrElse(a.start, 1)
             b == Fill(f, a, start)
             whole == Text(b.content, start, b.last, FALSE, 0)
             part == Text(b.content, start, b.last, TRUE, NextStart(b))
             cut == CutPage(f, a, start)
  <2>1. Shape(f, a) = IF b.last = LastWanted(f, a) THEN whole
                      ELSE IF b.content = <<>> THEN cut ELSE part
    BY <1>4 DEF Shape
  <2>2. whole.kind = "text" /\ part.kind = "text" /\ cut.kind = "text"
    BY TextShaped DEF CutPage
  <2>3. /\ b.last = LastWanted(f, a) => Shaped(whole, f, a)
        /\ b.last # LastWanted(f, a) /\ b.content = <<>> => Shaped(cut, f, a)
        /\ b.last # LastWanted(f, a) /\ b.content # <<>> => Shaped(part, f, a)
    BY <1>4, FullPage
  <2> HIDE DEF whole, part, cut, b
  <2> QED BY <2>1, <2>2, <2>3
<1> QED BY <1>1, <1>2, <1>3, <1>4

-----------------------------------------------------------------------------
(* The reading.                                                             *)

\* A page is within its cap, and the next one is to start after it.
PageSound ==
    page.kind = "text" =>
        /\ Bytes(page.content) <= Cap(asked)
        /\ page.next > 0 => page.next = page.end + 1 /\ page.start <= page.end

\* Nothing is ever received of an empty file, and no page of it is cut.
NothingOfEmpty ==
    page.kind = "text" /\ version # None /\ version = <<>> =>
        received = <<>> /\ ~page.truncated

\* What was received of one version is its lines from the first one asked for.
Joined ==
    LET first == OrElse(asked.start, 1)
    IN  page.kind = "text" /\ version # None /\ version # <<>> =>
            /\ first \in Nat \ {0} /\ first <= page.end
            /\ ~FirstCut => received = Excerpt(version, first, page.end, asked.withLines)
            /\ ~page.truncated => page.end = LastWanted(version, asked)
            /\ FirstCut => Bytes(Emitted(version, page.start, asked.withLines)) > Cap(asked)

Reading == TypeOK /\ PageSound /\ NothingOfEmpty /\ Joined

LEMMA KnownFiles ==
    ASSUME TypeOK
    PROVE  /\ file \in Texts /\ file \in Files \cup Pushed /\ file # None
           /\ asked \in Anyone /\ asked \in Arguments
           /\ version # None => version \in Texts
           /\ received \in Texts /\ None \notin Int
<1> USE DEF TypeOK
<1>1. file \in Texts /\ file # None /\ None \notin Int
  BY PagesAssumption DEF Texts
<1>2. version # None => version \in Texts
  BY PagesAssumption DEF Texts
<1>3. asked \in Anyone
  BY PagesAssumption DEF Arguments, Anyone
<1> QED BY <1>1, <1>2, <1>3 DEF Texts

\* The type of a page that ShapeFileContent gave.
LEMMA PageTyped ==
    ASSUME NEW p, NEW f \in Texts, NEW a \in Anyone, p = Shape(f, a)
    PROVE  /\ p.kind \in {"none", "error", "binary", "text"}
           /\ p.kind = "text" =>
                 /\ p.content \in Seq(Characters)
                 /\ p.start \in Nat /\ p.end \in Nat /\ p.next \in Nat
                 /\ p.truncated \in BOOLEAN
BY ShapeGives DEF Shaped, Right, Texts

LEMMA ReadingStarts == Init => Reading
<1> SUFFICES ASSUME Init PROVE Reading
  OBVIOUS
<1>1. page.kind = "none"
  BY DEF Init, NoPage
<1>2. TypeOK
  <2>1. received \in Seq(Characters)
    BY DEF Init
  <2> QED BY <1>1, <2>1 DEF Init, TypeOK
<1> QED BY <1>1, <1>2 DEF Reading, PageSound, NothingOfEmpty, Joined

LEMMA PushKeeps == Reading /\ Push => Reading'
<1> SUFFICES ASSUME Reading, Push PROVE Reading'
  OBVIOUS
<1> USE DEF Push, Reading
<1>1. TypeOK'
  BY DEF TypeOK
<1>2. PageSound'
  BY DEF PageSound
<1>3. NothingOfEmpty'
  BY DEF NothingOfEmpty
<1>4. Joined'
  BY DEF Joined, FirstCut
<1> QED BY <1>1, <1>2, <1>3, <1>4

LEMMA ReadKeeps == Reading /\ Read => Reading'
<1> SUFFICES ASSUME Reading, Read PROVE Reading'
  OBVIOUS
<1> USE DEF Read
<1>1. /\ file \in Texts /\ file \in Files \cup Pushed /\ asked \in Anyone
      /\ asked \in Arguments
  BY KnownFiles DEF Reading
<1>2. /\ page'.kind \in {"none", "error", "binary", "text"}
      /\ page'.kind = "text" =>
            /\ page'.content \in Seq(Characters)
            /\ page'.start \in Nat /\ page'.end \in Nat /\ page'.next \in Nat
            /\ page'.truncated \in BOOLEAN
  BY <1>1, PageTyped
<1>3. TypeOK'
  <2>1. received' \in Seq(Characters)
    BY <1>2
  <2> QED BY <1>1, <1>2, <2>1 DEF TypeOK
<1>4. CASE page'.kind # "text"
  BY <1>3, <1>4 DEF Reading, PageSound, NothingOfEmpty, Joined
<1>5. CASE page'.kind = "text"
  <2>1. Shaped(page', file, asked) /\ received' = page'.content /\ version' = file
        /\ asked' = asked
    BY <1>1, <1>5, ShapeGives
  <2>2. PageSound'
    BY <2>1 DEF PageSound, Shaped, Right
  <2>3. NothingOfEmpty'
    BY <2>1 DEF NothingOfEmpty, Shaped, Right
  <2>4. Joined'
    BY <1>5, <2>1 DEF Joined, FirstCut, Shaped, Right
  <2> QED BY <1>3, <2>2, <2>3, <2>4 DEF Reading
<1> QED BY <1>4, <1>5

\* The next page starts after the one before, and its lines follow.
LEMMA ReadOnKeeps ==
    ASSUME Reading, ReadOn
    PROVE  /\ Reading'
           /\ page'.kind = "text" /\ file # <<>> => page'.start > page.start
<1> DEFINE again == [asked EXCEPT !.start = page.next]
           first == OrElse(asked.start, 1)
           w == asked.withLines
<1> USE DEF ReadOn, MorePages
<1>1. /\ file \in Texts /\ file \in Files \cup Pushed /\ file # None
      /\ asked \in Anyone /\ asked \in Arguments /\ received \in Texts /\ None \notin Int
  BY KnownFiles DEF Reading
<1>2. page.kind = "text" /\ page.truncated /\ page.next > 0 /\ asked' = asked
      /\ page' = Shape(file, again)
  OBVIOUS
<1>3. /\ page.start \in Nat /\ page.end \in Nat /\ page.next \in Nat
      /\ page.next = page.end + 1 /\ page.start <= page.end
  BY <1>2 DEF Reading, TypeOK, PageSound
<1>4. /\ again \in Anyone /\ again.start = page.next /\ again.end = asked.end
      /\ again.max = asked.max /\ again.withLines = w
  BY <1>1, <1>3 DEF Anyone
<1>5. /\ OrElse(again.start, 1) = page.next /\ Cap(again) = Cap(asked)
      /\ \A f : LastWanted(f, again) = LastWanted(f, asked)
  <2>1. page.next # None
    BY <1>1, <1>3
  <2> QED BY <1>4, <2>1 DEF OrElse, Cap, LastWanted
<1> HIDE DEF again
<1>6. /\ page'.kind \in {"none", "error", "binary", "text"}
      /\ page'.kind = "text" =>
            /\ page'.content \in Seq(Characters)
            /\ page'.start \in Nat /\ page'.end \in Nat /\ page'.next \in Nat
            /\ page'.truncated \in BOOLEAN
  BY <1>1, <1>2, <1>4, PageTyped
<1>7. TypeOK'
  <2>1. received' \in Seq(Characters)
    <3>1. CASE page'.kind = "text"
      <4>1. page'.content \in Texts
        BY <1>6, <3>1 DEF Texts
      <4>2. received \o page'.content \in Texts
        BY <1>1, <4>1, BytesAdd
      <4> QED BY <3>1, <4>2 DEF Texts
    <3>2. CASE page'.kind # "text"
      BY <1>1, <3>2 DEF Texts
    <3> QED BY <3>1, <3>2
  <2>2. version' \in Files \cup Pushed \cup {None}
    BY DEF Reading, TypeOK
  <2> QED BY <1>1, <1>6, <2>1, <2>2 DEF TypeOK
<1>8. CASE page'.kind # "text"
  BY <1>7, <1>8 DEF Reading, PageSound, NothingOfEmpty, Joined
<1>9. CASE page'.kind = "text"
  <2>1. Shaped(page', file, again) /\ received' = received \o page'.content
    BY <1>1, <1>2, <1>4, <1>9, ShapeGives
  <2>2. PageSound'
    BY <1>2, <1>5, <2>1 DEF PageSound, Shaped, Right
  <2>3. version' # None => version' = version /\ version = file /\ version # None
    OBVIOUS
  <2>4. NothingOfEmpty'
    <3> SUFFICES ASSUME version' # None, version' = <<>> PROVE FALSE
      BY DEF NothingOfEmpty
    <3>1. version # None /\ version = <<>>
      BY <2>3
    <3> QED BY <1>2, <3>1 DEF Reading, NothingOfEmpty
  <2>5. ASSUME file # <<>> PROVE page'.start = page.next /\ page'.start <= page'.end
    BY <1>5, <2>1, <2>5 DEF Shaped, Right
  <2>6. Joined'
    <3> SUFFICES ASSUME version' # None, version' # <<>>
                 PROVE  /\ first \in Nat \ {0} /\ first <= page'.end
                        /\ ~FirstCut' =>
                              received' = Excerpt(version, first, page'.end, w)
                        /\ ~page'.truncated => page'.end = LastWanted(version, asked)
                        /\ FirstCut' =>
                              Bytes(Emitted(version, page'.start, w)) > Cap(asked)
      BY <1>2, <2>3 DEF Joined
    <3>1. version = file /\ version # None /\ version # <<>>
      BY <2>3
    <3>2. first \in Nat \ {0} /\ first <= page.end
      BY <1>2, <3>1 DEF Reading, Joined
    <3>3. received = Excerpt(file, first, page.end, w)
      BY <1>2, <3>1 DEF Reading, Joined, FirstCut
    <3>4. page'.start = page.next /\ page'.start <= page'.end /\ page'.end \in Nat
      BY <1>6, <1>9, <2>5, <3>1
    <3>5. first <= page'.end
      BY <1>3, <3>2, <3>4
    <3>6. ASSUME ~FirstCut' PROVE received' = Excerpt(file, first, page'.end, w)
      <4>1. ~(page'.truncated /\ page'.next = 0)
        BY <1>9, <3>6 DEF FirstCut
      <4>2. page'.content = Excerpt(file, page.end + 1, page'.end, w)
        BY <1>3, <1>4, <1>5, <2>1, <3>1, <4>1 DEF Shaped, Right
      <4>3. first <= page.end + 1 /\ page.end <= page'.end
        BY <1>3, <3>2, <3>4
      <4>4. w \in BOOLEAN
        BY <1>1 DEF Anyone
      <4>5. received' = received \o page'.content
        BY <2>1
      <4> DEFINE mid == page.end
                 last == page'.end
      <4>6. /\ mid \in Nat /\ last \in Nat /\ first \in Nat \ {0}
            /\ first <= mid + 1 /\ mid <= last
        BY <1>3, <3>2, <3>4, <4>3
      <4> HIDE DEF first, w, mid, last
      <4>7. Excerpt(file, first, mid, w) \o Excerpt(file, mid + 1, last, w)
              = Excerpt(file, first, last, w)
        <5>1. file \in Texts
          BY <1>1
        <5> QED BY ONLY <4>4, <4>6, <5>1, ExcerptsJoin
      <4> QED BY <3>3, <4>2, <4>5, <4>7 DEF mid, last
    <3>7. ~page'.truncated => page'.end = LastWanted(file, asked)
      BY <1>5, <2>1, <3>1 DEF Shaped, Right
    <3>8. FirstCut' => Bytes(Emitted(file, page'.start, w)) > Cap(asked)
      BY <1>4, <1>5, <2>1, <3>1 DEF Shaped, Right, FirstCut
    <3> QED BY <3>1, <3>2, <3>5, <3>6, <3>7, <3>8
  <2>7. file # <<>> => page'.start > page.start
    BY <1>3, <2>5
  <2> QED BY <1>7, <2>2, <2>4, <2>6, <2>7 DEF Reading
<1> QED BY <1>8, <1>9

LEMMA ReadingStays == Spec => []Reading
<1>1. Reading /\ [Next]_vars => Reading'
  <2> SUFFICES ASSUME Reading, [Next]_vars PROVE Reading'
    OBVIOUS
  <2>1. CASE Push
    BY <2>1, PushKeeps
  <2>2. CASE Read
    BY <2>2, ReadKeeps
  <2>3. CASE ReadOn
    BY <2>3, ReadOnKeeps
  <2>4. CASE UNCHANGED vars
    BY <2>4 DEF vars, Reading, TypeOK, PageSound, NothingOfEmpty, Joined, FirstCut
  <2> QED BY <2>1, <2>2, <2>3, <2>4 DEF Next
<1> QED BY ReadingStarts, <1>1, PTL DEF Spec

\* Every variable keeps its type: what ShapeFileContent answers is a page
\* whose fields are what get_file_contents serialises.
THEOREM TypeCorrect == Spec => []TypeOK
<1>1. Reading => TypeOK
  BY DEF Reading
<1> QED BY ReadingStays, <1>1, PTL

\* Pages of one version, put together, are the file's lines from the first
\* one asked for: next_start_line skips none and repeats none.
THEOREM PagesAreJoined == Spec => []PagesJoin
<1>1. Reading => PagesJoin
  BY DEF Reading, Joined, PagesJoin
<1> QED BY ReadingStays, <1>1, PTL

\* A file read from its first line to its last comes back as it is, with or
\* without a newline at its end.
THEOREM ComesBackWhole == Spec => []RoundTrip
<1>1. ASSUME Reading PROVE RoundTrip
  <2> SUFFICES ASSUME page.kind = "text", ~page.truncated, version # None,
                      asked.start = None, asked.end = None, ~asked.withLines
               PROVE  received = version
    BY DEF RoundTrip
  <2>1. version \in Texts /\ asked.withLines \in BOOLEAN
    BY <1>1, KnownFiles DEF Reading, Anyone
  <2>2. CASE version = <<>>
    BY <1>1, <2>2 DEF Reading, NothingOfEmpty
  <2>3. CASE version # <<>>
    <3>1. TotalLines(version) \in Nat
      BY <2>1, LineEndsFinite
    <3>2. /\ OrElse(asked.start, 1) = 1
          /\ LastWanted(version, asked) = TotalLines(version)
      BY <3>1 DEF OrElse, LastWanted, Smaller
    <3>3. received = Excerpt(version, 1, TotalLines(version), FALSE)
      <4>1. asked.withLines = FALSE
        BY <2>1
      <4>2. received = Excerpt(version, 1, TotalLines(version), asked.withLines)
        BY <1>1, <2>3, <3>2 DEF Reading, Joined, FirstCut
      <4> QED BY <4>1, <4>2
    <3>4. received = SubSeq(version, 1, Len(version))
      BY <2>1, <3>1, <3>3, ExcerptIsPrefix, FirstAndLastEnd
    <3> QED BY <2>1, <3>4 DEF Texts
  <2> QED BY <2>2, <2>3
<1> QED BY ReadingStays, <1>1, PTL

\* No page exceeds max_bytes, and one without a next page was cut only because
\* its first line alone exceeds them.
THEOREM PagesWithinCap == Spec => []PageFits
<1>1. ASSUME Reading PROVE PageFits
  <2> SUFFICES ASSUME page.kind = "text", FirstCut, version # None
               PROVE  Bytes(Emitted(version, page.start, asked.withLines)) > Cap(asked)
    BY <1>1 DEF PageFits, Reading, PageSound
  <2>1. version # <<>>
    BY <1>1 DEF Reading, NothingOfEmpty, FirstCut
  <2> QED BY <1>1, <2>1 DEF Reading, Joined
<1> QED BY ReadingStays, <1>1, PTL

\* A client that follows next_start_line never reads a line number twice,
\* whatever is pushed between its calls.
THEOREM AlwaysAdvances == Spec => Advances
<1>1. Reading /\ [Next]_vars =>
        [ReadOn /\ page'.kind = "text" /\ file # <<>> => page'.start > page.start]_vars
  BY ReadOnKeeps
<1> QED BY ReadingStays, <1>1, PTL DEF Spec, Advances

=============================================================================

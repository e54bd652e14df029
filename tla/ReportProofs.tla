---------------------------- MODULE ReportProofs ----------------------------
(***************************************************************************)
(* What TLAPS proves about Report: for any number of points, any size of   *)
(* the tail buffer and any way to cut a test's output into writes.         *)
(***************************************************************************)
EXTENDS Report, FiniteSetTheorems, SequenceTheorems, TLAPS

-----------------------------------------------------------------------------
(***************************************************************************)
(* Lemmas about sequences of whatever elements.                            *)
(***************************************************************************)
\* A sequence of elements of any set is a sequence.
LEMMA IsSequence ==
  ASSUME NEW S, NEW s \in Seq(S)
  PROVE  Sequence(s) /\ Len(s) \in Nat /\ DOMAIN s = 1..Len(s)
BY SeqOfRange, LenProperties DEF Sequence

\* A function on 1..n is a sequence.
LEMMA FunctionIsSequence ==
  ASSUME NEW n \in Nat, NEW s, DOMAIN s = 1..n, s = [i \in 1..n |-> s[i]]
  PROVE  Sequence(s) /\ Len(s) = n
<1>1. s \in [1..n -> Range(s)]
  BY DEF Range
<1>2. s \in Seq(Range(s))
  BY <1>1, SeqDef
<1>3. Len(s) \in Nat /\ DOMAIN s = 1..Len(s)
  BY <1>2, LenProperties
<1> QED
  BY <1>2, <1>3 DEF Sequence

\* Any two sequences are sequences over a common set.
LEMMA CommonSet ==
  ASSUME NEW s, NEW t, Sequence(s), Sequence(t)
  PROVE  \E S : s \in Seq(S) /\ t \in Seq(S)
<1> DEFINE S == Range(s) \cup Range(t)
<1>1. s \in Seq(Range(s)) /\ t \in Seq(Range(t)) /\ Range(s) \subseteq S /\ Range(t) \subseteq S
  BY DEF Sequence
<1>2. s \in Seq(S) /\ t \in Seq(S)
  BY <1>1, SeqMonotonic
<1> QED
  BY <1>2

\* Two sequences one after the other.
LEMMA Concatenated ==
  ASSUME NEW s, NEW t, Sequence(s), Sequence(t)
  PROVE  /\ Sequence(s \o t) /\ Len(s) \in Nat /\ Len(t) \in Nat
         /\ Len(s \o t) = Len(s) + Len(t)
         /\ \A i \in 1..Len(s) : (s \o t)[i] = s[i]
         /\ \A i \in 1..Len(t) : (s \o t)[Len(s) + i] = t[i]
<1>1. PICK S : s \in Seq(S) /\ t \in Seq(S)
  BY CommonSet
<1>2. /\ s \o t \in Seq(S) /\ Len(s \o t) = Len(s) + Len(t)
      /\ \A i \in 1..Len(s) + Len(t) :
           (s \o t)[i] = IF i <= Len(s) THEN s[i] ELSE t[i - Len(s)]
      /\ Len(s) \in Nat /\ Len(t) \in Nat
  BY <1>1, ConcatProperties, LenProperties
<1> HIDE DEF Sequence
<1>3. Sequence(s \o t)
  BY <1>2, IsSequence
<1>4. ASSUME NEW i \in 1..Len(s) PROVE (s \o t)[i] = s[i]
  <2>1. i \in 1..Len(s) + Len(t) /\ i <= Len(s)
    BY <1>2
  <2> QED
    BY <1>2, <2>1
<1>5. ASSUME NEW i \in 1..Len(t) PROVE (s \o t)[Len(s) + i] = t[i]
  <2>1. Len(s) + i \in 1..Len(s) + Len(t) /\ ~(Len(s) + i <= Len(s))
        /\ (Len(s) + i) - Len(s) = i
    BY <1>2
  <2> QED
    BY <1>2, <2>1
<1> QED
  BY <1>2, <1>3, <1>4, <1>5

\* A sequence with one more element.
LEMMA Appended ==
  ASSUME NEW s, NEW e, Sequence(s)
  PROVE  /\ Sequence(Append(s, e)) /\ Len(s) \in Nat
         /\ Len(Append(s, e)) = Len(s) + 1
         /\ \A i \in 1..Len(s) : Append(s, e)[i] = s[i]
         /\ Append(s, e)[Len(s) + 1] = e
<1> DEFINE S == Range(s) \cup {e}
<1>1. s \in Seq(S) /\ e \in S
  BY SeqMonotonic DEF Sequence
<1> HIDE DEF S
<1>2. /\ Append(s, e) \in Seq(S) /\ Len(Append(s, e)) = Len(s) + 1
      /\ \A i \in 1..Len(s) : Append(s, e)[i] = s[i]
      /\ Append(s, e)[Len(s) + 1] = e
      /\ Len(s) \in Nat
  BY <1>1, AppendProperties, LenProperties
<1> QED
  BY <1>2, IsSequence

\* A sequence without its first element.
LEMMA Tailed ==
  ASSUME NEW s, Sequence(s), s # <<>>
  PROVE  /\ Sequence(Tail(s)) /\ Len(s) \in Nat \ {0}
         /\ Len(Tail(s)) = Len(s) - 1 /\ Head(s) = s[1]
         /\ \A i \in 1..Len(Tail(s)) : Tail(s)[i] = s[i + 1]
<1>1. /\ Tail(s) \in Seq(Range(s)) /\ Len(Tail(s)) = Len(s) - 1
      /\ \A i \in 1..Len(Tail(s)) : Tail(s)[i] = s[i + 1]
      /\ Len(s) \in Nat \ {0}
  BY HeadTailProperties, EmptySeq DEF Sequence
<1>2. Head(s) = s[1]
  OBVIOUS
<1> QED
  BY <1>1, <1>2, IsSequence

\* Sequences with the same elements are the same.
LEMMA SameSequence ==
  ASSUME NEW s, NEW t, Sequence(s), Sequence(t), Len(s) = Len(t),
         \A i \in 1..Len(s) : s[i] = t[i]
  PROVE  s = t
<1>1. PICK S : s \in Seq(S) /\ t \in Seq(S)
  BY CommonSet
<1> QED
  BY <1>1, SeqEqual
-----------------------------------------------------------------------------
(***************************************************************************)
(* The tail buffer.                                                        *)
(***************************************************************************)
\* What the buffer keeps is a sequence of the length Size gives, and at most Limit.
LEMMA KeptType ==
  ASSUME NEW w \in Nat
  PROVE  /\ Size(w) \in Nat /\ Size(w) <= w /\ Size(w) <= Limit
         /\ Kept(w).data \in Seq(Nat) /\ Len(Kept(w).data) = Size(w)
         /\ DOMAIN Kept(w).data = 1..Size(w)
         /\ \A i \in 1..Size(w) : Kept(w).data[i] = w - Size(w) + i
         /\ Kept(w).truncated = Overflows(w)
<1>1. Size(w) \in Nat /\ Size(w) <= w /\ Size(w) <= Limit
  BY TailBufferAssumption DEF Size
<1> DEFINE d == [i \in 1..Size(w) |-> w - Size(w) + i]
<1>2. d \in [1..Size(w) -> Nat]
  BY <1>1
<1>3. d \in Seq(Nat)
  BY <1>1, <1>2, SeqDef
<1>4. Len(d) = Size(w)
  BY <1>1, <1>2, <1>3, LenProperties
<1>5. /\ Kept(w).data = d
      /\ Kept(w).truncated = Overflows(w)
  BY DEF Kept
<1> QED
  BY <1>1, <1>3, <1>4, <1>5

\* Assigning the one field of a buffer keeps the other.
LEMMA DataAssigned ==
  ASSUME NEW d, NEW e, NEW over
  PROVE  [[data |-> d, truncated |-> over] EXCEPT !.data = e] = [data |-> e, truncated |-> over]
OBVIOUS

\* However the output of a test is cut into writes, the buffer keeps its end: after a
\* write of n bytes to the buffer of w bytes it is the buffer of w + n bytes.
LEMMA TailWriteKeeps ==
  ASSUME NEW w \in Nat, NEW n \in Nat
  PROVE  TailWrite(Kept(w), [i \in 1..n |-> w + i]) = Kept(w + n)
<1> DEFINE p == [i \in 1..n |-> w + i]
           b == Kept(w).data
           c == Kept(w + n).data
           old == Size(w)
           new == Size(w + n)
           over == Overflows(w)
           overNew == Overflows(w + n)
<1>1. /\ old \in Nat /\ b \in Seq(Nat) /\ Len(b) = old
      /\ \A i \in 1..old : b[i] = w - old + i
  BY KeptType
<1>2. /\ new \in Nat /\ c \in Seq(Nat) /\ Len(c) = new
      /\ \A i \in 1..new : c[i] = (w + n) - new + i
  <2>1. PICK v \in Nat : v = w + n
    OBVIOUS
  <2> QED
    BY <2>1, KeptType
<1>3. /\ p \in Seq(Nat) /\ Len(p) = n
      /\ \A i \in 1..n : p[i] = w + i
  <2>1. p \in [1..n -> Nat]
    OBVIOUS
  <2>2. p \in Seq(Nat)
    BY <2>1, SeqDef
  <2> QED
    BY <2>1, <2>2, LenProperties
<1>4. Limit \in Nat \ {0}
  BY TailBufferAssumption
<1>5. /\ old = (IF w > Limit THEN Limit ELSE w)
      /\ new = (IF w + n > Limit THEN Limit ELSE w + n)
  BY DEF Size
<1>6. /\ Kept(w) = [data |-> b, truncated |-> over]
      /\ Kept(w + n) = [data |-> c, truncated |-> overNew]
      /\ Kept(w).data = b
  BY DEF Kept
<1> HIDE DEF p, b, c, old, new, over, overNew
<1>7. ASSUME NEW d \in Seq(Nat), Len(d) = new,
             \A i \in 1..new : d[i] = (w + n) - new + i
      PROVE  d = c
  <2>1. Len(d) = Len(c) /\ \A i \in 1..Len(d) : d[i] = c[i]
    BY <1>2, <1>7
  <2> QED
    BY <1>2, <1>7, <2>1, SeqEqual
<1>8. ASSUME old + n <= Limit PROVE TailWrite(Kept(w), p) = Kept(w + n)
  <2>1. TailWrite(Kept(w), p) = [data |-> b \o p, truncated |-> over]
    <3>1. Len(Kept(w).data) + Len(p) <= Limit
      BY <1>1, <1>3, <1>6, <1>8
    <3>2. TailWrite(Kept(w), p) = [Kept(w) EXCEPT !.data = Kept(w).data \o p]
      BY <1>1, <1>3, <1>4, <3>1 DEF TailWrite
    <3> QED
      BY <1>6, <3>2, DataAssigned
  <2>2. b \o p \in Seq(Nat)
    BY <1>1, <1>3, ConcatProperties
  <2>3. Len(b \o p) = old + n
    BY <1>1, <1>3, ConcatProperties
  <2>4. new = old + n /\ w + n - new = w - old
    BY <1>4, <1>5, <1>8
  <2>7. overNew = over
    <3>1. w + n > Limit <=> w > Limit
      BY <1>4, <1>5, <1>8
    <3> QED
      BY <3>1 DEF over, overNew, Overflows
  <2>5. \A i \in 1..(old + n) : (b \o p)[i] = w - old + i
    <3> TAKE i \in 1..(old + n)
    <3>1. (b \o p)[i] = IF i <= old THEN b[i] ELSE p[i - old]
      BY <1>1, <1>3, ConcatProperties
    <3>2. CASE i <= old
      BY <1>1, <3>1, <3>2
    <3>3. CASE ~(i <= old)
      <4>1. i - old \in 1..n
        BY <1>1, <3>3
      <4>2. (b \o p)[i] = w + (i - old)
        BY <1>3, <3>1, <3>3, <4>1
      <4> QED
        BY <1>1, <4>2
    <3> QED
      BY <3>2, <3>3
  <2>6. b \o p = c
    <3>1. Len(b \o p) = new /\ \A i \in 1..new : (b \o p)[i] = (w + n) - new + i
      BY <2>3, <2>4, <2>5
    <3> QED
      BY <1>7, <2>2, <3>1
  <2> QED
    BY <1>6, <2>1, <2>6, <2>7
<1>9. ASSUME ~(old + n <= Limit) PROVE TailWrite(Kept(w), p) = Kept(w + n)
  <2>0. new = Limit /\ overNew = TRUE
    BY <1>4, <1>5, <1>9 DEF overNew, Overflows
  <2>1. CASE n >= Limit
    <3> DEFINE d == SubSeq(p, n - Limit + 1, n)
    <3>1. TailWrite(Kept(w), p) = [data |-> d, truncated |-> TRUE]
      <4>1. Len(p) = n /\ Len(Kept(w).data) = old
        BY <1>1, <1>3, <1>6
      <4> QED
        BY <1>1, <1>4, <1>9, <2>1, <4>1 DEF TailWrite
    <3>2. n - Limit + 1 <= n /\ n - (n - Limit + 1) + 1 = Limit /\ n - Limit + 1 \in Int
      BY <1>4
    <3>3. \A i \in (n - Limit + 1)..n : p[i] \in Nat
      BY <1>3, <1>4, <2>1
    <3>4. /\ d \in Seq(Nat) /\ Len(d) = Limit
          /\ \A i \in 1..Limit : d[i] = p[(n - Limit + 1) + i - 1]
      BY <3>2, <3>3, SubSeqProperties
    <3> HIDE DEF d
    <3>5. \A i \in 1..Limit : d[i] = w + n - new + i
      <4> TAKE i \in 1..Limit
      <4>1. (n - Limit + 1) + i - 1 \in 1..n
        BY <1>4, <2>1
      <4>2. d[i] = w + ((n - Limit + 1) + i - 1)
        BY <1>3, <3>4, <4>1
      <4> QED
        BY <1>4, <2>0, <4>2
    <3>6. d = c
      BY <1>7, <2>0, <3>4, <3>5
    <3> QED
      BY <1>6, <2>0, <3>1, <3>6
  <2>2. CASE ~(n >= Limit)
    <3> DEFINE k == Limit - n
               d == SubSeq(b, old + n - Limit + 1, old)
    <3>1. TailWrite(Kept(w), p) = [data |-> d \o p, truncated |-> TRUE]
      <4>1. Len(p) = n /\ Len(Kept(w).data) = old /\ Kept(w).data = b
        BY <1>1, <1>3, <1>6
      <4> QED
        BY <1>1, <1>4, <1>9, <2>2, <4>1 DEF TailWrite
    <3>2. /\ k \in Nat \ {0} /\ k <= old
          /\ old + n - Limit + 1 <= old /\ old - (old + n - Limit + 1) + 1 = k
          /\ old + n - Limit + 1 \in Int /\ k + n = new
      BY <1>1, <1>4, <1>9, <2>0, <2>2
    <3>3. \A i \in (old + n - Limit + 1)..old : b[i] \in Nat
      BY <1>1, <1>4, <1>9
    <3>4. d \in Seq(Nat) /\ Len(d) = k
      BY <1>1, <3>2, <3>3, SubSeqProperties
    <3>5. \A i \in 1..k : d[i] = b[(old + n - Limit + 1) + i - 1]
      <4>1. \A i \in 1..(old - (old + n - Limit + 1) + 1) :
              d[i] = b[(old + n - Limit + 1) + i - 1]
        <5>1. PICK m \in Int : m = old + n - Limit + 1
          BY <3>2
        <5>2. \A i \in 1..(old - m + 1) : SubSeq(b, m, old)[i] = b[m + i - 1]
          BY <1>1, <3>3, <5>1, SubSeqProperties
        <5> QED
          BY <5>1, <5>2
      <4> HIDE DEF d
      <4> QED
        BY <3>2, <4>1
    <3> HIDE DEF d
    <3>6. \A i \in 1..k : d[i] = w - k + i
      <4> TAKE i \in 1..k
      <4>1. (old + n - Limit + 1) + i - 1 \in 1..old
            /\ (old + n - Limit + 1) + i - 1 = old - k + i
        BY <1>1, <1>4, <1>9, <3>2
      <4>2. d[i] = w - old + (old - k + i)
        BY <1>1, <3>5, <4>1
      <4> QED
        BY <1>1, <3>2, <4>2
    <3> HIDE DEF k
    <3>7. d \o p \in Seq(Nat) /\ Len(d \o p) = new
      <4>1. d \o p \in Seq(Nat)
        BY <1>3, <3>4, ConcatProperties
      <4>2. Len(d \o p) = k + n
        BY <1>3, <3>4, ConcatProperties
      <4> QED
        BY <3>2, <4>1, <4>2
    <3>8. \A i \in 1..new : (d \o p)[i] = w + n - new + i
      <4> TAKE i \in 1..new
      <4>0. i \in 1..(k + n) /\ w + n - new = w - k
        BY <1>2, <3>2
      <4>1. (d \o p)[i] = IF i <= k THEN d[i] ELSE p[i - k]
        BY <1>3, <3>4, <4>0, ConcatProperties
      <4>2. CASE i <= k
        BY <3>2, <3>6, <4>0, <4>1, <4>2
      <4>3. CASE ~(i <= k)
        <5>1. i - k \in 1..n
          BY <3>2, <4>0, <4>3
        <5>2. (d \o p)[i] = w + (i - k)
          BY <1>3, <4>1, <4>3, <5>1
        <5> QED
          BY <3>2, <4>0, <5>2
      <4> QED
        BY <4>2, <4>3
    <3>9. d \o p = c
      <4>1. PICK q \in Seq(Nat) : q = d \o p
        BY <3>7
      <4>2. Len(q) = new /\ \A i \in 1..new : q[i] = (w + n) - new + i
        BY <3>7, <3>8, <4>1
      <4>3. q = c
        BY <1>7, <4>2
      <4> QED
        BY <4>1, <4>3
    <3> QED
      BY <1>6, <2>0, <3>1, <3>9
  <2> QED
    BY <2>1, <2>2
<1>10. TailWrite(Kept(w), p) = Kept(w + n)
  BY <1>8, <1>9
<1> QED
  BY <1>10 DEF p

\* What CombinedOutput returns of w bytes: their end, and the marker before it exactly
\* when something is missing.
LEMMA CapturedEnd ==
  ASSUME NEW w \in Nat
  PROVE  LET first == IF w > Limit THEN w - Limit + 1 ELSE 1
         IN Captured(Kept(w)) = (IF w > Limit THEN <<Marker>> ELSE <<>>)
                                  \o [i \in 1..(w - first + 1) |-> first + i - 1]
<1> DEFINE first == IF w > Limit THEN w - Limit + 1 ELSE 1
           e == [i \in 1..(w - first + 1) |-> first + i - 1]
<1>1. Limit \in Nat \ {0}
  BY TailBufferAssumption
<1>2. w - first + 1 = Size(w) /\ first - 1 = w - Size(w) /\ first \in Nat /\ Size(w) \in Nat
  BY <1>1 DEF Size
<1>3. e \in Seq(Nat) /\ Kept(w) = [data |-> e, truncated |-> Overflows(w)]
  <2> HIDE DEF first
  <2>1. \A i \in 1..Size(w) : w - Size(w) + i = first + i - 1
    BY <1>2
  <2>2. [i \in 1..Size(w) |-> w - Size(w) + i] = e
    BY <1>2, <2>1
  <2>3. Kept(w) = [data |-> e, truncated |-> Overflows(w)]
    BY <2>2 DEF Kept
  <2>4. e = Kept(w).data
    BY <2>3
  <2> QED
    BY <2>3, <2>4, KeptType
<1> HIDE DEF e, first
<1>4. CASE w > Limit
  <2>0. Overflows(w) = TRUE
    BY <1>4 DEF Overflows
  <2>1. Captured(Kept(w)) = <<Marker>> \o e
    BY <1>3, <2>0 DEF Captured
  <2> QED
    BY <1>4, <2>1 DEF e, first
<1>5. CASE ~(w > Limit)
  <2>0. Overflows(w) = FALSE
    BY <1>5 DEF Overflows
  <2>1. Captured(Kept(w)) = e
    BY <1>3, <2>0 DEF Captured
  <2>2. <<>> \o e = e
    BY <1>3, ConcatEmptySeq
  <2> QED
    BY <1>5, <2>1, <2>2 DEF e, first
<1> QED
  BY <1>4, <1>5

\* An empty buffer is that of no bytes.
LEMMA KeptNothing == Kept(0) = Empty
<1>1. Size(0) = 0 /\ Overflows(0) = FALSE
  BY TailBufferAssumption DEF Size, Overflows
<1>2. Kept(0).data \in Seq(Nat) /\ Len(Kept(0).data) = 0
  BY <1>1, KeptType
<1>3. Kept(0).data = <<>>
  BY <1>2, EmptySeq
<1>4. Kept(0) = [data |-> Kept(0).data, truncated |-> FALSE]
  BY <1>1 DEF Kept
<1> QED
  BY <1>3, <1>4 DEF Empty

-----------------------------------------------------------------------------
(***************************************************************************)
(* The writes.                                                             *)
(***************************************************************************)
WriteInv ==
  count \in Nat /\ failed \in BOOLEAN /\ Queued /\ Delivered /\ Concluded

\* Items alone and in pairs, and no items.
LEMMA FewItems ==
  ASSUME NEW e, NEW f
  PROVE  Sequence(<<>>) /\ Sequence(<<e>>) /\ Sequence(<<e, f>>)
<1>1. <<>> \in Seq({e}) /\ <<e>> \in Seq({e}) /\ <<e, f>> \in Seq({e, f})
  OBVIOUS
<1> QED
  BY <1>1, IsSequence

\* What a report prints is a sequence of items.
LEMMA ReportsAreSequences ==
  ASSUME count \in Nat, NEW includeResults
  PROVE  /\ Sequence(DryRunJSON) /\ Sequence(DryRunText)
         /\ Sequence(WriteJSONSummary(includeResults)) /\ Sequence(PrintReport)
<1>1. Sequence(DryRunJSON) /\ Sequence(WriteJSONSummary(includeResults))
  BY FewItems DEF DryRunJSON, WriteJSONSummary
<1>2. Sequence(DryRunText)
  <2> DEFINE s == [k \in Points |-> [kind |-> "point", id |-> k]]
  <2>1. Sequence(s)
    <3>1. DOMAIN s = 1..count /\ s = [k \in 1..count |-> s[k]]
      BY DEF Points
    <3> HIDE DEF s
    <3> QED
      BY <3>1, FunctionIsSequence
  <2> HIDE DEF s
  <2>2. Sequence(<<Note("discovered")>> \o s)
    BY <2>1, FewItems, Concatenated
  <2> QED
    BY <2>2 DEF DryRunText, s
<1>3. Sequence(PrintReport)
  <2> DEFINE n == Cardinality(Surviving)
             s == [i \in DOMAIN Survivors |-> [kind |-> "survivor", id |-> Survivors[i]]]
  <2>1. n \in Nat
    <3>1. IsFiniteSet(Points) /\ Surviving \subseteq Points
      BY FS_Interval DEF Points, Surviving
    <3> QED
      BY <3>1, FS_Subset, FS_CardinalityType
  <2>2. DOMAIN Survivors = 1..n
    BY DEF Survivors
  <2>3. Sequence(s)
    <3>1. DOMAIN s = 1..n /\ s = [i \in 1..n |-> s[i]]
      BY <2>2
    <3> HIDE DEF s, n
    <3> QED
      BY <2>1, <3>1, FunctionIsSequence
  <2> HIDE DEF s
  <2>4. Sequence(<<[kind |-> "counters", counters |-> Counters]>> \o s)
    BY <2>3, FewItems, Concatenated
  <2> QED
    BY <2>4 DEF PrintReport, s
<1> QED
  BY <1>1, <1>2, <1>3

\* A statement that prints adds its items to what is to be written.
LEMMA EmitKeeps ==
  ASSUME WriteInv, NEW dest, NEW items, Sequence(items), Emit(dest, items), pc' # "done"
  PROVE  WriteInv'
<1>0. Queued /\ Delivered
  BY DEF WriteInv
<1>1. /\ todo = <<>> /\ meant' = meant \o todo' /\ UNCHANGED <<count, got, failed, err>>
      /\ todo' = [i \in DOMAIN items |-> [to |-> dest, item |-> items[i]]]
  BY DEF Emit
<1>2. PICK n \in Nat : DOMAIN items = 1..n
  BY LenProperties DEF Sequence
<1>3. Sequence(todo') /\ Len(todo') = n
  <2>1. DOMAIN todo' = 1..n /\ todo' = [i \in 1..n |-> todo'[i]]
    BY <1>1, <1>2
  <2> QED
    BY <2>1, FunctionIsSequence
<1>4. \A i \in 1..n : todo'[i] = [to |-> todo'[i].to, item |-> todo'[i].item]
  BY <1>1, <1>2
<1>5. /\ Sequence(meant') /\ Len(meant) \in Nat /\ Len(meant') = Len(meant) + n
      /\ \A i \in 1..Len(meant) : meant'[i] = meant[i]
      /\ \A i \in 1..n : meant'[Len(meant) + i] = todo'[i]
  BY <1>0, <1>1, <1>3, Concatenated DEF Queued
<1>6. Queued'
  <2>1. ASSUME NEW i \in 1..Len(meant')
        PROVE  meant'[i] = [to |-> meant'[i].to, item |-> meant'[i].item]
    <3>1. CASE i \in 1..Len(meant)
      BY <1>0, <1>5, <3>1 DEF Queued
    <3>2. CASE i \notin 1..Len(meant)
      <4>1. i - Len(meant) \in 1..n /\ i = Len(meant) + (i - Len(meant))
        BY <1>5, <3>2
      <4>2. meant'[i] = todo'[i - Len(meant)]
        BY <1>5, <4>1
      <4> QED
        BY <1>4, <4>1, <4>2
    <3> QED
      BY <3>1, <3>2
  <2>2. \A i \in 1..Len(todo') : todo'[i] = meant'[Len(meant') - Len(todo') + i]
    BY <1>3, <1>5
  <2> QED
    BY <1>3, <1>5, <2>1, <2>2 DEF Queued
<1>7. Delivered'
  <2>1. Len(meant') - Len(todo') = Len(meant) /\ Len(meant) - Len(todo) = Len(meant)
    BY <1>1, <1>3, <1>5
  <2>2. Len(got) \in Nat /\ \A i \in 1..Len(got) : i \in 1..Len(meant)
    BY <1>0, <1>5, <2>1, IsSequence DEF Delivered, Sequence
  <2> QED
    BY <1>0, <1>1, <1>5, <2>1, <2>2 DEF Delivered
<1> QED
  BY <1>1, <1>6, <1>7 DEF WriteInv, Concluded

\* A step that prints nothing.
LEMMA SilentKeeps ==
  ASSUME WriteInv, UNCHANGED reportVars, pc' # "done" \/ pc' = pc
  PROVE  WriteInv'
BY DEF WriteInv, reportVars, Queued, Delivered, Concluded

\* One more item arrives, perhaps torn: the write at the head of what is to be written.
LEMMA ArrivalKeeps ==
  ASSUME Delivered, Sequence(meant), UNCHANGED meant,
         Len(todo) \in Nat, Len(todo') = Len(todo) - 1, Len(meant) \in Nat,
         ~failed, failed' \in BOOLEAN, NEW at \in Nat, at = Len(got) + 1, NEW w,
         got' = Append(got, w), w.to = meant[at].to, w.item = meant[at].item,
         ~failed' => w = meant[at]
  PROVE  Delivered'
<1>1. /\ Sequence(got') /\ Len(got) \in Nat /\ Len(got') = at
      /\ \A i \in 1..Len(got) : got'[i] = got[i]
      /\ got'[at] = w
  BY Appended DEF Delivered
<1>2. Len(got) = Len(meant) - Len(todo) /\ \A i \in 1..Len(got) : got[i] = meant[i]
  BY DEF Delivered
<1>3. Len(got') = Len(meant') - Len(todo')
  BY <1>1, <1>2
<1>4. ASSUME NEW i \in 1..Len(got')
      PROVE  /\ got'[i].to = meant[i].to /\ got'[i].item = meant[i].item
             /\ i < Len(got') \/ ~failed' => got'[i] = meant[i]
  <2>1. CASE i = at
    BY <1>1, <2>1
  <2>2. CASE i # at
    <3>1. i \in 1..Len(got)
      BY <1>1, <2>2
    <3> QED
      BY <1>1, <1>2, <3>1
  <2> QED
    BY <2>1, <2>2
<1>5. Len(got') <= Len(meant') - Len(todo')
  BY <1>1, <1>3
<1> QED
  BY <1>1, <1>3, <1>4, <1>5 DEF Delivered

\* checkedWriter: what arrives follows what has arrived, or nothing ever arrives again.
LEMMA CheckedWriteKeeps ==
  ASSUME WriteInv, CheckedWrite
  PROVE  WriteInv'
<1>0. Queued /\ Delivered /\ Concluded /\ failed \in BOOLEAN
  BY DEF WriteInv
<1>1. /\ todo # <<>> /\ todo' = Tail(todo)
      /\ UNCHANGED <<count, meant, err, pc>>
  BY DEF CheckedWrite
<1>2. /\ Sequence(todo') /\ Len(todo) \in Nat \ {0}
      /\ Len(todo') = Len(todo) - 1 /\ Head(todo) = todo[1]
      /\ \A i \in 1..Len(todo') : todo'[i] = todo[i + 1]
  BY <1>0, <1>1, Tailed DEF Queued
<1>3. Len(meant) \in Nat /\ Len(got) \in Nat
  BY <1>0, IsSequence DEF Queued, Delivered, Sequence
<1>4. Queued'
  <2>1. \A i \in 1..Len(todo') : todo'[i] = meant[Len(meant) - Len(todo') + i]
    <3> TAKE i \in 1..Len(todo')
    <3>1. i + 1 \in 1..Len(todo)
      BY <1>2
    <3>2. todo'[i] = meant[Len(meant) - Len(todo) + (i + 1)]
      BY <1>0, <1>2, <3>1 DEF Queued
    <3>3. Len(meant) - Len(todo) + (i + 1) = Len(meant) - Len(todo') + i
      BY <1>2, <1>3
    <3> QED
      BY <3>2, <3>3
  <2> QED
    BY <1>0, <1>1, <1>2, <1>3, <2>1 DEF Queued
<1>5. Concluded'
  BY <1>0, <1>1 DEF Concluded
<1>6. CASE failed
  <2>1. got' = got /\ failed' = failed
    BY <1>6 DEF CheckedWrite
  <2>2. Delivered'
    BY <1>0, <1>1, <1>2, <1>3, <1>6, <2>1 DEF Delivered, Queued
  <2> QED
    BY <1>0, <1>1, <1>4, <1>5, <2>1, <2>2 DEF WriteInv
<1>7. /\ Delivered /\ Sequence(meant) /\ UNCHANGED meant
      /\ Len(todo) \in Nat /\ Len(todo') = Len(todo) - 1 /\ Len(meant) \in Nat
  BY <1>0, <1>1, <1>2, <1>3 DEF Queued
<1>8. CASE ~failed
  <2>1. PICK n \in {"none", "part", "all"}, e \in BOOLEAN : Arrives(n, e)
    BY <1>8 DEF CheckedWrite
  <2>2. failed' \in BOOLEAN
    BY <2>1 DEF Arrives
  <2>3. PICK at \in Nat : at = Len(got) + 1
    BY <1>3
  <2>4. Len(got) = Len(meant) - Len(todo)
    BY <1>0, <1>8 DEF Delivered
  <2>5. Head(todo) = meant[at] /\ meant[at] = [to |-> meant[at].to, item |-> meant[at].item]
    <3>1. Len(todo) <= Len(meant)
      BY <1>0 DEF Queued
    <3>2. at = Len(meant) - Len(todo) + 1 /\ at \in 1..Len(meant)
      BY <1>2, <1>3, <2>3, <2>4, <3>1
    <3> QED
      BY <1>0, <1>2, <3>2 DEF Queued
  <2>6. Delivered'
    <3>1. CASE n = "none"
      <4>1. got' = got /\ failed'
        BY <2>1, <3>1 DEF Arrives
      <4>2. Len(got') <= Len(meant') - Len(todo')
        BY <1>1, <1>2, <1>3, <2>4, <4>1
      <4> QED
        <5>1. \A i \in 1..Len(got') :
                /\ got'[i].to = meant'[i].to /\ got'[i].item = meant'[i].item
                /\ i < Len(got') => got'[i] = meant'[i]
          BY <1>0, <1>1, <4>1 DEF Delivered
        <5>2. Sequence(got')
          BY <1>0, <4>1 DEF Delivered
        <5> QED
          BY <4>1, <4>2, <5>1, <5>2 DEF Delivered
    <3>2. CASE n = "part"
      <4>1. PICK w : w = Torn(Head(todo))
        OBVIOUS
      <4>2. got' = Append(got, w) /\ failed'
        BY <2>1, <3>2, <4>1 DEF Arrives
      <4>3. w.to = meant[at].to /\ w.item = meant[at].item
        BY <2>5, <4>1 DEF Torn
      <4>4. ~failed' => w = meant[at]
        BY <4>2
      <4> QED
        BY <1>7, <1>8, <2>2, <2>3, <4>2, <4>3, <4>4, ArrivalKeeps
    <3>3. CASE n = "all"
      <4>1. PICK w : w = Head(todo)
        OBVIOUS
      <4>2. got' = Append(got, w) /\ w = meant[at]
        BY <2>1, <2>5, <3>3, <4>1 DEF Arrives
      <4>3. w.to = meant[at].to /\ w.item = meant[at].item
        BY <4>2
      <4> QED
        BY <1>7, <1>8, <2>2, <2>3, <4>2, <4>3, ArrivalKeeps
    <3> QED
      BY <3>1, <3>2, <3>3
  <2> QED
    BY <1>1, <1>4, <1>5, <2>2, <2>6, <1>0 DEF WriteInv
<1> QED
  BY <1>0, <1>6, <1>8

\* A progress line, with or without the output of the test, or none.
LEMMA ProgressKeeps ==
  ASSUME WriteInv, NEW m, NEW r, NEW output, Progress(m, r, output), pc' # "done"
  PROVE  WriteInv'
<1> DEFINE line(status) == [kind |-> "result", id |-> m, status |-> status]
           bytes == [kind |-> "output", bytes |-> output]
<1> HIDE DEF line, bytes
<1>1. ASSUME NEW e PROVE Sequence(<<e>> \o <<bytes>>) /\ Sequence(<<e>> \o <<>>)
  BY FewItems, Concatenated
<1>2. \/ Nothing
      \/ Emit("stdout", <<line(ToJSONResult(r))>>)
      \/ Emit("stdout", <<line(statusOf(r))>> \o
           IF cfg.verbose /\ output # <<>> THEN <<bytes>> ELSE <<>>)
  BY DEF Progress, line, bytes
<1>3. CASE Nothing
  BY <1>3, SilentKeeps DEF Nothing
<1>4. CASE Emit("stdout", <<line(ToJSONResult(r))>>)
  BY <1>4, FewItems, EmitKeeps
<1>5. CASE Emit("stdout", <<line(statusOf(r))>> \o
             IF cfg.verbose /\ output # <<>> THEN <<bytes>> ELSE <<>>)
  <2>1. Sequence(<<line(statusOf(r))>> \o
          IF cfg.verbose /\ output # <<>> THEN <<bytes>> ELSE <<>>)
    BY <1>1
  <2> QED
    BY <1>5, <2>1, EmitKeeps
<1> QED
  BY <1>2, <1>3, <1>4, <1>5

\* The statements of run outside the campaign.
Statement ==
  Diff \/ DryRun \/ NoMutationPoints \/ Phases \/ PhaseFails \/ Summary \/ Interrupted

\* Whatever a statement of run prints is added to what is to be written.
LEMMA StatementKeeps ==
  ASSUME WriteInv, Statement
  PROVE  WriteInv'
<1>0. count \in Nat
  BY DEF WriteInv
<1>1. CASE Diff
  <2>1. pc' # "done"
    BY <1>1 DEF Diff, Goto
  <2>2. CASE cfg.diff
    BY <1>1, <2>1, <2>2, FewItems, EmitKeeps DEF Diff
  <2>3. CASE ~cfg.diff
    BY <1>1, <2>1, <2>3, SilentKeeps DEF Diff, Nothing
  <2> QED
    BY <2>2, <2>3
<1>2. CASE DryRun
  <2>1. pc' # "done"
    BY <1>2 DEF DryRun, Goto
  <2>2. \/ Emit("stdout", DryRunJSON) \/ Emit("stdout", <<Note("no points")>>)
        \/ Emit("stdout", DryRunText)
    BY <1>2 DEF DryRun
  <2>3. Sequence(DryRunJSON) /\ Sequence(DryRunText) /\ Sequence(<<Note("no points")>>)
    BY <1>0, FewItems, ReportsAreSequences
  <2> QED
    BY <2>1, <2>2, <2>3, EmitKeeps
<1>3. CASE NoMutationPoints
  <2>1. pc' # "done"
    BY <1>3 DEF NoMutationPoints, Goto
  <2>2. Emit("stdout", WriteJSONSummary(TRUE)) \/ Emit("stdout", <<Note("no points")>>)
    BY <1>3 DEF NoMutationPoints
  <2>3. Sequence(WriteJSONSummary(TRUE)) /\ Sequence(<<Note("no points")>>)
    BY <1>0, FewItems, ReportsAreSequences
  <2> QED
    BY <2>1, <2>2, <2>3, EmitKeeps
<1>4. CASE Phases
  <2>1. pc' # "done" /\ Emit(Info, <<Note("discovered"), Note("testing")>>)
    BY <1>4 DEF Phases, Goto
  <2> QED
    BY <2>1, FewItems, EmitKeeps
<1>5. CASE PhaseFails
  <2>1. pc' # "done" /\ Emit(Info, <<Note("discovered")>>)
    BY <1>5 DEF PhaseFails, Goto
  <2> QED
    BY <2>1, FewItems, EmitKeeps
<1>6. CASE Summary
  <2>1. pc' # "done"
    BY <1>6 DEF Summary
  <2>2. Emit("stdout", WriteJSONSummary(~cfg.verbose)) \/ Emit("stdout", PrintReport)
    BY <1>6 DEF Summary
  <2>3. Sequence(WriteJSONSummary(~cfg.verbose)) /\ Sequence(PrintReport)
    BY <1>0, ReportsAreSequences
  <2> QED
    BY <2>1, <2>2, <2>3, EmitKeeps
<1>7. CASE Interrupted
  <2>1. pc' # "done"
    BY <1>7 DEF Interrupted, Goto
  <2>2. CASE ctx
    BY <1>7, <2>1, <2>2, FewItems, EmitKeeps DEF Interrupted
  <2>3. CASE ~ctx
    BY <1>7, <2>1, <2>3, SilentKeeps DEF Interrupted, Nothing
  <2> QED
    BY <2>2, <2>3
<1> QED
  BY <1>1, <1>2, <1>3, <1>4, <1>5, <1>6, <1>7 DEF Statement

-----------------------------------------------------------------------------
(***************************************************************************)
(* What a statement adds to all that was meant.                            *)
(***************************************************************************)
Added(dest, items) ==
  /\ Len(meant) \in Nat /\ Len(items) \in Nat
  /\ Len(meant') = Len(meant) + Len(items)
  /\ \A i \in 1..Len(meant) : meant'[i] = meant[i]
  /\ \A i \in 1..Len(items) : meant'[Len(meant) + i] = [to |-> dest, item |-> items[i]]

\* A statement that prints adds its items.
LEMMA EmitAdds ==
  ASSUME WriteInv, NEW dest, NEW items, Sequence(items), Emit(dest, items)
  PROVE  Added(dest, items) /\ UNCHANGED <<cfg, count>>
<1>1. /\ meant' = meant \o todo' /\ UNCHANGED <<cfg, count>>
      /\ todo' = [i \in DOMAIN items |-> [to |-> dest, item |-> items[i]]]
  BY DEF Emit
<1>2. Len(items) \in Nat /\ DOMAIN items = 1..Len(items)
  BY LenProperties DEF Sequence
<1>3. Sequence(todo') /\ Len(todo') = Len(items)
  <2>1. DOMAIN todo' = 1..Len(items) /\ todo' = [i \in 1..Len(items) |-> todo'[i]]
    BY <1>1, <1>2
  <2> QED
    BY <1>2, <2>1, FunctionIsSequence
<1>4. Sequence(meant)
  BY DEF WriteInv, Queued
<1>5. /\ Len(meant) \in Nat /\ Len(meant') = Len(meant) + Len(todo')
      /\ \A i \in 1..Len(meant) : meant'[i] = meant[i]
      /\ \A i \in 1..Len(todo') : meant'[Len(meant) + i] = todo'[i]
  BY <1>1, <1>3, <1>4, Concatenated
<1>6. \A i \in 1..Len(items) : meant'[Len(meant) + i] = [to |-> dest, item |-> items[i]]
  BY <1>1, <1>2, <1>3, <1>5
<1> QED
  BY <1>1, <1>2, <1>3, <1>5, <1>6 DEF Added

\* A statement that prints nothing adds no items.
LEMMA NothingAdded ==
  ASSUME WriteInv, UNCHANGED meant
  PROVE  Added("stderr", <<>>)
<1>1. Len(meant) \in Nat
  BY IsSequence DEF WriteInv, Queued, Sequence
<1>2. Len(<<>>) = 0
  BY FewItems
<1> QED
  BY <1>1, <1>2 DEF Added

\* Where the items of a kind stand afterwards.
LEMMA AddedAt ==
  ASSUME NEW dest, NEW items, Added(dest, items), NEW kind
  PROVE  /\ At(kind)' = At(kind) \cup
                          {Len(meant) + i : i \in {j \in 1..Len(items) : items[j].kind = kind}}
         /\ At(kind) \subseteq 1..Len(meant)
         /\ \A i \in At(kind) : meant'[i] = meant[i]
<1>1. ASSUME NEW i
      PROVE  i \in At(kind)' <=>
               i \in At(kind) \/ \E j \in 1..Len(items) : items[j].kind = kind /\ i = Len(meant) + j
  <2>1. CASE i \in 1..Len(meant)
    <3>1. \A j \in 1..Len(items) : i # Len(meant) + j
      BY <2>1 DEF Added
    <3>2. i \in 1..Len(meant') /\ meant'[i] = meant[i]
      BY <2>1 DEF Added
    <3> QED
      BY <2>1, <3>1, <3>2 DEF At
  <2>2. CASE i \notin 1..Len(meant)
    <3>1. ASSUME i \in 1..Len(meant')
          PROVE  i - Len(meant) \in 1..Len(items) /\ i = Len(meant) + (i - Len(meant))
      BY <2>2, <3>1 DEF Added
    <3>2. ASSUME NEW j \in 1..Len(items), i = Len(meant) + j
          PROVE  i \in 1..Len(meant') /\ meant'[i].item = items[j]
      <4>1. meant'[Len(meant) + j] = [to |-> dest, item |-> items[j]]
        BY DEF Added
      <4>2. i \in 1..Len(meant')
        BY <3>2 DEF Added
      <4> QED
        BY <3>2, <4>1, <4>2
    <3> QED
      BY <2>2, <3>1, <3>2 DEF At
  <2> QED
    BY <2>1, <2>2
<1> QED
  BY <1>1 DEF At, Added

\* Items of other kinds change nothing.
LEMMA AddedElsewhere ==
  ASSUME NEW dest, NEW items, Added(dest, items), NEW kind,
         \A j \in 1..Len(items) : items[j].kind # kind
  PROVE  At(kind)' = At(kind) /\ \A i \in At(kind) : meant'[i] = meant[i]
BY AddedAt

\* One item, the first, is of the kind.
LEMMA AddedFirst ==
  ASSUME NEW dest, NEW items, Added(dest, items), NEW kind,
         Len(items) >= 1, items[1].kind = kind,
         \A j \in 2..Len(items) : items[j].kind # kind
  PROVE  /\ At(kind)' = At(kind) \cup {Len(meant) + 1} /\ Len(meant) + 1 \notin At(kind)
         /\ \A i \in At(kind) : meant'[i] = meant[i]
         /\ meant'[Len(meant) + 1] = [to |-> dest, item |-> items[1]]
<1>1. 1 \in 1..Len(items) /\ Len(meant) \in Nat
  BY DEF Added
<1>2. {j \in 1..Len(items) : items[j].kind = kind} = {1}
  BY <1>1 DEF Added
<1>3. {Len(meant) + i : i \in {1}} = {Len(meant) + 1}
  OBVIOUS
<1>4. At(kind)' = At(kind) \cup {Len(meant) + 1}
  BY <1>2, <1>3, AddedAt
<1>5. Len(meant) + 1 \notin At(kind)
  BY <1>1 DEF At
<1>6. meant'[Len(meant) + 1] = [to |-> dest, item |-> items[1]]
  BY <1>1 DEF Added
<1> QED
  BY <1>4, <1>5, <1>6, AddedAt

\* What goes to stdout.
LEMMA AddedOnStdout ==
  ASSUME NEW dest, NEW items, Added(dest, items)
  PROVE  /\ OnStdout' = OnStdout \cup
              (IF dest = "stdout" THEN (Len(meant) + 1)..(Len(meant) + Len(items)) ELSE {})
         /\ OnStdout \subseteq 1..Len(meant)
         /\ \A i \in OnStdout : meant'[i] = meant[i]
<1>1. ASSUME NEW i
      PROVE  i \in OnStdout' <=>
               \/ i \in OnStdout
               \/ dest = "stdout" /\ i \in (Len(meant) + 1)..(Len(meant) + Len(items))
  <2>1. CASE i \in 1..Len(meant)
    <3>1. i \in 1..Len(meant') /\ meant'[i] = meant[i]
          /\ i \notin (Len(meant) + 1)..(Len(meant) + Len(items))
      BY <2>1 DEF Added
    <3> QED
      BY <2>1, <3>1 DEF OnStdout
  <2>2. CASE i \notin 1..Len(meant)
    <3>1. i \in 1..Len(meant') <=> i \in (Len(meant) + 1)..(Len(meant) + Len(items))
      BY <2>2 DEF Added
    <3>2. ASSUME i \in (Len(meant) + 1)..(Len(meant) + Len(items)) PROVE meant'[i].to = dest
      <4>1. i - Len(meant) \in 1..Len(items) /\ i = Len(meant) + (i - Len(meant))
        BY <3>2 DEF Added
      <4>2. meant'[Len(meant) + (i - Len(meant))] = [to |-> dest, item |-> items[i - Len(meant)]]
        BY <4>1 DEF Added
      <4> QED
        BY <4>1, <4>2
    <3> QED
      BY <2>2, <3>1, <3>2 DEF OnStdout
  <2> QED
    BY <2>1, <2>2
<1> QED
  BY <1>1 DEF OnStdout, Added

-----------------------------------------------------------------------------
(***************************************************************************)
(* The results, the reports and stdout.                                    *)
(***************************************************************************)
StoryInv == Campaigned /\ Streamed /\ Reported /\ Machine

\* All three ways to name a status agree.
LEMMA OneStatus ==
  ASSUME NEW r
  PROVE  statusOf(r) = Counted(r) /\ ToJSONResult(r) = Counted(r)
BY DEF statusOf, Counted, ToJSONResult

\* While no test ends the reports stay true.
LEMMA SameResults ==
  ASSUME UNCHANGED <<count, result>>
  PROVE  /\ UNCHANGED <<Points, Untested, Tested, Counters, Surviving>>
         /\ \A m : Line(m)' = Line(m)
         /\ [m \in Points |-> ToJSONResult(result[m])]' = [m \in Points |-> ToJSONResult(result[m])]
BY DEF Points, Untested, Tested, Counters, Surviving, Line

\* run goes on, but not to a report.
Onward ==
  \/ pc' = pc
  \/ pc = "diff" /\ pc' = "list"
  \/ pc = "list" /\ pc' = "campaign" /\ count > 0 /\ ~cfg.dryRun
  \/ pc = "list" /\ pc' = "end"
  \/ pc = "summary" /\ pc' = "end"
  \/ pc = "end" /\ pc' = "done"

\* Notes, and the points of a dry run, are no part of the story.
LEMMA ChatterKeeps ==
  ASSUME StoryInv, NEW dest, NEW items, Added(dest, items),
         UNCHANGED <<cfg, count, result>>, Onward,
         \A j \in 1..Len(items) : items[j].kind \in {"info", "point"},
         cfg.json => dest # "stdout"
  PROVE  StoryInv'
<1>1. ASSUME NEW kind \in {"array", "summary", "counters", "survivor", "result"}
      PROVE  /\ At(kind)' = At(kind) /\ \A i \in At(kind) : meant'[i] = meant[i]
  <2>1. \A j \in 1..Len(items) : items[j].kind # kind
    OBVIOUS
  <2> QED
    BY <2>1, AddedElsewhere
<1>2. /\ UNCHANGED <<Points, Untested, Tested, Counters, Surviving>>
      /\ \A m : Line(m)' = Line(m)
      /\ [m \in Points |-> ToJSONResult(result[m])]' = [m \in Points |-> ToJSONResult(result[m])]
  BY SameResults
<1>3. UNCHANGED Reports
  BY <1>1 DEF Reports
<1>4. Campaigned'
  BY <1>2 DEF StoryInv, Campaigned, Onward
<1>5. Streamed'
  BY <1>1, <1>2, AddedOnStdout DEF StoryInv, Streamed, Streams
<1>6. Reported'
  <2>0. Reported
    BY DEF StoryInv
  <2>1. pc' \in {"diff", "list", "campaign", "rest"} => Reports' = {}
    BY <1>3, <2>0 DEF Reported, Onward
  <2>2. (At("summary") \cup At("counters") # {} => Tested = Points)'
    BY <1>1, <1>2, <2>0 DEF Reported
  <2>3. (\A i \in At("summary") \cup At("counters") : meant[i].item.counters = Counters)'
    BY <1>1, <1>2, <2>0 DEF Reported
  <2>4. (At("result") = {} => \A i \in At("summary") :
          meant[i].item.results = [m \in Points |-> ToJSONResult(result[m])])'
    BY <1>1, <1>2, <2>0 DEF Reported
  <2>5. (At("counters") # {} => Streams)'
    BY <1>1, <2>0 DEF Reported, Streams
  <2>6. (At("counters") # {} => {meant[i].item.id : i \in At("survivor")} = Surviving)'
    <3>1. {meant'[i].item.id : i \in At("survivor")'} = {meant[i].item.id : i \in At("survivor")}
      BY <1>1
    <3> QED
      BY <1>1, <1>2, <2>0, <3>1 DEF Reported
  <2> QED
    BY <2>1, <2>2, <2>3, <2>4, <2>5, <2>6 DEF Reported
<1>7. Machine'
  <2>1. CASE ~cfg.json
    BY <2>1 DEF Machine
  <2>2. CASE cfg.json
    <3>1. OnStdout' = OnStdout /\ \A i \in OnStdout : meant'[i] = meant[i]
      BY <2>2, AddedOnStdout
    <3>2. MachineKinds' = MachineKinds
      BY DEF MachineKinds
    <3>3. pc' \in {"diff", "list"} => pc \in {"diff", "list"}
      BY DEF Onward
    <3>4. pc' \in {"summary", "end", "done"} => pc \in {"diff", "list", "summary", "end", "done"}
      BY DEF Onward
    <3> QED
      BY <1>3, <2>2, <3>1, <3>2, <3>3, <3>4 DEF Machine, StoryInv
  <2> QED
    BY <2>1, <2>2
<1> QED
  BY <1>4, <1>5, <1>6, <1>7 DEF StoryInv

\* The end of a test makes one mutant more that is tested.
LEMMA OneMoreTested ==
  ASSUME Campaigned, NEW m \in Untested, NEW r \in Outcomes,
         result' = [result EXCEPT ![m] = r], UNCHANGED count
  PROVE  /\ m \in Points /\ m \notin Tested /\ Tested' = Tested \cup {m}
         /\ result' \in [Points' -> Outcomes \cup {None}]
         /\ Line(m)' = [kind |-> "result", id |-> m, status |-> Counted(r)]
         /\ \A k \in Tested : Line(k)' = Line(k)
<1>1. r # None
  <2>1. DOMAIN r = {"Canceled", "Err", "TimedOut", "Killed"}
    BY DEF Outcomes, Canceled, Flags
  <2>2. DOMAIN None = {"none"}
    BY DEF None
  <2> QED
    BY <2>1, <2>2
<1>2. m \in Points /\ result[m] = None /\ Points' = Points
  BY DEF Untested, Points
<1>3. result \in [Points -> Outcomes \cup {None}]
  BY DEF Campaigned
<1>4. result' \in [Points -> Outcomes \cup {None}] /\ result'[m] = r
      /\ \A k \in Points \ {m} : result'[k] = result[k]
  BY <1>2, <1>3
<1>5. Tested' = Tested \cup {m} /\ m \notin Tested /\ Tested \subseteq Points \ {m}
  BY <1>1, <1>2, <1>4 DEF Tested, Untested
<1> QED
  BY <1>2, <1>4, <1>5 DEF Line

\* A progress line is one item that names the mutant and its status, with the output
\* behind it only in text; without streaming there is none.
Tells(m, r, items) ==
  /\ Added("stdout", items) /\ Len(items) >= 1
  /\ items[1] = [kind |-> "result", id |-> m, status |-> Counted(r)]
  /\ \A j \in 2..Len(items) : items[j].kind = "output"
  /\ cfg.json => Len(items) = 1

\* Progress prints such a line, or nothing.
LEMMA ProgressTells ==
  ASSUME WriteInv, NEW m, NEW r, NEW output, Progress(m, r, output)
  PROVE  /\ UNCHANGED <<cfg, count>>
         /\ \/ ~Streams /\ UNCHANGED meant
            \/ Streams /\ \E items : Tells(m, r, items)
<1> DEFINE line == [kind |-> "result", id |-> m, status |-> Counted(r)]
           bytes == [kind |-> "output", bytes |-> output]
<1>1. bytes.kind = "output"
  OBVIOUS
<1>2. CASE cfg.json /\ ~cfg.verbose
  BY <1>2 DEF Progress, Nothing, reportVars, Streams
<1>3. CASE cfg.json /\ cfg.verbose
  <2>1. Emit("stdout", <<line>>)
    BY <1>3, OneStatus DEF Progress
  <2> HIDE DEF line
  <2>2. Added("stdout", <<line>>) /\ UNCHANGED <<cfg, count>>
    BY <2>1, FewItems, EmitAdds
  <2>3. Len(<<line>>) = 1 /\ <<line>>[1] = line
    OBVIOUS
  <2>4. Tells(m, r, <<line>>)
    BY <2>2, <2>3 DEF Tells, line
  <2> QED
    BY <1>3, <2>2, <2>4 DEF Streams
<1>4. CASE ~cfg.json
  <2>1. PICK more \in {<<bytes>>, <<>>} : Emit("stdout", <<line>> \o more)
    BY <1>4, OneStatus DEF Progress
  <2> HIDE DEF line, bytes
  <2>2. Sequence(<<line>>) /\ Sequence(more) /\ Len(<<line>>) = 1 /\ <<line>>[1] = line
    BY FewItems
  <2>3. \A j \in 1..Len(more) : more[j] = bytes
    OBVIOUS
  <2>4. /\ Sequence(<<line>> \o more) /\ Len(more) \in Nat
        /\ Len(<<line>> \o more) = 1 + Len(more)
        /\ (<<line>> \o more)[1] = line
        /\ \A j \in 1..Len(more) : (<<line>> \o more)[1 + j] = bytes
    BY <2>2, <2>3, Concatenated
  <2>5. \A j \in 2..Len(<<line>> \o more) : (<<line>> \o more)[j].kind = "output"
    <3> TAKE j \in 2..Len(<<line>> \o more)
    <3>1. j - 1 \in 1..Len(more) /\ j = 1 + (j - 1)
      BY <2>4
    <3>2. (<<line>> \o more)[j] = bytes
      BY <2>4, <3>1
    <3> QED
      BY <1>1, <3>2
  <2>6. Added("stdout", <<line>> \o more) /\ UNCHANGED <<cfg, count>>
    BY <2>1, <2>4, EmitAdds
  <2>7. Tells(m, r, <<line>> \o more)
    BY <1>4, <2>4, <2>5, <2>6 DEF Tells, line
  <2> QED
    BY <1>4, <2>6, <2>7 DEF Streams
<1> QED
  BY <1>2, <1>3, <1>4

\* The end of a test and its progress line go together.
LEMMA LineKeeps ==
  ASSUME WriteInv, StoryInv, NEW m \in Untested, NEW r \in Outcomes, NEW output,
         result' = [result EXCEPT ![m] = r], Progress(m, r, output),
         pc \in {"campaign", "rest"}, pc' \in {"campaign", "rest"}
  PROVE  StoryInv'
<1>0. UNCHANGED <<cfg, count>>
  BY ProgressTells
<1>1. /\ m \in Points /\ m \notin Tested /\ Tested' = Tested \cup {m}
      /\ result' \in [Points' -> Outcomes \cup {None}]
      /\ Line(m)' = [kind |-> "result", id |-> m, status |-> Counted(r)]
      /\ \A k \in Tested : Line(k)' = Line(k)
  BY <1>0, OneMoreTested DEF StoryInv
<1>2. Campaigned'
  BY <1>0, <1>1 DEF StoryInv, Campaigned
<1>3. Reports = {} /\ Streamed /\ Machine
  BY DEF StoryInv, Reported
<1>4. CASE ~Streams /\ UNCHANGED meant
  <2>1. \A kind : At(kind)' = At(kind)
    BY <1>4 DEF At
  <2>2. OnStdout' = OnStdout
    BY <1>4 DEF OnStdout
  <2>3. Streamed'
    BY <1>0, <1>3, <1>4, <2>1 DEF Streamed, Streams
  <2>4. Reports' = {}
    BY <1>3, <2>1 DEF Reports
  <2>5. Reported'
    BY <2>4 DEF Reported, Reports
  <2>6. Machine'
    BY <1>0, <1>3, <1>4, <2>2, <2>4 DEF Machine, MachineKinds
  <2> QED
    BY <1>2, <2>3, <2>5, <2>6 DEF StoryInv
<1>5. CASE Streams /\ \E items : Tells(m, r, items)
  <2>1. PICK items : Tells(m, r, items)
    BY <1>5
  <2>2. /\ Added("stdout", items) /\ Len(items) \in Nat /\ Len(items) >= 1
        /\ items[1] = Line(m)' /\ items[1].kind = "result"
        /\ \A j \in 2..Len(items) : items[j].kind = "output"
    <3>1. items[1] = [kind |-> "result", id |-> m, status |-> Counted(r)]
      BY <2>1 DEF Tells
    <3>2. Added("stdout", items) /\ Len(items) >= 1
          /\ \A j \in 2..Len(items) : items[j].kind = "output"
      BY <2>1 DEF Tells
    <3>3. Len(items) \in Nat
      BY <3>2 DEF Added
    <3> QED
      BY <1>1, <3>1, <3>2, <3>3
  <2>3. \A j \in 1..Len(items) : items[j].kind \in {"result", "output"}
    BY <2>2
  <2>4. Reports' = {}
    <3>1. ASSUME NEW kind \in {"array", "summary", "counters", "survivor"}
          PROVE  At(kind)' = At(kind)
      <4>1. \A j \in 1..Len(items) : items[j].kind # kind
        BY <2>3
      <4> QED
        BY <2>2, <4>1, AddedElsewhere
    <3> QED
      BY <1>3, <3>1 DEF Reports
  <2>5. Reported'
    BY <2>4 DEF Reported, Reports
  <2> DEFINE new == Len(meant) + 1
  <2>6. /\ At("result")' = At("result") \cup {new} /\ new \notin At("result")
        /\ \A i \in At("result") : meant'[i] = meant[i]
        /\ meant'[new].item = Line(m)'
    <3>1. \A j \in 2..Len(items) : items[j].kind # "result"
      BY <2>2
    <3>2. /\ At("result")' = At("result") \cup {new} /\ new \notin At("result")
          /\ \A i \in At("result") : meant'[i] = meant[i]
          /\ meant'[new] = [to |-> "stdout", item |-> items[1]]
      BY <2>2, <3>1, AddedFirst
    <3> HIDE DEF new
    <3> QED
      BY <2>2, <3>2
  <2> HIDE DEF new
  <2>7. Streamed'
    <3>1. \A i \in At("result") : \E k \in Tested : meant'[i].item = Line(k)' /\ meant[i].item = Line(k)
      BY <1>1, <1>3, <2>6 DEF Streamed
    <3>2. \A k \in Tested : Line(k)' # Line(m)'
      BY <1>1 DEF Line
    <3>3. \A i \in At("result")' : \E k \in Tested' : meant'[i].item = Line(k)'
      BY <1>1, <2>6, <3>1
    <3>4. \A i, j \in At("result")' : meant'[i].item = meant'[j].item => i = j
      BY <1>3, <2>6, <3>1, <3>2 DEF Streamed
    <3>5. \A k \in Tested' : \E i \in At("result")' : meant'[i].item = Line(k)'
      BY <1>1, <1>3, <1>5, <2>6 DEF Streamed
    <3>6. At("result")' \subseteq OnStdout'
      <4>1. OnStdout \subseteq OnStdout'
        BY <2>2, AddedOnStdout
      <4>2. At("result") \subseteq OnStdout
        BY <1>3 DEF Streamed
      <4>3. new \in OnStdout'
        <5>1. new \in (Len(meant) + 1)..(Len(meant) + Len(items))
          BY <2>2 DEF Added, new
        <5> QED
          BY <2>2, <5>1, AddedOnStdout
      <4> QED
        BY <2>6, <4>1, <4>2, <4>3
    <3> QED
      BY <1>0, <1>5, <3>3, <3>4, <3>5, <3>6 DEF Streamed, Streams
  <2>8. Machine'
    <3>1. CASE ~cfg.json
      BY <1>0, <3>1 DEF Machine
    <3>2. CASE cfg.json
      <4>1. Len(items) = 1 /\ Len(meant) \in Nat
        BY <2>1, <3>2 DEF Tells, Added
      <4>2. OnStdout' = OnStdout \cup {new} /\ \A i \in OnStdout : meant'[i] = meant[i]
        <5>1. (Len(meant) + 1)..(Len(meant) + Len(items)) = {new}
          BY <4>1 DEF new
        <5> QED
          BY <2>2, <5>1, AddedOnStdout
      <4>3. meant'[new].item.kind = "result"
        BY <2>2, <2>6
      <4>4. MachineKinds' = MachineKinds /\ "result" \in MachineKinds
        BY <1>0, <1>5, <3>2 DEF MachineKinds, Streams, StoryInv, Campaigned
      <4>5. \A i \in OnStdout' : meant'[i].item.kind \in MachineKinds'
        BY <1>3, <3>2, <4>2, <4>3, <4>4 DEF Machine
      <4> QED
        BY <1>0, <2>4, <3>2, <4>5 DEF Machine
    <3> QED
      BY <3>1, <3>2
  <2> QED
    BY <1>2, <2>5, <2>7, <2>8 DEF StoryInv
<1> QED
  BY <1>4, <1>5, ProgressTells

-----------------------------------------------------------------------------
(***************************************************************************)
(* The reports.                                                            *)
(***************************************************************************)
Rank(S, m) == Cardinality({k \in S : k < m})

\* Counting the smaller ones numbers the elements of a finite set of numbers.
LEMMA Ranked ==
  ASSUME NEW S \in SUBSET Nat, IsFiniteSet(S)
  PROVE  /\ Cardinality(S) \in Nat
         /\ \A m \in S : Rank(S, m) \in 0..(Cardinality(S) - 1)
         /\ \A m, j \in S : Rank(S, m) = Rank(S, j) => m = j
         /\ \A i \in 0..(Cardinality(S) - 1) : \E m \in S : Rank(S, m) = i
<1> DEFINE n == Cardinality(S)
           T == 0..(n - 1)
           f == [m \in S |-> Rank(S, m)]
<1>1. n \in Nat
  BY FS_CardinalityType
<1>2. ASSUME NEW m \in S
      PROVE  IsFiniteSet({k \in S : k < m}) /\ Rank(S, m) \in Nat
  BY FS_Subset, FS_CardinalityType DEF Rank
<1>3. ASSUME NEW m \in S PROVE Rank(S, m) \in T
  <2>1. {k \in S : k < m} \in SUBSET (S \ {m})
    OBVIOUS
  <2>2. IsFiniteSet(S \ {m}) /\ Cardinality(S \ {m}) = n - 1
    BY FS_RemoveElement
  <2>3. Rank(S, m) <= n - 1
    BY <2>1, <2>2, FS_Subset DEF Rank
  <2>4. Rank(S, m) \in Nat
    BY <1>2
  <2> HIDE DEF n
  <2> QED
    BY <1>1, <2>3, <2>4
<1>4. ASSUME NEW m \in S, NEW j \in S, m < j PROVE Rank(S, m) < Rank(S, j)
  <2> DEFINE below == {k \in S : k < m}
             belowJ == {k \in S : k < j}
  <2>0. m \in Nat /\ j \in Nat /\ \A k \in S : k \in Nat
    OBVIOUS
  <2>1. below \cup {m} \in SUBSET belowJ /\ m \notin below
    <3>1. \A k \in S : k < m => k < j
      BY <1>4, <2>0
    <3>2. ~(m < m)
      BY <2>0
    <3> QED
      BY <1>4, <3>1, <3>2
  <2>2. IsFiniteSet(below) /\ IsFiniteSet(belowJ)
    BY <1>2
  <2>3. Cardinality(below) = Rank(S, m) /\ Cardinality(belowJ) = Rank(S, j)
    BY DEF Rank
  <2> HIDE DEF below, belowJ
  <2>4. Cardinality(below \cup {m}) = Cardinality(below) + 1
    BY <2>1, <2>2, FS_AddElement
  <2>5. Cardinality(below \cup {m}) <= Cardinality(belowJ)
    BY <2>1, <2>2, FS_Subset
  <2>6. Rank(S, m) \in Nat /\ Rank(S, j) \in Nat
    BY <1>2
  <2> QED
    BY <2>3, <2>4, <2>5, <2>6
<1>5. ASSUME NEW m \in S, NEW j \in S, Rank(S, m) = Rank(S, j) PROVE m = j
  <2>1. m \in Nat /\ j \in Nat /\ Rank(S, m) \in Nat
    BY <1>2
  <2>2. ~(m < j) /\ ~(j < m)
    BY <1>4, <1>5, <2>1
  <2> QED
    BY <2>1, <2>2
<1>6. \A i \in T : \E m \in S : Rank(S, m) = i
  <2>1. f \in Injection(S, T)
    BY <1>3, <1>5 DEF Injection, IsInjective
  <2>2. IsFiniteSet(T) /\ Cardinality(T) = n
    <3>1. 0 \in Int /\ n - 1 \in Int
      BY <1>1
    <3> HIDE DEF n
    <3>2. IsFiniteSet(0..(n - 1)) /\ Cardinality(0..(n - 1)) = IF 0 > n - 1 THEN 0 ELSE (n - 1) - 0 + 1
      BY <3>1, FS_Interval
    <3> QED
      BY <1>1, <3>2
  <2> HIDE DEF f
  <2>3. f \in Surjection(S, T)
    <3> HIDE DEF T
    <3> QED
      BY <2>1, <2>2, FS_Injection
  <2> USE DEF f
  <2> QED
    BY <2>3 DEF Surjection
<1> QED
  BY <1>1, <1>3, <1>5, <1>6

\* The list of survivors has each of them.
LEMMA Enumerated ==
  ASSUME count \in Nat
  PROVE  /\ Cardinality(Surviving) \in Nat
         /\ DOMAIN Survivors = 1..Cardinality(Surviving)
         /\ {Survivors[i] : i \in DOMAIN Survivors} = Surviving
<1> DEFINE n == Cardinality(Surviving)
<1>1. Surviving \in SUBSET Nat /\ IsFiniteSet(Surviving)
  <2>1. IsFiniteSet(Points) /\ Surviving \in SUBSET Points /\ Points \subseteq Nat
    BY FS_Interval DEF Points, Surviving
  <2> QED
    BY <2>1, FS_Subset
<1>2. n \in Nat
  BY <1>1, Ranked
<1>3. Survivors = [i \in 1..n |-> CHOOSE m \in Surviving : Rank(Surviving, m) = i - 1]
  BY DEF Survivors, Rank
<1> HIDE DEF n
<1>4. ASSUME NEW i \in 1..n
      PROVE  Survivors[i] \in Surviving /\ Rank(Surviving, Survivors[i]) = i - 1
  <2>1. i - 1 \in 0..(n - 1)
    BY <1>2
  <2>2. \E m \in Surviving : Rank(Surviving, m) = i - 1
    BY <1>1, <2>1, Ranked DEF n
  <2>3. Survivors[i] = CHOOSE m \in Surviving : Rank(Surviving, m) = i - 1
    BY <1>3
  <2> QED
    BY <2>2, <2>3
<1>5. ASSUME NEW m \in Surviving PROVE \E i \in 1..n : Survivors[i] = m
  <2>1. Rank(Surviving, m) \in 0..(n - 1)
    BY <1>1, Ranked DEF n
  <2>2. PICK i \in 1..n : i = Rank(Surviving, m) + 1
    BY <1>2, <2>1
  <2>3. Rank(Surviving, Survivors[i]) = Rank(Surviving, m) /\ Survivors[i] \in Surviving
    BY <1>4, <2>1, <2>2
  <2>4. Survivors[i] = m
    <3>1. \A k, j \in Surviving : Rank(Surviving, k) = Rank(Surviving, j) => k = j
      BY <1>1, Ranked
    <3> QED
      BY <2>3, <3>1
  <2> QED
    BY <2>4
<1>6. DOMAIN Survivors = 1..n
  BY <1>3
<1> QED
  BY <1>2, <1>4, <1>5, <1>6 DEF n

\* With -json a report is one item, on stdout and behind all others.
LEMMA LastReport ==
  ASSUME WriteInv, NEW e, e.kind \in {"array", "summary"}, Emit("stdout", <<e>>),
         NEW new, new = Len(meant) + 1, cfg.json, Reports = {}, Machine,
         UNCHANGED <<cfg, count>>, e.kind \in MachineKinds,
         pc' \notin {"diff", "list"}
  PROVE  /\ At(e.kind)' = {new} /\ meant'[new].item = e
         /\ \A kind \in {"array", "summary", "counters", "survivor", "result"} \ {e.kind} :
              At(kind)' = At(kind) /\ \A i \in At(kind) : meant'[i] = meant[i]
         /\ Machine' /\ OnStdout \subseteq OnStdout'
<1>1. Added("stdout", <<e>>)
  BY FewItems, EmitAdds
<1>2. Len(<<e>>) = 1 /\ <<e>>[1] = e /\ Len(meant) \in Nat
  BY <1>1 DEF Added
<1>3. /\ At(e.kind)' = At(e.kind) \cup {new}
      /\ meant'[new] = [to |-> "stdout", item |-> e]
  <2>1. PICK items : items = <<e>>
    OBVIOUS
  <2>2. /\ Added("stdout", items) /\ Len(items) >= 1 /\ items[1].kind = e.kind
        /\ items[1] = e /\ \A j \in 2..Len(items) : items[j].kind # e.kind
    BY <1>1, <1>2, <2>1
  <2>3. /\ At(e.kind)' = At(e.kind) \cup {Len(meant) + 1}
        /\ meant'[Len(meant) + 1] = [to |-> "stdout", item |-> items[1]]
    BY <2>2, AddedFirst
  <2> QED
    BY <2>2, <2>3
<1>4. ASSUME NEW kind \in {"array", "summary", "counters", "survivor", "result"} \ {e.kind}
      PROVE  At(kind)' = At(kind) /\ \A i \in At(kind) : meant'[i] = meant[i]
  <2>1. \A j \in 1..Len(<<e>>) : <<e>>[j].kind # kind
    BY <1>2, <1>4
  <2> QED
    BY <1>1, <2>1, AddedElsewhere
<1>5. At("array") = {} /\ At("summary") = {} /\ At("counters") = {} /\ At("survivor") = {}
  BY DEF Reports
<1>6. At(e.kind)' = {new} /\ Reports' = {new}
  BY <1>3, <1>4, <1>5 DEF Reports
<1>7. OnStdout' = OnStdout \cup {new} /\ OnStdout \subseteq 1..Len(meant)
      /\ \A i \in OnStdout : meant'[i] = meant[i]
  <2>1. (Len(meant) + 1)..(Len(meant) + Len(<<e>>)) = {new}
    BY <1>2
  <2> QED
    BY <1>1, <2>1, AddedOnStdout
<1>8. Machine'
  <2>1. \A i \in OnStdout' : meant'[i].item.kind \in MachineKinds'
    BY <1>3, <1>7 DEF Machine, MachineKinds
  <2>2. \A j \in OnStdout' : j <= new
    BY <1>2, <1>7
  <2> QED
    BY <1>6, <1>7, <2>1, <2>2 DEF Machine
<1> QED
  BY <1>3, <1>4, <1>6, <1>7, <1>8

\* A dry run's array.
LEMMA ArrayKeeps ==
  ASSUME WriteInv, StoryInv, cfg.json, cfg.dryRun, pc = "list", pc' = "end",
         Emit("stdout", DryRunJSON), UNCHANGED result
  PROVE  StoryInv'
<1> DEFINE e == [kind |-> "array", points |-> count]
<1>1. e.kind = "array" /\ Emit("stdout", <<e>>) /\ UNCHANGED <<cfg, count>>
  BY DEF DryRunJSON, Emit
<1>2. Reports = {} /\ Machine /\ "array" \in MachineKinds
  BY DEF StoryInv, Reported, MachineKinds
<1> HIDE DEF e
<1>3. PICK new : new = Len(meant) + 1
  OBVIOUS
<1>4. /\ \A kind \in {"summary", "counters", "survivor", "result"} :
           At(kind)' = At(kind) /\ \A i \in At(kind) : meant'[i] = meant[i]
      /\ Machine' /\ OnStdout \subseteq OnStdout'
  <2>1. pc' \notin {"diff", "list"}
    OBVIOUS
  <2> QED
    BY <1>1, <1>2, <1>3, <2>1, LastReport
<1>5. At("summary")' = {} /\ At("counters")' = {}
  BY <1>2, <1>4 DEF Reports
<1>6. UNCHANGED <<Points, Untested, Tested, Counters, Surviving>> /\ \A m : Line(m)' = Line(m)
  BY <1>1, SameResults
<1>7. Campaigned'
  BY <1>1, <1>6 DEF StoryInv, Campaigned
<1>8. Streamed'
  BY <1>1, <1>4, <1>6 DEF StoryInv, Streamed, Streams
<1>9. Reported'
  BY <1>5 DEF Reported
<1> QED
  BY <1>4, <1>7, <1>8, <1>9 DEF StoryInv

\* The summary, with the results in it unless they have been streamed.
LEMMA SummaryKeeps ==
  ASSUME WriteInv, StoryInv, cfg.json, ~cfg.dryRun, Tested = Points,
         pc \in {"list", "campaign", "rest"}, pc' \in {"summary", "end"},
         pc' = "summary" => count > 0,
         NEW full, full \/ At("result") # {},
         Emit("stdout", WriteJSONSummary(full)), UNCHANGED result
  PROVE  StoryInv'
<1> DEFINE e == [kind |-> "summary", counters |-> Counters,
                 results |-> IF full THEN [m \in Points |-> ToJSONResult(result[m])] ELSE <<>>]
<1>1. /\ e.kind = "summary" /\ Emit("stdout", <<e>>) /\ UNCHANGED <<cfg, count>>
      /\ e.counters = Counters
      /\ full => e.results = [m \in Points |-> ToJSONResult(result[m])]
  BY DEF WriteJSONSummary, Emit
<1>2. Reports = {} /\ Machine /\ "summary" \in MachineKinds
  BY DEF StoryInv, Reported, MachineKinds
<1> HIDE DEF e
<1>3. PICK new : new = Len(meant) + 1
  OBVIOUS
<1>4. /\ At("summary")' = {new} /\ meant'[new].item = e
      /\ \A kind \in {"array", "counters", "survivor", "result"} :
           At(kind)' = At(kind) /\ \A i \in At(kind) : meant'[i] = meant[i]
      /\ Machine' /\ OnStdout \subseteq OnStdout'
  <2>1. pc' \notin {"diff", "list"}
    OBVIOUS
  <2> QED
    BY <1>1, <1>2, <1>3, <2>1, LastReport
<1>5. At("counters")' = {} /\ pc' \notin {"diff", "list", "campaign", "rest"}
  BY <1>2, <1>4 DEF Reports
<1>6. /\ UNCHANGED <<Points, Untested, Tested, Counters, Surviving>>
      /\ \A m : Line(m)' = Line(m)
      /\ [m \in Points |-> ToJSONResult(result[m])]' = [m \in Points |-> ToJSONResult(result[m])]
  BY <1>1, SameResults
<1>7. Campaigned'
  BY <1>1, <1>6 DEF StoryInv, Campaigned
<1>8. Streamed'
  BY <1>1, <1>4, <1>6 DEF StoryInv, Streamed, Streams
<1>9. Reported'
  <2>1. At("result")' = {} => full
    BY <1>4
  <2>2. (At("result") = {} => \A i \in At("summary") :
          meant[i].item.results = [m \in Points |-> ToJSONResult(result[m])])'
    BY <1>1, <1>4, <1>6, <2>1
  <2>3. (\A i \in At("summary") \cup At("counters") : meant[i].item.counters = Counters)'
    BY <1>1, <1>4, <1>5, <1>6
  <2>4. Tested' = Points'
    BY <1>6
  <2> QED
    BY <1>5, <2>2, <2>3, <2>4 DEF Reported
<1> QED
  BY <1>4, <1>7, <1>8, <1>9 DEF StoryInv

\* The report in text: the counters, and behind them each survivor.
LEMMA TextKeeps ==
  ASSUME WriteInv, StoryInv, ~cfg.json, Tested = Points, count \in Nat,
         pc \in {"campaign", "rest"}, pc' = "summary",
         Emit("stdout", PrintReport), UNCHANGED result
  PROVE  StoryInv'
<1> DEFINE e == [kind |-> "counters", counters |-> Counters]
           more == [i \in DOMAIN Survivors |-> [kind |-> "survivor", id |-> Survivors[i]]]
           items == <<e>> \o more
<1>1. Emit("stdout", items)
  BY DEF PrintReport
<1>2. e.kind = "counters" /\ e.counters = Counters
  OBVIOUS
<1>3. /\ Cardinality(Surviving) \in Nat /\ DOMAIN more = 1..Cardinality(Surviving)
      /\ {Survivors[i] : i \in DOMAIN Survivors} = Surviving
      /\ DOMAIN Survivors = DOMAIN more
      /\ \A i \in DOMAIN more : more[i].kind = "survivor" /\ more[i].id = Survivors[i]
      /\ more = [i \in DOMAIN more |-> more[i]]
  BY Enumerated
<1> HIDE DEF e, more, items
<1>4. Sequence(more) /\ Len(more) = Cardinality(Surviving)
  BY <1>3, FunctionIsSequence
<1>5. /\ Sequence(items) /\ Len(items) = 1 + Len(more) /\ Len(more) \in Nat
      /\ items[1] = e
      /\ \A j \in 1..Len(more) : items[1 + j] = more[j]
  <2>1. Sequence(<<e>>) /\ Len(<<e>>) = 1 /\ <<e>>[1] = e
    BY FewItems
  <2> QED
    BY <1>4, <2>1, Concatenated DEF items
<1>6. Added("stdout", items) /\ UNCHANGED <<cfg, count>>
  BY <1>1, <1>5, EmitAdds
<1>7. \A j \in 2..Len(items) : j - 1 \in DOMAIN more /\ items[j] = more[j - 1]
  <2> TAKE j \in 2..Len(items)
  <2>1. j - 1 \in 1..Len(more) /\ j = 1 + (j - 1)
    BY <1>5
  <2> QED
    BY <1>3, <1>4, <1>5, <2>1
<1>8. \A j \in 2..Len(items) : items[j].kind = "survivor"
  BY <1>3, <1>7
<1>9. Reports = {}
  BY DEF StoryInv, Reported
<1>10. PICK new : new = Len(meant) + 1
  OBVIOUS
<1>11. At("counters")' = {new} /\ meant'[new].item = e
  <2>1. \A j \in 2..Len(items) : items[j].kind # "counters"
    BY <1>8
  <2>2. Len(items) >= 1 /\ items[1].kind = "counters"
    BY <1>2, <1>5
  <2>3. /\ At("counters")' = At("counters") \cup {Len(meant) + 1}
        /\ meant'[Len(meant) + 1] = [to |-> "stdout", item |-> items[1]]
    BY <1>6, <2>1, <2>2, AddedFirst
  <2> QED
    BY <1>5, <1>9, <1>10, <2>3 DEF Reports
<1>12. ASSUME NEW kind \in {"array", "summary", "result"}
       PROVE  At(kind)' = At(kind) /\ \A i \in At(kind) : meant'[i] = meant[i]
  <2>1. \A j \in 1..Len(items) : j = 1 \/ j \in 2..Len(items)
    BY <1>5
  <2>2. \A j \in 1..Len(items) : items[j].kind # kind
    BY <1>2, <1>5, <1>8, <2>1
  <2> QED
    BY <1>6, <2>2, AddedElsewhere
<1>13. {meant'[i].item.id : i \in At("survivor")'} = Surviving
  <2>1. {j \in 1..Len(items) : items[j].kind = "survivor"} = {1 + j : j \in DOMAIN more}
    <3>1. \A j \in DOMAIN more : 1 + j \in 2..Len(items)
      BY <1>3, <1>4, <1>5
    <3>2. \A j \in 1..Len(items) : j = 1 \/ (j \in 2..Len(items) /\ j = 1 + (j - 1))
      BY <1>5
    <3> QED
      BY <1>2, <1>5, <1>7, <1>8, <3>1, <3>2
  <2>2. At("survivor")' = {Len(meant) + i : i \in {1 + j : j \in DOMAIN more}}
    <3>1. At("survivor") = {}
      BY <1>9 DEF Reports
    <3>2. At("survivor")' = At("survivor") \cup
            {Len(meant) + i : i \in {j \in 1..Len(items) : items[j].kind = "survivor"}}
      BY <1>6, AddedAt
    <3> QED
      BY <2>1, <3>1, <3>2
  <2>3. \A j \in DOMAIN more : meant'[Len(meant) + (1 + j)].item.id = Survivors[j]
    <3> TAKE j \in DOMAIN more
    <3>1. 1 + j \in 1..Len(items) /\ items[1 + j] = more[j]
      BY <1>3, <1>4, <1>5
    <3>2. meant'[Len(meant) + (1 + j)] = [to |-> "stdout", item |-> items[1 + j]]
      BY <1>6, <3>1 DEF Added
    <3> QED
      BY <1>3, <3>1, <3>2
  <2> QED
    BY <1>3, <2>2, <2>3
<1>14. /\ UNCHANGED <<Points, Untested, Tested, Counters, Surviving>>
       /\ \A m : Line(m)' = Line(m)
  BY <1>6, SameResults
<1>15. Campaigned'
  BY <1>6, <1>14 DEF StoryInv, Campaigned
<1>16. Streamed'
  BY <1>6, <1>12, <1>14, AddedOnStdout DEF StoryInv, Streamed, Streams
<1>17. Reported'
  <2>1. At("summary")' = {}
    BY <1>9, <1>12 DEF Reports
  <2>2. (\A i \in At("summary") \cup At("counters") : meant[i].item.counters = Counters)'
    BY <1>2, <1>11, <1>14, <2>1
  <2>3. Streams' /\ pc' \notin {"diff", "list", "campaign", "rest"}
    BY <1>6 DEF Streams
  <2>4. ({meant[i].item.id : i \in At("survivor")} = Surviving)'
    BY <1>13, <1>14
  <2>5. Tested' = Points'
    BY <1>14
  <2> QED
    BY <2>1, <2>2, <2>3, <2>4, <2>5 DEF Reported
<1>18. Machine'
  BY <1>6 DEF Machine
<1> QED
  BY <1>15, <1>16, <1>17, <1>18 DEF StoryInv

\* The points of a dry run in text.
LEMMA DryRunChatter ==
  ASSUME count \in Nat
  PROVE  /\ Sequence(DryRunText)
         /\ \A j \in 1..Len(DryRunText) : DryRunText[j].kind \in {"info", "point"}
<1> DEFINE s == [k \in Points |-> [kind |-> "point", id |-> k]]
           note == Note("discovered")
<1>1. note.kind = "info" /\ \A k \in 1..count : s[k].kind = "point"
  BY DEF Note, Points
<1>2. Sequence(s) /\ Len(s) = count
  <2>1. DOMAIN s = 1..count /\ s = [k \in 1..count |-> s[k]]
    BY DEF Points
  <2> HIDE DEF s
  <2> QED
    BY <2>1, FunctionIsSequence
<1>3. DryRunText = <<note>> \o s
  BY DEF DryRunText
<1> HIDE DEF s, note
<1>4. Sequence(<<note>>) /\ Len(<<note>>) = 1 /\ <<note>>[1] = note
  BY FewItems
<1>5. /\ Len(DryRunText) = 1 + count /\ DryRunText[1] = note
      /\ \A j \in 1..count : DryRunText[1 + j] = s[j]
  BY <1>2, <1>3, <1>4, Concatenated
<1>6. ASSUME NEW j \in 1..Len(DryRunText) PROVE DryRunText[j].kind \in {"info", "point"}
  <2>1. j = 1 \/ (j - 1 \in 1..count /\ j = 1 + (j - 1))
    BY <1>5
  <2> QED
    BY <1>1, <1>5, <2>1
<1> QED
  BY <1>6, ReportsAreSequences

\* One note, and two.
LEMMA NotesKeep ==
  ASSUME WriteInv, StoryInv, NEW dest, NEW what, NEW more,
         \/ Emit(dest, <<Note(what)>>)
         \/ Emit(dest, <<Note(what), Note(more)>>),
         UNCHANGED result, Onward, cfg.json => dest # "stdout"
  PROVE  StoryInv'
<1>1. Note(what).kind = "info" /\ Note(more).kind = "info"
  BY DEF Note
<1>2. CASE Emit(dest, <<Note(what)>>)
  <2>1. PICK items : items = <<Note(what)>>
    OBVIOUS
  <2>2. Added(dest, items) /\ UNCHANGED <<cfg, count>>
    BY <1>2, <2>1, FewItems, EmitAdds
  <2>3. \A j \in 1..Len(items) : items[j].kind \in {"info", "point"}
    BY <1>1, <2>1
  <2> QED
    BY <2>2, <2>3, ChatterKeeps
<1>3. CASE Emit(dest, <<Note(what), Note(more)>>)
  <2>1. PICK items : items = <<Note(what), Note(more)>>
    OBVIOUS
  <2>2. Added(dest, items) /\ UNCHANGED <<cfg, count>>
    BY <1>3, <2>1, FewItems, EmitAdds
  <2>3. \A j \in 1..Len(items) : items[j].kind \in {"info", "point"}
    BY <1>1, <2>1
  <2> QED
    BY <2>2, <2>3, ChatterKeeps
<1> QED
  BY <1>2, <1>3

\* A step that says nothing.
LEMMA SilenceTells ==
  ASSUME WriteInv, StoryInv, UNCHANGED <<cfg, count, meant, result>>, Onward
  PROVE  StoryInv'
<1>1. \A j \in 1..Len(<<>>) : <<>>[j].kind \in {"info", "point"}
  OBVIOUS
<1> QED
  BY <1>1, NothingAdded, ChatterKeeps

\* Each statement of run tells its part.
LEMMA StatementTells ==
  ASSUME WriteInv, StoryInv, Statement
  PROVE  StoryInv'
<1>0. count \in Nat /\ (cfg.json => Info # "stdout")
  BY DEF WriteInv, Info
<1>1. CASE Diff
  <2>1. Onward /\ UNCHANGED result
    BY <1>1 DEF Diff, Goto, Unchanged, Onward
  <2>2. CASE cfg.diff
    BY <1>0, <1>1, <2>1, <2>2, NotesKeep DEF Diff
  <2>3. CASE ~cfg.diff
    BY <1>1, <2>1, <2>3, SilenceTells DEF Diff, Nothing, reportVars
  <2> QED
    BY <2>2, <2>3
<1>2. CASE DryRun
  <2>1. pc = "list" /\ pc' = "end" /\ UNCHANGED result /\ cfg.dryRun /\ Onward
    BY <1>2 DEF DryRun, Goto, Unchanged, Onward
  <2>2. CASE cfg.json
    BY <1>2, <2>1, <2>2, ArrayKeeps DEF DryRun
  <2>3. CASE ~cfg.json /\ count = 0
    BY <1>2, <2>1, <2>3, NotesKeep DEF DryRun
  <2>4. CASE ~cfg.json /\ count # 0
    <3>1. Emit("stdout", DryRunText)
      BY <1>2, <2>4 DEF DryRun
    <3>2. Added("stdout", DryRunText) /\ UNCHANGED <<cfg, count>>
      BY <1>0, <3>1, DryRunChatter, EmitAdds
    <3> QED
      BY <1>0, <2>1, <2>4, <3>2, DryRunChatter, ChatterKeeps
  <2> QED
    BY <2>2, <2>3, <2>4
<1>3. CASE NoMutationPoints
  <2>1. pc = "list" /\ pc' = "end" /\ UNCHANGED result /\ ~cfg.dryRun /\ count = 0 /\ Onward
    BY <1>3 DEF NoMutationPoints, Goto, Unchanged, Onward
  <2>2. CASE cfg.json
    <3>1. Tested = Points
      BY <2>1 DEF Tested, Untested, Points
    <3>2. Emit("stdout", WriteJSONSummary(TRUE))
      BY <1>3, <2>2 DEF NoMutationPoints
    <3> QED
      BY <2>1, <2>2, <3>1, <3>2, SummaryKeeps
  <2>3. CASE ~cfg.json
    BY <1>3, <2>1, <2>3, NotesKeep DEF NoMutationPoints
  <2> QED
    BY <2>2, <2>3
<1>4. CASE Phases
  <2>1. Onward /\ UNCHANGED result /\ Emit(Info, <<Note("discovered"), Note("testing")>>)
    BY <1>4 DEF Phases, Goto, Unchanged, Onward
  <2> QED
    BY <1>0, <2>1, NotesKeep
<1>5. CASE PhaseFails
  <2>1. Onward /\ UNCHANGED result /\ Emit(Info, <<Note("discovered")>>)
    BY <1>5 DEF PhaseFails, Goto, Unchanged, Onward
  <2> QED
    BY <1>0, <2>1, NotesKeep
<1>6. CASE Summary
  <2>1. /\ pc \in {"campaign", "rest"} /\ pc' = "summary" /\ UNCHANGED result
        /\ Untested = {} /\ Tested = Points
    BY <1>6 DEF Summary, Unchanged, Tested
  <2>2. count > 0 /\ ~cfg.dryRun
    BY <2>1 DEF StoryInv, Campaigned
  <2>3. CASE cfg.json
    <3>1. Emit("stdout", WriteJSONSummary(~cfg.verbose))
      BY <1>6, <2>3 DEF Summary
    <3>2. ASSUME cfg.verbose PROVE At("result") # {}
      <4>1. 1 \in Tested
        BY <1>0, <2>1, <2>2 DEF Points
      <4> QED
        BY <3>2, <4>1 DEF StoryInv, Streamed, Streams
    <3>3. PICK full : full = ~cfg.verbose
      OBVIOUS
    <3> QED
      BY <2>1, <2>2, <2>3, <3>1, <3>2, <3>3, SummaryKeeps
  <2>4. CASE ~cfg.json
    <3>1. Emit("stdout", PrintReport)
      BY <1>6, <2>4 DEF Summary
    <3> QED
      BY <1>0, <2>1, <2>4, <3>1, TextKeeps
  <2> QED
    BY <2>3, <2>4
<1>7. CASE Interrupted
  <2>1. Onward /\ UNCHANGED result
    BY <1>7 DEF Interrupted, Goto, Unchanged, Onward
  <2>2. CASE ctx
    BY <1>0, <1>7, <2>1, <2>2, NotesKeep DEF Interrupted
  <2>3. CASE ~ctx
    BY <1>7, <2>1, <2>3, SilenceTells DEF Interrupted, Nothing, reportVars
  <2> QED
    BY <2>2, <2>3
<1> QED
  BY <1>1, <1>2, <1>3, <1>4, <1>5, <1>6, <1>7 DEF Statement

\* The next mutant that was never launched is one.
LEMMA LeastUntested ==
  ASSUME count \in Nat, Untested # {}
  PROVE  Min(Untested) \in Untested
<1> DEFINE R == OpToRel(<, Nat)
<1>1. Untested \subseteq Nat
  BY DEF Untested, Points
<1>2. \A x, y \in Nat : x < y => <<x, y>> \in R
  BY DEF OpToRel
<1>3. IsWellFoundedOn(R, Nat)
  BY NatLessThanWellFounded
<1> HIDE DEF R
<1>4. PICK x \in Untested : \A y \in Untested : <<y, x>> \notin R
  BY <1>1, <1>3, WFMin
<1>5. ASSUME NEW y \in Untested PROVE x <= y
  <2>1. x \in Nat /\ y \in Nat /\ ~(y < x)
    BY <1>1, <1>2, <1>4
  <2> QED
    BY <2>1
<1> QED
  BY <1>5 DEF Min

-----------------------------------------------------------------------------
(***************************************************************************)
(* The inductive invariant.                                                *)
(***************************************************************************)
\* Nothing is written and no test runs at first.
LEMMA ReportInit == Init => ReportInductive
<1> SUFFICES ASSUME Init PROVE ReportInductive
  OBVIOUS
<1>1. count \in Nat /\ Points \subseteq Nat
  BY ReportAssumption DEF Init, Points
<1>2. Sequence(<<>>) /\ Len(<<>>) = 0
  BY FewItems
<1>3. Queued /\ Delivered /\ Concluded
  BY <1>2 DEF Init, Queued, Delivered, Concluded
<1>4. /\ At("array") = {} /\ At("summary") = {} /\ At("counters") = {} /\ At("survivor") = {}
      /\ At("result") = {} /\ OnStdout = {} /\ pc = "diff"
  BY <1>2 DEF At, OnStdout, Init
<1>5. Reports = {}
  BY <1>4 DEF Reports
<1>6. Tested = {} /\ result \in [Points -> Outcomes \cup {None}]
  BY DEF Init, Tested, Untested
<1>7. Campaigned /\ Streamed /\ Reported /\ Machine
  BY <1>4, <1>5, <1>6 DEF Campaigned, Streamed, Reported, Machine
<1> QED
  BY <1>1, <1>3, <1>7, KeptNothing DEF Init, ReportInductive

\* Every step keeps the writes in order, the reports true and the buffer that of the
\* bytes written.
LEMMA ReportStep == ReportInductive /\ [Next]_vars => ReportInductive'
<1> SUFFICES ASSUME ReportInductive, [Next]_vars PROVE ReportInductive'
  OBVIOUS
<1>0. WriteInv /\ StoryInv /\ written \in Nat /\ tail = Kept(written)
  BY DEF ReportInductive, WriteInv, StoryInv
<1> DEFINE TailInv == written \in Nat /\ tail = Kept(written)
<1>1. ASSUME WriteInv', StoryInv', TailInv' PROVE ReportInductive'
  BY <1>1 DEF ReportInductive, WriteInv, StoryInv
<1>2. ASSUME UNCHANGED <<tail, written>> PROVE TailInv'
  BY <1>0, <1>2 DEF Kept, Size, Overflows
<1>3. ASSUME written' = 0, tail' = Empty PROVE TailInv'
  BY <1>3, KeptNothing DEF Kept, Size, Overflows
<1>4. ASSUME UNCHANGED <<cfg, count, meant, result>>, Onward PROVE StoryInv'
  BY <1>0, <1>4, SilenceTells
<1>5. CASE Statement
  <2>1. UNCHANGED <<tail, written>>
    BY <1>5 DEF Statement, Diff, DryRun, NoMutationPoints, Phases, PhaseFails, Summary,
                Interrupted, Unchanged
  <2> HIDE DEF TailInv
  <2> QED
    BY <1>0, <1>1, <1>2, <1>5, <2>1, StatementKeeps, StatementTells
<1>6. CASE Interrupt
  <2>1. WriteInv' /\ UNCHANGED <<tail, written, cfg, count, meant, result>> /\ Onward
    BY <1>0, <1>6, SilentKeeps DEF Interrupt, reportVars, Onward
  <2> HIDE DEF TailInv
  <2> QED
    BY <1>1, <1>2, <1>4, <2>1
<1>7. ASSUME NEW n \in 0..MaxBytes, TestWrites(n) PROVE ReportInductive'
  <2>1. n \in Nat
    BY ReportAssumption
  <2>2. TailInv'
    <3>1. written' \in Nat /\ tail' = Kept(written')
      BY <1>0, <1>7, <2>1, TailWriteKeeps DEF TestWrites
    <3> QED
      BY <3>1 DEF Kept, Size, Overflows
  <2>3. WriteInv' /\ UNCHANGED <<cfg, count, meant, result>> /\ Onward
    BY <1>0, <1>7, SilentKeeps DEF TestWrites, reportVars, Onward
  <2> HIDE DEF TailInv
  <2> QED
    BY <1>1, <1>4, <2>2, <2>3
<1>8. ASSUME NEW m \in Untested, NEW r \in Outcomes, TestEnds(m, r) PROVE ReportInductive'
  <2>1. /\ pc = "campaign" /\ pc' = "campaign" /\ Progress(m, r, Captured(tail))
        /\ result' = [result EXCEPT ![m] = r] /\ tail' = Empty /\ written' = 0
    BY <1>8 DEF TestEnds, Goto
  <2> HIDE DEF TailInv
  <2> QED
    BY <1>0, <1>1, <1>3, <2>1, ProgressKeeps, LineKeeps
<1>9. CASE NeverLaunched
  <2>1. PICK m : m = Min(Untested)
    OBVIOUS
  <2>2. /\ pc \in {"campaign", "rest"} /\ pc' = "rest" /\ Untested # {}
        /\ result' = [result EXCEPT ![m] = Canceled] /\ Progress(m, Canceled, <<>>)
        /\ UNCHANGED <<tail, written>>
    BY <1>9, <2>1 DEF NeverLaunched
  <2>3. m \in Untested
    BY <1>0, <2>1, <2>2, LeastUntested DEF WriteInv
  <2>4. Canceled \in Outcomes
    BY DEF Outcomes
  <2> HIDE DEF TailInv
  <2> QED
    BY <1>0, <1>1, <1>2, <2>2, <2>3, <2>4, ProgressKeeps, LineKeeps
<1>10. CASE CheckedWrite
  <2>1. UNCHANGED <<tail, written, cfg, count, meant, result>> /\ Onward
    BY <1>10 DEF CheckedWrite, Onward
  <2> HIDE DEF TailInv
  <2> QED
    BY <1>0, <1>1, <1>2, <1>4, <1>10, <2>1, CheckedWriteKeeps
<1>11. CASE End
  <2>1. WriteInv'
    BY <1>0, <1>11 DEF End, Unchanged, WriteInv, Queued, Delivered, Concluded
  <2>2. UNCHANGED <<tail, written, cfg, count, meant, result>> /\ Onward
    BY <1>11 DEF End, Unchanged, Goto, Onward
  <2> HIDE DEF TailInv
  <2> QED
    BY <1>1, <1>2, <1>4, <2>1, <2>2
<1>12. CASE Done \/ UNCHANGED vars
  <2>1. UNCHANGED vars
    BY <1>12 DEF Done
  <2>2. WriteInv' /\ UNCHANGED <<tail, written, cfg, count, meant, result>> /\ Onward
    BY <1>0, <2>1, SilentKeeps DEF vars, reportVars, Onward
  <2> HIDE DEF TailInv
  <2> QED
    BY <1>1, <1>2, <1>4, <2>2
<1> QED
  BY <1>5, <1>6, <1>7, <1>8, <1>9, <1>10, <1>11, <1>12 DEF Next, Statement

-----------------------------------------------------------------------------
(***************************************************************************)
(* What has arrived in the end.                                            *)
(***************************************************************************)
\* What has arrived is the beginning of what was meant, with nothing missing once run
\* has ended without an error.
LEMMA ArrivedIsMeant ==
  ASSUME ReportInductive
  PROVE  /\ DOMAIN got \subseteq 1..Len(meant)
         /\ \A i \in DOMAIN got : /\ got[i].to = meant[i].to /\ got[i].item = meant[i].item
                                  /\ i < Len(got) => got[i] = meant[i]
         /\ pc = "done" /\ ~err => got = meant /\ DOMAIN got = 1..Len(meant)
<1>0. Queued /\ Delivered /\ Concluded /\ failed \in BOOLEAN
  BY DEF ReportInductive
<1>1. DOMAIN got = 1..Len(got) /\ Len(got) \in Nat /\ Len(meant) \in Nat /\ Len(todo) \in Nat
  BY <1>0, IsSequence DEF Queued, Delivered, Sequence
<1>2. DOMAIN got \subseteq 1..Len(meant)
  BY <1>0, <1>1 DEF Delivered
<1>3. \A i \in DOMAIN got : /\ got[i].to = meant[i].to /\ got[i].item = meant[i].item
                            /\ i < Len(got) => got[i] = meant[i]
  BY <1>0, <1>1 DEF Delivered
<1>4. ASSUME pc = "done", ~err PROVE got = meant /\ DOMAIN got = 1..Len(meant)
  <2>1. ~failed /\ todo = <<>>
    BY <1>0, <1>4 DEF Concluded
  <2>2. Len(got) = Len(meant)
    BY <1>0, <1>1, <2>1 DEF Delivered
  <2>3. \A i \in 1..Len(got) : got[i] = meant[i]
    BY <1>0, <2>1 DEF Delivered
  <2>4. got = meant
    BY <1>0, <2>2, <2>3, SameSequence DEF Queued, Delivered
  <2> QED
    BY <1>1, <2>2, <2>4
<1> QED
  BY <1>2, <1>3, <1>4

\* The survivors are those the counters count as such.
LEMMA CountedSurvived ==
  ASSUME NEW r \in Outcomes
  PROVE  Counted(r) = "Survived" <=> Survives(r)
<1> DEFINE fields == <<"Canceled", "Err", "TimedOut", "Killed">>
           set == {i \in DOMAIN fields : r[fields[i]]}
<1>1. /\ DOMAIN fields = 1..4
      /\ fields[1] = "Canceled" /\ fields[2] = "Err" /\ fields[3] = "TimedOut" /\ fields[4] = "Killed"
  OBVIOUS
<1>2. Counted(r) = IF set = {} THEN "Survived" ELSE fields[Min(set)]
  BY DEF Counted, FirstSet
<1>3. /\ r.Canceled \in BOOLEAN /\ r.Err \in BOOLEAN /\ r.TimedOut \in BOOLEAN /\ r.Killed \in BOOLEAN
      /\ \/ ~r.Canceled /\ ~r.Err /\ ~r.TimedOut /\ ~r.Killed
         \/ r.Canceled /\ ~r.Err /\ ~r.TimedOut /\ ~r.Killed
         \/ ~r.Canceled /\ r.Err /\ ~r.TimedOut /\ ~r.Killed
         \/ ~r.Canceled /\ ~r.Err /\ r.TimedOut /\ ~r.Killed
         \/ ~r.Canceled /\ ~r.Err /\ ~r.TimedOut /\ r.Killed
  <2>1. PICK c \in BOOLEAN, e \in BOOLEAN, t \in BOOLEAN, k \in BOOLEAN :
          /\ r = Flags(c, e, t, k)
          /\ \/ ~c /\ ~e /\ ~t /\ ~k
             \/ c /\ ~e /\ ~t /\ ~k
             \/ ~c /\ e /\ ~t /\ ~k
             \/ ~c /\ ~e /\ t /\ ~k
             \/ ~c /\ ~e /\ ~t /\ k
    BY DEF Outcomes, Canceled
  <2>2. r.Canceled = c /\ r.Err = e /\ r.TimedOut = t /\ r.Killed = k
    BY <2>1 DEF Flags
  <2> QED
    BY <2>1, <2>2
<1>4. \A i : i \in set <=> \/ i = 1 /\ r.Canceled
                           \/ i = 2 /\ r.Err
                           \/ i = 3 /\ r.TimedOut
                           \/ i = 4 /\ r.Killed
  BY <1>1
<1> HIDE DEF fields, set
<1>5. CASE ~r.Canceled /\ ~r.Err /\ ~r.TimedOut /\ ~r.Killed
  BY <1>2, <1>4, <1>5 DEF Survives
<1>6. CASE r.Canceled \/ r.Err \/ r.TimedOut \/ r.Killed
  <2>1. PICK k \in 1..4 : set = {k}
    BY <1>3, <1>4, <1>6
  <2>2. Min(set) = k
    BY <2>1 DEF Min
  <2>3. fields[k] # "Survived"
    BY <1>1
  <2>4. Counted(r) = fields[k]
    BY <1>2, <2>1, <2>2
  <2> QED
    BY <1>6, <2>3, <2>4 DEF Survives
<1> QED
  BY <1>3, <1>5, <1>6

\* A set of mutants has as many as their lines.
LEMMA AsManyLines ==
  ASSUME NEW S, IsFiniteSet(S), NEW T,
         \A m \in S : Line(m) \in T, \A l \in T : \E m \in S : l = Line(m)
  PROVE  Cardinality(T) = Cardinality(S)
<1> DEFINE f == [m \in S |-> Line(m)]
<1>1. f \in [S -> T]
  OBVIOUS
<1>2. \A m, k \in S : f[m] = f[k] => m = k
  BY DEF Line
<1>3. \A l \in T : \E m \in S : f[m] = l
  OBVIOUS
<1>4. f \in Bijection(S, T)
  BY <1>1, <1>2, <1>3 DEF Bijection, Injection, Surjection, IsInjective
<1> QED
  BY <1>4, FS_Bijection DEF ExistsBijection

-----------------------------------------------------------------------------
(***************************************************************************)
(* The theorems.                                                           *)
(***************************************************************************)
\* The inductive invariant: what is still to be written is the end of all that is meant
\* to be, what has arrived is its beginning, with nothing missing unless a write failed;
\* the tail buffer depends on the number of bytes alone; and what is meant tells of the
\* results as they are.
THEOREM ReportInvariant == Spec => []ReportInductive
BY ReportInit, ReportStep, PTL DEF Spec

\* The output a progress line shows is the end of what the test wrote, Limit bytes of it
\* or all, however it was cut into writes, with the marker before it exactly when
\* something is missing.
THEOREM TailIsExact == Spec => []TailExact
<1>1. ReportInductive => TailExact
  BY CapturedEnd DEF ReportInductive, TailExact
<1> QED
  BY <1>1, ReportInvariant, PTL

\* What has arrived is the beginning of what was to be printed, and where anything is
\* missing, run learns of it at the end.
THEOREM GapsAreKnown == Spec => []NoSilentGap
<1>1. ReportInductive => NoSilentGap
  <2>1. ReportInductive /\ pc = "done" => err \in BOOLEAN
    BY DEF ReportInductive, Concluded
  <2> QED
    BY <2>1, ArrivedIsMeant DEF NoSilentGap
<1> QED
  BY <1>1, ReportInvariant, PTL

\* With -json stdout is JSON and nothing else: the array of a dry run, the results and a
\* summary, or a summary alone, which comes last, and with -v there are as many results
\* as mutants.
THEOREM StdoutIsMachineReadable == Spec => []MachineReadable
<1>1. ReportInductive => MachineReadable
  <2> SUFFICES ASSUME ReportInductive, cfg.json PROVE MachineReadable
    BY DEF MachineReadable
  <2>0. Campaigned /\ Streamed /\ Reported /\ Machine /\ count \in Nat
    BY DEF ReportInductive
  <2>1. Stdout \subseteq OnStdout /\ \A i \in Stdout : got[i].item = meant[i].item
    BY ArrivedIsMeant DEF Stdout, OnStdout
  <2>2. \A i \in Stdout : got[i].item.kind \in MachineKinds
    BY <2>0, <2>1 DEF Machine
  <2>3. ASSUME NEW i \in Stdout, NEW j \in Stdout, got[i].item.kind \in {"array", "summary"}
        PROVE  j <= i
    <3>1. i \in Reports
      BY <2>1, <2>3 DEF Reports, At, OnStdout
    <3> QED
      BY <2>0, <2>1, <3>1 DEF Machine
  <2>4. ASSUME pc = "done", ~err, Stdout # {}
        PROVE  /\ \E i \in Stdout : got[i].item.kind \in {"array", "summary"}
               /\ cfg.verbose /\ ~cfg.dryRun =>
                    Cardinality({i \in Stdout : got[i].item.kind = "result"}) = count
    <3>1. Stdout = OnStdout /\ got = meant
      BY <2>4, ArrivedIsMeant DEF Stdout, OnStdout
    <3>2. PICK i \in OnStdout : i \in Reports
      BY <2>0, <2>4, <3>1 DEF Machine
    <3>3. meant[i].item.kind \in {"array", "summary"}
      BY <2>0, <3>2 DEF Machine, MachineKinds, Reports, At
    <3>4. ASSUME cfg.verbose, ~cfg.dryRun
          PROVE  Cardinality({k \in Stdout : got[k].item.kind = "result"}) = count
      <4>1. i \in At("summary")
        BY <2>0, <3>2, <3>4 DEF Machine, MachineKinds, Reports, At
      <4>2. Tested = Points /\ Streams
        BY <2>0, <3>4, <4>1 DEF Reported, Streams
      <4>3. {k \in Stdout : got[k].item.kind = "result"} = At("result")
        BY <2>0, <3>1 DEF Streamed, At, OnStdout
      <4>4. IsFiniteSet(Points) /\ Cardinality(Points) = count
        BY <2>0, FS_Interval DEF Points
      <4> DEFINE T == {meant[k].item : k \in At("result")}
                 f == [k \in At("result") |-> meant[k].item]
      <4>5. Cardinality(T) = Cardinality(Points)
        <5>1. (\A m \in Points : Line(m) \in T) /\ \A l \in T : \E m \in Points : l = Line(m)
          BY <2>0, <4>2 DEF Streamed
        <5> HIDE DEF T
        <5> QED
          BY <4>4, <5>1, AsManyLines
      <4>6. f \in Bijection(At("result"), T)
        <5>1. f \in [At("result") -> T] /\ \A l \in T : \E k \in At("result") : f[k] = l
          OBVIOUS
        <5>2. \A k, j \in At("result") : f[k] = f[j] => k = j
          BY <2>0 DEF Streamed
        <5> QED
          BY <5>1, <5>2 DEF Bijection, Injection, Surjection, IsInjective
      <4>7. IsFiniteSet(At("result"))
        <5>1. Len(meant) \in Nat
          BY IsSequence DEF ReportInductive, Queued, Sequence
        <5>2. IsFiniteSet(1..Len(meant)) /\ At("result") \in SUBSET (1..Len(meant))
          BY <5>1, FS_Interval DEF At
        <5> QED
          BY <5>2, FS_Subset
      <4>8. Cardinality(T) = Cardinality(At("result"))
        <5> HIDE DEF T, f
        <5> QED
          BY <4>6, <4>7, FS_Bijection DEF ExistsBijection
      <4> QED
        BY <4>3, <4>4, <4>5, <4>8
    <3> QED
      BY <3>1, <3>2, <3>3, <3>4
  <2> QED
    BY <2>2, <2>3, <2>4 DEF MachineReadable
<1> QED
  BY <1>1, ReportInvariant, PTL

\* The results that are printed one by one, the counters, and the list of survivors or of
\* results tell the same story.
THEOREM ReportsTellOneStory == Spec => []OneStory
<1>1. ReportInductive => OneStory
  <2> SUFFICES ASSUME ReportInductive, pc = "done", ~err, NEW s \in Statuses
      PROVE  LET told == {r \in Items("result") : r.status = s}
                 streamed == Items("result") # {}
             IN /\ \A t \in Items("counters") \cup Items("summary") :
                     streamed => Cardinality(told) = t.counters[s]
                /\ \A t \in Items("summary") : ~streamed =>
                     t.counters[s] = Cardinality({m \in DOMAIN t.results : t.results[m] = s})
                /\ s = "Survived" /\ Items("counters") # {} =>
                     {i.id : i \in Items("survivor")} = {r.id : r \in told}
    BY DEF OneStory
  <2> DEFINE told == {r \in Items("result") : r.status = s}
             streamed == Items("result") # {}
             counted == {m \in Points : Counted(result[m]) = s}
  <2>0. Campaigned /\ Streamed /\ Reported /\ count \in Nat
    BY DEF ReportInductive
  <2>1. \A kind : Items(kind) = {meant[i].item : i \in At(kind)}
    BY ArrivedIsMeant DEF Items, At
  <2>2. Counters[s] = Cardinality(counted)
    BY DEF Counters
  <2>3. ASSUME Streams, Tested = Points
        PROVE  (\A m \in counted : Line(m) \in told) /\ \A l \in told : \E m \in counted : l = Line(m)
    <3>1. \A m : Line(m).status = Counted(result[m])
      BY DEF Line
    <3>2. \A m \in Points : Line(m) \in Items("result")
      BY <2>0, <2>1, <2>3 DEF Streamed
    <3>3. \A l \in Items("result") : \E m \in Points : l = Line(m)
      BY <2>0, <2>1, <2>3 DEF Streamed
    <3> QED
      BY <3>1, <3>2, <3>3
  <2>4. IsFiniteSet(counted)
    <3>1. IsFiniteSet(Points) /\ counted \in SUBSET Points
      BY <2>0, FS_Interval DEF Points
    <3> QED
      BY <3>1, FS_Subset
  <2>5. streamed => Streams
    BY <2>0, <2>1 DEF Streamed
  <2>6. \A t \in Items("counters") \cup Items("summary") : t.counters = Counters /\ Tested = Points
    BY <2>0, <2>1 DEF Reported
  <2>7. ASSUME NEW t \in Items("counters") \cup Items("summary"), streamed
        PROVE  Cardinality(told) = t.counters[s]
    <3> HIDE DEF told, counted
    <3>1. Cardinality(told) = Cardinality(counted)
      BY <2>3, <2>4, <2>5, <2>6, <2>7, AsManyLines
    <3> QED
      BY <2>2, <2>6, <3>1
  <2>8. ASSUME NEW t \in Items("summary"), ~streamed
        PROVE  t.counters[s] = Cardinality({m \in DOMAIN t.results : t.results[m] = s})
    <3>1. t.results = [m \in Points |-> ToJSONResult(result[m])]
      <4>1. PICK i \in At("summary") : t = meant[i].item
        BY <2>1
      <4>2. At("result") = {}
        BY <2>1, <2>8
      <4> QED
        BY <2>0, <4>1, <4>2 DEF Reported
    <3>2. {m \in DOMAIN t.results : t.results[m] = s} = counted
      BY <3>1, OneStatus
    <3> QED
      BY <2>2, <2>6, <3>2
  <2>9. ASSUME s = "Survived", Items("counters") # {}
        PROVE  {i.id : i \in Items("survivor")} = {r.id : r \in told}
    <3>1. At("counters") # {} /\ Streams /\ Tested = Points
      BY <2>0, <2>1, <2>6, <2>9 DEF Reported
    <3>2. {i.id : i \in Items("survivor")} = Surviving
      BY <2>0, <2>1, <3>1 DEF Reported
    <3>3. \A m \in Points : result[m] \in Outcomes
      BY <2>0, <3>1 DEF Campaigned, Tested, Untested
    <3>4. counted = Surviving
      BY <2>9, <3>3, CountedSurvived DEF Surviving
    <3>5. {r.id : r \in told} = counted
      <4>1. \A m : Line(m).id = m
        BY DEF Line
      <4> HIDE DEF told, counted
      <4> QED
        BY <2>3, <3>1, <4>1
    <3> QED
      BY <3>2, <3>4, <3>5
  <2> HIDE DEF counted
  <2> QED
    BY <2>7, <2>8, <2>9
<1> QED
  BY <1>1, ReportInvariant, PTL
=============================================================================

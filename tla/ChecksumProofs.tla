--------------------------- MODULE ChecksumProofs ---------------------------
(***************************************************************************)
(* Theorems about checksum_many_sequential: for every address space, file  *)
(* and list of jobs a checksum verifies right after it was written, and    *)
(* stays valid under later jobs that leave alone what it takes into        *)
(* account.                                                                *)
(***************************************************************************)
EXTENDS Checksum, ListLemmas

-----------------------------------------------------------------------------
(* Ranges that end where they were asked to *)

\* All that FromStartEnd makes, and with excluded ranges all that is walked.
PlainRange == {r \in RangeType : r.requested = r.end}

LEMMA PlainIsRange ==
  ASSUME NEW list \in Seq(PlainRange)
  PROVE  list \in Seq(RangeType)
<1>1. PlainRange \subseteq RangeType
  BY DEF PlainRange
<1>2. QED
  BY <1>1

LEMMA PlainMade ==
  ASSUME NEW x \in Int, NEW y \in Int, 0 <= x, x <= y, y <= MaxAddr
  PROVE  FromStartEnd(x, y) \in PlainRange
<1>1. FromStartEnd(x, y) \in RangeType
  BY RangeMade
<1>2. FromStartEnd(x, y).requested = FromStartEnd(x, y).end
  BY DEF FromStartEnd
<1>3. QED
  BY <1>1, <1>2 DEF PlainRange

LEMMA PlainPush ==
  ASSUME NEW made \in Seq(PlainRange), NEW cond \in BOOLEAN, NEW x \in Int, NEW y \in Int,
         cond => 0 <= x /\ x <= y /\ y <= MaxAddr
  PROVE  PushIf(made, cond, FromStartEnd(x, y)) \in Seq(PlainRange)
<1>1. CASE cond
  <2>1. FromStartEnd(x, y) \in PlainRange
    BY <1>1, PlainMade
  <2>2. Append(made, FromStartEnd(x, y)) \in Seq(PlainRange)
    BY <2>1, AppendProperties
  <2>3. QED
    BY <1>1, <2>2 DEF PushIf
<1>2. CASE ~cond
  BY <1>2 DEF PushIf
<1>3. QED
  BY <1>1, <1>2

\* subtract_ranges makes its ranges itself.
LEMMA PlainSubtract ==
  ASSUME NEW r \in RangeType, NEW ex \in Seq(RangeType)
  PROVE  SubtractRanges(r, ex) \in Seq(PlainRange)
<1>1. PICK last, acc : last = Subtracted(r, ex) /\ IsSubtractRun(acc, r, ex, last)
  BY SubtractRun
<1> DEFINE N == Len(ex)
           T == {k \in 0..N : acc[k].out \in Seq(PlainRange)}
<1>2. N \in Nat /\ r.start \in Int /\ r.end \in Int /\ r.end <= MaxAddr
  BY LenProperties, RangeFacts
<1>3. 0 \in T
  <2>1. acc[0].out = <<>>
    BY <1>1 DEF IsSubtractRun
  <2>2. <<>> \in Seq(PlainRange) /\ 0 \in 0..N
    BY <1>2, EmptySeq
  <2>3. QED
    BY <2>1, <2>2
<1>4. ASSUME NEW k \in 0..(N - 1), k \in T
      PROVE  k + 1 \in T
  <2>1. k + 1 \in 1..N /\ k \in 0..N /\ (k + 1) - 1 = k
    BY <1>2
  <2>2. PICK prev, x : /\ prev = acc[k] /\ x = ex[k + 1] /\ x \in RangeType
                       /\ prev \in SubType /\ prev.out \in Seq(PlainRange)
                       /\ acc[k + 1] = SubtractStep(prev, x, r)
    BY <1>1, <1>4, <2>1, ElementOfSeq DEF IsSubtractRun
  <2>3. /\ prev.cursor \in Int /\ 0 <= prev.cursor
        /\ x.start \in Int /\ x.start - 1 <= MaxAddr
    BY <2>2, RangeFacts, MaxAddrAssumption DEF SubType
  <2>4. PushIf(prev.out, prev.cursor < x.start, FromStartEnd(prev.cursor, x.start - 1))
          \in Seq(PlainRange)
    <3>1. /\ (prev.cursor < x.start) \in BOOLEAN /\ x.start - 1 \in Int
          /\ prev.cursor < x.start => prev.cursor <= x.start - 1
      BY <2>3
    <3>2. QED
      BY <2>2, <2>3, <3>1, PlainPush
  <2>5. acc[k + 1].out \in Seq(PlainRange)
    BY <2>2, <2>4 DEF SubtractStep
  <2>6. QED
    BY <2>1, <2>5
<1>5. \A k \in 0..N : k \in T
  <2> HIDE DEF T, N
  <2>1. QED
    BY <1>2, <1>3, <1>4, InductionUpTo
<1>6. last.out \in Seq(PlainRange) /\ last.cursor \in Int /\ 0 <= last.cursor
  <2>1. N \in 0..N /\ last = acc[N] /\ last \in SubType
    BY <1>1, <1>2 DEF IsSubtractRun
  <2>2. QED
    BY <2>1, <1>5 DEF SubType
<1>7. PushIf(last.out, last.cursor <= r.end, FromStartEnd(last.cursor, r.end))
        \in Seq(PlainRange)
  <2>1. (last.cursor <= r.end) \in BOOLEAN
    BY <1>2, <1>6
  <2>2. QED
    BY <2>1, <1>2, <1>6, PlainPush
<1>8. QED
  BY <1>1, <1>7 DEF SubtractRanges

\* merge_ranges takes the larger of both, of the ends and of what was asked for.
LEMMA PlainWiden ==
  ASSUME NEW s \in PlainRange, NEW t \in PlainRange
  PROVE  Widen(s, t) \in PlainRange
<1>1. s \in RangeType /\ t \in RangeType /\ s.requested = s.end /\ t.requested = t.end
  BY DEF PlainRange
<1>2. Widen(s, t) \in RangeType
  BY <1>1, WidenRange
<1>3. Widen(s, t).requested = Widen(s, t).end
  BY <1>1 DEF Widen
<1>4. QED
  BY <1>2, <1>3 DEF PlainRange

LEMMA PlainAbsorb ==
  ASSUME NEW done \in Seq(PlainRange), NEW r \in PlainRange
  PROVE  AbsorbRange(done, r) \in Seq(PlainRange)
<1>1. done \in Seq(RangeType) /\ r \in RangeType
  BY PlainIsRange DEF PlainRange
<1>2. AbsorbRange(done, r) =
        IF done # <<>> /\ r.start <= done[Len(done)].end + 1
          THEN [done EXCEPT ![Len(done)] = Widen(done[Len(done)], r)]
          ELSE Append(done, r)
  BY <1>1, AbsorbRangeStep
<1>3. Append(done, r) \in Seq(PlainRange)
  BY AppendProperties
<1>4. ASSUME done # <<>>
      PROVE  [done EXCEPT ![Len(done)] = Widen(done[Len(done)], r)] \in Seq(PlainRange)
  <2>1. Len(done) \in 1..Len(done)
    BY <1>4, EmptySeq, LenProperties
  <2>2. done[Len(done)] \in PlainRange
    BY <2>1, ElementOfSeq
  <2>3. Widen(done[Len(done)], r) \in PlainRange
    BY <2>2, PlainWiden
  <2>4. QED
    BY <2>1, <2>3, ExceptSeq
<1>5. QED
  BY <1>2, <1>3, <1>4

LEMMA PlainMerge ==
  ASSUME NEW list \in Seq(PlainRange)
  PROVE  MergeRanges(list) \in Seq(PlainRange)
<1>1. PICK sorted : sorted = ByStart(list)
  OBVIOUS
<1>2. sorted \in Seq(PlainRange)
  <2>1. \A r \in PlainRange : r.start \in Int
    BY RangeStarts DEF PlainRange
  <2>2. QED
    BY <1>1, <2>1, SortByStart
<1>3. PICK acc : IsAbsorbRun(acc, sorted)
  BY <1>2, PlainIsRange, AbsorbRun
<1> DEFINE N == Len(sorted)
           T == {k \in 0..N : acc[k] \in Seq(PlainRange)}
<1>4. N \in Nat
  BY <1>2, LenProperties
<1>5. 0 \in T
  <2>1. acc[0] = <<>>
    BY <1>3 DEF IsAbsorbRun
  <2>2. <<>> \in Seq(PlainRange) /\ 0 \in 0..N
    BY <1>4, EmptySeq
  <2>3. QED
    BY <2>1, <2>2
<1>6. ASSUME NEW k \in 0..(N - 1), k \in T
      PROVE  k + 1 \in T
  <2>1. k + 1 \in 1..N /\ k + 1 \in 0..N /\ (k + 1) - 1 = k
    BY <1>4
  <2>2. acc[k + 1] = AbsorbRange(acc[k], sorted[k + 1])
    BY <1>3, <2>1 DEF IsAbsorbRun
  <2>3. sorted[k + 1] \in PlainRange
    BY <1>2, <2>1, ElementOfSeq
  <2>4. acc[k + 1] \in Seq(PlainRange)
    BY <1>6, <2>2, <2>3, PlainAbsorb
  <2>5. QED
    BY <2>1, <2>4
<1>7. \A k \in 0..N : k \in T
  <2> HIDE DEF T, N
  <2>1. QED
    BY <1>4, <1>5, <1>6, InductionUpTo
<1>8. MergeRanges(list) = acc[N] /\ N \in 0..N
  BY <1>1, <1>3, <1>4 DEF IsAbsorbRun, MergeRanges
<1>9. QED
  BY <1>7, <1>8

\* With a target to exclude every domain goes through subtract_ranges.
LEMMA PlainInclude ==
  ASSUME NEW list \in ListType, AllInSpace(list), NEW o, OptionType(o),
         NEW t \in RangeType
  PROVE  IncludeRanges(list, o, Excluded(o, t)) \in Seq(PlainRange)
<1>1. PICK ex, doms : ex = Excluded(o, t) /\ doms = Domains(list, o)
  OBVIOUS
<1>2. /\ ex \in Seq(RangeType)
      /\ \A a \in Int : InAny(a, ex) <=> ExcludedAt(o, t, a)
  BY <1>1, ExcludedIn
<1>3. doms \in Seq(RangeType)
  BY <1>1, DomainsIn
<1>4. ex # <<>>
  <2>1. t.start \in Int /\ In(t.start, t) /\ t # None
    BY RangeFacts, NoneAssumption DEF In
  <2>2. InAny(t.start, ex)
    BY <2>1, <1>2 DEF ExcludedAt
  <2>3. QED
    BY <2>2, EmptySeq DEF InAny
<1> DEFINE N == Len(doms)
           parts == [k \in 1..N |-> SubtractRanges(doms[k], ex)]
<1>5. N \in Nat /\ DOMAIN doms = 1..N /\ \A k \in 1..N : doms[k] \in RangeType
  BY <1>3, LenProperties, ElementOfSeq
<1>6. IncludeRanges(list, o, ex) = MergeRanges(FlattenSeq(parts))
  BY <1>1, <1>4, <1>5 DEF IncludeRanges
<1>7. parts \in Seq(Seq(PlainRange))
  <2>1. \A k \in 1..N : SubtractRanges(doms[k], ex) \in Seq(PlainRange)
    BY <1>2, <1>5, PlainSubtract
  <2> HIDE DEF N
  <2>2. QED
    BY <1>5, <2>1, IsASeq
<1> HIDE DEF parts
<1>8. FlattenSeq(parts) \in Seq(PlainRange)
  BY <1>7, FlattenIn
<1>9. QED
  BY <1>1, <1>6, <1>8, PlainMerge

-----------------------------------------------------------------------------
(* Ranges apart from each other are determined by their addresses *)

LEMMA EndsApart ==
  ASSUME NEW list \in Seq(PlainRange), Apart(list), NEW n \in 1..Len(list),
         NEW s, s = list[n]
  PROVE  ~InAny(s.start - 1, list) /\ ~InAny(s.end + 1, list)
<1>1. s \in RangeType /\ n \in Int
  BY ElementOfSeq DEF PlainRange
<1>2. s.start \in Int /\ s.end \in Int /\ s.start <= s.end
  BY <1>1, RangeFacts
<1>3. ASSUME NEW m \in 1..Len(list), NEW a \in Int, In(a, list[m]),
             a = s.start - 1 \/ a = s.end + 1
      PROVE  FALSE
  <2>1. PICK u \in RangeType : u = list[m]
    BY ElementOfSeq DEF PlainRange
  <2>2. /\ u.start \in Int /\ u.end \in Int /\ u.start <= a /\ a <= u.end /\ m \in Int
    BY <2>1, <1>3, RangeFacts DEF In
  <2>3. /\ m < n => u.end + 1 < s.start
        /\ n < m => s.end + 1 < u.start
        /\ m = n => u = s
    BY <2>1 DEF Apart
  <2>4. QED
    BY <2>2, <2>3, <1>1, <1>2, <1>3
<1>4. s.start - 1 \in Int /\ s.end + 1 \in Int
  BY <1>2
<1>5. QED
  BY <1>3, <1>4 DEF InAny

LEMMA SameRange ==
  ASSUME NEW l \in Seq(PlainRange), Apart(l), NEW r \in Seq(PlainRange), Apart(r),
         \A a \in Int : InAny(a, l) <=> InAny(a, r),
         NEW n \in 1..Len(l)
  PROVE  IsIn(r, l[n])
<1>1. PICK s \in PlainRange : s = l[n]
  BY ElementOfSeq
<1>2. /\ s \in RangeType /\ s.requested = s.end
      /\ s.start \in Int /\ s.end \in Int /\ s.start <= s.end
  BY RangeFacts DEF PlainRange
<1>3. InAny(s.start, r)
  <2>1. In(s.start, s)
    BY <1>2 DEF In
  <2>2. InAny(s.start, l)
    BY <2>1, <1>1 DEF InAny
  <2>3. QED
    BY <2>2, <1>2
<1>4. PICK m \in 1..Len(r) : In(s.start, r[m])
  BY <1>3 DEF InAny
<1>5. PICK u \in PlainRange : u = r[m]
  BY ElementOfSeq
<1>6. /\ u \in RangeType /\ u.requested = u.end
      /\ u.start \in Int /\ u.end \in Int /\ u.start <= s.start /\ s.start <= u.end
  BY <1>4, <1>5, RangeFacts DEF PlainRange, In
<1>7. u.start = s.start
  <2>1. ~In(s.start - 1, u)
    <3>1. ~InAny(s.start - 1, l) /\ s.start - 1 \in Int
      BY <1>1, <1>2, EndsApart
    <3>2. ~InAny(s.start - 1, r)
      BY <3>1
    <3>3. QED
      BY <3>2, <1>5 DEF InAny
  <2>2. QED
    BY <2>1, <1>2, <1>6 DEF In
<1>8. ~(s.end < u.end)
  <2>1. ~In(s.end + 1, u)
    <3>1. ~InAny(s.end + 1, l) /\ s.end + 1 \in Int
      BY <1>1, <1>2, EndsApart
    <3>2. ~InAny(s.end + 1, r)
      BY <3>1
    <3>3. QED
      BY <3>2, <1>5 DEF InAny
  <2>2. QED
    BY <2>1, <1>2, <1>6 DEF In
<1>9. ~(u.end < s.end)
  <2>1. ~In(u.end + 1, s)
    <3>1. ~InAny(u.end + 1, r) /\ u.end + 1 \in Int
      BY <1>5, <1>6, EndsApart
    <3>2. ~InAny(u.end + 1, l)
      BY <3>1
    <3>3. QED
      BY <3>2, <1>1 DEF InAny
  <2>2. QED
    BY <2>1, <1>2, <1>6 DEF In
<1>10. s.end = u.end
  BY <1>2, <1>6, <1>8, <1>9
<1>11. s = u
  BY <1>2, <1>6, <1>7, <1>10 DEF RangeType
<1>12. QED
  BY <1>1, <1>5, <1>11 DEF IsIn

LEMMA SamePlain ==
  ASSUME NEW l \in Seq(PlainRange), Apart(l), NEW r \in Seq(PlainRange), Apart(r),
         \A a \in Int : InAny(a, l) <=> InAny(a, r)
  PROVE  l = r
<1>1. \A y : IsIn(l, y) <=> IsIn(r, y)
  <2>1. \A n \in 1..Len(l) : IsIn(r, l[n])
    BY SameRange
  <2>2. \A n \in 1..Len(r) : IsIn(l, r[n])
    BY SameRange
  <2>3. QED
    BY <2>1, <2>2 DEF IsIn
<1> DEFINE key == [s \in PlainRange |-> s.start]
<1>2. ASSUME NEW q \in Seq(PlainRange), Apart(q)
      PROVE  Increasing(q, key)
  <2> SUFFICES ASSUME NEW m \in 1..Len(q), NEW n \in 1..Len(q), m < n
               PROVE  key[q[m]] < key[q[n]]
    BY DEF Increasing
  <2>1. PICK s \in PlainRange, u \in PlainRange : s = q[m] /\ u = q[n]
    BY ElementOfSeq
  <2>2. s.end + 1 < u.start
    BY <2>1, <1>2 DEF Apart
  <2>3. s.start \in Int /\ s.end \in Int /\ s.start <= s.end /\ u.start \in Int
    BY RangeFacts DEF PlainRange
  <2>4. s.start < u.start
    BY <2>2, <2>3
  <2>5. QED
    BY <2>1, <2>4
<1>3. \A s \in PlainRange : key[s] \in Int
  BY RangeStarts DEF PlainRange
<1> HIDE DEF key
<1>4. QED
  BY <1>1, <1>2, <1>3, SameElements

-----------------------------------------------------------------------------
(* What a checksum depends on *)

LEMMA OptionTypes ==
  ASSUME NEW o \in ChecksumOptions
  PROVE  OptionType(o)
  BY DEF ChecksumOptions, ForcedRange, OptionType

\* The normalized list covers what reads as a byte.
LEMMA NormalizedData ==
  ASSUME NEW list \in ListType, AllInSpace(list)
  PROVE  /\ Normalized(list) \in ListType /\ AllInSpace(Normalized(list))
         /\ \A a \in Int : ReadByte(Normalized(list), a) = ReadByte(list, a)
         /\ \A a \in Int : CoveredAt(Normalized(list), a) <=> ReadByte(list, a) # None
<1>1. PICK normal : /\ normal = Normalized(list)
                    /\ normal \in ListType /\ AllInSpace(normal)
  BY NormalizedReads
<1>2. \A a \in Int : ReadByte(normal, a) = ReadByte(list, a)
  BY <1>1, ReadNormalized
<1>3. \A a \in Int : CoveredAt(normal, a) <=> ReadByte(normal, a) # None
  BY <1>1, ReadCovered DEF CoveredAt
<1>4. QED
  BY <1>1, <1>2, <1>3

\* The addresses that options and target select, with data or without.
Selected(o, t, a) == InLimit(o, a) /\ ~ExcludedAt(o, t, a)

SameReads(list, other, o, t) ==
  \A a \in Int : Selected(o, t, a) => ReadByte(list, a) = ReadByte(other, a)

LEMMA SameRanges ==
  ASSUME NEW list \in ListType, AllInSpace(list), NEW other \in ListType, AllInSpace(other),
         NEW o \in ChecksumOptions, NEW t \in RangeType, SameReads(list, other, o, t)
  PROVE  /\ IncludeRanges(Normalized(list), o, Excluded(o, t))
              = IncludeRanges(Normalized(other), o, Excluded(o, t))
         /\ IncludeRanges(Normalized(list), o, Excluded(o, t)) \in Seq(RangeType)
         /\ \A a \in Int : InAny(a, IncludeRanges(Normalized(list), o, Excluded(o, t)))
              => Selected(o, t, a)
<1>1. PICK l, r : /\ l = Normalized(list) /\ r = Normalized(other)
                  /\ l \in ListType /\ AllInSpace(l) /\ r \in ListType /\ AllInSpace(r)
                  /\ \A a \in Int : CoveredAt(l, a) <=> ReadByte(list, a) # None
                  /\ \A a \in Int : CoveredAt(r, a) <=> ReadByte(other, a) # None
  BY NormalizedData
<1>2. OptionType(o)
  BY OptionTypes
<1>3. PICK v, w : /\ v = IncludeRanges(l, o, Excluded(o, t))
                  /\ w = IncludeRanges(r, o, Excluded(o, t))
  OBVIOUS
<1>4. /\ v \in Seq(PlainRange) /\ Apart(v)
      /\ \A a \in Int : InAny(a, v)
           <=> (CoveredAt(l, a) \/ InForcedRange(o, a)) /\ Selected(o, t, a)
  BY <1>1, <1>2, <1>3, PlainInclude, IncludeRangesIn DEF Selected
<1>5. /\ w \in Seq(PlainRange) /\ Apart(w)
      /\ \A a \in Int : InAny(a, w)
           <=> (CoveredAt(r, a) \/ InForcedRange(o, a)) /\ Selected(o, t, a)
  BY <1>1, <1>2, <1>3, PlainInclude, IncludeRangesIn DEF Selected
<1>6. \A a \in Int : InAny(a, v) <=> InAny(a, w)
  <2> SUFFICES ASSUME NEW a \in Int
               PROVE  InAny(a, v) <=> InAny(a, w)
    OBVIOUS
  <2>1. Selected(o, t, a) => (CoveredAt(l, a) <=> CoveredAt(r, a))
    BY <1>1 DEF SameReads
  <2>2. QED
    BY <2>1, <1>4, <1>5
<1>7. v = w
  BY <1>4, <1>5, <1>6, SamePlain
<1>8. v \in Seq(RangeType)
  BY <1>4, PlainIsRange
<1>9. QED
  BY <1>1, <1>3, <1>4, <1>7, <1>8

LEMMA SameData ==
  ASSUME NEW l, NEW r, NEW o, NEW walked \in Seq(RangeType),
         \A a \in Int : InAny(a, walked) => ReadByte(l, a) = ReadByte(r, a)
  PROVE  CollectData(l, o, walked) = CollectData(r, o, walked)
<1> DEFINE Read(list, a) == IF ReadByte(list, a) = None THEN ForcedByte(o.forced, a)
                            ELSE ReadByte(list, a)
           Data(list, u) ==
             [k \in 1..(u.end - u.start + 1) |-> Read(list, u.start + k - 1)]
<1>1. DOMAIN walked = 1..Len(walked)
  BY LenProperties
<1>2. ASSUME NEW n \in 1..Len(walked)
      PROVE  Data(l, walked[n]) = Data(r, walked[n])
  <2>1. PICK u \in RangeType : u = walked[n]
    BY ElementOfSeq
  <2>2. u.start \in Int /\ u.end \in Int
    BY <2>1, RangeFacts
  <2>3. ASSUME NEW k \in 1..(u.end - u.start + 1)
        PROVE  ReadByte(l, u.start + k - 1) = ReadByte(r, u.start + k - 1)
    <3>1. PICK a \in Int : a = u.start + k - 1 /\ u.start <= a /\ a <= u.end
      BY <2>2
    <3>2. InAny(a, walked)
      BY <2>1, <3>1 DEF InAny, In
    <3>3. QED
      BY <3>1, <3>2
  <2>4. Data(l, u) = Data(r, u)
    BY <2>3
  <2>5. QED
    BY <2>1, <2>4
<1>3. /\ CollectData(l, o, walked) = FlattenSeq([n \in 1..Len(walked) |-> Data(l, walked[n])])
      /\ CollectData(r, o, walked) = FlattenSeq([n \in 1..Len(walked) |-> Data(r, walked[n])])
  BY <1>1 DEF CollectData
<1> HIDE DEF Data
<1>4. [n \in 1..Len(walked) |-> Data(l, walked[n])] = [n \in 1..Len(walked) |-> Data(r, walked[n])]
  BY <1>2
<1>5. QED
  BY <1>3, <1>4

\* A checksum is the same for two files that read alike where it looks.
LEMMA SameCalculation ==
  ASSUME NEW list \in ListType, AllInSpace(list), NEW other \in ListType, AllInSpace(other),
         NEW o \in ChecksumOptions, NEW t \in RangeType, SameReads(list, other, o, t)
  PROVE  Calculate(list, o, t) = Calculate(other, o, t)
<1>1. PICK l, r : /\ l = Normalized(list) /\ r = Normalized(other)
                  /\ \A a \in Int : ReadByte(l, a) = ReadByte(list, a)
                  /\ \A a \in Int : ReadByte(r, a) = ReadByte(other, a)
  BY NormalizedData
<1>2. PICK walked : walked = IncludeRanges(l, o, Excluded(o, t))
  OBVIOUS
<1>3. /\ walked = IncludeRanges(r, o, Excluded(o, t)) /\ walked \in Seq(RangeType)
      /\ \A a \in Int : InAny(a, walked) => Selected(o, t, a)
  BY <1>1, <1>2, SameRanges
<1>4. \A a \in Int : InAny(a, walked) => ReadByte(l, a) = ReadByte(r, a)
  BY <1>1, <1>3 DEF SameReads
<1>5. CollectData(l, o, walked) = CollectData(r, o, walked)
  BY <1>3, <1>4, SameData
<1>6. QED
  BY <1>1, <1>2, <1>3, <1>5 DEF Calculate

-----------------------------------------------------------------------------
(* The bytes of a checksum *)

LEMMA WidthFacts == Base \in Nat \ {0} /\ Width \in Nat /\ Width > 0
<1>1. Base \in Nat /\ Base >= 1
  BY DigitAssumption
<1>2. Base * Base \in Nat /\ Base * Base >= 1
  BY <1>1
<1>3. QED
  BY <1>1, <1>2 DEF Width

\* A sum stays below the width of its counter.
LEMMA SumRange ==
  ASSUME NEW n \in Nat, NEW values \in [1..n -> Int]
  PROVE  Sum16(values) \in 0..(Width - 1)
<1> DEFINE A == 0..(Width - 1)
           F == [p \in A \X (1..n) |-> (p[1] + values[p[2]]) % Width]
           E(g) == g = [s \in SUBSET (1..n) |->
                     IF s = {} THEN 0
                     ELSE LET x == Max(s) IN (g[s \ {x}] + values[x]) % Width]
           g == CHOOSE h : E(h)
<1>1. DOMAIN values = 1..n /\ Width \in Nat /\ Width > 0
  BY WidthFacts
<1>2. Sum16(values) = g[1..n]
  BY <1>1, Zenon DEF Sum16, FoldLeft, MapThenFoldSet
<1>3. IsStep(F, n, A) /\ 0 \in A
  <2>1. ASSUME NEW a \in A, NEW k \in 1..n
        PROVE  (a + values[k]) % Width \in A
    <3>1. PICK w \in Nat, x \in Int : w = Width /\ w > 0 /\ x = a + values[k]
      BY <1>1
    <3>2. x % w \in 0..(w - 1)
      BY <3>1
    <3>3. QED
      BY <3>1, <3>2
  <2>2. 0 \in A
    BY <1>1
  <2> HIDE DEF A
  <2>3. QED
    BY <2>1, <2>2 DEF IsStep
<1>4. \A s \in SUBSET (1..n) : s # {} => Max(s) \in 1..n /\ s \ {Max(s)} \in SUBSET (1..n)
  BY MaxUpTo
<1>5. \A k \in 1..n, y \in A : F[<<y, k>>] = (y + values[k]) % Width
  OBVIOUS
<1> HIDE DEF A, F
<1>6. \E h : E(h)
  <2>1. PICK h \in [SUBSET (1..n) -> A] : Folds(h, n, 0, F)
    BY <1>3, FoldExists
  <2>2. \A s \in SUBSET (1..n) : s # {} =>
          h[s] = (h[s \ {Max(s)}] + values[Max(s)]) % Width
    BY <2>1, <1>4, <1>5 DEF Folds
  <2>3. E(h)
    BY <2>1, <2>2 DEF Folds
  <2>4. QED
    BY <2>3, Zenon
<1>7. E(g)
  <2> HIDE DEF E
  <2>1. QED
    BY <1>6, Zenon
<1> HIDE DEF g
<1>8. FoldsWithin(g, n, A, 0, F)
  BY <1>4, <1>5, <1>7 DEF FoldsWithin
<1> HIDE DEF E
<1>9. PICK acc : IsRun(acc, n, A, 0, F) /\ g[1..n] = acc[n]
  BY <1>3, <1>8, FoldRun
<1>10. acc[n] \in A
  BY <1>9 DEF IsRun
<1>11. QED
  BY <1>2, <1>9, <1>10 DEF A

\* The data of a checksum are bytes, forced ones included.
LEMMA ForcedIsByte ==
  ASSUME NEW f \in ForcedRange, NEW a \in Int
  PROVE  ForcedByte(f, a) \in Byte
<1>1. PICK p \in Seq(Byte), x \in Int : p = f.pattern /\ x = a - f.range.start
  <2>1. f.pattern \in Seq(Byte) /\ f.range \in RangeType
    BY DEF ForcedRange
  <2>2. f.range.start \in Int
    BY <2>1, RangeFacts
  <2>3. QED
    BY <2>1, <2>2
<1>2. CASE p = <<>>
  BY <1>1, <1>2, DigitAssumption DEF ForcedByte
<1>3. CASE p # <<>>
  <2>1. PICK n \in Nat : n = Len(p) /\ n > 0
    BY <1>3, EmptySeq, LenProperties
  <2>2. (x % n) + 1 \in 1..n
    BY <2>1
  <2>3. p[(x % n) + 1] \in Byte
    BY <2>1, <2>2, ElementOfSeq
  <2>4. QED
    BY <1>1, <1>3, <2>1, <2>3 DEF ForcedByte
<1>4. QED
  BY <1>2, <1>3

LEMMA DataType ==
  ASSUME NEW list \in ListType, AllInSpace(list), NEW o \in ChecksumOptions,
         NEW t, t = None \/ t \in RangeType,
         NEW walked, walked = IncludeRanges(list, o, Excluded(o, t))
  PROVE  CollectData(list, o, walked) \in Seq(Byte)
<1>1. OptionType(o)
  BY OptionTypes
<1>2. /\ walked \in Seq(RangeType)
      /\ \A a \in Int : InAny(a, walked) => CoveredAt(list, a) \/ InForcedRange(o, a)
  BY <1>1, IncludeRangesIn
<1> DEFINE N == Len(walked)
           Read(a) == IF ReadByte(list, a) = None THEN ForcedByte(o.forced, a)
                      ELSE ReadByte(list, a)
           Data(u) == [k \in 1..(u.end - u.start + 1) |-> Read(u.start + k - 1)]
           parts == [n \in 1..N |-> Data(walked[n])]
<1>3. N \in Nat /\ DOMAIN walked = 1..N
  BY <1>2, LenProperties
<1>4. ASSUME NEW a \in Int, InAny(a, walked)
      PROVE  Read(a) \in Byte
  <2>1. CASE ReadByte(list, a) # None
    BY <2>1, ReadCovered
  <2>2. CASE ReadByte(list, a) = None
    <3>1. ~CoveredAt(list, a)
      BY <2>2, ReadCovered DEF CoveredAt
    <3>2. o.forced # None
      BY <3>1, <1>2, <1>4 DEF InForcedRange
    <3>3. o.forced \in ForcedRange
      BY <3>2 DEF ChecksumOptions
    <3>4. QED
      BY <3>3, <2>2, ForcedIsByte
  <2>3. QED
    BY <2>1, <2>2
<1> HIDE DEF Read
<1>5. ASSUME NEW n \in 1..N
      PROVE  Data(walked[n]) \in Seq(Byte)
  <2>1. PICK u \in RangeType : u = walked[n]
    BY <1>2, ElementOfSeq
  <2>2. PICK from \in Int, to \in Int : from = u.start /\ to = u.end /\ from <= to
    BY <2>1, RangeFacts
  <2>3. ASSUME NEW k \in 1..(to - from + 1)
        PROVE  Read(from + k - 1) \in Byte
    <3>1. PICK a \in Int : a = from + k - 1 /\ from <= a /\ a <= to
      <4>1. from + k - 1 \in Int /\ from <= from + k - 1 /\ from + k - 1 <= to
        BY <2>2
      <4>2. QED
        BY <4>1
    <3>2. InAny(a, walked)
      BY <2>1, <2>2, <3>1 DEF InAny, In
    <3>3. QED
      BY <3>1, <3>2, <1>4
  <2>4. to - from + 1 \in Nat
    BY <2>2
  <2>5. [k \in 1..(to - from + 1) |-> Read(from + k - 1)] \in Seq(Byte)
    BY <2>3, <2>4, IsASeq
  <2>6. QED
    BY <2>1, <2>2, <2>5
<1> HIDE DEF Data, N
<1>6. parts \in Seq(Seq(Byte))
  BY <1>3, <1>5, IsASeq
<1>7. CollectData(list, o, walked) = FlattenSeq(parts)
  BY <1>3 DEF CollectData, Data, Read
<1>8. QED
  BY <1>6, <1>7, FlattenIn

\* Bytes are numbers, and so are the words made of them.
LEMMA WordIsNumber ==
  ASSUME NEW data \in Seq(Byte), NEW k \in 1..(Len(data) \div 2)
  PROVE  /\ Word(data[2 * k - 1], data[2 * k]) \in Int
         /\ Word(data[2 * k], data[2 * k - 1]) \in Int
<1>1. Len(data) \in Nat
  BY LenProperties
<1>2. 2 * k - 1 \in 1..Len(data) /\ 2 * k \in 1..Len(data)
  BY <1>1
<1>3. PICK x \in Byte, y \in Byte : x = data[2 * k - 1] /\ y = data[2 * k]
  BY <1>2, ElementOfSeq
<1>4. x \in Int /\ y \in Int /\ Base \in Int
  BY DigitAssumption
<1>5. x * Base + y \in Int /\ y * Base + x \in Int
  BY <1>4
<1>6. QED
  BY <1>3, <1>5 DEF Word

LEMMA SumsRange ==
  ASSUME NEW data \in Seq(Byte)
  PROVE  /\ ByteSum(data) \in 0..(Width - 1) /\ ByteTwosSum(data) \in 0..(Width - 1)
         /\ WordSumBe(data) \in 0..(Width - 1) /\ WordSumLe(data) \in 0..(Width - 1)
<1>1. PICK n \in Nat : n = Len(data) /\ DOMAIN data = 1..n
  BY LenProperties
<1>2. \A k \in 1..n : data[k] \in Byte /\ data[k] \in Int
  BY <1>1, ElementOfSeq, DigitAssumption
<1>3. ByteSum(data) \in 0..(Width - 1)
  <2>1. data \in [1..n -> Int]
    BY <1>1, <1>2, SeqDef
  <2>2. QED
    BY <2>1, SumRange DEF ByteSum
<1>4. ByteTwosSum(data) \in 0..(Width - 1)
  <2>1. \A k \in 1..n : (Base - data[k]) % Base \in Int
    <3> SUFFICES ASSUME NEW k \in 1..n
                 PROVE  (Base - data[k]) % Base \in Int
      OBVIOUS
    <3>1. PICK b \in Nat, x \in Int : b = Base /\ b > 0 /\ x = Base - data[k]
      BY <1>2, WidthFacts
    <3>2. x % b \in Int
      BY <3>1
    <3>3. QED
      BY <3>1, <3>2
  <2>2. [k \in 1..n |-> (Base - data[k]) % Base] \in [1..n -> Int]
    BY <2>1
  <2>3. QED
    BY <2>2, <1>1, SumRange DEF ByteTwosSum
<1>5. PICK m \in Nat : m = Len(data) \div 2
  BY <1>1
<1>6. WordSumBe(data) \in 0..(Width - 1)
  <2>1. [k \in 1..m |-> Word(data[2 * k - 1], data[2 * k])] \in [1..m -> Int]
    BY <1>5, WordIsNumber
  <2>2. QED
    BY <2>1, <1>5, SumRange DEF WordSumBe
<1>7. WordSumLe(data) \in 0..(Width - 1)
  <2>1. [k \in 1..m |-> Word(data[2 * k], data[2 * k - 1])] \in [1..m -> Int]
    BY <1>5, WordIsNumber
  <2>2. QED
    BY <2>1, <1>5, SumRange DEF WordSumLe
<1>8. QED
  BY <1>3, <1>4, <1>6, <1>7

LEMMA ComplementRange ==
  ASSUME NEW sum \in 0..(Width - 1)
  PROVE  TwosComplement(sum) \in 0..(Width - 1)
<1>1. PICK w \in Nat, x \in Int : w = Width /\ w > 0 /\ x = Width - sum
  BY WidthFacts
<1>2. x % w \in 0..(w - 1)
  BY <1>1
<1>3. QED
  BY <1>1, <1>2 DEF TwosComplement

LEMMA SumOfRange ==
  ASSUME NEW data \in Seq(Byte), NEW alg \in Algorithms
  PROVE  SumOf(alg, data) \in 0..(Width - 1)
<1>1. \A sum \in {ByteSum(data), ByteTwosSum(data), WordSumBe(data), WordSumLe(data)} :
        sum \in 0..(Width - 1) /\ TwosComplement(sum) \in 0..(Width - 1)
  BY SumsRange, ComplementRange
<1>2. alg \in {"ByteSumBe", "ByteSumLe", "ByteSumTwosComplement", "WordSumBe", "WordSumLe",
               "WordSumBeTwosComplement", "WordSumLeTwosComplement", "ModularSum"}
  BY DEF Algorithms, WordSums
<1>3. SumOf(alg, data) \in
        {ByteSum(data), ByteTwosSum(data), WordSumBe(data), WordSumLe(data),
         TwosComplement(WordSumBe(data)), TwosComplement(WordSumLe(data))}
  BY <1>2 DEF SumOf
<1>4. QED
  BY <1>1, <1>3

\* The two digits of a sum are bytes.
LEMMA OutputType ==
  ASSUME NEW alg, NEW reversed, NEW sum \in 0..(Width - 1)
  PROVE  /\ Output(alg, reversed, sum) \in Seq(Byte)
         /\ Len(Output(alg, reversed, sum)) = Size
<1>1. PICK b \in Nat, x \in Nat : b = Base /\ b > 0 /\ x = sum /\ x < b * b
  BY WidthFacts DEF Width
<1>2. PICK q \in Nat, r \in Nat : q = x \div b /\ r = x % b /\ r < b /\ x = b * q + r
  BY <1>1, DivisionFacts
<1>3. q < b
  <2>1. q >= b => b * q >= b * b
    BY <1>1, <1>2
  <2>2. b * q \in Nat /\ b * b \in Nat /\ b * q <= x
    BY <1>1, <1>2
  <2>3. QED
    BY <2>1, <2>2, <1>1, <1>2
<1>4. q \in Byte /\ r \in Byte
  BY <1>1, <1>2, <1>3, DigitAssumption
<1>5. <<q, r>> \in Seq(Byte) /\ <<r, q>> \in Seq(Byte) /\ Len(<<q, r>>) = 2 /\ Len(<<r, q>>) = 2
  BY <1>4
<1>6. QED
  BY <1>1, <1>2, <1>5 DEF Output, Size

LEMMA ResultType ==
  ASSUME NEW list \in ListType, AllInSpace(list), NEW o \in ChecksumOptions,
         NEW t, t = None \/ t \in RangeType,
         NEW c, c = Calculate(list, o, t), c # None
  PROVE  c \in Seq(Byte) /\ Len(c) = Size
<1>1. PICK normal : /\ normal = Normalized(list)
                    /\ normal \in ListType /\ AllInSpace(normal)
  BY NormalizedReads
<1>2. PICK walked, data : /\ walked = IncludeRanges(normal, o, Excluded(o, t))
                          /\ data = CollectData(normal, o, walked)
  OBVIOUS
<1>3. data \in Seq(Byte) /\ o.alg \in Algorithms
  BY <1>1, <1>2, DataType DEF ChecksumOptions
<1>4. c = Output(o.alg, o.reversed, SumOf(o.alg, data))
  BY <1>1, <1>2 DEF Calculate
<1>5. QED
  BY <1>3, <1>4, SumOfRange, OutputType

-----------------------------------------------------------------------------
(* Where a checksum goes *)

\* The range of a result: it lies in the address space.
IsTarget(t) ==
  t \in RangeType /\ t.start \in Addr /\ t.end = t.start + 1 /\ RangeLength(t) = Size

LEMMA TargetMade ==
  ASSUME NEW at \in Int, 0 <= at, at + Size - 1 <= MaxAddr
  PROVE  IsTarget(FromStartLength(at, Size)) /\ FromStartLength(at, Size).start = at
<1>1. MaxAddr \in Nat /\ at + 1 <= MaxAddr /\ at + 2 - 1 = at + 1
  BY MaxAddrAssumption DEF Size
<1>2. PICK t : t = FromStartLength(at, Size)
  OBVIOUS
<1>3. t = [start |-> at, requested |-> at + 1, end |-> at + 1]
  BY <1>1, <1>2 DEF FromStartLength, Size
<1>4. t \in RangeType /\ t.start \in Addr
  BY <1>1, <1>3 DEF RangeType, Addr
<1>5. RangeLength(t) = Size
  BY <1>3 DEF RangeLength, Size
<1>6. QED
  BY <1>2, <1>3, <1>4, <1>5 DEF IsTarget

LEMMA ExcludeStartType ==
  ASSUME NEW list \in ListType, AllInSpace(list), NEW target \in ChecksumTarget
  PROVE  ExcludeStart(list, target) = None \/ ExcludeStart(list, target) \in Int
<1>1. target.kind \in {"Address", "None", "Append", "Prepend", "OverwriteEnd", "File"}
  BY DEF ChecksumTarget
<1>2. list # <<>> => MinAddress(list) \in Int /\ MaxAddress(list) \in Int
  BY MinMaxAddress, MaxAddrAssumption DEF Addr
<1>3. CASE target.kind = "Address"
  <2>1. target.at \in Int
    BY <1>3, MaxAddrAssumption DEF ChecksumTarget, Addr
  <2>2. QED
    BY <1>3, <2>1 DEF ExcludeStart
<1>4. CASE target.kind = "OverwriteEnd" /\ list # <<>>
  <2>1. ExcludeStart(list, target) = MaxAddress(list) - 1
    BY <1>4 DEF ExcludeStart, Size
  <2>2. QED
    BY <2>1, <1>2, <1>4
<1>5. CASE target.kind = "Append" /\ list # <<>>
  <2>1. ExcludeStart(list, target) = MaxAddress(list) + 1
    BY <1>5 DEF ExcludeStart
  <2>2. QED
    BY <2>1, <1>2, <1>5
<1>6. CASE target.kind = "Prepend" /\ list # <<>>
  <2>1. ExcludeStart(list, target) = MinAddress(list) - 2
    BY <1>6 DEF ExcludeStart, Size
  <2>2. QED
    BY <2>1, <1>2, <1>6
<1>7. CASE target.kind \in {"None", "File"} \/ (target.kind # "Address" /\ list = <<>>)
  BY <1>7, <1>1 DEF ExcludeStart
<1>8. QED
  BY <1>1, <1>3, <1>4, <1>5, <1>6, <1>7

\* A result is written to the range that was excluded for it.
LEMMA WritesThere ==
  ASSUME NEW list, NEW target, NEW c, Len(c) = Size
  PROVE  WriteStart(list, target, c) = ExcludeStart(list, target)
  BY DEF WriteStart, ExcludeStart

LEMMA SpotFacts ==
  ASSUME NEW list \in ListType, AllInSpace(list), NEW target \in ChecksumTarget,
         TargetFits(list, target), NEW at, at = ExcludeStart(list, target)
  PROVE  IF at = None THEN TargetRange(list, target) = None
         ELSE /\ TargetRange(list, target) = FromStartLength(at, Size)
              /\ IsTarget(TargetRange(list, target))
              /\ TargetRange(list, target).start = at
<1>1. CASE at = None
  BY <1>1 DEF TargetRange
<1>2. CASE at # None
  <2>1. at \in Int /\ 0 <= at /\ at + Size - 1 <= MaxAddr
    BY <1>2, ExcludeStartType DEF TargetFits
  <2>2. TargetRange(list, target) = FromStartLength(at, Size)
    BY <1>2 DEF TargetRange
  <2>3. QED
    BY <1>2, <2>1, <2>2, TargetMade
<1>3. QED
  BY <1>1, <1>2

-----------------------------------------------------------------------------
(* What a file reads like after a result was written *)

Written(list, t, c) == AppendSegment(list, [start |-> t.start, data |-> c])

LEMMA WrittenReads ==
  ASSUME NEW list \in ListType, AllInSpace(list), NEW t, IsTarget(t),
         NEW c \in Seq(Byte), Len(c) = Size, NEW after, after = Written(list, t, c)
  PROVE  /\ after \in ListType /\ AllInSpace(after)
         /\ \A a \in Int : ~In(a, t) => ReadByte(after, a) = ReadByte(list, a)
         /\ \A k \in 1..2 : ReadByte(after, t.start + k - 1) = c[k]
<1>1. PICK s : s = [start |-> t.start, data |-> c]
  OBVIOUS
<1>2. PICK x \in Int : x = t.start /\ x \in Addr /\ t.end = x + 1 /\ x + 1 <= MaxAddr
  BY RangeFacts DEF IsTarget
<1>3. s.start = x /\ s.data = c /\ Len(s.data) = 2
  BY <1>1, <1>2 DEF Size
<1>4. InSpace(s)
  <2>1. s \in [start : Addr, data : Seq(Byte)]
    BY <1>1, <1>2
  <2>2. x + 2 - 1 <= MaxAddr /\ 2 > 0
    BY <1>2, MaxAddrAssumption
  <2>3. Len(s.data) > 0 /\ s.start + Len(s.data) - 1 <= MaxAddr
    BY <2>2, <1>3
  <2>4. QED
    BY <2>1, <2>3, Zenon DEF InSpace
<1>5. PICK more : /\ more = <<s>> /\ more \in ListType /\ AllInSpace(more)
                  /\ \A a \in Int : ReadByte(more, a) =
                       IF Covers(s, a) THEN ByteAt(s, a) ELSE None
  BY <1>4, ReadOne
<1>6. after = list \o more
  <2>1. NonEmpty(more) = more
    BY <1>5, NonEmptyKeeps
  <2>2. QED
    BY <2>1, <1>1, <1>5 DEF Written, AppendSegment
<1>7. /\ after \in ListType /\ AllInSpace(after)
      /\ \A a \in Int : ReadByte(after, a) =
           IF ReadByte(more, a) # None THEN ReadByte(more, a) ELSE ReadByte(list, a)
  BY <1>5, <1>6, ReadConcat
<1>8. ASSUME NEW a \in Int, ~In(a, t)
      PROVE  ReadByte(after, a) = ReadByte(list, a)
  <2>1. ~(x <= a /\ a < x + 2)
    BY <1>2, <1>8 DEF In
  <2>2. ~Covers(s, a)
    BY <2>1, <1>3 DEF Covers
  <2>3. QED
    BY <2>2, <1>5, <1>7
<1>9. ASSUME NEW k \in 1..2
      PROVE  ReadByte(after, t.start + k - 1) = c[k]
  <2>1. PICK a \in Int : a = t.start + k - 1 /\ a = x + k - 1
    BY <1>2
  <2>2. Covers(s, a)
    <3>1. x <= a /\ a < x + 2
      BY <2>1
    <3>2. QED
      BY <3>1, <1>3 DEF Covers
  <2>3. ByteAt(s, a) = c[k]
    <3>1. a - x + 1 = k
      BY <2>1
    <3>2. QED
      BY <3>1, <1>3 DEF ByteAt
  <2>4. ByteAt(s, a) # None
    BY <2>2, <1>4, CoveredByte
  <2>5. ReadByte(more, a) = ByteAt(s, a)
    BY <2>2, <1>5
  <2>6. QED
    BY <2>1, <2>3, <2>4, <2>5, <1>7
<1>10. QED
  BY <1>7, <1>8, <1>9

\* read_bytes_contiguous sees only the addresses it is asked for.
LEMMA SameBytes ==
  ASSUME NEW list \in ListType, AllInSpace(list), NEW other \in ListType, AllInSpace(other),
         NEW a \in Addr, NEW len \in Nat \ {0},
         \A k \in a..(a + len - 1) : ReadByte(list, k) = ReadByte(other, k)
  PROVE  ReadBytesContiguous(list, a, len) = ReadBytesContiguous(other, a, len)
<1>1. a \in Int /\ len \in Int
  BY MaxAddrAssumption DEF Addr
<1>2. \A k \in a..(a + len - 1) : k \in Covered(list) <=> k \in Covered(other)
  BY <1>1, CoveredIs
<1>3. \A k \in 1..len : ReadByte(list, a + k - 1) = ReadByte(other, a + k - 1)
  <2> SUFFICES ASSUME NEW k \in 1..len
               PROVE  ReadByte(list, a + k - 1) = ReadByte(other, a + k - 1)
    OBVIOUS
  <2>1. a + k - 1 \in a..(a + len - 1)
    BY <1>1
  <2>2. QED
    BY <2>1
<1>4. [k \in 1..len |-> ReadByte(list, a + k - 1)] = [k \in 1..len |-> ReadByte(other, a + k - 1)]
  BY <1>3
<1>5. QED
  BY <1>2, <1>4, ReadContiguous

-----------------------------------------------------------------------------
(* A checksum is valid *)

\* Verifies, for any file, options and range.
Valid(list, o, t) ==
  Calculate(list, o, t) = ReadBytesContiguous(list, t.start, RangeLength(t))

\* A checksum that was written is valid: its own range is excluded.
LEMMA ValidAfterWrite ==
  ASSUME NEW list \in ListType, AllInSpace(list), NEW o \in ChecksumOptions,
         NEW t, IsTarget(t), NEW c, c = Calculate(list, o, t), c # None,
         NEW after, after = Written(list, t, c)
  PROVE  Valid(after, o, t)
<1>1. t \in RangeType /\ c \in Seq(Byte) /\ Len(c) = Size
  BY ResultType DEF IsTarget
<1>2. /\ after \in ListType /\ AllInSpace(after)
      /\ \A a \in Int : ~In(a, t) => ReadByte(after, a) = ReadByte(list, a)
      /\ \A k \in 1..2 : ReadByte(after, t.start + k - 1) = c[k]
  BY <1>1, WrittenReads
<1>3. Calculate(after, o, t) = c
  <2>1. \A a \in Int : Selected(o, t, a) => ~In(a, t)
    BY <1>1, NoneAssumption DEF Selected, ExcludedAt
  <2>2. SameReads(list, after, o, t)
    BY <2>1, <1>2 DEF SameReads
  <2>3. QED
    BY <2>2, <1>1, <1>2, SameCalculation
<1>4. ReadBytesContiguous(after, t.start, 2) = c
  <2>1. \A k \in 1..2 : c[k] \in Byte /\ c[k] # None
    <3>1. \A k \in 1..2 : k \in 1..Len(c)
      BY <1>1 DEF Size
    <3>2. QED
      BY <3>1, <1>1, ElementOfSeq, ByteAssumption
  <2>2. PICK x \in Int : x = t.start /\ x \in Addr
    BY MaxAddrAssumption DEF IsTarget, Addr
  <2>3. \A a \in x..(x + 2 - 1) : a \in Covered(after)
    <3> SUFFICES ASSUME NEW a \in x..(x + 2 - 1)
                 PROVE  a \in Covered(after)
      OBVIOUS
    <3>1. PICK k \in 1..2 : a = x + k - 1
      <4>1. a - x + 1 \in 1..2 /\ a = x + (a - x + 1) - 1
        BY <2>2
      <4>2. QED
        BY <4>1
    <3>2. ReadByte(after, a) # None
      BY <3>1, <2>1, <2>2, <1>2
    <3>3. a \in Int
      BY <2>2
    <3>4. QED
      BY <3>2, <3>3, <1>2, CoveredIs
  <2>4. ReadBytesContiguous(after, x, 2) = [k \in 1..2 |-> ReadByte(after, x + k - 1)]
    <3>1. 2 \in Nat \ {0} /\ 2 <= MaxAddr
      BY SizeAssumption DEF Size
    <3>2. QED
      BY <3>1, <2>2, <2>3, <1>2, ReadContiguous
  <2>5. [k \in 1..2 |-> ReadByte(after, x + k - 1)] = [k \in 1..2 |-> c[k]]
    BY <2>2, <1>2
  <2>6. [k \in 1..2 |-> c[k]] = c
    BY <1>1, SeqDef DEF Size
  <2>7. QED
    BY <2>2, <2>4, <2>5, <2>6
<1>5. RangeLength(t) = 2
  BY DEF IsTarget, Size
<1>6. QED
  BY <1>3, <1>4, <1>5 DEF Valid

\* It stays valid when something is written elsewhere, to addresses that it
\* does not take into account.
ReachedBy(o, a) ==
  /\ o.range = None \/ (o.range.start <= a /\ a <= o.range.end)
  /\ ~\E k \in DOMAIN o.exclude : o.exclude[k].start <= a /\ a <= o.exclude[k].end

LEMMA ValidElsewhere ==
  ASSUME NEW list \in ListType, AllInSpace(list), NEW o \in ChecksumOptions,
         NEW t, IsTarget(t), Valid(list, o, t),
         NEW u, IsTarget(u), ~Overlaps(u, t), \A a \in u.start..u.end : ~ReachedBy(o, a),
         NEW c \in Seq(Byte), Len(c) = Size, NEW after, after = Written(list, u, c)
  PROVE  Valid(after, o, t)
<1>1. /\ after \in ListType /\ AllInSpace(after)
      /\ \A a \in Int : ~In(a, u) => ReadByte(after, a) = ReadByte(list, a)
  BY WrittenReads
<1>2. /\ t \in RangeType /\ u \in RangeType
      /\ t.start \in Int /\ t.end \in Int /\ u.start \in Int /\ u.end \in Int
      /\ t.start \in Addr /\ t.end = t.start + 1 /\ RangeLength(t) = 2
  BY RangeFacts DEF IsTarget, Size
<1>3. ASSUME NEW a \in Int, Selected(o, t, a)
      PROVE  ~In(a, u)
  <2>1. DOMAIN o.exclude = 1..Len(o.exclude)
    BY LenProperties DEF ChecksumOptions
  <2>2. ReachedBy(o, a)
    BY <2>1, <1>3 DEF ReachedBy, Selected, InLimit, ExcludedAt, InAny, In
  <2>3. a \notin u.start..u.end
    BY <2>2
  <2>4. QED
    BY <2>3, <1>2 DEF In
<1>4. Calculate(after, o, t) = Calculate(list, o, t)
  <2>1. SameReads(list, after, o, t)
    BY <1>1, <1>3 DEF SameReads
  <2>2. QED
    BY <2>1, <1>1, <1>2, SameCalculation
<1>5. ReadBytesContiguous(after, t.start, 2) = ReadBytesContiguous(list, t.start, 2)
  <2>1. PICK x \in Addr : x = t.start
    BY <1>2
  <2>2. \A a \in x..(x + 2 - 1) : ReadByte(list, a) = ReadByte(after, a)
    <3> SUFFICES ASSUME NEW a \in x..(x + 2 - 1)
                 PROVE  ReadByte(list, a) = ReadByte(after, a)
      OBVIOUS
    <3>1. a \in Int /\ t.start <= a /\ a <= t.end
      BY <1>2, <2>1
    <3>2. ~In(a, u)
      BY <3>1, <1>2 DEF Overlaps, In
    <3>3. QED
      BY <3>1, <3>2, <1>1
  <2>3. 2 \in Nat \ {0}
    OBVIOUS
  <2>4. ReadBytesContiguous(list, x, 2) = ReadBytesContiguous(after, x, 2)
    BY <1>1, <2>2, <2>3, SameBytes
  <2>5. QED
    BY <2>1, <2>4
<1>6. QED
  BY <1>2, <1>4, <1>5 DEF Valid

-----------------------------------------------------------------------------
(* All checksums so far *)

JobType == [options : ChecksumOptions, target : ChecksumTarget]

\* None of the writes after the n-th, up to the last, does harm to it.
LeftAlone(js, ranges, n, last) ==
  \A m \in (n + 1)..last : ranges[m] # None =>
    /\ ~Overlaps(ranges[m], ranges[n])
    /\ \A a \in ranges[m].start..ranges[m].end : ~ReachedBy(js[n].options, a)

\* EarlierStayValid, for any file, jobs and ranges.
AllValid(list, js, ranges, last) ==
  \A n \in 1..last :
    ranges[n] # None /\ LeftAlone(js, ranges, n, last)
      => Valid(list, js[n].options, ranges[n])

\* The ranges that the results went to.
RangesType(ranges, last) ==
  /\ ranges \in Seq(RangeType \union {None}) /\ Len(ranges) = last
  /\ \A n \in 1..last : ranges[n] # None => IsTarget(ranges[n])

\* more is ranges with r after it.
IsLonger(more, ranges, r, js, last) ==
  /\ more[last + 1] = r
  /\ \A n \in 1..last : more[n] = ranges[n]
  /\ \A n \in 1..last : LeftAlone(js, more, n, last + 1) => LeftAlone(js, ranges, n, last)

\* One more job leaves the older entries as they are.
LEMMA OneMore ==
  ASSUME NEW js, NEW last \in Nat, NEW ranges, RangesType(ranges, last),
         NEW r \in RangeType \union {None}, r # None => IsTarget(r),
         NEW more, more = Append(ranges, r)
  PROVE  RangesType(more, last + 1) /\ IsLonger(more, ranges, r, js, last)
<1>1. /\ more \in Seq(RangeType \union {None}) /\ Len(more) = last + 1
      /\ more[last + 1] = r /\ \A n \in 1..last : more[n] = ranges[n]
  BY AppendProperties DEF RangesType
<1>2. 1..(last + 1) = (1..last) \union {last + 1}
  OBVIOUS
<1>3. \A n \in 1..(last + 1) : more[n] # None => IsTarget(more[n])
  BY <1>1, <1>2 DEF RangesType
<1>4. ASSUME NEW n \in 1..last, LeftAlone(js, more, n, last + 1)
      PROVE  LeftAlone(js, ranges, n, last)
  <2>1. \A m \in (n + 1)..last : m \in (n + 1)..(last + 1) /\ m \in 1..last
    OBVIOUS
  <2>2. \A m \in (n + 1)..last : more[m] = ranges[m]
    BY <2>1, <1>1
  <2>3. more[n] = ranges[n]
    BY <1>1
  <2>4. QED
    BY <2>1, <2>2, <2>3, <1>4 DEF LeftAlone
<1>5. QED
  BY <1>1, <1>3, <1>4 DEF RangesType, IsLonger

\* A job that writes nothing.
LEMMA ValidAfterNothing ==
  ASSUME NEW list, NEW js, NEW last \in Nat, NEW ranges, RangesType(ranges, last),
         AllValid(list, js, ranges, last)
  PROVE  AllValid(list, js, Append(ranges, None), last + 1)
<1>1. PICK more : more = Append(ranges, None)
  OBVIOUS
<1>2. /\ more[last + 1] = None /\ \A n \in 1..last : more[n] = ranges[n]
      /\ \A n \in 1..last : LeftAlone(js, more, n, last + 1) => LeftAlone(js, ranges, n, last)
  <2>1. None \in RangeType \union {None} /\ (None # None => IsTarget(None))
    OBVIOUS
  <2>2. IsLonger(more, ranges, None, js, last)
    BY <2>1, <1>1, OneMore
  <2>3. QED
    BY <2>2 DEF IsLonger
<1>3. 1..(last + 1) = (1..last) \union {last + 1}
  OBVIOUS
<1>4. QED
  BY <1>1, <1>2, <1>3 DEF AllValid

\* A job that writes its result.
LEMMA ValidAfterJob ==
  ASSUME NEW list \in ListType, AllInSpace(list), NEW js \in Seq(JobType),
         NEW last \in Nat, last + 1 <= Len(js),
         NEW ranges, RangesType(ranges, last), AllValid(list, js, ranges, last),
         NEW t, IsTarget(t),
         NEW c, c = Calculate(list, js[last + 1].options, t), c # None,
         NEW after, after = Written(list, t, c)
  PROVE  AllValid(after, js, Append(ranges, t), last + 1)
<1>1. PICK more : more = Append(ranges, t)
  OBVIOUS
<1>2. t \in RangeType /\ t \in RangeType \union {None} /\ t # None
  BY NoneAssumption DEF IsTarget
<1>3. /\ more[last + 1] = t /\ \A n \in 1..last : more[n] = ranges[n]
      /\ \A n \in 1..last : LeftAlone(js, more, n, last + 1) => LeftAlone(js, ranges, n, last)
  <2>1. IsLonger(more, ranges, t, js, last)
    BY <1>1, <1>2, OneMore
  <2>2. QED
    BY <2>1 DEF IsLonger
<1>4. \A n \in 1..(last + 1) : js[n].options \in ChecksumOptions
  <2>1. \A n \in 1..(last + 1) : n \in 1..Len(js)
    BY LenProperties
  <2>2. \A n \in 1..Len(js) : js[n] \in JobType
    BY ElementOfSeq
  <2>3. \A j \in JobType : j.options \in ChecksumOptions
    BY DEF JobType
  <2>4. QED
    BY <2>1, <2>2, <2>3
<1>5. last + 1 \in 1..(last + 1)
  OBVIOUS
<1>6. c \in Seq(Byte) /\ Len(c) = Size
  BY <1>2, <1>4, <1>5, ResultType
<1>7. Valid(after, js[last + 1].options, more[last + 1])
  BY <1>3, <1>4, <1>5, ValidAfterWrite
<1>8. ASSUME NEW n \in 1..last, more[n] # None, LeftAlone(js, more, n, last + 1)
      PROVE  Valid(after, js[n].options, more[n])
  <2>1. PICK o \in ChecksumOptions, u \in {ranges[n]} : o = js[n].options /\ u = ranges[n]
    BY <1>4
  <2>2. IsTarget(u) /\ Valid(list, o, u)
    BY <2>1, <1>3, <1>8 DEF AllValid, RangesType
  <2>3. ~Overlaps(t, u) /\ \A a \in t.start..t.end : ~ReachedBy(o, a)
    <3>1. last + 1 \in (n + 1)..(last + 1)
      OBVIOUS
    <3>2. QED
      BY <3>1, <2>1, <1>2, <1>3, <1>8 DEF LeftAlone
  <2>4. Valid(after, o, u)
    BY <2>2, <2>3, <1>6, ValidElsewhere
  <2>5. QED
    BY <2>1, <2>4, <1>3
<1>9. 1..(last + 1) = (1..last) \union {last + 1}
  OBVIOUS
<1>10. QED
  BY <1>1, <1>7, <1>8, <1>9 DEF AllValid

-----------------------------------------------------------------------------
(* The inductive invariant *)

TypeInv ==
  /\ segments \in ListType /\ AllInSpace(segments)
  /\ jobs \in Seq(JobType)
  /\ out \in Seq(Seq(Byte)) /\ Len(out) <= Len(jobs)
  /\ res \in {"ok", "error"}
  /\ RangesType(wrote, Len(out))

IInv == TypeInv /\ AllValid(segments, jobs, wrote, Len(out))

LEMMA InitInv == Init => IInv
<1> SUFFICES ASSUME Init
             PROVE  IInv
  OBVIOUS
<1>1. segments \in ListType /\ AllInSpace(segments)
  <2>1. segments \in Seq(StoredSegment)
    BY FilesAssumption DEF Init, StoredSegment
  <2>2. QED
    BY <2>1, StoredList
<1>2. jobs \in Seq(JobType)
  BY JobsAssumption DEF Init, JobType
<1>3. out = <<>> /\ wrote = <<>> /\ res = "ok" /\ Len(out) = 0 /\ Len(wrote) = 0
  BY EmptySeq DEF Init
<1>4. out \in Seq(Seq(Byte)) /\ Len(out) <= Len(jobs)
  BY <1>2, <1>3, EmptySeq, LenProperties
<1>5. 1..0 = {}
  OBVIOUS
<1>6. RangesType(wrote, Len(out))
  BY <1>3, <1>5, EmptySeq DEF RangesType
<1>7. AllValid(segments, jobs, wrote, Len(out))
  BY <1>3, <1>5 DEF AllValid
<1>8. QED
  BY <1>1, <1>2, <1>3, <1>4, <1>6, <1>7 DEF IInv, TypeInv

\* The next job, its options and its target.
LEMMA NextJob ==
  ASSUME TypeInv, Running
  PROVE  /\ Len(out) \in Nat /\ Len(out) + 1 <= Len(jobs)
         /\ job = jobs[Len(out) + 1] /\ job \in JobType
         /\ job.options \in ChecksumOptions /\ job.target \in ChecksumTarget
<1>1. Len(out) \in Nat /\ Len(jobs) \in Nat /\ Len(out) < Len(jobs)
  BY LenProperties DEF TypeInv, Running
<1>2. Len(out) + 1 \in 1..Len(jobs)
  BY <1>1
<1>3. jobs[Len(out) + 1] \in JobType
  BY <1>2, ElementOfSeq DEF TypeInv
<1>4. job = jobs[Len(out) + 1]
  BY DEF job
<1>5. QED
  BY <1>1, <1>2, <1>3, <1>4 DEF JobType

LEMMA RunJobInv ==
  ASSUME IInv, RunJob
  PROVE  IInv'
<1>1. PICK last \in Nat, o \in ChecksumOptions, target \in ChecksumTarget :
        /\ last = Len(out) /\ last + 1 <= Len(jobs)
        /\ o = job.options /\ o = jobs[last + 1].options /\ target = job.target
  BY NextJob DEF IInv, RunJob
<1>2. PICK at, t, c : /\ at = ExcludeStart(segments, target)
                      /\ t = TargetRange(segments, target)
                      /\ c = Calculate(segments, o, t)
  OBVIOUS
<1>3. TypeInv /\ AllValid(segments, jobs, wrote, last) /\ RangesType(wrote, last)
  BY <1>1 DEF IInv, TypeInv
<1>4. IF at = None THEN t = None
      ELSE t = FromStartLength(at, Size) /\ IsTarget(t) /\ t.start = at
  <2>1. TargetFits(segments, target)
    BY <1>1 DEF RunJob
  <2>2. QED
    BY <2>1, <1>2, <1>3, SpotFacts DEF TypeInv
<1>5. c # None /\ c = Result
  BY <1>1, <1>2 DEF RunJob, Result
<1>6. c \in Seq(Byte) /\ Len(c) = Size
  <2>1. t = None \/ t \in RangeType
    BY <1>4 DEF IsTarget
  <2>2. QED
    BY <2>1, <1>2, <1>3, <1>5, ResultType DEF TypeInv
<1>7. WriteStart(segments, target, c) = at
  BY <1>2, <1>6, WritesThere
<1>8. /\ segments' = IF at = None THEN segments ELSE Written(segments, t, c)
      /\ wrote' = Append(wrote, t)
      /\ out' = Append(out, c) /\ jobs' = jobs /\ res' = res
  <2>1. /\ segments' = IF at = None THEN segments
                       ELSE AppendSegment(segments, [start |-> at, data |-> c])
        /\ wrote' = Append(wrote, IF at = None THEN None ELSE FromStartLength(at, Size))
        /\ out' = Append(out, c) /\ jobs' = jobs /\ res' = res
    BY <1>1, <1>5, <1>6, <1>7 DEF RunJob
  <2>2. QED
    BY <2>1, <1>4 DEF Written
<1>9. /\ out' \in Seq(Seq(Byte)) /\ Len(out') = last + 1
      /\ jobs' \in Seq(JobType) /\ res' \in {"ok", "error"} /\ Len(out') <= Len(jobs')
  BY <1>1, <1>3, <1>6, <1>8, AppendProperties DEF TypeInv
<1>10. segments' \in ListType /\ AllInSpace(segments')
  <2>1. CASE at = None
    BY <2>1, <1>3, <1>8 DEF TypeInv
  <2>2. CASE at # None
    BY <2>2, <1>3, <1>4, <1>6, <1>8, WrittenReads DEF TypeInv
  <2>3. QED
    BY <2>1, <2>2
<1>11. RangesType(wrote', last + 1)
  <2>1. t \in RangeType \union {None} /\ (t # None => IsTarget(t))
    BY <1>4 DEF IsTarget
  <2>2. QED
    BY <2>1, <1>3, <1>8, OneMore
<1>12. AllValid(segments', jobs', wrote', last + 1)
  <2>1. CASE at = None
    BY <2>1, <1>3, <1>4, <1>8, ValidAfterNothing
  <2>2. CASE at # None
    <3>1. jobs \in Seq(JobType) /\ segments \in ListType /\ AllInSpace(segments)
      BY <1>3 DEF TypeInv
    <3>2. IsTarget(t) /\ c = Calculate(segments, jobs[last + 1].options, t)
      BY <2>2, <1>1, <1>2, <1>4
    <3>3. AllValid(Written(segments, t, c), jobs, Append(wrote, t), last + 1)
      BY <3>1, <3>2, <1>1, <1>3, <1>5, ValidAfterJob
    <3>4. QED
      BY <3>3, <2>2, <1>8
  <2>3. QED
    BY <2>1, <2>2
<1>13. QED
  BY <1>9, <1>10, <1>11, <1>12 DEF IInv, TypeInv

LEMMA NextInv ==
  IInv /\ [Next]_vars => IInv'
<1> SUFFICES ASSUME IInv, [Next]_vars
             PROVE  IInv'
  OBVIOUS
<1>1. CASE RunJob
  BY <1>1, RunJobInv
<1>2. CASE FailJob
  BY <1>2 DEF FailJob, IInv, TypeInv
<1>3. CASE UNCHANGED vars
  BY <1>3 DEF vars, IInv, TypeInv
<1>4. QED
  BY <1>1, <1>2, <1>3 DEF Next

\* checksum_many_sequential: a file of segments, at most one result per job and
\* every result of two bytes inside the address space.
THEOREM TypeCorrectness ==
  Spec => []TypeInv
<1>1. IInv => TypeInv
  BY DEF IInv
<1>2. QED
  BY <1>1, InitInv, NextInv, PTL DEF Spec

\* A checksum stays valid through all later jobs that write neither over it
\* nor into what it takes into account: for every file, every list of jobs and
\* every algorithm.
THEOREM StaysValid ==
  Spec => []EarlierStayValid
<1>1. IInv => EarlierStayValid
  <2> SUFFICES ASSUME IInv, NEW n \in 1..Len(out), wrote[n] # None,
                      \A m \in (n + 1)..Len(out) : wrote[m] # None =>
                        /\ ~Overlaps(wrote[m], wrote[n])
                        /\ \A a \in wrote[m].start..wrote[m].end : ~Reaches(n, a)
               PROVE  Verifies(n)
    BY DEF EarlierStayValid, Done
  <2>1. LeftAlone(jobs, wrote, n, Len(out))
    BY DEF LeftAlone, Reaches, ReachedBy
  <2>2. Valid(segments, jobs[n].options, wrote[n])
    BY <2>1 DEF IInv, AllValid
  <2>3. QED
    BY <2>2 DEF Valid, Verifies
<1>2. QED
  BY <1>1, InitInv, NextInv, PTL DEF Spec

\* A checksum is valid right after it was written, although its own bytes then
\* lie in the file: calculate_checksum excludes the very bytes that checksum()
\* writes, wherever the target puts them.
THEOREM ValidWhenWritten ==
  Spec => []LastVerifies
<1>1. IInv => LastVerifies
  <2> SUFFICES ASSUME IInv, out # <<>>, wrote[Len(out)] # None
               PROVE  Verifies(Len(out))
    BY DEF LastVerifies
  <2>1. Len(out) \in Nat /\ Len(out) > 0
    BY LenProperties, EmptySeq DEF IInv, TypeInv
  <2>2. Len(out) \in 1..Len(out) /\ (Len(out) + 1)..Len(out) = {}
    BY <2>1
  <2>3. LeftAlone(jobs, wrote, Len(out), Len(out))
    BY <2>2 DEF LeftAlone
  <2>4. Valid(segments, jobs[Len(out)].options, wrote[Len(out)])
    BY <2>2, <2>3 DEF IInv, AllValid
  <2>5. QED
    BY <2>4 DEF Valid, Verifies
<1>2. QED
  BY <1>1, InitInv, NextInv, PTL DEF Spec

=============================================================================

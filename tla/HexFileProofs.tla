--------------------------- MODULE HexFileProofs ---------------------------
(***************************************************************************)
(* What HexFile promises, for every size of the address space, every set   *)
(* of bytes and every set of calls: the lists it stores, the two ways of   *)
(* reading it, the sparse image it implements, and what align, split, the  *)
(* swaps and scale_addresses answer.                                       *)
(***************************************************************************)
EXTENDS HexFile, ListLemmas, FiniteSetTheorems

-----------------------------------------------------------------------------
(* Lists made piece by piece *)

\* The list reads as the part of the segment s in S.
IsPart(list, s, S) ==
  \A a \in Int : ReadByte(list, a) =
    IF a \in S /\ Covers(s, a) THEN ByteAt(s, a) ELSE None

\* Each element of a list of lists reads as its segment's part in S.
ArePieces(seqs, list, S) ==
  /\ seqs = [n \in 1..Len(list) |-> seqs[n]]
  /\ \A n \in 1..Len(list) : seqs[n] \in Seq(StoredSegment) /\ IsPart(seqs[n], list[n], S)

\* The list reads as the other does in S, and as nothing elsewhere.
ReadsIn(new, list, S) ==
  \A a \in Int : ReadByte(new, a) = IF a \in S THEN ReadByte(list, a) ELSE None

\* Pieces of one segment that make up its part in S.
LEMMA PiecesRead ==
  ASSUME NEW s, InSpace(s), NEW list \in ListType, AllInSpace(list), NEW S,
         \A n \in 1..Len(list) : \A a \in Int : \A b :
           Has(list[n], a, b) => Has(s, a, b) /\ a \in S,
         \A a \in Int : a \in S /\ Covers(s, a)
                          => \E n \in 1..Len(list) : Covers(list[n], a)
  PROVE  IsPart(list, s, S)
<1> SUFFICES ASSUME NEW a \in Int
             PROVE  ReadByte(list, a) = IF a \in S /\ Covers(s, a) THEN ByteAt(s, a) ELSE None
  BY DEF IsPart
<1>1. CASE \E n \in 1..Len(list) : Covers(list[n], a)
  <2>1. LastWins(list, Len(list), a, ReadByte(list, a))
    BY <1>1, ReadIsLastWins
  <2>2. PICK n \in 1..Len(list) : Has(list[n], a, ReadByte(list, a))
    BY <2>1 DEF LastWins
  <2>3. Has(s, a, ReadByte(list, a)) /\ a \in S
    BY <2>2
  <2>4. QED
    BY <2>3 DEF Has
<1>2. CASE ~\E n \in 1..Len(list) : Covers(list[n], a)
  <2>1. ReadByte(list, a) = None
    BY <1>2, ReadIsLastWins
  <2>2. QED
    BY <2>1, <1>2
<1>3. QED
  BY <1>1, <1>2

\* Lists of pieces of the segments of a list, one after the other.
LEMMA FlattenReads ==
  ASSUME NEW list \in ListType, AllInSpace(list), NEW S,
         NEW seqs \in Seq(ListType), Len(seqs) = Len(list),
         \A n \in 1..Len(list) : AllInSpace(seqs[n]) /\ IsPart(seqs[n], list[n], S)
  PROVE  ReadsIn(FlattenSeq(seqs), list, S)
<1> DEFINE n == Len(list)
<1>1. n \in Nat
  BY LenProperties DEF ListType
<1>2. PICK acc \in [0..n -> ListType] :
        /\ acc[0] = <<>>
        /\ \A k \in 1..n : acc[k] = acc[k - 1] \o seqs[k]
        /\ FlattenSeq(seqs) = acc[n]
  <2>1. seqs \in Seq(Seq(SegRecord)) /\ ListType = Seq(SegRecord)
    BY DEF ListType, SegRecord
  <2>2. PICK X : X = SegRecord
    OBVIOUS
  <2>3. \E acc \in [0..Len(seqs) -> Seq(X)] :
           /\ acc[0] = <<>>
           /\ \A k \in 1..Len(seqs) : acc[k] = acc[k - 1] \o seqs[k]
           /\ FlattenSeq(seqs) = acc[Len(seqs)]
    BY <2>1, <2>2, FlattenRun
  <2>4. QED
    BY <2>1, <2>2, <2>3
<1> DEFINE Reads(k) == \A a \in Int : \A b : b # None =>
                         (ReadByte(acc[k], a) = b <=> a \in S /\ LastWins(list, k, a, b))
           T == {k \in 0..n : AllInSpace(acc[k]) /\ Reads(k)}
<1>3. 0 \in T
  <2>1. \A a \in Int : ReadByte(acc[0], a) = None
    BY <1>2, ReadEmpty
  <2>2. \A a, b : ~LastWins(list, 0, a, b)
    BY DEF LastWins
  <2>3. AllInSpace(acc[0])
    BY <1>2, EmptyList
  <2>4. QED
    BY <1>1, <2>1, <2>2, <2>3
<1>4. ASSUME NEW k \in 0..(n - 1), k \in T
      PROVE  k + 1 \in T
  <2>1. k + 1 \in 1..n /\ (k + 1) - 1 = k /\ k \in Nat /\ k \in 0..n /\ k + 1 \in 0..n
    BY <1>1
  <2>2. PICK done, part, s : done = acc[k] /\ part = seqs[k + 1] /\ s = list[k + 1]
    OBVIOUS
  <2>3. /\ acc[k + 1] = done \o part
        /\ done \in ListType /\ AllInSpace(done)
        /\ part \in ListType /\ AllInSpace(part)
    BY <1>2, <1>4, <2>1, <2>2, ElementOfSeq
  <2>4. /\ AllInSpace(done \o part)
        /\ \A a \in Int : ReadByte(done \o part, a) =
             IF ReadByte(part, a) # None THEN ReadByte(part, a) ELSE ReadByte(done, a)
    BY <2>3, ReadConcat
  <2>5. \A a \in Int : ReadByte(part, a) =
          IF a \in S /\ Covers(s, a) THEN ByteAt(s, a) ELSE None
    BY <2>1, <2>2 DEF IsPart
  <2>6. \A a \in Int : Covers(s, a) => ByteAt(s, a) # None
    BY <2>1, <2>2, CoveredByte DEF AllInSpace
  <2>7. \A a, b : LastWins(list, k + 1, a, b)
          <=> Has(s, a, b) \/ (~Covers(s, a) /\ LastWins(list, k, a, b))
    BY <2>1, <2>2, LastWinsStep
  <2>8. \A a \in Int : \A b : b # None =>
          (ReadByte(done, a) = b <=> a \in S /\ LastWins(list, k, a, b))
    BY <1>4, <2>2
  <2>9. Reads(k + 1)
    <3> SUFFICES ASSUME NEW a \in Int, NEW b, b # None
                 PROVE  ReadByte(done \o part, a) = b <=> a \in S /\ LastWins(list, k + 1, a, b)
      BY <2>3
    <3>1. CASE Covers(s, a)
      <4>1. LastWins(list, k + 1, a, b) <=> ByteAt(s, a) = b
        BY <2>7, <3>1 DEF Has
      <4>2. CASE a \in S
        BY <2>4, <2>5, <2>6, <3>1, <4>1, <4>2
      <4>3. CASE a \notin S
        BY <2>4, <2>5, <2>8, <3>1, <4>3
      <4>4. QED
        BY <4>2, <4>3
    <3>2. CASE ~Covers(s, a)
      <4>1. LastWins(list, k + 1, a, b) <=> LastWins(list, k, a, b)
        BY <2>7, <3>2 DEF Has
      <4>2. ReadByte(done \o part, a) = ReadByte(done, a)
        BY <2>4, <2>5, <3>2
      <4>3. QED
        BY <4>1, <4>2, <2>8
    <3>3. QED
      BY <3>1, <3>2
  <2>10. QED
    BY <2>1, <2>3, <2>4, <2>9
<1>5. n \in T /\ n \in 0..n
  <2> HIDE DEF T, n
  <2>1. \A k \in 0..n : k \in T
    BY <1>1, <1>3, <1>4, InductionUpTo
  <2>2. QED
    BY <2>1, <1>1
<1> SUFFICES ASSUME NEW a \in Int
             PROVE  ReadByte(acc[n], a) = IF a \in S THEN ReadByte(list, a) ELSE None
  BY <1>2 DEF ReadsIn
<1>6. \A b : b # None => (ReadByte(acc[n], a) = b <=> a \in S /\ LastWins(list, n, a, b))
  BY <1>5
<1>7. CASE a \in S /\ ReadByte(list, a) # None
  <2>1. LastWins(list, n, a, ReadByte(list, a))
    BY <1>7, ReadCovered, ReadIsLastWins
  <2>2. QED
    BY <1>6, <1>7, <2>1
<1>8. CASE ~(a \in S /\ ReadByte(list, a) # None)
  <2>1. ASSUME ReadByte(acc[n], a) # None
        PROVE  FALSE
    <3>1. a \in S /\ LastWins(list, n, a, ReadByte(acc[n], a))
      BY <1>6, <2>1
    <3>2. ReadByte(list, a) = ReadByte(acc[n], a)
      BY <3>1, ReadWins
    <3>3. QED
      BY <3>1, <3>2, <2>1, <1>8
  <2>2. QED
    BY <2>1, <1>8
<1>9. QED
  BY <1>7, <1>8

\* A list made element by element.
LEMMA MadeStored ==
  ASSUME NEW X, NEW N \in Nat, NEW f, f = [k \in 1..N |-> f[k]], \A k \in 1..N : f[k] \in X
  PROVE  f \in Seq(X) /\ Len(f) = N
<1>1. f \in Seq(X)
  BY IsASeq
<1>2. DOMAIN f = 1..N
  OBVIOUS
<1>3. QED
  BY <1>1, <1>2, LenProperties

\* A slice of a stored segment.
LEMMA ClipStored ==
  ASSUME NEW s \in StoredSegment, NEW lo \in Int, NEW hi \in Int,
         s.start <= lo, lo <= hi, hi <= EndAddress(s)
  PROVE  /\ Clip(s, lo, hi) \in StoredSegment
         /\ \A a \in Int : \A b : Has(Clip(s, lo, hi), a, b)
                                <=> lo <= a /\ a <= hi /\ Has(s, a, b)
<1>1. InSpace(s) /\ Len(s.data) <= MaxAddr
  BY StoredFacts
<1>2. PICK c : /\ c = Clip(s, lo, hi) /\ InSpace(c) /\ c.start = lo /\ EndAddress(c) = hi
               /\ \A a \in Int : \A b : Has(c, a, b) <=> lo <= a /\ a <= hi /\ Has(s, a, b)
  BY <1>1, ClipInSpace
<1>3. /\ EndAddress(c) = c.start + Len(c.data) - 1
      /\ EndAddress(s) = s.start + Len(s.data) - 1
  BY <1>1, <1>2, SpanInSpace
<1>4. Len(c.data) \in Nat /\ Len(s.data) \in Nat
  BY <1>1, <1>2, LenProperties DEF InSpace
<1>5. Len(c.data) <= MaxAddr
  <2>1. s.start \in Int
    BY <1>1, MaxAddrAssumption DEF InSpace, Addr
  <2>2. QED
    BY <2>1, <1>1, <1>2, <1>3, <1>4, MaxAddrAssumption
<1>6. QED
  BY <1>2, <1>5, StoredFacts

-----------------------------------------------------------------------------
(* filter_ranges *)

\* The parts of a segment in the ranges.
LEMMA PartsInRead ==
  ASSUME NEW s \in StoredSegment, NEW merged \in Seq(RangeType)
  PROVE  /\ PartsIn(s, merged) \in Seq(StoredSegment)
         /\ \A a \in Int : ReadByte(PartsIn(s, merged), a) =
              IF InAny(a, merged) /\ Covers(s, a) THEN ByteAt(s, a) ELSE None
<1> DEFINE H == {r \in ToSet(merged) : Overlaps(SegRange(s), r)}
<1>1. PICK span : /\ span = SegRange(s) /\ span \in RangeType
                  /\ span.start = s.start /\ span.end = EndAddress(s)
                  /\ \A a \in Int : In(a, span) <=> Covers(s, a)
  BY StoredFacts, SegRangeIn
<1>2. PICK hit : /\ hit = Keep(merged, H) /\ hit \in Seq(RangeType)
                 /\ \A y : IsIn(hit, y) <=> IsIn(merged, y) /\ y \in H
  BY KeepElements
<1>3. DOMAIN merged = 1..Len(merged) /\ DOMAIN hit = 1..Len(hit) /\ Len(hit) \in Nat
  BY <1>2, LenProperties
<1>4. \A y : y \in ToSet(merged) <=> IsIn(merged, y)
  BY <1>3 DEF ToSet, IsIn
<1> DEFINE Part(r) == Clip(s, Intersection(span, r).start, Intersection(span, r).end)
           parts == [n \in 1..Len(hit) |-> Part(hit[n])]
<1>5. PartsIn(s, merged) = parts
  BY <1>1, <1>2, <1>3 DEF PartsIn
<1>6. ASSUME NEW r \in RangeType, Overlaps(span, r)
      PROVE  /\ Part(r) \in StoredSegment
             /\ \A a \in Int : \A b : Has(Part(r), a, b) <=> In(a, r) /\ Has(s, a, b)
  <2>1. PICK t : /\ t = Intersection(span, r) /\ t \in RangeType
                 /\ \A a \in Int : In(a, t) <=> In(a, span) /\ In(a, r)
    BY <1>1, <1>6, IntersectionIn
  <2>2. /\ t.start \in Int /\ t.end \in Int /\ t.start <= t.end
    BY <2>1, RangeFacts
  <2>3. In(t.start, t) /\ In(t.end, t)
    BY <2>2 DEF In
  <2>4. In(t.start, span) /\ In(t.end, span)
    BY <2>1, <2>2, <2>3
  <2>5. s.start <= t.start /\ t.end <= EndAddress(s)
    BY <2>4, <1>1 DEF In
  <2>6. /\ Clip(s, t.start, t.end) \in StoredSegment
        /\ \A a \in Int : \A b : Has(Clip(s, t.start, t.end), a, b)
                               <=> t.start <= a /\ a <= t.end /\ Has(s, a, b)
    BY <2>2, <2>5, ClipStored
  <2>7. \A a \in Int : (t.start <= a /\ a <= t.end) <=> Covers(s, a) /\ In(a, r)
    BY <2>1, <1>1 DEF In
  <2>8. \A a \in Int : \A b : Has(Part(r), a, b) <=> In(a, r) /\ Has(s, a, b)
    BY <2>1, <2>6, <2>7 DEF Has
  <2>9. QED
    BY <2>1, <2>6, <2>8
<1>7. ASSUME NEW n \in 1..Len(hit)
      PROVE  /\ hit[n] \in RangeType /\ Overlaps(span, hit[n])
             /\ \E m \in 1..Len(merged) : merged[m] = hit[n]
  <2>1. IsIn(hit, hit[n])
    BY DEF IsIn
  <2>2. IsIn(merged, hit[n]) /\ hit[n] \in H
    BY <2>1, <1>2
  <2>3. hit[n] \in RangeType
    BY <1>2, ElementOfSeq
  <2>4. QED
    BY <2>2, <2>3, <1>1 DEF IsIn
<1> HIDE DEF Part
<1>8. parts \in Seq(StoredSegment) /\ Len(parts) = Len(hit)
  <2>1. parts = [n \in 1..Len(hit) |-> parts[n]] /\ \A n \in 1..Len(hit) : parts[n] \in StoredSegment
    BY <1>6, <1>7
  <2>2. QED
    BY <2>1, <1>3, MadeStored
<1>9. \A n \in 1..Len(hit) : \A a \in Int : \A b :
        Has(parts[n], a, b) <=> In(a, hit[n]) /\ Has(s, a, b)
  BY <1>6, <1>7
<1> DEFINE S == {a \in Int : InAny(a, merged)}
<1>10. \A n \in 1..Len(parts) : \A a \in Int : \A b :
         Has(parts[n], a, b) => Has(s, a, b) /\ a \in S
  BY <1>7, <1>8, <1>9 DEF InAny
<1>11. ASSUME NEW a \in Int, a \in S, Covers(s, a)
       PROVE  \E n \in 1..Len(parts) : Covers(parts[n], a)
  <2>1. PICK m \in 1..Len(merged) : In(a, merged[m])
    BY <1>11 DEF InAny
  <2>2. merged[m] \in RangeType
    BY ElementOfSeq
  <2>3. In(a, span)
    BY <1>1, <1>11
  <2>4. Overlaps(span, merged[m])
    <3>1. /\ span.start \in Int /\ span.end \in Int
          /\ merged[m].start \in Int /\ merged[m].end \in Int
      BY <1>1, <2>2, RangeFacts
    <3>2. QED
      BY <3>1, <2>1, <2>3 DEF Overlaps, In
  <2>5. IsIn(merged, merged[m]) /\ merged[m] \in H
    BY <2>4, <1>1, <1>4 DEF IsIn
  <2>6. IsIn(hit, merged[m])
    BY <2>5, <1>2
  <2>7. PICK n \in 1..Len(hit) : hit[n] = merged[m]
    BY <2>6 DEF IsIn
  <2>8. Has(parts[n], a, ByteAt(s, a))
    BY <2>1, <2>7, <1>9, <1>11 DEF Has
  <2>9. QED
    BY <2>8, <1>8 DEF Has
<1>12. InSpace(s) /\ parts \in ListType /\ AllInSpace(parts)
  BY <1>8, StoredFacts, StoredList
<1> HIDE DEF parts, S
<1>13. IsPart(parts, s, S)
  BY <1>10, <1>11, <1>12, PiecesRead
<1>14. \A a \in Int : a \in S <=> InAny(a, merged)
  BY DEF S
<1>15. QED
  BY <1>5, <1>8, <1>13, <1>14 DEF IsPart

\* Stored lists of pieces of the segments of a stored list.
LEMMA FlattenStored ==
  ASSUME NEW list \in Seq(StoredSegment), NEW S, NEW f, ArePieces(f, list, S)
  PROVE  /\ FlattenSeq(f) \in Seq(StoredSegment)
         /\ NonEmpty(FlattenSeq(f)) = FlattenSeq(f)
         /\ ReadsIn(FlattenSeq(f), list, S)
<1>1. Len(list) \in Nat /\ list \in ListType /\ AllInSpace(list)
  BY LenProperties, StoredList
<1>2. f \in Seq(Seq(StoredSegment)) /\ Len(f) = Len(list)
  BY <1>1, MadeStored DEF ArePieces
<1>3. f \in Seq(ListType)
  <2>1. \A n \in 1..Len(list) : f[n] \in ListType
    BY StoredList DEF ArePieces
  <2>2. QED
    BY <1>1, <2>1, MadeStored DEF ArePieces
<1>4. \A n \in 1..Len(list) : AllInSpace(f[n]) /\ IsPart(f[n], list[n], S)
  BY StoredList DEF ArePieces
<1>5. FlattenSeq(f) \in Seq(StoredSegment)
  BY <1>2, FlattenIn
<1>6. NonEmpty(FlattenSeq(f)) = FlattenSeq(f)
  BY <1>5, StoredList, NonEmptyKeeps
<1>7. QED
  BY <1>1, <1>2, <1>3, <1>4, <1>5, <1>6, FlattenReads

LEMMA FilterReads ==
  ASSUME NEW list \in Seq(StoredSegment), NEW ranges \in Seq(RangeType)
  PROVE  /\ FilterRanges(list, ranges) \in Seq(StoredSegment)
         /\ \A a \in Int : ReadByte(FilterRanges(list, ranges), a) =
              IF InAny(a, ranges) THEN ReadByte(list, a) ELSE None
<1>1. PICK merged : /\ merged = MergeRanges(ranges) /\ merged \in Seq(RangeType)
                    /\ \A a \in Int : InAny(a, merged) <=> InAny(a, ranges)
  BY MergeRangesApart
<1>2. NonEmpty(list) = list /\ DOMAIN list = 1..Len(list)
  BY StoredList, NonEmptyKeeps, LenProperties
<1> DEFINE f == [n \in 1..Len(list) |-> PartsIn(list[n], merged)]
           S == {a \in Int : InAny(a, merged)}
<1>3. FilterRanges(list, ranges) = NonEmpty(FlattenSeq(f))
  BY <1>1, <1>2 DEF FilterRanges
<1>4. ArePieces(f, list, S)
  <2> SUFFICES ASSUME NEW n \in 1..Len(list)
               PROVE  /\ PartsIn(list[n], merged) \in Seq(StoredSegment)
                      /\ \A a \in Int : ReadByte(PartsIn(list[n], merged), a) =
                           IF InAny(a, merged) /\ Covers(list[n], a)
                             THEN ByteAt(list[n], a) ELSE None
    BY DEF IsPart, ArePieces
  <2>1. list[n] \in StoredSegment
    BY ElementOfSeq
  <2>2. QED
    BY <2>1, <1>1, PartsInRead
<1>5. \A a \in Int : a \in S <=> InAny(a, ranges)
  BY <1>1
<1> HIDE DEF f, S
<1>6. /\ FlattenSeq(f) \in Seq(StoredSegment)
      /\ NonEmpty(FlattenSeq(f)) = FlattenSeq(f)
      /\ ReadsIn(FlattenSeq(f), list, S)
  BY <1>4, FlattenStored
<1>7. QED
  BY <1>3, <1>5, <1>6 DEF ReadsIn

-----------------------------------------------------------------------------
(* cut_ranges *)

\* A segment appended wins where it has bytes.
LEMMA AppendReads ==
  ASSUME NEW list \in Seq(StoredSegment), NEW s \in StoredSegment
  PROVE  /\ Append(list, s) \in Seq(StoredSegment)
         /\ \A a \in Int : ReadByte(Append(list, s), a) =
              IF Covers(s, a) THEN ByteAt(s, a) ELSE ReadByte(list, a)
<1>1. Append(list, s) \in Seq(StoredSegment)
  BY AppendProperties
<1>2. Append(list, s) = list \o <<s>>
  BY AppendIsConcat
<1>3. InSpace(s) /\ list \in ListType /\ AllInSpace(list)
  BY StoredFacts, StoredList
<1>4. PICK one : /\ one = <<s>> /\ one \in ListType /\ AllInSpace(one)
                 /\ \A a \in Int : ReadByte(one, a) =
                      IF Covers(s, a) THEN ByteAt(s, a) ELSE None
  BY <1>3, ReadOne
<1>5. \A a \in Int : ReadByte(list \o one, a) =
        IF ReadByte(one, a) # None THEN ReadByte(one, a) ELSE ReadByte(list, a)
  BY <1>3, <1>4, ReadConcat
<1>6. \A a \in Int : Covers(s, a) => ByteAt(s, a) # None
  BY <1>3, CoveredByte
<1>7. QED
  BY <1>1, <1>2, <1>4, <1>5, <1>6

LEMMA NothingStored == <<>> \in Seq(StoredSegment)
  BY EmptySeq

PartPushed(new, list, s, lo, hi) ==
  new = IF lo <= hi THEN Append(list, Clip(s, lo, hi)) ELSE list

\* The bytes of s from lo to hi over those of the list.
ReadsOver(new, list, s, lo, hi) ==
  \A a \in Int : ReadByte(new, a) =
    IF lo <= a /\ a <= hi THEN ByteAt(s, a) ELSE ReadByte(list, a)

\* A slice of a segment appended, unless it is empty.
LEMMA PushPart ==
  ASSUME NEW s \in StoredSegment, NEW list \in Seq(StoredSegment),
         NEW lo \in Int, NEW hi \in Int, s.start <= lo, hi <= EndAddress(s),
         NEW new, PartPushed(new, list, s, lo, hi)
  PROVE  new \in Seq(StoredSegment) /\ ReadsOver(new, list, s, lo, hi)
<1>1. CASE lo <= hi
  <2>1. PICK c : /\ c = Clip(s, lo, hi) /\ c \in StoredSegment
                 /\ \A a \in Int : \A b : Has(c, a, b) <=> lo <= a /\ a <= hi /\ Has(s, a, b)
    BY <1>1, ClipStored
  <2>2. new = Append(list, c)
    BY <1>1, <2>1 DEF PartPushed
  <2>3. /\ new \in Seq(StoredSegment)
        /\ \A a \in Int : ReadByte(new, a) =
             IF Covers(c, a) THEN ByteAt(c, a) ELSE ReadByte(list, a)
    BY <2>1, <2>2, AppendReads
  <2>4. ASSUME NEW a \in Int
        PROVE  /\ Covers(c, a) <=> lo <= a /\ a <= hi
               /\ Covers(c, a) => ByteAt(c, a) = ByteAt(s, a)
    <3>1. /\ s.start \in Int /\ EndAddress(s) \in Int
          /\ Covers(s, a) <=> s.start <= a /\ a <= EndAddress(s)
      BY StoredFacts, SpanInSpace, MaxAddrAssumption DEF Addr
    <3>2. lo <= a /\ a <= hi => Has(s, a, ByteAt(s, a))
      BY <3>1 DEF Has
    <3>3. lo <= a /\ a <= hi => Covers(c, a) /\ ByteAt(c, a) = ByteAt(s, a)
      BY <3>2, <2>1 DEF Has
    <3>4. Covers(c, a) => lo <= a /\ a <= hi
      BY <2>1 DEF Has
    <3>5. QED
      BY <3>3, <3>4
  <2>5. QED
    BY <2>3, <2>4 DEF ReadsOver
<1>2. CASE ~(lo <= hi)
  <2>1. \A a \in Int : ~(lo <= a /\ a <= hi)
    BY <1>2
  <2>2. QED
    BY <1>2, <2>1 DEF PartPushed, ReadsOver
<1>3. QED
  BY <1>1, <1>2

Outside(r) == {a \in Int : ~In(a, r)}

LEMMA PartsOutsideRead ==
  ASSUME NEW s \in StoredSegment, NEW r \in RangeType
  PROVE  /\ PartsOutside(s, r) \in Seq(StoredSegment)
         /\ IsPart(PartsOutside(s, r), s, Outside(r))
<1>1. /\ s.start \in Int /\ EndAddress(s) \in Int /\ s.start <= EndAddress(s)
      /\ \A a \in Int : Covers(s, a) <=> s.start <= a /\ a <= EndAddress(s)
  BY StoredFacts, SpanInSpace, MaxAddrAssumption DEF Addr
<1>2. r.start \in Int /\ r.end \in Int /\ r.start <= r.end
  BY RangeFacts
<1>3. CASE EndAddress(s) < r.start \/ s.start > r.end
  <2>1. PartsOutside(s, r) = <<s>>
    BY <1>3 DEF PartsOutside
  <2>2. \A a \in Int : Covers(s, a) => a \in Outside(r)
    BY <1>1, <1>2, <1>3 DEF Outside, In
  <2>3. <<s>> \in Seq(StoredSegment)
    OBVIOUS
  <2>4. \A a \in Int : ReadByte(<<s>>, a) = IF Covers(s, a) THEN ByteAt(s, a) ELSE None
    BY StoredFacts, ReadOne
  <2>5. QED
    BY <2>1, <2>2, <2>3, <2>4 DEF IsPart
<1>4. CASE ~(EndAddress(s) < r.start \/ s.start > r.end)
  <2>1. PICK left : left = PushIf(<<>>, s.start < r.start, Clip(s, s.start, r.start - 1))
    OBVIOUS
  <2>2. left = IF s.start <= r.start - 1 THEN Append(<<>>, Clip(s, s.start, r.start - 1))
               ELSE <<>>
    BY <2>1, <1>1, <1>2 DEF PushIf
  <2>3. /\ left \in Seq(StoredSegment)
        /\ \A a \in Int : ReadByte(left, a) =
             IF s.start <= a /\ a <= r.start - 1 THEN ByteAt(s, a) ELSE ReadByte(<<>>, a)
    <3>1. r.start - 1 \in Int /\ r.start - 1 <= EndAddress(s) /\ s.start <= s.start
      BY <1>1, <1>2, <1>4
    <3>2. PICK list, lo, hi :
            list = <<>> /\ lo = s.start /\ hi = r.start - 1 /\ lo \in Int /\ hi \in Int
      BY <3>1, <1>1
    <3>3. PartPushed(left, list, s, lo, hi)
      BY <3>2, <2>2 DEF PartPushed
    <3>4. left \in Seq(StoredSegment) /\ ReadsOver(left, list, s, lo, hi)
      BY <3>1, <3>2, <3>3, NothingStored, PushPart
    <3>5. QED
      BY <3>2, <3>4 DEF ReadsOver
  <2>4. PICK both : both = PartsOutside(s, r)
    OBVIOUS
  <2>5. both = IF r.end + 1 <= EndAddress(s)
                 THEN Append(left, Clip(s, r.end + 1, EndAddress(s))) ELSE left
    BY <2>1, <2>4, <1>1, <1>2, <1>4 DEF PartsOutside, PushIf
  <2>6. /\ both \in Seq(StoredSegment)
        /\ \A a \in Int : ReadByte(both, a) =
             IF r.end + 1 <= a /\ a <= EndAddress(s) THEN ByteAt(s, a) ELSE ReadByte(left, a)
    <3>1. r.end + 1 \in Int /\ s.start <= r.end + 1 /\ EndAddress(s) <= EndAddress(s)
      BY <1>1, <1>2, <1>4
    <3>2. PICK lo, hi :
            lo = r.end + 1 /\ hi = EndAddress(s) /\ lo \in Int /\ hi \in Int
      BY <3>1, <1>1
    <3>3. PartPushed(both, left, s, lo, hi)
      BY <3>2, <2>5 DEF PartPushed
    <3>4. both \in Seq(StoredSegment) /\ ReadsOver(both, left, s, lo, hi)
      BY <3>1, <3>2, <3>3, <2>3, PushPart
    <3>5. QED
      BY <3>2, <3>4 DEF ReadsOver
  <2>7. ASSUME NEW a \in Int
        PROVE  ReadByte(both, a) =
                 IF a \in Outside(r) /\ Covers(s, a) THEN ByteAt(s, a) ELSE None
    <3>1. a \in Outside(r) <=> a <= r.start - 1 \/ r.end + 1 <= a
      BY <1>2 DEF Outside, In
    <3>2. ReadByte(<<>>, a) = None
      BY ReadEmpty
    <3>3. ReadByte(left, a) = IF s.start <= a /\ a <= r.start - 1 THEN ByteAt(s, a) ELSE None
      BY <2>3, <3>2
    <3>4. /\ s.start <= a /\ a <= r.start - 1 => a <= EndAddress(s)
          /\ r.end + 1 <= a => s.start <= a
      BY <1>1, <1>2, <1>4
    <3>5. QED
      BY <3>1, <3>3, <3>4, <2>6, <1>1
  <2>8. QED
    BY <2>4, <2>6, <2>7 DEF IsPart
<1>5. QED
  BY <1>3, <1>4

LEMMA CutReads ==
  ASSUME NEW list \in Seq(StoredSegment), NEW r \in RangeType
  PROVE  /\ CutRange(list, r) \in Seq(StoredSegment)
         /\ ReadsIn(CutRange(list, r), list, Outside(r))
<1>1. NonEmpty(list) = list /\ DOMAIN list = 1..Len(list)
  BY StoredList, NonEmptyKeeps, LenProperties
<1> DEFINE f == [n \in 1..Len(list) |-> PartsOutside(list[n], r)]
<1>2. CutRange(list, r) = NonEmpty(FlattenSeq(f))
  BY <1>1 DEF CutRange
<1>3. ArePieces(f, list, Outside(r))
  <2> SUFFICES ASSUME NEW n \in 1..Len(list)
               PROVE  /\ PartsOutside(list[n], r) \in Seq(StoredSegment)
                      /\ IsPart(PartsOutside(list[n], r), list[n], Outside(r))
    BY DEF ArePieces
  <2>1. list[n] \in StoredSegment
    BY ElementOfSeq
  <2>2. QED
    BY <2>1, PartsOutsideRead
<1> HIDE DEF f
<1>4. QED
  BY <1>2, <1>3, FlattenStored

LEMMA SegmentBytes ==
  ASSUME NEW s \in SegmentType, NEW a \in Int, Covers(s, a)
  PROVE  ByteAt(s, a) \in Byte /\ ByteAt(s, a) # None
<1>1. /\ s.start \in Int /\ Len(s.data) \in Nat /\ s.data \in Seq(Byte)
  BY MaxAddrAssumption, LenProperties DEF SegmentType, Addr
<1>2. a - s.start + 1 \in 1..Len(s.data)
  BY <1>1 DEF Covers
<1>3. ByteAt(s, a) \in Byte
  BY <1>1, <1>2, ElementOfSeq DEF ByteAt
<1>4. QED
  BY <1>3, ByteAssumption

-----------------------------------------------------------------------------
(* append_segment, prepend_segment, write_bytes, merge *)

\* The first list's bytes where it has any, else the second's.
ReadsFirst(new, top, bottom) ==
  \A a \in Int : ReadByte(new, a) =
    IF ReadByte(top, a) # None THEN ReadByte(top, a) ELSE ReadByte(bottom, a)

LEMMA ConcatStored ==
  ASSUME NEW l \in Seq(StoredSegment), NEW r \in Seq(StoredSegment)
  PROVE  l \o r \in Seq(StoredSegment) /\ ReadsFirst(l \o r, r, l)
<1>1. l \o r \in Seq(StoredSegment)
  BY ConcatProperties
<1>2. l \in ListType /\ AllInSpace(l) /\ r \in ListType /\ AllInSpace(r)
  BY StoredList
<1>3. QED
  BY <1>1, <1>2, ReadConcat DEF ReadsFirst

\* A segment on its own, dropped when it has no bytes.
LEMMA OneKept ==
  ASSUME NEW s \in SegmentType
  PROVE  /\ NonEmpty(<<s>>) \in Seq(StoredSegment)
         /\ \A a \in Int : ReadByte(NonEmpty(<<s>>), a) =
              IF Covers(s, a) THEN ByteAt(s, a) ELSE None
<1> DEFINE S == {x \in ToSet(<<s>>) : ~IsEmpty(x)}
<1>1. PICK list : list = <<s>>
  OBVIOUS
<1>2. list \in Seq(SegmentType) /\ Len(list) = 1 /\ list[1] = s
  BY <1>1
<1>3. NonEmpty(list) = Keep(list, S)
  BY <1>1 DEF NonEmpty
<1>4. CASE IsEmpty(s)
  <2>1. \A k \in 1..Len(list) : list[k] \notin S
    BY <1>2, <1>4
  <2>2. NonEmpty(list) = <<>>
    <3> HIDE DEF S
    <3>1. QED
      BY <1>2, <1>3, <2>1, KeepNone
  <2>3. \A a \in Int : ~Covers(s, a)
    BY <1>4, MaxAddrAssumption DEF Covers, IsEmpty, SegmentType, Addr
  <2>4. QED
    BY <1>1, <2>2, <2>3, NothingStored, ReadEmpty
<1>5. CASE ~IsEmpty(s)
  <2>1. s \in StoredSegment /\ InSpace(s)
    BY <1>5, StoredFacts DEF StoredSegment
  <2>2. list \in Seq(StoredSegment)
    BY <1>1, <2>1
  <2>3. NonEmpty(list) = list
    BY <2>2, StoredList, NonEmptyKeeps
  <2>4. \A a \in Int : ReadByte(list, a) = IF Covers(s, a) THEN ByteAt(s, a) ELSE None
    BY <1>1, <2>1, ReadOne
  <2>5. QED
    BY <1>1, <2>2, <2>3, <2>4
<1>6. QED
  BY <1>4, <1>5

LEMMA AppendStored ==
  ASSUME NEW list \in Seq(StoredSegment), NEW s \in SegmentType
  PROVE  /\ AppendSegment(list, s) \in Seq(StoredSegment)
         /\ \A a \in Int : ReadByte(AppendSegment(list, s), a) =
              IF Covers(s, a) THEN ByteAt(s, a) ELSE ReadByte(list, a)
<1>1. PICK one : /\ one = NonEmpty(<<s>>) /\ one \in Seq(StoredSegment)
                 /\ \A a \in Int : ReadByte(one, a) =
                      IF Covers(s, a) THEN ByteAt(s, a) ELSE None
  BY OneKept
<1>2. list \o one \in Seq(StoredSegment) /\ ReadsFirst(list \o one, one, list)
  BY <1>1, ConcatStored
<1>3. AppendSegment(list, s) = list \o one
  BY <1>1 DEF AppendSegment
<1>4. \A a \in Int : Covers(s, a) => ByteAt(s, a) # None
  BY SegmentBytes
<1>5. QED
  BY <1>1, <1>2, <1>3, <1>4 DEF ReadsFirst

LEMMA PrependStored ==
  ASSUME NEW list \in Seq(StoredSegment), NEW s \in SegmentType
  PROVE  /\ PrependSegment(list, s) \in Seq(StoredSegment)
         /\ \A a \in Int : ReadByte(PrependSegment(list, s), a) =
              IF ReadByte(list, a) # None THEN ReadByte(list, a)
              ELSE IF Covers(s, a) THEN ByteAt(s, a) ELSE None
<1>1. PICK one : /\ one = NonEmpty(<<s>>) /\ one \in Seq(StoredSegment)
                 /\ \A a \in Int : ReadByte(one, a) =
                      IF Covers(s, a) THEN ByteAt(s, a) ELSE None
  BY OneKept
<1>2. one \o list \in Seq(StoredSegment) /\ ReadsFirst(one \o list, list, one)
  BY <1>1, ConcatStored
<1>3. PrependSegment(list, s) = one \o list
  BY <1>1 DEF PrependSegment
<1>4. QED
  BY <1>1, <1>2, <1>3 DEF ReadsFirst

\* What is left after each of the cuts.
IsCutsRun(acc, list, ranges) ==
  /\ acc \in [0..Len(ranges) -> Seq(StoredSegment)]
  /\ acc[0] = list
  /\ \A k \in 1..Len(ranges) : acc[k] = CutRange(acc[k - 1], ranges[k])

LEMMA CutsRun ==
  ASSUME NEW list \in Seq(StoredSegment), NEW ranges \in Seq(RangeType)
  PROVE  \E acc : IsCutsRun(acc, list, ranges) /\ CutRanges(list, ranges) = acc[Len(ranges)]
<1> DEFINE n == Len(ranges)
           A == Seq(StoredSegment)
           F == [p \in A \X (1..n) |-> CutRange(p[1], ranges[p[2]])]
           E(g) == g = [r \in SUBSET (1..n) |->
                     IF r = {} THEN list
                     ELSE LET x == Max(r) IN CutRange(g[r \ {x}], ranges[x])]
           g == CHOOSE h : E(h)
<1>1. DOMAIN ranges = 1..n /\ n \in Nat
  BY LenProperties
<1>2. CutRanges(list, ranges) = g[1..n]
  BY <1>1, Zenon DEF CutRanges, FoldLeft, MapThenFoldSet
<1>3. IsStep(F, n, A) /\ list \in A
  <2>1. ASSUME NEW l \in A, NEW k \in 1..n
        PROVE  CutRange(l, ranges[k]) \in A
    <3>1. ranges[k] \in RangeType
      BY ElementOfSeq
    <3>2. QED
      BY <3>1, <2>1, CutReads
  <2>2. list \in A
    OBVIOUS
  <2> HIDE DEF A
  <2>3. QED
    BY <2>1, <2>2 DEF IsStep
<1>4. \A r \in SUBSET (1..n) : r # {} => Max(r) \in 1..n /\ r \ {Max(r)} \in SUBSET (1..n)
  BY <1>1, MaxUpTo
<1>5. \A k \in 1..n, y \in A : F[<<y, k>>] = CutRange(y, ranges[k])
  OBVIOUS
<1> HIDE DEF n, A, F
<1>6. \E h : E(h)
  <2>1. PICK h \in [SUBSET (1..n) -> A] : Folds(h, n, list, F)
    BY <1>1, <1>3, FoldExists
  <2>2. \A r \in SUBSET (1..n) : r # {} =>
          h[r] = CutRange(h[r \ {Max(r)}], ranges[Max(r)])
    BY <2>1, <1>4, <1>5 DEF Folds
  <2>3. E(h)
    BY <2>1, <2>2 DEF Folds
  <2>4. QED
    BY <2>3, Zenon
<1>7. E(g)
  <2> HIDE DEF E
  <2>1. QED
    BY <1>6, Zenon
<1> HIDE DEF g
<1>8. FoldsWithin(g, n, A, list, F)
  BY <1>4, <1>5, <1>7 DEF FoldsWithin
<1> HIDE DEF E
<1>9. PICK acc : IsRun(acc, n, A, list, F) /\ g[1..n] = acc[n]
  BY <1>1, <1>3, <1>8, FoldRun
<1>10. \A k \in 1..n : acc[k] = CutRange(acc[k - 1], ranges[k])
  <2> SUFFICES ASSUME NEW k \in 1..n
               PROVE  acc[k] = F[<<acc[k - 1], k>>] /\ acc[k - 1] \in A
    BY <1>5
  <2>1. k - 1 \in 0..n
    BY <1>1
  <2>2. QED
    BY <2>1, <1>9 DEF IsRun
<1>11. QED
  BY <1>2, <1>9, <1>10 DEF IsRun, IsCutsRun, n, A

\* The ranges cut out read as nothing, the rest as before.
LEMMA CutsRead ==
  ASSUME NEW list \in Seq(StoredSegment), NEW ranges \in Seq(RangeType)
  PROVE  /\ CutRanges(list, ranges) \in Seq(StoredSegment)
         /\ \A a \in Int : ReadByte(CutRanges(list, ranges), a) =
              IF InAny(a, ranges) THEN None ELSE ReadByte(list, a)
<1> DEFINE n == Len(ranges)
<1>1. PICK acc : IsCutsRun(acc, list, ranges) /\ CutRanges(list, ranges) = acc[n]
  BY CutsRun
<1>2. n \in Nat
  BY LenProperties
<1> DEFINE Hit(k, a) == \E m \in 1..k : In(a, ranges[m])
           T == {k \in 0..n : \A a \in Int : ReadByte(acc[k], a) =
                   IF Hit(k, a) THEN None ELSE ReadByte(list, a)}
<1>3. 0 \in T
  BY <1>1, <1>2 DEF IsCutsRun
<1>4. ASSUME NEW k \in 0..(n - 1), k \in T
      PROVE  k + 1 \in T
  <2>1. k + 1 \in 1..n /\ (k + 1) - 1 = k /\ k \in 0..n /\ k + 1 \in 0..n
    BY <1>2
  <2>2. PICK r, cut : r = ranges[k + 1] /\ cut = acc[k]
    OBVIOUS
  <2>3. r \in RangeType /\ cut \in Seq(StoredSegment) /\ acc[k + 1] = CutRange(cut, r)
    BY <1>1, <2>1, <2>2, ElementOfSeq DEF IsCutsRun
  <2>4. ReadsIn(CutRange(cut, r), cut, Outside(r))
    BY <2>3, CutReads
  <2>5. \A a : Hit(k + 1, a) <=> Hit(k, a) \/ In(a, r)
    <3>1. \A m \in 1..(k + 1) : m \in 1..k \/ m = k + 1
      BY <2>1
    <3>2. k + 1 \in 1..(k + 1) /\ \A m \in 1..k : m \in 1..(k + 1)
      BY <2>1
    <3>3. QED
      BY <3>1, <3>2, <2>2
  <2>6. \A a \in Int : ReadByte(cut, a) = IF Hit(k, a) THEN None ELSE ReadByte(list, a)
    BY <1>4, <2>2
  <2> HIDE DEF Hit
  <2>7. \A a \in Int : ReadByte(CutRange(cut, r), a) =
          IF Hit(k + 1, a) THEN None ELSE ReadByte(list, a)
    BY <2>4, <2>5, <2>6 DEF ReadsIn, Outside
  <2>8. QED
    BY <2>1, <2>3, <2>7
<1>5. n \in T /\ n \in 0..n
  <2> HIDE DEF T, n
  <2>1. \A k \in 0..n : k \in T
    BY <1>2, <1>3, <1>4, InductionUpTo
  <2>2. QED
    BY <2>1, <1>2
<1>6. \A a : Hit(n, a) <=> InAny(a, ranges)
  BY DEF InAny
<1>7. CutRanges(list, ranges) \in Seq(StoredSegment)
  BY <1>1, <1>2 DEF IsCutsRun
<1>8. QED
  BY <1>1, <1>5, <1>6, <1>7

-----------------------------------------------------------------------------
(* fill_ranges *)

\* The byte that a pattern, repeated from the start of the range, puts at a.
PatternAt(r, pattern, a) == pattern[((a - r.start) % Len(pattern)) + 1]

\* A list of segments, and one that covers lo to hi with the pattern.
IsFill(s, r, pattern, lo, hi) ==
  /\ s \in StoredSegment
  /\ \A a \in Int : Covers(s, a) <=> lo <= a /\ a <= hi
  /\ \A a \in Int : Covers(s, a) => ByteAt(s, a) = PatternAt(r, pattern, a)

LEMMA FillMade ==
  ASSUME NEW r \in RangeType, Materializable(r),
         NEW pattern \in Seq(Byte), pattern # <<>>,
         NEW lo \in Int, NEW hi \in Int, r.start <= lo, lo <= hi, hi <= r.end
  PROVE  IsFill(FillSegment(r, pattern, lo, hi), r, pattern, lo, hi)
<1>1. /\ r.start \in Int /\ r.end \in Int /\ 0 <= r.start /\ r.end <= MaxAddr
      /\ r.end - r.start + 1 <= MaxAddr
  BY RangeFacts, MaxAddrAssumption DEF Materializable, ExtendsPastAddressSpace, RangeLength
<1>2. PICK p \in Nat : p = Len(pattern) /\ p > 0
  BY EmptySeq, LenProperties
<1>3. PICK rs \in Int : rs = r.start
  BY <1>1
<1>4. \A x \in Int : (x % p) + 1 \in 1..p
  BY <1>2
<1>5. \A x \in Int : pattern[(x % p) + 1] \in Byte
  BY <1>2, <1>4, ElementOfSeq
<1>6. PICK s : s = FillSegment(r, pattern, lo, hi)
  OBVIOUS
<1> DEFINE N == hi - lo + 1
<1>7. N \in Nat /\ 0 < N /\ N <= MaxAddr /\ lo \in Addr /\ lo + N - 1 = hi
  BY <1>1, MaxAddrAssumption DEF Addr
<1>8. /\ s = [start |-> lo, data |-> s.data] /\ s.start = lo
      /\ s.data = [k \in 1..N |-> pattern[((lo - rs + k - 1) % p) + 1]]
  BY <1>2, <1>3, <1>6 DEF FillSegment
<1> HIDE DEF N
<1>9. \A k \in 1..N : s.data[k] \in Byte /\ s.data[k] = pattern[((lo - rs + k - 1) % p) + 1]
  BY <1>5, <1>7, <1>8
<1>10. s.data \in Seq(Byte) /\ Len(s.data) = N
  <2>1. s.data = [k \in 1..N |-> s.data[k]]
    BY <1>8
  <2>2. QED
    BY <1>7, <1>9, <2>1, MadeStored
<1>11. InSpace(s) /\ Len(s.data) <= MaxAddr
  <2>1. s \in [start : Addr, data : Seq(Byte)]
    BY <1>7, <1>8, <1>10
  <2>2. s.start + Len(s.data) - 1 <= MaxAddr
    BY <1>1, <1>7, <1>8, <1>10, MaxAddrAssumption
  <2>3. QED
    BY <2>1, <2>2, <1>7, <1>10 DEF InSpace
<1>12. \A a \in Int : Covers(s, a) <=> lo <= a /\ a <= hi
  BY <1>7, <1>8, <1>10 DEF Covers
<1>13. ASSUME NEW a \in Int, Covers(s, a)
       PROVE  ByteAt(s, a) = PatternAt(r, pattern, a)
  <2>1. PICK k : k = a - lo + 1 /\ k \in 1..N /\ lo - rs + k - 1 = a - rs
    BY <1>7, <1>12, <1>13
  <2>2. QED
    BY <2>1, <1>2, <1>3, <1>8, <1>9 DEF ByteAt, PatternAt
<1>14. QED
  BY <1>6, <1>11, <1>12, <1>13, StoredFacts DEF IsFill

\* A list with a fill appended.
LEMMA FillAppended ==
  ASSUME NEW list \in Seq(StoredSegment), NEW r, NEW pattern, NEW lo \in Int, NEW hi \in Int,
         NEW s, IsFill(s, r, pattern, lo, hi)
  PROVE  /\ Append(list, s) \in Seq(StoredSegment)
         /\ \A a \in Int : ReadByte(Append(list, s), a) =
              IF lo <= a /\ a <= hi THEN PatternAt(r, pattern, a) ELSE ReadByte(list, a)
<1>1. /\ Append(list, s) \in Seq(StoredSegment)
      /\ \A a \in Int : ReadByte(Append(list, s), a) =
           IF Covers(s, a) THEN ByteAt(s, a) ELSE ReadByte(list, a)
  BY AppendReads DEF IsFill
<1>2. QED
  BY <1>1 DEF IsFill

\* A fill of the gap from lo to hi, if there is one.
FillPushed(new, list, cond, r, pattern, lo, hi) ==
  new = PushIf(list, cond, FillSegment(r, pattern, lo, hi))

LEMMA PushFill ==
  ASSUME NEW list \in Seq(StoredSegment), NEW r \in RangeType, Materializable(r),
         NEW pattern \in Seq(Byte), pattern # <<>>,
         NEW lo \in Int, NEW hi \in Int, r.start <= lo, hi <= r.end,
         NEW cond, cond <=> lo <= hi,
         NEW new, FillPushed(new, list, cond, r, pattern, lo, hi)
  PROVE  /\ new \in Seq(StoredSegment)
         /\ \A a \in Int : ReadByte(new, a) =
              IF lo <= a /\ a <= hi THEN PatternAt(r, pattern, a) ELSE ReadByte(list, a)
<1>1. CASE lo <= hi
  <2>1. PICK s : s = FillSegment(r, pattern, lo, hi) /\ IsFill(s, r, pattern, lo, hi)
    BY <1>1, FillMade
  <2>2. new = Append(list, s)
    BY <1>1, <2>1 DEF FillPushed, PushIf
  <2>3. QED
    BY <2>1, <2>2, FillAppended
<1>2. CASE ~(lo <= hi)
  <2>1. \A a \in Int : ~(lo <= a /\ a <= hi)
    BY <1>2
  <2>2. QED
    BY <1>2, <2>1 DEF FillPushed, PushIf
<1>3. QED
  BY <1>1, <1>2

\* The occupied parts of a range are its addresses that read as something.
LEMMA OccupiedIs ==
  ASSUME NEW list \in Seq(StoredSegment), NEW r \in RangeType
  PROVE  /\ Occupied(list, r) \in Seq(RangeType) /\ Apart(Occupied(list, r))
         /\ \A a \in Int : InAny(a, Occupied(list, r)) <=> In(a, r) /\ ReadByte(list, a) # None
<1> DEFINE H == {s \in ToSet(list) : Overlaps(SegRange(s), r)}
<1>1. PICK hit : /\ hit = Keep(list, H) /\ hit \in Seq(StoredSegment)
                 /\ \A y : IsIn(hit, y) <=> IsIn(list, y) /\ y \in H
  BY KeepElements
<1>2. NonEmpty(list) = list /\ list \in ListType /\ AllInSpace(list)
  BY StoredList, NonEmptyKeeps
<1>3. DOMAIN list = 1..Len(list) /\ DOMAIN hit = 1..Len(hit) /\ Len(hit) \in Nat
  BY <1>1, LenProperties
<1>4. \A y : y \in ToSet(list) <=> IsIn(list, y)
  BY <1>3 DEF ToSet, IsIn
<1> DEFINE spans == [n \in 1..Len(hit) |-> Intersection(SegRange(hit[n]), r)]
<1>5. Occupied(list, r) = MergeRanges(spans)
  BY <1>1, <1>2, <1>3 DEF Occupied
<1>6. ASSUME NEW n \in 1..Len(hit)
      PROVE  /\ hit[n] \in StoredSegment /\ IsIn(list, hit[n])
             /\ spans[n] \in RangeType
             /\ \A a \in Int : In(a, spans[n]) <=> Covers(hit[n], a) /\ In(a, r)
  <2>1. IsIn(hit, hit[n])
    BY DEF IsIn
  <2>2. IsIn(list, hit[n]) /\ hit[n] \in H
    BY <2>1, <1>1
  <2>3. hit[n] \in StoredSegment
    BY <1>1, ElementOfSeq
  <2>4. PICK span : span = SegRange(hit[n]) /\ span \in RangeType
                    /\ \A a \in Int : In(a, span) <=> Covers(hit[n], a)
    BY <2>3, StoredFacts, SegRangeIn
  <2>5. Overlaps(span, r)
    BY <2>2, <2>4
  <2>6. /\ Intersection(span, r) \in RangeType
        /\ \A a \in Int : In(a, Intersection(span, r)) <=> In(a, span) /\ In(a, r)
    BY <2>4, <2>5, IntersectionIn
  <2>7. spans[n] = Intersection(span, r)
    BY <2>4
  <2>8. QED
    BY <2>2, <2>3, <2>4, <2>6, <2>7
<1>7. spans \in Seq(RangeType) /\ Len(spans) = Len(hit)
  <2>1. spans = [n \in 1..Len(hit) |-> spans[n]] /\ \A n \in 1..Len(hit) : spans[n] \in RangeType
    BY <1>6
  <2>2. QED
    BY <2>1, <1>3, MadeStored
<1>8. ASSUME NEW a \in Int
      PROVE  InAny(a, spans) <=> In(a, r) /\ ReadByte(list, a) # None
  <2>1. ReadByte(list, a) # None <=> \E m \in 1..Len(list) : Covers(list[m], a)
    BY <1>2, ReadCovered
  <2>2. ASSUME NEW n \in 1..Len(spans), In(a, spans[n])
        PROVE  In(a, r) /\ \E m \in 1..Len(list) : Covers(list[m], a)
    <3>1. n \in 1..Len(hit)
      BY <1>7
    <3>2. Covers(hit[n], a) /\ In(a, r) /\ IsIn(list, hit[n])
      BY <3>1, <2>2, <1>6
    <3>3. QED
      BY <3>2 DEF IsIn
  <2>3. ASSUME NEW m \in 1..Len(list), Covers(list[m], a), In(a, r)
        PROVE  \E n \in 1..Len(spans) : In(a, spans[n])
    <3>1. PICK s : s = list[m] /\ s \in StoredSegment
      BY ElementOfSeq
    <3>2. PICK span : span = SegRange(s) /\ span \in RangeType
                      /\ \A b \in Int : In(b, span) <=> Covers(s, b)
      BY <3>1, StoredFacts, SegRangeIn
    <3>3. In(a, span)
      BY <3>1, <3>2, <2>3
    <3>4. Overlaps(span, r)
      <4>1. /\ span.start \in Int /\ span.end \in Int /\ r.start \in Int /\ r.end \in Int
        BY <3>2, RangeFacts
      <4>2. QED
        BY <4>1, <3>3, <2>3 DEF Overlaps, In
    <3>5. IsIn(list, s) /\ s \in H
      BY <3>1, <3>2, <3>4, <1>4 DEF IsIn
    <3>6. IsIn(hit, s)
      BY <3>5, <1>1
    <3>7. PICK n \in 1..Len(hit) : hit[n] = s
      BY <3>6 DEF IsIn
    <3>8. In(a, spans[n])
      BY <3>1, <3>7, <1>6, <2>3
    <3>9. QED
      BY <3>8, <1>7
  <2> HIDE DEF spans
  <2>4. QED
    BY <2>1, <2>2, <2>3 DEF InAny
<1> HIDE DEF spans
<1>9. QED
  BY <1>5, <1>7, <1>8, MergeRangesApart

\* A list and a cursor into the range, as fill_gaps_in_range goes along.
FillPoints(r) == [segs : Seq(StoredSegment), cursor : r.start..(r.end + 1)]

FilledBefore(list, occ, r, pattern) ==
  FoldLeft(LAMBDA acc, o : FillBefore(acc, o, r, pattern),
           [segs |-> list, cursor |-> r.start], occ)

Within(occ, r) == \A k \in 1..Len(occ) : r.start <= occ[k].start /\ occ[k].end <= r.end

LEMMA FillBeforeStep ==
  ASSUME NEW r \in RangeType, Materializable(r), NEW pattern \in Seq(Byte), pattern # <<>>,
         NEW x \in RangeType, r.start <= x.start, x.end <= r.end,
         NEW p \in FillPoints(r), NEW new, new = FillBefore(p, x, r, pattern)
  PROVE  /\ new \in FillPoints(r) /\ new.cursor = x.end + 1
         /\ \A a \in Int : ReadByte(new.segs, a) =
              IF p.cursor <= a /\ a <= x.start - 1 THEN PatternAt(r, pattern, a)
              ELSE ReadByte(p.segs, a)
<1>1. PICK list, cur : list = p.segs /\ cur = p.cursor /\ list \in Seq(StoredSegment)
  BY DEF FillPoints
<1>2. /\ x.start \in Int /\ x.end \in Int /\ r.start \in Int /\ r.end \in Int
      /\ x.start <= x.end
  BY RangeFacts
<1>3. cur \in Int /\ r.start <= cur
  BY <1>1, <1>2 DEF FillPoints
<1>4. PICK lo, hi, cond : /\ lo = cur /\ hi = x.start - 1 /\ cond = (cur < x.start)
                          /\ lo \in Int /\ hi \in Int
  BY <1>2, <1>3
<1>5. (cond <=> lo <= hi) /\ r.start <= lo /\ hi <= r.end
  <2>1. cur < x.start <=> cur <= x.start - 1
    BY <1>2, <1>3
  <2>2. r.start <= lo /\ hi <= r.end
    BY <1>2, <1>3, <1>4
  <2>3. QED
    BY <1>4, <2>1, <2>2
<1>6. PICK segs : FillPushed(segs, list, cond, r, pattern, lo, hi)
  BY DEF FillPushed
<1>7. /\ segs \in Seq(StoredSegment)
      /\ \A a \in Int : ReadByte(segs, a) =
           IF lo <= a /\ a <= hi THEN PatternAt(r, pattern, a) ELSE ReadByte(list, a)
  BY <1>1, <1>4, <1>5, <1>6, PushFill
<1>8. new = [segs |-> segs, cursor |-> x.end + 1]
  BY <1>1, <1>4, <1>6 DEF FillBefore, FillPushed
<1>9. x.end + 1 \in r.start..(r.end + 1)
  BY <1>2
<1>10. QED
  BY <1>1, <1>4, <1>7, <1>8, <1>9 DEF FillPoints

\* The list and the cursor after each occupied part.
IsFillBeforeRun(acc, list, occ, r, pattern) ==
  /\ acc \in [0..Len(occ) -> FillPoints(r)]
  /\ acc[0] = [segs |-> list, cursor |-> r.start]
  /\ \A k \in 1..Len(occ) : acc[k] = FillBefore(acc[k - 1], occ[k], r, pattern)

LEMMA FillBeforeRun ==
  ASSUME NEW list \in Seq(StoredSegment), NEW r \in RangeType, Materializable(r),
         NEW pattern \in Seq(Byte), pattern # <<>>,
         NEW occ \in Seq(RangeType), Within(occ, r)
  PROVE  \E acc : IsFillBeforeRun(acc, list, occ, r, pattern) /\ FilledBefore(list, occ, r, pattern) = acc[Len(occ)]
<1> DEFINE n == Len(occ)
           A == FillPoints(r)
           F == [p \in A \X (1..n) |-> FillBefore(p[1], occ[p[2]], r, pattern)]
           E(g) == g = [ix \in SUBSET (1..n) |->
                     IF ix = {} THEN [segs |-> list, cursor |-> r.start]
                     ELSE LET mx == Max(ix) IN FillBefore(g[ix \ {mx}], occ[mx], r, pattern)]
           g == CHOOSE h : E(h)
<1>1. DOMAIN occ = 1..n /\ n \in Nat
  BY LenProperties
<1>2. FilledBefore(list, occ, r, pattern) = g[1..n]
  BY <1>1, Zenon DEF FilledBefore, FoldLeft, MapThenFoldSet
<1>3. IsStep(F, n, A) /\ [segs |-> list, cursor |-> r.start] \in A
  <2>1. ASSUME NEW l \in A, NEW k \in 1..n
        PROVE  FillBefore(l, occ[k], r, pattern) \in A
    <3>1. occ[k] \in RangeType /\ r.start <= occ[k].start /\ occ[k].end <= r.end
      BY ElementOfSeq DEF Within
    <3>2. QED
      BY <3>1, <2>1, FillBeforeStep
  <2>2. [segs |-> list, cursor |-> r.start] \in A
    <3>1. r.start \in Int /\ r.end \in Int /\ r.start <= r.end
      BY RangeFacts
    <3>2. QED
      BY <3>1 DEF FillPoints
  <2> HIDE DEF A
  <2>3. QED
    BY <2>1, <2>2 DEF IsStep
<1>4. \A ix \in SUBSET (1..n) : ix # {} => Max(ix) \in 1..n /\ ix \ {Max(ix)} \in SUBSET (1..n)
  BY <1>1, MaxUpTo
<1>5. \A k \in 1..n, y \in A : F[<<y, k>>] = FillBefore(y, occ[k], r, pattern)
  OBVIOUS
<1> HIDE DEF n, A, F
<1>6. \E h : E(h)
  <2>1. PICK h \in [SUBSET (1..n) -> A] : Folds(h, n, [segs |-> list, cursor |-> r.start], F)
    BY <1>1, <1>3, FoldExists
  <2>2. \A ix \in SUBSET (1..n) : ix # {} =>
          h[ix] = FillBefore(h[ix \ {Max(ix)}], occ[Max(ix)], r, pattern)
    BY <2>1, <1>4, <1>5 DEF Folds
  <2>3. E(h)
    BY <2>1, <2>2 DEF Folds
  <2>4. QED
    BY <2>3, Zenon
<1>7. E(g)
  <2> HIDE DEF E
  <2>1. QED
    BY <1>6, Zenon
<1> HIDE DEF g
<1>8. FoldsWithin(g, n, A, [segs |-> list, cursor |-> r.start], F)
  BY <1>4, <1>5, <1>7 DEF FoldsWithin
<1> HIDE DEF E
<1>9. PICK acc : IsRun(acc, n, A, [segs |-> list, cursor |-> r.start], F) /\ g[1..n] = acc[n]
  BY <1>1, <1>3, <1>8, FoldRun
<1>10. \A k \in 1..n : acc[k] = FillBefore(acc[k - 1], occ[k], r, pattern)
  <2> SUFFICES ASSUME NEW k \in 1..n
               PROVE  acc[k] = F[<<acc[k - 1], k>>] /\ acc[k - 1] \in A
    BY <1>5
  <2>1. k - 1 \in 0..n
    BY <1>1
  <2>2. QED
    BY <2>1, <1>9 DEF IsRun
<1>11. QED
  BY <1>2, <1>9, <1>10 DEF IsRun, IsFillBeforeRun, n, A

\* The list with the pattern in the gaps of the range below the cursor.
GapsFilled(new, list, r, pattern, cursor) ==
  \A a \in Int : ReadByte(new, a) =
    IF ReadByte(list, a) # None \/ ~(r.start <= a /\ a < cursor) THEN ReadByte(list, a)
    ELSE PatternAt(r, pattern, a)

LEMMA FillGapsRead ==
  ASSUME NEW list \in Seq(StoredSegment), NEW r \in RangeType, Materializable(r),
         NEW pattern \in Seq(Byte), pattern # <<>>,
         NEW new, new = FillGapsInRange(list, r, pattern)
  PROVE  new \in Seq(StoredSegment) /\ GapsFilled(new, list, r, pattern, r.end + 1)
<1>1. /\ r.start \in Int /\ r.end \in Int /\ r.start <= r.end
      /\ \A a \in Int : In(a, r) <=> r.start <= a /\ a <= r.end
  BY RangeFacts DEF In
<1>2. PICK occ : /\ occ = Occupied(list, r) /\ occ \in Seq(RangeType) /\ Apart(occ)
                 /\ \A a \in Int : InAny(a, occ) <=> In(a, r) /\ ReadByte(list, a) # None
  BY OccupiedIs
<1>3. Len(occ) \in Nat
  BY <1>2, LenProperties
<1>4. \A k \in 1..Len(occ) : /\ occ[k].start \in Int /\ occ[k].end \in Int
                             /\ occ[k].start <= occ[k].end
  BY <1>2, ElementOfSeq, RangeFacts
<1>5. Within(occ, r)
  <2> SUFFICES ASSUME NEW k \in 1..Len(occ)
               PROVE  r.start <= occ[k].start /\ occ[k].end <= r.end
    BY DEF Within
  <2>1. InAny(occ[k].start, occ) /\ InAny(occ[k].end, occ)
    <3>1. In(occ[k].start, occ[k]) /\ In(occ[k].end, occ[k])
      BY <1>4 DEF In
    <3> HIDE DEF In
    <3>2. QED
      BY <3>1 DEF InAny
  <2>2. In(occ[k].start, r) /\ In(occ[k].end, r)
    BY <1>2, <1>4, <2>1
  <2>3. QED
    BY <1>1, <1>4, <2>2
<1>6. PICK acc : /\ IsFillBeforeRun(acc, list, occ, r, pattern)
                 /\ FilledBefore(list, occ, r, pattern) = acc[Len(occ)]
  BY <1>2, <1>5, FillBeforeRun
<1> DEFINE n == Len(occ)
           Reads(k) == GapsFilled(acc[k].segs, list, r, pattern, acc[k].cursor)
           T == {k \in 0..n : Reads(k) /\ acc[k].cursor = IF k = 0 THEN r.start ELSE occ[k].end + 1}
<1>7. 0 \in T
  <2>1. acc[0].segs = list /\ acc[0].cursor = r.start
    BY <1>6 DEF IsFillBeforeRun
  <2>2. \A a \in Int : ~(r.start <= a /\ a < r.start)
    BY <1>1
  <2>3. QED
    BY <1>3, <2>1, <2>2 DEF GapsFilled
<1>8. ASSUME NEW k \in 0..(n - 1), k \in T
      PROVE  k + 1 \in T
  <2>1. k + 1 \in 1..n /\ (k + 1) - 1 = k /\ k \in 0..n /\ k + 1 \in 0..n /\ k + 1 # 0 /\ k \in Int
    BY <1>3
  <2>2. PICK p, x, more : p = acc[k] /\ x = occ[k + 1] /\ more = acc[k + 1]
    OBVIOUS
  <2>3. /\ p \in FillPoints(r) /\ x \in RangeType /\ r.start <= x.start /\ x.end <= r.end
        /\ more = FillBefore(p, x, r, pattern)
    <3>1. p \in FillPoints(r) /\ more = FillBefore(p, x, r, pattern)
      BY <1>6, <2>1, <2>2 DEF IsFillBeforeRun
    <3>2. x \in RangeType /\ r.start <= x.start /\ x.end <= r.end
      BY <1>2, <1>5, <2>1, <2>2, ElementOfSeq DEF Within
    <3>3. QED
      BY <3>1, <3>2
  <2>4. /\ more.cursor = x.end + 1
        /\ \A a \in Int : ReadByte(more.segs, a) =
             IF p.cursor <= a /\ a <= x.start - 1 THEN PatternAt(r, pattern, a)
             ELSE ReadByte(p.segs, a)
    BY <2>3, FillBeforeStep
  <2>5. PICK cur, xs, xe, rs : /\ cur = p.cursor /\ xs = x.start /\ xe = x.end /\ rs = r.start
                               /\ cur \in Int /\ xs \in Int /\ xe \in Int /\ rs \in Int
                               /\ rs <= cur /\ xs <= xe /\ rs <= xs /\ xe <= r.end
    BY <1>1, <1>4, <2>1, <2>2, <2>3 DEF FillPoints
  <2>6. \A a \in Int : ReadByte(p.segs, a) =
          IF ReadByte(list, a) # None \/ ~(rs <= a /\ a < cur) THEN ReadByte(list, a)
          ELSE PatternAt(r, pattern, a)
    BY <1>8, <2>2, <2>5 DEF GapsFilled
  <2>7. cur = IF k = 0 THEN rs ELSE occ[k].end + 1
    BY <1>8, <2>2, <2>5
  <2>8. ASSUME NEW a \in Int, cur <= a, a <= xs - 1
        PROVE  ReadByte(list, a) = None
    <3>1. ASSUME NEW m \in 1..n, In(a, occ[m])
          PROVE  FALSE
      <4>1. PICK os, oe : os = occ[m].start /\ oe = occ[m].end /\ os \in Int /\ oe \in Int
                          /\ os <= a /\ a <= oe
        BY <3>1, <1>4 DEF In
      <4>2. CASE m >= k + 1
        <5>1. m = k + 1 \/ xe + 1 < os
          BY <1>2, <2>1, <2>2, <2>5, <4>1, <4>2 DEF Apart
        <5>2. xs <= os
          <6>1. m = k + 1 => os = xs
            BY <2>2, <2>5, <4>1
          <6>2. xs \in Int /\ xe \in Int /\ os \in Int /\ xs <= xe
            BY <4>1, <2>5
          <6>3. QED
            BY <5>1, <6>1, <6>2
        <5>3. /\ xs \in Int /\ os \in Int /\ a \in Int
              /\ os <= a /\ a <= xs - 1
          BY <4>1, <2>5, <2>8
        <5>4. QED
          BY <5>2, <5>3
      <4>3. CASE ~(m >= k + 1)
        <5>1. k \in 1..n /\ k # 0 /\ m <= k /\ m \in Int
          BY <4>3, <2>1, <1>3
        <5>2. PICK ks, ke : ks = occ[k].start /\ ke = occ[k].end /\ ks \in Int /\ ke \in Int
                            /\ ks <= ke
          BY <5>1, <1>4
        <5>3. cur = ke + 1
          BY <2>7, <5>1, <5>2
        <5>4. m < k => oe + 1 < ks
          BY <1>2, <5>1, <5>2, <4>1 DEF Apart
        <5>5. m = k => oe = ke
          BY <4>1, <5>2
        <5>6. oe <= ke
          BY <5>1, <5>2, <5>4, <5>5, <4>1
        <5>7. /\ oe \in Int /\ a \in Int /\ cur \in Int /\ ke \in Int
              /\ a <= oe /\ cur <= a
          BY <4>1, <5>2, <2>5, <2>8
        <5>8. QED
          BY <5>3, <5>6, <5>7
      <4>4. QED
        BY <4>2, <4>3
    <3>2. ~InAny(a, occ)
      BY <3>1 DEF InAny
    <3>3. In(a, r)
      BY <1>1, <2>5, <2>8
    <3>4. QED
      BY <3>2, <3>3, <1>2
  <2>9. ASSUME NEW a \in Int, xs <= a, a <= xe
        PROVE  ReadByte(list, a) # None
    <3>1. In(a, x)
      BY <2>5, <2>9 DEF In
    <3>2. InAny(a, occ)
      BY <3>1, <2>1, <2>2 DEF InAny
    <3>3. QED
      BY <3>2, <1>2
  <2>10. ASSUME NEW a \in Int
         PROVE  ReadByte(more.segs, a) =
                  IF ReadByte(list, a) # None \/ ~(rs <= a /\ a < xe + 1) THEN ReadByte(list, a)
                  ELSE PatternAt(r, pattern, a)
    <3>1. ReadByte(more.segs, a) =
            IF cur <= a /\ a <= xs - 1 THEN PatternAt(r, pattern, a) ELSE ReadByte(p.segs, a)
      BY <2>4, <2>5
    <3>2. CASE cur <= a /\ a <= xs - 1
      <4>1. rs <= a /\ a < xe + 1
        BY <2>5, <3>2
      <4>2. QED
        BY <3>1, <3>2, <4>1, <2>8
    <3>3. CASE ~(cur <= a /\ a <= xs - 1)
      <4>1. (rs <= a /\ a < xe + 1) <=> (rs <= a /\ a < cur) \/ (xs <= a /\ a <= xe)
                                        \/ (rs <= a /\ a < cur /\ a < xe + 1)
        <5>1. cur <= xe + 1
          <6>1. CASE k = 0
            BY <6>1, <2>5, <2>7
          <6>2. CASE k # 0
            <7>1. k \in 1..n /\ k < k + 1
              BY <6>2, <2>1, <1>3
            <7>2. PICK ke : ke = occ[k].end /\ ke \in Int /\ cur = ke + 1
              BY <7>1, <1>4, <2>7, <6>2
            <7>3. ke + 1 < xs
              BY <7>1, <7>2, <2>1, <2>2, <2>5, <1>2 DEF Apart
            <7>4. cur \in Int /\ xs \in Int /\ xe \in Int /\ xs <= xe
              BY <2>5
            <7>5. QED
              BY <7>2, <7>3, <7>4
          <6>3. QED
            BY <6>1, <6>2
        <5>2. cur \in Int /\ xs \in Int /\ xe \in Int /\ rs \in Int /\ rs <= xs
          BY <2>5
        <5>3. QED
          BY <5>1, <5>2, <3>3
      <4>2. ReadByte(more.segs, a) = ReadByte(p.segs, a)
        BY <3>1, <3>3
      <4>3. CASE xs <= a /\ a <= xe
        BY <4>2, <4>3, <2>6, <2>9
      <4>4. CASE ~(xs <= a /\ a <= xe)
        <5>1. (rs <= a /\ a < xe + 1) <=> (rs <= a /\ a < cur)
          BY <4>1, <4>4
        <5>2. QED
          BY <4>2, <5>1, <2>6
      <4>5. QED
        BY <4>3, <4>4
    <3>4. QED
      BY <3>2, <3>3
  <2>11. Reads(k + 1)
    BY <2>2, <2>4, <2>5, <2>10 DEF GapsFilled
  <2>12. more.cursor = IF k + 1 = 0 THEN r.start ELSE x.end + 1
    BY <2>1, <2>4
  <2>13. QED
    BY <2>1, <2>2, <2>11, <2>12
<1>9. n \in T /\ n \in 0..n
  <2> HIDE DEF T, n
  <2>1. \A k \in 0..n : k \in T
    <3>1. n \in Nat
      BY <1>3 DEF n
    <3>2. QED
      BY <3>1, <1>7, <1>8, InductionUpTo
  <2>2. QED
    BY <2>1, <1>3 DEF n
<1>10. PICK last, lo, hi, cond :
         last = acc[n] /\ lo = last.cursor /\ hi = r.end /\ cond = (last.cursor <= r.end)
  OBVIOUS
<1>11. /\ last \in FillPoints(r) /\ last.segs \in Seq(StoredSegment)
       /\ lo \in Int /\ hi \in Int /\ r.start <= lo /\ hi <= r.end /\ lo <= r.end + 1
       /\ GapsFilled(last.segs, list, r, pattern, lo)
  <2>1. last \in FillPoints(r)
    BY <1>6, <1>9, <1>10 DEF IsFillBeforeRun
  <2>2. QED
    BY <2>1, <1>1, <1>9, <1>10 DEF FillPoints
<1>12. FillPushed(new, last.segs, cond, r, pattern, lo, hi)
  BY <1>2, <1>6, <1>10 DEF FillPushed, FillGapsInRange, FilledBefore
<1>13. PICK segs : segs = last.segs /\ (cond <=> lo <= hi)
  BY <1>10
<1>14. /\ new \in Seq(StoredSegment)
       /\ \A a \in Int : ReadByte(new, a) =
            IF lo <= a /\ a <= hi THEN PatternAt(r, pattern, a) ELSE ReadByte(segs, a)
  BY <1>11, <1>12, <1>13, PushFill
<1>15. ASSUME NEW a \in Int, lo <= a, a <= hi
       PROVE  ReadByte(list, a) = None
  <2>1. ASSUME NEW m \in 1..n, In(a, occ[m])
        PROVE  FALSE
    <3>1. PICK os, oe : os = occ[m].start /\ oe = occ[m].end /\ os \in Int /\ oe \in Int
                        /\ os <= a /\ a <= oe
      BY <2>1, <1>4 DEF In
    <3>2. n \in 1..n /\ n # 0 /\ m <= n /\ m \in Int
      BY <1>3
    <3>3. PICK ns, ne : ns = occ[n].start /\ ne = occ[n].end /\ ns \in Int /\ ne \in Int
                        /\ ns <= ne
      BY <3>2, <1>4
    <3>4. lo = ne + 1
      BY <1>9, <1>10, <3>2, <3>3
    <3>5. m < n => oe + 1 < ns
      BY <1>2, <3>1, <3>2, <3>3 DEF Apart
    <3>6. m = n => oe = ne
      BY <3>1, <3>3
    <3>7. oe <= ne
      BY <3>1, <3>2, <3>3, <3>5, <3>6
    <3>8. QED
      BY <3>1, <3>3, <3>4, <3>7, <1>15, <1>11
  <2>2. ~InAny(a, occ)
    BY <2>1 DEF InAny
  <2>3. In(a, r)
    BY <1>1, <1>10, <1>11, <1>15
  <2>4. QED
    BY <2>2, <2>3, <1>2
<1>16. ASSUME NEW a \in Int
       PROVE  ReadByte(new, a) =
                IF ReadByte(list, a) # None \/ ~(r.start <= a /\ a < r.end + 1) THEN ReadByte(list, a)
                ELSE PatternAt(r, pattern, a)
  <2>1. ReadByte(segs, a) =
          IF ReadByte(list, a) # None \/ ~(r.start <= a /\ a < lo) THEN ReadByte(list, a)
          ELSE PatternAt(r, pattern, a)
    BY <1>11, <1>13 DEF GapsFilled
  <2>2. CASE lo <= a /\ a <= hi
    <3>1. r.start <= a /\ a < r.end + 1
      BY <1>1, <1>10, <1>11, <2>2
    <3>2. QED
      BY <3>1, <1>14, <1>15, <2>2
  <2>3. CASE ~(lo <= a /\ a <= hi)
    <3>1. (r.start <= a /\ a < r.end + 1) <=> (r.start <= a /\ a < lo)
      BY <1>1, <1>10, <1>11, <2>3
    <3>2. QED
      BY <3>1, <2>1, <2>3, <1>14
  <2>4. QED
    BY <2>2, <2>3
<1>17. QED
  BY <1>14, <1>16 DEF GapsFilled

LEMMA PatternByte ==
  ASSUME NEW r \in RangeType, NEW pattern \in Seq(Byte), pattern # <<>>, NEW a \in Int
  PROVE  PatternAt(r, pattern, a) \in Byte /\ PatternAt(r, pattern, a) # None
<1>1. PICK p \in Nat : p = Len(pattern) /\ p > 0
  BY EmptySeq, LenProperties
<1>2. PICK x \in Int : x = a - r.start
  BY RangeFacts
<1>3. (x % p) + 1 \in 1..p
  BY <1>1
<1>4. pattern[(x % p) + 1] \in Byte
  BY <1>1, <1>3, ElementOfSeq
<1>5. QED
  BY <1>1, <1>2, <1>4, ByteAssumption DEF PatternAt

\* What one range that can be filled makes of a list.
LEMMA FillRangeReads ==
  ASSUME NEW list \in Seq(StoredSegment), NEW r \in RangeType, Materializable(r),
         NEW pattern \in Seq(Byte), pattern # <<>>, NEW overwrite \in BOOLEAN,
         NEW new, new = FillRange(list, r, pattern, overwrite)
  PROVE  /\ new \in Seq(StoredSegment)
         /\ \A a \in Int : ReadByte(new, a) =
              IF In(a, r) /\ (overwrite \/ ReadByte(list, a) = None)
                THEN PatternAt(r, pattern, a) ELSE ReadByte(list, a)
<1>1. /\ r.start \in Int /\ r.end \in Int /\ r.start <= r.end
      /\ \A a \in Int : In(a, r) <=> r.start <= a /\ a <= r.end
      /\ \A a \in Int : In(a, r) <=> r.start <= a /\ a < r.end + 1
  BY RangeFacts DEF In
<1>2. CASE overwrite
  <2>1. PICK cut : /\ cut = CutRange(list, r) /\ cut \in Seq(StoredSegment)
                   /\ ReadsIn(cut, list, Outside(r))
    BY CutReads
  <2>2. PICK lo, hi, s : /\ lo = r.start /\ hi = r.end /\ lo \in Int /\ hi \in Int
                         /\ s = FillSegment(r, pattern, lo, hi)
    BY <1>1
  <2>3. IsFill(s, r, pattern, lo, hi)
    BY <1>1, <2>2, FillMade
  <2>4. new = Append(cut, s)
    BY <1>2, <2>1, <2>2 DEF FillRange
  <2>5. /\ new \in Seq(StoredSegment)
        /\ \A a \in Int : ReadByte(new, a) =
             IF lo <= a /\ a <= hi THEN PatternAt(r, pattern, a) ELSE ReadByte(cut, a)
    BY <2>1, <2>2, <2>3, <2>4, FillAppended
  <2>6. \A a \in Int : ~In(a, r) => ReadByte(cut, a) = ReadByte(list, a)
    BY <2>1 DEF ReadsIn, Outside
  <2>7. QED
    BY <1>1, <1>2, <2>2, <2>5, <2>6
<1>3. CASE ~overwrite
  <2>1. new = FillGapsInRange(list, r, pattern)
    BY <1>3 DEF FillRange
  <2>2. new \in Seq(StoredSegment) /\ GapsFilled(new, list, r, pattern, r.end + 1)
    BY <2>1, FillGapsRead
  <2> HIDE DEF In
  <2>3. QED
    BY <1>1, <1>3, <2>2 DEF GapsFilled
<1>4. QED
  BY <1>2, <1>3

AllMaterializable(ranges) == \A k \in 1..Len(ranges) : Materializable(ranges[k])

FilledRanges(list, ranges, pattern, overwrite) ==
  FoldLeft(LAMBDA acc, r : FillRange(acc, r, pattern, overwrite), list, ranges)

\* The list after each of the ranges is filled.
IsFillsRun(acc, list, ranges, pattern, overwrite) ==
  /\ acc \in [0..Len(ranges) -> Seq(StoredSegment)]
  /\ acc[0] = list
  /\ \A k \in 1..Len(ranges) : acc[k] = FillRange(acc[k - 1], ranges[k], pattern, overwrite)

LEMMA FillsRun ==
  ASSUME NEW list \in Seq(StoredSegment), NEW ranges \in Seq(RangeType),
         AllMaterializable(ranges), NEW pattern \in Seq(Byte), pattern # <<>>,
         NEW overwrite \in BOOLEAN
  PROVE  \E acc : IsFillsRun(acc, list, ranges, pattern, overwrite) /\ FilledRanges(list, ranges, pattern, overwrite) = acc[Len(ranges)]
<1> DEFINE n == Len(ranges)
           A == Seq(StoredSegment)
           F == [p \in A \X (1..n) |-> FillRange(p[1], ranges[p[2]], pattern, overwrite)]
           E(g) == g = [ix \in SUBSET (1..n) |->
                     IF ix = {} THEN list
                     ELSE LET mx == Max(ix) IN FillRange(g[ix \ {mx}], ranges[mx], pattern, overwrite)]
           g == CHOOSE h : E(h)
<1>1. DOMAIN ranges = 1..n /\ n \in Nat
  BY LenProperties
<1>2. FilledRanges(list, ranges, pattern, overwrite) = g[1..n]
  BY <1>1, Zenon DEF FilledRanges, FoldLeft, MapThenFoldSet
<1>3. IsStep(F, n, A) /\ list \in A
  <2>1. ASSUME NEW l \in A, NEW k \in 1..n
        PROVE  FillRange(l, ranges[k], pattern, overwrite) \in A
    <3>1. ranges[k] \in RangeType /\ Materializable(ranges[k])
      BY ElementOfSeq DEF AllMaterializable
    <3>2. QED
      BY <3>1, <2>1, FillRangeReads
  <2>2. list \in A
    OBVIOUS
  <2> HIDE DEF A
  <2>3. QED
    BY <2>1, <2>2 DEF IsStep
<1>4. \A ix \in SUBSET (1..n) : ix # {} => Max(ix) \in 1..n /\ ix \ {Max(ix)} \in SUBSET (1..n)
  BY <1>1, MaxUpTo
<1>5. \A k \in 1..n, y \in A : F[<<y, k>>] = FillRange(y, ranges[k], pattern, overwrite)
  OBVIOUS
<1> HIDE DEF n, A, F
<1>6. \E h : E(h)
  <2>1. PICK h \in [SUBSET (1..n) -> A] : Folds(h, n, list, F)
    BY <1>1, <1>3, FoldExists
  <2>2. \A ix \in SUBSET (1..n) : ix # {} =>
          h[ix] = FillRange(h[ix \ {Max(ix)}], ranges[Max(ix)], pattern, overwrite)
    BY <2>1, <1>4, <1>5 DEF Folds
  <2>3. E(h)
    BY <2>1, <2>2 DEF Folds
  <2>4. QED
    BY <2>3, Zenon
<1>7. E(g)
  <2> HIDE DEF E
  <2>1. QED
    BY <1>6, Zenon
<1> HIDE DEF g
<1>8. FoldsWithin(g, n, A, list, F)
  BY <1>4, <1>5, <1>7 DEF FoldsWithin
<1> HIDE DEF E
<1>9. PICK acc : IsRun(acc, n, A, list, F) /\ g[1..n] = acc[n]
  BY <1>1, <1>3, <1>8, FoldRun
<1>10. \A k \in 1..n : acc[k] = FillRange(acc[k - 1], ranges[k], pattern, overwrite)
  <2> SUFFICES ASSUME NEW k \in 1..n
               PROVE  acc[k] = F[<<acc[k - 1], k>>] /\ acc[k - 1] \in A
    BY <1>5
  <2>1. k - 1 \in 0..n
    BY <1>1
  <2>2. QED
    BY <2>1, <1>9 DEF IsRun
<1>11. QED
  BY <1>2, <1>9, <1>10 DEF IsRun, IsFillsRun, n, A

\* The first k ranges are filled: with the pattern of the last range that holds
\* an address, or of the first when only the gaps are.
FilledUpTo(new, list, ranges, k, pattern, overwrite) ==
  \A a \in Int :
    /\ (\A m \in 1..k : ~In(a, ranges[m])) \/ (~overwrite /\ ReadByte(list, a) # None)
         => ReadByte(new, a) = ReadByte(list, a)
    /\ \A m \in 1..k :
         /\ In(a, ranges[m])
         /\ IF overwrite THEN \A l \in (m + 1)..k : ~In(a, ranges[l])
            ELSE ReadByte(list, a) = None /\ \A l \in 1..(m - 1) : ~In(a, ranges[l])
         => ReadByte(new, a) = PatternAt(ranges[m], pattern, a)

LEMMA FillsRead ==
  ASSUME NEW list \in Seq(StoredSegment), NEW ranges \in Seq(RangeType),
         AllMaterializable(ranges), NEW pattern \in Seq(Byte), pattern # <<>>,
         NEW overwrite \in BOOLEAN,
         NEW new, new = FillRanges(list, ranges, pattern, overwrite)
  PROVE  /\ new \in Seq(StoredSegment)
         /\ FilledUpTo(new, list, ranges, Len(ranges), pattern, overwrite)
<1>1. PICK acc : /\ IsFillsRun(acc, list, ranges, pattern, overwrite)
                 /\ FilledRanges(list, ranges, pattern, overwrite) = acc[Len(ranges)]
  BY FillsRun
<1> DEFINE n == Len(ranges)
           T == {k \in 0..n : FilledUpTo(acc[k], list, ranges, k, pattern, overwrite)}
<1>2. n \in Nat
  BY LenProperties
<1>3. 0 \in T
  BY <1>1, <1>2 DEF IsFillsRun, FilledUpTo
<1>4. ASSUME NEW k \in 0..(n - 1), k \in T
      PROVE  k + 1 \in T
  <2>1. k + 1 \in 1..n /\ (k + 1) - 1 = k /\ k \in 0..n /\ k + 1 \in 0..n /\ k \in Int
    BY <1>2
  <2>2. PICK r, p, more : r = ranges[k + 1] /\ p = acc[k] /\ more = acc[k + 1]
    OBVIOUS
  <2>3. /\ r \in RangeType /\ Materializable(r) /\ p \in Seq(StoredSegment)
        /\ more = FillRange(p, r, pattern, overwrite)
    BY <1>1, <2>1, <2>2, ElementOfSeq DEF IsFillsRun, AllMaterializable
  <2>4. \A a \in Int : ReadByte(more, a) =
          IF In(a, r) /\ (overwrite \/ ReadByte(p, a) = None)
            THEN PatternAt(r, pattern, a) ELSE ReadByte(p, a)
    BY <2>3, FillRangeReads
  <2>5. FilledUpTo(p, list, ranges, k, pattern, overwrite)
    BY <1>4, <2>2
  <2>6. ASSUME NEW a \in Int,
               (\A m \in 1..(k + 1) : ~In(a, ranges[m]))
                 \/ (~overwrite /\ ReadByte(list, a) # None)
        PROVE  ReadByte(more, a) = ReadByte(list, a)
    <3>1. k + 1 \in 1..(k + 1) /\ \A m \in 1..k : m \in 1..(k + 1)
      BY <2>1
    <3>2. (\A m \in 1..k : ~In(a, ranges[m])) \/ (~overwrite /\ ReadByte(list, a) # None)
      BY <2>6, <3>1
    <3>3. ReadByte(p, a) = ReadByte(list, a)
      BY <2>5, <3>2 DEF FilledUpTo
    <3>4. ~In(a, r) \/ (~overwrite /\ ReadByte(list, a) # None)
      BY <2>2, <2>6, <3>1
    <3>5. QED
      BY <2>4, <3>3, <3>4
  <2>7. ASSUME NEW a \in Int, NEW m \in 1..(k + 1), In(a, ranges[m]),
               IF overwrite THEN \A l \in (m + 1)..(k + 1) : ~In(a, ranges[l])
               ELSE ReadByte(list, a) = None /\ \A l \in 1..(m - 1) : ~In(a, ranges[l])
        PROVE  ReadByte(more, a) = PatternAt(ranges[m], pattern, a)
    <3>1. CASE m = k + 1
      <4>1. CASE overwrite
        BY <2>2, <2>4, <2>7, <3>1, <4>1
      <4>2. CASE ~overwrite
        <5>1. \A l \in 1..k : ~In(a, ranges[l])
          BY <2>1, <2>7, <3>1, <4>2
        <5>2. ReadByte(p, a) = None
          BY <2>5, <2>7, <4>2, <5>1 DEF FilledUpTo
        <5>3. QED
          BY <2>2, <2>4, <2>7, <3>1, <5>2
      <4>3. QED
        BY <4>1, <4>2
    <3>2. CASE m # k + 1
      <4>1. m \in 1..k
        BY <2>1, <3>2
      <4>2. CASE overwrite
        <5>1. k + 1 \in (m + 1)..(k + 1) /\ \A l \in (m + 1)..k : l \in (m + 1)..(k + 1)
          BY <2>1, <4>1
        <5>2. ~In(a, r) /\ \A l \in (m + 1)..k : ~In(a, ranges[l])
          BY <2>2, <2>7, <4>2, <5>1
        <5>3. ReadByte(p, a) = PatternAt(ranges[m], pattern, a)
          BY <2>5, <2>7, <4>1, <4>2, <5>2 DEF FilledUpTo
        <5>4. QED
          BY <2>4, <5>2, <5>3
      <4>3. CASE ~overwrite
        <5>1. ReadByte(p, a) = PatternAt(ranges[m], pattern, a)
          BY <2>5, <2>7, <4>1, <4>3 DEF FilledUpTo
        <5>2. ranges[m] \in RangeType
          BY <2>1, <4>1, ElementOfSeq
        <5>3. PatternAt(ranges[m], pattern, a) # None
          BY <5>2, PatternByte
        <5>4. QED
          BY <2>4, <4>3, <5>1, <5>3
      <4>4. QED
        BY <4>2, <4>3
    <3>3. QED
      BY <3>1, <3>2
  <2>8. FilledUpTo(more, list, ranges, k + 1, pattern, overwrite)
    BY <2>6, <2>7 DEF FilledUpTo
  <2>9. QED
    BY <2>1, <2>2, <2>8
<1>5. n \in T /\ n \in 0..n
  <2> HIDE DEF T, n
  <2>1. \A k \in 0..n : k \in T
    BY <1>2, <1>3, <1>4, InductionUpTo
  <2>2. QED
    BY <2>1, <1>2
<1>6. new = acc[n]
  BY <1>1 DEF FillRanges, FilledRanges
<1>7. QED
  BY <1>1, <1>5, <1>6 DEF IsFillsRun

-----------------------------------------------------------------------------
(* offset_addresses, merge *)

\* The segments of one list have at a what those of the other have at c.
AgreeAt(l, a, r, c) ==
  /\ Len(l) = Len(r)
  /\ \A n \in 1..Len(l) : /\ Covers(l[n], a) <=> Covers(r[n], c)
                          /\ Covers(l[n], a) => ByteAt(l[n], a) = ByteAt(r[n], c)

LEMMA ReadsAlike ==
  ASSUME NEW l \in Seq(StoredSegment), NEW r \in Seq(StoredSegment),
         NEW a \in Int, NEW c \in Int, AgreeAt(l, a, r, c)
  PROVE  ReadByte(l, a) = ReadByte(r, c)
<1> USE DEF AgreeAt
<1>1. /\ l \in ListType /\ AllInSpace(l) /\ r \in ListType /\ AllInSpace(r)
  BY StoredList
<1>2. CASE \E n \in 1..Len(l) : Covers(l[n], a)
  <2>1. LastWins(l, Len(l), a, ReadByte(l, a))
    BY <1>1, <1>2, ReadIsLastWins
  <2>2. PICK m \in 1..Len(l) : /\ Has(l[m], a, ReadByte(l, a))
                               /\ \A k \in (m + 1)..Len(l) : ~Covers(l[k], a)
    BY <2>1 DEF LastWins
  <2>3. Has(r[m], c, ReadByte(l, a))
    BY <2>2 DEF Has
  <2>4. \A k \in (m + 1)..Len(r) : ~Covers(r[k], c)
    <3>1. \A k \in (m + 1)..Len(l) : k \in 1..Len(l)
      OBVIOUS
    <3>2. QED
      BY <2>2, <3>1
  <2>5. LastWins(r, Len(r), c, ReadByte(l, a))
    BY <2>3, <2>4 DEF LastWins
  <2>6. QED
    BY <2>5, <1>1, ReadWins
<1>3. CASE ~\E n \in 1..Len(l) : Covers(l[n], a)
  <2>1. ReadByte(l, a) = None
    BY <1>1, <1>3, ReadCovered
  <2>2. ~\E n \in 1..Len(r) : Covers(r[n], c)
    BY <1>3
  <2>3. ReadByte(r, c) = None
    BY <1>1, <2>2, ReadCovered
  <2>4. QED
    BY <2>1, <2>3
<1>4. QED
  BY <1>2, <1>3

\* An offset moves every byte, of every segment.
LEMMA OffsetReads ==
  ASSUME NEW list \in Seq(StoredSegment), NEW offset \in Int, CanOffset(list, offset),
         NEW new, new = OffsetAddresses(list, offset)
  PROVE  /\ new \in Seq(StoredSegment) /\ Len(new) = Len(list)
         /\ \A a \in Int : /\ AgreeAt(new, a, list, a - offset)
                           /\ ReadByte(new, a) = ReadByte(list, a - offset)
<1> DEFINE n == Len(list)
<1>1. n \in Nat /\ DOMAIN list = 1..n
  BY LenProperties
<1>2. ASSUME NEW k \in 1..n
      PROVE  /\ list[k] \in StoredSegment /\ ~IsEmpty(list[k])
             /\ new[k] \in StoredSegment
             /\ new[k] = [start |-> list[k].start + offset, data |-> list[k].data]
  <2>1. list[k] \in StoredSegment
    BY ElementOfSeq
  <2>2. PICK s : s = list[k] /\ s \in StoredSegment /\ ~IsEmpty(s) /\ InSpace(s)
                 /\ Len(s.data) <= MaxAddr
    BY <2>1, StoredFacts DEF StoredSegment
  <2>3. /\ s.start + offset \in Addr /\ EndAddress(s) + offset <= MaxAddr
    BY <1>1, <2>2 DEF CanOffset
  <2>4. EndAddress(s) = s.start + Len(s.data) - 1 /\ s.start \in Int /\ Len(s.data) \in Nat
    BY <2>2, SpanInSpace, LenProperties, MaxAddrAssumption DEF InSpace, Addr
  <2>5. s = [start |-> s.start, data |-> s.data] /\ s.data \in Seq(Byte) /\ Len(s.data) > 0
    BY <2>2 DEF InSpace
  <2>6. PICK t : t = [start |-> s.start + offset, data |-> s.data]
    OBVIOUS
  <2>7. t \in [start : Addr, data : Seq(Byte)] /\ t.start = s.start + offset /\ t.data = s.data
    BY <2>3, <2>5, <2>6
  <2>8. InSpace(t)
    BY <2>3, <2>4, <2>5, <2>7, MaxAddrAssumption DEF InSpace
  <2>9. t \in StoredSegment
    BY <2>2, <2>7, <2>8, StoredFacts
  <2>10. new[k] = t
    BY <1>1, <2>2, <2>5, <2>6 DEF OffsetAddresses
  <2>11. QED
    BY <2>2, <2>6, <2>9, <2>10
<1>3. new \in Seq(StoredSegment) /\ Len(new) = n
  <2>1. new = [k \in 1..n |-> new[k]]
    BY <1>1 DEF OffsetAddresses
  <2>2. \A k \in 1..n : new[k] \in StoredSegment
    BY <1>2
  <2> HIDE DEF n
  <2>3. QED
    BY <1>1, <2>1, <2>2, MadeStored
<1>4. ASSUME NEW a \in Int
      PROVE  AgreeAt(new, a, list, a - offset) /\ ReadByte(new, a) = ReadByte(list, a - offset)
  <2>1. PICK c : c = a - offset /\ c \in Int
    OBVIOUS
  <2>2. ASSUME NEW k \in 1..n
        PROVE  /\ Covers(new[k], a) <=> Covers(list[k], c)
               /\ ByteAt(new[k], a) = ByteAt(list[k], c)
    <3>1. PICK s : s = list[k] /\ s.start \in Int /\ Len(s.data) \in Nat
      BY <1>2, StoredFacts, LenProperties, MaxAddrAssumption DEF InSpace, Addr
    <3>2. new[k].start = s.start + offset /\ new[k].data = s.data
      <4>1. new[k] = [start |-> s.start + offset, data |-> s.data]
        BY <1>2, <3>1
      <4>2. QED
        BY <4>1
    <3>3. a - (s.start + offset) + 1 = c - s.start + 1
      BY <2>1, <3>1
    <3>4. Covers(new[k], a) <=> Covers(s, c)
      BY <2>1, <3>1, <3>2 DEF Covers
    <3>5. QED
      BY <3>1, <3>2, <3>3, <3>4 DEF ByteAt
  <2>3. AgreeAt(new, a, list, c)
    BY <1>3, <2>2 DEF AgreeAt
  <2>4. ReadByte(new, a) = ReadByte(list, c)
    BY <1>3, <2>1, <2>3, ReadsAlike
  <2>5. QED
    BY <2>1, <2>3, <2>4
<1>5. QED
  BY <1>3, <1>4

\* The list after each of the segments is appended.
IsAppendsRun(acc, list, source) ==
  /\ acc \in [0..Len(source) -> Seq(StoredSegment)]
  /\ acc[0] = list
  /\ \A k \in 1..Len(source) : acc[k] = AppendSegment(acc[k - 1], source[k])

LEMMA AppendsRun ==
  ASSUME NEW list \in Seq(StoredSegment), NEW source \in Seq(StoredSegment)
  PROVE  \E acc : IsAppendsRun(acc, list, source) /\ FoldLeft(AppendSegment, list, source) = acc[Len(source)]
<1> DEFINE n == Len(source)
           A == Seq(StoredSegment)
           F == [p \in A \X (1..n) |-> AppendSegment(p[1], source[p[2]])]
           E(g) == g = [ix \in SUBSET (1..n) |->
                     IF ix = {} THEN list
                     ELSE LET mx == Max(ix) IN AppendSegment(g[ix \ {mx}], source[mx])]
           g == CHOOSE h : E(h)
<1>1. DOMAIN source = 1..n /\ n \in Nat
  BY LenProperties
<1>2. FoldLeft(AppendSegment, list, source) = g[1..n]
  BY <1>1, Zenon DEF FoldLeft, MapThenFoldSet
<1>3. IsStep(F, n, A) /\ list \in A
  <2>1. ASSUME NEW l \in A, NEW k \in 1..n
        PROVE  AppendSegment(l, source[k]) \in A
    <3>1. source[k] \in SegmentType
      BY ElementOfSeq DEF StoredSegment
    <3>2. QED
      BY <3>1, <2>1, AppendStored
  <2>2. list \in A
    OBVIOUS
  <2> HIDE DEF A
  <2>3. QED
    BY <2>1, <2>2 DEF IsStep
<1>4. \A ix \in SUBSET (1..n) : ix # {} => Max(ix) \in 1..n /\ ix \ {Max(ix)} \in SUBSET (1..n)
  BY <1>1, MaxUpTo
<1>5. \A k \in 1..n, y \in A : F[<<y, k>>] = AppendSegment(y, source[k])
  OBVIOUS
<1> HIDE DEF n, A, F
<1>6. \E h : E(h)
  <2>1. PICK h \in [SUBSET (1..n) -> A] : Folds(h, n, list, F)
    BY <1>1, <1>3, FoldExists
  <2>2. \A ix \in SUBSET (1..n) : ix # {} =>
          h[ix] = AppendSegment(h[ix \ {Max(ix)}], source[Max(ix)])
    BY <2>1, <1>4, <1>5 DEF Folds
  <2>3. E(h)
    BY <2>1, <2>2 DEF Folds
  <2>4. QED
    BY <2>3, Zenon
<1>7. E(g)
  <2> HIDE DEF E
  <2>1. QED
    BY <1>6, Zenon
<1> HIDE DEF g
<1>8. FoldsWithin(g, n, A, list, F)
  BY <1>4, <1>5, <1>7 DEF FoldsWithin
<1> HIDE DEF E
<1>9. PICK acc : IsRun(acc, n, A, list, F) /\ g[1..n] = acc[n]
  BY <1>1, <1>3, <1>8, FoldRun
<1>10. \A k \in 1..n : acc[k] = AppendSegment(acc[k - 1], source[k])
  <2> SUFFICES ASSUME NEW k \in 1..n
               PROVE  acc[k] = F[<<acc[k - 1], k>>] /\ acc[k - 1] \in A
    BY <1>5
  <2>1. k - 1 \in 0..n
    BY <1>1
  <2>2. QED
    BY <2>1, <1>9 DEF IsRun
<1>11. QED
  BY <1>2, <1>9, <1>10 DEF IsRun, IsAppendsRun, n, A

\* The list after each of the segments is prepended.
IsPrependsRun(acc, list, source) ==
  /\ acc \in [0..Len(source) -> Seq(StoredSegment)]
  /\ acc[0] = list
  /\ \A k \in 1..Len(source) : acc[k] = PrependSegment(acc[k - 1], source[k])

LEMMA PrependsRun ==
  ASSUME NEW list \in Seq(StoredSegment), NEW source \in Seq(StoredSegment)
  PROVE  \E acc : IsPrependsRun(acc, list, source) /\ FoldLeft(PrependSegment, list, source) = acc[Len(source)]
<1> DEFINE n == Len(source)
           A == Seq(StoredSegment)
           F == [p \in A \X (1..n) |-> PrependSegment(p[1], source[p[2]])]
           E(g) == g = [ix \in SUBSET (1..n) |->
                     IF ix = {} THEN list
                     ELSE LET mx == Max(ix) IN PrependSegment(g[ix \ {mx}], source[mx])]
           g == CHOOSE h : E(h)
<1>1. DOMAIN source = 1..n /\ n \in Nat
  BY LenProperties
<1>2. FoldLeft(PrependSegment, list, source) = g[1..n]
  BY <1>1, Zenon DEF FoldLeft, MapThenFoldSet
<1>3. IsStep(F, n, A) /\ list \in A
  <2>1. ASSUME NEW l \in A, NEW k \in 1..n
        PROVE  PrependSegment(l, source[k]) \in A
    <3>1. source[k] \in SegmentType
      BY ElementOfSeq DEF StoredSegment
    <3>2. QED
      BY <3>1, <2>1, PrependStored
  <2>2. list \in A
    OBVIOUS
  <2> HIDE DEF A
  <2>3. QED
    BY <2>1, <2>2 DEF IsStep
<1>4. \A ix \in SUBSET (1..n) : ix # {} => Max(ix) \in 1..n /\ ix \ {Max(ix)} \in SUBSET (1..n)
  BY <1>1, MaxUpTo
<1>5. \A k \in 1..n, y \in A : F[<<y, k>>] = PrependSegment(y, source[k])
  OBVIOUS
<1> HIDE DEF n, A, F
<1>6. \E h : E(h)
  <2>1. PICK h \in [SUBSET (1..n) -> A] : Folds(h, n, list, F)
    BY <1>1, <1>3, FoldExists
  <2>2. \A ix \in SUBSET (1..n) : ix # {} =>
          h[ix] = PrependSegment(h[ix \ {Max(ix)}], source[Max(ix)])
    BY <2>1, <1>4, <1>5 DEF Folds
  <2>3. E(h)
    BY <2>1, <2>2 DEF Folds
  <2>4. QED
    BY <2>3, Zenon
<1>7. E(g)
  <2> HIDE DEF E
  <2>1. QED
    BY <1>6, Zenon
<1> HIDE DEF g
<1>8. FoldsWithin(g, n, A, list, F)
  BY <1>4, <1>5, <1>7 DEF FoldsWithin
<1> HIDE DEF E
<1>9. PICK acc : IsRun(acc, n, A, list, F) /\ g[1..n] = acc[n]
  BY <1>1, <1>3, <1>8, FoldRun
<1>10. \A k \in 1..n : acc[k] = PrependSegment(acc[k - 1], source[k])
  <2> SUFFICES ASSUME NEW k \in 1..n
               PROVE  acc[k] = F[<<acc[k - 1], k>>] /\ acc[k - 1] \in A
    BY <1>5
  <2>1. k - 1 \in 0..n
    BY <1>1
  <2>2. QED
    BY <2>1, <1>9 DEF IsRun
<1>11. QED
  BY <1>2, <1>9, <1>10 DEF IsRun, IsPrependsRun, n, A

\* Overwriting, the other file wins where it has a byte.
LEMMA OverwriteReads ==
  ASSUME NEW list \in Seq(StoredSegment), NEW source \in Seq(StoredSegment),
         NEW new, new = MergeSegments(list, source, "Overwrite")
  PROVE  new \in Seq(StoredSegment) /\ ReadsFirst(new, source, list)
<1>1. PICK acc : /\ IsAppendsRun(acc, list, source)
                 /\ FoldLeft(AppendSegment, list, source) = acc[Len(source)]
  BY AppendsRun
<1> DEFINE n == Len(source)
           Free(k, a) == \A m \in 1..k : ~Covers(source[m], a)
           Reads(k) == \A a \in Int : \A b :
             /\ LastWins(source, k, a, b) => ReadByte(acc[k], a) = b
             /\ Free(k, a) => ReadByte(acc[k], a) = ReadByte(list, a)
           T == {k \in 0..n : Reads(k)}
<1>2. n \in Nat
  BY LenProperties
<1>3. 0 \in T
  <2>1. \A a, b : ~LastWins(source, 0, a, b)
    BY DEF LastWins
  <2>2. acc[0] = list
    BY <1>1 DEF IsAppendsRun
  <2>3. QED
    BY <1>2, <2>1, <2>2
<1>4. ASSUME NEW k \in 0..(n - 1), k \in T
      PROVE  k + 1 \in T
  <2>1. k + 1 \in 1..n /\ (k + 1) - 1 = k /\ k \in 0..n /\ k + 1 \in 0..n /\ k \in Nat
    BY <1>2
  <2>2. PICK s, p, more : s = source[k + 1] /\ p = acc[k] /\ more = acc[k + 1]
    OBVIOUS
  <2>3. s \in SegmentType /\ p \in Seq(StoredSegment) /\ more = AppendSegment(p, s)
    BY <1>1, <2>1, <2>2, ElementOfSeq DEF IsAppendsRun, StoredSegment
  <2>4. \A a \in Int : ReadByte(more, a) =
          IF Covers(s, a) THEN ByteAt(s, a) ELSE ReadByte(p, a)
    BY <2>3, AppendStored
  <2>5. ASSUME NEW a \in Int, NEW b, LastWins(source, k + 1, a, b)
        PROVE  ReadByte(more, a) = b
    <3>1. Has(s, a, b) \/ (~Covers(s, a) /\ LastWins(source, k, a, b))
      BY <2>1, <2>2, <2>5, LastWinsStep
    <3>2. LastWins(source, k, a, b) => ReadByte(p, a) = b
      BY <1>4, <2>2
    <3>3. QED
      BY <3>1, <3>2, <2>4 DEF Has
  <2>6. ASSUME NEW a \in Int, Free(k + 1, a)
        PROVE  ReadByte(more, a) = ReadByte(list, a)
    <3>1. k + 1 \in 1..(k + 1) /\ \A m \in 1..k : m \in 1..(k + 1)
      BY <2>1
    <3>2. ~Covers(s, a) /\ Free(k, a)
      BY <2>2, <2>6, <3>1
    <3>3. Free(k, a) => ReadByte(p, a) = ReadByte(list, a)
      BY <1>4, <2>2
    <3>4. QED
      BY <2>4, <3>2, <3>3
  <2>7. Reads(k + 1)
    <3> HIDE DEF Free
    <3>1. QED
      BY <2>2, <2>5, <2>6
  <2>8. QED
    BY <2>1, <2>7
<1>5. n \in T /\ n \in 0..n
  <2> HIDE DEF T, n
  <2>1. \A k \in 0..n : k \in T
    BY <1>2, <1>3, <1>4, InductionUpTo
  <2>2. QED
    BY <2>1, <1>2
<1>6. new = acc[n]
  BY <1>1 DEF MergeSegments
<1>7. new \in Seq(StoredSegment)
  BY <1>1, <1>5, <1>6 DEF IsAppendsRun
<1>8. ASSUME NEW a \in Int
      PROVE  ReadByte(new, a) =
               IF ReadByte(source, a) # None THEN ReadByte(source, a) ELSE ReadByte(list, a)
  <2>1. source \in ListType /\ AllInSpace(source)
    BY StoredList
  <2>2. CASE Free(n, a)
    <3>1. ReadByte(source, a) = None
      BY <2>1, <2>2, ReadIsLastWins
    <3>2. QED
      BY <3>1, <2>2, <1>5, <1>6
  <2>3. CASE ~Free(n, a)
    <3>1. ReadByte(source, a) # None /\ LastWins(source, n, a, ReadByte(source, a))
      BY <2>1, <2>3, ReadIsLastWins, ByteAssumption
    <3>2. QED
      BY <3>1, <1>5, <1>6
  <2>4. QED
    BY <2>2, <2>3
<1>9. QED
  BY <1>7, <1>8 DEF ReadsFirst

\* The first segment of a list that covers an address.
FirstWins(list, n, a, b) ==
  \E m \in 1..n : Has(list[m], a, b) /\ \A l \in 1..(m - 1) : ~Covers(list[l], a)

\* What is free in a list reads as the first segment of the other that covers it.
FreeTaken(new, list, source) ==
  \A a \in Int :
    /\ ReadByte(list, a) # None \/ (\A m \in 1..Len(source) : ~Covers(source[m], a))
         => ReadByte(new, a) = ReadByte(list, a)
    /\ \A b : ReadByte(list, a) = None /\ FirstWins(source, Len(source), a, b)
         => ReadByte(new, a) = b

\* Preserving, the other file's bytes fill what this one leaves free.
LEMMA PreserveReads ==
  ASSUME NEW list \in Seq(StoredSegment), NEW source \in Seq(StoredSegment),
         NEW new, new = MergeSegments(list, source, "Preserve")
  PROVE  new \in Seq(StoredSegment) /\ FreeTaken(new, list, source)
<1>1. PICK acc : /\ IsPrependsRun(acc, list, source)
                 /\ FoldLeft(PrependSegment, list, source) = acc[Len(source)]
  BY PrependsRun
<1> DEFINE n == Len(source)
           Free(k, a) == \A m \in 1..k : ~Covers(source[m], a)
           Reads(k) == \A a \in Int :
             /\ ReadByte(list, a) # None \/ Free(k, a) => ReadByte(acc[k], a) = ReadByte(list, a)
             /\ \A b : ReadByte(list, a) = None /\ FirstWins(source, k, a, b)
                  => ReadByte(acc[k], a) = b
           T == {k \in 0..n : Reads(k)}
<1>2. n \in Nat
  BY LenProperties
<1>3. 0 \in T
  <2>1. \A a, b : ~FirstWins(source, 0, a, b)
    BY DEF FirstWins
  <2>2. acc[0] = list
    BY <1>1 DEF IsPrependsRun
  <2>3. QED
    BY <1>2, <2>1, <2>2
<1>4. ASSUME NEW k \in 0..(n - 1), k \in T
      PROVE  k + 1 \in T
  <2>1. k + 1 \in 1..n /\ (k + 1) - 1 = k /\ k \in 0..n /\ k + 1 \in 0..n /\ k \in Nat
    BY <1>2
  <2>2. PICK s, p, more : s = source[k + 1] /\ p = acc[k] /\ more = acc[k + 1]
    OBVIOUS
  <2>3. s \in SegmentType /\ p \in Seq(StoredSegment) /\ more = PrependSegment(p, s)
    BY <1>1, <2>1, <2>2, ElementOfSeq DEF IsPrependsRun, StoredSegment
  <2>4. \A a \in Int : ReadByte(more, a) =
          IF ReadByte(p, a) # None THEN ReadByte(p, a)
          ELSE IF Covers(s, a) THEN ByteAt(s, a) ELSE None
    BY <2>3, PrependStored
  <2>5. ASSUME NEW a \in Int
        PROVE  /\ ReadByte(list, a) # None \/ Free(k, a) => ReadByte(p, a) = ReadByte(list, a)
               /\ \A b : ReadByte(list, a) = None /\ FirstWins(source, k, a, b)
                    => ReadByte(p, a) = b
    BY <1>4, <2>2
  <2>6. ASSUME NEW a \in Int, ReadByte(list, a) # None \/ Free(k + 1, a)
        PROVE  ReadByte(more, a) = ReadByte(list, a)
    <3>1. k + 1 \in 1..(k + 1) /\ \A m \in 1..k : m \in 1..(k + 1)
      BY <2>1
    <3>2. ReadByte(list, a) # None \/ (~Covers(s, a) /\ Free(k, a))
      BY <2>2, <2>6, <3>1
    <3> HIDE DEF Free
    <3>3. QED
      BY <2>4, <2>5, <3>2
  <2>7. ASSUME NEW a \in Int, NEW b, ReadByte(list, a) = None, FirstWins(source, k + 1, a, b)
        PROVE  ReadByte(more, a) = b
    <3>1. PICK m \in 1..(k + 1) : /\ Has(source[m], a, b)
                                  /\ \A l \in 1..(m - 1) : ~Covers(source[l], a)
      BY <2>7 DEF FirstWins
    <3>2. CASE m = k + 1
      <4>1. Free(k, a)
        BY <2>1, <3>1, <3>2
      <4>2. ReadByte(p, a) = None
        BY <2>5, <2>7, <4>1
      <4>3. Has(s, a, b)
        BY <2>2, <3>1, <3>2
      <4>4. QED
        BY <2>4, <4>2, <4>3 DEF Has
    <3>3. CASE m # k + 1
      <4>1. m \in 1..k /\ m \in 1..n
        BY <2>1, <3>3
      <4>2. FirstWins(source, k, a, b)
        BY <3>1, <4>1 DEF FirstWins
      <4>3. ReadByte(p, a) = b
        BY <2>5, <2>7, <4>2
      <4>4. b # None
        <5>1. source[m] \in SegmentType
          BY <4>1, ElementOfSeq DEF StoredSegment
        <5>2. QED
          BY <5>1, <3>1, SegmentBytes DEF Has
      <4>5. QED
        BY <2>4, <4>3, <4>4
    <3>4. QED
      BY <3>2, <3>3
  <2>8. Reads(k + 1)
    <3> HIDE DEF Free
    <3>1. QED
      BY <2>2, <2>6, <2>7
  <2>9. QED
    BY <2>1, <2>8
<1>5. n \in T /\ n \in 0..n
  <2> HIDE DEF T, n
  <2>1. \A k \in 0..n : k \in T
    BY <1>2, <1>3, <1>4, InductionUpTo
  <2>2. QED
    BY <2>1, <1>2
<1>6. new = acc[n]
  BY <1>1 DEF MergeSegments
<1>7. new \in Seq(StoredSegment)
  BY <1>1, <1>5, <1>6 DEF IsPrependsRun
<1>8. QED
  BY <1>5, <1>6, <1>7 DEF FreeTaken

-----------------------------------------------------------------------------
(* normalized, fill_gaps *)

\* With a gap no segment of the normalized list is longer than a u32.
LEMMA NormalizedStored ==
  ASSUME NEW list \in Seq(StoredSegment), Covered(list) # Addr,
         NEW new, new = Normalized(list)
  PROVE  /\ new \in Seq(StoredSegment)
         /\ \A a \in Int : ReadByte(new, a) = ReadByte(list, a)
<1>1. list \in ListType /\ AllInSpace(list)
  BY StoredList
<1>2. new \in ListType /\ AllInSpace(new)
  BY <1>1, NormalizedReads
<1>3. ASSUME NEW n \in 1..Len(new)
      PROVE  Len(new[n].data) <= MaxAddr
  <2>1. PICK s : /\ s = new[n] /\ InSpace(s)
                 /\ \A a \in Int : Covers(s, a) => a \in Covered(list)
    BY <1>1, NormalRun
  <2>2. PICK x : x \in Addr /\ x \notin Covered(list) /\ x \in Int
    <3>1. Covered(list) \subseteq Addr
      BY DEF Covered
    <3>2. \A x \in Addr : x \in Int
      BY MaxAddrAssumption DEF Addr
    <3>3. QED
      BY <3>1, <3>2
  <2>3. ~Covers(s, x)
    BY <2>1, <2>2
  <2>4. s.start \in Int /\ Len(s.data) \in Nat /\ 0 <= s.start
        /\ s.start + Len(s.data) - 1 <= MaxAddr
    BY <2>1, LenProperties, MaxAddrAssumption DEF InSpace, Addr
  <2>5. x < s.start \/ x >= s.start + Len(s.data)
    BY <2>2, <2>3, <2>4 DEF Covers
  <2>6. 0 <= x /\ x <= MaxAddr
    BY <2>2, MaxAddrAssumption DEF Addr
  <2>7. Len(s.data) <= MaxAddr
    BY <2>2, <2>4, <2>5, <2>6, MaxAddrAssumption
  <2>8. QED
    BY <2>1, <2>7
<1>4. new \in Seq(StoredSegment)
  BY <1>2, <1>3, IsStored
<1>5. QED
  BY <1>1, <1>4, ReadNormalized


\* The bounds of the normalized list are the first and the last covered address.
LEMMA NormalBounds ==
  ASSUME NEW list \in Seq(StoredSegment), list # <<>>,
         NEW lo, lo = MinAddress(Normalized(list)), NEW hi, hi = MaxAddress(Normalized(list))
  PROVE  /\ lo \in Covered(list) /\ hi \in Covered(list) /\ lo <= hi
         /\ \A a \in Covered(list) : lo <= a /\ a <= hi
<1>1. list \in ListType /\ AllInSpace(list)
  BY StoredList
<1>2. PICK normal : normal = Normalized(list) /\ normal \in ListType /\ AllInSpace(normal)
  BY <1>1, NormalizedReads
<1>3. normal # <<>>
  <2>1. 1 \in 1..Len(list)
    BY EmptySeq
  <2>2. PICK s : s = list[1] /\ InSpace(s)
    BY <1>1, <2>1 DEF AllInSpace
  <2>3. s.start \in Int /\ Covers(s, s.start)
    BY <2>2, SpanInSpace, MaxAddrAssumption DEF Addr
  <2>4. s.start \in Covered(list)
    BY <1>1, <2>1, <2>2, <2>3, ReadCovered, CoveredIs
  <2>5. PICK n \in 1..Len(normal) : TRUE
    BY <1>1, <1>2, <2>4, CoveredByRun
  <2>6. Len(<<>>) = 0
    OBVIOUS
  <2>7. QED
    BY <2>5, <2>6
<1>4. /\ lo \in Addr /\ hi \in Addr /\ lo <= hi
      /\ \E n \in 1..Len(normal) : normal[n].start = lo
      /\ \E n \in 1..Len(normal) : EndAddress(normal[n]) = hi
      /\ \A n \in 1..Len(normal) : lo <= normal[n].start /\ EndAddress(normal[n]) <= hi
  BY <1>2, <1>3, MinMaxAddress
<1>5. lo \in Int /\ hi \in Int
  BY <1>4, MaxAddrAssumption DEF Addr
<1>6. lo \in Covered(list)
  <2>1. PICK n \in 1..Len(normal) : normal[n].start = lo
    BY <1>4
  <2>2. PICK s : /\ s = normal[n] /\ InSpace(s)
                 /\ \A a \in Int : Covers(s, a) => a \in Covered(list)
    BY <1>1, <1>2, NormalRun
  <2>3. Covers(s, s.start)
    BY <2>2, SpanInSpace, MaxAddrAssumption DEF Addr
  <2>4. QED
    BY <2>1, <2>2, <2>3, <1>5
<1>7. hi \in Covered(list)
  <2>1. PICK n \in 1..Len(normal) : EndAddress(normal[n]) = hi
    BY <1>4
  <2>2. PICK s : /\ s = normal[n] /\ InSpace(s)
                 /\ \A a \in Int : Covers(s, a) => a \in Covered(list)
    BY <1>1, <1>2, NormalRun
  <2>3. Covers(s, EndAddress(s))
    BY <2>2, SpanInSpace, MaxAddrAssumption DEF Addr
  <2>4. QED
    BY <2>1, <2>2, <2>3, <1>5
<1>8. ASSUME NEW a \in Covered(list)
      PROVE  lo <= a /\ a <= hi
  <2>1. a \in Int
    BY MaxAddrAssumption DEF Covered, Addr
  <2>2. PICK n \in 1..Len(normal) : Covers(normal[n], a)
    BY <1>1, <1>2, CoveredByRun
  <2>3. PICK s : s = normal[n] /\ InSpace(s)
    BY <1>2 DEF AllInSpace
  <2>4. /\ s.start \in Int /\ EndAddress(s) \in Int
        /\ s.start <= a /\ a <= EndAddress(s)
    BY <2>1, <2>2, <2>3, SpanInSpace, MaxAddrAssumption DEF Addr
  <2>5. lo <= s.start /\ EndAddress(s) <= hi
    BY <1>4, <2>3
  <2>6. QED
    BY <2>1, <2>4, <2>5, <1>5
<1>9. QED
  BY <1>4, <1>6, <1>7, <1>8

\* A list filled from its first to its last covered address.
DenseFrom(new, list, byte, lo, hi) ==
  \A a \in Int : ReadByte(new, a) =
    IF lo <= a /\ a <= hi /\ ReadByte(list, a) = None THEN byte ELSE ReadByte(list, a)

LEMMA DenseReads ==
  ASSUME NEW list \in Seq(StoredSegment), list # <<>>, SpanLength(list) <= MaxAddr,
         NEW byte \in Byte, NEW new, new = FillGaps(list, byte),
         NEW lo, lo = MinAddress(Normalized(list)), NEW hi, hi = MaxAddress(Normalized(list))
  PROVE  new \in Seq(StoredSegment) /\ DenseFrom(new, list, byte, lo, hi)
<1>1. list \in ListType /\ AllInSpace(list)
  BY StoredList
<1>2. PICK normal : /\ normal = Normalized(list)
                    /\ \A a \in Int : ReadByte(normal, a) = ReadByte(list, a)
  BY <1>1, ReadNormalized
<1>3. /\ lo \in Covered(list) /\ hi \in Covered(list) /\ lo <= hi
      /\ \A a \in Covered(list) : lo <= a /\ a <= hi
  BY NormalBounds
<1>4. lo \in Int /\ hi \in Int /\ lo \in Addr /\ 0 <= lo /\ hi <= MaxAddr /\ lo <= hi
  BY <1>3, MaxAddrAssumption DEF Covered, Addr
<1>5. PICK N \in Nat : N = hi - lo + 1 /\ 0 < N /\ N <= MaxAddr
  BY <1>4 DEF SpanLength
<1> DEFINE Of(a) == IF ReadByte(list, a) = None THEN byte ELSE ReadByte(list, a)
<1>6. \A a \in Int : Of(a) \in Byte
  BY <1>1, ReadCovered
<1>7. PICK s : s = Dense(list, byte)
  OBVIOUS
<1>8. /\ s = [start |-> lo, data |-> s.data] /\ s.start = lo
      /\ s.data = [k \in 1..N |-> s.data[k]]
      /\ \A k \in 1..N : s.data[k] = Of(lo + k - 1)
  <2>1. s.data = [k \in 1..N |-> LET b == ReadByte(normal, lo + k - 1)
                                 IN IF b = None THEN byte ELSE b]
    BY <1>2, <1>5, <1>7 DEF Dense
  <2>2. ASSUME NEW k \in 1..N
        PROVE  s.data[k] = Of(lo + k - 1)
    <3>1. ReadByte(normal, lo + k - 1) = ReadByte(list, lo + k - 1)
      BY <1>2, <1>4
    <3>2. QED
      BY <2>1, <3>1
  <2>3. s.start = lo /\ s = [start |-> lo, data |-> s.data]
    BY <1>7 DEF Dense
  <2>4. s.data = [k \in 1..N |-> s.data[k]]
    BY <2>1
  <2> HIDE DEF Of
  <2>5. QED
    BY <2>2, <2>3, <2>4
<1> HIDE DEF Of
<1>9. s.data \in Seq(Byte) /\ Len(s.data) = N
  <2>1. \A k \in 1..N : s.data[k] \in Byte
    BY <1>4, <1>6, <1>8
  <2>2. QED
    BY <1>8, <2>1, MadeStored
<1>10. s \in StoredSegment /\ InSpace(s)
  <2>1. s \in [start : Addr, data : Seq(Byte)]
    BY <1>4, <1>8, <1>9
  <2>2. s.start + Len(s.data) - 1 <= MaxAddr /\ Len(s.data) > 0 /\ Len(s.data) <= MaxAddr
    BY <1>4, <1>5, <1>8, <1>9
  <2>3. QED
    BY <2>1, <2>2, StoredFacts DEF InSpace
<1>11. new = <<s>>
  BY <1>7 DEF FillGaps
<1>12. new \in Seq(StoredSegment)
  BY <1>10, <1>11
<1>13. \A a \in Int : ReadByte(new, a) = IF Covers(s, a) THEN ByteAt(s, a) ELSE None
  BY <1>10, <1>11, ReadOne
<1>14. ASSUME NEW a \in Int
       PROVE  ReadByte(new, a) =
                IF lo <= a /\ a <= hi /\ ReadByte(list, a) = None THEN byte ELSE ReadByte(list, a)
  <2>1. Covers(s, a) <=> lo <= a /\ a <= hi
    BY <1>4, <1>5, <1>8, <1>9 DEF Covers
  <2>2. CASE lo <= a /\ a <= hi
    <3>1. PICK k : k = a - lo + 1 /\ k \in 1..N /\ lo + k - 1 = a
      BY <1>4, <1>5, <2>2
    <3>2. ByteAt(s, a) = Of(a)
      BY <1>8, <3>1 DEF ByteAt
    <3>3. QED
      BY <1>13, <2>1, <2>2, <3>2 DEF Of
  <2>3. CASE ~(lo <= a /\ a <= hi)
    <3>1. ReadByte(list, a) = None
      BY <1>1, <1>3, <2>3, CoveredIs
    <3>2. QED
      BY <1>13, <2>1, <2>3, <3>1
  <2>4. QED
    BY <2>2, <2>3
<1>15. QED
  BY <1>12, <1>14 DEF DenseFrom

-----------------------------------------------------------------------------
(* swap_bytes, scale_addresses, unscale_addresses *)

\* Segment t with its bytes or its start replaced: it still has its length.
Remade(s, t) ==
  /\ s \in [start : Addr, data : Seq(Byte)]
  /\ Len(s.data) = Len(t.data)
  /\ s.start <= t.start

LEMMA RemadeStored ==
  ASSUME NEW list \in Seq(StoredSegment), NEW new,
         new = [n \in 1..Len(list) |-> new[n]],
         \A n \in 1..Len(list) : Remade(new[n], list[n])
  PROVE  new \in Seq(StoredSegment)
<1>1. ASSUME NEW n \in 1..Len(list)
      PROVE  new[n] \in StoredSegment
  <2>1. PICK s : s = new[n] /\ Remade(s, list[n])
    OBVIOUS
  <2>2. PICK t : t = list[n] /\ InSpace(t) /\ Len(t.data) <= MaxAddr
    BY ElementOfSeq, StoredFacts
  <2>3. /\ s \in [start : Addr, data : Seq(Byte)]
        /\ Len(s.data) = Len(t.data) /\ s.start <= t.start
    BY <2>1, <2>2 DEF Remade
  <2>4. s.start \in Int /\ t.start \in Int /\ Len(t.data) \in Nat
    BY <2>2, <2>3, LenProperties, MaxAddrAssumption DEF InSpace, Addr
  <2>5. InSpace(s) /\ Len(s.data) <= MaxAddr
    BY <2>2, <2>3, <2>4, MaxAddrAssumption DEF InSpace
  <2>6. QED
    BY <2>1, <2>5, StoredFacts
<1>2. Len(list) \in Nat
  BY LenProperties
<1>3. QED
  BY <1>1, <1>2, MadeStored

\* The bytes of a segment replaced one by one.
LEMMA DataRemade ==
  ASSUME NEW s \in StoredSegment, NEW d, d = [k \in DOMAIN s.data |-> d[k]],
         \A k \in 1..Len(s.data) : d[k] \in Byte,
         NEW t, t = [s EXCEPT !.data = d]
  PROVE  Remade(t, s) /\ t.start = s.start /\ t.data = d
<1>1. InSpace(s)
  BY StoredFacts
<1>2. s \in [start : Addr, data : Seq(Byte)] /\ s.data \in Seq(Byte)
  BY <1>1 DEF InSpace
<1>3. PICK N \in Nat : N = Len(s.data) /\ DOMAIN s.data = 1..N
  BY <1>2, LenProperties
<1>4. d = [k \in 1..N |-> d[k]] /\ \A k \in 1..N : d[k] \in Byte
  BY <1>3
<1>5. d \in Seq(Byte) /\ Len(d) = N
  BY <1>4, MadeStored
<1>6. t = [start |-> s.start, data |-> d]
  BY <1>2
<1>7. t \in [start : Addr, data : Seq(Byte)] /\ t.start = s.start /\ t.data = d
  BY <1>2, <1>5, <1>6
<1>8. t.start <= s.start
  BY <1>2, <1>7, MaxAddrAssumption DEF Addr
<1>9. QED
  BY <1>3, <1>5, <1>7, <1>8 DEF Remade

LEMMA ReversedIn ==
  ASSUME NEW len \in Nat, NEW k \in 1..len, NEW chunk \in {2, 4}
  PROVE  Reversed(k, len, chunk) \in 1..len
<1>1. CASE chunk = 2
  BY <1>1 DEF Reversed
<1>2. CASE chunk = 4
  BY <1>2 DEF Reversed
<1>3. QED
  BY <1>1, <1>2

LEMMA ReverseStored ==
  ASSUME NEW list \in Seq(StoredSegment), NEW chunk \in {2, 4},
         NEW new, new = ReverseChunks(list, chunk)
  PROVE  new \in Seq(StoredSegment)
<1>1. DOMAIN list = 1..Len(list)
  BY LenProperties
<1>2. new = [n \in 1..Len(list) |->
               [list[n] EXCEPT !.data =
                  [k \in DOMAIN list[n].data |->
                     list[n].data[Reversed(k, Len(list[n].data), chunk)]]]]
  BY <1>1 DEF ReverseChunks, MapData
<1>3. new = [n \in 1..Len(list) |-> new[n]]
  BY <1>2
<1>4. ASSUME NEW n \in 1..Len(list)
      PROVE  Remade(new[n], list[n])
  <2>1. PICK s \in StoredSegment : s = list[n]
    BY ElementOfSeq
  <2>2. PICK N \in Nat : N = Len(s.data) /\ s.data \in Seq(Byte)
    BY <2>1, StoredFacts, LenProperties DEF InSpace
  <2>3. PICK d : d = [k \in DOMAIN list[n].data |->
                        list[n].data[Reversed(k, Len(list[n].data), chunk)]]
    OBVIOUS
  <2>4. PICK t : t = [s EXCEPT !.data = d] /\ t = new[n]
    <3>1. new[n] = [list[n] EXCEPT !.data = d]
      BY <1>2, <2>3
    <3>2. QED
      BY <3>1, <2>1
  <2>5. DOMAIN s.data = 1..N
    BY <2>2, LenProperties
  <2>6. \A k \in 1..N : d[k] \in Byte
    <3> SUFFICES ASSUME NEW k \in 1..N
                 PROVE  d[k] \in Byte
      OBVIOUS
    <3>1. PICK j \in 1..N : j = Reversed(k, N, chunk)
      BY ReversedIn
    <3>2. d[k] = s.data[j]
      BY <2>1, <2>2, <2>3, <2>5, <3>1
    <3>3. QED
      BY <2>2, <3>1, <3>2, ElementOfSeq
  <2>7. d = [k \in DOMAIN s.data |-> d[k]]
    BY <2>1, <2>3
  <2>8. \A k \in 1..Len(s.data) : d[k] \in Byte
    BY <2>2, <2>6
  <2>9. Remade(t, s)
    BY <2>4, <2>7, <2>8, DataRemade
  <2>10. QED
    BY <2>1, <2>4, <2>9
<1>5. QED
  BY <1>3, <1>4, RemadeStored

LEMMA ScaleStored ==
  ASSUME NEW list \in Seq(StoredSegment), NEW factor \in Nat, CanScale(list, factor),
         NEW new, new = Scale(list, factor)
  PROVE  new \in Seq(StoredSegment)
<1>1. DOMAIN list = 1..Len(list) /\ Len(list) \in Nat
  BY LenProperties
<1>2. new = [n \in 1..Len(list) |-> new[n]]
  BY <1>1 DEF Scale
<1>3. ASSUME NEW n \in 1..Len(list)
      PROVE  new[n] \in StoredSegment
  <2>1. PICK s : s = list[n] /\ InSpace(s) /\ Len(s.data) <= MaxAddr
    BY ElementOfSeq, StoredFacts
  <2>2. s \in [start : Addr, data : Seq(Byte)] /\ s.start \in Nat
        /\ Len(s.data) \in Nat /\ Len(s.data) > 0
    BY <2>1, LenProperties, MaxAddrAssumption DEF InSpace, Addr
  <2>3. PICK at \in Nat : at = s.start * factor
    BY <2>2
  <2>4. at <= MaxAddr /\ FitsAt(at, Len(s.data))
    BY <1>1, <2>1, <2>3 DEF CanScale
  <2>5. PICK t : t = new[n] /\ t = [s EXCEPT !.start = at]
    BY <1>1, <2>1, <2>3 DEF Scale
  <2>6. t = [start |-> at, data |-> s.data]
    BY <2>2, <2>5
  <2>7. at \in Addr
    BY <2>3, <2>4, MaxAddrAssumption DEF Addr
  <2>8. t \in [start : Addr, data : Seq(Byte)] /\ t.start = at /\ t.data = s.data
    BY <2>2, <2>6, <2>7
  <2>9. at + Len(s.data) - 1 <= MaxAddr
    BY <2>2, <2>4 DEF FitsAt
  <2>10. InSpace(t)
    BY <2>2, <2>8, <2>9 DEF InSpace
  <2>11. QED
    BY <2>1, <2>5, <2>8, <2>10, StoredFacts
<1>4. QED
  BY <1>1, <1>2, <1>3, MadeStored

LEMMA UnscaleStored ==
  ASSUME NEW list \in Seq(StoredSegment), NEW divisor \in Nat, CanUnscale(list, divisor),
         NEW new, new = Unscale(list, divisor)
  PROVE  new \in Seq(StoredSegment)
<1>1. DOMAIN list = 1..Len(list) /\ Len(list) \in Nat
  BY LenProperties
<1>2. new = [n \in 1..Len(list) |-> new[n]]
  BY <1>1 DEF Unscale
<1>3. ASSUME NEW n \in 1..Len(list)
      PROVE  Remade(new[n], list[n])
  <2>1. PICK s : s = list[n] /\ InSpace(s)
    BY ElementOfSeq, StoredFacts
  <2>2. s \in [start : Addr, data : Seq(Byte)] /\ s.start \in Nat /\ s.start <= MaxAddr
    BY <2>1, MaxAddrAssumption DEF InSpace, Addr
  <2>3. divisor \in Nat \ {0}
    BY DEF CanUnscale
  <2>4. PICK at \in Nat : at = s.start \div divisor /\ at <= s.start
    <3>1. PICK x \in Nat : x = s.start
      BY <2>2
    <3>2. x \div divisor \in Nat /\ x \div divisor <= x
      BY <2>3
    <3>3. QED
      BY <3>1, <3>2
  <2>5. PICK t : t = new[n] /\ t = [s EXCEPT !.start = at]
    BY <1>1, <2>1, <2>4 DEF Unscale
  <2>6. t = [start |-> at, data |-> s.data]
    BY <2>2, <2>5
  <2>7. at \in Addr
    BY <2>2, <2>4, MaxAddrAssumption DEF Addr
  <2>8. t \in [start : Addr, data : Seq(Byte)] /\ t.start = at /\ t.data = s.data
    BY <2>2, <2>6, <2>7
  <2>9. QED
    BY <2>1, <2>4, <2>5, <2>8 DEF Remade
<1>4. QED
  BY <1>2, <1>3, RemadeStored

\* Byte i of the word at w in the map of swap_dword: its own, that of the last
\* whole word before it, or zero.
WordByte(segs, w, i) ==
  LET image == Image(segs)
      Whole(v) == \A j \in 0..3 : image[v + j] # None
      before == { v \in Covered(segs) : v % 4 = 0 /\ v < w /\ Whole(v) }
  IN IF image[w + i] # None THEN image[w + i]
     ELSE IF before = {} THEN Zero ELSE image[Max(before) + i]

LEMMA WordByteIn ==
  ASSUME NEW list \in Seq(StoredSegment), NEW hi \in Addr, hi % 4 = 3,
         \A a \in Covered(list) : a <= hi,
         NEW w \in Addr, w % 4 = 0, w <= hi, NEW i \in 0..3
  PROVE  WordByte(list, w, i) \in Byte
<1>1. list \in ListType /\ AllInSpace(list)
  BY StoredList
<1>2. PICK image : /\ image = Image(list)
                   /\ \A a \in Addr : image[a] \in Byte \union {None}
  <2>1. \A a \in Addr : Image(list)[a] = ReadByte(list, a) /\ a \in Int
    BY MaxAddrAssumption DEF Image, Addr
  <2>2. \A a \in Addr : Image(list)[a] \in Byte \union {None}
    BY <1>1, <2>1, ReadCovered
  <2>3. QED
    BY <2>2
<1>3. ASSUME NEW v \in Addr, v % 4 = 0, v <= hi
      PROVE  v + i \in Addr
  <2>1. v \in Nat /\ hi \in Nat /\ hi <= MaxAddr /\ MaxAddr \in Nat
    BY MaxAddrAssumption DEF Addr
  <2>2. v + i <= hi
    BY <1>3, <2>1
  <2>3. QED
    BY <2>1, <2>2 DEF Addr
<1>4. PICK before : before = { v \in Covered(list) :
                                 v % 4 = 0 /\ v < w /\ \A j \in 0..3 : image[v + j] # None }
  OBVIOUS
<1>5. WordByte(list, w, i) = IF image[w + i] # None THEN image[w + i]
                             ELSE IF before = {} THEN Zero ELSE image[Max(before) + i]
  BY <1>2, <1>4 DEF WordByte
<1>6. image[w + i] \in Byte \union {None}
  BY <1>2, <1>3
<1>7. ASSUME before # {}
      PROVE  image[Max(before) + i] \in Byte
  <2>1. hi \in Int /\ before \subseteq Int /\ \A x \in before : x <= hi
    BY <1>4, MaxAddrAssumption DEF Covered, Addr
  <2>2. PICK v \in before : v = Max(before)
    BY <1>7, <2>1, MaxOf
  <2>3. v \in Addr /\ v % 4 = 0 /\ v <= hi /\ image[v + i] # None
    BY <1>4, <2>1 DEF Covered
  <2>4. v + i \in Addr
    BY <1>3, <2>3
  <2>5. QED
    BY <1>2, <2>2, <2>3, <2>4
<1>8. QED
  BY <1>5, <1>6, <1>7, ZeroAssumption

LEMMA SwapMapStored ==
  ASSUME NEW list \in Seq(StoredSegment), list # <<>>,
         MinAddress(list) % 4 = 0, RawSpan(list) % 4 = 0,
         NEW new, new = SwapThroughMap(list)
  PROVE  new \in Seq(StoredSegment)
<1>1. list \in ListType /\ AllInSpace(list)
  BY StoredList
<1>2. DOMAIN list = 1..Len(list)
  BY LenProperties
<1>3. PICK lo \in Addr, hi \in Addr :
        /\ lo = MinAddress(list) /\ hi = MaxAddress(list) /\ lo <= hi
        /\ \A n \in 1..Len(list) : lo <= list[n].start /\ EndAddress(list[n]) <= hi
  <2>1. PICK lo, hi : lo = MinAddress(list) /\ hi = MaxAddress(list)
    OBVIOUS
  <2>2. /\ lo \in Addr /\ hi \in Addr /\ lo <= hi
        /\ \A n \in 1..Len(list) : lo <= list[n].start /\ EndAddress(list[n]) <= hi
    BY <1>1, <2>1, MinMaxAddress
  <2>3. QED
    BY <2>1, <2>2
<1>4. hi % 4 = 3
  <2>1. lo % 4 = 0 /\ (hi - lo + 1) % 4 = 0
    BY <1>3 DEF RawSpan
  <2>2. lo \in Nat /\ hi \in Nat
    BY MaxAddrAssumption DEF Addr
  <2>3. QED
    BY <2>1, <2>2
<1>5. ASSUME NEW n \in 1..Len(list), NEW a \in Int, Covers(list[n], a)
      PROVE  a \in Addr /\ lo <= a /\ a <= hi
  <2>1. PICK s : s = list[n] /\ InSpace(s)
    BY <1>1 DEF AllInSpace
  <2>2. s.start \in Int /\ EndAddress(s) \in Int /\ s.start <= a /\ a <= EndAddress(s)
    BY <1>5, <2>1, SpanInSpace, MaxAddrAssumption DEF Addr
  <2>3. lo <= s.start /\ EndAddress(s) <= hi
    BY <1>3, <2>1
  <2>4. lo \in Int /\ hi \in Int /\ 0 <= lo /\ hi <= MaxAddr
    BY MaxAddrAssumption DEF Addr
  <2>5. QED
    BY <2>2, <2>3, <2>4, MaxAddrAssumption DEF Addr
<1>6. \A a \in Covered(list) : a <= hi
  <2> SUFFICES ASSUME NEW a \in Covered(list)
               PROVE  a <= hi
    OBVIOUS
  <2>1. a \in Int
    BY MaxAddrAssumption DEF Covered, Addr
  <2>2. PICK n \in 1..Len(list) : Covers(list[n], a)
    BY <1>1, <2>1, CoveredIs, ReadCovered
  <2>3. QED
    BY <1>5, <2>1, <2>2
<1>7. ASSUME NEW a \in Addr, lo <= a, a <= hi, NEW w, w = a - (a % 4)
      PROVE  w \in Addr /\ w % 4 = 0 /\ w <= hi /\ 3 - (a % 4) \in 0..3
  <2>1. a \in Nat /\ hi \in Nat /\ a <= MaxAddr
    BY MaxAddrAssumption DEF Addr
  <2>2. w \in Nat /\ w <= a /\ w % 4 = 0 /\ 3 - (a % 4) \in 0..3
    BY <1>7, <2>1
  <2>3. QED
    BY <1>7, <2>1, <2>2, MaxAddrAssumption DEF Addr
<1>8. new = [n \in 1..Len(list) |->
               [list[n] EXCEPT !.data =
                  [k \in DOMAIN list[n].data |->
                     LET a == list[n].start + k - 1
                     IN IF Image(list)[a - (a % 4)] = None THEN list[n].data[k]
                        ELSE WordByte(list, a - (a % 4), 3 - (a % 4))]]]
  BY <1>2 DEF SwapThroughMap, MapData, WordByte
<1>9. new = [n \in 1..Len(list) |-> new[n]]
  BY <1>8
<1>10. ASSUME NEW n \in 1..Len(list)
       PROVE  Remade(new[n], list[n])
  <2>1. PICK s \in StoredSegment : s = list[n] /\ InSpace(s)
    BY <1>1, ElementOfSeq DEF AllInSpace
  <2>2. PICK N \in Nat : N = Len(s.data) /\ s.data \in Seq(Byte)
    BY <2>1, LenProperties DEF InSpace
  <2>3. PICK d : d = [k \in DOMAIN list[n].data |->
                     LET a == list[n].start + k - 1
                     IN IF Image(list)[a - (a % 4)] = None THEN list[n].data[k]
                        ELSE WordByte(list, a - (a % 4), 3 - (a % 4))]
    OBVIOUS
  <2>4. PICK t : t = [s EXCEPT !.data = d] /\ t = new[n]
    <3>1. new[n] = [list[n] EXCEPT !.data = d]
      BY <1>8, <2>3
    <3>2. QED
      BY <3>1, <2>1
  <2>5. DOMAIN s.data = 1..N
    BY <2>2, LenProperties
  <2>6. \A k \in 1..N : d[k] \in Byte
    <3> SUFFICES ASSUME NEW k \in 1..N
                 PROVE  d[k] \in Byte
      OBVIOUS
    <3>1. PICK a \in Int : a = s.start + k - 1 /\ Covers(s, a)
      <4>1. s.start \in Int
        BY <2>1, SpanInSpace, MaxAddrAssumption DEF Addr
      <4>2. Covers(s, s.start + k - 1)
        BY <2>2, <4>1 DEF Covers
      <4>3. QED
        BY <4>1, <4>2
    <3>2. PICK w : w = a - (a % 4)
      OBVIOUS
    <3>3. PICK i : i = 3 - (a % 4)
      OBVIOUS
    <3>4. a \in Addr /\ lo <= a /\ a <= hi
      BY <1>5, <2>1, <3>1
    <3>5. w \in Addr /\ w % 4 = 0 /\ w <= hi /\ i \in 0..3
      BY <1>7, <3>2, <3>3, <3>4
    <3>6. d[k] = IF Image(list)[w] = None THEN s.data[k] ELSE WordByte(list, w, i)
      BY <2>1, <2>3, <2>5, <3>1, <3>2, <3>3
    <3>7. WordByte(list, w, i) \in Byte
      BY <1>4, <1>6, <3>5, WordByteIn
    <3>8. s.data[k] \in Byte
      BY <2>2, ElementOfSeq
    <3>9. QED
      BY <3>6, <3>7, <3>8
  <2>7. d = [k \in DOMAIN s.data |-> d[k]]
    BY <2>1, <2>3
  <2>8. \A k \in 1..Len(s.data) : d[k] \in Byte
    BY <2>2, <2>6
  <2>9. Remade(t, s)
    BY <2>4, <2>7, <2>8, DataRemade
  <2>10. QED
    BY <2>1, <2>4, <2>9
<1>11. QED
  BY <1>9, <1>10, RemadeStored

\* A single segment of whole words.
LEMMA RepeatStored ==
  ASSUME NEW s \in StoredSegment, Len(s.data) % 4 = 0
  PROVE  RepeatFirst(s) \in StoredSegment
<1>1. InSpace(s) /\ Len(s.data) <= MaxAddr
  BY StoredFacts
<1>2. PICK N \in Nat : N = Len(s.data) /\ s.data \in Seq(Byte) /\ N > 0
  BY <1>1, LenProperties DEF InSpace
<1>3. DOMAIN s.data = 1..N
  BY <1>2, LenProperties
<1>4. PICK d : d = [k \in DOMAIN s.data |-> s.data[4 - ((k - 1) % 4)]]
  OBVIOUS
<1>5. PICK t : t = [s EXCEPT !.data = d] /\ t = RepeatFirst(s)
  BY <1>4 DEF RepeatFirst
<1>6. \A k \in 1..N : d[k] \in Byte
  <2> SUFFICES ASSUME NEW k \in 1..N
               PROVE  d[k] \in Byte
    OBVIOUS
  <2>1. PICK j \in 1..N : j = 4 - ((k - 1) % 4)
    <3>1. N % 4 = 0 /\ N \in Nat /\ N > 0
      BY <1>2
    <3>2. N >= 4
      BY <3>1
    <3>3. k \in Int /\ 4 - ((k - 1) % 4) \in 1..4
      OBVIOUS
    <3>4. QED
      BY <3>1, <3>2, <3>3
  <2>2. d[k] = s.data[j]
    BY <1>3, <1>4, <2>1
  <2>3. QED
    BY <1>2, <2>1, <2>2, ElementOfSeq
<1>7. d = [k \in DOMAIN s.data |-> d[k]]
  BY <1>4
<1>8. \A k \in 1..Len(s.data) : d[k] \in Byte
  BY <1>2, <1>6
<1>9. Remade(t, s)
  BY <1>5, <1>7, <1>8, DataRemade
<1>10. QED
  <2>1. t \in [start : Addr, data : Seq(Byte)] /\ Len(t.data) = N /\ t.start <= s.start
    BY <1>2, <1>9 DEF Remade
  <2>2. s.start \in Int /\ t.start \in Int /\ s.start + N - 1 <= MaxAddr
    BY <1>1, <1>2, <2>1, MaxAddrAssumption DEF InSpace, Addr
  <2>3. InSpace(t) /\ Len(t.data) <= MaxAddr
    BY <1>1, <1>2, <2>1, <2>2, MaxAddrAssumption DEF InSpace
  <2>4. QED
    BY <1>5, <2>3, StoredFacts

LEMMA SwapLongStored ==
  ASSUME NEW list \in Seq(StoredSegment), NEW new, new = SwapLong(list)
  PROVE  new \in Seq(StoredSegment)
<1>1. CASE list = <<>> \/ MinAddress(list) % 4 # 0 \/ RawSpan(list) % 4 # 0
  BY <1>1 DEF SwapLong
<1>2. CASE list # <<>> /\ MinAddress(list) % 4 = 0 /\ RawSpan(list) % 4 = 0
  <2>1. new = IF Len(list) > 1 THEN SwapThroughMap(list)
              ELSE IF Len(list[1].data) >= LargeSpan THEN <<RepeatFirst(list[1])>>
              ELSE ReverseChunks(list, 4)
    BY <1>2 DEF SwapLong
  <2>2. CASE Len(list) > 1
    BY <1>2, <2>1, <2>2, SwapMapStored
  <2>3. CASE ~(Len(list) > 1) /\ Len(list[1].data) >= LargeSpan
    <3>1. Len(list) = 1
      <4>1. Len(list) \in Nat \ {0}
        BY <1>2, EmptySeq
      <4>2. ~(Len(list) > 1)
        BY <2>3
      <4>3. QED
        BY <4>1, <4>2
    <3>2. PICK s \in StoredSegment : s = list[1] /\ InSpace(s)
      BY <3>1, ElementOfSeq, StoredFacts
    <3>3. list \in ListType /\ AllInSpace(list)
      BY StoredList
    <3>4. MinAddress(list) = s.start /\ MaxAddress(list) = EndAddress(s)
      <4>1. PICK lo, hi : lo = MinAddress(list) /\ hi = MaxAddress(list)
        OBVIOUS
      <4>2. /\ \E n \in 1..Len(list) : list[n].start = lo
            /\ \E n \in 1..Len(list) : EndAddress(list[n]) = hi
        BY <1>2, <3>3, <4>1, MinMaxAddress
      <4>3. list[1].start = lo /\ EndAddress(list[1]) = hi
        BY <3>1, <4>2
      <4>4. QED
        BY <3>2, <4>1, <4>3
    <3>5. (EndAddress(s) - s.start + 1) % 4 = 0
      BY <1>2, <3>4 DEF RawSpan
    <3>6. EndAddress(s) = s.start + Len(s.data) - 1 /\ s.start \in Int /\ Len(s.data) \in Nat
      BY <3>2, SpanInSpace, LenProperties, MaxAddrAssumption DEF InSpace, Addr
    <3>7. EndAddress(s) - s.start + 1 = Len(s.data)
      BY <3>6
    <3>8. RepeatFirst(s) \in StoredSegment
      BY <3>5, <3>7, RepeatStored
    <3>9. QED
      BY <2>1, <2>3, <3>2, <3>8
  <2>4. CASE ~(Len(list) > 1) /\ ~(Len(list[1].data) >= LargeSpan)
    BY <2>1, <2>4, ReverseStored
  <2>5. QED
    BY <2>2, <2>3, <2>4
<1>3. QED
  BY <1>1, <1>2

-----------------------------------------------------------------------------
(* split *)

\* The chunks of a run of len elements: chunk k starts at (k - 1) * size.
LEMMA ChunkBounds ==
  ASSUME NEW len \in Nat \ {0}, NEW size \in Nat \ {0},
         NEW n, n = (len + size - 1) \div size
  PROVE  /\ n \in Nat
         /\ \A k \in 1..n : (k - 1) * size \in 0..(len - 1) /\ k * size = (k - 1) * size + size
         /\ \A i \in 0..(len - 1) : \E k \in 1..n : (k - 1) * size <= i /\ i < k * size
<1>1. PICK x \in Nat : x = len + size - 1
  OBVIOUS
<1>2. n \in Nat /\ x = (size * n) + (x % size) /\ x % size \in 0..(size - 1)
  BY <1>1
<1>3. PICK top \in Nat : top = n * size
  BY <1>2
<1>4. top <= len + size - 1 /\ top >= len
  <2>1. size * n = top
    BY <1>2, <1>3
  <2>2. QED
    BY <1>1, <1>2, <1>3, <2>1
<1>5. ASSUME NEW k \in 1..n
      PROVE  (k - 1) * size \in 0..(len - 1) /\ k * size = (k - 1) * size + size
  <2>1. PICK j \in Nat : j = k - 1
    BY <1>2
  <2>2. PICK a \in Nat : a = j * size
    BY <2>1
  <2>3. (j + 1) * size = a + size
    BY <2>1, <2>2
  <2>4. (j + 1) * size <= n * size
    BY <2>1, <1>2
  <2>5. a \in 0..(len - 1)
    BY <1>3, <1>4, <2>2, <2>3, <2>4
  <2>6. QED
    BY <2>1, <2>2, <2>3, <2>5
<1>6. ASSUME NEW i \in 0..(len - 1)
      PROVE  \E k \in 1..n : (k - 1) * size <= i /\ i < k * size
  <2>1. PICK q \in Nat, m \in 0..(size - 1) : q = i \div size /\ i = (size * q) + m
    <3>1. i \in Nat
      OBVIOUS
    <3>2. i \div size \in Nat /\ i % size \in 0..(size - 1) /\ i = (size * (i \div size)) + (i % size)
      BY <3>1
    <3>3. QED
      BY <3>2
  <2>2. PICK b \in Nat : b = q * size
    BY <2>1
  <2>3. i = b + m /\ b <= i /\ i < b + size
    BY <2>1, <2>2
  <2>4. (q + 1) * size = b + size
    BY <2>2
  <2>5. q * size < n * size
    BY <1>3, <1>4, <2>2, <2>3
  <2>6. q < n
    BY <1>2, <2>5
  <2>7. PICK k \in 1..n : k = q + 1
    BY <1>2, <2>6
  <2>8. (k - 1) * size = b /\ k * size = b + size
    BY <2>2, <2>4, <2>7
  <2>9. QED
    BY <2>3, <2>8
<1>7. QED
  BY <1>2, <1>5, <1>6

LEMMA SplitSegmentReads ==
  ASSUME NEW s \in StoredSegment, NEW size \in Nat \ {0},
         NEW new, new = SplitSegment(s, size)
  PROVE  new \in Seq(StoredSegment) /\ IsPart(new, s, Int)
<1>1. InSpace(s) /\ Len(s.data) <= MaxAddr
  BY StoredFacts
<1>2. PICK len \in Nat \ {0} : len = Len(s.data)
  BY <1>1, LenProperties DEF InSpace
<1>3. PICK at \in Nat, end \in Nat : at = s.start /\ end = EndAddress(s) /\ end = at + len - 1
  BY <1>1, <1>2, SpanInSpace, MaxAddrAssumption DEF Addr
<1>4. CASE len <= size
  <2>1. new = <<s>>
    BY <1>2, <1>4 DEF SplitSegment
  <2>2. \A a \in Int : ReadByte(new, a) = IF Covers(s, a) THEN ByteAt(s, a) ELSE None
    BY <1>1, <2>1, ReadOne
  <2>3. QED
    BY <2>1, <2>2 DEF IsPart
<1>5. CASE ~(len <= size)
  <2>1. PICK n \in Nat :
          /\ n = (len + size - 1) \div size
          /\ \A k \in 1..n : (k - 1) * size \in 0..(len - 1) /\ k * size = (k - 1) * size + size
          /\ \A i \in 0..(len - 1) : \E k \in 1..n : (k - 1) * size <= i /\ i < k * size
    <3>1. PICK n : n = (len + size - 1) \div size
      OBVIOUS
    <3>2. QED
      BY <3>1, ChunkBounds
  <2>2. new = [k \in 1..n |-> Clip(s, s.start + (k - 1) * size,
                                   Min({s.start + k * size - 1, EndAddress(s)}))]
    BY <1>2, <1>5, <2>1 DEF SplitSegment
  <2>3. ASSUME NEW k \in 1..n
        PROVE  \E lo, hi \in Int :
                 /\ new[k] = Clip(s, lo, hi)
                 /\ at <= lo /\ lo <= hi /\ hi <= end
                 /\ lo = at + (k - 1) * size
                 /\ hi = IF at + k * size - 1 <= end THEN at + k * size - 1 ELSE end
    <3>1. PICK b \in 0..(len - 1) : b = (k - 1) * size /\ k * size = b + size
      BY <2>1
    <3>2. PICK lo \in Int : lo = at + b
      BY <1>3
    <3>3. PICK next \in Int : next = at + (b + size) - 1
      BY <1>3
    <3>4. PICK hi \in Int : hi = Min({next, end}) /\ hi = IF next <= end THEN next ELSE end
      <4>1. end \in Int
        OBVIOUS
      <4>2. QED
        BY <4>1, MinOfTwo
    <3>5. new[k] = Clip(s, lo, hi)
      BY <1>3, <2>2, <3>1, <3>2, <3>3, <3>4
    <3>6. at <= lo /\ lo <= hi /\ hi <= end
      BY <1>3, <3>1, <3>2, <3>3, <3>4
    <3>7. QED
      BY <3>1, <3>2, <3>3, <3>4, <3>5, <3>6
  <2>4. ASSUME NEW k \in 1..n
        PROVE  /\ new[k] \in StoredSegment
               /\ \A a \in Int : \A b : Has(new[k], a, b) => Has(s, a, b)
               /\ \A a \in Int : /\ at + (k - 1) * size <= a /\ a < at + k * size
                                 /\ a <= end
                                 => Covers(new[k], a)
    <3>1. PICK lo \in Int, hi \in Int :
            /\ new[k] = Clip(s, lo, hi)
            /\ at <= lo /\ lo <= hi /\ hi <= end
            /\ lo = at + (k - 1) * size
            /\ hi = IF at + k * size - 1 <= end THEN at + k * size - 1 ELSE end
      BY <2>3
    <3>2. PICK p : p = Clip(s, lo, hi)
      OBVIOUS
    <3>3. /\ p \in StoredSegment
          /\ \A a \in Int : \A b : Has(p, a, b) <=> lo <= a /\ a <= hi /\ Has(s, a, b)
      <4>1. s.start <= lo /\ lo <= hi /\ hi <= EndAddress(s)
        BY <1>3, <3>1
      <4>2. QED
        BY <3>2, <4>1, ClipStored
    <3>4. ASSUME NEW a \in Int, at + (k - 1) * size <= a, a < at + k * size, a <= end
          PROVE  Covers(p, a)
      <4>1. PICK b \in Int, c \in Int : b = (k - 1) * size /\ c = k * size
        BY <2>1
      <4>2. lo <= a /\ a <= hi
        BY <1>3, <3>1, <3>4, <4>1
      <4>3. Covers(s, a)
        <5>1. Covers(s, a) <=> s.start <= a /\ a <= EndAddress(s)
          BY <1>1, SpanInSpace
        <5>2. at <= a /\ a <= end
          BY <3>1, <4>2
        <5>3. QED
          BY <1>3, <5>1, <5>2
      <4>4. Has(s, a, ByteAt(s, a))
        BY <4>3 DEF Has
      <4>5. QED
        BY <3>3, <4>2, <4>4 DEF Has
    <3>5. QED
      BY <3>1, <3>2, <3>3, <3>4
  <2>5. new = [k \in 1..n |-> new[k]]
    BY <2>2
  <2>6. new \in Seq(StoredSegment) /\ Len(new) = n
    BY <2>4, <2>5, MadeStored
  <2>7. new \in ListType /\ AllInSpace(new)
    BY <2>6, StoredList
  <2>8. \A k \in 1..Len(new) : \A a \in Int : \A b :
          Has(new[k], a, b) => Has(s, a, b) /\ a \in Int
    BY <2>4, <2>6
  <2>9. \A a \in Int : a \in Int /\ Covers(s, a) => \E k \in 1..Len(new) : Covers(new[k], a)
    <3> SUFFICES ASSUME NEW a \in Int, Covers(s, a)
                 PROVE  \E k \in 1..n : Covers(new[k], a)
      BY <2>6
    <3>1. at <= a /\ a <= end
      BY <1>1, <1>3, SpanInSpace
    <3>2. PICK i \in 0..(len - 1) : i = a - at
      BY <1>3, <3>1
    <3>3. PICK k \in 1..n : (k - 1) * size <= i /\ i < k * size
      BY <2>1
    <3>4. at + (k - 1) * size <= a /\ a < at + k * size
      <4>1. PICK b \in Int, c \in Int : b = (k - 1) * size /\ c = k * size
        BY <2>1
      <4>2. QED
        BY <1>3, <3>2, <3>3, <4>1
    <3>5. QED
      BY <2>4, <3>1, <3>4
  <2>10. IsPart(new, s, Int)
    BY <1>1, <2>7, <2>8, <2>9, PiecesRead
  <2>11. QED
    BY <2>6, <2>10
<1>6. QED
  BY <1>4, <1>5

LEMMA SplitReads ==
  ASSUME NEW list \in Seq(StoredSegment), NEW size \in Nat, NEW new, new = Split(list, size)
  PROVE  /\ new \in Seq(StoredSegment)
         /\ \A a \in Int : ReadByte(new, a) = ReadByte(list, a)
<1>1. CASE size = 0
  BY <1>1 DEF Split
<1>2. CASE size # 0
  <2>1. DOMAIN list = 1..Len(list)
    BY LenProperties
  <2>2. PICK f : f = [n \in 1..Len(list) |-> SplitSegment(list[n], size)]
    OBVIOUS
  <2>3. ASSUME NEW n \in 1..Len(list)
        PROVE  f[n] \in Seq(StoredSegment) /\ IsPart(f[n], list[n], Int)
    <3>1. PICK s \in StoredSegment : s = list[n]
      BY ElementOfSeq
    <3>2. PICK p : p = SplitSegment(s, size) /\ p = f[n]
      BY <2>2, <3>1
    <3>3. QED
      BY <1>2, <3>1, <3>2, SplitSegmentReads
  <2>4. ArePieces(f, list, Int)
    BY <2>2, <2>3 DEF ArePieces
  <2>5. new = NonEmpty(FlattenSeq(f))
    BY <1>2, <2>1, <2>2 DEF Split
  <2>6. new \in Seq(StoredSegment) /\ ReadsIn(new, list, Int)
    BY <2>4, <2>5, FlattenStored
  <2>7. QED
    BY <2>6 DEF ReadsIn
<1>3. QED
  BY <1>1, <1>2

-----------------------------------------------------------------------------
(* align *)

LEMMA PaddingReads ==
  ASSUME NEW lo \in Nat, NEW hi \in Nat, hi <= MaxAddr, NEW byte \in Byte,
         NEW new, new = Padding(lo, hi, byte)
  PROVE  /\ new \in Seq(StoredSegment)
         /\ \A a \in Int : ReadByte(new, a) = IF lo <= a /\ a < hi THEN byte ELSE None
<1>1. CASE lo < hi
  <2>1. PICK N \in Nat : N = hi - lo /\ N > 0
    BY <1>1
  <2>2. PICK d : d = [k \in 1..N |-> byte]
    OBVIOUS
  <2>3. PICK s : s = [start |-> lo, data |-> d]
    OBVIOUS
  <2>4. d = [k \in 1..N |-> d[k]] /\ \A k \in 1..N : d[k] \in Byte
    BY <2>2
  <2>5. d \in Seq(Byte) /\ Len(d) = N
    BY <2>4, MadeStored
  <2>6. s.start = lo /\ s.data = d /\ lo \in Addr
    BY <1>1, <2>3, MaxAddrAssumption DEF Addr
  <2>7. s \in [start : Addr, data : Seq(Byte)]
    BY <2>3, <2>5, <2>6
  <2>8. Len(s.data) > 0 /\ s.start + Len(s.data) - 1 <= MaxAddr /\ Len(s.data) <= MaxAddr
    BY <2>1, <2>5, <2>6, MaxAddrAssumption
  <2>9. InSpace(s) /\ s \in StoredSegment
    BY <2>7, <2>8, StoredFacts DEF InSpace
  <2>10. new = <<s>>
    BY <1>1, <2>1, <2>2, <2>3 DEF Padding
  <2>11. \A a \in Int : ReadByte(new, a) = IF Covers(s, a) THEN ByteAt(s, a) ELSE None
    BY <2>9, <2>10, ReadOne
  <2>12. ASSUME NEW a \in Int
         PROVE  ReadByte(new, a) = IF lo <= a /\ a < hi THEN byte ELSE None
    <3>1. Covers(s, a) <=> lo <= a /\ a < hi
      BY <2>1, <2>5, <2>6 DEF Covers
    <3>2. ASSUME lo <= a, a < hi
          PROVE  ByteAt(s, a) = byte
      <4>1. a - lo + 1 \in 1..N
        BY <2>1, <3>2
      <4>2. QED
        BY <2>2, <2>6, <4>1 DEF ByteAt
    <3>3. QED
      BY <2>11, <3>1, <3>2
  <2>13. QED
    BY <2>9, <2>10, <2>12
<1>2. CASE ~(lo < hi)
  <2>1. new = <<>>
    BY <1>2 DEF Padding
  <2>2. \A a \in Int : ~(lo <= a /\ a < hi)
    BY <1>2
  <2>3. QED
    BY <2>1, <2>2, ReadEmpty, NothingStored
<1>3. QED
  BY <1>1, <1>2

\* What align lays down for one segment.
PadsSegment(s, alignment, length, a) ==
  \/ AlignDown(s.start, alignment) <= a /\ a < s.start
  \/ length /\ EndAddress(s) < a /\ a < AlignUp(EndAddress(s) + 1, alignment)

LEMMA PadSegmentReads ==
  ASSUME NEW s \in StoredSegment, NEW alignment \in Nat \ {0}, NEW byte \in Byte,
         NEW length \in BOOLEAN, NEW new, new = PadSegment(s, alignment, byte, length)
  PROVE  /\ new \in Seq(StoredSegment)
         /\ \A a \in Int : ReadByte(new, a) =
              IF PadsSegment(s, alignment, length, a) THEN byte ELSE None
<1>1. PICK at \in Nat, end \in Nat : /\ at = s.start /\ end = EndAddress(s)
                                     /\ at <= end /\ end <= MaxAddr
  BY StoredFacts, SpanInSpace, MaxAddrAssumption DEF Addr
<1>2. PICK down \in Nat : down = AlignDown(at, alignment) /\ down <= at
  BY DEF AlignDown
<1>3. PICK after \in Nat : /\ after = Min({EndAddress(s) + 1, MaxAddr})
                           /\ after = IF end < MaxAddr THEN end + 1 ELSE MaxAddr
  <2>1. end + 1 \in Int /\ MaxAddr \in Int
    BY MaxAddrAssumption
  <2>2. Min({end + 1, MaxAddr}) = IF end + 1 <= MaxAddr THEN end + 1 ELSE MaxAddr
    BY <2>1, MinOfTwo
  <2>3. (IF end + 1 <= MaxAddr THEN end + 1 ELSE MaxAddr)
          = IF end < MaxAddr THEN end + 1 ELSE MaxAddr
    BY <2>1
  <2>4. (IF end < MaxAddr THEN end + 1 ELSE MaxAddr) \in Nat
    BY MaxAddrAssumption
  <2>5. QED
    BY <1>1, <2>2, <2>3, <2>4
<1>4. PICK up \in Nat : up = AlignUp(after, alignment) /\ up <= MaxAddr /\ after <= up
  BY <1>1, <1>3, MaxAddrAssumption DEF AlignUp
<1>5. PICK low : low = Padding(down, at, byte)
  OBVIOUS
<1>6. PICK high : high = IF length THEN Padding(after, up, byte) ELSE <<>>
  OBVIOUS
<1>7. new = high \o low
  BY <1>1, <1>2, <1>3, <1>4, <1>5, <1>6 DEF PadSegment
<1>8. /\ low \in Seq(StoredSegment)
      /\ \A a \in Int : ReadByte(low, a) = IF down <= a /\ a < at THEN byte ELSE None
  <2>1. at <= MaxAddr
    BY <1>1, MaxAddrAssumption
  <2>2. QED
    BY <1>5, <2>1, PaddingReads
<1>9. /\ high \in Seq(StoredSegment)
      /\ \A a \in Int : ReadByte(high, a) = IF length /\ after <= a /\ a < up THEN byte ELSE None
  <2>1. CASE length
    BY <1>4, <1>6, <2>1, PaddingReads
  <2>2. CASE ~length
    BY <1>6, <2>2, ReadEmpty, NothingStored
  <2>3. QED
    BY <2>1, <2>2
<1>10. new \in Seq(StoredSegment) /\ ReadsFirst(new, low, high)
  BY <1>7, <1>8, <1>9, ConcatStored
<1>11. ASSUME NEW a \in Int
       PROVE  ReadByte(new, a) = IF PadsSegment(s, alignment, length, a) THEN byte ELSE None
  <2>1. after <= a /\ a < up <=> end < a /\ a < AlignUp(end + 1, alignment)
    <3>1. CASE end < MaxAddr
      BY <1>3, <1>4, <3>1
    <3>2. CASE ~(end < MaxAddr)
      <4>1. end = MaxAddr /\ after = MaxAddr /\ up = MaxAddr /\ MaxAddr \in Nat
        BY <1>1, <1>3, <1>4, <3>2, MaxAddrAssumption
      <4>2. AlignUp(end + 1, alignment) = end + 1
        BY <4>1 DEF AlignUp
      <4>3. QED
        BY <4>1, <4>2
    <3>3. QED
      BY <3>1, <3>2
  <2>2. PadsSegment(s, alignment, length, a)
          <=> (down <= a /\ a < at) \/ (length /\ after <= a /\ a < up)
    BY <1>1, <1>2, <2>1 DEF PadsSegment
  <2>3. byte # None
    BY ByteAssumption
  <2>4. ReadByte(new, a) = IF ReadByte(low, a) # None THEN ReadByte(low, a) ELSE ReadByte(high, a)
    BY <1>10 DEF ReadsFirst
  <2>5. QED
    BY <1>8, <1>9, <2>2, <2>3, <2>4
<1>12. QED
  BY <1>10, <1>11

PaddedFrom(normal, alignment, byte, length) ==
  FoldLeft(LAMBDA acc, s : PadSegment(s, alignment, byte, length) \o acc, <<>>, normal)

\* The padding after each of the segments.
IsPadsRun(acc, normal, alignment, byte, length) ==
  /\ acc \in [0..Len(normal) -> Seq(StoredSegment)]
  /\ acc[0] = <<>>
  /\ \A k \in 1..Len(normal) : acc[k] = (PadSegment(normal[k], alignment, byte, length) \o acc[k - 1])

LEMMA PadsRun ==
  ASSUME NEW normal \in Seq(StoredSegment), NEW alignment \in Nat \ {0}, NEW byte \in Byte,
         NEW length \in BOOLEAN
  PROVE  \E acc : IsPadsRun(acc, normal, alignment, byte, length) /\ PaddedFrom(normal, alignment, byte, length) = acc[Len(normal)]
<1> DEFINE n == Len(normal)
           A == Seq(StoredSegment)
           F == [p \in A \X (1..n) |-> (PadSegment(normal[p[2]], alignment, byte, length) \o p[1])]
           E(g) == g = [ix \in SUBSET (1..n) |->
                     IF ix = {} THEN <<>>
                     ELSE LET mx == Max(ix) IN (PadSegment(normal[mx], alignment, byte, length) \o g[ix \ {mx}])]
           g == CHOOSE h : E(h)
<1>1. DOMAIN normal = 1..n /\ n \in Nat
  BY LenProperties
<1>2. PaddedFrom(normal, alignment, byte, length) = g[1..n]
  BY <1>1, Zenon DEF PaddedFrom, FoldLeft, MapThenFoldSet
<1>3. IsStep(F, n, A) /\ <<>> \in A
  <2>1. ASSUME NEW l \in A, NEW k \in 1..n
        PROVE  (PadSegment(normal[k], alignment, byte, length) \o l) \in A
    <3>1. normal[k] \in StoredSegment
      BY ElementOfSeq
    <3>2. PICK p : p = PadSegment(normal[k], alignment, byte, length) /\ p \in Seq(StoredSegment)
      BY <3>1, PadSegmentReads
    <3>3. QED
      BY <3>2, <2>1, ConcatStored
  <2>2. <<>> \in A
    BY NothingStored
  <2> HIDE DEF A
  <2>3. QED
    BY <2>1, <2>2 DEF IsStep
<1>4. \A ix \in SUBSET (1..n) : ix # {} => Max(ix) \in 1..n /\ ix \ {Max(ix)} \in SUBSET (1..n)
  BY <1>1, MaxUpTo
<1>5. \A k \in 1..n, y \in A : F[<<y, k>>] = (PadSegment(normal[k], alignment, byte, length) \o y)
  OBVIOUS
<1> HIDE DEF n, A, F
<1>6. \E h : E(h)
  <2>1. PICK h \in [SUBSET (1..n) -> A] : Folds(h, n, <<>>, F)
    BY <1>1, <1>3, FoldExists
  <2>2. \A ix \in SUBSET (1..n) : ix # {} =>
          h[ix] = (PadSegment(normal[Max(ix)], alignment, byte, length) \o h[ix \ {Max(ix)}])
    BY <2>1, <1>4, <1>5 DEF Folds
  <2>3. E(h)
    BY <2>1, <2>2 DEF Folds
  <2>4. QED
    BY <2>3, Zenon
<1>7. E(g)
  <2> HIDE DEF E
  <2>1. QED
    BY <1>6, Zenon
<1> HIDE DEF g
<1>8. FoldsWithin(g, n, A, <<>>, F)
  BY <1>4, <1>5, <1>7 DEF FoldsWithin
<1> HIDE DEF E
<1>9. PICK acc : IsRun(acc, n, A, <<>>, F) /\ g[1..n] = acc[n]
  BY <1>1, <1>3, <1>8, FoldRun
<1>10. \A k \in 1..n : acc[k] = (PadSegment(normal[k], alignment, byte, length) \o acc[k - 1])
  <2> SUFFICES ASSUME NEW k \in 1..n
               PROVE  acc[k] = F[<<acc[k - 1], k>>] /\ acc[k - 1] \in A
    BY <1>5
  <2>1. k - 1 \in 0..n
    BY <1>1
  <2>2. QED
    BY <2>1, <1>9 DEF IsRun
<1>11. QED
  BY <1>2, <1>9, <1>10 DEF IsRun, IsPadsRun, n, A


\* Every segment's padding, and nothing else.
IsPadding(new, normal, alignment, byte, length) ==
  \A a \in Int : ReadByte(new, a) =
    IF \E m \in 1..Len(normal) : PadsSegment(normal[m], alignment, length, a)
      THEN byte ELSE None

LEMMA PaddedReads ==
  ASSUME NEW normal \in Seq(StoredSegment), NEW alignment \in Nat \ {0}, NEW byte \in Byte,
         NEW length \in BOOLEAN, NEW new, new = PaddedFrom(normal, alignment, byte, length)
  PROVE  new \in Seq(StoredSegment) /\ IsPadding(new, normal, alignment, byte, length)
<1>1. PICK acc : /\ IsPadsRun(acc, normal, alignment, byte, length)
                 /\ new = acc[Len(normal)]
  BY PadsRun
<1> DEFINE n == Len(normal)
           Pad(m, a) == PadsSegment(normal[m], alignment, length, a)
           Reads(k) == \A a \in Int : ReadByte(acc[k], a) =
                         IF \E m \in 1..k : Pad(m, a) THEN byte ELSE None
           T == {k \in 0..n : Reads(k)}
<1>2. n \in Nat
  BY LenProperties
<1>3. 0 \in T
  <2>1. acc[0] = <<>>
    BY <1>1 DEF IsPadsRun
  <2>2. Reads(0)
    BY <2>1, ReadEmpty
  <2>3. QED
    BY <1>2, <2>2
<1>4. ASSUME NEW k \in 0..(n - 1), k \in T
      PROVE  k + 1 \in T
  <2>1. k + 1 \in 1..n /\ k + 1 \in 0..n /\ k \in 0..n /\ (k + 1) - 1 = k /\ k \in Nat
    BY <1>2
  <2>2. PICK p : p = PadSegment(normal[k + 1], alignment, byte, length)
    OBVIOUS
  <2>3. acc[k + 1] = p \o acc[k] /\ acc[k] \in Seq(StoredSegment)
    BY <1>1, <2>1, <2>2 DEF IsPadsRun
  <2>4. normal[k + 1] \in StoredSegment
    BY <2>1, ElementOfSeq
  <2>5. /\ p \in Seq(StoredSegment)
        /\ \A a \in Int : ReadByte(p, a) = IF Pad(k + 1, a) THEN byte ELSE None
    BY <2>2, <2>4, PadSegmentReads
  <2>6. ReadsFirst(acc[k + 1], acc[k], p)
    BY <2>3, <2>5, ConcatStored
  <2> HIDE DEF Pad
  <2>7. Reads(k)
    BY <1>4
  <2>8. ASSUME NEW a \in Int
        PROVE  ReadByte(acc[k + 1], a) = IF \E m \in 1..(k + 1) : Pad(m, a) THEN byte ELSE None
    <3>1. (\E m \in 1..(k + 1) : Pad(m, a)) <=> (\E m \in 1..k : Pad(m, a)) \/ Pad(k + 1, a)
      BY <2>1
    <3>2. ReadByte(acc[k + 1], a) =
            IF ReadByte(acc[k], a) # None THEN ReadByte(acc[k], a) ELSE ReadByte(p, a)
      BY <2>6 DEF ReadsFirst
    <3>3. ReadByte(acc[k], a) = IF \E m \in 1..k : Pad(m, a) THEN byte ELSE None
      BY <2>7
    <3>4. QED
      BY <2>5, <3>1, <3>2, <3>3
  <2>9. QED
    BY <2>1, <2>8
<1>5. n \in T /\ n \in 0..n
  <2> HIDE DEF T, n
  <2>1. \A k \in 0..n : k \in T
    BY <1>2, <1>3, <1>4, InductionUpTo
  <2>2. QED
    BY <2>1, <1>2
<1>6. new \in Seq(StoredSegment)
  BY <1>1, <1>5 DEF IsPadsRun
<1>7. QED
  BY <1>1, <1>5, <1>6 DEF IsPadding

\* The data of the normalized file, with its padding below it.
LEMMA AlignReads ==
  ASSUME NEW list \in Seq(StoredSegment), Covered(list) # Addr,
         NEW alignment \in Nat \ {0}, NEW byte \in Byte, NEW length \in BOOLEAN,
         NEW normal, normal = Normalized(list),
         NEW new, new = Align(list, alignment, byte, length), Covered(new) # Addr
  PROVE  /\ new \in Seq(StoredSegment)
         /\ \A a \in Int : ReadByte(new, a) =
              IF ReadByte(list, a) # None THEN ReadByte(list, a)
              ELSE IF \E m \in 1..Len(normal) : PadsSegment(normal[m], alignment, length, a)
                THEN byte ELSE None
<1>1. /\ normal \in Seq(StoredSegment)
      /\ \A a \in Int : ReadByte(normal, a) = ReadByte(list, a)
  BY NormalizedStored
<1>2. PICK padded : padded = PaddedFrom(normal, alignment, byte, length)
  OBVIOUS
<1>3. padded \in Seq(StoredSegment) /\ IsPadding(padded, normal, alignment, byte, length)
  BY <1>1, <1>2, PaddedReads
<1>4. PICK both : both = padded \o normal
  OBVIOUS
<1>5. both \in Seq(StoredSegment) /\ ReadsFirst(both, normal, padded)
  BY <1>1, <1>3, <1>4, ConcatStored
<1>6. new = Normalized(both)
  BY <1>2, <1>4 DEF Align, PaddedFrom
<1>7. Covered(both) = Covered(new)
  <2>1. both \in ListType /\ AllInSpace(both)
    BY <1>5, StoredList
  <2>2. \A a \in Addr : ReadByte(new, a) = ReadByte(both, a)
    BY <1>6, <2>1, ReadNormalized, MaxAddrAssumption DEF Addr
  <2>3. QED
    BY <2>2 DEF Covered
<1>8. /\ new \in Seq(StoredSegment)
      /\ \A a \in Int : ReadByte(new, a) = ReadByte(both, a)
  BY <1>5, <1>6, <1>7, NormalizedStored
<1>9. QED
  BY <1>1, <1>3, <1>5, <1>8 DEF ReadsFirst, IsPadding

-----------------------------------------------------------------------------
(* dspic_expand, dspic_shrink, dspic_clear_ghost *)

\* The bytes a copy starts from: the range has one at each of its addresses.
LEMMA CopySource ==
  ASSUME NEW list \in Seq(StoredSegment), NEW r \in RangeType, Materializable(r),
         NEW source, source = ReadBytesContiguous(list, r.start, RangeLength(r)), source # None
  PROVE  /\ RangeLength(r) \in Nat \ {0}
         /\ source \in Seq(Byte) /\ Len(source) = RangeLength(r)
         /\ \A k \in 1..RangeLength(r) :
              source[k] = ReadByte(list, r.start + k - 1) /\ r.start + k - 1 \in Covered(list)
<1>1. list \in ListType /\ AllInSpace(list)
  BY StoredList
<1>2. /\ r.start \in Int /\ r.end \in Int /\ r.requested \in Int
      /\ r.start <= r.end /\ r.requested = r.end /\ r.start \in Addr
  BY RangeFacts DEF Materializable, ExtendsPastAddressSpace, RangeType
<1>3. PICK n \in Nat \ {0} : n = RangeLength(r)
  BY <1>2 DEF RangeLength
<1>4. PICK at \in Addr : at = r.start /\ at \in Int
  BY <1>2
<1>5. source = IF n <= MaxAddr /\ \A k \in at..(at + n - 1) : k \in Covered(list)
                 THEN [k \in 1..n |-> ReadByte(list, at + k - 1)] ELSE None
  BY <1>1, <1>3, <1>4, ReadContiguous
<1>6. /\ \A k \in at..(at + n - 1) : k \in Covered(list)
      /\ source = [k \in 1..n |-> ReadByte(list, at + k - 1)]
  BY <1>5
<1>7. ASSUME NEW k \in 1..n
      PROVE  at + k - 1 \in Covered(list) /\ source[k] = ReadByte(list, at + k - 1) /\ source[k] \in Byte
  <2>1. at + k - 1 \in at..(at + n - 1) /\ at + k - 1 \in Int
    BY <1>4
  <2>2. at + k - 1 \in Covered(list) /\ source[k] = ReadByte(list, at + k - 1)
    BY <1>6, <2>1
  <2>3. QED
    BY <1>1, <2>1, <2>2, CoveredIs, ReadCovered
<1>8. source = [k \in 1..n |-> source[k]]
  BY <1>6
<1>9. source \in Seq(Byte) /\ Len(source) = n
  BY <1>7, <1>8, MadeStored
<1>10. QED
  BY <1>3, <1>4, <1>7, <1>9

LEMMA CopyStored ==
  ASSUME NEW at \in Nat, NEW d \in Seq(Byte), NEW copy, copy = [start |-> at, data |-> d],
         CanWrite(copy)
  PROVE  copy \in SegmentType
<1>1. at \in Addr
  BY MaxAddrAssumption DEF CanWrite, Addr
<1>2. copy \in [start : Addr, data : Seq(Byte)]
  BY <1>1
<1>3. QED
  BY <1>2 DEF CanWrite, SegmentType

LEMMA ExpandedBytes ==
  ASSUME NEW d \in Seq(Byte), Len(d) % 2 = 0
  PROVE  Expanded(d) \in Seq(Byte) /\ Len(Expanded(d)) = 2 * Len(d)
<1>1. PICK n \in Nat : n = Len(d)
  BY LenProperties
<1> DEFINE new == Expanded(d)
<1>2. new = [k \in 1..(2 * n) |->
               IF (k - 1) % 4 < 2 THEN d[2 * ((k - 1) \div 4) + ((k - 1) % 4) + 1] ELSE Zero]
  BY <1>1 DEF Expanded
<1> HIDE DEF new
<1>3. ASSUME NEW k \in 1..(2 * n)
      PROVE  new[k] \in Byte
  <2>1. CASE (k - 1) % 4 < 2
    <3>1. n % 2 = 0
      BY <1>1
    <3>2. PICK j \in 1..n : j = 2 * ((k - 1) \div 4) + ((k - 1) % 4) + 1
      BY <2>1, <3>1
    <3>3. new[k] = d[j]
      BY <1>2, <2>1, <3>2
    <3>4. QED
      BY <1>1, <3>2, <3>3, ElementOfSeq
  <2>2. CASE ~((k - 1) % 4 < 2)
    BY <1>2, <2>2, ZeroAssumption
  <2>3. QED
    BY <2>1, <2>2
<1>4. new = [k \in 1..(2 * n) |-> new[k]]
  BY <1>2
<1>5. 2 * n \in Nat
  OBVIOUS
<1>6. new \in Seq(Byte) /\ Len(new) = 2 * n
  BY <1>3, <1>4, <1>5, MadeStored
<1>7. QED
  BY <1>1, <1>6 DEF new

LEMMA ShrunkBytes ==
  ASSUME NEW d \in Seq(Byte), Len(d) % 4 = 0
  PROVE  Shrunk(d) \in Seq(Byte) /\ Len(Shrunk(d)) = Len(d) \div 2
<1>1. PICK n \in Nat : n = Len(d)
  BY LenProperties
<1> DEFINE new == Shrunk(d)
<1>2. new = [k \in 1..(n \div 2) |-> d[4 * ((k - 1) \div 2) + ((k - 1) % 2) + 1]]
  BY <1>1 DEF Shrunk
<1> HIDE DEF new
<1>3. ASSUME NEW k \in 1..(n \div 2)
      PROVE  new[k] \in Byte
  <2>1. n % 4 = 0
    BY <1>1
  <2>2. PICK j \in 1..n : j = 4 * ((k - 1) \div 2) + ((k - 1) % 2) + 1
    BY <2>1
  <2>3. new[k] = d[j]
    BY <1>2, <2>2
  <2>4. QED
    BY <1>1, <2>2, <2>3, ElementOfSeq
<1>4. new = [k \in 1..(n \div 2) |-> new[k]]
  BY <1>2
<1>5. n \div 2 \in Nat
  OBVIOUS
<1>6. new \in Seq(Byte) /\ Len(new) = n \div 2
  BY <1>3, <1>4, <1>5, MadeStored
<1>7. QED
  BY <1>1, <1>6 DEF new

LEMMA ClearedBytes ==
  ASSUME NEW d \in Seq(Byte)
  PROVE  Cleared(d) \in Seq(Byte) /\ Len(Cleared(d)) = Len(d)
<1>1. PICK n \in Nat : n = Len(d) /\ DOMAIN d = 1..n
  BY LenProperties
<1> DEFINE new == Cleared(d)
<1>2. new = [k \in 1..n |-> IF k % 4 = 0 THEN Zero ELSE d[k]]
  BY <1>1 DEF Cleared
<1> HIDE DEF new
<1>3. ASSUME NEW k \in 1..n
      PROVE  new[k] \in Byte
  <2>1. d[k] \in Byte
    BY <1>1, ElementOfSeq
  <2>2. QED
    BY <1>2, <2>1, ZeroAssumption
<1>4. new = [k \in 1..n |-> new[k]]
  BY <1>2
<1>5. new \in Seq(Byte) /\ Len(new) = n
  BY <1>3, <1>4, MadeStored
<1>6. QED
  BY <1>1, <1>5 DEF new

LEMMA ExpandStored ==
  ASSUME NEW list \in Seq(StoredSegment), NEW r \in RangeType, NEW target \in Addr \union {None},
         NEW copy, copy = ExpandCopy(list, r, target), CanWrite(copy)
  PROVE  copy \in SegmentType
<1>1. PICK source : source = ReadBytesContiguous(list, r.start, RangeLength(r))
  OBVIOUS
<1>2. copy = IF ~Materializable(r) \/ RangeLength(r) % 2 # 0 THEN None
             ELSE IF source = None THEN None
             ELSE [start |-> ExpandTarget(r, target), data |-> Expanded(source)]
  BY <1>1 DEF ExpandCopy, CopyOf
<1>3. /\ Materializable(r) /\ RangeLength(r) % 2 = 0 /\ source # None
      /\ copy = [start |-> ExpandTarget(r, target), data |-> Expanded(source)]
  BY <1>2 DEF CanWrite
<1>4. source \in Seq(Byte) /\ Len(source) = RangeLength(r)
  BY <1>1, <1>3, CopySource
<1>5. PICK d \in Seq(Byte) : d = Expanded(source)
  BY <1>3, <1>4, ExpandedBytes
<1>6. PICK at \in Nat : at = ExpandTarget(r, target)
  BY RangeFacts, MaxAddrAssumption DEF ExpandTarget, Addr
<1>7. QED
  BY <1>3, <1>5, <1>6, CopyStored

LEMMA ShrinkStored ==
  ASSUME NEW list \in Seq(StoredSegment), NEW r \in RangeType, NEW target \in Addr \union {None},
         NEW copy, copy = ShrinkCopy(list, r, target), CanWrite(copy)
  PROVE  copy \in SegmentType
<1>1. PICK source : source = ReadBytesContiguous(list, r.start, RangeLength(r))
  OBVIOUS
<1>2. copy = None \/ copy =
        IF ~Materializable(r) \/ RangeLength(r) % 4 # 0 THEN None
        ELSE IF source = None THEN None
        ELSE [start |-> ShrinkTarget(r, target), data |-> Shrunk(source)]
  BY <1>1 DEF ShrinkCopy, CopyOf
<1>3. /\ Materializable(r) /\ RangeLength(r) % 4 = 0 /\ source # None
      /\ copy = [start |-> ShrinkTarget(r, target), data |-> Shrunk(source)]
  BY <1>2 DEF CanWrite
<1>4. source \in Seq(Byte) /\ Len(source) = RangeLength(r)
  BY <1>1, <1>3, CopySource
<1>5. PICK d \in Seq(Byte) : d = Shrunk(source)
  BY <1>3, <1>4, ShrunkBytes
<1>6. PICK at \in Nat : at = ShrinkTarget(r, target)
  BY RangeFacts, MaxAddrAssumption DEF ShrinkTarget, Addr
<1>7. QED
  BY <1>3, <1>5, <1>6, CopyStored

LEMMA GhostStored ==
  ASSUME NEW list \in Seq(StoredSegment), NEW r \in RangeType,
         NEW copy, copy = GhostCopy(list, r), CanWrite(copy)
  PROVE  copy \in SegmentType
<1>1. PICK source : source = ReadBytesContiguous(list, r.start, RangeLength(r))
  OBVIOUS
<1>2. copy = IF ~Materializable(r) \/ RangeLength(r) % 4 # 0 THEN None
             ELSE IF source = None THEN None
             ELSE [start |-> r.start, data |-> Cleared(source)]
  BY <1>1 DEF GhostCopy, CopyOf
<1>3. /\ Materializable(r) /\ source # None
      /\ copy = [start |-> r.start, data |-> Cleared(source)]
  BY <1>2 DEF CanWrite
<1>4. source \in Seq(Byte)
  BY <1>1, <1>3, CopySource
<1>5. PICK d \in Seq(Byte) : d = Cleared(source)
  BY <1>4, ClearedBytes
<1>6. PICK at \in Nat : at = r.start
  BY RangeFacts
<1>7. QED
  BY <1>3, <1>5, <1>6, CopyStored

-----------------------------------------------------------------------------
(* Type correctness *)

\* A list of stored segments can be moved by nothing.
LEMMA CanMoveByZero ==
  ASSUME NEW list \in Seq(StoredSegment), NEW offset, offset = 0
  PROVE  CanOffset(list, offset)
<1> SUFFICES ASSUME NEW n \in DOMAIN list
             PROVE  list[n].start + 0 \in Addr /\ EndAddress(list[n]) + 0 <= MaxAddr
  BY DEF CanOffset
<1>1. n \in 1..Len(list)
  BY LenProperties
<1>2. PICK s : s = list[n] /\ InSpace(s)
  BY <1>1, ElementOfSeq, StoredFacts
<1>3. /\ s.start \in Addr /\ s.start \in Int /\ EndAddress(s) \in Int
      /\ EndAddress(s) <= MaxAddr /\ MaxAddr \in Int
  BY <1>2, SpanInSpace, MaxAddrAssumption DEF Addr
<1>4. s.start + 0 = s.start /\ EndAddress(s) + 0 = EndAddress(s)
  BY <1>3
<1>5. QED
  BY <1>2, <1>3, <1>4

\* Every call's answer keeps the list stored: one step for each action.
LEMMA TypePreserved ==
  ASSUME TypeOK, Next
  PROVE  TypeOK'
<1>1. segments \in Seq(StoredSegment) /\ call \in Calls \union {Idle} /\ res \in {"ok", "error"}
  BY DEF TypeOK
<1>2. CASE Return
  BY <1>1, <1>2 DEF Return, TypeOK
<1>3. ASSUME NEW c \in Calls, call' = c,
             \/ segments' \in Seq(StoredSegment) /\ res' = "ok"
             \/ Fail
      PROVE  TypeOK'
  BY <1>1, <1>3 DEF TypeOK, Fail
<1>4. ASSUME NEW c \in Calls, AnswerAppend(c)
      PROVE  TypeOK'
  <2>1. c.seg \in SegmentType
    BY <1>4, CallsAssumption DEF AnswerAppend, Begin, IsCall
  <2>2. AppendSegment(segments, c.seg) \in Seq(StoredSegment)
    BY <1>1, <2>1, AppendStored
  <2>3. QED
    BY <1>3, <1>4, <2>2 DEF AnswerAppend, Begin, Ok
<1>5. ASSUME NEW c \in Calls, AnswerPrepend(c)
      PROVE  TypeOK'
  <2>1. c.seg \in SegmentType
    BY <1>5, CallsAssumption DEF AnswerPrepend, Begin, IsCall
  <2>2. PrependSegment(segments, c.seg) \in Seq(StoredSegment)
    BY <1>1, <2>1, PrependStored
  <2>3. QED
    BY <1>3, <1>5, <2>2 DEF AnswerPrepend, Begin, Ok
<1>6. ASSUME NEW c \in Calls, AnswerWrite(c)
      PROVE  TypeOK'
  <2>1. c.seg \in [start : Addr, data : Seq(Byte)]
    BY <1>6, CallsAssumption DEF AnswerWrite, Begin, IsCall
  <2>2. ASSUME FitsAt(c.seg.start, Len(c.seg.data))
        PROVE  AppendSegment(segments, c.seg) \in Seq(StoredSegment)
    <3>1. c.seg \in SegmentType
      BY <2>1, <2>2 DEF SegmentType
    <3>2. QED
      BY <1>1, <3>1, AppendStored
  <2>3. QED
    BY <1>3, <1>6, <2>2 DEF AnswerWrite, Begin, OkIf, Ok
<1>7. ASSUME NEW c \in Calls, AnswerNormalize(c)
      PROVE  TypeOK'
  <2>1. Normalized(segments) \in Seq(StoredSegment)
    BY <1>1, <1>7, NormalizedStored DEF AnswerNormalize, HasGap
  <2>2. QED
    BY <1>3, <1>7, <2>1 DEF AnswerNormalize, Begin, Ok
<1>8. ASSUME NEW c \in Calls, AnswerFilter(c)
      PROVE  TypeOK'
  <2>1. c.ranges \in Seq(RangeType)
    BY <1>8, CallsAssumption DEF AnswerFilter, Begin, IsCall
  <2>2. FilterRanges(segments, c.ranges) \in Seq(StoredSegment)
    BY <1>1, <2>1, FilterReads
  <2>3. QED
    BY <1>3, <1>8, <2>2 DEF AnswerFilter, Begin, Ok
<1>9. ASSUME NEW c \in Calls, AnswerCut(c)
      PROVE  TypeOK'
  <2>1. c.ranges \in Seq(RangeType)
    BY <1>9, CallsAssumption DEF AnswerCut, Begin, IsCall
  <2>2. CutRanges(segments, c.ranges) \in Seq(StoredSegment)
    BY <1>1, <2>1, CutsRead
  <2>3. QED
    BY <1>3, <1>9, <2>2 DEF AnswerCut, Begin, Ok
<1>10. ASSUME NEW c \in Calls, AnswerFill(c)
       PROVE  TypeOK'
  <2>1. /\ c.ranges \in Seq(RangeType) /\ c.pattern \in Seq(Byte)
        /\ c.overwrite \in BOOLEAN
    BY <1>10, CallsAssumption DEF AnswerFill, Begin, IsCall
  <2>2. ASSUME CanFill(c.ranges, c.pattern)
        PROVE  FillRanges(segments, c.ranges, c.pattern, c.overwrite) \in Seq(StoredSegment)
    <3>1. CASE c.pattern = <<>>
      BY <1>1, <3>1 DEF FillRanges
    <3>2. CASE c.pattern # <<>>
      <4>1. DOMAIN c.ranges = 1..Len(c.ranges)
        BY <2>1, LenProperties
      <4>2. AllMaterializable(c.ranges)
        BY <2>2, <3>2, <4>1 DEF CanFill, AllMaterializable
      <4>3. QED
        BY <1>1, <2>1, <3>2, <4>2, FillsRead
    <3>3. QED
      BY <3>1, <3>2
  <2>3. QED
    BY <1>3, <1>10, <2>2 DEF AnswerFill, Begin, OkIf, Ok
<1>11. ASSUME NEW c \in Calls, AnswerFillGaps(c)
       PROVE  TypeOK'
  <2>1. c.limit \in Addr /\ c.byte \in Byte
    BY <1>11, CallsAssumption DEF AnswerFillGaps, Begin, IsCall
  <2>2. ASSUME CanFillGaps(segments, c.limit)
        PROVE  FillGaps(segments, c.byte) \in Seq(StoredSegment)
    <3>1. CASE segments = <<>>
      BY <1>1, <3>1 DEF FillGaps
    <3>2. CASE segments # <<>>
      <4>1. SpanLength(segments) <= c.limit
        BY <2>2, <3>2 DEF CanFillGaps
      <4>2. PICK lo, hi : /\ lo = MinAddress(Normalized(segments))
                          /\ hi = MaxAddress(Normalized(segments))
        OBVIOUS
      <4>3. lo \in Int /\ hi \in Int
        <5>1. lo \in Covered(segments) /\ hi \in Covered(segments)
          BY <1>1, <3>2, <4>2, NormalBounds
        <5>2. QED
          BY <5>1, MaxAddrAssumption DEF Covered, Addr
      <4>4. SpanLength(segments) \in Int /\ c.limit \in Int /\ c.limit <= MaxAddr
        BY <2>1, <4>2, <4>3, MaxAddrAssumption DEF SpanLength, Addr
      <4>5. SpanLength(segments) <= MaxAddr
        BY <4>1, <4>4, MaxAddrAssumption
      <4>6. QED
        BY <1>1, <2>1, <3>2, <4>5, DenseReads
    <3>3. QED
      BY <3>1, <3>2
  <2>3. QED
    BY <1>3, <1>11, <2>2 DEF AnswerFillGaps, Begin, OkIf, Ok
<1>12. ASSUME NEW c \in Calls, AnswerMerge(c)
       PROVE  TypeOK'
  <2>1. /\ c.ranges \in Seq(RangeType) /\ c.other \in Seq(StoredSegment)
        /\ c.mode \in {"Overwrite", "Preserve"} /\ c.offset \in Int
    BY <1>12, CallsAssumption DEF AnswerMerge, Begin, IsCall
  <2>2. PICK source \in Seq(StoredSegment) : source = MergeSource(c.other, c.ranges)
    BY <2>1, FilterReads DEF MergeSource
  <2>3. PICK moved : moved = OffsetAddresses(source, c.offset)
    OBVIOUS
  <2>4. PICK new : new = MergeSegments(segments, moved, c.mode)
    OBVIOUS
  <2>5. ASSUME c.offset = 0 \/ CanOffset(source, c.offset)
        PROVE  new \in Seq(StoredSegment)
    <3>1. CanOffset(source, c.offset)
      BY <2>2, <2>5, CanMoveByZero
    <3>2. moved \in Seq(StoredSegment)
      BY <2>1, <2>2, <2>3, <3>1, OffsetReads
    <3>3. CASE c.mode = "Overwrite"
      BY <1>1, <2>4, <3>2, <3>3, OverwriteReads
    <3>4. CASE c.mode = "Preserve"
      BY <1>1, <2>4, <3>2, <3>4, PreserveReads
    <3>5. QED
      BY <2>1, <3>3, <3>4
  <2>6. OkIf(c.offset = 0 \/ CanOffset(source, c.offset), new)
    BY <1>12, <2>2, <2>3, <2>4 DEF AnswerMerge
  <2>7. call' = c
    BY <1>12 DEF AnswerMerge, Begin
  <2>8. QED
    BY <1>3, <2>5, <2>6, <2>7 DEF OkIf, Ok
<1>13. ASSUME NEW c \in Calls, AnswerOffset(c)
       PROVE  TypeOK'
  <2>1. c.offset \in Int
    BY <1>13, CallsAssumption DEF AnswerOffset, Begin, IsCall
  <2>2. ASSUME CanOffset(segments, c.offset)
        PROVE  OffsetAddresses(segments, c.offset) \in Seq(StoredSegment)
    BY <1>1, <2>1, <2>2, OffsetReads
  <2>3. QED
    BY <1>3, <1>13, <2>2 DEF AnswerOffset, Begin, OkIf, Ok
<1>14. ASSUME NEW c \in Calls, AnswerAlign(c)
       PROVE  TypeOK'
  <2>1. c.alignment \in Addr /\ c.byte \in Byte /\ c.length \in BOOLEAN
    BY <1>14, CallsAssumption DEF AnswerAlign, Begin, IsCall
  <2>2. PICK new : new = Align(segments, c.alignment, c.byte, c.length)
    OBVIOUS
  <2>3. ASSUME c.alignment # 0
        PROVE  new \in Seq(StoredSegment)
    <3>1. c.alignment \in Nat \ {0}
      BY <2>1, <2>3, MaxAddrAssumption DEF Addr
    <3>2. Covered(segments) # Addr /\ Covered(new) # Addr
      BY <1>14, <2>2, <2>3 DEF AnswerAlign, HasGap
    <3>3. PICK normal : normal = Normalized(segments)
      OBVIOUS
    <3>4. QED
      BY <1>1, <2>1, <2>2, <3>1, <3>2, <3>3, AlignReads
  <2>4. OkIf(c.alignment # 0, new) /\ call' = c
    BY <1>14, <2>2 DEF AnswerAlign, Begin
  <2>5. QED
    BY <1>3, <2>3, <2>4 DEF OkIf, Ok
<1>15. ASSUME NEW c \in Calls, AnswerSplit(c)
       PROVE  TypeOK'
  <2>1. c.size \in Addr
    BY <1>15, CallsAssumption DEF AnswerSplit, Begin, IsCall
  <2>2. Split(segments, c.size) \in Seq(StoredSegment)
    <3>1. PICK size \in Nat : size = c.size
      BY <2>1, MaxAddrAssumption DEF Addr
    <3>2. QED
      BY <1>1, <3>1, SplitReads
  <2>3. QED
    BY <1>3, <1>15, <2>2 DEF AnswerSplit, Begin, Ok
<1>16. ASSUME NEW c \in Calls, AnswerSwapWord(c)
       PROVE  TypeOK'
  <2>1. SwapWord(segments) \in Seq(StoredSegment)
    BY <1>1, ReverseStored DEF SwapWord
  <2>2. QED
    BY <1>3, <1>16, <2>1 DEF AnswerSwapWord, Begin, Ok
<1>17. ASSUME NEW c \in Calls, AnswerSwapLong(c)
       PROVE  TypeOK'
  <2>1. SwapLong(segments) \in Seq(StoredSegment)
    BY <1>1, SwapLongStored
  <2>2. QED
    BY <1>3, <1>17, <2>1 DEF AnswerSwapLong, Begin, OkIf, Ok
<1>18. ASSUME NEW copy, CanWrite(copy) => copy \in SegmentType, WriteCopy(copy)
       PROVE  \/ segments' \in Seq(StoredSegment) /\ res' = "ok"
              \/ Fail
  BY <1>1, <1>18, AppendStored DEF WriteCopy, OkIf, Ok
<1>19. ASSUME NEW c \in Calls, AnswerExpand(c)
       PROVE  TypeOK'
  <2>1. c.range \in RangeType /\ c.target \in Addr \union {None}
    BY <1>19, CallsAssumption DEF AnswerExpand, Begin, IsCall
  <2>2. PICK copy : copy = ExpandCopy(segments, c.range, c.target)
    OBVIOUS
  <2>3. CanWrite(copy) => copy \in SegmentType
    BY <1>1, <2>1, <2>2, ExpandStored
  <2>4. WriteCopy(copy) /\ call' = c
    BY <1>19, <2>2 DEF AnswerExpand, Begin
  <2>5. QED
    BY <1>3, <1>18, <2>3, <2>4
<1>20. ASSUME NEW c \in Calls, AnswerShrink(c)
       PROVE  TypeOK'
  <2>1. c.range \in RangeType /\ c.target \in Addr \union {None}
    BY <1>20, CallsAssumption DEF AnswerShrink, Begin, IsCall
  <2>2. PICK copy : copy = ShrinkCopy(segments, c.range, c.target)
    OBVIOUS
  <2>3. CanWrite(copy) => copy \in SegmentType
    BY <1>1, <2>1, <2>2, ShrinkStored
  <2>4. WriteCopy(copy) /\ call' = c
    BY <1>20, <2>2 DEF AnswerShrink, Begin
  <2>5. QED
    BY <1>3, <1>18, <2>3, <2>4
<1>21. ASSUME NEW c \in Calls, AnswerClearGhost(c)
       PROVE  TypeOK'
  <2>1. c.range \in RangeType
    BY <1>21, CallsAssumption DEF AnswerClearGhost, Begin, IsCall
  <2>2. PICK copy : copy = GhostCopy(segments, c.range)
    OBVIOUS
  <2>3. CanWrite(copy) => copy \in SegmentType
    BY <1>1, <2>1, <2>2, GhostStored
  <2>4. WriteCopy(copy) /\ call' = c
    BY <1>21, <2>2 DEF AnswerClearGhost, Begin
  <2>5. QED
    BY <1>3, <1>18, <2>3, <2>4
<1>22. ASSUME NEW c \in Calls, AnswerScale(c)
       PROVE  TypeOK'
  <2>1. c.by \in Nat
    BY <1>22, CallsAssumption, MaxAddrAssumption DEF AnswerScale, Begin, IsCall, Addr
  <2>2. CanScale(segments, c.by) => Scale(segments, c.by) \in Seq(StoredSegment)
    BY <1>1, <2>1, ScaleStored
  <2>3. QED
    BY <1>3, <1>22, <2>2 DEF AnswerScale, Begin, OkIf, Ok
<1>23. ASSUME NEW c \in Calls, AnswerUnscale(c)
       PROVE  TypeOK'
  <2>1. c.by \in Nat
    BY <1>23, CallsAssumption, MaxAddrAssumption DEF AnswerUnscale, Begin, IsCall, Addr
  <2>2. CanUnscale(segments, c.by) => Unscale(segments, c.by) \in Seq(StoredSegment)
    BY <1>1, <2>1, UnscaleStored
  <2>3. QED
    BY <1>3, <1>23, <2>2 DEF AnswerUnscale, Begin, OkIf, Ok
<1>24. QED
  BY <1>2, <1>4, <1>5, <1>6, <1>7, <1>8, <1>9, <1>10, <1>11, <1>12, <1>13, <1>14, <1>15,
     <1>16, <1>17, <1>19, <1>20, <1>21, <1>22, <1>23 DEF Next

\* Whatever is called, every segment of the file stays non-empty and inside the
\* address space, with a length and an end that fit u32: what the assertion in
\* checked_non_empty_segment asks of each list a method stores (hexfile.rs).
THEOREM TypeCorrectness == Spec => []TypeOK
<1>1. Init => TypeOK
  BY NothingStored DEF Init, TypeOK
<1>2. TypeOK /\ [Next]_vars => TypeOK'
  <2> SUFFICES ASSUME TypeOK, [Next]_vars
               PROVE  TypeOK'
    OBVIOUS
  <2>1. CASE Next
    BY <2>1, TypePreserved
  <2>2. CASE UNCHANGED vars
    BY <2>2 DEF vars, TypeOK
  <2>3. QED
    BY <2>1, <2>2
<1>3. QED
  BY <1>1, <1>2, PTL DEF Spec

-----------------------------------------------------------------------------
(* Contiguous reads and the canonical list *)

\* read_bytes_contiguous, which goes by the normalized list, gives the bytes
\* read_byte finds in the raw one, or None when one is missing or when there
\* are more than a u32 can count (hexfile.rs).
THEOREM ContiguousReads == Spec => []ContiguousReadsAgree
<1>1. TypeOK => ContiguousReadsAgree
  <2> SUFFICES ASSUME TypeOK, NEW a \in Addr, NEW len \in 1..(MaxAddr + 1)
               PROVE  ReadBytesContiguous(segments, a, len) =
                        IF len <= MaxAddr /\ \A k \in a..(a + len - 1) : k \in Covered(segments)
                          THEN [k \in 1..len |-> ReadByte(segments, a + k - 1)]
                          ELSE None
    BY DEF ContiguousReadsAgree
  <2>1. segments \in ListType /\ AllInSpace(segments)
    BY StoredList DEF TypeOK
  <2>2. len \in Nat \ {0}
    BY MaxAddrAssumption
  <2>3. QED
    BY <2>1, <2>2, ReadContiguous
<1>2. QED
  BY <1>1, TypeCorrectness, PTL

\* The end of a maximal run is the only one.
LEMMA RunEndIs ==
  ASSUME segments \in Seq(StoredSegment), NEW s, InSpace(s),
         \A a \in Int : Covers(s, a) => a \in Covered(segments),
         EndAddress(s) + 1 \notin Covered(segments)
  PROVE  RunEnd(s.start) = EndAddress(s)
<1>1. PICK at \in Int, end \in Int : /\ at = s.start /\ end = EndAddress(s) /\ at <= end
                                     /\ \A a \in at..end : Covers(s, a)
  BY SpanInSpace, MaxAddrAssumption DEF Addr
<1>2. \A a \in at..end : a \in Covered(segments)
  BY <1>1
<1> DEFINE IsEnd(e) == at <= e /\ at..e \subseteq Covered(segments) /\ e + 1 \notin Covered(segments)
<1>3. end \in Covered(segments) /\ IsEnd(end)
  BY <1>1, <1>2
<1>4. ASSUME NEW e \in Covered(segments), IsEnd(e)
      PROVE  e = end
  <2>1. e \in Int
    BY MaxAddrAssumption DEF Covered, Addr
  <2>2. ~(e < end)
    <3>1. ASSUME e < end
          PROVE  FALSE
      <4>1. e + 1 \in at..end
        BY <1>4, <2>1, <3>1
      <4>2. QED
        BY <1>2, <1>4, <4>1
    <3>2. QED
      BY <3>1
  <2>3. ~(end < e)
    <3>1. ASSUME end < e
          PROVE  FALSE
      <4>1. end + 1 \in at..e
        BY <1>1, <2>1, <3>1
      <4>2. end + 1 \in Covered(segments)
        BY <1>4, <4>1
      <4>3. QED
        BY <1>1, <4>2
    <3>2. QED
      BY <3>1
  <2>4. QED
    BY <2>1, <2>2, <2>3
<1>5. RunEnd(at) = CHOOSE e \in Covered(segments) : IsEnd(e)
  BY DEF RunEnd
<1> HIDE DEF IsEnd
<1>6. (CHOOSE e \in Covered(segments) : IsEnd(e)) = end
  BY <1>3, <1>4
<1>7. QED
  BY <1>1, <1>5, <1>6

LEMMA RunStartsAre ==
  ASSUME segments \in Seq(StoredSegment), NEW normal, normal = Normalized(segments)
  PROVE  \A a : a \in RunStarts <=> \E n \in 1..Len(normal) : normal[n].start = a
<1>1. segments \in ListType /\ AllInSpace(segments)
  BY StoredList
<1>2. ASSUME NEW n \in 1..Len(normal)
      PROVE  normal[n].start \in RunStarts
  <2>1. PICK s : /\ s = normal[n] /\ InSpace(s)
                 /\ \A a \in Int : Covers(s, a) => a \in Covered(segments)
                 /\ s.start - 1 \notin Covered(segments)
    BY <1>1, NormalRun
  <2>2. s.start \in Int /\ Covers(s, s.start)
    BY <2>1, SpanInSpace, MaxAddrAssumption DEF Addr
  <2>3. QED
    BY <2>1, <2>2 DEF RunStarts
<1>3. ASSUME NEW a \in RunStarts
      PROVE  \E n \in 1..Len(normal) : normal[n].start = a
  <2>1. a \in Covered(segments) /\ a - 1 \notin Covered(segments) /\ a \in Int
    BY MaxAddrAssumption DEF RunStarts, Covered, Addr
  <2>2. PICK n \in 1..Len(normal) : Covers(normal[n], a)
    BY <1>1, <2>1, CoveredByRun
  <2>3. PICK s : /\ s = normal[n] /\ InSpace(s)
                 /\ \A x \in Int : Covers(s, x) => x \in Covered(segments)
    BY <1>1, NormalRun
  <2>4. s.start \in Int /\ EndAddress(s) \in Int
        /\ \A x \in Int : Covers(s, x) <=> s.start <= x /\ x <= EndAddress(s)
    BY <2>3, SpanInSpace, MaxAddrAssumption DEF Addr
  <2>5. s.start <= a /\ a <= EndAddress(s)
    BY <2>1, <2>2, <2>3, <2>4
  <2>6. ~(s.start < a)
    <3>1. ASSUME s.start < a
          PROVE  FALSE
      <4>1. a - 1 \in Int /\ s.start <= a - 1 /\ a - 1 <= EndAddress(s)
        BY <2>1, <2>4, <2>5, <3>1
      <4>2. Covers(s, a - 1)
        BY <2>4, <4>1
      <4>3. QED
        BY <2>1, <2>3, <4>1, <4>2
    <3>2. QED
      BY <3>1
  <2>7. s.start = a
    BY <2>1, <2>4, <2>5, <2>6
  <2>8. QED
    BY <2>3, <2>7
<1>4. QED
  BY <1>2, <1>3

\* The normalized list starts where the maximal runs start, in their order.
LEMMA StartsInOrder ==
  ASSUME segments \in Seq(StoredSegment), NEW normal, normal = Normalized(segments)
  PROVE  AddressesIn(RunStarts) = [n \in 1..Len(normal) |-> normal[n].start]
<1>1. segments \in ListType /\ AllInSpace(segments)
  BY StoredList
<1>2. normal \in ListType /\ AllInSpace(normal) /\ Separated(normal)
  BY <1>1, NormalizedReads
<1>3. PICK N \in Nat : N = Len(normal)
  BY <1>2, LenProperties DEF ListType
<1>4. PICK starts : starts = [n \in 1..N |-> normal[n].start]
  OBVIOUS
<1>5. \A n \in 1..N : starts[n] = normal[n].start /\ starts[n] \in Addr
  <2> SUFFICES ASSUME NEW n \in 1..N
               PROVE  starts[n] = normal[n].start /\ starts[n] \in Addr
    OBVIOUS
  <2>1. PICK s : s = normal[n] /\ InSpace(s)
    BY <1>2, <1>3 DEF AllInSpace
  <2>2. QED
    BY <1>4, <2>1 DEF InSpace
<1>6. starts = [n \in 1..N |-> starts[n]]
  BY <1>4
<1>7. starts \in Seq(Addr) /\ Len(starts) = N
  BY <1>5, <1>6, MadeStored
<1>8. \A m, n \in 1..N : m < n => starts[m] < starts[n]
  <2> SUFFICES ASSUME NEW m \in 1..N, NEW n \in 1..N, m < n
               PROVE  starts[m] < starts[n]
    OBVIOUS
  <2>1. PICK s : s = normal[m] /\ InSpace(s)
    BY <1>2, <1>3 DEF AllInSpace
  <2>2. EndAddress(s) + 1 < starts[n]
    BY <1>2, <1>3, <1>5, <2>1 DEF Separated
  <2>3. s.start \in Int /\ EndAddress(s) \in Int /\ s.start <= EndAddress(s)
    BY <2>1, SpanInSpace, MaxAddrAssumption DEF Addr
  <2>4. starts[n] \in Int
    BY <1>5, MaxAddrAssumption DEF Addr
  <2>5. starts[m] = s.start
    BY <1>5, <2>1
  <2>6. QED
    BY <2>2, <2>3, <2>4, <2>5
<1>9. PICK all : all = AddressesIn(RunStarts)
  OBVIOUS
<1>10. /\ all \in Seq(Addr)
       /\ \A y : IsIn(all, y) <=> y \in RunStarts
       /\ \A m, n \in 1..Len(all) : m < n => all[m] < all[n]
  <2>1. RunStarts \subseteq Addr
    BY DEF RunStarts, Covered
  <2>2. QED
    BY <1>9, <2>1, AddressList
<1>11. \A y : IsIn(all, y) <=> IsIn(starts, y)
  <2>1. \A y : y \in RunStarts <=> \E n \in 1..N : normal[n].start = y
    BY <1>3, RunStartsAre
  <2>2. \A y : IsIn(starts, y) <=> \E n \in 1..N : normal[n].start = y
    BY <1>5, <1>7 DEF IsIn
  <2>3. QED
    BY <1>10, <2>1, <2>2
<1>12. PICK key : key = [x \in Addr |-> x]
  OBVIOUS
<1>13. \A x \in Addr : key[x] \in Int /\ key[x] = x
  BY <1>12, MaxAddrAssumption DEF Addr
<1>14. Increasing(starts, key)
  BY <1>5, <1>7, <1>8, <1>13 DEF Increasing
<1>15. Increasing(all, key)
  <2>1. \A n \in 1..Len(all) : all[n] \in Addr
    BY <1>10, ElementOfSeq
  <2>2. QED
    BY <1>10, <1>13, <2>1 DEF Increasing
<1>16. all = starts
  BY <1>7, <1>10, <1>11, <1>13, <1>14, <1>15, SameElements
<1>17. QED
  BY <1>3, <1>4, <1>9, <1>16

\* One run, read byte by byte, is the segment of the normalized list.
LEMMA RunIs ==
  ASSUME segments \in Seq(StoredSegment), NEW normal, normal = Normalized(segments),
         NEW n \in 1..Len(normal), NEW a, a = normal[n].start
  PROVE  normal[n] = [start |-> a,
                      data |-> [k \in 1..(RunEnd(a) - a + 1) |-> ReadByte(segments, a + k - 1)]]
<1>1. segments \in ListType /\ AllInSpace(segments)
  BY StoredList
<1>2. PICK s : /\ s = normal[n] /\ InSpace(s)
               /\ \A x \in Int : Covers(s, x) =>
                    x \in Covered(segments) /\ ReadByte(segments, x) = ByteAt(s, x)
               /\ EndAddress(s) + 1 \notin Covered(segments)
  BY <1>1, NormalRun
<1>3. RunEnd(a) = EndAddress(s)
  BY <1>2, RunEndIs
<1>4. PICK N \in Nat : N = Len(s.data) /\ s.data \in Seq(Byte)
  BY <1>2, LenProperties DEF InSpace
<1>5. a = s.start /\ a \in Int /\ EndAddress(s) = a + N - 1
  BY <1>2, <1>4, SpanInSpace, MaxAddrAssumption DEF Addr
<1>6. RunEnd(a) - a + 1 = N
  BY <1>3, <1>4, <1>5
<1>7. ASSUME NEW k \in 1..N
      PROVE  ReadByte(segments, a + k - 1) = s.data[k]
  <2>1. a + k - 1 \in Int /\ (a + k - 1) - a + 1 = k
    BY <1>5
  <2>2. Covers(s, a + k - 1)
    <3>1. a <= a + k - 1 /\ a + k - 1 < a + N
      BY <1>5
    <3>2. QED
      BY <1>4, <1>5, <3>1 DEF Covers
  <2>3. QED
    BY <1>2, <1>5, <2>1, <2>2 DEF ByteAt
<1>8. s.data = [k \in 1..N |-> s.data[k]]
  BY <1>4, LenProperties
<1>9. [k \in 1..N |-> ReadByte(segments, a + k - 1)] = [k \in 1..N |-> s.data[k]]
  BY <1>7
<1>10. s = [start |-> a, data |-> s.data]
  BY <1>2, <1>5 DEF InSpace
<1>11. QED
  BY <1>2, <1>6, <1>8, <1>9, <1>10

\* normalized() answers with the maximal runs of the image whichever of its two
\* paths it takes, so files that read alike normalize to the same list.
THEOREM Canonical == Spec => []NormalizedIsCanonical
<1>1. TypeOK => NormalizedIsCanonical
  <2> SUFFICES ASSUME segments \in Seq(StoredSegment), NEW normal, normal = Normalized(segments)
               PROVE  normal = Runs
    BY DEF TypeOK, NormalizedIsCanonical
  <2>1. PICK starts : starts = AddressesIn(RunStarts)
    OBVIOUS
  <2>2. starts = [n \in 1..Len(normal) |-> normal[n].start]
    BY <2>1, StartsInOrder
  <2>3. DOMAIN starts = 1..Len(normal) /\ \A n \in 1..Len(normal) : starts[n] = normal[n].start
    BY <2>2
  <2>4. Runs = [n \in 1..Len(normal) |->
                  [start |-> starts[n],
                   data |-> [k \in 1..(RunEnd(starts[n]) - starts[n] + 1) |->
                               ReadByte(segments, starts[n] + k - 1)]]]
    BY <2>1, <2>3 DEF Runs
  <2>5. \A n \in 1..Len(normal) :
          normal[n] = [start |-> starts[n],
                       data |-> [k \in 1..(RunEnd(starts[n]) - starts[n] + 1) |->
                                   ReadByte(segments, starts[n] + k - 1)]]
    BY <2>3, RunIs
  <2>6. normal = [n \in 1..Len(normal) |-> normal[n]]
    <3>1. normal \in ListType
      BY StoredList, NormalizedReads
    <3>2. QED
      BY <3>1, LenProperties DEF ListType
  <2>7. Runs = [n \in 1..Len(normal) |-> normal[n]]
    BY <2>4, <2>5
  <2>8. QED
    BY <2>6, <2>7
<1>2. QED
  BY <1>1, TypeCorrectness, PTL

-----------------------------------------------------------------------------
(* The sparse image *)

\* The image of a list, address by address.
LEMMA ImageOf ==
  ASSUME NEW list \in Seq(StoredSegment)
  PROVE  /\ Image(list) \in Img!Images
         /\ \A a \in Addr : Image(list)[a] = ReadByte(list, a)
         /\ Img!Addr = Addr
<1>1. list \in ListType /\ AllInSpace(list)
  BY StoredList
<1>2. \A a \in Addr : ReadByte(list, a) \in Byte \union {None}
  BY <1>1, ReadCovered, MaxAddrAssumption DEF Addr
<1>3. QED
  BY <1>2 DEF Image, Img!Images, Img!Addr, Addr

LEMMA UsedIs ==
  ASSUME NEW list \in Seq(StoredSegment)
  PROVE  Img!Used(Image(list)) = Covered(list)
<1>1. \A a \in Addr : Image(list)[a] = ReadByte(list, a)
  BY ImageOf
<1>2. Img!Addr = Addr
  BY ImageOf
<1>3. QED
  BY <1>1, <1>2 DEF Img!Used, Covered

\* Two layers of bytes, one over the other.
LEMMA ImageOver ==
  ASSUME NEW new, NEW top, NEW bottom,
         \A a \in Addr : ReadByte(new, a) = IF top[a] # None THEN top[a] ELSE bottom[a]
  PROVE  Image(new) = Img!Over(top, bottom)
  BY DEF Image, Img!Over, Img!Addr, Addr

LEMMA ImageLayer ==
  ASSUME NEW s \in SegmentType, NEW a \in Addr
  PROVE  Img!Layer(s)[a] = IF Covers(s, a) THEN ByteAt(s, a) ELSE None
  BY DEF Img!Layer, Img!Addr, Addr, Covers, ByteAt

\* What a call that is accepted, and one that is refused, have to do.
LEMMA AnswerAccepted ==
  ASSUME NEW c, call = Idle, call' = c, c.op \notin Img!OnSegments,
         NEW m, m = Image(segments), Img!Accepts(c, m), Image(segments') = Img!Effect(c, m),
         res' = "ok"
  PROVE  Img!Answer(c)
  BY DEF Img!Answer

LEMMA AnswerRefused ==
  ASSUME NEW c, call = Idle, call' = c, c.op \notin Img!OnSegments,
         ~Img!Accepts(c, Image(segments)), Fail
  PROVE  Img!Answer(c)
  BY DEF Img!Answer, Fail

LEMMA AppendEffect ==
  ASSUME NEW list \in Seq(StoredSegment), NEW s \in SegmentType, NEW m, m = Image(list)
  PROVE  /\ Image(AppendSegment(list, s)) = Img!Over(Img!Layer(s), m)
         /\ Image(PrependSegment(list, s)) = Img!Over(m, Img!Layer(s))
<1>1. PICK new, other, top : /\ new = AppendSegment(list, s)
                             /\ other = PrependSegment(list, s)
                             /\ top = Img!Layer(s)
  OBVIOUS
<1>2. \A a \in Addr : /\ m[a] = ReadByte(list, a)
                      /\ top[a] = IF Covers(s, a) THEN ByteAt(s, a) ELSE None
                      /\ Covers(s, a) => ByteAt(s, a) # None
                      /\ a \in Int
  BY <1>1, ImageOf, ImageLayer, SegmentBytes, MaxAddrAssumption DEF Addr
<1>3. \A a \in Int : ReadByte(new, a) =
         IF Covers(s, a) THEN ByteAt(s, a) ELSE ReadByte(list, a)
  BY <1>1, AppendStored
<1>4. \A a \in Int : ReadByte(other, a) =
         IF ReadByte(list, a) # None THEN ReadByte(list, a)
         ELSE IF Covers(s, a) THEN ByteAt(s, a) ELSE None
  BY <1>1, PrependStored
<1>5. Image(new) = Img!Over(top, m)
  BY <1>2, <1>3, ImageOver
<1>6. Image(other) = Img!Over(m, top)
  BY <1>2, <1>4, ImageOver
<1>7. QED
  BY <1>1, <1>5, <1>6

LEMMA AppendAnswer ==
  ASSUME TypeOK, NEW c \in Calls, AnswerAppend(c)
  PROVE  Img!Answer(c)
<1>1. c.op = "append_segment" /\ c.seg \in SegmentType
  BY CallsAssumption DEF AnswerAppend, Begin, IsCall
<1>2. PICK m : m = Image(segments)
  OBVIOUS
<1>3. Image(segments') = Img!Over(Img!Layer(c.seg), m)
  BY <1>1, <1>2, AppendEffect DEF AnswerAppend, Ok, TypeOK
<1>4. Img!Accepts(c, m) /\ Image(segments') = Img!Effect(c, m) /\ c.op \notin Img!OnSegments
  BY <1>1, <1>3 DEF Img!Accepts, Img!Effect, Img!OnSegments
<1>5. QED
  BY <1>2, <1>4, AnswerAccepted DEF AnswerAppend, Begin, Ok

LEMMA PrependAnswer ==
  ASSUME TypeOK, NEW c \in Calls, AnswerPrepend(c)
  PROVE  Img!Answer(c)
<1>1. c.op = "prepend_segment" /\ c.seg \in SegmentType
  BY CallsAssumption DEF AnswerPrepend, Begin, IsCall
<1>2. PICK m : m = Image(segments)
  OBVIOUS
<1>3. Image(segments') = Img!Over(m, Img!Layer(c.seg))
  BY <1>1, <1>2, AppendEffect DEF AnswerPrepend, Ok, TypeOK
<1>4. Img!Accepts(c, m) /\ Image(segments') = Img!Effect(c, m) /\ c.op \notin Img!OnSegments
  BY <1>1, <1>3 DEF Img!Accepts, Img!Effect, Img!OnSegments
<1>5. QED
  BY <1>2, <1>4, AnswerAccepted DEF AnswerPrepend, Begin, Ok

LEMMA WriteAnswer ==
  ASSUME TypeOK, NEW c \in Calls, AnswerWrite(c)
  PROVE  Img!Answer(c)
<1>1. c.op = "write_bytes" /\ c.seg \in [start : Addr, data : Seq(Byte)]
  BY CallsAssumption DEF AnswerWrite, Begin, IsCall
<1>2. PICK m : m = Image(segments)
  OBVIOUS
<1>3. c.op \notin Img!OnSegments
  BY <1>1 DEF Img!OnSegments
<1>4. FitsAt(c.seg.start, Len(c.seg.data)) <=> Img!Accepts(c, m)
  <2>1. PICK x \in Int, l \in Nat : x = c.seg.start /\ l = Len(c.seg.data) /\ x <= MaxAddr
    BY <1>1, LenProperties, MaxAddrAssumption DEF Addr
  <2>2. Img!Accepts(c, m) <=> Img!CanLay(x, l)
    BY <1>1, <2>1 DEF Img!Accepts
  <2>3. Img!CanLay(x, l) <=> FitsAt(x, l)
    BY <2>1, MaxAddrAssumption DEF Img!CanLay, FitsAt
  <2>4. QED
    BY <2>1, <2>2, <2>3
<1>5. CASE FitsAt(c.seg.start, Len(c.seg.data))
  <2>1. c.seg \in SegmentType
    BY <1>1, <1>5 DEF SegmentType
  <2>2. segments' = AppendSegment(segments, c.seg) /\ res' = "ok"
    BY <1>5 DEF AnswerWrite, OkIf, Ok
  <2>3. Image(segments') = Img!Over(Img!Layer(c.seg), m)
    BY <1>2, <2>1, <2>2, AppendEffect DEF TypeOK
  <2>4. Image(segments') = Img!Effect(c, m)
    BY <1>1, <2>3 DEF Img!Effect
  <2>5. QED
    BY <1>2, <1>3, <1>4, <1>5, <2>2, <2>4, AnswerAccepted DEF AnswerWrite, Begin
<1>6. CASE ~FitsAt(c.seg.start, Len(c.seg.data))
  BY <1>2, <1>3, <1>4, <1>6, AnswerRefused DEF AnswerWrite, Begin, OkIf
<1>7. QED
  BY <1>5, <1>6

\* A list that reads alike has the same image.
LEMMA ImageKept ==
  ASSUME NEW list, NEW new, \A a \in Int : ReadByte(new, a) = ReadByte(list, a)
  PROVE  Image(new) = Image(list)
  BY MaxAddrAssumption DEF Image, Addr

LEMMA NormalizeAnswer ==
  ASSUME TypeOK, NEW c \in Calls, AnswerNormalize(c)
  PROVE  Img!Answer(c)
<1>1. c.op = "normalized" /\ segments' = Normalized(segments)
  BY DEF AnswerNormalize, Begin, Ok
<1>2. PICK m : m = Image(segments)
  OBVIOUS
<1>3. Image(segments') = m
  BY <1>1, <1>2, NormalizedStored, ImageKept DEF TypeOK, AnswerNormalize, HasGap
<1>4. Img!Accepts(c, m) /\ Image(segments') = Img!Effect(c, m) /\ c.op \notin Img!OnSegments
  BY <1>1, <1>3 DEF Img!Accepts, Img!Effect, Img!OnSegments
<1>5. QED
  BY <1>2, <1>4, AnswerAccepted DEF AnswerNormalize, Begin, Ok

LEMMA SplitAnswer ==
  ASSUME TypeOK, NEW c \in Calls, AnswerSplit(c)
  PROVE  Img!Answer(c)
<1>1. c.op = "split" /\ segments' = Split(segments, c.size)
  BY DEF AnswerSplit, Begin, Ok
<1>2. PICK m : m = Image(segments)
  OBVIOUS
<1>3. Image(segments') = m
  <2>1. PICK size \in Nat : size = c.size
    BY <1>1, CallsAssumption, MaxAddrAssumption DEF IsCall, Addr
  <2>2. PICK new : new = Split(segments, size)
    OBVIOUS
  <2>3. \A a \in Int : ReadByte(new, a) = ReadByte(segments, a)
    BY <2>1, <2>2, SplitReads DEF TypeOK
  <2>4. QED
    BY <1>1, <1>2, <2>1, <2>2, <2>3, ImageKept
<1>4. Img!Accepts(c, m) /\ Image(segments') = Img!Effect(c, m) /\ c.op \notin Img!OnSegments
  BY <1>1, <1>3 DEF Img!Accepts, Img!Effect, Img!OnSegments
<1>5. QED
  BY <1>2, <1>4, AnswerAccepted DEF AnswerSplit, Begin, Ok

-----------------------------------------------------------------------------
(* Ranges *)

LEMMA InRangeIs ==
  ASSUME NEW r \in RangeType, NEW a \in Addr
  PROVE  Img!InRange(a, r) <=> In(a, r)
  BY RangeFacts, MaxAddrAssumption DEF Img!InRange, In, Addr

LEMMA InSomeIs ==
  ASSUME NEW ranges \in Seq(RangeType), NEW a \in Addr
  PROVE  a \in Img!InSome(ranges) <=> InAny(a, ranges)
<1>1. DOMAIN ranges = 1..Len(ranges) /\ \A n \in 1..Len(ranges) : ranges[n] \in RangeType
  BY LenProperties, ElementOfSeq
<1>2. \A n \in 1..Len(ranges) : Img!InRange(a, ranges[n]) <=> In(a, ranges[n])
  BY <1>1, InRangeIs
<1>3. QED
  BY <1>1, <1>2 DEF Img!InSome, InAny, Img!Addr, Addr

LEMMA ImageOnly ==
  ASSUME NEW new, NEW m, NEW S, S \subseteq Addr,
         \A a \in Addr : ReadByte(new, a) = IF a \in S THEN m[a] ELSE None
  PROVE  Image(new) = Img!Only(m, S)
  BY DEF Image, Img!Only, Img!Addr, Addr

LEMMA FilterEffect ==
  ASSUME NEW list \in Seq(StoredSegment), NEW ranges \in Seq(RangeType), NEW m, m = Image(list)
  PROVE  /\ Image(FilterRanges(list, ranges)) = Img!Only(m, Img!InSome(ranges))
         /\ Image(CutRanges(list, ranges)) = Img!Only(m, Img!Addr \ Img!InSome(ranges))
<1>1. PICK kept, rest, some, others :
        /\ kept = FilterRanges(list, ranges) /\ rest = CutRanges(list, ranges)
        /\ some = Img!InSome(ranges) /\ others = Img!Addr \ some
  OBVIOUS
<1>2. some \subseteq Addr /\ others \subseteq Addr
  BY <1>1 DEF Img!InSome, Img!Addr, Addr
<1>3. \A a \in Addr : /\ a \in some <=> InAny(a, ranges)
                      /\ a \in others <=> ~InAny(a, ranges)
                      /\ m[a] = ReadByte(list, a)
                      /\ a \in Int
  BY <1>1, InSomeIs, ImageOf, MaxAddrAssumption DEF Addr, Img!Addr
<1>4. \A a \in Int : ReadByte(kept, a) = IF InAny(a, ranges) THEN ReadByte(list, a) ELSE None
  BY <1>1, FilterReads
<1>5. \A a \in Int : ReadByte(rest, a) = IF InAny(a, ranges) THEN None ELSE ReadByte(list, a)
  BY <1>1, CutsRead
<1>6. Image(kept) = Img!Only(m, some)
  BY <1>2, <1>3, <1>4, ImageOnly
<1>7. Image(rest) = Img!Only(m, others)
  BY <1>2, <1>3, <1>5, ImageOnly
<1>8. QED
  BY <1>1, <1>6, <1>7

LEMMA FilterAnswer ==
  ASSUME TypeOK, NEW c \in Calls, AnswerFilter(c)
  PROVE  Img!Answer(c)
<1>1. c.op = "filter_ranges" /\ c.ranges \in Seq(RangeType)
      /\ segments' = FilterRanges(segments, c.ranges)
  BY CallsAssumption DEF AnswerFilter, Begin, IsCall, Ok
<1>2. PICK m : m = Image(segments)
  OBVIOUS
<1>3. Image(segments') = Img!Only(m, Img!InSome(c.ranges))
  BY <1>1, <1>2, FilterEffect DEF TypeOK
<1>4. Img!Accepts(c, m) /\ Image(segments') = Img!Effect(c, m) /\ c.op \notin Img!OnSegments
  BY <1>1, <1>3 DEF Img!Accepts, Img!Effect, Img!OnSegments
<1>5. QED
  BY <1>2, <1>4, AnswerAccepted DEF AnswerFilter, Begin, Ok

LEMMA CutAnswer ==
  ASSUME TypeOK, NEW c \in Calls, AnswerCut(c)
  PROVE  Img!Answer(c)
<1>1. c.op = "cut_ranges" /\ c.ranges \in Seq(RangeType)
      /\ segments' = CutRanges(segments, c.ranges)
  BY CallsAssumption DEF AnswerCut, Begin, IsCall, Ok
<1>2. PICK m : m = Image(segments)
  OBVIOUS
<1>3. Image(segments') = Img!Only(m, Img!Addr \ Img!InSome(c.ranges))
  BY <1>1, <1>2, FilterEffect DEF TypeOK
<1>4. Img!Accepts(c, m) /\ Image(segments') = Img!Effect(c, m) /\ c.op \notin Img!OnSegments
  BY <1>1, <1>3 DEF Img!Accepts, Img!Effect, Img!OnSegments
<1>5. QED
  BY <1>2, <1>4, AnswerAccepted DEF AnswerCut, Begin, Ok

-----------------------------------------------------------------------------
(* Filling *)

LEMMA HighestIs ==
  ASSUME NEW n \in Int, NEW S, S \subseteq Int, S # {}, \A x \in S : x <= n
  PROVE  Img!Highest(S) \in S /\ \A x \in S : x <= Img!Highest(S)
<1>1. PICK top : top \in S /\ \A x \in S : x <= top
  BY MaxOf
<1>2. \A x \in S : top >= x
  BY <1>1
<1>3. Img!Highest(S) \in S /\ \A x \in S : Img!Highest(S) >= x
  BY <1>1, <1>2 DEF Img!Highest
<1>4. QED
  BY <1>3

LEMMA LowestIs ==
  ASSUME NEW n \in Int, NEW S, S \subseteq Int, S # {}, \A x \in S : n <= x
  PROVE  Img!Lowest(S) \in S /\ \A x \in S : Img!Lowest(S) <= x
<1>1. PICK low : low \in S /\ \A x \in S : low <= x
  BY MinOf
<1>2. QED
  BY <1>1 DEF Img!Lowest

\* The ranges that fill an address, and the one whose pattern it shows.
Hits(ranges, a) == { n \in DOMAIN ranges : Img!InRange(a, ranges[n]) }

LEMMA HitsAre ==
  ASSUME NEW ranges \in Seq(RangeType), NEW a \in Addr, NEW hits, hits = Hits(ranges, a)
  PROVE  /\ hits = { n \in 1..Len(ranges) : In(a, ranges[n]) }
         /\ hits # {} => /\ Img!Highest(hits) \in hits /\ Img!Lowest(hits) \in hits
                         /\ \A n \in (Img!Highest(hits) + 1)..Len(ranges) : ~In(a, ranges[n])
                         /\ \A n \in 1..(Img!Lowest(hits) - 1) : ~In(a, ranges[n])
<1>1. DOMAIN ranges = 1..Len(ranges) /\ Len(ranges) \in Nat
      /\ \A n \in 1..Len(ranges) : ranges[n] \in RangeType
  BY LenProperties, ElementOfSeq
<1>2. \A n \in 1..Len(ranges) : Img!InRange(a, ranges[n]) <=> In(a, ranges[n])
  BY <1>1, InRangeIs
<1>3. hits = { n \in 1..Len(ranges) : In(a, ranges[n]) }
  BY <1>1, <1>2 DEF Hits
<1>4. ASSUME hits # {}
      PROVE  /\ Img!Highest(hits) \in hits /\ Img!Lowest(hits) \in hits
             /\ \A n \in (Img!Highest(hits) + 1)..Len(ranges) : ~In(a, ranges[n])
             /\ \A n \in 1..(Img!Lowest(hits) - 1) : ~In(a, ranges[n])
  <2>1. /\ hits \subseteq Int /\ Len(ranges) \in Int
        /\ \A x \in hits : x <= Len(ranges) /\ 1 <= x
    BY <1>1, <1>3
  <2>2. PICK hi \in hits : hi = Img!Highest(hits) /\ \A x \in hits : x <= hi
    BY <1>4, <2>1, HighestIs
  <2>3. PICK lo \in hits : lo = Img!Lowest(hits) /\ \A x \in hits : lo <= x
    BY <1>4, <2>1, LowestIs
  <2>4. hi \in 1..Len(ranges) /\ lo \in 1..Len(ranges)
    BY <1>3
  <2>5. \A n \in (hi + 1)..Len(ranges) : n \in 1..Len(ranges) /\ ~(n <= hi)
    BY <1>1, <2>4
  <2>6. \A n \in 1..(lo - 1) : n \in 1..Len(ranges) /\ ~(lo <= n)
    BY <1>1, <2>4
  <2>7. QED
    BY <1>3, <2>2, <2>3, <2>5, <2>6
<1>5. QED
  BY <1>3, <1>4

LastPattern(ranges, pattern) == Img!Patterned(ranges, pattern, Img!Highest)
FirstPattern(ranges, pattern) == Img!Patterned(ranges, pattern, Img!Lowest)

\* What fill_ranges leaves of the ranges, seen through the image.
LEMMA FillEffect ==
  ASSUME NEW list \in Seq(StoredSegment), NEW ranges \in Seq(RangeType),
         AllMaterializable(ranges), NEW pattern \in Seq(Byte), pattern # <<>>,
         NEW overwrite \in BOOLEAN, NEW m, m = Image(list)
  PROVE  Image(FillRanges(list, ranges, pattern, overwrite)) =
           IF overwrite THEN Img!Over(LastPattern(ranges, pattern), m)
           ELSE Img!Over(m, FirstPattern(ranges, pattern))
<1>1. PICK new : new = FillRanges(list, ranges, pattern, overwrite)
  OBVIOUS
<1>2. FilledUpTo(new, list, ranges, Len(ranges), pattern, overwrite)
  BY <1>1, FillsRead
<1>3. ASSUME NEW a \in Addr, NEW hits, hits = Hits(ranges, a)
      PROVE  /\ hits = {} => ReadByte(new, a) = m[a]
             /\ hits # {} /\ overwrite
                  => ReadByte(new, a) = PatternAt(ranges[Img!Highest(hits)], pattern, a)
             /\ hits # {} /\ ~overwrite
                  => ReadByte(new, a) = IF m[a] # None THEN m[a]
                                        ELSE PatternAt(ranges[Img!Lowest(hits)], pattern, a)
             /\ \A n \in hits : PatternAt(ranges[n], pattern, a) # None
  <2>1. a \in Int /\ m[a] = ReadByte(list, a)
    BY ImageOf, MaxAddrAssumption DEF Addr
  <2>2. hits = { n \in 1..Len(ranges) : In(a, ranges[n]) }
    BY <1>3, HitsAre
  <2>3. \A n \in hits : PatternAt(ranges[n], pattern, a) # None
    BY <2>1, <2>2, PatternByte, ElementOfSeq
  <2>4. hits = {} => ReadByte(new, a) = ReadByte(list, a)
    BY <1>2, <2>1, <2>2 DEF FilledUpTo
  <2>5. ASSUME hits # {}, overwrite
        PROVE  ReadByte(new, a) = PatternAt(ranges[Img!Highest(hits)], pattern, a)
    <3>1. PICK n \in 1..Len(ranges) : /\ n = Img!Highest(hits) /\ In(a, ranges[n])
                                      /\ \A l \in (n + 1)..Len(ranges) : ~In(a, ranges[l])
      BY <1>3, <2>2, <2>5, HitsAre
    <3>2. ReadByte(new, a) = PatternAt(ranges[n], pattern, a)
      BY <1>2, <2>1, <2>5, <3>1 DEF FilledUpTo
    <3>3. QED
      BY <3>1, <3>2
  <2>6. ASSUME hits # {}, ~overwrite
        PROVE  ReadByte(new, a) = IF m[a] # None THEN m[a]
                                  ELSE PatternAt(ranges[Img!Lowest(hits)], pattern, a)
    <3>1. PICK n \in 1..Len(ranges) : /\ n = Img!Lowest(hits) /\ In(a, ranges[n])
                                      /\ \A l \in 1..(n - 1) : ~In(a, ranges[l])
      BY <1>3, <2>2, <2>6, HitsAre
    <3>2. ReadByte(list, a) = None => ReadByte(new, a) = PatternAt(ranges[n], pattern, a)
      BY <1>2, <2>1, <2>6, <3>1 DEF FilledUpTo
    <3>3. ReadByte(list, a) # None => ReadByte(new, a) = ReadByte(list, a)
      BY <1>2, <2>1, <2>6 DEF FilledUpTo
    <3>4. QED
      BY <2>1, <3>1, <3>2, <3>3
  <2>7. QED
    BY <2>1, <2>3, <2>4, <2>5, <2>6
<1>4. CASE overwrite
  <2>1. PICK top : top = LastPattern(ranges, pattern)
    OBVIOUS
  <2>2. ASSUME NEW a \in Addr
        PROVE  ReadByte(new, a) = IF top[a] # None THEN top[a] ELSE m[a]
    <3>1. PICK hits : hits = Hits(ranges, a)
      OBVIOUS
    <3>2. top[a] = IF hits = {} THEN None
                   ELSE PatternAt(ranges[Img!Highest(hits)], pattern, a)
      BY <2>1, <3>1 DEF LastPattern, Img!Patterned, PatternAt, Hits, Img!Addr, Addr
    <3>3. hits # {} => Img!Highest(hits) \in hits
      BY <3>1, HitsAre
    <3>4. QED
      BY <1>3, <1>4, <3>1, <3>2, <3>3
  <2>3. Image(new) = Img!Over(top, m)
    BY <2>2, ImageOver
  <2>4. QED
    BY <1>1, <1>4, <2>1, <2>3
<1>5. CASE ~overwrite
  <2>1. PICK bottom : bottom = FirstPattern(ranges, pattern)
    OBVIOUS
  <2>2. ASSUME NEW a \in Addr
        PROVE  ReadByte(new, a) = IF m[a] # None THEN m[a] ELSE bottom[a]
    <3>1. PICK hits : hits = Hits(ranges, a)
      OBVIOUS
    <3>2. bottom[a] = IF hits = {} THEN None
                      ELSE PatternAt(ranges[Img!Lowest(hits)], pattern, a)
      BY <2>1, <3>1 DEF FirstPattern, Img!Patterned, PatternAt, Hits, Img!Addr, Addr
    <3>3. QED
      BY <1>3, <1>5, <3>1, <3>2
  <2>3. Image(new) = Img!Over(m, bottom)
    BY <2>2, ImageOver
  <2>4. QED
    BY <1>1, <1>5, <2>1, <2>3
<1>6. QED
  BY <1>4, <1>5

LEMMA MaterializableIs ==
  ASSUME NEW r \in RangeType
  PROVE  Materializable(r) <=> r.requested <= MaxAddr /\ r.requested - r.start < MaxAddr
<1>1. r.requested \in Int /\ r.start \in Int /\ MaxAddr \in Int
  BY RangeFacts, MaxAddrAssumption
<1>2. QED
  BY <1>1 DEF Materializable, ExtendsPastAddressSpace, RangeLength

LEMMA FillAnswer ==
  ASSUME TypeOK, NEW c \in Calls, AnswerFill(c)
  PROVE  Img!Answer(c)
<1>1. /\ c.op = "fill_ranges" /\ c.ranges \in Seq(RangeType) /\ c.pattern \in Seq(Byte)
      /\ c.overwrite \in BOOLEAN
  BY CallsAssumption DEF AnswerFill, Begin, IsCall
<1>2. PICK m : m = Image(segments)
  OBVIOUS
<1>3. c.op \notin Img!OnSegments
  BY <1>1 DEF Img!OnSegments
<1>4. DOMAIN c.ranges = 1..Len(c.ranges) /\ \A n \in 1..Len(c.ranges) : c.ranges[n] \in RangeType
  BY <1>1, LenProperties, ElementOfSeq
<1>5. CanFill(c.ranges, c.pattern) <=> c.pattern = <<>> \/ AllMaterializable(c.ranges)
  BY <1>4 DEF CanFill, AllMaterializable
<1>6. Img!Accepts(c, m) <=> CanFill(c.ranges, c.pattern)
  <2>1. Img!Accepts(c, m) <=> Img!CanLayOut(c.ranges, c.pattern)
    BY <1>1 DEF Img!Accepts
  <2>2. \A n \in 1..Len(c.ranges) :
          Materializable(c.ranges[n]) <=> /\ c.ranges[n].requested <= MaxAddr
                                          /\ c.ranges[n].requested - c.ranges[n].start < MaxAddr
    BY <1>4, MaterializableIs
  <2>3. Img!CanLayOut(c.ranges, c.pattern) <=> c.pattern = <<>> \/ AllMaterializable(c.ranges)
    BY <1>4, <2>2 DEF Img!CanLayOut, AllMaterializable
  <2>4. QED
    BY <1>5, <2>1, <2>3
<1>7. Img!Effect(c, m) = Img!Filled(m, c)
  BY <1>1 DEF Img!Effect
<1>8. PICK new : new = FillRanges(segments, c.ranges, c.pattern, c.overwrite)
  OBVIOUS
<1>9. CanFill(c.ranges, c.pattern) => Image(new) = Img!Filled(m, c)
  <2>1. CASE c.pattern = <<>>
    BY <1>2, <1>8, <2>1 DEF FillRanges, Img!Filled
  <2>2. CASE c.pattern # <<>> /\ AllMaterializable(c.ranges)
    <3>1. Image(new) = IF c.overwrite THEN Img!Over(LastPattern(c.ranges, c.pattern), m)
                       ELSE Img!Over(m, FirstPattern(c.ranges, c.pattern))
      BY <1>1, <1>2, <1>8, <2>2, FillEffect DEF TypeOK
    <3>2. QED
      BY <2>2, <3>1 DEF Img!Filled, LastPattern, FirstPattern
  <2>3. QED
    BY <1>5, <2>1, <2>2
<1>10. call = Idle /\ call' = c
  BY DEF AnswerFill, Begin
<1>11. OkIf(CanFill(c.ranges, c.pattern), new)
  BY <1>8 DEF AnswerFill
<1>12. CASE CanFill(c.ranges, c.pattern)
  BY <1>2, <1>3, <1>6, <1>7, <1>9, <1>10, <1>11, <1>12, AnswerAccepted DEF OkIf, Ok
<1>13. CASE ~CanFill(c.ranges, c.pattern)
  BY <1>2, <1>3, <1>6, <1>10, <1>11, <1>13, AnswerRefused DEF OkIf
<1>14. QED
  BY <1>12, <1>13

-----------------------------------------------------------------------------
(* Filling the whole span *)

LEMMA SpanIs ==
  ASSUME NEW list \in Seq(StoredSegment), list # <<>>, NEW m, m = Image(list),
         NEW lo, lo = MinAddress(Normalized(list)), NEW hi, hi = MaxAddress(Normalized(list))
  PROVE  /\ Img!Used(m) = Covered(list) /\ Img!Used(m) # {}
         /\ lo \in Addr /\ hi \in Addr /\ lo <= hi
         /\ Img!Span(m) = lo..hi
         /\ SpanLength(list) = hi - lo + 1
         /\ Cardinality(Img!Span(m)) = hi - lo + 1
<1>1. /\ lo \in Covered(list) /\ hi \in Covered(list) /\ lo <= hi
      /\ \A a \in Covered(list) : lo <= a /\ a <= hi
  BY NormalBounds
<1>2. Img!Used(m) = Covered(list) /\ Covered(list) \subseteq Addr /\ Addr \subseteq Int
  BY UsedIs, MaxAddrAssumption DEF Covered, Addr
<1>3. lo \in Int /\ hi \in Int
  BY <1>1, <1>2
<1>4. Img!Lowest(Img!Used(m)) = lo
  <2>1. PICK low : low = Img!Lowest(Img!Used(m))
    OBVIOUS
  <2>2. low \in Covered(list) /\ \A x \in Covered(list) : low <= x
    BY <1>1, <1>2, <1>3, <2>1, LowestIs
  <2>3. low \in Int /\ low <= lo /\ lo <= low
    BY <1>1, <1>2, <2>2
  <2>4. QED
    BY <1>3, <2>1, <2>3
<1>5. Img!Highest(Img!Used(m)) = hi
  <2>1. PICK high : high = Img!Highest(Img!Used(m))
    OBVIOUS
  <2>2. high \in Covered(list) /\ \A x \in Covered(list) : x <= high
    BY <1>1, <1>2, <1>3, <2>1, HighestIs
  <2>3. high \in Int /\ high <= hi /\ hi <= high
    BY <1>1, <1>2, <2>2
  <2>4. QED
    BY <1>3, <2>1, <2>3
<1>6. Img!Span(m) = lo..hi
  BY <1>4, <1>5 DEF Img!Span
<1>7. SpanLength(list) = hi - lo + 1
  BY DEF SpanLength
<1>8. Cardinality(lo..hi) = hi - lo + 1
  BY <1>1, <1>3, FS_Interval
<1>9. QED
  BY <1>1, <1>2, <1>6, <1>7, <1>8

LEMMA SameCardinality ==
  ASSUME NEW S
  PROVE  Img!Cardinality(S) = Cardinality(S)
  BY DEF Img!Cardinality, Cardinality, Img!IsFiniteSet, IsFiniteSet

LEMMA NothingUsed ==
  ASSUME NEW m, m = Image(<<>>)
  PROVE  Img!Used(m) = {}
<1>1. \A a \in Addr : m[a] = None
  BY ReadEmpty, MaxAddrAssumption DEF Image, Addr
<1>2. QED
  BY <1>1 DEF Img!Used, Img!Addr, Addr

LEMMA FillGapsAnswer ==
  ASSUME TypeOK, NEW c \in Calls, AnswerFillGaps(c)
  PROVE  Img!Answer(c)
<1>1. c.op = "fill_gaps" /\ c.limit \in Addr /\ c.byte \in Byte
  BY CallsAssumption DEF AnswerFillGaps, Begin, IsCall
<1>2. PICK m : m = Image(segments)
  OBVIOUS
<1>3. /\ c.op \notin Img!OnSegments
      /\ Img!Accepts(c, m) <=> Img!SpanAtMost(m, c.limit)
      /\ Img!Effect(c, m) = Img!FilledSpan(m, c.byte)
  BY <1>1 DEF Img!OnSegments, Img!Accepts, Img!Effect
<1>4. PICK new : new = FillGaps(segments, c.byte)
  OBVIOUS
<1>5. /\ call = Idle /\ call' = c
      /\ OkIf(CanFillGaps(segments, c.limit), new)
  BY <1>4 DEF AnswerFillGaps, Begin
<1>6. segments \in Seq(StoredSegment)
  BY DEF TypeOK
<1>7. CASE segments = <<>>
  <2>1. Img!Used(m) = {} /\ new = segments
    BY <1>2, <1>4, <1>7, NothingUsed DEF FillGaps
  <2>2. CanFillGaps(segments, c.limit) /\ Img!Accepts(c, m) /\ Image(new) = Img!Effect(c, m)
    BY <1>2, <1>3, <1>7, <2>1 DEF CanFillGaps, Img!SpanAtMost, Img!FilledSpan
  <2>3. QED
    BY <1>2, <1>3, <1>5, <2>2, AnswerAccepted DEF OkIf, Ok
<1>8. CASE segments # <<>>
  <2>1. PICK lo, hi : lo = MinAddress(Normalized(segments)) /\ hi = MaxAddress(Normalized(segments))
    OBVIOUS
  <2>2. /\ Img!Used(m) # {} /\ Img!Span(m) = lo..hi
        /\ SpanLength(segments) = Cardinality(Img!Span(m))
        /\ lo \in Int /\ hi \in Int /\ SpanLength(segments) = hi - lo + 1
    BY <1>2, <1>6, <1>8, <2>1, SpanIs, MaxAddrAssumption DEF Addr
  <2>3. CanFillGaps(segments, c.limit) <=> Img!Accepts(c, m)
    BY <1>3, <1>8, <2>2, SameCardinality DEF CanFillGaps, Img!SpanAtMost
  <2>4. ASSUME CanFillGaps(segments, c.limit)
        PROVE  Image(new) = Img!Effect(c, m)
    <3>1. SpanLength(segments) <= MaxAddr
      <4>1. SpanLength(segments) <= c.limit
        BY <1>8, <2>4 DEF CanFillGaps
      <4>2. SpanLength(segments) \in Int /\ c.limit \in Int /\ c.limit <= MaxAddr
        BY <1>1, <2>2, MaxAddrAssumption DEF Addr
      <4>3. QED
        BY <4>1, <4>2, MaxAddrAssumption
    <3>2. DenseFrom(new, segments, c.byte, lo, hi)
      BY <1>1, <1>4, <1>6, <1>8, <2>1, <3>1, DenseReads
    <3>3. \A a \in Addr : /\ a \in Int /\ m[a] = ReadByte(segments, a)
                          /\ a \in lo..hi <=> lo <= a /\ a <= hi
      BY <1>2, <1>6, <2>2, ImageOf, MaxAddrAssumption DEF Addr
    <3>4. \A a \in Addr : ReadByte(new, a) =
            IF a \in lo..hi /\ m[a] = None THEN c.byte ELSE m[a]
      BY <3>2, <3>3 DEF DenseFrom
    <3>5. Image(new) = Img!FilledSpan(m, c.byte)
      BY <2>2, <3>4 DEF Image, Img!FilledSpan, Img!Addr, Addr
    <3>6. QED
      BY <1>3, <3>5
  <2>5. CASE CanFillGaps(segments, c.limit)
    BY <1>2, <1>3, <1>5, <2>3, <2>4, <2>5, AnswerAccepted DEF OkIf, Ok
  <2>6. CASE ~CanFillGaps(segments, c.limit)
    BY <1>2, <1>3, <1>5, <2>3, <2>6, AnswerRefused DEF OkIf
  <2>7. QED
    BY <2>5, <2>6
<1>9. QED
  BY <1>7, <1>8

-----------------------------------------------------------------------------
(* Offsets and merges *)

\* Segments can be moved exactly when every byte they show can.
LEMMA CanMoveIs ==
  ASSUME NEW list \in Seq(StoredSegment), NEW k \in Int, NEW m, m = Image(list)
  PROVE  CanOffset(list, k) <=> Img!CanMove(m, k)
<1>1. list \in ListType /\ AllInSpace(list) /\ DOMAIN list = 1..Len(list)
  BY StoredList, LenProperties
<1>2. \A n \in 1..Len(list) : ~IsEmpty(list[n])
  BY ElementOfSeq DEF StoredSegment
<1>3. \A n \in 1..Len(list) :
        /\ list[n].start \in Int /\ EndAddress(list[n]) \in Int
        /\ list[n].start \in Addr /\ EndAddress(list[n]) \in Addr
        /\ list[n].start <= EndAddress(list[n])
        /\ \A a \in Int : Covers(list[n], a) <=> list[n].start <= a /\ a <= EndAddress(list[n])
  BY <1>1, SpanInSpace, MaxAddrAssumption DEF AllInSpace, Addr
<1>4. \A a : a \in Img!Used(m) <=> a \in Addr /\ \E n \in 1..Len(list) : Covers(list[n], a)
  <2>1. Img!Used(m) = Covered(list) /\ Covered(list) \subseteq Addr /\ Addr \subseteq Int
    BY UsedIs, MaxAddrAssumption DEF Covered, Addr
  <2>2. \A a \in Addr : a \in Covered(list) <=> \E n \in 1..Len(list) : Covers(list[n], a)
    BY <1>1, <2>1, CoveredIs, ReadCovered
  <2>3. QED
    BY <2>1, <2>2
<1>5. CanOffset(list, k) <=> \A n \in 1..Len(list) : /\ list[n].start + k \in Addr
                                                     /\ EndAddress(list[n]) + k <= MaxAddr
  BY <1>1, <1>2 DEF CanOffset
<1>6. Img!CanMove(m, k) <=> \A a \in Img!Used(m) : a + k \in Addr
  BY DEF Img!CanMove, Img!Addr, Addr
<1>7. ASSUME CanOffset(list, k), NEW a \in Img!Used(m)
      PROVE  a + k \in Addr
  <2>1. PICK n \in 1..Len(list) : a \in Addr /\ Covers(list[n], a)
    BY <1>4, <1>7
  <2>2. PICK x \in Int, y \in Int : /\ x = list[n].start /\ y = EndAddress(list[n])
                                    /\ x <= a /\ a <= y
    BY <2>1, <1>3, MaxAddrAssumption DEF Addr
  <2>3. x + k \in Addr /\ y + k <= MaxAddr
    BY <1>5, <1>7, <2>2
  <2>4. QED
    BY <2>1, <2>2, <2>3, MaxAddrAssumption DEF Addr
<1>8. ASSUME \A a \in Img!Used(m) : a + k \in Addr, NEW n \in 1..Len(list)
      PROVE  list[n].start + k \in Addr /\ EndAddress(list[n]) + k <= MaxAddr
  <2>1. list[n].start \in Img!Used(m) /\ EndAddress(list[n]) \in Img!Used(m)
    BY <1>3, <1>4
  <2>2. EndAddress(list[n]) + k \in Addr /\ list[n].start + k \in Addr
    BY <1>8, <2>1
  <2>3. QED
    BY <2>2, MaxAddrAssumption DEF Addr
<1>9. QED
  BY <1>5, <1>6, <1>7, <1>8

LEMMA MovedIs ==
  ASSUME NEW list \in Seq(StoredSegment), NEW k \in Int, CanOffset(list, k), NEW m, m = Image(list)
  PROVE  Image(OffsetAddresses(list, k)) = Img!Moved(m, k)
<1>1. PICK new : new = OffsetAddresses(list, k)
  OBVIOUS
<1>2. list \in ListType /\ AllInSpace(list)
  BY StoredList
<1>3. ASSUME NEW a \in Addr
      PROVE  ReadByte(new, a) = IF a - k \in Addr THEN m[a - k] ELSE None
  <2>1. PICK x \in Int : x = a - k /\ a \in Int
    BY MaxAddrAssumption DEF Addr
  <2>2. ReadByte(new, a) = ReadByte(list, x)
    BY <1>1, <2>1, OffsetReads
  <2>3. x \in Addr => m[x] = ReadByte(list, x)
    BY ImageOf
  <2>4. x \notin Addr => ReadByte(list, x) = None
    BY <1>2, ReadCovered
  <2>5. QED
    BY <2>1, <2>2, <2>3, <2>4
<1>4. QED
  BY <1>1, <1>3 DEF Image, Img!Moved, Img!Addr, Addr

LEMMA OffsetAnswer ==
  ASSUME TypeOK, NEW c \in Calls, AnswerOffset(c)
  PROVE  Img!Answer(c)
<1>1. c.op = "offset_addresses" /\ c.offset \in Int
  BY CallsAssumption DEF AnswerOffset, Begin, IsCall
<1>2. PICK m : m = Image(segments)
  OBVIOUS
<1>3. /\ c.op \notin Img!OnSegments
      /\ Img!Accepts(c, m) <=> Img!CanMove(m, c.offset)
      /\ Img!Effect(c, m) = Img!Moved(m, c.offset)
  BY <1>1 DEF Img!OnSegments, Img!Accepts, Img!Effect
<1>4. PICK new : new = OffsetAddresses(segments, c.offset)
  OBVIOUS
<1>5. call = Idle /\ call' = c /\ OkIf(CanOffset(segments, c.offset), new)
  BY <1>4 DEF AnswerOffset, Begin
<1>6. CanOffset(segments, c.offset) <=> Img!Accepts(c, m)
  BY <1>1, <1>2, <1>3, CanMoveIs DEF TypeOK
<1>7. CanOffset(segments, c.offset) => Image(new) = Img!Effect(c, m)
  BY <1>1, <1>2, <1>3, <1>4, MovedIs DEF TypeOK
<1>8. CASE CanOffset(segments, c.offset)
  BY <1>2, <1>3, <1>5, <1>6, <1>7, <1>8, AnswerAccepted DEF OkIf, Ok
<1>9. CASE ~CanOffset(segments, c.offset)
  BY <1>2, <1>3, <1>5, <1>6, <1>9, AnswerRefused DEF OkIf
<1>10. QED
  BY <1>8, <1>9

\* Where segments agree, the first of those that cover an address gives the byte
\* that is read there.
LEMMA FirstIsRead ==
  ASSUME NEW list \in Seq(StoredSegment), Unambiguous(list), NEW a \in Addr,
         NEW b, b = ReadByte(list, a), b # None
  PROVE  FirstWins(list, Len(list), a, b)
<1>1. /\ list \in ListType /\ AllInSpace(list) /\ DOMAIN list = 1..Len(list)
      /\ Len(list) \in Nat /\ a \in Int
  BY StoredList, LenProperties, MaxAddrAssumption DEF Addr
<1>2. \E n \in 1..Len(list) : Covers(list[n], a)
  BY <1>1, ReadCovered
<1>3. LastWins(list, Len(list), a, b)
  BY <1>1, <1>2, ReadIsLastWins
<1>4. PICK last \in 1..Len(list) : Has(list[last], a, b)
  BY <1>3 DEF LastWins
<1> DEFINE hits == {n \in 1..Len(list) : Covers(list[n], a)}
<1>5. PICK first \in hits : \A n \in hits : first <= n
  <2>1. hits \subseteq Nat /\ hits # {}
    BY <1>1, <1>2
  <2>2. QED
    BY <2>1, LeastElement
<1>6. Covers(list[first], a) /\ Covers(list[last], a) /\ ByteAt(list[last], a) = b
  BY <1>4, <1>5 DEF Has
<1>7. ByteAt(list[first], a) = b
  BY <1>1, <1>6 DEF Unambiguous
<1>8. \A l \in 1..(first - 1) : ~Covers(list[l], a)
  <2>1. \A l \in 1..(first - 1) : l \in 1..Len(list) /\ ~(first <= l)
    BY <1>1, <1>5
  <2>2. QED
    BY <1>5, <2>1
<1>9. QED
  BY <1>5, <1>6, <1>7, <1>8 DEF FirstWins, Has

\* Moved as a whole, segments agree as before.
LEMMA MovedUnambiguous ==
  ASSUME NEW list \in Seq(StoredSegment), Unambiguous(list), NEW k \in Int, CanOffset(list, k),
         NEW new, new = OffsetAddresses(list, k)
  PROVE  Unambiguous(new)
<1>1. /\ new \in Seq(StoredSegment) /\ Len(new) = Len(list)
      /\ \A a \in Int : AgreeAt(new, a, list, a - k)
  BY OffsetReads
<1>2. DOMAIN new = 1..Len(list) /\ DOMAIN list = 1..Len(list) /\ AllInSpace(list)
  BY <1>1, LenProperties, StoredList
<1> SUFFICES ASSUME NEW m \in 1..Len(list), NEW n \in 1..Len(list), NEW a \in Addr,
                    Covers(new[m], a), Covers(new[n], a)
             PROVE  ByteAt(new[m], a) = ByteAt(new[n], a)
  BY <1>2 DEF Unambiguous
<1>3. PICK x \in Int : x = a - k /\ a \in Int
  BY MaxAddrAssumption DEF Addr
<1>4. /\ Covers(list[m], x) /\ Covers(list[n], x)
      /\ ByteAt(new[m], a) = ByteAt(list[m], x) /\ ByteAt(new[n], a) = ByteAt(list[n], x)
  BY <1>1, <1>3 DEF AgreeAt
<1>5. x \in Addr
  BY <1>2, <1>4, CoveredByte DEF AllInSpace
<1>6. QED
  BY <1>2, <1>4, <1>5 DEF Unambiguous

LEMMA MergeEffect ==
  ASSUME NEW list \in Seq(StoredSegment), NEW other \in Seq(StoredSegment),
         NEW mode \in {"Overwrite", "Preserve"}, mode = "Preserve" => Unambiguous(other)
  PROVE  Image(MergeSegments(list, other, mode)) =
           IF mode = "Overwrite" THEN Img!Over(Image(other), Image(list))
           ELSE Img!Over(Image(list), Image(other))
<1>1. PICK new, m, top : /\ new = MergeSegments(list, other, mode)
                         /\ m = Image(list) /\ top = Image(other)
  OBVIOUS
<1>2. /\ list \in ListType /\ AllInSpace(list) /\ other \in ListType /\ AllInSpace(other)
      /\ \A a \in Addr : m[a] = ReadByte(list, a) /\ top[a] = ReadByte(other, a) /\ a \in Int
  BY <1>1, StoredList, ImageOf, MaxAddrAssumption DEF Addr
<1>3. CASE mode = "Overwrite"
  <2>1. ReadsFirst(new, other, list)
    BY <1>1, <1>3, OverwriteReads
  <2>2. \A a \in Addr : ReadByte(new, a) = IF top[a] # None THEN top[a] ELSE m[a]
    BY <1>2, <2>1 DEF ReadsFirst
  <2>3. Image(new) = Img!Over(top, m)
    BY <2>2, ImageOver
  <2>4. QED
    BY <1>1, <1>3, <2>3
<1>4. CASE mode = "Preserve"
  <2>1. ASSUME NEW a \in Addr
        PROVE  ReadByte(new, a) = IF m[a] # None THEN m[a] ELSE top[a]
    <3>1. a \in Int /\ m[a] = ReadByte(list, a) /\ top[a] = ReadByte(other, a)
      BY <1>2
    <3>2. /\ ReadByte(list, a) # None \/ (\A n \in 1..Len(other) : ~Covers(other[n], a))
               => ReadByte(new, a) = ReadByte(list, a)
          /\ \A b : ReadByte(list, a) = None /\ FirstWins(other, Len(other), a, b)
               => ReadByte(new, a) = b
      <4>1. FreeTaken(new, list, other)
        BY <1>1, <1>4, PreserveReads
      <4>2. QED
        BY <4>1, <3>1 DEF FreeTaken
    <3>3. CASE m[a] # None
      BY <3>1, <3>2, <3>3
    <3>4. CASE m[a] = None /\ top[a] = None
      <4>1. \A n \in 1..Len(other) : ~Covers(other[n], a)
        BY <1>2, <3>1, <3>4, ReadCovered
      <4>2. QED
        BY <3>1, <3>2, <3>4, <4>1
    <3>5. CASE m[a] = None /\ top[a] # None
      <4>1. FirstWins(other, Len(other), a, top[a])
        BY <1>4, <3>1, <3>5, FirstIsRead
      <4>2. QED
        BY <3>1, <3>2, <3>5, <4>1
    <3>6. QED
      BY <3>3, <3>4, <3>5
  <2>2. Image(new) = Img!Over(m, top)
    BY <2>1, ImageOver
  <2>3. QED
    BY <1>1, <1>4, <2>2
<1>5. QED
  BY <1>3, <1>4

LEMMA MergeAnswer ==
  ASSUME TypeOK, MergesUnambiguous, NEW c \in Calls, AnswerMerge(c)
  PROVE  Img!Answer(c)
<1>1. /\ c.op = "merge" /\ c.ranges \in Seq(RangeType) /\ c.other \in Seq(StoredSegment)
      /\ c.image = Image(c.other) /\ c.mode \in {"Overwrite", "Preserve"} /\ c.offset \in Int
  BY CallsAssumption DEF AnswerMerge, Begin, IsCall
<1>2. PICK m : m = Image(segments)
  OBVIOUS
<1>3. /\ c.op \notin Img!OnSegments
      /\ Img!Accepts(c, m) <=> Img!CanMove(Img!Source(c), c.offset)
      /\ Img!Effect(c, m) = Img!Merged(m, c)
  BY <1>1 DEF Img!OnSegments, Img!Accepts, Img!Effect
<1>4. PICK source \in Seq(StoredSegment) : source = MergeSource(c.other, c.ranges)
  BY <1>1, FilterReads DEF MergeSource
<1>5. Image(source) = Img!Source(c)
  BY <1>1, <1>4, FilterEffect DEF MergeSource, Img!Source
<1>6. PICK moved, new : /\ moved = OffsetAddresses(source, c.offset)
                        /\ new = MergeSegments(segments, moved, c.mode)
  OBVIOUS
<1>7. /\ call = Idle /\ call' = c
      /\ OkIf(c.offset = 0 \/ CanOffset(source, c.offset), new)
  BY <1>4, <1>6 DEF AnswerMerge, Begin
<1>8. CanOffset(source, c.offset) <=> c.offset = 0 \/ CanOffset(source, c.offset)
  BY <1>4, CanMoveByZero
<1>9. CanOffset(source, c.offset) <=> Img!Accepts(c, m)
  BY <1>1, <1>3, <1>4, <1>5, CanMoveIs
<1>10. ASSUME CanOffset(source, c.offset)
       PROVE  Image(new) = Img!Effect(c, m)
  <2>1. moved \in Seq(StoredSegment) /\ Image(moved) = Img!Moved(Img!Source(c), c.offset)
    BY <1>1, <1>4, <1>5, <1>6, <1>10, MovedIs, OffsetReads
  <2>2. c.mode = "Preserve" => Unambiguous(moved)
    <3>1. c.mode = "Preserve" => Unambiguous(source)
      BY <1>1, <1>4 DEF MergesUnambiguous
    <3>2. QED
      BY <1>1, <1>4, <1>6, <1>10, <3>1, MovedUnambiguous
  <2>3. Image(new) = IF c.mode = "Overwrite" THEN Img!Over(Image(moved), m)
                     ELSE Img!Over(m, Image(moved))
    <3>1. PICK mode \in {"Overwrite", "Preserve"} : mode = c.mode
      BY <1>1
    <3>2. QED
      BY <1>2, <1>6, <2>1, <2>2, <3>1, MergeEffect DEF TypeOK
  <2>4. QED
    BY <1>3, <2>1, <2>3 DEF Img!Merged
<1>11. CASE CanOffset(source, c.offset)
  BY <1>2, <1>3, <1>7, <1>8, <1>9, <1>10, <1>11, AnswerAccepted DEF OkIf, Ok
<1>12. CASE ~CanOffset(source, c.offset)
  BY <1>2, <1>3, <1>7, <1>8, <1>9, <1>12, AnswerRefused DEF OkIf
<1>13. QED
  BY <1>11, <1>12

-----------------------------------------------------------------------------
(* Alignment *)

\* A byte of padding is one whose block of the alignment has bytes above it or,
\* with length set, below it, when the block ends at an address.
PadsIn(list, alignment, length, a) ==
  LET first == AlignDown(a, alignment)
  IN \E x \in Covered(list) :
       /\ first <= x /\ x < first + alignment
       /\ \/ a < x
          \/ length /\ x < a /\ first + alignment <= MaxAddr

LEMMA PadsIs ==
  ASSUME NEW list \in Seq(StoredSegment), NEW m, m = Image(list), NEW c,
         c.alignment \in Nat \ {0}, NEW a \in Addr
  PROVE  Img!Pads(m, c, a) <=> PadsIn(list, c.alignment, c.length, a)
<1>1. PICK used, first, block :
        /\ used = Covered(list) /\ first = AlignDown(a, c.alignment)
        /\ block = Img!Block(a, c.alignment)
  OBVIOUS
<1>2. Img!Used(m) = used /\ used \subseteq Addr
  BY <1>1, UsedIs DEF Covered
<1>3. block = { x \in Addr : first <= x /\ x < first + c.alignment }
  BY <1>1 DEF Img!Block, Img!Addr, Addr, AlignDown
<1>4. Img!Pads(m, c, a) <=> \/ \E x \in block \intersect used : a < x
                            \/ /\ c.length
                               /\ \E x \in block \intersect used : x < a
                               /\ first + c.alignment <= MaxAddr
  BY <1>1, <1>2 DEF Img!Pads, AlignDown
<1>5. PadsIn(list, c.alignment, c.length, a) <=>
        \E x \in used : /\ first <= x /\ x < first + c.alignment
                        /\ \/ a < x
                           \/ c.length /\ x < a /\ first + c.alignment <= MaxAddr
  BY <1>1 DEF PadsIn
<1>6. \A x : x \in block \intersect used <=> x \in used /\ first <= x /\ x < first + c.alignment
  BY <1>2, <1>3
<1>7. QED
  BY <1>4, <1>5, <1>6

\* Addresses of one block are rounded down to its first.
LEMMA DownIs ==
  ASSUME NEW a \in Nat, NEW al \in Nat \ {0}
  PROVE  /\ AlignDown(a, al) \in Nat
         /\ AlignDown(a, al) <= a
         /\ a < AlignDown(a, al) + al
  BY RoundedDown DEF AlignDown

LEMMA SameDown ==
  ASSUME NEW a \in Nat, NEW x \in Nat, NEW al \in Nat \ {0},
         AlignDown(a, al) <= x, x < AlignDown(a, al) + al
  PROVE  AlignDown(x, al) = AlignDown(a, al)
  BY SameMultiple DEF AlignDown

LEMMA UpIs ==
  ASSUME NEW x \in Nat, NEW al \in Nat \ {0}, NEW down, down = AlignDown(x, al)
  PROVE  AlignUp(x, al) = IF down = x \/ down + al > MaxAddr THEN x ELSE down + al
<1>1. PICK r \in Nat : r = x % al
  BY RoundedDown
<1>2. down = x - r
  BY <1>1 DEF AlignDown
<1>3. AlignUp(x, al) = IF r = 0 \/ x + (al - r) > MaxAddr THEN x ELSE x + (al - r)
  BY <1>1 DEF AlignUp
<1>4. x + (al - r) = down + al /\ (down = x <=> r = 0)
  BY ONLY <1>1, <1>2
<1>5. QED
  BY <1>3, <1>4

\* The padding of a run at .. end below it, and above it, lies in the block of
\* its start, and of its end.
PadsBelow(at, al, a) == AlignDown(at, al) <= a /\ a < at
PadsAbove(end, al, a) == end < a /\ a < AlignUp(end + 1, al)

BlockBelow(at, al, a, first) == a < at /\ first <= at /\ at < first + al
BlockAbove(end, al, a, first) ==
  end < a /\ first <= end /\ end < first + al /\ first + al <= MaxAddr

LEMMA PadBelowBlock ==
  ASSUME NEW at \in Nat, NEW al \in Nat \ {0}, NEW a \in Nat,
         NEW first, first = AlignDown(a, al)
  PROVE  PadsBelow(at, al, a) <=> BlockBelow(at, al, a, first)
<1>1. PICK down : down = AlignDown(at, al)
  OBVIOUS
<1>2. /\ first \in Nat /\ first <= a /\ a < first + al
      /\ down \in Nat /\ down <= at /\ at < down + al
  BY <1>1, DownIs
<1>3. ASSUME down <= a, a < at
      PROVE  first <= at /\ at < first + al
  <2>1. a < down + al
    BY <1>2, <1>3
  <2>2. first = down
    BY <1>1, <1>3, <2>1, SameDown
  <2>3. QED
    BY <1>2, <2>2
<1>4. ASSUME first <= at, at < first + al
      PROVE  down <= a
  <2>1. down = first
    BY <1>1, <1>4, SameDown
  <2>2. QED
    BY <1>2, <2>1
<1>5. QED
  BY <1>1, <1>3, <1>4 DEF BlockBelow, PadsBelow

LEMMA PadAboveBlock ==
  ASSUME NEW end \in Nat, NEW al \in Nat \ {0}, NEW a \in Nat,
         NEW first, first = AlignDown(a, al)
  PROVE  PadsAbove(end, al, a) <=> BlockAbove(end, al, a, first)
<1>1. PICK v \in Nat : v = end + 1
  OBVIOUS
<1>2. PICK low : low = AlignDown(v, al)
  OBVIOUS
<1>3. /\ first \in Nat /\ first <= a /\ a < first + al
      /\ low \in Nat /\ low <= v /\ v < low + al
  BY <1>2, DownIs
<1>4. PICK up : /\ up = AlignUp(v, al)
                /\ up = IF low = v \/ low + al > MaxAddr THEN v ELSE low + al
  BY <1>2, UpIs
<1>5. ASSUME end < a, a < up
      PROVE  first <= end /\ end < first + al /\ first + al <= MaxAddr
  <2>1. v <= a
    BY <1>1, <1>5
  <2>2. low # v /\ ~(low + al > MaxAddr) /\ a < low + al
    BY <1>1, <1>4, <1>5, <2>1
  <2>3. low <= a
    BY <1>3, <2>1
  <2>4. first = low
    BY <1>2, <2>2, <2>3, SameDown
  <2>5. QED
    BY <1>1, <1>3, <2>2, <2>4, MaxAddrAssumption
<1>6. ASSUME end < a, first <= end, end < first + al, first + al <= MaxAddr
      PROVE  a < up
  <2>1. first <= v /\ v < first + al /\ v # first
    BY <1>1, <1>3, <1>6
  <2>2. low = first
    BY <1>2, <2>1, SameDown
  <2>3. QED
    BY <1>3, <1>4, <1>6, <2>1, <2>2, MaxAddrAssumption
<1>7. QED
  BY <1>1, <1>4, <1>5, <1>6 DEF PadsAbove, BlockAbove

\* An address without a byte is padded for some run of the normalized list
\* exactly when its block has bytes on the side that asks for padding.
LEMMA RunsPad ==
  ASSUME NEW list \in Seq(StoredSegment), NEW normal, normal = Normalized(list),
         NEW alignment \in Nat \ {0}, NEW length \in BOOLEAN,
         NEW a \in Addr, ReadByte(list, a) = None
  PROVE  (\E n \in 1..Len(normal) : PadsSegment(normal[n], alignment, length, a))
           <=> PadsIn(list, alignment, length, a)
<1>1. list \in ListType /\ AllInSpace(list)
  BY StoredList
<1>2. PICK first : first = AlignDown(a, alignment)
  OBVIOUS
<1>3. a \in Nat /\ a \notin Covered(list)
  BY <1>1, CoveredIs, MaxAddrAssumption DEF Addr
<1>4. /\ first \in Nat /\ first <= a /\ a < first + alignment
      /\ PadsIn(list, alignment, length, a) <=>
           \E x \in Covered(list) : /\ first <= x /\ x < first + alignment
                                    /\ \/ a < x
                                       \/ length /\ x < a /\ first + alignment <= MaxAddr
  BY <1>2, <1>3, DownIs DEF PadsIn
<1>5. ASSUME NEW n \in 1..Len(normal)
      PROVE  \E at \in Nat, end \in Nat :
               /\ at \in Covered(list) /\ end \in Covered(list)
               /\ \A x \in Int : Covers(normal[n], x) <=> at <= x /\ x <= end
               /\ a < at \/ end < a
               /\ PadsSegment(normal[n], alignment, length, a) <=>
                    \/ BlockBelow(at, alignment, a, first)
                    \/ length /\ BlockAbove(end, alignment, a, first)
  <2>1. PICK s : /\ s = normal[n] /\ InSpace(s)
                 /\ \A x \in Int : Covers(s, x) => x \in Covered(list)
    BY <1>1, NormalRun
  <2>2. PICK at, end : at = s.start /\ end = EndAddress(s)
    OBVIOUS
  <2>3. /\ at \in Nat /\ end \in Nat /\ at <= end
        /\ \A x \in Int : Covers(s, x) <=> at <= x /\ x <= end
    BY <2>1, <2>2, SpanInSpace, MaxAddrAssumption DEF Addr
  <2>4. at \in Covered(list) /\ end \in Covered(list) /\ (a < at \/ end < a)
    <3>1. at \in Int /\ end \in Int /\ a \in Int
      BY <1>3, <2>3
    <3>2. Covers(s, at) /\ Covers(s, end) /\ ~Covers(s, a)
      BY <1>3, <2>1, <2>3, <3>1
    <3>3. QED
      BY <2>1, <2>3, <3>1, <3>2
  <2>5. /\ PadsBelow(at, alignment, a) <=> BlockBelow(at, alignment, a, first)
        /\ PadsAbove(end, alignment, a) <=> BlockAbove(end, alignment, a, first)
    BY <1>2, <1>3, <2>3, PadBelowBlock, PadAboveBlock
  <2>6. PadsSegment(s, alignment, length, a) <=>
          \/ PadsBelow(at, alignment, a)
          \/ length /\ PadsAbove(end, alignment, a)
    BY <2>2 DEF PadsSegment, PadsBelow, PadsAbove
  <2>7. QED
    BY <2>1, <2>3, <2>4, <2>5, <2>6
<1>6. ASSUME NEW n \in 1..Len(normal), PadsSegment(normal[n], alignment, length, a)
      PROVE  PadsIn(list, alignment, length, a)
  <2>1. PICK at \in Nat, end \in Nat :
               /\ at \in Covered(list) /\ end \in Covered(list)
               /\ \/ BlockBelow(at, alignment, a, first)
                  \/ length /\ BlockAbove(end, alignment, a, first)
    BY <1>5, <1>6
  <2>2. CASE BlockBelow(at, alignment, a, first)
    BY <1>4, <2>1, <2>2 DEF BlockBelow
  <2>3. CASE length /\ BlockAbove(end, alignment, a, first)
    BY <1>4, <2>1, <2>3 DEF BlockAbove
  <2>4. QED
    BY <2>1, <2>2, <2>3
<1>7. ASSUME PadsIn(list, alignment, length, a)
      PROVE  \E n \in 1..Len(normal) : PadsSegment(normal[n], alignment, length, a)
  <2>1. PICK x \in Covered(list) : /\ first <= x /\ x < first + alignment
                                   /\ \/ a < x
                                      \/ length /\ x < a /\ first + alignment <= MaxAddr
    BY <1>4, <1>7
  <2>2. x \in Int
    BY MaxAddrAssumption DEF Covered, Addr
  <2>3. PICK n \in 1..Len(normal) : Covers(normal[n], x)
    BY <1>1, CoveredByRun
  <2>4. PICK at \in Nat, end \in Nat :
               /\ \A z \in Int : Covers(normal[n], z) <=> at <= z /\ z <= end
               /\ a < at \/ end < a
               /\ PadsSegment(normal[n], alignment, length, a) <=>
                    \/ BlockBelow(at, alignment, a, first)
                    \/ length /\ BlockAbove(end, alignment, a, first)
    BY <1>5
  <2>5. at <= x /\ x <= end
    BY <2>2, <2>3, <2>4
  <2>6. CASE a < x
    <3>1. BlockBelow(at, alignment, a, first)
      BY <1>3, <1>4, <2>1, <2>2, <2>4, <2>5, <2>6 DEF BlockBelow
    <3>2. QED
      BY <2>4, <3>1
  <2>7. CASE length /\ x < a /\ first + alignment <= MaxAddr
    <3>1. BlockAbove(end, alignment, a, first)
      BY <1>3, <1>4, <2>1, <2>2, <2>4, <2>5, <2>7 DEF BlockAbove
    <3>2. QED
      BY <2>4, <2>7, <3>1
  <2>8. QED
    BY <2>1, <2>6, <2>7
<1>8. QED
  BY <1>6, <1>7

LEMMA AlignAnswer ==
  ASSUME TypeOK, NEW c \in Calls, AnswerAlign(c)
  PROVE  Img!Answer(c)
<1>1. /\ c.op = "align" /\ c.alignment \in Nat /\ c.byte \in Byte /\ c.length \in BOOLEAN
  BY CallsAssumption, MaxAddrAssumption DEF AnswerAlign, Begin, IsCall, Addr
<1>2. PICK m, new : /\ m = Image(segments)
                    /\ new = Align(segments, c.alignment, c.byte, c.length)
  OBVIOUS
<1>3. /\ c.op \notin Img!OnSegments
      /\ Img!Accepts(c, m) <=> c.alignment # 0
      /\ Img!Effect(c, m) = Img!Aligned(m, c)
  BY <1>1 DEF Img!OnSegments, Img!Accepts, Img!Effect
<1>4. /\ call = Idle /\ call' = c /\ Covered(segments) # Addr
      /\ c.alignment # 0 => Covered(new) # Addr
      /\ OkIf(c.alignment # 0, new)
  BY <1>2 DEF AnswerAlign, Begin, HasGap
<1>5. ASSUME c.alignment # 0
      PROVE  Image(new) = Img!Aligned(m, c)
  <2>1. PICK list \in Seq(StoredSegment) : list = segments
    BY DEF TypeOK
  <2>2. PICK normal, alignment, byte, length :
          /\ normal = Normalized(list)
          /\ alignment = c.alignment /\ byte = c.byte /\ length = c.length
          /\ alignment \in Nat \ {0} /\ byte \in Byte /\ length \in BOOLEAN
    BY <1>1, <1>5
  <2>3. \A a \in Int : ReadByte(new, a) =
              IF ReadByte(list, a) # None THEN ReadByte(list, a)
              ELSE IF \E k \in 1..Len(normal) : PadsSegment(normal[k], alignment, length, a)
                THEN byte ELSE None
    <3>1. Covered(list) # Addr /\ Covered(new) # Addr /\ new = Align(list, alignment, byte, length)
      BY <1>2, <1>4, <1>5, <2>1, <2>2
    <3>2. QED
      BY <2>2, <3>1, AlignReads
  <2>4. ASSUME NEW a \in Addr
        PROVE  ReadByte(new, a) = IF m[a] = None /\ Img!Pads(m, c, a) THEN c.byte ELSE m[a]
    <3>1. m[a] = ReadByte(list, a) /\ a \in Int
      BY <1>2, <2>1, ImageOf, MaxAddrAssumption DEF Addr
    <3>2. CASE m[a] # None
      BY <2>3, <3>1, <3>2
    <3>3. CASE m[a] = None
      <4>1. (\E k \in 1..Len(normal) : PadsSegment(normal[k], alignment, length, a))
              <=> PadsIn(list, alignment, length, a)
        BY <2>2, <3>1, <3>3, RunsPad
      <4>2. Img!Pads(m, c, a) <=> PadsIn(list, c.alignment, c.length, a)
        BY <1>1, <1>2, <1>5, <2>1, PadsIs
      <4>3. QED
        BY <2>2, <2>3, <3>1, <3>3, <4>1, <4>2
    <3>4. QED
      BY <3>2, <3>3
  <2>5. QED
    BY <2>4 DEF Image, Img!Aligned, Img!Addr, Addr
<1>6. CASE c.alignment # 0
  BY <1>2, <1>3, <1>4, <1>5, <1>6, AnswerAccepted DEF OkIf, Ok
<1>7. CASE c.alignment = 0
  BY <1>2, <1>3, <1>4, <1>7, AnswerRefused DEF OkIf
<1>8. QED
  BY <1>6, <1>7

-----------------------------------------------------------------------------
(* The dsPIC copies *)

\* What a copy needs of its range: whole groups, and a byte at each address.
Copyable(list, r, group) ==
  RangeLength(r) % group = 0 /\ r.start..r.requested \subseteq Covered(list)

CopyRange(list, r, group) ==
  /\ Materializable(r)
  /\ RangeLength(r) % group = 0
  /\ ReadBytesContiguous(list, r.start, RangeLength(r)) # None

LEMMA LengthOfRange ==
  ASSUME NEW r \in RangeType
  PROVE  RangeLength(r) \in Nat \ {0}
<1>1. /\ r.start \in Int /\ r.end \in Int /\ r.requested \in Nat
      /\ r.start <= r.end /\ r.end <= MaxAddr
      /\ r.requested <= MaxAddr => r.requested = r.end
  BY RangeFacts
<1>2. r.start <= r.requested
  BY <1>1, MaxAddrAssumption
<1>3. QED
  BY <1>1, <1>2 DEF RangeLength

LEMMA CopyRangeIs ==
  ASSUME NEW list \in Seq(StoredSegment), Covered(list) # Addr, NEW r \in RangeType,
         NEW group
  PROVE  CopyRange(list, r, group) <=> Copyable(list, r, group)
<1>1. list \in ListType /\ AllInSpace(list) /\ Covered(list) \subseteq Addr
  BY StoredList DEF Covered
<1>2. PICK at, last, n : at = r.start /\ last = r.requested /\ n = RangeLength(r)
  OBVIOUS
<1>3. at \in Nat /\ last \in Nat /\ at <= last /\ n = last - at + 1 /\ at \in Addr
      /\ n \in Nat \ {0}
  <2>1. /\ r.start \in Int /\ r.end \in Int /\ r.requested \in Nat /\ r.start \in Addr
        /\ 0 <= r.start /\ r.start <= r.end /\ r.end <= MaxAddr
        /\ r.requested <= MaxAddr => r.requested = r.end
        /\ r.requested > MaxAddr => r.end = MaxAddr
    BY RangeFacts DEF RangeType
  <2>2. at \in Nat /\ last \in Nat /\ at <= last /\ n = last - at + 1 /\ at \in Addr
    BY <1>2, <2>1, MaxAddrAssumption DEF RangeLength
  <2>3. QED
    BY <2>2
<1>4. PICK source : source = ReadBytesContiguous(list, at, n)
  OBVIOUS
<1>5. source = IF n <= MaxAddr /\ \A k \in at..last : k \in Covered(list)
                 THEN [k \in 1..n |-> ReadByte(list, at + k - 1)] ELSE None
  <2>1. at + n - 1 = last
    BY <1>3
  <2>2. QED
    BY <1>1, <1>3, <1>4, <2>1, ReadContiguous
<1>6. ASSUME at..last \subseteq Covered(list)
      PROVE  Materializable(r) /\ source # None
  <2>1. last <= MaxAddr /\ last - at < MaxAddr
    <3>1. last \in Addr
      BY <1>1, <1>3, <1>6
    <3>2. last <= MaxAddr
      BY <3>1, MaxAddrAssumption DEF Addr
    <3>3. ~(last - at >= MaxAddr)
      <4>1. ASSUME last - at >= MaxAddr
            PROVE  FALSE
        <5>1. at = 0 /\ last = MaxAddr
          BY <1>3, <3>2, <4>1, MaxAddrAssumption
        <5>2. Addr \subseteq Covered(list)
          BY <1>6, <5>1 DEF Addr
        <5>3. QED
          BY <1>1, <5>2
      <4>2. QED
        BY <4>1
    <3>4. QED
      BY <1>3, <3>2, <3>3, MaxAddrAssumption
  <2>2. Materializable(r)
    BY <1>2, <2>1, MaterializableIs
  <2>3. source = [k \in 1..n |-> ReadByte(list, at + k - 1)]
    <3>1. n <= MaxAddr
      BY <1>3, <2>1, MaxAddrAssumption
    <3>2. QED
      BY <1>5, <1>6, <3>1
  <2>4. ASSUME NEW k \in 1..n
        PROVE  ReadByte(list, at + k - 1) \in Byte
    <3>1. at + k - 1 \in at..last /\ at + k - 1 \in Int
      BY <1>3
    <3>2. QED
      BY <1>1, <1>6, <3>1, CoveredIs, ReadCovered
  <2>5. source \in Seq(Byte)
    <3>1. source = [k \in 1..n |-> source[k]] /\ \A k \in 1..n : source[k] \in Byte
      BY <2>3, <2>4
    <3>2. n \in Nat
      BY <1>3
    <3>3. QED
      BY <3>1, <3>2, MadeStored
  <2>6. QED
    BY <2>2, <2>5, NoneAssumption
<1>7. ASSUME source # None
      PROVE  at..last \subseteq Covered(list)
  BY <1>5, <1>7
<1>8. QED
  BY <1>2, <1>4, <1>6, <1>7 DEF CopyRange, Copyable

\* The bytes a copy starts from are those of the image.
LEMMA CopiesImage ==
  ASSUME NEW list \in Seq(StoredSegment), NEW r \in RangeType, NEW group,
         CopyRange(list, r, group), NEW m, m = Image(list),
         NEW source, source = ReadBytesContiguous(list, r.start, RangeLength(r))
  PROVE  /\ RangeLength(r) \in Nat \ {0} /\ RangeLength(r) % group = 0
         /\ r.start \in Nat
         /\ source \in Seq(Byte) /\ Len(source) = RangeLength(r)
         /\ \A k \in 1..RangeLength(r) : source[k] = m[r.start + k - 1]
<1>1. Materializable(r) /\ source # None /\ RangeLength(r) % group = 0
  BY DEF CopyRange
<1>2. /\ RangeLength(r) \in Nat \ {0}
      /\ source \in Seq(Byte) /\ Len(source) = RangeLength(r)
      /\ \A k \in 1..RangeLength(r) :
           source[k] = ReadByte(list, r.start + k - 1) /\ r.start + k - 1 \in Covered(list)
  BY <1>1, CopySource
<1>3. \A a \in Covered(list) : m[a] = ReadByte(list, a)
  BY ImageOf DEF Covered
<1>4. r.start \in Nat
  BY RangeFacts
<1>5. QED
  BY <1>1, <1>2, <1>3, <1>4

\* The byte k of a copy.
CopiedByte(m, start, of, from, k) ==
  LET i == from[(k % Len(from)) + 1]
  IN IF i = 0 THEN Zero ELSE m[start + (k \div Len(from)) * of + i - 1]

IsCopied(d, n, m, start, of, from) ==
  \A k \in 0..(n - 1) : d[k + 1] = CopiedByte(m, start, of, from, k)

\* What a call copies: n bytes to at, of the groups from start on.
CopyPlan(c, start, of, from, at, n) ==
  /\ start = c.range.start
  /\ of = Img!CopyFrom(c).of
  /\ from = Img!CopyFrom(c).from
  /\ at = Img!CopyAt(c)
  /\ n = Img!Groups(c) * Len(from)

LEMMA CopiedIs ==
  ASSUME NEW list \in Seq(StoredSegment), NEW m, m = Image(list),
         NEW c, NEW start, NEW of, NEW from, NEW at \in Nat, NEW n \in Nat,
         CopyPlan(c, start, of, from, at, n),
         NEW d \in Seq(Byte), Len(d) = n, IsCopied(d, n, m, start, of, from),
         NEW s \in SegmentType, s = [start |-> at, data |-> d]
  PROVE  Image(AppendSegment(list, s)) = Img!Copied(m, c)
<1>1. PICK new : new = AppendSegment(list, s)
  OBVIOUS
<1>2. \A a \in Int : ReadByte(new, a) = IF Covers(s, a) THEN ByteAt(s, a) ELSE ReadByte(list, a)
  BY <1>1, AppendStored
<1>3. ASSUME NEW a \in Addr
      PROVE  ReadByte(new, a) = IF at <= a /\ a < at + n
                                  THEN CopiedByte(m, start, of, from, a - at) ELSE m[a]
  <2>1. a \in Int /\ m[a] = ReadByte(list, a)
    BY ImageOf, MaxAddrAssumption DEF Addr
  <2>2. /\ Covers(s, a) <=> at <= a /\ a < at + n
        /\ ByteAt(s, a) = d[a - at + 1]
    BY <2>1 DEF Covers, ByteAt
  <2>3. at <= a /\ a < at + n => a - at \in 0..(n - 1)
    BY <2>1
  <2>4. QED
    BY <1>2, <2>1, <2>2, <2>3 DEF IsCopied
<1>4. Img!Copied(m, c) =
        [a \in Addr |-> IF at <= a /\ a < at + n
                          THEN CopiedByte(m, start, of, from, a - at) ELSE m[a]]
  BY DEF CopyPlan, Img!Copied, CopiedByte, Img!Addr, Addr
<1>5. Image(new) = [a \in Addr |-> ReadByte(new, a)]
  BY DEF Image
<1>6. QED
  BY <1>1, <1>3, <1>4, <1>5

\* A copy that is made, and one that is refused.
LEMMA WritesCopy ==
  ASSUME NEW at \in Nat, NEW n \in Nat \ {0}, NEW d \in Seq(Byte), Len(d) = n,
         NEW copy, copy = [start |-> at, data |-> d]
  PROVE  CanWrite(copy) <=> Img!CanLay(at, n)
<1>1. copy \in [start : Nat, data : Seq(Byte)] /\ copy.start = at /\ Len(copy.data) = n
  OBVIOUS
<1>2. copy # None
  BY <1>1, NoneAssumption
<1>3. CanWrite(copy) <=> FitsAt(at, n) /\ at <= MaxAddr
  BY <1>1, <1>2 DEF CanWrite
<1>4. QED
  BY <1>3, MaxAddrAssumption DEF Img!CanLay, FitsAt

LEMMA CopyAnswer ==
  ASSUME NEW c \in Calls, c.op \in {"dspic_expand", "dspic_shrink", "dspic_clear_ghost"},
         call = Idle, call' = c, NEW copy, WriteCopy(copy), NEW m, m = Image(segments),
         CanWrite(copy) <=> Img!CanCopy(m, c),
         CanWrite(copy) => Image(AppendSegment(segments, copy)) = Img!Copied(m, c)
  PROVE  Img!Answer(c)
<1>1. /\ c.op \notin Img!OnSegments
      /\ Img!Accepts(c, m) <=> Img!CanCopy(m, c)
      /\ Img!Effect(c, m) = Img!Copied(m, c)
  BY DEF Img!OnSegments, Img!Accepts, Img!Effect
<1>2. CASE CanWrite(copy)
  <2>1. segments' = AppendSegment(segments, copy) /\ res' = "ok"
    BY <1>2 DEF WriteCopy, OkIf, Ok
  <2>2. QED
    BY <1>1, <1>2, <2>1, AnswerAccepted
<1>3. CASE ~CanWrite(copy)
  <2>1. Fail
    BY <1>3 DEF WriteCopy, OkIf
  <2>2. QED
    BY <1>1, <1>3, <2>1, AnswerRefused
<1>4. QED
  BY <1>2, <1>3

LEMMA CanCopyIs ==
  ASSUME NEW list \in Seq(StoredSegment), NEW m, m = Image(list), NEW c,
         NEW r, r = c.range, NEW group, group = Img!CopyFrom(c).of,
         NEW at, at = Img!CopyAt(c),
         NEW n, n = Img!Groups(c) * Len(Img!CopyFrom(c).from)
  PROVE  Img!CanCopy(m, c) <=>
           /\ Copyable(list, r, group)
           /\ c.op = "dspic_shrink" /\ c.target = None => r.start % 2 = 0
           /\ Img!CanLay(at, n)
  BY UsedIs DEF Img!CanCopy, Copyable, RangeLength

LEMMA Quarters ==
  ASSUME NEW k \in Nat
  PROVE  /\ k \div 4 \in Nat /\ k % 4 \in 0..3 /\ k = 4 * (k \div 4) + (k % 4)
         /\ k \div 2 \in Nat /\ k % 2 \in 0..1 /\ k = 2 * (k \div 2) + (k % 2)
  OBVIOUS

LEMMA ExpandAnswer ==
  ASSUME TypeOK, NEW c \in Calls, AnswerExpand(c)
  PROVE  Img!Answer(c)
<1>1. c.op = "dspic_expand" /\ c.range \in RangeType /\ c.target \in Addr \union {None}
  BY CallsAssumption DEF AnswerExpand, Begin, IsCall
<1>2. PICK list \in Seq(StoredSegment) : list = segments
  BY DEF TypeOK
<1>3. PICK r, m, copy :
        /\ r \in RangeType /\ r = c.range /\ m = Image(list) /\ copy = ExpandCopy(list, r, c.target)
  BY <1>1
<1>4. call = Idle /\ call' = c /\ Covered(list) # Addr /\ WriteCopy(copy)
  BY <1>2, <1>3 DEF AnswerExpand, Begin, HasGap
<1>5. PICK from : from = <<1, 2, 0, 0>>
  OBVIOUS
<1>6. /\ Img!CopyFrom(c).of = 2 /\ Img!CopyFrom(c).from = from /\ Len(from) = 4
  BY <1>1, <1>5 DEF Img!CopyFrom
<1>7. PICK at \in Nat : at = ExpandTarget(r, c.target)
  BY <1>1, <1>3, RangeFacts, MaxAddrAssumption DEF ExpandTarget, Addr
<1>8. Img!CopyAt(c) = at
  <2>1. r.start \in Int
    BY <1>3, RangeFacts
  <2>2. r.start * 2 = 2 * r.start
    BY <2>1
  <2>3. QED
    BY <1>1, <1>3, <1>7, <2>2 DEF Img!CopyAt, ExpandTarget
<1>9. PICK L \in Nat \ {0} : L = RangeLength(r)
  BY <1>3, LengthOfRange
<1>10. PICK n : n = Img!Groups(c) * 4 /\ n = (L \div 2) * 4
  BY <1>3, <1>6, <1>9 DEF Img!Groups, RangeLength
<1>11. Img!CanCopy(m, c) <=> Copyable(list, r, 2) /\ Img!CanLay(at, n)
  BY <1>1, <1>3, <1>6, <1>8, <1>10, CanCopyIs
<1>12. PICK source : source = ReadBytesContiguous(list, r.start, RangeLength(r))
  OBVIOUS
<1>13. copy = IF CopyRange(list, r, 2) THEN [start |-> at, data |-> Expanded(source)] ELSE None
  BY <1>3, <1>7, <1>12 DEF ExpandCopy, CopyOf, CopyRange
<1>14. CopyRange(list, r, 2) <=> Copyable(list, r, 2)
  BY <1>3, <1>4, CopyRangeIs
<1>15. CASE CopyRange(list, r, 2)
  <2>1. /\ r.start \in Nat /\ L % 2 = 0 /\ source \in Seq(Byte) /\ Len(source) = L
        /\ \A k \in 1..L : source[k] = m[r.start + k - 1]
    BY <1>3, <1>9, <1>12, <1>15, CopiesImage
  <2>2. PICK d \in Seq(Byte) : d = Expanded(source) /\ Len(d) = 2 * L
    BY <2>1, ExpandedBytes
  <2>3. n = 2 * L /\ n \in Nat \ {0}
    BY <1>10, <2>1
  <2>4. copy = [start |-> at, data |-> d]
    BY <1>13, <1>15, <2>2
  <2>5. CanWrite(copy) <=> Img!CanCopy(m, c)
    BY <1>11, <1>14, <1>15, <2>2, <2>3, <2>4, WritesCopy
  <2>6. ASSUME CanWrite(copy)
        PROVE  Image(AppendSegment(list, copy)) = Img!Copied(m, c)
    <3>1. copy \in SegmentType
      BY <2>4, <2>6, CopyStored
    <3>2. ASSUME NEW k \in 0..(n - 1)
          PROVE  d[k + 1] = CopiedByte(m, r.start, 2, from, k)
      <4>1. PICK q, p : q = k \div 4 /\ p = k % 4
        OBVIOUS
      <4>2. q \in Nat /\ p \in 0..3 /\ k = 4 * q + p
        BY <2>3, <4>1, Quarters
      <4>3. d[k + 1] = IF p < 2 THEN source[2 * q + p + 1] ELSE Zero
        <5>1. k + 1 \in 1..(2 * L) /\ (k + 1) - 1 = k
          BY <2>3
        <5>2. QED
          BY <2>1, <2>2, <4>1, <5>1 DEF Expanded
      <4>4. CopiedByte(m, r.start, 2, from, k) =
              IF from[p + 1] = 0 THEN Zero ELSE m[r.start + q * 2 + from[p + 1] - 1]
        BY <1>6, <4>1 DEF CopiedByte
      <4>5. CASE p < 2
        <5>1. from[p + 1] = p + 1 /\ p + 1 # 0
          BY <1>5, <4>2, <4>5
        <5>2. r.start + q * 2 + (p + 1) - 1 = r.start + (2 * q + p + 1) - 1
          BY <2>1, <4>2
        <5>3. 2 * q + p + 1 \in 1..L
          <6>1. PICK j \in Nat : L = 2 * j
            BY <2>1
          <6>2. q < j
            BY <2>3, <4>2, <6>1
          <6>3. QED
            BY <4>2, <4>5, <6>1, <6>2
        <5>4. QED
          BY <2>1, <4>3, <4>4, <4>5, <5>1, <5>2, <5>3
      <4>6. CASE ~(p < 2)
        <5>1. from[p + 1] = 0
          BY <1>5, <4>2, <4>6
        <5>2. QED
          BY <4>3, <4>4, <4>6, <5>1
      <4>7. QED
        BY <4>5, <4>6
    <3>3. QED
      <4>1. n \in Nat /\ Len(d) = n
        BY <2>2, <2>3
      <4>2. IsCopied(d, n, m, r.start, 2, from)
        BY <3>2 DEF IsCopied
      <4>3. CopyPlan(c, r.start, 2, from, at, n)
        BY <1>3, <1>6, <1>8, <1>10 DEF CopyPlan
      <4>4. QED
        BY <1>3, <2>4, <3>1, <4>1, <4>2, <4>3, CopiedIs
  <2>7. QED
    BY <1>1, <1>2, <1>3, <1>4, <2>5, <2>6, CopyAnswer
<1>16. CASE ~CopyRange(list, r, 2)
  <2>1. ~CanWrite(copy) /\ ~Img!CanCopy(m, c)
    BY <1>11, <1>13, <1>14, <1>16 DEF CanWrite
  <2>2. QED
    BY <1>1, <1>2, <1>3, <1>4, <2>1, CopyAnswer
<1>17. QED
  BY <1>15, <1>16

LEMMA ShrinkAnswer ==
  ASSUME TypeOK, NEW c \in Calls, AnswerShrink(c)
  PROVE  Img!Answer(c)
<1>1. c.op = "dspic_shrink" /\ c.range \in RangeType /\ c.target \in Addr \union {None}
  BY CallsAssumption DEF AnswerShrink, Begin, IsCall
<1>2. PICK list \in Seq(StoredSegment) : list = segments
  BY DEF TypeOK
<1>3. PICK r, m, copy :
        /\ r \in RangeType /\ r = c.range /\ m = Image(list) /\ copy = ShrinkCopy(list, r, c.target)
  BY <1>1
<1>4. call = Idle /\ call' = c /\ Covered(list) # Addr /\ WriteCopy(copy)
  BY <1>2, <1>3 DEF AnswerShrink, Begin, HasGap
<1>5. PICK from : from = <<1, 2>>
  OBVIOUS
<1>6. /\ Img!CopyFrom(c).of = 4 /\ Img!CopyFrom(c).from = from /\ Len(from) = 2
  BY <1>1, <1>5 DEF Img!CopyFrom
<1>7. PICK at \in Nat : at = ShrinkTarget(r, c.target)
  BY <1>1, <1>3, RangeFacts, MaxAddrAssumption DEF ShrinkTarget, Addr
<1>8. Img!CopyAt(c) = at
  BY <1>1, <1>3, <1>7 DEF Img!CopyAt, ShrinkTarget
<1>9. PICK L \in Nat \ {0} : L = RangeLength(r)
  BY <1>3, LengthOfRange
<1>10. PICK n : n = Img!Groups(c) * 2 /\ n = (L \div 4) * 2
  BY <1>3, <1>6, <1>9 DEF Img!Groups, RangeLength
<1>11. PICK even \in BOOLEAN : even <=> (c.target = None => r.start % 2 = 0)
  OBVIOUS
<1>12. Img!CanCopy(m, c) <=> Copyable(list, r, 4) /\ even /\ Img!CanLay(at, n)
  BY <1>1, <1>3, <1>6, <1>8, <1>10, <1>11, CanCopyIs
<1>13. PICK source : source = ReadBytesContiguous(list, r.start, RangeLength(r))
  OBVIOUS
<1>14. copy = IF CopyRange(list, r, 4) /\ even
                THEN [start |-> at, data |-> Shrunk(source)] ELSE None
  BY <1>3, <1>7, <1>11, <1>13 DEF ShrinkCopy, CopyOf, CopyRange
<1>15. CopyRange(list, r, 4) <=> Copyable(list, r, 4)
  BY <1>3, <1>4, CopyRangeIs
<1>16. CASE CopyRange(list, r, 4) /\ even
  <2>1. /\ r.start \in Nat /\ L % 4 = 0 /\ source \in Seq(Byte) /\ Len(source) = L
        /\ \A k \in 1..L : source[k] = m[r.start + k - 1]
    BY <1>3, <1>9, <1>13, <1>16, CopiesImage
  <2>2. PICK d \in Seq(Byte) : d = Shrunk(source) /\ Len(d) = L \div 2
    BY <2>1, ShrunkBytes
  <2>3. n = L \div 2 /\ n \in Nat \ {0} /\ L = 2 * n
    <3>1. PICK j \in Nat : j = L \div 4 /\ L = 4 * j
      BY <2>1
    <3>2. n = 2 * j /\ L \div 2 = 2 * j /\ j # 0
      BY <1>10, <3>1
    <3>3. QED
      BY <3>1, <3>2
  <2>4. copy = [start |-> at, data |-> d]
    BY <1>14, <1>16, <2>2
  <2>5. CanWrite(copy) <=> Img!CanCopy(m, c)
    BY <1>12, <1>15, <1>16, <2>2, <2>3, <2>4, WritesCopy
  <2>6. ASSUME CanWrite(copy)
        PROVE  Image(AppendSegment(list, copy)) = Img!Copied(m, c)
    <3>1. copy \in SegmentType
      BY <2>4, <2>6, CopyStored
    <3>2. ASSUME NEW k \in 0..(n - 1)
          PROVE  d[k + 1] = CopiedByte(m, r.start, 4, from, k)
      <4>1. PICK q, p : q = k \div 2 /\ p = k % 2
        OBVIOUS
      <4>2. q \in Nat /\ p \in 0..1 /\ k = 2 * q + p
        BY <2>3, <4>1, Quarters
      <4>3. d[k + 1] = source[4 * q + p + 1]
        <5>1. k + 1 \in 1..(L \div 2) /\ (k + 1) - 1 = k
          BY <2>3
        <5>2. QED
          BY <2>1, <2>2, <4>1, <5>1 DEF Shrunk
      <4>4. CopiedByte(m, r.start, 4, from, k) =
              IF from[p + 1] = 0 THEN Zero ELSE m[r.start + q * 4 + from[p + 1] - 1]
        BY <1>6, <4>1 DEF CopiedByte
      <4>5. from[p + 1] = p + 1 /\ p + 1 # 0
        BY <1>5, <4>2
      <4>6. r.start + q * 4 + (p + 1) - 1 = r.start + (4 * q + p + 1) - 1
        BY <2>1, <4>2
      <4>7. 4 * q + p + 1 \in 1..L
        <5>1. PICK j \in Int : L = 4 * j /\ n = 2 * j
          BY <2>1, <2>3
        <5>2. q < j
          BY <4>2, <5>1
        <5>3. QED
          BY <4>2, <5>1, <5>2
      <4>8. QED
        BY <2>1, <4>3, <4>4, <4>5, <4>6, <4>7
    <3>3. QED
      <4>1. n \in Nat /\ Len(d) = n
        BY <2>2, <2>3
      <4>2. IsCopied(d, n, m, r.start, 4, from)
        BY <3>2 DEF IsCopied
      <4>3. CopyPlan(c, r.start, 4, from, at, n)
        BY <1>3, <1>6, <1>8, <1>10 DEF CopyPlan
      <4>4. QED
        BY <1>3, <2>4, <3>1, <4>1, <4>2, <4>3, CopiedIs
  <2>7. QED
    BY <1>1, <1>2, <1>3, <1>4, <2>5, <2>6, CopyAnswer
<1>17. CASE ~(CopyRange(list, r, 4) /\ even)
  <2>1. ~CanWrite(copy) /\ ~Img!CanCopy(m, c)
    BY <1>12, <1>14, <1>15, <1>17 DEF CanWrite
  <2>2. QED
    BY <1>1, <1>2, <1>3, <1>4, <2>1, CopyAnswer
<1>18. QED
  BY <1>16, <1>17

LEMMA ClearGhostAnswer ==
  ASSUME TypeOK, NEW c \in Calls, AnswerClearGhost(c)
  PROVE  Img!Answer(c)
<1>1. c.op = "dspic_clear_ghost" /\ c.range \in RangeType
  BY CallsAssumption DEF AnswerClearGhost, Begin, IsCall
<1>2. PICK list \in Seq(StoredSegment) : list = segments
  BY DEF TypeOK
<1>3. PICK r, m, copy :
        /\ r \in RangeType /\ r = c.range /\ m = Image(list) /\ copy = GhostCopy(list, r)
  BY <1>1
<1>4. call = Idle /\ call' = c /\ Covered(list) # Addr /\ WriteCopy(copy)
  BY <1>2, <1>3 DEF AnswerClearGhost, Begin, HasGap
<1>5. PICK from : from = <<1, 2, 3, 0>>
  OBVIOUS
<1>6. /\ Img!CopyFrom(c).of = 4 /\ Img!CopyFrom(c).from = from /\ Len(from) = 4
  BY <1>1, <1>5 DEF Img!CopyFrom
<1>7. PICK at \in Nat : at = r.start
  BY <1>3, RangeFacts
<1>8. Img!CopyAt(c) = at
  BY <1>1, <1>3, <1>7 DEF Img!CopyAt
<1>9. PICK L \in Nat \ {0} : L = RangeLength(r)
  BY <1>3, LengthOfRange
<1>10. PICK n : n = Img!Groups(c) * 4 /\ n = (L \div 4) * 4
  BY <1>3, <1>6, <1>9 DEF Img!Groups, RangeLength
<1>11. Img!CanCopy(m, c) <=> Copyable(list, r, 4) /\ Img!CanLay(at, n)
  BY <1>1, <1>3, <1>6, <1>8, <1>10, CanCopyIs
<1>12. PICK source : source = ReadBytesContiguous(list, r.start, RangeLength(r))
  OBVIOUS
<1>13. copy = IF CopyRange(list, r, 4) THEN [start |-> at, data |-> Cleared(source)] ELSE None
  BY <1>3, <1>7, <1>12 DEF GhostCopy, CopyOf, CopyRange
<1>14. CopyRange(list, r, 4) <=> Copyable(list, r, 4)
  BY <1>3, <1>4, CopyRangeIs
<1>15. CASE CopyRange(list, r, 4)
  <2>1. /\ r.start \in Nat /\ L % 4 = 0 /\ source \in Seq(Byte) /\ Len(source) = L
        /\ \A k \in 1..L : source[k] = m[r.start + k - 1]
    BY <1>3, <1>9, <1>12, <1>15, CopiesImage
  <2>2. PICK d \in Seq(Byte) : d = Cleared(source) /\ Len(d) = L /\ DOMAIN source = 1..L
    BY <2>1, ClearedBytes, LenProperties
  <2>3. n = L
    BY <1>10, <2>1
  <2>4. copy = [start |-> at, data |-> d]
    BY <1>13, <1>15, <2>2
  <2>5. CanWrite(copy) <=> Img!CanCopy(m, c)
    BY <1>11, <1>14, <1>15, <2>2, <2>3, <2>4, WritesCopy
  <2>6. ASSUME CanWrite(copy)
        PROVE  Image(AppendSegment(list, copy)) = Img!Copied(m, c)
    <3>1. copy \in SegmentType
      BY <2>4, <2>6, CopyStored
    <3>2. ASSUME NEW k \in 0..(n - 1)
          PROVE  d[k + 1] = CopiedByte(m, r.start, 4, from, k)
      <4>1. PICK q, p : q = k \div 4 /\ p = k % 4
        OBVIOUS
      <4>2. q \in Nat /\ p \in 0..3 /\ k = 4 * q + p
        BY <2>3, <4>1, Quarters
      <4>3. k + 1 \in 1..L /\ ((k + 1) % 4 = 0 <=> p = 3)
        BY <2>3, <4>2
      <4>4. d[k + 1] = IF p = 3 THEN Zero ELSE source[k + 1]
        BY <2>2, <4>3 DEF Cleared
      <4>5. CopiedByte(m, r.start, 4, from, k) =
              IF from[p + 1] = 0 THEN Zero ELSE m[r.start + q * 4 + from[p + 1] - 1]
        BY <1>6, <4>1 DEF CopiedByte
      <4>6. CASE p # 3
        <5>1. from[p + 1] = p + 1 /\ p + 1 # 0
          BY <1>5, <4>2, <4>6
        <5>2. r.start + q * 4 + (p + 1) - 1 = r.start + (k + 1) - 1
          <6>1. PICK lo \in Int, x \in Int : lo = r.start /\ x = q * 4
            BY <2>1, <4>2
          <6>2. k + 1 = x + (p + 1) /\ p \in Int /\ k \in Int /\ x \in Int /\ lo \in Int
            BY <4>2, <6>1
          <6>3. lo + x + (p + 1) - 1 = lo + (k + 1) - 1
            BY ONLY <6>2
          <6>4. QED
            BY <6>1, <6>3
        <5>3. QED
          BY <2>1, <4>3, <4>4, <4>5, <4>6, <5>1, <5>2
      <4>7. CASE p = 3
        <5>1. from[p + 1] = 0
          BY <1>5, <4>7
        <5>2. QED
          BY <4>4, <4>5, <4>7, <5>1
      <4>8. QED
        BY <4>6, <4>7
    <3>3. QED
      <4>1. n \in Nat /\ Len(d) = n
        BY <2>2, <2>3
      <4>2. IsCopied(d, n, m, r.start, 4, from)
        BY <3>2 DEF IsCopied
      <4>3. CopyPlan(c, r.start, 4, from, at, n)
        BY <1>3, <1>6, <1>8, <1>10 DEF CopyPlan
      <4>4. QED
        BY <1>3, <2>4, <3>1, <4>1, <4>2, <4>3, CopiedIs
  <2>7. QED
    BY <1>1, <1>2, <1>3, <1>4, <2>5, <2>6, CopyAnswer
<1>16. CASE ~CopyRange(list, r, 4)
  <2>1. ~CanWrite(copy) /\ ~Img!CanCopy(m, c)
    BY <1>11, <1>13, <1>14, <1>16 DEF CanWrite
  <2>2. QED
    BY <1>1, <1>2, <1>3, <1>4, <2>1, CopyAnswer
<1>17. QED
  BY <1>15, <1>16

-----------------------------------------------------------------------------
(* Implementation *)

\* Calls that turn or move segments: of these the map promises only that they
\* make some image, or fail and change nothing.
LEMMA OnSegmentsAnswer ==
  ASSUME TypeOK, TypeOK', NEW c, c.op \in Img!OnSegments, call = Idle, call' = c,
         NEW cond, NEW new, OkIf(cond, new)
  PROVE  Img!Answer(c)
<1>1. PICK after \in Seq(StoredSegment) : after = segments'
  BY DEF TypeOK
<1>2. Image(segments') \in Img!Images
  BY <1>1, ImageOf
<1>3. res' = "ok" \/ (res' = "error" /\ segments' = segments)
  BY DEF OkIf, Ok, Fail
<1>4. segments' = segments => Image(segments') = Image(segments)
  OBVIOUS
<1>5. QED
  BY <1>2, <1>3, <1>4 DEF Img!Answer

LEMMA SwapsAndScalesAnswer ==
  ASSUME TypeOK, TypeOK', NEW c \in Calls,
         AnswerSwapWord(c) \/ AnswerSwapLong(c) \/ AnswerScale(c) \/ AnswerUnscale(c)
  PROVE  Img!Answer(c)
<1>1. CASE AnswerSwapWord(c)
  <2>1. c.op \in Img!OnSegments /\ call = Idle /\ call' = c /\ OkIf(TRUE, SwapWord(segments))
    BY <1>1 DEF AnswerSwapWord, Begin, OkIf, Img!OnSegments
  <2>2. QED
    BY <2>1, OnSegmentsAnswer
<1>2. CASE AnswerSwapLong(c)
  <2>1. /\ c.op \in Img!OnSegments /\ call = Idle /\ call' = c
        /\ OkIf(CanSwapLong(segments), SwapLong(segments))
    BY <1>2 DEF AnswerSwapLong, Begin, Img!OnSegments
  <2>2. QED
    BY <2>1, OnSegmentsAnswer
<1>3. CASE AnswerScale(c)
  <2>1. /\ c.op \in Img!OnSegments /\ call = Idle /\ call' = c
        /\ OkIf(CanScale(segments, c.by), Scale(segments, c.by))
    BY <1>3 DEF AnswerScale, Begin, Img!OnSegments
  <2>2. QED
    BY <2>1, OnSegmentsAnswer
<1>4. CASE AnswerUnscale(c)
  <2>1. /\ c.op \in Img!OnSegments /\ call = Idle /\ call' = c
        /\ OkIf(CanUnscale(segments, c.by), Unscale(segments, c.by))
    BY <1>4 DEF AnswerUnscale, Begin, Img!OnSegments
  <2>2. QED
    BY <2>1, OnSegmentsAnswer
<1>5. QED
  BY <1>1, <1>2, <1>3, <1>4

\* The empty file is the empty map.
LEMMA BeginsBlank == Image(<<>>) = Img!Blank
<1>1. \A a \in Addr : ReadByte(<<>>, a) = None
  <2>1. <<>> \in Seq(StoredSegment) /\ \A a \in Addr : a \in Int
    BY NothingStored, MaxAddrAssumption DEF Addr
  <2>2. \A a \in Int : \A n \in 1..Len(<<>>) : ~Covers(<<>>[n], a)
    OBVIOUS
  <2>3. QED
    BY <2>1, <2>2, ReadEmpty
<1>2. QED
  BY <1>1 DEF Image, Img!Blank, Img!Addr, Addr

\* Every step of the file is one of the map.
LEMMA StepImplements ==
  ASSUME MergesUnambiguous, TypeOK, TypeOK', Next
  PROVE  Img!Next
<1>1. CASE Return
  <2>1. Image(segments') = Image(segments)
    BY <1>1 DEF Return
  <2>2. Img!Return
    BY <1>1, <2>1 DEF Return, Img!Return
  <2>3. QED
    BY <2>2 DEF Img!Next
<1>2. ASSUME NEW c \in Calls,
             \/ AnswerAppend(c) \/ AnswerPrepend(c) \/ AnswerWrite(c) \/ AnswerNormalize(c)
             \/ AnswerFilter(c) \/ AnswerCut(c) \/ AnswerFill(c) \/ AnswerFillGaps(c)
             \/ AnswerMerge(c) \/ AnswerOffset(c) \/ AnswerAlign(c) \/ AnswerSplit(c)
      PROVE  Img!Answer(c)
  BY <1>2, AppendAnswer, PrependAnswer, WriteAnswer, NormalizeAnswer, FilterAnswer, CutAnswer,
     FillAnswer, FillGapsAnswer, MergeAnswer, OffsetAnswer, AlignAnswer, SplitAnswer
<1>3. ASSUME NEW c \in Calls,
             \/ AnswerExpand(c) \/ AnswerShrink(c) \/ AnswerClearGhost(c)
             \/ AnswerSwapWord(c) \/ AnswerSwapLong(c) \/ AnswerScale(c) \/ AnswerUnscale(c)
      PROVE  Img!Answer(c)
  BY <1>3, ExpandAnswer, ShrinkAnswer, ClearGhostAnswer, SwapsAndScalesAnswer
<1>4. CASE \E c \in Calls : Img!Answer(c)
  BY <1>4 DEF Img!Next
<1>5. QED
  BY <1>1, <1>2, <1>3, <1>4 DEF Next

\* The file implements the plain sparse map: whatever raw segments a sequence of
\* calls leaves, read_byte shows what the same calls make of the map, and a call
\* fails exactly when the map says so.  The hypothesis is needed: a merge in
\* Preserve mode of a file whose own segments disagree shows the wrong one
\* (merge in ops/filter.rs prepends them one by one).
THEOREM Implementation == MergesUnambiguous => (Spec => ImplementsSparseImage)
<1>1. Init => Img!Init
  BY BeginsBlank DEF Init, Img!Init
<1>2. MergesUnambiguous /\ TypeOK /\ TypeOK' /\ [Next]_vars => [Img!Next]_Img!vars
  <2> SUFFICES ASSUME MergesUnambiguous, TypeOK, TypeOK', [Next]_vars
               PROVE  [Img!Next]_Img!vars
    OBVIOUS
  <2>1. CASE Next
    BY <2>1, StepImplements
  <2>2. CASE UNCHANGED vars
    <3>1. Image(segments') = Image(segments) /\ call' = call /\ res' = res
      BY <2>2 DEF vars
    <3>2. QED
      BY <3>1 DEF Img!vars
  <2>3. QED
    BY <2>1, <2>2
<1>3. SUFFICES ASSUME MergesUnambiguous
               PROVE  Spec => ImplementsSparseImage
  OBVIOUS
<1>4. TypeOK /\ TypeOK' /\ [Next]_vars => [Img!Next]_Img!vars
  BY <1>2, <1>3
<1>5. QED
  BY <1>1, <1>4, TypeCorrectness, PTL DEF Spec, ImplementsSparseImage, Img!Spec

-----------------------------------------------------------------------------
(* What single transforms answer *)

LEMMA TransformAnswered ==
  ASSUME Next
  PROVE  /\ Answered("align") => \E c \in Calls : AnswerAlign(c)
         /\ Answered("split") => \E c \in Calls : AnswerSplit(c)
         /\ Answered("swap_word") => \E c \in Calls : AnswerSwapWord(c)
         /\ Answered("swap_long") => \E c \in Calls : AnswerSwapLong(c)
         /\ Answered("scale_addresses") => \E c \in Calls : AnswerScale(c)
  BY DEF Next, Return, Answered, AnswerAppend, AnswerPrepend, AnswerWrite, AnswerNormalize,
         AnswerFilter, AnswerCut, AnswerFill, AnswerFillGaps, AnswerMerge, AnswerOffset,
         AnswerAlign, AnswerSplit, AnswerSwapWord, AnswerSwapLong, AnswerExpand,
         AnswerShrink, AnswerClearGhost, AnswerScale, AnswerUnscale, Begin

-----------------------------------------------------------------------------
(* scale_addresses *)

\* What AnyOverlap does not find, no two different segments have in common.
LEMMA DisjointApart ==
  ASSUME NEW list \in Seq(StoredSegment), Disjoint(list),
         NEW m \in 1..Len(list), NEW n \in 1..Len(list)
  PROVE  \/ list[m] = list[n]
         \/ EndAddress(list[m]) < list[n].start
         \/ EndAddress(list[n]) < list[m].start
<1>1. list \in ListType /\ AllInSpace(list)
  BY StoredList
<1>2. PICK q : q = ByStart(list)
  OBVIOUS
<1>3. InOrder(q)
  BY <1>1, <1>2, FastPathReads DEF Disjoint
<1>4. \A y : IsIn(q, y) <=> IsIn(list, y)
  BY <1>1, <1>2, SortedList
<1>5. IsIn(list, list[m]) /\ IsIn(list, list[n])
  BY DEF IsIn
<1>6. PICK x \in 1..Len(q), y \in 1..Len(q) : q[x] = list[m] /\ q[y] = list[n]
  BY <1>4, <1>5 DEF IsIn
<1>7. x < y \/ y < x \/ x = y
  OBVIOUS
<1>8. QED
  BY <1>3, <1>6, <1>7 DEF InOrder

\* A multiple keeps the distance of two numbers, or makes it larger.
LEMMA MovesApart ==
  ASSUME NEW x \in Nat, NEW y \in Nat, NEW len \in Nat, x + len <= y,
         NEW factor \in Nat \ {0}
  PROVE  x * factor + len <= y * factor
<1>1. PICK d \in Nat : d = y - x /\ len <= d
  OBVIOUS
<1>2. PICK f \in Nat : f = factor - 1
  OBVIOUS
<1>3. d * f \in Nat
  BY <1>1, <1>2
<1>4. d * factor = d * f + d
  BY <1>1, <1>2
<1>5. y = x + d
  BY <1>1
<1>6. y * factor = x * factor + d * factor
  BY <1>1, <1>5
<1>7. x * factor \in Nat
  OBVIOUS
<1>8. QED
  BY <1>1, <1>3, <1>4, <1>6, <1>7

\* Every byte of a file without overlaps can be read where its segment went.
LEMMA ScaleReads ==
  ASSUME NEW list \in Seq(StoredSegment), Disjoint(list),
         NEW factor \in Nat \ {0}, CanScale(list, factor),
         NEW new, new = Scale(list, factor),
         NEW m \in 1..Len(list), NEW k \in 1..Len(list[m].data)
  PROVE  /\ list[m].start * factor + k - 1 \in Addr
         /\ ReadByte(new, list[m].start * factor + k - 1) = list[m].data[k]
<1>1. DOMAIN list = 1..Len(list) /\ Len(list) \in Nat
  BY LenProperties
<1>2. new \in Seq(StoredSegment)
  BY ScaleStored
<1>3. new \in ListType /\ AllInSpace(new)
  BY <1>2, StoredList
<1>4. Len(new) = Len(list)
  <2>1. DOMAIN new = 1..Len(list)
    BY <1>1 DEF Scale
  <2>2. QED
    BY <1>1, <1>2, <2>1, LenProperties
<1>5. ASSUME NEW n \in 1..Len(list)
      PROVE  /\ list[n].start \in Nat /\ Len(list[n].data) \in Nat \ {0}
             /\ EndAddress(list[n]) = list[n].start + Len(list[n].data) - 1
             /\ new[n].start = list[n].start * factor
             /\ new[n].data = list[n].data
  <2>1. PICK s : s = list[n] /\ InSpace(s)
    BY ElementOfSeq, StoredFacts
  <2>2. s \in [start : Addr, data : Seq(Byte)] /\ s.start \in Nat
        /\ Len(s.data) \in Nat \ {0}
    BY <2>1, LenProperties, MaxAddrAssumption DEF InSpace, Addr
  <2>3. EndAddress(s) = s.start + Len(s.data) - 1
    BY <2>1, SpanInSpace
  <2>4. new[n] = [s EXCEPT !.start = s.start * factor]
    BY <1>1, <2>1 DEF Scale
  <2>5. new[n].start = s.start * factor /\ new[n].data = s.data
    BY <2>2, <2>4
  <2>6. QED
    BY <2>1, <2>2, <2>3, <2>5
<1>6. PICK a \in Int : a = list[m].start * factor + k - 1
  BY <1>5
<1>7. Covers(new[m], a) /\ ByteAt(new[m], a) = list[m].data[k]
  <2>1. PICK at \in Nat, len \in Nat : /\ at = list[m].start * factor /\ at = new[m].start
                                       /\ len = Len(list[m].data)
    BY <1>5
  <2>2. at <= a /\ a < at + len /\ a - at + 1 = k
    BY <1>6, <2>1
  <2>3. new[m].data = list[m].data
    BY <1>5
  <2>4. QED
    BY <2>1, <2>2, <2>3 DEF Covers, ByteAt
<1>8. ASSUME NEW i \in 1..Len(list), NEW j \in 1..Len(list),
             EndAddress(list[i]) < list[j].start
      PROVE  ~(Covers(new[i], a) /\ Covers(new[j], a))
  <2>1. PICK x \in Nat, y \in Nat, len \in Nat :
          x = list[i].start /\ y = list[j].start /\ len = Len(list[i].data)
    BY <1>5
  <2>2. x + len <= y
    <3>1. EndAddress(list[i]) = x + len - 1
      BY <1>5, <2>1
    <3>2. QED
      BY <1>8, <2>1, <3>1
  <2>3. PICK p \in Nat, q \in Nat : p = x * factor /\ q = y * factor
    BY <2>1
  <2>4. p + len <= q
    BY <2>2, <2>3, MovesApart
  <2>5. new[i].start = p /\ new[j].start = q /\ Len(new[i].data) = len
    BY <1>5, <2>1, <2>3
  <2>6. QED
    BY <2>4, <2>5 DEF Covers
<1>9. ASSUME NEW n \in 1..Len(list), Covers(new[n], a)
      PROVE  new[n] = new[m]
  <2>1. ~(EndAddress(list[m]) < list[n].start) /\ ~(EndAddress(list[n]) < list[m].start)
    BY <1>7, <1>8, <1>9
  <2>2. list[m] = list[n]
    BY <2>1, DisjointApart
  <2>3. QED
    BY <1>1, <2>2 DEF Scale
<1>10. \A i, j \in 1..Len(new) : Covers(new[i], a) /\ Covers(new[j], a) => new[i] = new[j]
  BY <1>4, <1>9
<1>11. Holds(new, a, ByteAt(new[m], a))
  BY <1>4, <1>7 DEF Holds, Has
<1>12. LastWins(new, Len(new), a, ByteAt(new[m], a))
  BY <1>3, <1>10, <1>11, DisjointReads
<1>13. ReadByte(new, a) = ByteAt(new[m], a)
  BY <1>3, <1>12, ReadWins
<1>14. a \in Addr
  BY <1>3, <1>4, <1>7, CoveredByte DEF AllInSpace
<1>15. QED
  BY <1>6, <1>7, <1>13, <1>14

\* scale_addresses moves segments apart: where nothing overlapped, every byte
\* can be read where its segment went, whatever the order of the segments.
THEOREM ScalingShowsAll == Spec => ScaleShowsAll
<1>1. TypeOK /\ [Next]_vars =>
        [ Answered("scale_addresses") /\ call'.by > 0 /\ Disjoint(segments) =>
            ShowsAll(segments', LAMBDA x : x * call'.by) ]_vars
  <2> SUFFICES ASSUME TypeOK, Next, Answered("scale_addresses"), call'.by > 0,
                      Disjoint(segments)
               PROVE  ShowsAll(segments', LAMBDA x : x * call'.by)
    OBVIOUS
  <2>1. PICK c \in Calls : AnswerScale(c)
    BY TransformAnswered
  <2>2. PICK by : by = c.by /\ by = call'.by
    BY <2>1 DEF AnswerScale, Begin
  <2>3. by \in Nat \ {0}
    <3>1. by \in Addr
      BY <2>1, <2>2, CallsAssumption DEF AnswerScale, Begin, IsCall
    <3>2. QED
      BY <2>2, <3>1, MaxAddrAssumption DEF Addr
  <2>4. CanScale(segments, by) /\ segments' = Scale(segments, by)
    BY <2>1, <2>2 DEF AnswerScale, OkIf, Ok, Fail, Answered
  <2>5. segments \in Seq(StoredSegment) /\ DOMAIN segments = 1..Len(segments)
    BY LenProperties DEF TypeOK
  <2>6. ASSUME NEW n \in DOMAIN segments, NEW k \in DOMAIN segments[n].data
        PROVE  /\ segments[n].start * by + k - 1 \in Addr
               /\ ReadByte(segments', segments[n].start * by + k - 1) = segments[n].data[k]
    <3>1. PICK s \in StoredSegment : s = segments[n]
      BY <2>5, ElementOfSeq
    <3>2. k \in 1..Len(segments[n].data)
      BY <3>1, StoredFacts, LenProperties DEF InSpace
    <3>3. QED
      BY <2>3, <2>4, <2>5, <3>2, ScaleReads
  <2>7. QED
    BY <2>2, <2>6 DEF ShowsAll
<1>2. QED
  BY <1>1, TypeCorrectness, PTL DEF Spec, ScaleShowsAll

-----------------------------------------------------------------------------
(* split *)

\* One segment gives as many pieces as its length needs, none of them too long.
LEMMA SplitSegmentFits ==
  ASSUME NEW s \in StoredSegment, NEW size \in Nat \ {0},
         NEW new, new = SplitSegment(s, size)
  PROVE  /\ Len(new) = (Len(s.data) + size - 1) \div size
         /\ \A k \in 1..Len(new) : Len(new[k].data) <= size
<1>1. InSpace(s)
  BY StoredFacts
<1>2. PICK len \in Nat \ {0} : len = Len(s.data)
  BY <1>1, LenProperties DEF InSpace
<1>3. PICK at \in Nat, end \in Nat : at = s.start /\ end = EndAddress(s) /\ end = at + len - 1
  BY <1>1, <1>2, SpanInSpace, MaxAddrAssumption DEF Addr
<1>4. CASE len <= size
  <2>1. new = <<s>>
    BY <1>2, <1>4 DEF SplitSegment
  <2>2. PICK x \in Nat : x = len + size - 1 /\ size <= x /\ x < size + size
    <3>1. len + size - 1 \in Nat /\ size <= len + size - 1 /\ len + size - 1 < size + size
      BY <1>4
    <3>2. QED
      BY <3>1
  <2>3. x \div size = 1
    <3>1. size * 1 = size
      OBVIOUS
    <3>2. QED
      BY <2>2, <3>1, Quotient
  <2>4. Len(new) = 1 /\ new[1] = s
    BY <2>1
  <2>5. (Len(s.data) + size - 1) \div size = 1
    BY <1>2, <2>2, <2>3
  <2>6. Len(new[1].data) <= size
    BY <1>2, <1>4, <2>4
  <2>7. \A k \in 1..Len(new) : k = 1
    BY <2>4
  <2>8. QED
    BY <2>4, <2>5, <2>6, <2>7
<1>5. CASE ~(len <= size)
  <2>1. PICK n \in Nat :
          /\ n = (len + size - 1) \div size
          /\ \A k \in 1..n : (k - 1) * size \in 0..(len - 1) /\ k * size = (k - 1) * size + size
    <3>1. PICK n : n = (len + size - 1) \div size
      OBVIOUS
    <3>2. QED
      BY <3>1, ChunkBounds
  <2>2. new = [k \in 1..n |-> Clip(s, s.start + (k - 1) * size,
                                   Min({s.start + k * size - 1, EndAddress(s)}))]
    BY <1>2, <1>5, <2>1 DEF SplitSegment
  <2>3. Len(new) = n
    <3>1. new \in Seq(StoredSegment) /\ DOMAIN new = 1..n
      BY <2>2, SplitSegmentReads
    <3>2. QED
      BY <3>1, LenProperties
  <2>4. ASSUME NEW k \in 1..n
        PROVE  Len(new[k].data) <= size
    <3>1. PICK b \in 0..(len - 1) : b = (k - 1) * size /\ k * size = b + size
      BY <2>1
    <3>2. PICK lo \in Int, next \in Int : lo = at + b /\ next = at + (b + size) - 1
      BY <1>3
    <3>3. PICK hi \in Int : hi = Min({next, end}) /\ hi = IF next <= end THEN next ELSE end
      BY MinOfTwo
    <3>4. new[k] = Clip(s, lo, hi)
      BY <1>3, <2>2, <3>1, <3>2, <3>3
    <3>5. at <= lo /\ lo <= hi /\ hi <= end /\ hi - lo < size
      BY <1>3, <3>1, <3>2, <3>3
    <3>6. PICK p : p = new[k] /\ InSpace(p) /\ p.start = lo /\ EndAddress(p) = hi
      <4>1. s.start <= lo /\ hi <= EndAddress(s)
        BY <1>3, <3>5
      <4>2. PICK p : p = Clip(s, lo, hi)
        OBVIOUS
      <4>3. InSpace(p) /\ p.start = lo /\ EndAddress(p) = hi
        BY <1>1, <3>5, <4>1, <4>2, ClipInSpace
      <4>4. QED
        BY <3>4, <4>2, <4>3
    <3>7. EndAddress(p) = p.start + Len(p.data) - 1 /\ Len(p.data) \in Nat
      BY <3>6, SpanInSpace, LenProperties DEF InSpace
    <3>8. QED
      BY <3>5, <3>6, <3>7
  <2>5. QED
    BY <1>2, <2>1, <2>3, <2>4
<1>6. QED
  BY <1>4, <1>5

\* The pieces that the segments of the list need.
PiecesOf(list, size) ==
  FoldLeft(LAMBDA sum, s : sum + (Len(s.data) + size - 1) \div size, 0, list)

\* The sum, one segment after the other.
LEMMA PiecesRun ==
  ASSUME NEW list \in Seq(StoredSegment), NEW size \in Nat \ {0}
  PROVE  \E acc \in [0..Len(list) -> Nat] :
           /\ acc[0] = 0
           /\ \A k \in 1..Len(list) :
                acc[k] = acc[k - 1] + (Len(list[k].data) + size - 1) \div size
           /\ PiecesOf(list, size) = acc[Len(list)]
<1> DEFINE n == Len(list)
           New(k) == (Len(list[k].data) + size - 1) \div size
           A == Nat
           F == [p \in A \X (1..n) |-> p[1] + New(p[2])]
           E(g) == g = [ix \in SUBSET (1..n) |->
                     IF ix = {} THEN 0
                     ELSE LET mx == Max(ix)
                          IN g[ix \ {mx}] + (Len(list[mx].data) + size - 1) \div size]
           g == CHOOSE h : E(h)
<1>1. DOMAIN list = 1..n /\ n \in Nat
  BY LenProperties
<1>2. PiecesOf(list, size) = g[1..n]
  BY <1>1, Zenon DEF PiecesOf, FoldLeft, MapThenFoldSet
<1>3. \A k \in 1..n : New(k) \in Nat
  <2> SUFFICES ASSUME NEW k \in 1..n
               PROVE  New(k) \in Nat
    OBVIOUS
  <2>1. PICK x \in Nat : x = Len(list[k].data) + size - 1
    <3>1. PICK s \in StoredSegment : s = list[k]
      BY ElementOfSeq
    <3>2. PICK len \in Nat : len = Len(s.data)
      BY StoredFacts, LenProperties DEF InSpace
    <3>3. len + size - 1 \in Nat
      OBVIOUS
    <3>4. Len(list[k].data) = len
      BY <3>1, <3>2
    <3>5. QED
      BY <3>3, <3>4
  <2>2. x \div size \in Nat
    BY DivisionFacts
  <2>3. QED
    BY <2>1, <2>2
<1>4. \A ix \in SUBSET (1..n) : ix # {} => Max(ix) \in 1..n /\ ix \ {Max(ix)} \in SUBSET (1..n)
  BY <1>1, MaxUpTo
<1>5. \A ix \in SUBSET (1..n) : E(g) /\ ix # {} => g[ix] = g[ix \ {Max(ix)}] + New(Max(ix))
  OBVIOUS
<1>6. ASSUME NEW h, h \in [SUBSET (1..n) -> A], h[{}] = 0,
             \A ix \in SUBSET (1..n) : ix # {} => h[ix] = h[ix \ {Max(ix)}] + New(Max(ix))
      PROVE  E(h)
  BY <1>6
<1> HIDE DEF New
<1>7. IsStep(F, n, A) /\ 0 \in A
  BY <1>3 DEF IsStep
<1>8. \A k \in 1..n, y \in A : F[<<y, k>>] = y + New(k)
  OBVIOUS
<1> HIDE DEF n, F, A
<1>9. \E h : E(h)
  <2>1. PICK h \in [SUBSET (1..n) -> A] : Folds(h, n, 0, F)
    BY <1>1, <1>7, FoldExists
  <2>2. \A ix \in SUBSET (1..n) : ix # {} => h[ix] = h[ix \ {Max(ix)}] + New(Max(ix))
    BY <2>1, <1>4, <1>8 DEF Folds
  <2>3. h[{}] = 0
    BY <2>1 DEF Folds
  <2> HIDE DEF E
  <2>4. E(h)
    BY <2>1, <2>2, <2>3, <1>6
  <2>5. QED
    BY <2>4, Zenon
<1>10. E(g) /\ g[{}] = 0
  <2>1. E(g)
    <3> HIDE DEF E
    <3>1. QED
      BY <1>9, Zenon
  <2>2. QED
    BY <2>1
<1> HIDE DEF g
<1>11. FoldsWithin(g, n, A, 0, F)
  <2> HIDE DEF E
  <2>1. QED
    BY <1>4, <1>5, <1>8, <1>10 DEF FoldsWithin
<1> HIDE DEF E
<1>12. PICK acc : IsRun(acc, n, A, 0, F) /\ g[1..n] = acc[n]
  BY <1>1, <1>7, <1>11, FoldRun
<1>13. \A k \in 1..n : acc[k] = acc[k - 1] + New(k)
  <2> SUFFICES ASSUME NEW k \in 1..n
               PROVE  acc[k] = F[<<acc[k - 1], k>>] /\ acc[k - 1] \in A
    BY <1>8
  <2>1. k - 1 \in 0..n
    BY <1>1
  <2>2. QED
    BY <2>1, <1>12 DEF IsRun
<1>14. QED
  BY <1>2, <1>12, <1>13 DEF IsRun, n, New, A

LEMMA SplitFitsSize ==
  ASSUME NEW list \in Seq(StoredSegment), NEW size \in Nat \ {0},
         NEW new, new = Split(list, size)
  PROVE  /\ \A k \in DOMAIN new : Len(new[k].data) <= size
         /\ Len(new) = PiecesOf(list, size)
<1> DEFINE n == Len(list)
           Short == {s \in StoredSegment : Len(s.data) <= size}
<1>1. DOMAIN list = 1..n /\ n \in Nat
  BY LenProperties
<1>2. PICK f : f = [k \in 1..n |-> SplitSegment(list[k], size)]
  OBVIOUS
<1>3. ASSUME NEW k \in 1..n
      PROVE  f[k] \in Seq(Short) /\ Len(f[k]) = (Len(list[k].data) + size - 1) \div size
  <2>1. PICK s \in StoredSegment : s = list[k]
    BY ElementOfSeq
  <2>2. PICK p : p = SplitSegment(s, size) /\ p = f[k]
    BY <1>2, <2>1
  <2>3. p \in Seq(StoredSegment)
    BY <2>2, SplitSegmentReads
  <2>4. Len(p) = (Len(s.data) + size - 1) \div size /\ \A i \in 1..Len(p) : Len(p[i].data) <= size
    BY <2>2, SplitSegmentFits
  <2>5. \A i \in 1..Len(p) : p[i] \in Short
    BY <2>3, <2>4, ElementOfSeq
  <2>6. p = [i \in 1..Len(p) |-> p[i]] /\ Len(p) \in Nat
    BY <2>3, SeqDef, LenProperties
  <2> HIDE DEF Short
  <2>7. p \in Seq(Short)
    BY <2>5, <2>6, IsASeq
  <2>8. QED
    BY <2>1, <2>2, <2>4, <2>7
<1>4. f \in Seq(Seq(Short)) /\ Len(f) = n
  <2>1. f = [k \in 1..n |-> f[k]]
    BY <1>2
  <2> HIDE DEF n, Short
  <2>2. QED
    BY <1>1, <1>3, <2>1, MadeStored
<1>5. \A s \in Short : s \in StoredSegment /\ Len(s.data) <= size
  OBVIOUS
<1> HIDE DEF n, Short
<1>6. PICK acc \in [0..n -> Seq(Short)] :
        /\ acc[0] = <<>>
        /\ \A k \in 1..n : acc[k] = acc[k - 1] \o f[k]
        /\ FlattenSeq(f) = acc[n]
  BY <1>4, FlattenRun
<1>7. PICK sum \in [0..n -> Nat] :
        /\ sum[0] = 0
        /\ \A k \in 1..n : sum[k] = sum[k - 1] + (Len(list[k].data) + size - 1) \div size
        /\ PiecesOf(list, size) = sum[n]
  BY PiecesRun DEF n
<1> DEFINE T == {k \in 0..n : Len(acc[k]) = sum[k]}
<1>8. 0 \in T
  BY <1>1, <1>6, <1>7
<1>9. ASSUME NEW k \in 0..(n - 1), k \in T
      PROVE  k + 1 \in T
  <2>1. k + 1 \in 1..n /\ k + 1 \in 0..n /\ k \in 0..n /\ (k + 1) - 1 = k
    BY <1>1
  <2>2. acc[k + 1] = acc[k] \o f[k + 1] /\ acc[k] \in Seq(Short) /\ f[k + 1] \in Seq(Short)
    BY <1>3, <1>6, <2>1
  <2>3. Len(acc[k + 1]) = Len(acc[k]) + Len(f[k + 1])
    BY <2>2, ConcatProperties
  <2>4. sum[k + 1] = sum[k] + Len(f[k + 1])
    BY <1>3, <1>7, <2>1
  <2>5. QED
    BY <1>9, <2>1, <2>3, <2>4
<1>10. Len(acc[n]) = sum[n]
  <2> HIDE DEF T
  <2>1. \A k \in 0..n : k \in T
    BY <1>1, <1>8, <1>9, InductionUpTo
  <2>2. n \in T
    BY <1>1, <2>1
  <2>3. QED
    BY <2>2 DEF T
<1>11. PICK flat : flat = FlattenSeq(f) /\ flat = acc[n] /\ flat \in Seq(Short)
  BY <1>1, <1>6
<1>12. \A k \in 1..Len(flat) : flat[k] \in StoredSegment /\ Len(flat[k].data) <= size
  BY <1>5, <1>11, ElementOfSeq
<1>13. flat \in Seq(StoredSegment)
  <2>1. flat = [k \in 1..Len(flat) |-> flat[k]] /\ Len(flat) \in Nat
    BY <1>11, SeqDef, LenProperties
  <2>2. QED
    BY <1>12, <2>1, IsASeq
<1>14. NonEmpty(flat) = flat
  BY <1>13, StoredList, NonEmptyKeeps
<1>15. new = flat
  <2>1. new = NonEmpty(FlattenSeq(f))
    BY <1>1, <1>2 DEF Split
  <2>2. QED
    BY <1>11, <1>14, <2>1
<1>16. DOMAIN new = 1..Len(new)
  BY <1>13, <1>15, LenProperties
<1>17. QED
  BY <1>7, <1>10, <1>11, <1>12, <1>15, <1>16

\* split leaves no piece longer than the size asked for, and makes no more
\* pieces of a segment than that needs.
THEOREM SplittingFits == Spec => SplitFits
<1>1. TypeOK /\ [Next]_vars =>
        [ Answered("split") /\ call'.size > 0 =>
            /\ \A n \in DOMAIN segments' : Len(segments'[n].data) <= call'.size
            /\ Len(segments') =
                 FoldLeft(LAMBDA sum, s : sum + (Len(s.data) + call'.size - 1) \div call'.size,
                          0, segments) ]_vars
  <2> SUFFICES ASSUME TypeOK, Next, Answered("split"), call'.size > 0
               PROVE  /\ \A n \in DOMAIN segments' : Len(segments'[n].data) <= call'.size
                      /\ Len(segments') = PiecesOf(segments, call'.size)
    BY DEF PiecesOf
  <2>1. PICK c \in Calls : AnswerSplit(c)
    BY TransformAnswered
  <2>2. PICK size : size = c.size /\ size = call'.size
    BY <2>1 DEF AnswerSplit, Begin
  <2>3. size \in Nat \ {0}
    <3>1. size \in Addr
      BY <2>1, <2>2, CallsAssumption DEF AnswerSplit, Begin, IsCall
    <3>2. QED
      BY <2>2, <3>1, MaxAddrAssumption DEF Addr
  <2>4. segments' = Split(segments, size) /\ segments \in Seq(StoredSegment)
    BY <2>1, <2>2 DEF AnswerSplit, Ok, TypeOK
  <2>5. QED
    BY <2>2, <2>3, <2>4, SplitFitsSize
<1>2. QED
  BY <1>1, TypeCorrectness, PTL DEF Spec, SplitFits

-----------------------------------------------------------------------------
(* align *)

LEMMA MultipleIs ==
  ASSUME NEW y \in Nat \ {0}, NEW q \in Nat, NEW x, x = y * q
  PROVE  x \in Nat /\ x % y = 0
<1>1. x \in Nat /\ y * q <= x /\ x < y * q + y
  OBVIOUS
<1>2. x \div y = q
  BY <1>1, Quotient
<1>3. PICK r \in Nat : r = x % y /\ x = y * (x \div y) + r
  BY <1>1, DivisionFacts
<1>4. x = x + r
  BY <1>2, <1>3
<1>5. QED
  BY <1>1, <1>3, <1>4

\* Rounded down, a number is a multiple, and so is the next one.
LEMMA DownIsMultiple ==
  ASSUME NEW x \in Nat, NEW al \in Nat \ {0}
  PROVE  AlignDown(x, al) % al = 0 /\ (AlignDown(x, al) + al) % al = 0
<1>1. PICK q \in Nat, r \in Nat : q = x \div al /\ r = x % al /\ x = al * q + r
  BY DivisionFacts
<1>2. PICK p \in Nat : p = al * q
  BY <1>1
<1>3. AlignDown(x, al) = p
  BY <1>1, <1>2 DEF AlignDown
<1>4. p + al = al * (q + 1) /\ q + 1 \in Nat
  BY <1>1, <1>2
<1>5. QED
  BY <1>2, <1>3, <1>4, MultipleIs

\* The addresses align makes of the segment s: its own and its padding.
AlignedTop(s, al, length) ==
  IF length THEN AlignUp(EndAddress(s) + 1, al) - 1 ELSE EndAddress(s)

InAligned(s, al, length, a) ==
  AlignDown(s.start, al) <= a /\ a <= AlignedTop(s, al, length)

LEMMA AlignedSegment ==
  ASSUME NEW s \in StoredSegment, NEW al \in Nat \ {0}, NEW length \in BOOLEAN
  PROVE  /\ AlignDown(s.start, al) \in Nat /\ AlignedTop(s, al, length) \in Nat
         /\ \A a \in Int : InAligned(s, al, length, a)
                             <=> Covers(s, a) \/ PadsSegment(s, al, length, a)
<1>1. PICK at \in Nat, end \in Nat : /\ at = s.start /\ end = EndAddress(s) /\ at <= end
                                     /\ \A a \in Int : Covers(s, a) <=> at <= a /\ a <= end
  BY StoredFacts, SpanInSpace, MaxAddrAssumption DEF Addr
<1>2. PICK down \in Nat : down = AlignDown(at, al) /\ down <= at
  BY DownIs
<1>3. PICK v \in Nat : v = end + 1
  OBVIOUS
<1>4. PICK up \in Nat : up = AlignUp(v, al) /\ v <= up
  <2>1. PICK low : low = AlignDown(v, al)
    OBVIOUS
  <2>2. low \in Nat /\ v < low + al
    BY <2>1, DownIs
  <2>3. AlignUp(v, al) = IF low = v \/ low + al > MaxAddr THEN v ELSE low + al
    BY <2>1, UpIs
  <2>4. AlignUp(v, al) \in Nat /\ v <= AlignUp(v, al)
    BY <2>2, <2>3
  <2>5. QED
    BY <2>4
<1>5. PICK top \in Nat : /\ top = AlignedTop(s, al, length)
                         /\ top = IF length THEN up - 1 ELSE end
  <2>1. AlignedTop(s, al, length) = IF length THEN up - 1 ELSE end
    BY <1>1, <1>3, <1>4 DEF AlignedTop
  <2>2. (IF length THEN up - 1 ELSE end) \in Nat
    BY <1>3, <1>4
  <2>3. QED
    BY <2>1, <2>2
<1>6. ASSUME NEW a \in Int
      PROVE  InAligned(s, al, length, a) <=> Covers(s, a) \/ PadsSegment(s, al, length, a)
  <2>1. InAligned(s, al, length, a) <=> down <= a /\ a <= top
    BY <1>1, <1>2, <1>5 DEF InAligned
  <2>2. PadsSegment(s, al, length, a) <=> (down <= a /\ a < at) \/ (length /\ end < a /\ a < up)
    BY <1>1, <1>2, <1>3, <1>4 DEF PadsSegment
  <2>3. Covers(s, a) <=> at <= a /\ a <= end
    BY <1>1
  <2>4. CASE length
    <3>1. /\ InAligned(s, al, length, a) <=> down <= a /\ a <= up - 1
          /\ PadsSegment(s, al, length, a) <=> (down <= a /\ a < at) \/ (end < a /\ a < up)
      BY <1>5, <2>1, <2>2, <2>4
    <3>2. down <= at /\ at <= end /\ end < up
      BY <1>1, <1>2, <1>3, <1>4
    <3>3. down <= a /\ a <= up - 1 <=>
            (at <= a /\ a <= end) \/ (down <= a /\ a < at) \/ (end < a /\ a < up)
      BY <1>4, <3>2
    <3>4. QED
      BY <2>3, <3>1, <3>3
  <2>5. CASE ~length
    BY <1>1, <1>2, <1>5, <2>1, <2>2, <2>3, <2>5
  <2>6. QED
    BY <2>4, <2>5
<1>7. QED
  BY <1>1, <1>2, <1>5, <1>6

\* What is covered after align.
LEMMA AlignCovers ==
  ASSUME NEW list \in Seq(StoredSegment), Covered(list) # Addr,
         NEW al \in Nat \ {0}, NEW byte \in Byte, NEW length \in BOOLEAN,
         NEW normal, normal = Normalized(list),
         NEW new, new = Align(list, al, byte, length), Covered(new) # Addr,
         NEW a \in Int
  PROVE  a \in Covered(new) <=> \E n \in 1..Len(normal) : InAligned(normal[n], al, length, a)
<1>1. list \in ListType /\ AllInSpace(list)
  BY StoredList
<1>2. /\ new \in Seq(StoredSegment)
      /\ ReadByte(new, a) =
              IF ReadByte(list, a) # None THEN ReadByte(list, a)
              ELSE IF \E m \in 1..Len(normal) : PadsSegment(normal[m], al, length, a)
                THEN byte ELSE None
  BY AlignReads
<1>3. a \in Covered(new) <=> ReadByte(new, a) # None
  BY <1>2, StoredList, CoveredIs
<1>4. ReadByte(list, a) # None <=> \E n \in 1..Len(normal) : Covers(normal[n], a)
  <2>1. normal \in ListType /\ AllInSpace(normal)
    BY <1>1, NormalizedReads
  <2>2. ReadByte(normal, a) = ReadByte(list, a)
    BY <1>1, ReadNormalized
  <2>3. QED
    BY <2>1, <2>2, ReadCovered
<1>5. normal \in Seq(StoredSegment)
  BY NormalizedStored
<1>6. \A n \in 1..Len(normal) : InAligned(normal[n], al, length, a)
        <=> Covers(normal[n], a) \/ PadsSegment(normal[n], al, length, a)
  <2> SUFFICES ASSUME NEW n \in 1..Len(normal)
               PROVE  InAligned(normal[n], al, length, a)
                        <=> Covers(normal[n], a) \/ PadsSegment(normal[n], al, length, a)
    OBVIOUS
  <2>1. PICK s \in StoredSegment : s = normal[n]
    BY <1>5, ElementOfSeq
  <2>2. QED
    BY <2>1, AlignedSegment
<1>7. byte # None
  BY ByteAssumption
<1>8. QED
  BY <1>2, <1>3, <1>4, <1>6, <1>7

\* Where the address below is not covered, a run starts.
LEMMA AlignedStart ==
  ASSUME NEW list \in Seq(StoredSegment), Covered(list) # Addr,
         NEW al \in Nat \ {0}, NEW byte \in Byte, NEW length \in BOOLEAN,
         NEW new, new = Align(list, al, byte, length), Covered(new) # Addr,
         NEW a \in Covered(new), a - 1 \notin Covered(new)
  PROVE  a % al = 0
<1>1. PICK normal : normal = Normalized(list) /\ normal \in Seq(StoredSegment)
  BY NormalizedStored
<1>2. a \in Int /\ a - 1 \in Int
  BY MaxAddrAssumption DEF Covered, Addr
<1>3. PICK n \in 1..Len(normal) : InAligned(normal[n], al, length, a)
  BY <1>1, <1>2, AlignCovers
<1>4. ~InAligned(normal[n], al, length, a - 1)
  BY <1>1, <1>2, AlignCovers
<1>5. PICK s \in StoredSegment : s = normal[n]
  BY <1>1, ElementOfSeq
<1>6. PICK down \in Nat, top \in Nat :
        down = AlignDown(s.start, al) /\ top = AlignedTop(s, al, length)
  BY AlignedSegment
<1>7. a = down
  BY <1>2, <1>3, <1>4, <1>5, <1>6 DEF InAligned
<1>8. s.start \in Nat
  BY StoredFacts, MaxAddrAssumption DEF InSpace, Addr
<1>9. QED
  BY <1>6, <1>7, <1>8, DownIsMultiple

\* The first address after a run.
LEMMA AlignedEnd ==
  ASSUME NEW list \in Seq(StoredSegment), Covered(list) # Addr,
         NEW al \in Nat \ {0}, NEW byte \in Byte, NEW length \in BOOLEAN, length,
         NEW new, new = Align(list, al, byte, length), Covered(new) # Addr,
         NEW e \in Int, e - 1 \in Covered(new), e \notin Covered(new)
  PROVE  \/ e % al = 0
         \/ AlignDown(e, al) + al > MaxAddr /\ e - 1 \in Covered(list)
<1>1. PICK normal : normal = Normalized(list) /\ normal \in Seq(StoredSegment)
  BY NormalizedStored
<1>2. e - 1 \in Int
  OBVIOUS
<1>3. PICK n \in 1..Len(normal) : InAligned(normal[n], al, length, e - 1)
  BY <1>1, <1>2, AlignCovers
<1>4. ~InAligned(normal[n], al, length, e)
  BY <1>1, AlignCovers
<1>5. PICK s \in StoredSegment : s = normal[n]
  BY <1>1, ElementOfSeq
<1>6. PICK down \in Nat, top \in Nat :
        down = AlignDown(s.start, al) /\ top = AlignedTop(s, al, length)
  BY AlignedSegment
<1>7. e = top + 1
  <2>1. down <= e - 1 /\ e - 1 <= top
    BY <1>3, <1>5, <1>6 DEF InAligned
  <2>2. ~(down <= e /\ e <= top)
    BY <1>4, <1>5, <1>6 DEF InAligned
  <2>3. QED
    BY <2>1, <2>2
<1>8. PICK v \in Nat : v = EndAddress(s) + 1
  BY StoredFacts, SpanInSpace, MaxAddrAssumption DEF Addr
<1>9. PICK low \in Nat : low = AlignDown(v, al) /\ low <= v
  BY DownIs
<1>10. PICK up : up = AlignUp(v, al) /\ up = IF low = v \/ low + al > MaxAddr THEN v ELSE low + al
  BY <1>9, UpIs
<1>11. up \in Nat
  BY <1>8, <1>9, <1>10
<1>12. e = up
  <2>1. top = up - 1
    BY <1>6, <1>8, <1>10 DEF AlignedTop
  <2>2. QED
    BY <1>7, <1>11, <2>1
<1>13. CASE low = v
  BY <1>8, <1>9, <1>10, <1>12, <1>13, DownIsMultiple
<1>14. CASE low # v /\ low + al > MaxAddr
  <2>1. PICK end \in Int : end = EndAddress(s) /\ Covers(s, end)
    BY <1>5, StoredFacts, SpanInSpace, MaxAddrAssumption DEF Addr
  <2>2. e = v /\ e - 1 = end
    BY <1>8, <1>10, <1>12, <1>14, <2>1
  <2>3. list \in ListType /\ AllInSpace(list)
    BY StoredList
  <2>4. e - 1 \in Covered(list)
    BY <1>1, <1>2, <1>5, <2>1, <2>2, <2>3, NormalRun
  <2>5. QED
    BY <1>9, <1>14, <2>2, <2>4
<1>15. CASE low # v /\ ~(low + al > MaxAddr)
  BY <1>8, <1>9, <1>10, <1>12, <1>15, DownIsMultiple
<1>16. QED
  BY <1>13, <1>14, <1>15

\* The runs of the image end where the definition looks for their end.
RunsEnd ==
  \A a \in RunStarts : RunEnd(a) \in Covered(segments) /\ RunEnd(a) + 1 \notin Covered(segments)

LEMMA RunsHaveEnds ==
  ASSUME TypeOK
  PROVE  RunsEnd
<1> SUFFICES ASSUME NEW a \in RunStarts
             PROVE  RunEnd(a) \in Covered(segments) /\ RunEnd(a) + 1 \notin Covered(segments)
  BY DEF RunsEnd
<1>1. segments \in Seq(StoredSegment) /\ segments \in ListType /\ AllInSpace(segments)
  BY StoredList DEF TypeOK
<1>2. PICK normal : normal = Normalized(segments)
  OBVIOUS
<1>3. PICK n \in 1..Len(normal) : normal[n].start = a
  BY <1>1, <1>2, RunStartsAre
<1>4. PICK s : /\ s = normal[n] /\ InSpace(s)
               /\ \A x \in Int : Covers(s, x) => x \in Covered(segments)
               /\ EndAddress(s) + 1 \notin Covered(segments)
  BY <1>1, <1>2, NormalRun
<1>5. RunEnd(s.start) = EndAddress(s)
  BY <1>1, <1>4, RunEndIs
<1>6. EndAddress(s) \in Int /\ Covers(s, EndAddress(s))
  BY <1>4, SpanInSpace, MaxAddrAssumption DEF Addr
<1>7. QED
  BY <1>3, <1>4, <1>5, <1>6

\* Whatever overlaps, neighbours and gaps the padding meets, every run of bytes
\* starts at a multiple of the alignment after align, and with align_length ends
\* before one, or in the last block of the address space with its data.
THEOREM AligningAligns == Spec => AlignsRuns
<1>1. TypeOK => RunsEnd
  BY RunsHaveEnds
<1>2. TypeOK /\ RunsEnd' /\ [Next]_vars =>
        [ Answered("align") =>
            LET al == call'.alignment
                starts == RunStarts'
                ends == { (RunEnd(a) + 1)' : a \in starts }
            IN /\ \A a \in starts : a % al = 0
               /\ call'.length => \A e \in ends :
                    \/ e % al = 0
                    \/ AlignDown(e, al) + al > MaxAddr /\ e - 1 \in Covered(segments) ]_vars
  <2> SUFFICES ASSUME TypeOK, RunsEnd', Next, Answered("align")
               PROVE  /\ \A a \in RunStarts' : a % call'.alignment = 0
                      /\ call'.length => \A a \in RunStarts' :
                           \/ (RunEnd(a) + 1)' % call'.alignment = 0
                           \/ /\ AlignDown((RunEnd(a) + 1)', call'.alignment) + call'.alignment > MaxAddr
                              /\ (RunEnd(a) + 1)' - 1 \in Covered(segments)
    OBVIOUS
  <2>1. PICK c \in Calls : AnswerAlign(c)
    BY TransformAnswered
  <2>2. PICK al, byte, length : al = c.alignment /\ byte = c.byte /\ length = c.length
    OBVIOUS
  <2>3. al = call'.alignment /\ length = call'.length
    BY <2>1, <2>2 DEF AnswerAlign, Begin
  <2>4. al \in Nat \ {0} /\ byte \in Byte /\ length \in BOOLEAN
    <3>1. al \in Addr /\ byte \in Byte /\ length \in BOOLEAN
      BY <2>1, <2>2, CallsAssumption DEF AnswerAlign, Begin, IsCall
    <3>2. al # 0
      BY <2>1, <2>2 DEF AnswerAlign, OkIf, Fail, Answered
    <3>3. QED
      BY <3>1, <3>2, MaxAddrAssumption DEF Addr
  <2>5. PICK list : list = segments /\ list \in Seq(StoredSegment) /\ Covered(list) # Addr
    BY <2>1 DEF TypeOK, AnswerAlign, HasGap
  <2>6. PICK new : new = segments' /\ new = Align(list, al, byte, length) /\ Covered(new) # Addr
    BY <2>1, <2>2, <2>4, <2>5 DEF AnswerAlign, OkIf, Ok
  <2>7. ASSUME NEW a \in RunStarts'
        PROVE  a \in Covered(new) /\ a - 1 \notin Covered(new)
    BY <2>6 DEF RunStarts
  <2>8. ASSUME NEW a \in RunStarts', length
        PROVE  \/ (RunEnd(a) + 1)' % al = 0
               \/ /\ AlignDown((RunEnd(a) + 1)', al) + al > MaxAddr
                  /\ (RunEnd(a) + 1)' - 1 \in Covered(list)
    <3>1. PICK end : /\ end = RunEnd(a)' /\ end \in Covered(new)
                     /\ end + 1 \notin Covered(new)
      BY <2>6, <2>8 DEF RunsEnd
    <3>2. end \in Int
      BY <3>1, MaxAddrAssumption DEF Covered, Addr
    <3>3. PICK e \in Int : e = end + 1 /\ e - 1 = end
      BY <3>2
    <3>4. \/ e % al = 0
          \/ AlignDown(e, al) + al > MaxAddr /\ e - 1 \in Covered(list)
      BY <2>4, <2>5, <2>6, <2>8, <3>1, <3>3, AlignedEnd
    <3>5. QED
      BY <3>1, <3>3, <3>4
  <2>9. \A a \in RunStarts' : a % al = 0
    BY <2>4, <2>5, <2>6, <2>7, AlignedStart
  <2>10. QED
    BY <2>3, <2>5, <2>8, <2>9
<1>3. QED
  BY <1>1, <1>2, TypeCorrectness, PTL DEF Spec, AlignsRuns

-----------------------------------------------------------------------------
(* swap_bytes *)

\* The same segments with other bytes.
SameShape(new, list) ==
  /\ Len(new) = Len(list)
  /\ \A n \in 1..Len(list) :
       new[n].start = list[n].start /\ Len(new[n].data) = Len(list[n].data)

\* The byte at a of each new segment is that at b of the old one.
TakesFrom(new, list, a, b) ==
  \A n \in 1..Len(list) :
    /\ Covers(list[n], a) <=> Covers(list[n], b)
    /\ Covers(list[n], a) => ByteAt(new[n], a) = ByteAt(list[n], b)

LEMMA ShapeCovers ==
  ASSUME NEW list, NEW new, SameShape(new, list), NEW n \in 1..Len(list), NEW a
  PROVE  Covers(new[n], a) <=> Covers(list[n], a)
  BY DEF SameShape, Covers

\* Where all segments that cover an address agree, their order does not matter.
LEMMA ReadsTheSame ==
  ASSUME NEW list \in Seq(StoredSegment), NEW a \in Int, NEW b,
         \E n \in 1..Len(list) : Covers(list[n], a),
         \A n \in 1..Len(list) : Covers(list[n], a) => ByteAt(list[n], a) = b
  PROVE  ReadByte(list, a) = b
<1>1. list \in ListType /\ AllInSpace(list)
  BY StoredList
<1>2. LastWins(list, Len(list), a, ReadByte(list, a))
  BY <1>1, ReadIsLastWins
<1>3. PICK m \in 1..Len(list) : Covers(list[m], a) /\ ByteAt(list[m], a) = ReadByte(list, a)
  BY <1>2 DEF LastWins, Has
<1>4. QED
  BY <1>3

LEMMA TakesReads ==
  ASSUME NEW list \in Seq(StoredSegment), NEW new \in Seq(StoredSegment),
         SameShape(new, list), NEW a \in Int, NEW b \in Int, TakesFrom(new, list, a, b)
  PROVE  ReadByte(new, a) = ReadByte(list, b)
<1>1. /\ list \in ListType /\ AllInSpace(list)
      /\ new \in ListType /\ AllInSpace(new) /\ Len(new) = Len(list)
  BY StoredList DEF SameShape
<1>2. \A n \in 1..Len(list) : Covers(new[n], a) <=> Covers(list[n], b)
  BY ShapeCovers DEF TakesFrom
<1>3. CASE \E n \in 1..Len(list) : Covers(list[n], b)
  <2>1. LastWins(list, Len(list), b, ReadByte(list, b))
    BY <1>1, <1>3, ReadIsLastWins
  <2>2. PICK m \in 1..Len(list) :
          /\ Covers(list[m], b) /\ ByteAt(list[m], b) = ReadByte(list, b)
          /\ \A l \in (m + 1)..Len(list) : ~Covers(list[l], b)
    BY <2>1 DEF LastWins, Has
  <2>3. Covers(new[m], a) /\ ByteAt(new[m], a) = ReadByte(list, b)
    BY <1>2, <2>2 DEF TakesFrom
  <2>4. \A l \in (m + 1)..Len(new) : ~Covers(new[l], a)
    <3>1. \A l \in (m + 1)..Len(new) : l \in (m + 1)..Len(list) /\ l \in 1..Len(list)
      BY <1>1
    <3>2. QED
      BY <1>2, <2>2, <3>1
  <2>5. QED
    BY <1>1, <2>3, <2>4, ReadLast
<1>4. CASE ~\E n \in 1..Len(list) : Covers(list[n], b)
  <2>1. ReadByte(list, b) = None
    BY <1>1, <1>4, ReadIsLastWins
  <2>2. ReadByte(new, a) = None
    BY <1>1, <1>2, <1>4, ReadIsLastWins
  <2>3. QED
    BY <2>1, <2>2
<1>5. QED
  BY <1>3, <1>4

\* The address that changes places with a in its chunk.
Mirror(a, chunk) == a - (a % chunk) + (chunk - 1) - (a % chunk)

\* In a segment of whole aligned chunks both or none are covered, and the one's
\* position is the other's reversed.
LEMMA MirrorCovered ==
  ASSUME NEW chunk \in {2, 4}, NEW at \in Nat, NEW len \in Nat,
         at % chunk = 0, len % chunk = 0, NEW a \in Int
  PROVE  /\ Mirror(a, chunk) \in Int
         /\ at <= a /\ a < at + len <=> at <= Mirror(a, chunk) /\ Mirror(a, chunk) < at + len
         /\ at <= a /\ a < at + len =>
              Reversed(a - at + 1, len, chunk) = Mirror(a, chunk) - at + 1
<1>1. CASE chunk = 2
  <2>1. PICK b \in Int : b = Mirror(a, chunk) /\ b = a - (a % 2) + 1 - (a % 2)
    BY <1>1 DEF Mirror
  <2>2. at % 2 = 0 /\ len % 2 = 0
    BY <1>1
  <2>3. at <= a /\ a < at + len <=> at <= b /\ b < at + len
    BY <2>1, <2>2
  <2>4. ASSUME at <= a, a < at + len
        PROVE  Reversed(a - at + 1, len, chunk) = b - at + 1
    <3>1. PICK k \in Int : k = a - at + 1
      OBVIOUS
    <3>2. (k - 1) % 2 = a % 2
      BY <2>2, <3>1
    <3>3. PICK first \in Int : first = k - (a % 2)
      BY <3>1
    <3>4. ~(first + 2 - 1 > len)
      BY <2>2, <2>4, <3>1, <3>3
    <3>5. Reversed(k, len, chunk) = first + 2 - 1 - (k - first)
      BY <1>1, <3>2, <3>3, <3>4 DEF Reversed
    <3>6. QED
      BY <2>1, <3>1, <3>3, <3>5
  <2>5. QED
    BY <2>1, <2>3, <2>4
<1>2. CASE chunk = 4
  <2>1. PICK b \in Int : b = Mirror(a, chunk) /\ b = a - (a % 4) + 3 - (a % 4)
    BY <1>2 DEF Mirror
  <2>2. at % 4 = 0 /\ len % 4 = 0
    BY <1>2
  <2>3. at <= a /\ a < at + len <=> at <= b /\ b < at + len
    BY <2>1, <2>2
  <2>4. ASSUME at <= a, a < at + len
        PROVE  Reversed(a - at + 1, len, chunk) = b - at + 1
    <3>1. PICK k \in Int : k = a - at + 1
      OBVIOUS
    <3>2. (k - 1) % 4 = a % 4
      BY <2>2, <3>1
    <3>3. PICK first \in Int : first = k - (a % 4)
      BY <3>1
    <3>4. ~(first + 4 - 1 > len)
      BY <2>2, <2>4, <3>1, <3>3
    <3>5. Reversed(k, len, chunk) = first + 4 - 1 - (k - first)
      BY <1>2, <3>2, <3>3, <3>4 DEF Reversed
    <3>6. QED
      BY <2>1, <3>1, <3>3, <3>5
  <2>5. QED
    BY <2>1, <2>3, <2>4
<1>3. QED
  BY <1>1, <1>2

LEMMA ReverseReads ==
  ASSUME NEW list \in Seq(StoredSegment), NEW chunk \in {2, 4},
         \A n \in 1..Len(list) :
           list[n].start % chunk = 0 /\ Len(list[n].data) % chunk = 0,
         NEW new, new = ReverseChunks(list, chunk), NEW a \in Int
  PROVE  ReadByte(new, a) = ReadByte(list, Mirror(a, chunk))
<1>1. DOMAIN list = 1..Len(list) /\ Len(list) \in Nat
  BY LenProperties
<1>2. new \in Seq(StoredSegment)
  BY ReverseStored
<1>3. new = [n \in 1..Len(list) |->
               [list[n] EXCEPT !.data =
                  [k \in DOMAIN list[n].data |->
                     list[n].data[Reversed(k, Len(list[n].data), chunk)]]]]
  BY <1>1 DEF ReverseChunks, MapData
<1>4. Len(new) = Len(list)
  BY <1>1, <1>2, <1>3, LenProperties
<1>5. PICK b : b = Mirror(a, chunk)
  OBVIOUS
<1>6. ASSUME NEW n \in 1..Len(list)
      PROVE  /\ new[n].start = list[n].start /\ Len(new[n].data) = Len(list[n].data)
             /\ b \in Int
             /\ Covers(list[n], a) <=> Covers(list[n], b)
             /\ Covers(list[n], a) => ByteAt(new[n], a) = ByteAt(list[n], b)
  <2>1. PICK s \in StoredSegment : s = list[n] /\ InSpace(s)
    BY ElementOfSeq, StoredFacts
  <2>2. PICK at \in Nat, len \in Nat : at = s.start /\ len = Len(s.data) /\ s.data \in Seq(Byte)
    BY <2>1, LenProperties, MaxAddrAssumption DEF InSpace, Addr
  <2>3. DOMAIN s.data = 1..len
    BY <2>2, LenProperties
  <2>4. PICK d : /\ d = [k \in DOMAIN list[n].data |->
                           list[n].data[Reversed(k, Len(list[n].data), chunk)]]
                 /\ DOMAIN d = 1..len
                 /\ \A k \in 1..len : d[k] = s.data[Reversed(k, len, chunk)]
    <3>1. PICK d : d = [k \in DOMAIN list[n].data |->
                          list[n].data[Reversed(k, Len(list[n].data), chunk)]]
      OBVIOUS
    <3>2. DOMAIN d = 1..len /\ \A k \in 1..len : d[k] = s.data[Reversed(k, len, chunk)]
      BY <2>1, <2>2, <2>3, <3>1
    <3>3. QED
      BY <3>1, <3>2
  <2>5. new[n] = [s EXCEPT !.data = d]
    <3>1. new[n] = [list[n] EXCEPT !.data = d]
      BY <1>3, <2>4
    <3>2. QED
      BY <2>1, <3>1
  <2>6. new[n].start = at /\ new[n].data = d
    BY <2>1, <2>2, <2>5 DEF InSpace
  <2>7. Len(d) = len
    <3>1. new[n] \in StoredSegment
      BY <1>2, <1>4, ElementOfSeq
    <3>2. d \in Seq(Byte)
      BY <2>6, <3>1, StoredFacts DEF InSpace
    <3>3. QED
      BY <2>4, <3>2, LenProperties
  <2>8. at % chunk = 0 /\ len % chunk = 0
    BY <2>1, <2>2
  <2>9. /\ b \in Int
        /\ at <= a /\ a < at + len <=> at <= b /\ b < at + len
        /\ at <= a /\ a < at + len => Reversed(a - at + 1, len, chunk) = b - at + 1
    BY <1>5, <2>8, MirrorCovered
  <2>10. \A x : Covers(s, x) <=> at <= x /\ x < at + len
    BY <2>2 DEF Covers
  <2>11. ASSUME at <= a, a < at + len
         PROVE  ByteAt(new[n], a) = ByteAt(s, b)
    <3>1. a - at + 1 \in 1..len
      BY <2>11
    <3>2. ByteAt(new[n], a) = d[a - at + 1]
      BY <2>6 DEF ByteAt
    <3>3. ByteAt(s, b) = s.data[b - at + 1]
      BY <2>2 DEF ByteAt
    <3>4. QED
      BY <2>4, <2>9, <2>11, <3>1, <3>2, <3>3
  <2>12. QED
    BY <2>1, <2>2, <2>6, <2>7, <2>9, <2>10, <2>11
<1>7. b \in Int
  BY <1>5, MirrorCovered, DivisionFacts DEF Mirror
<1>8. SameShape(new, list) /\ TakesFrom(new, list, a, b)
  BY <1>4, <1>6 DEF SameShape, TakesFrom
<1>9. QED
  BY <1>2, <1>5, <1>7, <1>8, TakesReads

\* swap_bytes(Word) swaps the bytes of every word of the image or none, however
\* the segments overlap, as long as none has an odd length.
THEOREM WordsSwapped == Spec => SwapsWords
<1>1. TypeOK /\ [Next]_vars =>
        [ Answered("swap_word") /\ EvenSegments =>
            \/ Image(segments') = Image(segments)
            \/ \A a \in Addr : ReadByte(segments', a) =
                  ReadByte(segments, IF a % 2 = 0 THEN a + 1 ELSE a - 1) ]_vars
  <2> SUFFICES ASSUME TypeOK, Next, Answered("swap_word"), EvenSegments
               PROVE  \/ Image(segments') = Image(segments)
                      \/ \A a \in Addr : ReadByte(segments', a) =
                            ReadByte(segments, IF a % 2 = 0 THEN a + 1 ELSE a - 1)
    OBVIOUS
  <2>1. PICK c \in Calls : AnswerSwapWord(c)
    BY TransformAnswered
  <2>2. segments' = SwapWord(segments) /\ segments \in Seq(StoredSegment)
    BY <2>1 DEF AnswerSwapWord, Ok, TypeOK
  <2>3. CASE ~WordsAligned(segments)
    BY <2>2, <2>3 DEF SwapWord
  <2>4. CASE WordsAligned(segments)
    <3>1. DOMAIN segments = 1..Len(segments)
      BY <2>2, LenProperties
    <3>2. \A n \in 1..Len(segments) :
            segments[n].start % 2 = 0 /\ Len(segments[n].data) % 2 = 0
      BY <2>4, <3>1 DEF WordsAligned, EvenSegments
    <3>3. segments' = ReverseChunks(segments, 2)
      BY <2>2, <2>4 DEF SwapWord
    <3>4. ASSUME NEW a \in Addr
          PROVE  ReadByte(segments', a) =
                   ReadByte(segments, IF a % 2 = 0 THEN a + 1 ELSE a - 1)
      <4>1. a \in Int
        BY MaxAddrAssumption DEF Addr
      <4>2. Mirror(a, 2) = IF a % 2 = 0 THEN a + 1 ELSE a - 1
        BY <4>1 DEF Mirror
      <4>3. ReadByte(segments', a) = ReadByte(segments, Mirror(a, 2))
        BY <2>2, <3>2, <3>3, <4>1, ReverseReads
      <4>4. QED
        BY <4>2, <4>3
    <3>5. QED
      BY <3>4
  <2>5. QED
    BY <2>3, <2>4
<1>2. QED
  BY <1>1, TypeCorrectness, PTL DEF Spec, SwapsWords

\* The word of an address, and the address that changes places with it.
LEMMA WordParts ==
  ASSUME NEW a \in Nat
  PROVE  \E w, i, b :
           /\ w = a - (a % 4) /\ i = 3 - (a % 4) /\ b = w + i
           /\ a \in Int /\ w \in Int /\ i \in 0..3 /\ b \in Int
           /\ a \in w..(w + 3) /\ b \in w..(w + 3) /\ w \in w..(w + 3)
           /\ b - (b % 4) = w
<1>1. PICK r \in 0..3 : r = a % 4
  OBVIOUS
<1>2. PICK w \in Int : w = a - r /\ w % 4 = 0 /\ w <= a /\ a <= w + 3
  BY <1>1
<1>3. PICK i \in 0..3 : i = 3 - r
  BY <1>1
<1>4. PICK b \in Int : b = w + i /\ b % 4 = i
  BY <1>2, <1>3
<1>5. w = a - (a % 4) /\ i = 3 - (a % 4)
  BY <1>1, <1>2, <1>3
<1>6. a \in w..(w + 3) /\ b \in w..(w + 3) /\ w \in w..(w + 3) /\ b - (b % 4) = w
  BY <1>2, <1>3, <1>4
<1>7. WITNESS w, i, b
<1>8. QED
  BY <1>4, <1>5, <1>6

\* No word of the image has a hole.
WholeImage(list) ==
  \A a \in Covered(list) : (a - (a % 4))..(a - (a % 4) + 3) \subseteq Covered(list)

\* The map of the image gives every segment the bytes of the words turned
\* around, whatever segment cuts or covers them.
LEMMA SwapMapReads ==
  ASSUME NEW list \in Seq(StoredSegment), list # <<>>, WholeImage(list),
         MinAddress(list) % 4 = 0, RawSpan(list) % 4 = 0,
         NEW new, new = SwapThroughMap(list), NEW a \in Addr
  PROVE  ReadByte(new, a) = ReadByte(list, a - (a % 4) + 3 - (a % 4))
<1>1. DOMAIN list = 1..Len(list) /\ Len(list) \in Nat
  BY LenProperties
<1>2. new \in Seq(StoredSegment)
  BY SwapMapStored
<1>3. /\ list \in ListType /\ AllInSpace(list)
      /\ new \in ListType /\ AllInSpace(new)
  BY <1>2, StoredList
<1>4. new = [n \in 1..Len(list) |->
               [list[n] EXCEPT !.data =
                  [k \in DOMAIN list[n].data |->
                     LET x == list[n].start + k - 1
                     IN IF Image(list)[x - (x % 4)] = None THEN list[n].data[k]
                        ELSE WordByte(list, x - (x % 4), 3 - (x % 4))]]]
  BY <1>1 DEF SwapThroughMap, MapData, WordByte
<1>5. Len(new) = Len(list)
  BY <1>1, <1>2, <1>4, LenProperties
<1>6. PICK w, i, b :
        /\ w = a - (a % 4) /\ i = 3 - (a % 4) /\ b = w + i
        /\ a \in Int /\ w \in Int /\ i \in 0..3 /\ b \in Int
        /\ a \in w..(w + 3) /\ b \in w..(w + 3) /\ w \in w..(w + 3)
        /\ b - (b % 4) = w
  <2>1. a \in Nat
    BY MaxAddrAssumption DEF Addr
  <2>2. QED
    BY <2>1, WordParts
<1>7. a - (a % 4) + 3 - (a % 4) = b
  BY <1>6
<1>8. ASSUME NEW n \in 1..Len(list)
      PROVE  /\ Covers(new[n], a) <=> Covers(list[n], a)
             /\ Covers(list[n], a) /\ Image(list)[w] # None
                  => ByteAt(new[n], a) = WordByte(list, w, i)
  <2>1. PICK s \in StoredSegment : s = list[n] /\ InSpace(s)
    BY ElementOfSeq, StoredFacts
  <2>2. PICK at \in Nat, len \in Nat : at = s.start /\ len = Len(s.data) /\ s.data \in Seq(Byte)
    BY <2>1, LenProperties, MaxAddrAssumption DEF InSpace, Addr
  <2>3. DOMAIN s.data = 1..len
    BY <2>2, LenProperties
  <2>4. PICK d : d = [k \in DOMAIN list[n].data |->
                     LET x == list[n].start + k - 1
                     IN IF Image(list)[x - (x % 4)] = None THEN list[n].data[k]
                        ELSE WordByte(list, x - (x % 4), 3 - (x % 4))]
    OBVIOUS
  <2>5. new[n] = [s EXCEPT !.data = d]
    <3>1. new[n] = [list[n] EXCEPT !.data = d]
      BY <1>4, <2>4
    <3>2. QED
      BY <2>1, <3>1
  <2>6. new[n].start = at /\ new[n].data = d
    BY <2>1, <2>2, <2>5 DEF InSpace
  <2>7. DOMAIN d = 1..len
    BY <2>1, <2>3, <2>4
  <2>8. Len(d) = len
    <3>1. new[n] \in StoredSegment
      BY <1>2, <1>5, ElementOfSeq
    <3>2. d \in Seq(Byte)
      BY <2>6, <3>1, StoredFacts DEF InSpace
    <3>3. QED
      BY <2>7, <3>2, LenProperties
  <2>9. Covers(list[n], a) <=> at <= a /\ a < at + len
    BY <2>1, <2>2 DEF Covers
  <2>10. Covers(new[n], a) <=> at <= a /\ a < at + len
    BY <2>6, <2>8 DEF Covers
  <2>11. ASSUME at <= a, a < at + len, Image(list)[w] # None
         PROVE  ByteAt(new[n], a) = WordByte(list, w, i)
    <3>1. PICK k \in 1..len : k = a - at + 1
      BY <1>6, <2>11
    <3>2. at + k - 1 = a
      BY <1>6, <3>1
    <3>3. d[k] = IF Image(list)[w] = None THEN list[n].data[k] ELSE WordByte(list, w, i)
      BY <1>6, <2>1, <2>2, <2>3, <2>4, <3>2
    <3>4. ByteAt(new[n], a) = d[k]
      BY <2>6, <3>1 DEF ByteAt
    <3>5. QED
      BY <2>11, <3>3, <3>4
  <2>12. QED
    BY <2>9, <2>10, <2>11
<1>9. CASE a \in Covered(list)
  <2>1. w \in Covered(list) /\ b \in Covered(list)
    BY <1>6, <1>9 DEF WholeImage
  <2>2. Image(list)[w] # None /\ Image(list)[b] # None /\ Image(list)[b] = ReadByte(list, b)
    BY <2>1 DEF Covered, Image
  <2>3. WordByte(list, w, i) = ReadByte(list, b)
    BY <1>6, <2>2 DEF WordByte
  <2>4. \E n \in 1..Len(list) : Covers(list[n], a)
    BY <1>3, <1>6, <1>9, CoveredIs, ReadCovered
  <2>5. /\ \E n \in 1..Len(new) : Covers(new[n], a)
        /\ \A n \in 1..Len(new) : Covers(new[n], a) => ByteAt(new[n], a) = ReadByte(list, b)
    BY <1>5, <1>8, <2>2, <2>3, <2>4
  <2>6. QED
    BY <1>2, <1>6, <1>7, <2>5, ReadsTheSame
<1>10. CASE a \notin Covered(list)
  <2>1. b \notin Covered(list)
    BY <1>6, <1>10 DEF WholeImage
  <2>2. ReadByte(list, b) = None /\ ReadByte(list, a) = None
    BY <1>3, <1>6, <1>10, <2>1, CoveredIs
  <2>3. ~\E n \in 1..Len(list) : Covers(list[n], a)
    BY <1>3, <1>6, <2>2, ReadCovered
  <2>4. ~\E n \in 1..Len(new) : Covers(new[n], a)
    BY <1>5, <1>8, <2>3
  <2>5. ReadByte(new, a) = None
    BY <1>3, <1>6, <2>4, ReadCovered
  <2>6. QED
    BY <1>7, <2>2, <2>5
<1>11. QED
  BY <1>9, <1>10

\* swap_bytes(DWord) turns every aligned word of the image around or none,
\* however segments cut and cover the words, when no word has a hole and the
\* single segment of a file stays below the large span.
THEOREM LongWordsSwapped == Spec => SwapsLongWords
<1>1. TypeOK /\ [Next]_vars =>
        [ Answered("swap_long") /\ WholeWords
            /\ ~(Len(segments) = 1 /\ Len(segments[1].data) >= LargeSpan) =>
            \/ Image(segments') = Image(segments)
            \/ \A a \in Addr : ReadByte(segments', a) =
                  ReadByte(segments, a - (a % 4) + 3 - (a % 4)) ]_vars
  <2> SUFFICES ASSUME TypeOK, Next, Answered("swap_long"), WholeWords,
                      ~(Len(segments) = 1 /\ Len(segments[1].data) >= LargeSpan)
               PROVE  \/ Image(segments') = Image(segments)
                      \/ \A a \in Addr : ReadByte(segments', a) =
                            ReadByte(segments, a - (a % 4) + 3 - (a % 4))
    OBVIOUS
  <2>1. PICK c \in Calls : AnswerSwapLong(c)
    BY TransformAnswered
  <2>2. segments' = SwapLong(segments) /\ segments \in Seq(StoredSegment)
    BY <2>1 DEF AnswerSwapLong, OkIf, Ok, Fail, Answered, TypeOK
  <2>3. CASE \/ segments = <<>> \/ MinAddress(segments) % 4 # 0
             \/ RawSpan(segments) % 4 # 0
    BY <2>2, <2>3 DEF SwapLong
  <2>4. CASE /\ segments # <<>> /\ MinAddress(segments) % 4 = 0
             /\ RawSpan(segments) % 4 = 0
    <3>1. Len(segments) \in Nat \ {0}
      BY <2>2, <2>4, EmptySeq, LenProperties
    <3>2. CASE Len(segments) > 1
      <4>1. segments' = SwapThroughMap(segments)
        BY <2>2, <2>4, <3>2 DEF SwapLong
      <4>2. WholeImage(segments)
        BY DEF WholeImage, WholeWords
      <4>3. QED
        BY <2>2, <2>4, <4>1, <4>2, SwapMapReads
    <3>3. CASE ~(Len(segments) > 1)
      <4>1. Len(segments) = 1
        BY <3>1, <3>3
      <4>2. segments' = ReverseChunks(segments, 4)
        BY <2>2, <2>4, <4>1 DEF SwapLong
      <4>3. PICK s : s = segments[1] /\ InSpace(s)
        BY <2>2, <4>1, ElementOfSeq, StoredFacts
      <4>4. segments \in ListType /\ AllInSpace(segments)
        BY <2>2, StoredList
      <4>5. MinAddress(segments) = s.start /\ MaxAddress(segments) = EndAddress(s)
        <5>1. PICK lo, hi : lo = MinAddress(segments) /\ hi = MaxAddress(segments)
          OBVIOUS
        <5>2. /\ \E n \in 1..Len(segments) : segments[n].start = lo
              /\ \E n \in 1..Len(segments) : EndAddress(segments[n]) = hi
          BY <2>4, <4>4, <5>1, MinMaxAddress
        <5>3. segments[1].start = lo /\ EndAddress(segments[1]) = hi
          BY <4>1, <5>2
        <5>4. QED
          BY <4>3, <5>1, <5>3
      <4>6. s.start % 4 = 0 /\ (EndAddress(s) - s.start + 1) % 4 = 0
        BY <2>4, <4>5 DEF RawSpan
      <4>7. EndAddress(s) = s.start + Len(s.data) - 1 /\ s.start \in Int /\ Len(s.data) \in Nat
        BY <4>3, SpanInSpace, LenProperties, MaxAddrAssumption DEF InSpace, Addr
      <4>8. EndAddress(s) - s.start + 1 = Len(s.data)
        BY <4>7
      <4>9. \A n \in 1..Len(segments) :
              segments[n].start % 4 = 0 /\ Len(segments[n].data) % 4 = 0
        <5>1. s.start % 4 = 0 /\ Len(s.data) % 4 = 0
          BY <4>6, <4>8
        <5>2. \A n \in 1..Len(segments) : n = 1
          BY <4>1
        <5>3. QED
          BY <4>3, <5>1, <5>2
      <4>10. ASSUME NEW a \in Addr
             PROVE  ReadByte(segments', a) = ReadByte(segments, a - (a % 4) + 3 - (a % 4))
        <5>1. a \in Int
          BY MaxAddrAssumption DEF Addr
        <5>2. Mirror(a, 4) = a - (a % 4) + 3 - (a % 4)
          BY <5>1 DEF Mirror
        <5>3. ReadByte(segments', a) = ReadByte(segments, Mirror(a, 4))
          BY <2>2, <4>2, <4>9, <5>1, ReverseReads
        <5>4. QED
          BY <5>2, <5>3
      <4>11. QED
        BY <4>10
    <3>4. QED
      BY <3>2, <3>3
  <2>5. QED
    BY <2>3, <2>4
<1>2. QED
  BY <1>1, TypeCorrectness, PTL DEF Spec, SwapsLongWords

=============================================================================

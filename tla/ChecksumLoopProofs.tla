------------------------- MODULE ChecksumLoopProofs -------------------------
(***************************************************************************)
(* The walk of collect_data_for_checksum takes the bytes of the addresses  *)
(* the options speak of, each once and in order, for every address space,  *)
(* every list, every options and every target.                             *)
(***************************************************************************)
EXTENDS ChecksumLoop, ListLemmas

-----------------------------------------------------------------------------
(* Addresses in order *)

LEMMA AddressesNone == AddressesIn({}) = <<>>
<1>1. AddressesIn({}) \in Seq(Addr) /\ \A y : ~IsIn(AddressesIn({}), y)
  BY AddressList
<1>2. PICK list \in Seq(Addr) : list = AddressesIn({})
  BY <1>1
<1>3. Len(list) \in Nat /\ \A k \in 1..Len(list) : FALSE
  BY <1>1, <1>2, LenProperties DEF IsIn
<1>4. Len(list) = 0
  BY <1>3
<1>5. QED
  BY <1>2, <1>4, EmptySeq

\* The addresses from lo to hi, in their order.
Between(lo, hi) == [k \in 1..(hi - lo + 1) |-> lo + k - 1]

\* A run of addresses behind all of them comes behind them in the list.
LEMMA AddressesJoin ==
  ASSUME NEW S, S \subseteq Addr, NEW lo \in Addr, NEW hi \in Addr, lo <= hi,
         \A x \in S : x < lo
  PROVE  AddressesIn(S \union (lo..hi)) = AddressesIn(S) \o Between(lo, hi)
<1> DEFINE all == S \union (lo..hi)
           key == [a \in Addr |-> a]
<1>1. all \subseteq Addr /\ lo \in Int /\ hi \in Int /\ hi - lo + 1 \in Nat
  BY MaxAddrAssumption DEF Addr
<1>2. PICK l, r, u : l = AddressesIn(S) /\ r = Between(lo, hi) /\ u = AddressesIn(all)
  OBVIOUS
<1>3. /\ l \in Seq(Addr) /\ \A y : IsIn(l, y) <=> y \in S
      /\ \A m, j \in 1..Len(l) : m < j => l[m] < l[j]
  BY <1>2, AddressList
<1>4. /\ u \in Seq(Addr) /\ \A y : IsIn(u, y) <=> y \in all
      /\ \A m, j \in 1..Len(u) : m < j => u[m] < u[j]
  <2> HIDE DEF all
  <2>1. QED
    BY <1>1, <1>2, AddressList
<1>5. /\ r \in Seq(Addr) /\ Len(r) = hi - lo + 1
      /\ \A k \in 1..(hi - lo + 1) : r[k] = lo + k - 1
  <2>1. \A k \in 1..(hi - lo + 1) : lo + k - 1 \in Addr
    BY <1>1, MaxAddrAssumption DEF Addr
  <2>2. r \in Seq(Addr) /\ Len(r) = hi - lo + 1
    BY <1>1, <1>2, <2>1, IsASeq, LenProperties DEF Between
  <2>3. QED
    BY <2>2, <1>2 DEF Between
<1>6. PICK v : v = l \o r
  OBVIOUS
<1>7. Len(l) \in Nat /\ \A m \in 1..Len(l) : l[m] \in S /\ l[m] \in Int /\ l[m] < lo
  <2>1. \A m \in 1..Len(l) : IsIn(l, l[m])
    BY DEF IsIn
  <2>2. QED
    BY <2>1, <1>3, LenProperties, MaxAddrAssumption DEF Addr
<1>8. /\ v \in Seq(Addr) /\ Len(v) = Len(l) + (hi - lo + 1)
      /\ \A m \in 1..Len(v) : v[m] = IF m <= Len(l) THEN l[m] ELSE lo + (m - Len(l)) - 1
  <2>1. /\ v \in Seq(Addr) /\ Len(v) = Len(l) + Len(r)
        /\ \A m \in 1..(Len(l) + Len(r)) :
             v[m] = IF m <= Len(l) THEN l[m] ELSE r[m - Len(l)]
    BY <1>3, <1>5, <1>6, ConcatProperties
  <2>2. \A m \in 1..(Len(l) + Len(r)) : ~(m <= Len(l)) => m - Len(l) \in 1..(hi - lo + 1)
    BY <1>1, <1>5, <1>7
  <2>3. QED
    BY <2>1, <2>2, <1>5
<1>9. \A m, j \in 1..Len(v) : m < j => v[m] < v[j]
  <2> SUFFICES ASSUME NEW m \in 1..Len(v), NEW j \in 1..Len(v), m < j
               PROVE  v[m] < v[j]
    OBVIOUS
  <2>1. CASE j <= Len(l)
    BY <2>1, <1>3, <1>7, <1>8
  <2>2. CASE m <= Len(l) /\ ~(j <= Len(l))
    <3>1. v[m] = l[m] /\ v[j] = lo + (j - Len(l)) - 1 /\ m \in 1..Len(l)
      BY <2>2, <1>7, <1>8
    <3>2. l[m] \in Int /\ l[m] < lo /\ j - Len(l) >= 1
      BY <3>1, <2>2, <1>7
    <3>3. QED
      BY <3>1, <3>2, <1>1, <1>7
  <2>3. CASE ~(m <= Len(l))
    BY <2>3, <1>1, <1>7, <1>8
  <2>4. QED
    BY <2>1, <2>2, <2>3, <1>7, <1>8
<1>10. ASSUME NEW y
       PROVE  IsIn(v, y) <=> IsIn(u, y)
  <2>1. ASSUME NEW m \in 1..Len(v)
        PROVE  v[m] \in all
    BY <1>1, <1>7, <1>8
  <2>2. ASSUME y \in S
        PROVE  IsIn(v, y)
    <3>1. PICK m \in 1..Len(l) : l[m] = y
      BY <2>2, <1>3 DEF IsIn
    <3>2. m \in 1..Len(v) /\ v[m] = y
      BY <3>1, <1>1, <1>7, <1>8
    <3>3. QED
      BY <3>2 DEF IsIn
  <2>3. ASSUME y \in lo..hi
        PROVE  IsIn(v, y)
    <3>1. PICK m \in Int : m = Len(l) + (y - lo + 1)
      BY <1>1, <1>7, <2>3
    <3>2. m \in 1..Len(v) /\ ~(m <= Len(l)) /\ lo + (m - Len(l)) - 1 = y
      BY <3>1, <1>1, <1>7, <1>8, <2>3
    <3>3. QED
      BY <3>2, <1>8 DEF IsIn
  <2>4. QED
    BY <2>1, <2>2, <2>3, <1>4 DEF IsIn
<1>11. u = v
  <2>1. \A a \in Addr : key[a] = a /\ key[a] \in Int
    BY MaxAddrAssumption DEF Addr
  <2>2. (\A m \in 1..Len(u) : u[m] \in Addr) /\ \A m \in 1..Len(v) : v[m] \in Addr
    BY <1>4, <1>8, ElementOfSeq
  <2> HIDE DEF key
  <2>3. Increasing(u, key) /\ Increasing(v, key)
    BY <2>1, <2>2, <1>4, <1>9 DEF Increasing
  <2>4. QED
    BY <2>1, <2>3, <1>4, <1>8, <1>10, SameElements
<1>12. QED
  BY <1>2, <1>6, <1>11

\* The bytes of a run of addresses come behind those of the earlier ones.
LEMMA WalkedJoin ==
  ASSUME NEW S, S \subseteq Addr, NEW lo \in Addr, NEW hi \in Addr, lo <= hi,
         \A x \in S : x < lo
  PROVE  /\ Walked(S \union (lo..hi))
              = Walked(S) \o [k \in 1..(hi - lo + 1) |-> Value(lo + k - 1)]
         /\ Walked(S) \in Seq({Value(a) : a \in Addr})
<1> DEFINE V == {Value(a) : a \in Addr}
           size == hi - lo + 1
           run == [k \in 1..size |-> Value(lo + k - 1)]
<1>1. PICK l, r, u : /\ l = AddressesIn(S) /\ r = Between(lo, hi)
                     /\ u = AddressesIn(S \union (lo..hi)) /\ u = l \o r
  <2>1. AddressesIn(S \union (lo..hi)) = AddressesIn(S) \o Between(lo, hi)
    BY AddressesJoin
  <2>2. QED
    BY <2>1
<1>2. size \in Nat /\ S \union (lo..hi) \subseteq Addr /\ lo \in Int /\ hi \in Int
  <2>1. lo \in Int /\ hi \in Int /\ lo..hi \subseteq Addr
    BY MaxAddrAssumption DEF Addr
  <2>2. size \in Nat
    BY <2>1
  <2>3. QED
    BY <2>1, <2>2
<1>3. l \in Seq(Addr) /\ Len(l) \in Nat /\ DOMAIN l = 1..Len(l)
      /\ \A k \in 1..Len(l) : l[k] \in Addr
  BY <1>1, AddressList, LenProperties, ElementOfSeq
<1>4. /\ r \in Seq(Addr) /\ Len(r) = size /\ \A k \in 1..size : r[k] = lo + k - 1
  <2>1. \A k \in 1..size : lo + k - 1 \in Addr
    BY <1>2, MaxAddrAssumption DEF Addr
  <2>2. r \in Seq(Addr) /\ Len(r) = size
    BY <1>1, <1>2, <2>1, IsASeq, LenProperties DEF Between
  <2>3. QED
    BY <2>2, <1>1 DEF Between
<1>5. /\ u \in Seq(Addr) /\ Len(u) = Len(l) + size /\ DOMAIN u = 1..(Len(l) + size)
      /\ \A k \in 1..(Len(l) + size) : u[k] = IF k <= Len(l) THEN l[k] ELSE r[k - Len(l)]
      /\ \A k \in 1..(Len(l) + size) : u[k] \in Addr
  <2> HIDE DEF size
  <2>0. /\ l \o r \in Seq(Addr) /\ Len(l \o r) = Len(l) + Len(r)
        /\ \A k \in 1..(Len(l) + Len(r)) :
             (l \o r)[k] = IF k <= Len(l) THEN l[k] ELSE r[k - Len(l)]
    BY <1>3, <1>4, ConcatProperties
  <2>1. u \in Seq(Addr) /\ Len(u) = Len(l) + size
        /\ \A k \in 1..(Len(l) + size) : u[k] = IF k <= Len(l) THEN l[k] ELSE r[k - Len(l)]
    BY <2>0, <1>1, <1>4
  <2>2. QED
    BY <2>1, LenProperties, ElementOfSeq
<1>6. /\ Walked(S) = [k \in 1..Len(l) |-> Value(l[k])]
      /\ Walked(S \union (lo..hi)) = [k \in 1..(Len(l) + size) |-> Value(u[k])]
  BY <1>1, <1>3, <1>5 DEF Walked
<1>7. PICK w, x : w = Walked(S) /\ x = Walked(S \union (lo..hi))
  OBVIOUS
<1>8. /\ w \in Seq(V) /\ Len(w) = Len(l) /\ \A k \in 1..Len(l) : w[k] = Value(l[k])
  <2>1. \A k \in 1..Len(l) : Value(l[k]) \in V
    BY <1>3
  <2> HIDE DEF V
  <2>2. w \in Seq(V) /\ Len(w) = Len(l)
    BY <1>3, <1>6, <1>7, <2>1, IsASeq, LenProperties
  <2>3. QED
    BY <2>2, <1>6, <1>7
<1>9. /\ x \in Seq(V) /\ Len(x) = Len(l) + size
      /\ \A k \in 1..(Len(l) + size) : x[k] = Value(u[k])
  <2>1. (\A k \in 1..(Len(l) + size) : Value(u[k]) \in V) /\ Len(l) + size \in Nat
    BY <1>2, <1>3, <1>5
  <2> HIDE DEF V, size
  <2>2. x \in Seq(V) /\ Len(x) = Len(l) + size
    BY <1>6, <1>7, <2>1, IsASeq, LenProperties
  <2>3. QED
    BY <2>2, <1>6, <1>7
<1>10. PICK y : y = run
  OBVIOUS
<1>11. y \in Seq(V) /\ Len(y) = size /\ \A k \in 1..size : y[k] = Value(lo + k - 1)
  <2>1. \A k \in 1..size : lo + k - 1 \in Addr
    BY <1>2, MaxAddrAssumption DEF Addr
  <2>2. \A k \in 1..size : Value(lo + k - 1) \in V
    BY <2>1
  <2> HIDE DEF V
  <2>3. y \in Seq(V) /\ Len(y) = size
    BY <1>2, <1>10, <2>2, IsASeq, LenProperties
  <2>4. QED
    BY <2>3, <1>10
<1> HIDE DEF V
<1>12. /\ w \o y \in Seq(V) /\ Len(w \o y) = Len(l) + size
       /\ \A k \in 1..(Len(l) + size) :
            (w \o y)[k] = IF k <= Len(l) THEN w[k] ELSE y[k - Len(l)]
  <2> HIDE DEF size
  <2>1. /\ w \o y \in Seq(V) /\ Len(w \o y) = Len(w) + Len(y)
        /\ \A k \in 1..(Len(w) + Len(y)) :
             (w \o y)[k] = IF k <= Len(w) THEN w[k] ELSE y[k - Len(w)]
    BY <1>8, <1>11, ConcatProperties
  <2>2. Len(w) = Len(l) /\ Len(y) = size
    BY <1>8, <1>11
  <2>3. QED
    BY <2>1, <2>2
<1> HIDE DEF size
<1>13. ASSUME NEW k \in 1..(Len(l) + size)
       PROVE  (w \o y)[k] = x[k]
  <2>1. CASE k <= Len(l)
    <3>1. k \in 1..Len(l)
      BY <2>1, <1>3
    <3>2. QED
      BY <3>1, <2>1, <1>5, <1>8, <1>9, <1>12
  <2>2. CASE ~(k <= Len(l))
    <3>1. k - Len(l) \in 1..size
      BY <2>2, <1>2, <1>3
    <3>2. QED
      BY <3>1, <2>2, <1>4, <1>5, <1>9, <1>11, <1>12
  <2>3. QED
    BY <2>1, <2>2
<1>14. w \o y = x
  BY <1>9, <1>12, <1>13, SeqEqual
<1>15. QED
  BY <1>7, <1>8, <1>10, <1>14 DEF size, V

-----------------------------------------------------------------------------
(* The addresses to take *)

Inputs ==
  /\ segments \in Normals /\ options \in Options /\ target \in Targets
  /\ ranges = IncludeRanges(segments, options, Excluded(options, target))

\* Included is what the ranges have.
LEMMA InputFacts ==
  ASSUME Inputs
  PROVE  /\ segments \in ListType /\ AllInSpace(segments) /\ Separated(segments)
         /\ ranges \in Seq(RangeType) /\ Apart(ranges)
         /\ \A a \in Addr : a \in Covered(segments) <=> CoveredAt(segments, a)
         /\ \A a : a \in Included <=> a \in Addr /\ InAny(a, ranges)
         /\ \A a \in Included : CoveredAt(segments, a) \/ InForcedRange(options, a)
<1>1. segments \in ListType /\ AllInSpace(segments) /\ Separated(segments)
  BY NormalsAreNormalized DEF Inputs
<1>2. OptionType(options) /\ (target = None \/ target \in RangeType)
  BY OptionsAreRanges, TargetsAreRanges DEF Inputs, OptionType
<1>3. /\ ranges \in Seq(RangeType) /\ Apart(ranges)
      /\ \A a \in Int : InAny(a, ranges)
           <=> /\ CoveredAt(segments, a) \/ InForcedRange(options, a)
               /\ InLimit(options, a) /\ ~ExcludedAt(options, target, a)
  BY <1>1, <1>2, IncludeRangesIn DEF Inputs
<1>4. \A a \in Addr : a \in Int
  BY MaxAddrAssumption DEF Addr
<1>5. ASSUME NEW a \in Addr
      PROVE  a \in Covered(segments) <=> CoveredAt(segments, a)
  <2>1. a \in Covered(segments) <=> ReadByte(segments, a) # None
    BY DEF Covered
  <2>2. /\ (\A k \in 1..Len(segments) : ~Covers(segments[k], a))
             => ReadByte(segments, a) = None
        /\ (\E k \in 1..Len(segments) : Covers(segments[k], a))
             => ReadByte(segments, a) \in Byte
    BY <1>1, <1>4, ReadIsLastWins
  <2>3. QED
    BY <2>1, <2>2, ByteAssumption DEF CoveredAt
<1>6. ASSUME NEW a \in Addr
      PROVE  (\E k \in DOMAIN options.exclude : In(a, options.exclude[k]))
               <=> InAny(a, options.exclude)
  BY <1>2, LenProperties DEF InAny, OptionType
<1>7. \A a \in Addr : a \in Included <=>
        /\ CoveredAt(segments, a) \/ InForcedRange(options, a)
        /\ InLimit(options, a) /\ ~ExcludedAt(options, target, a)
  BY <1>5, <1>6 DEF Included, InForcedRange, InLimit, ExcludedAt
<1>8. \A a \in Included : a \in Addr
  BY DEF Included
<1>9. QED
  BY <1>1, <1>3, <1>4, <1>5, <1>7, <1>8

Below(c) == {a \in Included : a < c}

\* The included addresses of the first m ranges.
UpTo(m) == IF m = 0 THEN {} ELSE Below(ranges[m].end + 1)

LEMMA RangesInOrder ==
  ASSUME Inputs, NEW i \in 1..Len(ranges)
  PROVE  /\ ranges[i].start \in Int /\ ranges[i].end \in Int /\ 0 <= ranges[i].start
         /\ ranges[i].start <= ranges[i].end /\ ranges[i].end <= MaxAddr
         /\ \A j \in 1..Len(ranges) : i < j => ranges[i].end + 1 < ranges[j].start
<1>1. ranges \in Seq(RangeType) /\ Apart(ranges)
  BY InputFacts
<1>2. PICK r \in RangeType : r = ranges[i]
  BY <1>1, ElementOfSeq
<1>3. /\ r.start \in Int /\ r.end \in Int /\ 0 <= r.start
      /\ r.start <= r.end /\ r.end <= MaxAddr
  BY RangeFacts
<1>4. QED
  BY <1>1, <1>2, <1>3 DEF Apart

\* A run of addresses inside a range comes next.
LEMMA RunInRange ==
  ASSUME Inputs, NEW i \in 1..Len(ranges), NEW lo \in Int, NEW hi \in Int,
         ranges[i].start <= lo, lo <= hi, hi <= ranges[i].end
  PROVE  /\ lo..hi \subseteq Included
         /\ Walked(Below(hi + 1))
              = Walked(Below(lo)) \o [k \in 1..(hi - lo + 1) |-> Value(lo + k - 1)]
         /\ Walked(Below(lo)) \in Seq({Value(a) : a \in Addr})
<1>1. \A a : a \in Included <=> a \in Addr /\ InAny(a, ranges)
  BY InputFacts
<1>2. /\ ranges[i].start \in Int /\ ranges[i].end \in Int /\ 0 <= ranges[i].start
      /\ ranges[i].end <= MaxAddr
  BY RangesInOrder
<1>3. \A a \in lo..hi : a \in Addr /\ In(a, ranges[i])
  BY <1>2, MaxAddrAssumption DEF Addr, In
<1>4. lo..hi \subseteq Included
  BY <1>1, <1>3 DEF InAny
<1>5. \A a \in Included : a \in Addr /\ a \in Int
  BY <1>1, MaxAddrAssumption DEF Addr
<1>6. Below(hi + 1) = Below(lo) \union (lo..hi)
  <2>1. \A a \in Included : a < hi + 1 <=> (a < lo \/ a \in lo..hi)
    BY <1>5
  <2>2. QED
    BY <2>1, <1>4 DEF Below
<1>7. PICK S : S = Below(lo)
  OBVIOUS
<1>8. S \subseteq Addr /\ \A x \in S : x < lo
  BY <1>5, <1>7 DEF Below
<1>9. lo \in Addr /\ hi \in Addr
  BY <1>3
<1>10. /\ Walked(S \union (lo..hi))
            = Walked(S) \o [k \in 1..(hi - lo + 1) |-> Value(lo + k - 1)]
       /\ Walked(S) \in Seq({Value(a) : a \in Addr})
  BY <1>8, <1>9, WalkedJoin
<1>11. QED
  BY <1>4, <1>6, <1>7, <1>10

\* Between two ranges there is nothing to take, nor before the first.
LEMMA NothingBetween ==
  ASSUME Inputs, NEW m \in 0..(Len(ranges) - 1)
  PROVE  UpTo(m) = Below(ranges[m + 1].start)
<1>1. \A a \in Included : a \in Int /\ \E j \in 1..Len(ranges) : In(a, ranges[j])
  BY InputFacts, MaxAddrAssumption DEF Addr, InAny
<1>2. Len(ranges) \in Nat /\ m \in Nat /\ m + 1 \in 1..Len(ranges)
  BY InputFacts, LenProperties
<1>3. PICK q : q = ranges[m + 1].start
  OBVIOUS
<1>4. q \in Int
  BY <1>2, <1>3, RangesInOrder
<1>5. ASSUME NEW j \in 1..Len(ranges), NEW a \in Int, In(a, ranges[j]), a < q
      PROVE  j <= m /\ a < ranges[m].end + 1
  <2>1. /\ ranges[j].start \in Int /\ ranges[j].start <= a /\ a <= ranges[j].end
        /\ ranges[j].end \in Int
    BY <1>5, RangesInOrder DEF In
  <2>2. ~(m + 1 < j)
    <3>1. m + 1 < j => ranges[m + 1].end + 1 < ranges[j].start
                       /\ q <= ranges[m + 1].end /\ ranges[m + 1].end \in Int
      BY <1>2, <1>3, RangesInOrder
    <3>2. QED
      BY <3>1, <2>1, <1>4, <1>5
  <2>3. j # m + 1
    BY <2>1, <1>3, <1>5
  <2>4. j <= m
    BY <2>2, <2>3, <1>2
  <2>5. m \in 1..Len(ranges) /\ (j < m \/ j = m)
    BY <2>4, <1>2
  <2>6. /\ ranges[m].start \in Int /\ ranges[m].end \in Int
        /\ ranges[m].start <= ranges[m].end
        /\ j < m => ranges[j].end + 1 < ranges[m].start
    BY <2>5, RangesInOrder
  <2>7. QED
    BY <2>1, <2>4, <2>5, <2>6
<1>6. CASE m = 0
  <2>1. \A a \in Included : ~(a < q)
    BY <1>1, <1>5, <1>6
  <2>2. QED
    BY <2>1, <1>3, <1>6 DEF UpTo, Below
<1>7. CASE m # 0
  <2>1. m \in 1..Len(ranges) /\ m < m + 1
    BY <1>2, <1>7
  <2>2. ranges[m].end \in Int /\ ranges[m].end + 1 < q
    BY <2>1, <1>2, <1>3, RangesInOrder
  <2>3. \A a \in Included : a < ranges[m].end + 1 <=> a < q
    BY <2>2, <1>1, <1>4, <1>5
  <2>4. QED
    BY <2>3, <1>3, <1>7 DEF UpTo, Below
<1>8. QED
  BY <1>6, <1>7

\* Nor behind the last one.
LEMMA NothingBehind ==
  ASSUME Inputs
  PROVE  UpTo(Len(ranges)) = Included
<1>1. \A a \in Included : a \in Int /\ \E j \in 1..Len(ranges) : In(a, ranges[j])
  BY InputFacts, MaxAddrAssumption DEF Addr, InAny
<1>2. PICK L \in Nat : L = Len(ranges)
  BY InputFacts, LenProperties
<1>3. CASE L = 0
  BY <1>1, <1>2, <1>3 DEF UpTo
<1>4. CASE L # 0
  <2>1. L \in 1..Len(ranges)
    BY <1>2, <1>4
  <2>2. ASSUME NEW j \in 1..Len(ranges), NEW a \in Int, In(a, ranges[j])
        PROVE  a < ranges[L].end + 1
    <3>1. /\ ranges[j].start \in Int /\ a <= ranges[j].end
          /\ ranges[j].end \in Int /\ (j < L => ranges[j].end + 1 < ranges[L].start)
      BY <2>1, <2>2, RangesInOrder DEF In
    <3>2. ranges[L].start \in Int /\ ranges[L].end \in Int /\ ranges[L].start <= ranges[L].end
      BY <2>1, RangesInOrder
    <3>3. j < L \/ j = L
      BY <1>2
    <3>4. QED
      BY <2>2, <3>1, <3>2, <3>3
  <2>3. \A a \in Included : a < ranges[L].end + 1
    BY <2>2, <1>1
  <2>4. QED
    BY <2>3, <1>2, <1>4 DEF UpTo, Below
<1>5. QED
  BY <1>3, <1>4

\* CollectData takes the same bytes.
LEMMA CollectDataWalks ==
  ASSUME Inputs
  PROVE  CollectData(segments, options, ranges) = Walked(Included)
<1> DEFINE V == {Value(a) : a \in Addr}
           L == Len(ranges)
           Bytes(i) == [k \in 1..(ranges[i].end - ranges[i].start + 1) |->
                          Value(ranges[i].start + k - 1)]
           seqs == [i \in 1..L |-> Bytes(i)]
<1>1. L \in Nat /\ DOMAIN ranges = 1..L
  BY InputFacts, LenProperties
<1>2. \A i \in 1..L : \A k \in 1..(ranges[i].end - ranges[i].start + 1) :
        ranges[i].start + k - 1 \in Addr
  BY RangesInOrder, MaxAddrAssumption DEF Addr
<1>3. CollectData(segments, options, ranges) = FlattenSeq(seqs)
  <2>1. \A a \in Addr : Value(a) = IF ReadByte(segments, a) = None
                                     THEN ForcedByte(options.forced, a)
                                     ELSE ReadByte(segments, a)
    BY DEF Value, Covered
  <2>2. \A i \in 1..L :
          Bytes(i) = [k \in 1..(ranges[i].end - ranges[i].start + 1) |->
                        IF ReadByte(segments, ranges[i].start + k - 1) = None
                          THEN ForcedByte(options.forced, ranges[i].start + k - 1)
                          ELSE ReadByte(segments, ranges[i].start + k - 1)]
    BY <2>1, <1>2
  <2> HIDE DEF Bytes
  <2>3. seqs = [i \in DOMAIN ranges |->
                 [k \in 1..(ranges[i].end - ranges[i].start + 1) |->
                        IF ReadByte(segments, ranges[i].start + k - 1) = None
                          THEN ForcedByte(options.forced, ranges[i].start + k - 1)
                          ELSE ReadByte(segments, ranges[i].start + k - 1)]]
    BY <2>2, <1>1
  <2> HIDE DEF seqs
  <2>4. QED
    BY <2>3, Zenon DEF CollectData
<1>4. /\ seqs \in Seq(Seq(V)) /\ Len(seqs) = L
      /\ \A i \in 1..L : seqs[i] = Bytes(i)
  <2>1. \A i \in 1..L : Bytes(i) \in Seq(V)
    <3> SUFFICES ASSUME NEW i \in 1..L PROVE Bytes(i) \in Seq(V)
      OBVIOUS
    <3>1. PICK size \in Nat : size = ranges[i].end - ranges[i].start + 1
      BY RangesInOrder
    <3>2. \A k \in 1..size : Value(ranges[i].start + k - 1) \in V
      BY <3>1, <1>2
    <3> HIDE DEF V
    <3>3. QED
      BY <3>1, <3>2, IsASeq
  <2> HIDE DEF Bytes, V, L
  <2>2. seqs \in Seq(Seq(V)) /\ Len(seqs) = L
    BY <1>1, <2>1, IsASeq, LenProperties
  <2>3. QED
    BY <2>2
<1> HIDE DEF seqs, V
<1>5. PICK acc \in [0..L -> Seq(V)] :
        /\ acc[0] = <<>>
        /\ \A k \in 1..L : acc[k] = acc[k - 1] \o seqs[k]
        /\ FlattenSeq(seqs) = acc[L]
  <2>1. \E acc \in [0..Len(seqs) -> Seq(V)] :
           /\ acc[0] = <<>>
           /\ \A k \in 1..Len(seqs) : acc[k] = acc[k - 1] \o seqs[k]
           /\ FlattenSeq(seqs) = acc[Len(seqs)]
    BY <1>4, FlattenRun
  <2>2. QED
    BY <2>1, <1>4
<1> DEFINE T == {k \in 0..L : acc[k] = Walked(UpTo(k))}
<1>6. 0 \in T
  <2>1. Walked(UpTo(0)) = <<>>
    <3>1. UpTo(0) = {} /\ AddressesIn({}) = <<>>
      BY AddressesNone DEF UpTo
    <3>2. DOMAIN <<>> = {}
      OBVIOUS
    <3>3. QED
      BY <3>1, <3>2 DEF Walked
  <2>2. QED
    BY <2>1, <1>1, <1>5
<1>7. ASSUME NEW k \in 0..(L - 1), k \in T
      PROVE  k + 1 \in T
  <2>1. k + 1 \in 1..L /\ (k + 1) - 1 = k /\ k + 1 \in 0..L /\ k + 1 # 0
    BY <1>1
  <2>2. PICK lo, hi : lo = ranges[k + 1].start /\ hi = ranges[k + 1].end
    OBVIOUS
  <2>3. lo \in Int /\ hi \in Int /\ lo <= hi
    BY <2>1, <2>2, RangesInOrder
  <2>4. Walked(Below(hi + 1))
          = Walked(Below(lo)) \o [j \in 1..(hi - lo + 1) |-> Value(lo + j - 1)]
    <3>1. PICK i \in 1..Len(ranges) : i = k + 1
      BY <2>1
    <3>2. ranges[i].start <= lo /\ lo <= hi /\ hi <= ranges[i].end
      BY <3>1, <2>2, <2>3
    <3>3. QED
      BY <3>2, <2>3, RunInRange
  <2>5. UpTo(k) = Below(lo)
    BY <2>2, NothingBetween
  <2>6. UpTo(k + 1) = Below(hi + 1)
    BY <2>1, <2>2 DEF UpTo
  <2>7. acc[k + 1] = acc[k] \o Bytes(k + 1)
    BY <2>1, <1>4, <1>5
  <2>8. Bytes(k + 1) = [j \in 1..(hi - lo + 1) |-> Value(lo + j - 1)]
    BY <2>2
  <2> HIDE DEF Bytes
  <2>9. QED
    BY <2>1, <2>4, <2>5, <2>6, <2>7, <2>8, <1>7
<1>8. L \in T
  <2> HIDE DEF T, L
  <2>1. \A k \in 0..L : k \in T
    BY <1>1, <1>6, <1>7, InductionUpTo
  <2>2. QED
    BY <2>1, <1>1
<1>9. QED
  BY <1>3, <1>5, <1>8, NothingBehind

-----------------------------------------------------------------------------
(* The walk *)

\* The walk is at address a of range i and at segment k, with the bytes d.
WalkPoint(i, a, k, d) ==
  /\ i \in 1..Len(ranges) /\ a \in Int
  /\ ranges[i].start <= a /\ a <= ranges[i].end + 1
  /\ k \in 1..(Len(segments) + 1)
  /\ \A j \in 1..(k - 1) : EndAddress(segments[j]) < a
  /\ d = Walked(Below(a))

\* What holds between two steps of the walk.
Walking == WalkPoint(n, addr, segIdx, data) /\ res = "ok"

IInv ==
  /\ Inputs
  /\ pc = "check" => n = 1 /\ segIdx = 1 /\ data = <<>> /\ res = "ok"
  /\ pc = "walk" => Walking
  /\ TakesAll
  /\ FailsBeforeData

\* The segments in the space, their order and which of them covers an address.
LEMMA SegmentFacts ==
  ASSUME Inputs, NEW k \in 1..Len(segments)
  PROVE  /\ segments[k].start \in Int /\ EndAddress(segments[k]) \in Int
         /\ 0 <= segments[k].start /\ segments[k].start <= EndAddress(segments[k])
         /\ EndAddress(segments[k]) <= MaxAddr
         /\ \A a \in Int : Covers(segments[k], a)
                             <=> segments[k].start <= a /\ a <= EndAddress(segments[k])
         /\ \A j \in 1..Len(segments) :
              k < j => EndAddress(segments[k]) + 1 < segments[j].start
<1>1. PICK s : s = segments[k] /\ InSpace(s)
  BY InputFacts DEF AllInSpace
<1>2. /\ s.start \in Int /\ EndAddress(s) \in Int /\ 0 <= s.start
      /\ s.start <= EndAddress(s) /\ EndAddress(s) <= MaxAddr
      /\ \A a \in Int : Covers(s, a) <=> s.start <= a /\ a <= EndAddress(s)
  BY <1>1, SpanInSpace, MaxAddrAssumption DEF Addr
<1>3. QED
  BY <1>1, <1>2, InputFacts DEF Separated

\* The data taken from a segment are the bytes at its addresses.
LEMMA ClipIsWalked ==
  ASSUME Inputs, NEW k \in 1..Len(segments), NEW lo \in Int, NEW hi \in Int,
         segments[k].start <= lo, lo <= hi, hi <= EndAddress(segments[k])
  PROVE  Clip(segments[k], lo, hi).data = [j \in 1..(hi - lo + 1) |-> Value(lo + j - 1)]
<1>1. PICK s : s = segments[k] /\ InSpace(s)
  BY InputFacts DEF AllInSpace
<1>2. PICK c : c = Clip(s, lo, hi)
  OBVIOUS
<1>3. /\ InSpace(c) /\ c.start = lo /\ EndAddress(c) = hi
      /\ \A a \in Int : \A b : Has(c, a, b) <=> lo <= a /\ a <= hi /\ Has(s, a, b)
  BY <1>1, <1>2, ClipInSpace
<1>4. PICK d, size : d = c.data /\ size = Len(d) /\ d \in Seq(Byte) /\ size \in Nat
  BY <1>3, LenProperties DEF InSpace
<1>5. hi = lo + size - 1
  BY <1>3, <1>4, SpanInSpace
<1>6. size = hi - lo + 1 /\ d = [j \in 1..size |-> d[j]]
  BY <1>4, <1>5, LenProperties
<1>7. ASSUME NEW j \in 1..size
      PROVE  d[j] = Value(lo + j - 1)
  <2>1. PICK a : a = lo + j - 1 /\ a \in Int /\ lo <= a /\ a <= hi /\ a - lo + 1 = j
    <3>1. j \in Int /\ size \in Int /\ 1 <= j /\ j <= size
      BY <1>4
    <3>2. QED
      BY <3>1, <1>5
  <2>2. Has(c, a, d[j])
    BY <2>1, <1>3, <1>4, <1>5 DEF Has, Covers, ByteAt
  <2>3. Covers(s, a) /\ ByteAt(s, a) = d[j]
    BY <2>1, <2>2, <1>3 DEF Has
  <2>4. a \in Addr
    BY <2>1, <1>1, SegmentFacts, MaxAddrAssumption DEF Addr
  <2>5. a \in Covered(segments)
    BY <2>3, <2>4, <1>1, InputFacts DEF CoveredAt
  <2>6. ReadByte(segments, a) = d[j]
    <3>1. segments \in ListType /\ AllInSpace(segments) /\ Separated(segments)
      BY InputFacts
    <3>2. Covers(segments[k], a)
      BY <2>3, <1>1
    <3>3. ReadByte(segments, a) = ByteAt(segments[k], a)
      <4>1. PICK list, i : list = segments /\ i = k /\ i \in 1..Len(list)
        OBVIOUS
      <4>2. a \in Int /\ Covers(list[i], a)
        BY <4>1, <3>2, <2>1
      <4>3. ReadByte(list, a) = ByteAt(list[i], a)
        BY <4>1, <4>2, <3>1, ReadSeparated
      <4>4. QED
        BY <4>1, <4>3
    <3>4. QED
      BY <3>3, <2>3, <1>1
  <2>7. QED
    BY <2>1, <2>5, <2>6 DEF Value
<1>8. QED
  BY <1>1, <1>2, <1>4, <1>6, <1>7

LEMMA InitIInv == Init => IInv
<1> SUFFICES ASSUME Init PROVE IInv
  OBVIOUS
<1>1. Inputs /\ n = 1 /\ segIdx = 1 /\ data = <<>> /\ res = "ok" /\ pc = "check"
  BY DEF Init, Inputs
<1>2. QED
  BY <1>1 DEF IInv, TakesAll, FailsBeforeData

\* The inputs do not change, nor does what is said of them.
LEMMA InputsKept ==
  ASSUME Inputs, UNCHANGED input
  PROVE  /\ Inputs' /\ Included' = Included
         /\ \A S : Walked(S)' = Walked(S)
         /\ CanCollect(ranges, options)' = CanCollect(ranges, options)
<1>1. Inputs'
  BY DEF Inputs, input
<1>2. Included' = Included
  BY DEF Included, input
<1>3. \A a : Value(a)' = Value(a)
  BY DEF Value, input
<1>4. \A S : Walked(S)' = Walked(S)
  BY <1>3 DEF Walked
<1>5. QED
  BY <1>1, <1>2, <1>4 DEF input

LEMMA WalkKept ==
  ASSUME Inputs, UNCHANGED input, WalkPoint(n', addr', segIdx', data'),
         res' = "ok", pc' = "walk"
  PROVE  IInv'
<1>1. Inputs' /\ Included' = Included /\ \A S : Walked(S)' = Walked(S)
  BY InputsKept
<1>2. PICK S : S = Below(addr')
  OBVIOUS
<1>3. Below(addr)' = S
  BY <1>1, <1>2 DEF Below
<1>4. Walked(Below(addr))' = Walked(S)'
  BY <1>3 DEF Walked
<1>5. data' = Walked(Below(addr))'
  BY <1>1, <1>2, <1>4 DEF WalkPoint
<1>6. WalkPoint(n, addr, segIdx, data)'
  <2> HIDE DEF Walked, Below
  <2>1. QED
    BY <1>5 DEF WalkPoint, input
<1>7. QED
  BY <1>1, <1>6 DEF IInv, Walking, TakesAll, FailsBeforeData

LEMMA CheckStep == IInv /\ Check => IInv'
<1> SUFFICES ASSUME IInv, Check PROVE IInv'
  OBVIOUS
<1>1. /\ Inputs /\ n = 1 /\ segIdx = 1 /\ data = <<>> /\ res = "ok"
      /\ UNCHANGED input /\ n' = n /\ segIdx' = segIdx /\ data' = data
  BY DEF IInv, Check
<1>2. /\ Inputs' /\ Included' = Included /\ \A S : Walked(S)' = Walked(S)
      /\ CanCollect(ranges, options)' = CanCollect(ranges, options)
  BY <1>1, InputsKept
<1>3. Walked({}) = <<>>
  <2>1. AddressesIn({}) = <<>> /\ DOMAIN <<>> = {}
    BY AddressesNone
  <2>2. QED
    BY <2>1 DEF Walked
<1>4. CASE ~CanCollect(ranges, options)
  <2>1. pc' = "done" /\ res' = "error"
    BY <1>4 DEF Check
  <2>2. QED
    BY <2>1, <1>1, <1>2, <1>4 DEF IInv, TakesAll, FailsBeforeData
<1>5. CASE CanCollect(ranges, options) /\ ranges = <<>>
  <2>1. pc' = "done" /\ res' = "ok"
    BY <1>1, <1>5 DEF Check
  <2>2. Included = {}
    BY <1>1, <1>5, InputFacts, EmptySeq DEF InAny
  <2>3. TakesAll'
    BY <2>1, <2>2, <1>1, <1>2, <1>3 DEF TakesAll
  <2>4. QED
    BY <2>1, <2>3, <1>2 DEF IInv, FailsBeforeData
<1>6. CASE CanCollect(ranges, options) /\ ranges # <<>>
  <2>1. pc' = "walk" /\ res' = "ok" /\ addr' = ranges[1].start
    BY <1>1, <1>6 DEF Check
  <2>2. Len(ranges) \in Nat /\ 1 \in 1..Len(ranges) /\ 0 \in 0..(Len(ranges) - 1)
    BY <1>1, <1>6, InputFacts, EmptySeq, LenProperties
  <2>3. /\ ranges[1].start \in Int /\ ranges[1].end \in Int
        /\ ranges[1].start <= ranges[1].end + 1
    BY <2>2, <1>1, RangesInOrder
  <2>4. Below(ranges[1].start) = {}
    BY <2>2, <1>1, NothingBetween DEF UpTo
  <2>5. data' = Walked(Below(addr'))
    BY <2>1, <2>4, <1>1, <1>3
  <2>6. Len(segments) \in Nat
    BY <1>1, InputFacts, LenProperties DEF ListType
  <2>7. WalkPoint(n', addr', segIdx', data')
    BY <2>1, <2>2, <2>3, <2>5, <2>6, <1>1 DEF WalkPoint
  <2>8. QED
    BY <2>1, <2>7, <1>1, WalkKept
<1>7. QED
  BY <1>4, <1>5, <1>6

LEMMA SkipStep == IInv /\ SkipSegment => IInv'
<1> SUFFICES ASSUME IInv, SkipSegment PROVE IInv'
  OBVIOUS
<1>1. /\ Inputs /\ WalkPoint(n, addr, segIdx, data) /\ res' = "ok"
      /\ UNCHANGED input /\ pc' = "walk" /\ n' = n
      /\ addr' = addr /\ data' = data /\ segIdx' = segIdx + 1
      /\ segIdx <= Len(segments) /\ EndAddress(segments[segIdx]) < addr
  BY DEF IInv, Walking, SkipSegment, InRange, HasSegment, seg
<1>2. segIdx \in 1..(Len(segments) + 1) /\ Len(segments) \in Nat
  BY <1>1, InputFacts, LenProperties DEF WalkPoint, ListType
<1>3. \A k \in 1..(segIdx' - 1) : EndAddress(segments[k]) < addr
  <2>1. \A k \in 1..(segIdx' - 1) : k = segIdx \/ k \in 1..(segIdx - 1)
    BY <1>1, <1>2
  <2>2. QED
    BY <2>1, <1>1 DEF WalkPoint
<1>4. segIdx' \in 1..(Len(segments) + 1)
  BY <1>1, <1>2
<1>5. WalkPoint(n', addr', segIdx', data')
  BY <1>1, <1>3, <1>4 DEF WalkPoint
<1>6. QED
  BY <1>1, <1>5, WalkKept

\* A run of addresses of the range, taken as they read.
LEMMA RunTaken ==
  ASSUME Inputs, WalkPoint(n, addr, segIdx, data), NEW hi \in Int,
         addr <= hi, hi <= ranges[n].end,
         NEW k \in 1..(Len(segments) + 1),
         \A j \in 1..(k - 1) : EndAddress(segments[j]) <= hi
  PROVE  WalkPoint(n, hi + 1, k,
           data \o [j \in 1..(hi - addr + 1) |-> Value(addr + j - 1)])
<1>1. /\ n \in 1..Len(ranges) /\ addr \in Int /\ ranges[n].start <= addr
      /\ data = Walked(Below(addr))
  BY DEF WalkPoint
<1>2. PICK i, lo : /\ i \in 1..Len(ranges) /\ lo \in Int /\ i = n /\ lo = addr
                   /\ ranges[i].start <= lo
  BY <1>1
<1>3. Walked(Below(hi + 1))
        = Walked(Below(lo)) \o [k_1 \in 1..(hi - lo + 1) |-> Value(lo + k_1 - 1)]
  BY <1>2, RunInRange
<1>4. ranges[i].start <= hi + 1 /\ hi + 1 <= ranges[i].end + 1
      /\ ranges[i].start \in Int /\ ranges[i].end \in Int
  BY <1>2, RangesInOrder
<1>5. \A j \in 1..(k - 1) : EndAddress(segments[j]) < hi + 1
  <2> SUFFICES ASSUME NEW j \in 1..(k - 1) PROVE EndAddress(segments[j]) < hi + 1
    OBVIOUS
  <2>1. j \in 1..Len(segments)
    BY InputFacts, LenProperties DEF ListType
  <2>2. EndAddress(segments[j]) \in Int /\ EndAddress(segments[j]) <= hi
    BY <2>1, SegmentFacts
  <2>3. QED
    BY <2>2
<1>6. PICK run, more : /\ run = [j \in 1..(hi - addr + 1) |-> Value(addr + j - 1)]
                       /\ more = data \o run
  OBVIOUS
<1>7. more = Walked(Below(hi + 1))
  BY <1>1, <1>2, <1>3, <1>6
<1>8. WalkPoint(n, hi + 1, k, more)
  BY <1>2, <1>4, <1>5, <1>7 DEF WalkPoint
<1>9. QED
  BY <1>6, <1>8

LEMMA DataStep == IInv /\ TakeData => IInv'
<1> SUFFICES ASSUME IInv, TakeData PROVE IInv'
  OBVIOUS
<1>1. PICK end : end = Min({EndAddress(seg), range.end})
  OBVIOUS
<1>2. /\ Inputs /\ WalkPoint(n, addr, segIdx, data) /\ res' = "ok"
      /\ UNCHANGED input /\ pc' = "walk" /\ n' = n
      /\ addr <= ranges[n].end /\ segIdx <= Len(segments)
      /\ seg.start <= addr /\ addr <= EndAddress(seg)
      /\ data' = data \o Clip(seg, addr, end).data
      /\ segIdx' = (IF EndAddress(seg) <= end THEN segIdx + 1 ELSE segIdx)
      /\ addr' = end + 1
  <2>1. pc = "walk" /\ AtSegment /\ OnData
    BY DEF TakeData, AtSegment, InRange
  <2>2. addr <= EndAddress(seg) /\ EndAddress(seg) \in Int /\ segIdx <= Len(segments)
    <3>1. Inputs /\ WalkPoint(n, addr, segIdx, data) /\ segIdx <= Len(segments)
      BY <2>1 DEF IInv, Walking, OnData, HasSegment
    <3>2. segIdx \in 1..Len(segments) /\ addr \in Int
      BY <3>1, InputFacts, LenProperties DEF WalkPoint, ListType
    <3>3. EndAddress(seg) \in Int
      BY <3>1, <3>2, SegmentFacts DEF seg
    <3>4. EndAddress(seg) >= addr
      BY <2>1, <3>1 DEF AtSegment, HasSegment
    <3>5. QED
      BY <3>1, <3>2, <3>3, <3>4
  <2>3. Inputs /\ Walking
    BY <2>1 DEF IInv
  <2>4. /\ data' = data \o Clip(seg, addr, end).data /\ PastSegment(end) /\ addr' = end + 1
        /\ UNCHANGED <<input, pc, n, res>>
    BY <1>1, Zenon DEF TakeData
  <2>5. QED
    BY <2>1, <2>2, <2>3, <2>4
       DEF Walking, OnData, AtSegment, InRange, range, PastSegment
<1>3. /\ segIdx \in 1..Len(segments) /\ Len(segments) \in Nat /\ addr \in Int
      /\ n \in 1..Len(ranges)
  BY <1>2, InputFacts, LenProperties DEF WalkPoint, ListType
<1>4. EndAddress(seg) \in Int /\ seg.start \in Int /\ ranges[n].end \in Int
  BY <1>2, <1>3, SegmentFacts, RangesInOrder DEF seg
<1>5. /\ end = IF EndAddress(seg) <= ranges[n].end THEN EndAddress(seg) ELSE ranges[n].end
      /\ end \in Int /\ addr <= end /\ end <= ranges[n].end /\ end <= EndAddress(seg)
  <2>1. end = IF EndAddress(seg) <= ranges[n].end THEN EndAddress(seg) ELSE ranges[n].end
    BY <1>1, <1>4, MinOfTwo DEF range
  <2>2. QED
    BY <2>1, <1>2, <1>4
<1>6. Clip(seg, addr, end).data = [j \in 1..(end - addr + 1) |-> Value(addr + j - 1)]
  <2>1. PICK k, lo : /\ k \in 1..Len(segments) /\ lo \in Int /\ k = segIdx /\ lo = addr
                     /\ segments[k].start <= lo /\ lo <= end /\ end <= EndAddress(segments[k])
    BY <1>2, <1>3, <1>5 DEF seg
  <2>2. PICK hi \in Int : hi = end
    BY <1>5
  <2>3. Inputs /\ segments[k].start <= lo /\ lo <= hi /\ hi <= EndAddress(segments[k])
    BY <1>2, <2>1, <2>2
  <2>4. Clip(segments[k], lo, hi).data = [j \in 1..(hi - lo + 1) |-> Value(lo + j - 1)]
    BY <2>1, <2>3, ClipIsWalked
  <2>5. QED
    BY <2>1, <2>2, <2>4 DEF seg
<1>7. segIdx' \in 1..(Len(segments) + 1)
  BY <1>2, <1>3
<1>8. \A j \in 1..(segIdx' - 1) : EndAddress(segments[j]) <= end
  <2> SUFFICES ASSUME NEW j \in 1..(segIdx' - 1) PROVE EndAddress(segments[j]) <= end
    OBVIOUS
  <2>1. CASE j = segIdx
    <3>1. EndAddress(seg) <= end
      BY <2>1, <1>2, <1>3
    <3>2. QED
      BY <2>1, <3>1 DEF seg
  <2>2. CASE j # segIdx
    <3>1. j \in 1..(segIdx - 1) /\ j \in 1..Len(segments)
      BY <2>2, <1>2, <1>3
    <3>2. EndAddress(segments[j]) \in Int
      BY <3>1, <1>2, SegmentFacts
    <3>3. EndAddress(segments[j]) < addr
      BY <3>1, <1>2 DEF WalkPoint
    <3>4. QED
      BY <3>2, <3>3, <1>3, <1>5
  <2>3. QED
    BY <2>1, <2>2
<1>9. WalkPoint(n', addr', segIdx', data')
  <2>1. PICK k : k = segIdx'
    OBVIOUS
  <2>2. WalkPoint(n, end + 1, k,
          data \o [j \in 1..(end - addr + 1) |-> Value(addr + j - 1)])
    BY <2>1, <1>2, <1>5, <1>7, <1>8, RunTaken
  <2>3. QED
    BY <2>1, <2>2, <1>2, <1>6
<1>10. QED
  BY <1>2, <1>9, WalkKept

\* Where no segment covers the cursor the forced range has it.
LEMMA GapIsForced ==
  ASSUME Inputs, WalkPoint(n, addr, segIdx, data), addr <= ranges[n].end,
         NEW hi \in Int, addr <= hi, hi <= ranges[n].end,
         segIdx <= Len(segments) => hi < segments[segIdx].start
  PROVE  \A a \in addr..hi : a \in Included /\ a \notin Covered(segments)
<1>1. /\ n \in 1..Len(ranges) /\ addr \in Int /\ ranges[n].start <= addr
      /\ segIdx \in 1..(Len(segments) + 1)
      /\ \A j \in 1..(segIdx - 1) : EndAddress(segments[j]) < addr
  BY DEF WalkPoint
<1>2. Len(segments) \in Nat
  BY InputFacts, LenProperties DEF ListType
<1>3. PICK i, lo : /\ i \in 1..Len(ranges) /\ lo \in Int /\ i = n /\ lo = addr
                   /\ ranges[i].start <= lo
  BY <1>1
<1>4. addr..hi \subseteq Included
  BY <1>3, RunInRange
<1>5. ASSUME NEW a \in addr..hi
      PROVE  a \notin Covered(segments)
  <2>1. a \in Addr /\ a \in Int
    BY <1>1, <1>4, InputFacts
  <2> SUFFICES ASSUME NEW j \in 1..Len(segments), Covers(segments[j], a)
               PROVE  FALSE
    BY <2>1, InputFacts DEF CoveredAt
  <2>2. /\ segments[j].start \in Int /\ EndAddress(segments[j]) \in Int
        /\ segments[j].start <= a /\ a <= EndAddress(segments[j])
    BY <2>1, SegmentFacts
  <2>3. CASE j < segIdx
    <3>1. j \in 1..(segIdx - 1)
      BY <2>3, <1>1, <1>2
    <3>2. QED
      BY <3>1, <2>1, <2>2, <1>1
  <2>4. CASE j = segIdx
    BY <2>1, <2>2, <2>4
  <2>5. CASE segIdx < j
    <3>1. segIdx \in 1..Len(segments) /\ segIdx <= Len(segments)
      BY <2>5, <1>1, <1>2
    <3>2. /\ segments[segIdx].start \in Int /\ EndAddress(segments[segIdx]) \in Int
          /\ segments[segIdx].start <= EndAddress(segments[segIdx])
          /\ EndAddress(segments[segIdx]) + 1 < segments[j].start
      BY <2>5, <3>1, SegmentFacts
    <3>3. QED
      BY <3>1, <3>2, <2>1, <2>2
  <2>6. QED
    BY <2>3, <2>4, <2>5, <1>1
<1>6. QED
  BY <1>4, <1>5

LEMMA ForcedStep == IInv /\ TakeForced => IInv'
<1> SUFFICES ASSUME IInv, TakeForced PROVE IInv'
  OBVIOUS
<1>1. /\ Inputs /\ WalkPoint(n, addr, segIdx, data) /\ res = "ok" /\ pc = "walk"
      /\ UNCHANGED input /\ n' = n /\ segIdx' = segIdx
      /\ addr <= ranges[n].end /\ ~OnData
      /\ IF InForced
           THEN data' = data \o ForcedRun(ForcedEnd) /\ addr' = ForcedEnd + 1
                /\ UNCHANGED <<pc, res>>
           ELSE pc' = "done" /\ res' = "error" /\ UNCHANGED <<data, addr>>
  <2>1. pc = "walk" /\ AtSegment /\ ~OnData
    BY DEF TakeForced, AtSegment, InRange
  <2>2. Inputs /\ Walking
    BY <2>1 DEF IInv
  <2>3. QED
    BY <2>1, <2>2 DEF TakeForced, Walking, AtSegment, InRange, range
<1>2. /\ segIdx \in 1..(Len(segments) + 1) /\ Len(segments) \in Nat /\ addr \in Int
      /\ n \in 1..Len(ranges)
  BY <1>1, InputFacts, LenProperties DEF WalkPoint, ListType
<1>3. HasSegment => segIdx \in 1..Len(segments) /\ seg.start \in Int /\ addr < seg.start
  <2> SUFFICES ASSUME HasSegment
               PROVE  segIdx \in 1..Len(segments) /\ seg.start \in Int /\ addr < seg.start
    OBVIOUS
  <2>1. segIdx \in 1..Len(segments)
    BY <1>2 DEF HasSegment
  <2>2. seg.start \in Int
    BY <2>1, <1>1, SegmentFacts DEF seg
  <2>3. QED
    BY <2>1, <2>2, <1>1, <1>2 DEF OnData
<1>4. ranges[n].end \in Int
  BY <1>1, <1>2, RangesInOrder
<1>5. InForcedRange(options, addr)
  <2>1. segIdx <= Len(segments) => addr < segments[segIdx].start
    BY <1>3 DEF HasSegment, seg
  <2>2. \A a \in addr..addr : a \in Included /\ a \notin Covered(segments)
    BY <2>1, <1>1, <1>2, GapIsForced
  <2>3. addr \in Included /\ addr \notin Covered(segments)
    BY <2>2, <1>2
  <2>4. QED
    BY <2>3, <1>1, InputFacts
<1>6. PICK f : f = options.forced.range /\ f \in RangeType
  BY <1>1, <1>5, OptionsAreRanges DEF Inputs, InForcedRange
<1>7. f.start \in Int /\ f.end \in Int /\ f.start <= addr /\ addr <= f.end
  BY <1>5, <1>6, RangeFacts DEF InForcedRange, In
<1>8. InForced
  BY <1>5, <1>6, <1>7 DEF InForced, InForcedRange
<1>9. PICK end, S : /\ end = ForcedEnd /\ end = Min(S)
                    /\ S = {f.end, ranges[n].end}
                           \union IF HasSegment /\ seg.start > addr THEN {seg.start - 1} ELSE {}
  BY <1>6 DEF ForcedEnd, range
<1>10. /\ end \in Int /\ addr <= end /\ end <= ranges[n].end
       /\ HasSegment => end < seg.start
  <2>1. S \subseteq Int /\ S # {} /\ \A x \in S : addr <= x
    BY <1>1, <1>2, <1>3, <1>4, <1>7, <1>9
  <2>2. end \in S /\ \A x \in S : end <= x
    BY <2>1, <1>2, <1>9, MinOf
  <2>3. ranges[n].end \in S /\ (HasSegment => seg.start - 1 \in S)
    BY <1>2, <1>3, <1>9
  <2>4. end \in Int /\ addr <= end /\ end <= ranges[n].end
    BY <2>1, <2>2, <2>3
  <2>5. HasSegment => end <= seg.start - 1
    BY <2>2, <2>3
  <2>6. QED
    BY <2>4, <2>5, <1>3
<1>11. \A a \in addr..end : a \in Included /\ a \notin Covered(segments)
  <2>1. segIdx <= Len(segments) => end < segments[segIdx].start
    BY <1>10 DEF HasSegment, seg
  <2>2. QED
    BY <2>1, <1>1, <1>2, <1>10, GapIsForced
<1>12. ForcedRun(end) = [j \in 1..(end - addr + 1) |-> Value(addr + j - 1)]
  <2>1. \A j \in 1..(end - addr + 1) : addr + j - 1 \in addr..end
    BY <1>2, <1>10
  <2>2. \A j \in 1..(end - addr + 1) :
          Value(addr + j - 1) = ForcedByte(options.forced, addr + j - 1)
    BY <2>1, <1>11 DEF Value
  <2>3. QED
    BY <2>2 DEF ForcedRun
<1>13. /\ data' = data \o ForcedRun(end) /\ addr' = end + 1 /\ pc' = "walk" /\ res' = "ok"
  BY <1>1, <1>8, <1>9
<1>14. \A j \in 1..(segIdx - 1) : EndAddress(segments[j]) <= end
  <2> SUFFICES ASSUME NEW j \in 1..(segIdx - 1) PROVE EndAddress(segments[j]) <= end
    OBVIOUS
  <2>1. j \in 1..Len(segments) /\ EndAddress(segments[j]) < addr
    BY <1>1, <1>2 DEF WalkPoint
  <2>2. EndAddress(segments[j]) \in Int
    BY <2>1, <1>1, SegmentFacts
  <2>3. QED
    BY <2>1, <2>2, <1>2, <1>10
<1>15. WalkPoint(n', addr', segIdx', data')
  <2>1. PICK k : k = segIdx /\ k \in 1..(Len(segments) + 1)
    BY <1>2
  <2>2. WalkPoint(n, end + 1, k,
          data \o [j \in 1..(end - addr + 1) |-> Value(addr + j - 1)])
    BY <2>1, <1>1, <1>10, <1>14, RunTaken
  <2>3. QED
    BY <2>1, <2>2, <1>1, <1>12, <1>13
<1>16. QED
  BY <1>1, <1>13, <1>15, WalkKept

LEMMA NextRangeStep == IInv /\ NextRange => IInv'
<1> SUFFICES ASSUME IInv, NextRange PROVE IInv'
  OBVIOUS
<1>1. /\ Inputs /\ WalkPoint(n, addr, segIdx, data) /\ res' = "ok" /\ pc = "walk"
      /\ UNCHANGED input /\ segIdx' = segIdx /\ data' = data
      /\ addr > ranges[n].end
      /\ IF n = Len(ranges) THEN pc' = "done" /\ UNCHANGED <<n, addr>>
         ELSE n' = n + 1 /\ addr' = ranges[n + 1].start /\ UNCHANGED pc
  BY DEF IInv, Walking, NextRange, range
<1>2. /\ n \in 1..Len(ranges) /\ addr \in Int /\ addr <= ranges[n].end + 1
      /\ data = Walked(Below(addr)) /\ Len(ranges) \in Nat
      /\ segIdx \in 1..(Len(segments) + 1) /\ Len(segments) \in Nat
      /\ \A j \in 1..(segIdx - 1) : EndAddress(segments[j]) < addr
  BY <1>1, InputFacts, LenProperties DEF WalkPoint, ListType
<1>3. addr = ranges[n].end + 1 /\ ranges[n].end \in Int
  BY <1>1, <1>2, RangesInOrder
<1>4. UpTo(n) = Below(addr)
  BY <1>2, <1>3 DEF UpTo
<1>5. CASE n = Len(ranges)
  <2>1. data' = Walked(Included) /\ pc' = "done"
    BY <1>1, <1>2, <1>4, <1>5, NothingBehind
  <2>2. Inputs' /\ Included' = Included /\ \A S : Walked(S)' = Walked(S)
    BY <1>1, InputsKept
  <2>3. Walked(Included)' = Walked(Included)
    <3>1. PICK S : S = Included
      OBVIOUS
    <3>2. Walked(S)' = Walked(Included)'
      BY <3>1, <2>2 DEF Walked
    <3>3. QED
      BY <3>1, <3>2, <2>2
  <2>4. QED
    BY <2>1, <2>2, <2>3, <1>1 DEF IInv, TakesAll, FailsBeforeData
<1>6. CASE n # Len(ranges)
  <2>1. n \in 0..(Len(ranges) - 1) /\ n + 1 \in 1..Len(ranges) /\ n < n + 1
    BY <1>2, <1>6
  <2>2. Below(addr) = Below(ranges[n + 1].start)
    <3>1. PICK m : m = n /\ m \in 0..(Len(ranges) - 1)
      BY <2>1
    <3>2. UpTo(m) = Below(ranges[m + 1].start)
      BY <3>1, <1>1, NothingBetween
    <3>3. QED
      BY <3>1, <3>2, <1>4
  <2>3. /\ ranges[n + 1].start \in Int /\ ranges[n + 1].end \in Int
        /\ ranges[n + 1].start <= ranges[n + 1].end + 1
        /\ addr < ranges[n + 1].start
    <3>1. PICK i, j : i \in 1..Len(ranges) /\ j \in 1..Len(ranges) /\ i = n /\ j = n + 1
      BY <2>1, <1>2
    <3>2. /\ ranges[j].start \in Int /\ ranges[j].end \in Int
          /\ ranges[j].start <= ranges[j].end
          /\ ranges[i].end + 1 < ranges[j].start
      BY <3>1, <1>1, <2>1, RangesInOrder
    <3>3. QED
      BY <3>1, <3>2, <1>3
  <2>4. \A j \in 1..(segIdx - 1) : EndAddress(segments[j]) < ranges[n + 1].start
    <3> SUFFICES ASSUME NEW j \in 1..(segIdx - 1)
                 PROVE  EndAddress(segments[j]) < ranges[n + 1].start
      OBVIOUS
    <3>1. j \in 1..Len(segments) /\ EndAddress(segments[j]) < addr
      BY <1>2
    <3>2. EndAddress(segments[j]) \in Int
      BY <3>1, <1>1, SegmentFacts
    <3>3. QED
      BY <3>1, <3>2, <2>3, <1>2
  <2>5. n' = n + 1 /\ addr' = ranges[n + 1].start /\ pc' = "walk"
    BY <1>1, <1>6
  <2>6. data' = Walked(Below(addr'))
    BY <2>2, <2>5, <1>1, <1>2
  <2>7. WalkPoint(n', addr', segIdx', data')
    BY <2>1, <2>3, <2>4, <2>5, <2>6, <1>1, <1>2 DEF WalkPoint
  <2>8. QED
    BY <2>5, <2>7, <1>1, WalkKept
<1>7. QED
  BY <1>5, <1>6

LEMMA StutterStep == IInv /\ UNCHANGED vars => IInv'
<1> SUFFICES ASSUME IInv, UNCHANGED vars PROVE IInv'
  OBVIOUS
<1>1. /\ UNCHANGED input /\ n' = n /\ addr' = addr /\ segIdx' = segIdx
      /\ data' = data /\ res' = res /\ pc' = pc /\ Inputs
  BY DEF vars, input, IInv
<1>2. /\ Inputs' /\ Included' = Included /\ \A S : Walked(S)' = Walked(S)
      /\ CanCollect(ranges, options)' = CanCollect(ranges, options)
  BY <1>1, InputsKept
<1>3. CASE pc = "walk"
  <2>1. WalkPoint(n', addr', segIdx', data') /\ res' = "ok" /\ pc' = "walk"
    BY <1>1, <1>3 DEF IInv, Walking
  <2>2. QED
    BY <2>1, <1>1, WalkKept
<1>4. CASE pc # "walk"
  <2>1. Walked(Included)' = Walked(Included)
    <3>1. PICK S : S = Included
      OBVIOUS
    <3>2. Walked(S)' = Walked(Included)'
      BY <3>1, <1>2 DEF Walked
    <3>3. QED
      BY <3>1, <3>2, <1>2
  <2>2. QED
    BY <2>1, <1>1, <1>2, <1>4 DEF IInv, TakesAll, FailsBeforeData
<1>5. QED
  BY <1>3, <1>4

LEMMA IInvHolds == Spec => []IInv
<1>1. Init => IInv
  BY InitIInv
<1>2. IInv /\ [Next]_vars => IInv'
  BY CheckStep, SkipStep, DataStep, ForcedStep, NextRangeStep, StutterStep DEF Next
<1>3. QED
  BY <1>1, <1>2, PTL DEF Spec

-----------------------------------------------------------------------------
(* The properties of the walk *)

\* Every segment behind the kept index ends before the address the walk is at:
\* the index of collect_data_for_checksum never passes data it has not taken.
THEOREM IndexNeverAhead == Spec => []IndexBehindCursor
<1>1. IInv => IndexBehindCursor
  BY DEF IInv, Walking, WalkPoint, IndexBehindCursor
<1>2. QED
  BY <1>1, IInvHolds, PTL

\* No error after the first byte: each address of the ranges has data or lies in
\* the forced range, so that only the checks before the loop can fail.
THEOREM ErrorsComeFirst == Spec => []FailsBeforeData
<1>1. IInv => FailsBeforeData
  BY DEF IInv
<1>2. QED
  BY <1>1, IInvHolds, PTL

\* However the options cut the segments, the data taken so far are the bytes of
\* the included addresses below the cursor, each once, in address order.
THEOREM TakenInOrder == Spec => []TakesIncludedInOrder
<1>1. IInv => TakesIncludedInOrder
  BY DEF IInv, Walking, WalkPoint, Below, TakesIncludedInOrder
<1>2. QED
  BY <1>1, IInvHolds, PTL

\* A call that returns has taken all of them.
THEOREM AllTaken == Spec => []TakesAll
<1>1. IInv => TakesAll
  BY DEF IInv
<1>2. QED
  BY <1>1, IInvHolds, PTL

\* The loops make the list that CollectData describes, which the other modules
\* use in their place.
THEOREM WalkCollectsData == Spec => []WalkIsCollectData
<1>1. IInv => WalkIsCollectData
  <2> SUFFICES ASSUME IInv, pc = "done", res = "ok"
               PROVE  data = CollectData(segments, options, ranges)
    BY DEF WalkIsCollectData
  <2>1. Inputs /\ data = Walked(Included)
    BY DEF IInv, TakesAll
  <2>2. QED
    BY <2>1, CollectDataWalks
<1>2. QED
  BY <1>1, IInvHolds, PTL

=============================================================================

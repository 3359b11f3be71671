---------------------------- MODULE SparseImage ----------------------------
(***************************************************************************)
(* What a HexFile promises its callers: a sparse map from addresses to     *)
(* bytes.  A call has an effect on the map, or it fails and leaves the map *)
(* as it was.  Raw segments, their order and their overlaps do not appear. *)
(***************************************************************************)
EXTENDS Integers, Sequences, FiniteSets

CONSTANTS
  MaxAddr, Byte, None, Zero,
  Calls,     \* the calls that can be made, each with its arguments
  Idle       \* no call is being answered

VARIABLES
  mem,       \* mem[a] is the byte at address a, or None
  call,      \* the call just answered, or Idle
  res        \* its answer: "ok" or the error it returned

vars == <<mem, call, res>>

Addr == 0..MaxAddr

Images == [Addr -> Byte \union {None}]

Blank == [a \in Addr |-> None]

Used(m) == { a \in Addr : m[a] # None }

Lowest(S) == CHOOSE a \in S : \A x \in S : a <= x
Highest(S) == CHOOSE a \in S : \A x \in S : a >= x

\* The bytes of one segment laid over nothing.
Layer(s) ==
  [a \in Addr |-> IF s.start <= a /\ a < s.start + Len(s.data)
                    THEN s.data[a - s.start + 1] ELSE None]

Over(top, bottom) == [a \in Addr |-> IF top[a] # None THEN top[a] ELSE bottom[a]]

Only(m, S) == [a \in Addr |-> IF a \in S THEN m[a] ELSE None]

Moved(m, k) ==
  [a \in Addr |-> IF a - k \in Addr THEN m[a - k] ELSE None]

CanMove(m, k) == \A a \in Used(m) : a + k \in Addr

InRange(a, r) == r.start <= a /\ a <= r.requested

InSome(ranges) == { a \in Addr : \E n \in DOMAIN ranges : InRange(a, ranges[n]) }

\* A pattern laid over the ranges, its phase counted from the start of the
\* range that fills the address: the n-th range where pick chooses n.
Patterned(ranges, pattern, pick(_)) ==
  [a \in Addr |->
     LET hits == { n \in DOMAIN ranges : InRange(a, ranges[n]) }
     IN IF hits = {} THEN None
        ELSE pattern[((a - ranges[pick(hits)].start) % Len(pattern)) + 1]]

CanLayOut(ranges, pattern) ==
  pattern = <<>> \/ \A n \in DOMAIN ranges :
                      /\ ranges[n].requested <= MaxAddr
                      /\ ranges[n].requested - ranges[n].start < MaxAddr

\* Gaps take the first range's pattern; overwriting leaves the last range's.
Filled(m, c) ==
  IF c.pattern = <<>> THEN m
  ELSE IF c.overwrite THEN Over(Patterned(c.ranges, c.pattern, Highest), m)
  ELSE Over(m, Patterned(c.ranges, c.pattern, Lowest))

Span(m) == Lowest(Used(m)) .. Highest(Used(m))

FilledSpan(m, byte) ==
  IF Used(m) = {} THEN m
  ELSE [a \in Addr |-> IF a \in Span(m) /\ m[a] = None THEN byte ELSE m[a]]

SpanAtMost(m, limit) == Used(m) = {} \/ Cardinality(Span(m)) <= limit

\* The other image as the merge sees it, before its offset.
Source(c) == IF c.ranges = <<>> THEN c.image ELSE Only(c.image, InSome(c.ranges))

Merged(m, c) ==
  LET moved == Moved(Source(c), c.offset)
  IN IF c.mode = "Overwrite" THEN Over(moved, m) ELSE Over(m, moved)

\* The addresses that share a block of the alignment with a.
Block(a, alignment) ==
  LET first == a - (a % alignment) IN { x \in Addr : first <= x /\ x < first + alignment }

\* Below the bytes of a block everything is padded, and above them with length
\* set, unless the end of the block is not an address itself.
Pads(m, c, a) ==
  LET block == Block(a, c.alignment)
  IN \/ \E x \in block \intersect Used(m) : a < x
     \/ /\ c.length
        /\ \E x \in block \intersect Used(m) : x < a
        /\ a - (a % c.alignment) + c.alignment <= MaxAddr

Aligned(m, c) ==
  [a \in Addr |-> IF m[a] = None /\ Pads(m, c, a) THEN c.byte ELSE m[a]]

\* Bytes can be written there: a length of the whole space is no u32.
CanLay(start, len) == len <= MaxAddr /\ start + len - 1 <= MaxAddr

\* A copy of a range to an address at, a group of bytes at a time: made of the
\* bytes from, in order, where 0 stands for a zero byte.
CopyFrom(c) ==
  CASE c.op = "dspic_expand" -> [of |-> 2, from |-> <<1, 2, 0, 0>>]
    [] c.op = "dspic_shrink" -> [of |-> 4, from |-> <<1, 2>>]
    [] c.op = "dspic_clear_ghost" -> [of |-> 4, from |-> <<1, 2, 3, 0>>]

CopyAt(c) ==
  CASE c.op = "dspic_clear_ghost" -> c.range.start
    [] c.op # "dspic_clear_ghost" /\ c.target # None -> c.target
    [] c.op = "dspic_expand" /\ c.target = None -> c.range.start * 2
    [] c.op = "dspic_shrink" /\ c.target = None -> c.range.start \div 2

Groups(c) == (c.range.requested - c.range.start + 1) \div CopyFrom(c).of

CanCopy(m, c) ==
  /\ (c.range.requested - c.range.start + 1) % CopyFrom(c).of = 0
  /\ c.range.start..c.range.requested \subseteq Used(m)
  /\ c.op = "dspic_shrink" /\ c.target = None => c.range.start % 2 = 0
  /\ CanLay(CopyAt(c), Groups(c) * Len(CopyFrom(c).from))

Copied(m, c) ==
  LET size == Len(CopyFrom(c).from)
      at == CopyAt(c)
      Made(k) == LET i == CopyFrom(c).from[(k % size) + 1]
                 IN IF i = 0 THEN Zero
                    ELSE m[c.range.start + (k \div size) * CopyFrom(c).of + i - 1]
  IN [a \in Addr |-> IF at <= a /\ a < at + Groups(c) * size THEN Made(a - at)
                     ELSE m[a]]

\* Calls that turn or move segments as a whole, so that the image alone does not
\* determine their effect: of these the map promises only that a call that
\* fails changes nothing.
OnSegments == {"swap_word", "swap_long", "scale_addresses", "unscale_addresses"}

\* Whether the call succeeds, and what it makes of the image when it does.
Accepts(c, m) ==
  CASE c.op = "write_bytes" -> CanLay(c.seg.start, Len(c.seg.data))
    [] c.op = "fill_ranges" -> CanLayOut(c.ranges, c.pattern)
    [] c.op = "fill_gaps" -> SpanAtMost(m, c.limit)
    [] c.op = "merge" -> CanMove(Source(c), c.offset)
    [] c.op = "offset_addresses" -> CanMove(m, c.offset)
    [] c.op = "align" -> c.alignment # 0
    [] c.op \in {"dspic_expand", "dspic_shrink", "dspic_clear_ghost"} -> CanCopy(m, c)
    [] OTHER -> TRUE

Effect(c, m) ==
  CASE c.op \in {"append_segment", "write_bytes"} -> Over(Layer(c.seg), m)
    [] c.op = "prepend_segment" -> Over(m, Layer(c.seg))
    [] c.op \in {"normalized", "split"} -> m
    [] c.op = "filter_ranges" -> Only(m, InSome(c.ranges))
    [] c.op = "cut_ranges" -> Only(m, Addr \ InSome(c.ranges))
    [] c.op = "fill_ranges" -> Filled(m, c)
    [] c.op = "fill_gaps" -> FilledSpan(m, c.byte)
    [] c.op = "merge" -> Merged(m, c)
    [] c.op = "offset_addresses" -> Moved(m, c.offset)
    [] c.op = "align" -> Aligned(m, c)
    [] c.op \in {"dspic_expand", "dspic_shrink", "dspic_clear_ghost"} -> Copied(m, c)

Init == mem = Blank /\ call = Idle /\ res = "ok"

Answer(c) ==
  /\ call = Idle
  /\ call' = c
  /\ IF c.op \in OnSegments
       THEN mem' \in Images /\ (res' = "ok" \/ (res' = "error" /\ UNCHANGED mem))
       ELSE IF Accepts(c, mem)
         THEN mem' = Effect(c, mem) /\ res' = "ok"
         ELSE UNCHANGED mem /\ res' = "error"

Return == call # Idle /\ call' = Idle /\ res' = "ok" /\ UNCHANGED mem

Next == Return \/ \E c \in Calls : Answer(c)

Spec == Init /\ [][Next]_vars

=============================================================================

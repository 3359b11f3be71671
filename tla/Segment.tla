------------------------------ MODULE Segment ------------------------------
(***************************************************************************)
(* hexy-core/src/segment.rs: a run of bytes at a start address.            *)
(***************************************************************************)
EXTENDS AddressSpace, Sequences

CONSTANT Byte   \* the values a data byte can have

(***************************************************************************)
(* checked_end_address_for(start, len).is_some().  u32::try_from(len)      *)
(* refuses a length of MaxAddr + 1 even at address 0.                      *)
(***************************************************************************)
FitsAt(start, len) ==
  \/ len = 0
  \/ len <= MaxAddr /\ start + len - 1 <= MaxAddr

\* What Segment::try_new accepts.
SegmentType ==
  { s \in [start : Addr, data : Seq(Byte)] : FitsAt(s.start, Len(s.data)) }

IsEmpty(s) == Len(s.data) = 0

(***************************************************************************)
(* end_address: inclusive; the start itself when the segment is empty; and *)
(* MaxAddr when the length is one that FitsAt refuses.                     *)
(***************************************************************************)
EndAddress(s) ==
  IF ~FitsAt(s.start, Len(s.data)) THEN MaxAddr
  ELSE IF IsEmpty(s) THEN s.start
  ELSE s.start + Len(s.data) - 1

\* is_contiguous_with: end_address().checked_add(1) == Some(other.start).
IsContiguousWith(s, t) ==
  EndAddress(s) < MaxAddr /\ t.start = EndAddress(s) + 1

Covers(s, a) == s.start <= a /\ a < s.start + Len(s.data)

ByteAt(s, a) == s.data[a - s.start + 1]

\* Segment s puts byte b at address a.
Has(s, a, b) == Covers(s, a) /\ ByteAt(s, a) = b

\* The bytes of s at lo..hi, a slice of its data at its own addresses.
Clip(s, lo, hi) ==
  [start |-> lo, data |-> SubSeq(s.data, lo - s.start + 1, hi - s.start + 1)]

\* last.data.extend(seg.data)
Join(s, t) == [start |-> s.start, data |-> s.data \o t.data]

=============================================================================

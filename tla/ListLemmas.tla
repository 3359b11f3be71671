----------------------------- MODULE ListLemmas -----------------------------
(***************************************************************************)
(* What the proofs about the components use, for every address space and   *)
(* every set of byte values: induction over numbers and over the steps of  *)
(* a fold, lists of ranges and what merge_ranges makes of them (range.rs), *)
(* lists of segments, what the functions of hexfile.rs make of them and    *)
(* how they read, and the addresses that a checksum includes               *)
(* (ops/checksum.rs).                                                      *)
(***************************************************************************)
EXTENDS ChecksumOps, SequenceTheorems, WellFoundedInduction, TLAPS

-----------------------------------------------------------------------------
(* Induction *)

LEMMA LessWellFounded ==
  \E R : IsWellFoundedOn(R, Nat) /\ \A x, y \in Nat : y < x => <<y, x>> \in R
<1> DEFINE R == {ss \in Nat \X Nat : ss[1] < ss[2]}
<1>1. IsWellFoundedOn(R, Nat)
  BY NatLessThanWellFounded, Zenon DEF OpToRel
<1>2. QED
  BY <1>1

\* A set of numbers that is not empty has a least element.
LEMMA LeastElement ==
  ASSUME NEW S, S \subseteq Nat, S # {}
  PROVE  \E x \in S : \A y \in S : x <= y
<1>1. PICK R : IsWellFoundedOn(R, Nat) /\ \A x, y \in Nat : y < x => <<y, x>> \in R
  BY LessWellFounded
<1>2. PICK x \in S : \A y \in S : ~(<<y, x>> \in R)
  BY <1>1, WFMin
<1>3. \A y \in S : x <= y
  <2> SUFFICES ASSUME NEW y \in S PROVE x <= y
    OBVIOUS
  <2>1. x \in Nat /\ y \in Nat
    OBVIOUS
  <2>2. ~(<<y, x>> \in R)
    BY <1>2
  <2>3. ~(y < x)
    BY <2>1, <2>2, <1>1
  <2>4. QED
    BY <2>1, <2>3
<1>4. QED
  BY <1>3

\* Induction over 0 .. n, with the set of the numbers for which the claim holds.
LEMMA InductionUpTo ==
  ASSUME NEW n \in Nat, NEW T, 0 \in T, \A k \in 0..(n - 1) : k \in T => k + 1 \in T
  PROVE  \A k \in 0..n : k \in T
<1> DEFINE F == {k \in 0..n : k \notin T}
<1> SUFFICES ASSUME F # {} PROVE FALSE
  OBVIOUS
<1>1. PICK x \in F : \A y \in F : x <= y
  <2>1. F \subseteq Nat
    OBVIOUS
  <2>2. QED
    BY <2>1, LeastElement
<1>2. x - 1 \in 0..(n - 1) /\ x - 1 \notin F
  BY <1>1
<1>3. QED
  BY <1>2

-----------------------------------------------------------------------------
(* Least and greatest elements *)

LEMMA MaxOf ==
  ASSUME NEW n \in Int, NEW S, S \subseteq Int, S # {}, \A x \in S : x <= n
  PROVE  /\ Max(S) \in S
         /\ \A x \in S : x <= Max(S)
<1> DEFINE T == {n - x : x \in S}
<1>1. T \subseteq Nat /\ T # {}
  <2>1. \A x \in S : n - x \in Nat
    OBVIOUS
  <2>2. QED
    BY <2>1
<1>2. PICK t \in T : \A y \in T : t <= y
  BY <1>1, LeastElement
<1>3. PICK x \in S : t = n - x
  OBVIOUS
<1>4. \A y \in S : x >= y
  <2> SUFFICES ASSUME NEW y \in S PROVE x >= y
    OBVIOUS
  <2>1. n - y \in T /\ x \in Int /\ y \in Int
    OBVIOUS
  <2>2. QED
    BY <2>1, <1>2, <1>3
<1>5. Max(S) \in S /\ \A y \in S : Max(S) >= y
  BY <1>4 DEF Max
<1>6. QED
  BY <1>5

LEMMA MinOf ==
  ASSUME NEW n \in Int, NEW S, S \subseteq Int, S # {}, \A x \in S : n <= x
  PROVE  /\ Min(S) \in S
         /\ \A x \in S : Min(S) <= x
<1> DEFINE T == {x - n : x \in S}
<1>1. T \subseteq Nat /\ T # {}
  <2>1. \A x \in S : x - n \in Nat
    OBVIOUS
  <2>2. QED
    BY <2>1
<1>2. PICK t \in T : \A y \in T : t <= y
  BY <1>1, LeastElement
<1>3. PICK x \in S : t = x - n
  OBVIOUS
<1>4. \A y \in S : x =< y
  <2> SUFFICES ASSUME NEW y \in S PROVE x =< y
    OBVIOUS
  <2>1. y - n \in T /\ x \in Int /\ y \in Int
    OBVIOUS
  <2>2. x - n <= y - n
    BY <2>1, <1>2, <1>3
  <2>3. QED
    BY <2>1, <2>2
<1>5. QED
  BY <1>4 DEF Min

\* The greater and the lesser of two numbers.
LEMMA MaxOfTwo ==
  ASSUME NEW x \in Int, NEW y \in Int
  PROVE  Max({x, y}) = IF x >= y THEN x ELSE y
<1>1. Max({x, y}) \in {x, y} /\ \A z \in {x, y} : z <= Max({x, y})
  <2>1. \A z \in {x, y} : z <= IF x >= y THEN x ELSE y
    OBVIOUS
  <2>2. QED
    BY <2>1, MaxOf
<1>2. QED
  BY <1>1

LEMMA MinOfTwo ==
  ASSUME NEW x \in Int, NEW y \in Int
  PROVE  Min({x, y}) = IF x <= y THEN x ELSE y
<1>1. Min({x, y}) \in {x, y} /\ \A z \in {x, y} : Min({x, y}) <= z
  <2>1. \A z \in {x, y} : (IF x <= y THEN x ELSE y) <= z
    OBVIOUS
  <2>2. QED
    BY <2>1, MinOf
<1>3. QED
  BY <1>1

-----------------------------------------------------------------------------
(* Quotients *)

\* A quotient and its remainder.
LEMMA DivisionFacts ==
  ASSUME NEW x \in Nat, NEW y \in Nat, y > 0
  PROVE  /\ x \div y \in Nat /\ x % y \in Nat /\ x % y < y
         /\ x = y * (x \div y) + (x % y)
  OBVIOUS

\* A multiple of y strictly between -y and y is 0.
LEMMA SmallMultiple ==
  ASSUME NEW y \in Nat, NEW d \in Int, y > 0, y * d < y, -y < y * d
  PROVE  d = 0
<1>1. d >= 1 => y * d >= y
  OBVIOUS
<1>2. d <= -1 => y * d <= -y
  OBVIOUS
<1>3. QED
  BY <1>1, <1>2

\* A number between two multiples of y has the lower one for its quotient.
LEMMA Quotient ==
  ASSUME NEW x \in Nat, NEW y \in Nat, y > 0, NEW b \in Nat, y * b <= x, x < y * b + y
  PROVE  x \div y = b
<1> DEFINE q == x \div y
           r == x % y
<1>1. q \in Nat /\ r \in Nat /\ r < y /\ x = y * q + r
  BY DivisionFacts
<1> HIDE DEF q, r
<1>2. y * (q - b) = y * q - y * b /\ y * q \in Int /\ y * b \in Int
  BY <1>1
<1>3. y * (q - b) < y /\ -y < y * (q - b)
  BY <1>1, <1>2
<1>4. q - b = 0
  BY <1>1, <1>3, SmallMultiple
<1>5. QED
  BY <1>1, <1>4 DEF q

LEMMA SmallRemainder ==
  ASSUME NEW x \in Nat, NEW y \in Nat, x < y
  PROVE  x \div y = 0 /\ x % y = x
<1>1. x \div y = 0
  BY Quotient
<1>2. x = y * (x \div y) + (x % y) /\ x % y \in Nat
  BY DivisionFacts
<1>3. QED
  BY <1>1, <1>2

\* k more, where the remainder allows it, leave the quotient as it is.
LEMMA SameQuotient ==
  ASSUME NEW x \in Nat, NEW y \in Nat, y > 0, NEW k \in Nat, (x % y) + k < y
  PROVE  (x + k) \div y = x \div y /\ (x + k) % y = (x % y) + k
<1> DEFINE q == x \div y
           r == x % y
           p == (x + k) \div y
           s == (x + k) % y
<1>1. q \in Nat /\ r \in Nat /\ r < y /\ x = y * q + r /\ r + k < y
  BY DivisionFacts
<1>2. p \in Nat /\ s \in Nat /\ s < y /\ x + k = y * p + s
  BY DivisionFacts
<1> HIDE DEF q, r, p, s
<1>3. y * (p - q) = y * p - y * q
  BY <1>1, <1>2
<1>4. y * p \in Int /\ y * q \in Int
  BY <1>1, <1>2
<1>5. y * (p - q) = r + k - s
  BY <1>1, <1>2, <1>3, <1>4
<1>6. p - q = 0
  BY <1>1, <1>2, <1>5, SmallMultiple
<1>7. s = r + k
  BY <1>1, <1>2, <1>6
<1>8. QED
  BY <1>1, <1>2, <1>6, <1>7 DEF q, r, p, s

\* The multiple of y below a number is that of every number up to the next.
LEMMA RoundedDown ==
  ASSUME NEW x \in Nat, NEW y \in Nat \ {0}
  PROVE  /\ x % y \in Nat /\ x - (x % y) \in Nat
         /\ x - (x % y) <= x /\ x < x - (x % y) + y
<1>1. PICK r \in Nat : r = x % y /\ r <= x /\ r < y
  BY DivisionFacts
<1>2. x - r \in Nat /\ x - r <= x /\ x < x - r + y
  BY ONLY <1>1
<1>3. QED
  BY <1>1, <1>2

LEMMA SameMultiple ==
  ASSUME NEW x \in Nat, NEW z \in Nat, NEW y \in Nat \ {0},
         x - (x % y) <= z, z < x - (x % y) + y
  PROVE  z - (z % y) = x - (x % y)
<1>1. PICK r, first : r = x % y /\ first = x - r
  OBVIOUS
<1>2. r \in Nat /\ r < y /\ x \div y \in Nat /\ x = y * (x \div y) + r
  BY <1>1, DivisionFacts
<1>3. PICK b \in Nat : b = x \div y /\ y * b = first
  BY <1>1, <1>2
<1>4. y * b <= z /\ z < y * b + y
  BY <1>1, <1>3
<1>5. z \div y = b
  BY <1>4, Quotient
<1>6. PICK s : s = z % y
  OBVIOUS
<1>7. s \in Nat /\ z = y * (z \div y) + s
  BY <1>6, DivisionFacts
<1>8. z = first + s /\ first \in Int
  BY <1>3, <1>5, <1>7
<1>9. z - s = first
  BY ONLY <1>7, <1>8
<1>10. QED
  BY <1>1, <1>6, <1>9

-----------------------------------------------------------------------------
(* Folds.  FoldLeft folds over the subsets of the indices of a list, from the
   greatest index down.  F[<<x, k>>] stands for one step: what the fold makes of
   x and the k-th element. *)

IsStep(F, n, A) == F \in [A \X (1..n) -> A]

\* h folds over the subsets of 1 .. n.
Folds(h, n, base, F) ==
  /\ h[{}] = base
  /\ \A s \in SUBSET (1..n) : s # {} => h[s] = F[<<h[s \ {Max(s)}], Max(s)>>]

\* The values that a fold passes through: one for each prefix of the list.
IsRun(acc, n, A, base, F) ==
  /\ acc \in [0..n -> A]
  /\ acc[0] = base
  /\ \A k \in 1..n : acc[k] = F[<<acc[k - 1], k>>]

\* g folds, as long as its values stay in A.
FoldsWithin(g, n, A, base, F) ==
  /\ g[{}] = base
  /\ \A s \in SUBSET (1..n) : s # {} /\ g[s \ {Max(s)}] \in A
        => g[s] = F[<<g[s \ {Max(s)}], Max(s)>>]

LEMMA MaxUpTo ==
  ASSUME NEW n \in Nat, NEW s \in SUBSET (1..n), s # {}
  PROVE  /\ Max(s) \in s
         /\ \A x \in s : x <= Max(s)
<1>1. n \in Int /\ s \subseteq Int /\ \A x \in s : x <= n
  OBVIOUS
<1>2. QED
  BY <1>1, MaxOf, Zenon

LEMMA MaxInterval ==
  ASSUME NEW k \in Nat \ {0}
  PROVE  Max(1..k) = k /\ (1..k) \ {k} = 1..(k - 1)
<1>1. k \in Nat /\ 1..k \in SUBSET (1..k) /\ 1..k # {}
  OBVIOUS
<1>2. Max(1..k) \in 1..k /\ \A x \in 1..k : x <= Max(1..k)
  BY <1>1, MaxUpTo, Zenon
<1>3. QED
  BY <1>2

\* There is a function that folds.
LEMMA FoldExists ==
  ASSUME NEW n \in Nat, NEW A, NEW base \in A, NEW F, IsStep(F, n, A)
  PROVE  \E h \in [SUBSET (1..n) -> A] : Folds(h, n, base, F)
<1> DEFINE T == {m \in 0..n : \E h \in [SUBSET (1..m) -> A] : Folds(h, m, base, F)}
<1>1. 0 \in T
  <2> DEFINE h == [s \in SUBSET (1..0) |-> base]
  <2>1. SUBSET (1..0) = {{}}
    OBVIOUS
  <2>2. h \in [SUBSET (1..0) -> A] /\ Folds(h, 0, base, F)
    BY <2>1 DEF Folds
  <2>3. QED
    BY <2>2
<1>2. ASSUME NEW m \in 0..(n - 1), m \in T
      PROVE  m + 1 \in T
  <2>1. PICK h \in [SUBSET (1..m) -> A] : Folds(h, m, base, F)
    BY <1>2
  <2> DEFINE g == [s \in SUBSET (1..(m + 1)) |->
                     IF m + 1 \in s THEN F[<<h[s \ {m + 1}], m + 1>>] ELSE h[s]]
  <2>2. m + 1 \in 1..n /\ m \in Nat
    OBVIOUS
  <2>3. \A s \in SUBSET (1..(m + 1)) : m + 1 \in s => s \ {m + 1} \in SUBSET (1..m)
    BY <2>2
  <2>4. \A s \in SUBSET (1..(m + 1)) : m + 1 \notin s => s \in SUBSET (1..m)
    BY <2>2
  <2>5. g \in [SUBSET (1..(m + 1)) -> A]
    BY <2>2, <2>3, <2>4 DEF IsStep
  <2>6. g[{}] = base
    BY <2>1 DEF Folds
  <2>7. ASSUME NEW s \in SUBSET (1..(m + 1)), s # {}
        PROVE  g[s] = F[<<g[s \ {Max(s)}], Max(s)>>]
    <3>1. CASE m + 1 \in s
      <4>1. Max(s) = m + 1
        <5>1. m + 1 \in Nat
          OBVIOUS
        <5>2. Max(s) \in s /\ \A x \in s : x <= Max(s)
          BY <5>1, <2>7, MaxUpTo, Zenon
        <5>3. Max(s) \in 1..(m + 1) /\ m + 1 <= Max(s)
          BY <5>2, <3>1
        <5>4. QED
          BY <5>1, <5>3
      <4>2. s \ {m + 1} \in SUBSET (1..(m + 1)) /\ m + 1 \notin s \ {m + 1}
        OBVIOUS
      <4>3. QED
        BY <3>1, <4>1, <4>2
    <3>2. CASE m + 1 \notin s
      <4>1. s \in SUBSET (1..m)
        BY <3>2, <2>4
      <4>2. Max(s) \in s
        BY <4>1, <2>7, <2>2, MaxUpTo
      <4>3. s \ {Max(s)} \in SUBSET (1..m) /\ m + 1 \notin s \ {Max(s)}
        BY <4>1, <3>2
      <4>4. s \ {Max(s)} \in SUBSET (1..(m + 1))
        OBVIOUS
      <4>5. g[s] = h[s] /\ g[s \ {Max(s)}] = h[s \ {Max(s)}]
        BY <3>2, <4>3, <4>4
      <4>6. QED
        BY <4>1, <4>5, <2>1, <2>7 DEF Folds
    <3>3. QED
      BY <3>1, <3>2
  <2>8. Folds(g, m + 1, base, F)
    BY <2>6, <2>7 DEF Folds
  <2>9. \E f \in [SUBSET (1..(m + 1)) -> A] : Folds(f, m + 1, base, F)
    BY <2>5, <2>8, Zenon
  <2>10. QED
    BY <2>9
<1>3. \A k \in 0..n : k \in T
  <2> HIDE DEF T
  <2>1. QED
    BY <1>1, <1>2, InductionUpTo
<1>4. n \in 0..n
  OBVIOUS
<1>5. n \in T
  BY <1>3, <1>4
<1>6. QED
  BY <1>5

\* The values that any folding function has for the prefixes of the list.
LEMMA FoldRun ==
  ASSUME NEW n \in Nat, NEW A, NEW base \in A, NEW F, IsStep(F, n, A),
         NEW g, FoldsWithin(g, n, A, base, F)
  PROVE  \E acc : IsRun(acc, n, A, base, F) /\ g[1..n] = acc[n]
<1> DEFINE acc == [k \in 0..n |-> g[1..k]]
           T == {k \in 0..n : g[1..k] \in A}
<1>1. 1..0 = {}
  OBVIOUS
<1>2. \A k \in 1..n : /\ 1..k \in SUBSET (1..n) /\ 1..k # {}
                      /\ Max(1..k) = k /\ (1..k) \ {k} = 1..(k - 1)
  BY MaxInterval
<1>3. \A k \in 1..n : g[1..(k - 1)] \in A => g[1..k] = F[<<g[1..(k - 1)], k>>]
  BY <1>2 DEF FoldsWithin
<1>4. 0 \in T
  BY <1>1 DEF FoldsWithin
<1>5. ASSUME NEW k \in 0..(n - 1), k \in T
      PROVE  k + 1 \in T
  <2>1. k + 1 \in 1..n /\ (k + 1) - 1 = k
    OBVIOUS
  <2>2. g[1..(k + 1)] = F[<<g[1..k], k + 1>>]
    BY <2>1, <1>3, <1>5
  <2>3. QED
    BY <2>1, <2>2, <1>5 DEF IsStep
<1>6. \A k \in 0..n : k \in T
  BY <1>4, <1>5, InductionUpTo
<1>7. \A k \in 0..n : g[1..k] \in A
  BY <1>6
<1>8. acc \in [0..n -> A] /\ acc[0] = base
  BY <1>7, <1>1 DEF FoldsWithin
<1>9. \A k \in 1..n : acc[k] = F[<<acc[k - 1], k>>]
  <2> SUFFICES ASSUME NEW k \in 1..n PROVE acc[k] = F[<<acc[k - 1], k>>]
    OBVIOUS
  <2>1. k \in 0..n /\ k - 1 \in 0..n
    OBVIOUS
  <2>2. QED
    BY <2>1, <1>3, <1>7
<1>10. g[1..n] = acc[n]
  OBVIOUS
<1>11. IsRun(acc, n, A, base, F)
  BY <1>8, <1>9 DEF IsRun
<1>12. QED
  BY <1>8, <1>10, <1>11, Zenon

-----------------------------------------------------------------------------
(* Recursive functions of the length of a prefix *)

LEMMA RunExists ==
  ASSUME NEW n \in Nat, NEW A, NEW base \in A, NEW F, IsStep(F, n, A)
  PROVE  \E acc : IsRun(acc, n, A, base, F)
<1>1. PICK h \in [SUBSET (1..n) -> A] : Folds(h, n, base, F)
  BY FoldExists
<1>2. FoldsWithin(h, n, A, base, F)
  BY <1>1 DEF Folds, FoldsWithin
<1>3. QED
  BY <1>2, FoldRun

\* g makes the same steps, as long as its values stay in A.
RunsWithin(g, n, A, base, F) ==
  /\ g[0] = base
  /\ \A k \in 1..n : g[k - 1] \in A => g[k] = F[<<g[k - 1], k>>]

\* Two runs by the same steps agree.
LEMMA RunUnique ==
  ASSUME NEW n \in Nat, NEW A, NEW base, NEW F, IsStep(F, n, A),
         NEW f, IsRun(f, n, A, base, F),
         NEW g, RunsWithin(g, n, A, base, F)
  PROVE  g[n] = f[n]
<1> DEFINE T == {k \in 0..n : g[k] = f[k]}
<1>1. 0 \in T
  BY DEF IsRun, RunsWithin
<1>2. ASSUME NEW k \in 0..(n - 1), k \in T
      PROVE  k + 1 \in T
  <2>1. k + 1 \in 1..n /\ (k + 1) - 1 = k /\ f[k] \in A
    BY DEF IsRun
  <2>2. g[k + 1] = F[<<g[k], k + 1>>]
    BY <2>1, <1>2 DEF RunsWithin
  <2>3. f[k + 1] = F[<<f[k], k + 1>>]
    BY <2>1 DEF IsRun
  <2>4. QED
    BY <2>1, <2>2, <2>3, <1>2
<1>3. \A k \in 0..n : k \in T
  <2> HIDE DEF T
  <2>1. QED
    BY <1>1, <1>2, InductionUpTo
<1>4. n \in 0..n
  OBVIOUS
<1>5. QED
  BY <1>3, <1>4

\* The concatenation of the first k lists, one after the other.
LEMMA FlattenRun ==
  ASSUME NEW X, NEW seqs \in Seq(Seq(X))
  PROVE  \E acc \in [0..Len(seqs) -> Seq(X)] :
           /\ acc[0] = <<>>
           /\ \A k \in 1..Len(seqs) : acc[k] = acc[k - 1] \o seqs[k]
           /\ FlattenSeq(seqs) = acc[Len(seqs)]
<1> DEFINE n == Len(seqs)
           F == [p \in Seq(X) \X (1..n) |-> p[1] \o seqs[p[2]]]
<1>1. n \in Nat /\ <<>> \in Seq(X) /\ IsStep(F, n, Seq(X))
  <2>1. \A p \in Seq(X) \X (1..n) : p[1] \o seqs[p[2]] \in Seq(X)
    BY ConcatProperties
  <2>2. QED
    BY <2>1, EmptySeq DEF IsStep
<1>2. PICK acc \in [0..n -> Seq(X)] : IsRun(acc, n, Seq(X), <<>>, F)
  <2> HIDE DEF F, n
  <2>1. \E acc : IsRun(acc, n, Seq(X), <<>>, F)
    BY <1>1, RunExists
  <2>2. QED
    BY <2>1 DEF IsRun
<1>3. \A k \in 1..n : acc[k] = acc[k - 1] \o seqs[k]
  <2> SUFFICES ASSUME NEW k \in 1..n PROVE acc[k] = acc[k - 1] \o seqs[k]
    OBVIOUS
  <2>1. acc[k - 1] \in Seq(X)
    <3>1. k - 1 \in 0..n
      BY <1>1
    <3>2. QED
      BY <3>1
  <2>2. F[<<acc[k - 1], k>>] = acc[k - 1] \o seqs[k]
    BY <2>1
  <2>3. QED
    BY <2>2, <1>2 DEF IsRun
<1>4. CASE n = 0
  <2>1. FlattenSeq(seqs) = <<>>
    BY <1>4 DEF FlattenSeq
  <2>2. QED
    BY <2>1, <1>2, <1>3, <1>4 DEF IsRun
<1>5. CASE n # 0
  <2> DEFINE E(g) == g = [i \in 1..n |-> IF i = 1 THEN seqs[i] ELSE g[i - 1] \o seqs[i]]
             own == [i \in 1..n |-> acc[i]]
             g == CHOOSE f : E(f)
  <2>1. FlattenSeq(seqs) = g[n]
    BY <1>5, Zenon DEF FlattenSeq
  <2>2. acc[1] = seqs[1]
    <3>1. 1 \in 1..n /\ seqs[1] \in Seq(X) /\ 1 - 1 = 0
      BY <1>1, <1>5
    <3>2. acc[1] = <<>> \o seqs[1]
      <4>1. acc[0] = <<>>
        <5> HIDE DEF F, n
        <5>1. QED
          BY <1>2 DEF IsRun
      <4>2. acc[1] = acc[1 - 1] \o seqs[1]
        BY <3>1, <1>3
      <4>3. QED
        BY <3>1, <4>1, <4>2
    <3>3. PICK s \in Seq(X) : s = seqs[1]
      BY <3>1
    <3>4. <<>> \o s = s
      BY ConcatEmptySeq
    <3>5. QED
      BY <3>2, <3>3, <3>4
  <2>3. E(own)
    <3>1. \A i \in 1..n : i # 1 => i - 1 \in 1..n
      BY <1>1
    <3>2. QED
      BY <3>1, <2>2, <1>3
  <2>4. E(g)
    <3> HIDE DEF E
    <3>1. QED
      BY <2>3, Zenon
  <2> HIDE DEF g
  <2> DEFINE T == {k \in 0..(n - 1) : g[k + 1] = acc[k + 1]}
  <2>5. 0 \in T
    BY <2>2, <2>4, <1>1, <1>5
  <2>6. ASSUME NEW k \in 0..(n - 2), k \in T
        PROVE  k + 1 \in T
    <3>1. k + 2 \in 1..n /\ k + 2 # 1 /\ (k + 2) - 1 = k + 1 /\ k + 1 \in 0..(n - 1)
      BY <1>1
    <3>2. g[k + 2] = g[k + 1] \o seqs[k + 2]
      BY <2>4, <3>1
    <3>3. acc[k + 2] = acc[k + 1] \o seqs[k + 2]
      BY <1>3, <3>1
    <3>4. g[k + 1] = acc[k + 1]
      BY <2>6
    <3>5. (k + 1) + 1 = k + 2
      OBVIOUS
    <3>6. QED
      BY <3>1, <3>2, <3>3, <3>4, <3>5
  <2>7. \A k \in 0..(n - 1) : k \in T
    <3>1. n - 1 \in Nat /\ (n - 1) - 1 = n - 2
      BY <1>1, <1>5
    <3> HIDE DEF T, n
    <3>2. QED
      BY <3>1, <2>5, <2>6, InductionUpTo
  <2>8. g[n] = acc[n]
    <3>1. n - 1 \in 0..(n - 1) /\ (n - 1) + 1 = n
      BY <1>1, <1>5
    <3>2. n - 1 \in T
      BY <3>1, <2>7
    <3>3. g[(n - 1) + 1] = acc[(n - 1) + 1]
      BY <3>2
    <3>4. QED
      BY <3>1, <3>3
  <2>9. QED
    BY <2>1, <2>8, <1>2, <1>3 DEF IsRun
<1>6. QED
  BY <1>4, <1>5

-----------------------------------------------------------------------------
(* The last element of a list *)

\* Replacing the last element.
LEMMA ReplaceLast ==
  ASSUME NEW X, NEW list \in Seq(X), list # <<>>, NEW x \in X
  PROVE  /\ Append(Front(list), x) = [list EXCEPT ![Len(list)] = x]
         /\ Append(Front(list), x) \in Seq(X)
         /\ Last(list) = list[Len(list)] /\ Last(list) \in X
<1>1. PICK n \in Nat : n = Len(list) /\ n # 0
  BY EmptySeq, LenProperties
<1>2. /\ Front(list) \in Seq(X) /\ Len(Front(list)) = n - 1
      /\ \A k \in 1..(n - 1) : Front(list)[k] = list[k]
  <2>1. Front(list) = SubSeq(list, 1, n - 1)
    BY <1>1 DEF Front
  <2>2. CASE n = 1
    <3>1. SubSeq(list, 1, 0) = <<>>
      BY SubSeqEmpty
    <3>2. QED
      BY <2>1, <2>2, <3>1, EmptySeq
  <2>3. CASE n > 1
    <3>1. 1 \in 1..Len(list) /\ n - 1 \in 1..Len(list)
      BY <1>1, <2>3
    <3>2. /\ SubSeq(list, 1, n - 1) \in Seq(X)
          /\ Len(SubSeq(list, 1, n - 1)) = (n - 1) - 1 + 1
          /\ \A k \in 1..((n - 1) - 1 + 1) : SubSeq(list, 1, n - 1)[k] = list[1 + k - 1]
      BY <3>1, SubSeqProperties
    <3>3. (n - 1) - 1 + 1 = n - 1 /\ \A k \in 1..(n - 1) : 1 + k - 1 = k
      BY <1>1
    <3>4. QED
      BY <2>1, <3>2, <3>3
  <2>4. QED
    BY <1>1, <2>2, <2>3
<1> DEFINE a == Append(Front(list), x)
           b == [list EXCEPT ![n] = x]
<1>3. /\ a \in Seq(X) /\ Len(a) = n /\ a[n] = x
      /\ \A k \in 1..(n - 1) : a[k] = list[k]
  <2>1. /\ a \in Seq(X) /\ Len(a) = (n - 1) + 1 /\ a[(n - 1) + 1] = x
        /\ \A k \in 1..(n - 1) : a[k] = Front(list)[k]
    BY <1>2, AppendProperties
  <2>2. (n - 1) + 1 = n
    BY <1>1
  <2>3. QED
    BY <2>1, <2>2, <1>2
<1>4. /\ b \in Seq(X) /\ Len(b) = n
      /\ \A k \in 1..n : b[k] = IF k = n THEN x ELSE list[k]
  BY <1>1, ExceptSeq
<1>5. \A k \in 1..n : a[k] = b[k]
  BY <1>1, <1>3, <1>4
<1> HIDE DEF a, b
<1>6. a = b
  BY <1>3, <1>4, <1>5, SeqEqual
<1>7. Last(list) = list[n] /\ list[n] \in X
  BY <1>1, ElementOfSeq DEF Last
<1>8. QED
  BY <1>1, <1>3, <1>6, <1>7 DEF a, b


-----------------------------------------------------------------------------
(* Iterator::filter *)

\* What is kept of each prefix of the list.
IsKeepRun(acc, X, list, S) ==
  /\ \A k \in 0..Len(list) : acc[k] \in Seq(X)
  /\ acc[0] = <<>>
  /\ \A k \in 1..Len(list) :
       acc[k] = IF list[k] \in S THEN Append(acc[k - 1], list[k]) ELSE acc[k - 1]
  /\ Keep(list, S) = acc[Len(list)]

LEMMA KeepRun ==
  ASSUME NEW X, NEW list \in Seq(X), NEW S
  PROVE  \E acc : IsKeepRun(acc, X, list, S)
<1> DEFINE n == Len(list)
           F == [p \in Seq(X) \X (1..n) |->
                   IF list[p[2]] \in S THEN Append(p[1], list[p[2]]) ELSE p[1]]
           E(g) == g = [k \in 0..n |->
                     IF k = 0 THEN <<>>
                     ELSE IF list[k] \in S THEN Append(g[k - 1], list[k]) ELSE g[k - 1]]
           kept == CHOOSE h : E(h)
<1>1. DOMAIN list = 1..n /\ n \in Nat /\ \A k \in 1..n : list[k] \in X
  BY LenProperties, ElementOfSeq
<1>2. Keep(list, S) = kept[n]
  BY Zenon DEF Keep
<1>3. IsStep(F, n, Seq(X)) /\ <<>> \in Seq(X)
  <2>1. \A p \in Seq(X) \X (1..n) :
          /\ list[p[2]] \in X /\ p[1] \in Seq(X)
          /\ Append(p[1], list[p[2]]) \in Seq(X)
    BY <1>1, AppendProperties
  <2>2. QED
    BY <2>1, EmptySeq DEF IsStep
<1>4. \A k \in 1..n, y \in Seq(X) :
        F[<<y, k>>] = IF list[k] \in S THEN Append(y, list[k]) ELSE y
  OBVIOUS
<1> HIDE DEF kept
<1>5. PICK acc : IsRun(acc, n, Seq(X), <<>>, F)
  <2> HIDE DEF n, F
  <2>1. QED
    BY <1>1, <1>3, RunExists
<1> HIDE DEF F
<1>6. \A k \in 1..n :
        acc[k] = IF list[k] \in S THEN Append(acc[k - 1], list[k]) ELSE acc[k - 1]
  <2> SUFFICES ASSUME NEW k \in 1..n
               PROVE  acc[k] = F[<<acc[k - 1], k>>] /\ acc[k - 1] \in Seq(X)
    BY <1>4
  <2>1. k - 1 \in 0..n
    BY <1>1
  <2>2. QED
    BY <2>1, <1>5 DEF IsRun
<1>7. E(acc)
  <2>1. acc = [k \in 0..n |-> acc[k]]
    BY <1>5 DEF IsRun
  <2>2. \A k \in 0..n :
          acc[k] = IF k = 0 THEN <<>>
                   ELSE IF list[k] \in S THEN Append(acc[k - 1], list[k]) ELSE acc[k - 1]
    <3>1. \A k \in 0..n : k # 0 => k \in 1..n
      BY <1>1
    <3>2. acc[0] = <<>>
      BY <1>5 DEF IsRun
    <3> HIDE DEF n
    <3>3. QED
      BY <3>1, <3>2, <1>6
  <2>3. QED
    BY <2>1, <2>2
<1>8. E(kept)
  <2>1. kept = CHOOSE h : E(h)
    BY DEF kept
  <2> HIDE DEF E
  <2>2. QED
    BY <2>1, <1>7, Zenon
<1> DEFINE T == {k \in 0..n : kept[k] = acc[k]}
<1>9. 0 \in T
  BY <1>1, <1>5, <1>8 DEF IsRun
<1>10. ASSUME NEW k \in 0..(n - 1), k \in T
       PROVE  k + 1 \in T
  <2>1. k + 1 \in 0..n /\ k + 1 \in 1..n /\ k + 1 # 0 /\ (k + 1) - 1 = k
    BY <1>1
  <2>2. kept[k + 1] = IF list[k + 1] \in S THEN Append(kept[k], list[k + 1]) ELSE kept[k]
    BY <1>8, <2>1
  <2>3. QED
    BY <1>6, <1>10, <2>1, <2>2
<1>11. n \in T
  <2> HIDE DEF T, n
  <2>1. \A k \in 0..n : k \in T
    BY <1>1, <1>9, <1>10, InductionUpTo
  <2>2. QED
    BY <2>1, <1>1
<1>12. QED
  BY <1>2, <1>5, <1>6, <1>11 DEF IsRun, IsKeepRun

\* What was kept of the first k elements: f says where each comes from.
KeptBy(f, list, S, k, kept) ==
  /\ f \in [1..Len(kept) -> 1..k]
  /\ \A m, n \in 1..Len(kept) : m < n => f[m] < f[n]
  /\ \A m \in 1..Len(kept) : kept[m] = list[f[m]] /\ list[f[m]] \in S
  /\ \A n \in 1..k : list[n] \in S => \E m \in 1..Len(kept) : f[m] = n

\* The kept list holds the elements in S, each once and in their order.
LEMMA KeepIndex ==
  ASSUME NEW X, NEW list \in Seq(X), NEW S
  PROVE  /\ Keep(list, S) \in Seq(X)
         /\ \E f : KeptBy(f, list, S, Len(list), Keep(list, S))
<1>1. PICK acc : IsKeepRun(acc, X, list, S)
  BY KeepRun
<1> USE DEF IsKeepRun
<1> DEFINE n == Len(list)
           T == {k \in 0..n : \E f : KeptBy(f, list, S, k, acc[k])}
<1>2. n \in Nat /\ \A k \in 1..n : list[k] \in X
  BY LenProperties, ElementOfSeq
<1>3. 0 \in T
  <2>1. Len(acc[0]) = 0
    BY <1>1
  <2> DEFINE f == [m \in 1..Len(acc[0]) |-> 0]
  <2>2. KeptBy(f, list, S, 0, acc[0])
    BY <2>1 DEF KeptBy
  <2>3. \E g : KeptBy(g, list, S, 0, acc[0])
    BY <2>2
  <2>4. QED
    BY <1>2, <2>3
<1>4. ASSUME NEW k \in 0..(n - 1), k \in T
      PROVE  k + 1 \in T
  <2>1. PICK f : KeptBy(f, list, S, k, acc[k])
    BY <1>4
  <2>2. k + 1 \in 1..n /\ (k + 1) - 1 = k /\ k \in Nat /\ k + 1 \in 0..n
    BY <1>2
  <2>3. acc[k] \in Seq(X) /\ Len(acc[k]) \in Nat /\ list[k + 1] \in X
    <3>1. acc[k] \in Seq(X)
      BY <1>1
    <3>2. QED
      BY <3>1, <1>2, <2>2, LenProperties
  <2>4. PICK l \in Nat : l = Len(acc[k])
    BY <2>3
  <2>5. /\ f \in [1..l -> 1..k]
        /\ \A m, o \in 1..l : m < o => f[m] < f[o]
        /\ \A m \in 1..l : acc[k][m] = list[f[m]] /\ list[f[m]] \in S
        /\ \A o \in 1..k : list[o] \in S => \E m \in 1..l : f[m] = o
    BY <2>1, <2>4 DEF KeptBy
  <2>6. CASE list[k + 1] \in S
    <3>1. acc[k + 1] = Append(acc[k], list[k + 1])
      BY <1>1, <2>2, <2>6
    <3>2. /\ Len(acc[k + 1]) = l + 1
          /\ \A m \in 1..l : acc[k + 1][m] = acc[k][m]
          /\ acc[k + 1][l + 1] = list[k + 1]
      BY <2>3, <2>4, <3>1, AppendProperties
    <3> DEFINE g == [m \in 1..(l + 1) |-> IF m = l + 1 THEN k + 1 ELSE f[m]]
    <3>3. \A m \in 1..(l + 1) : m = l + 1 \/ m \in 1..l
      OBVIOUS
    <3>4. g \in [1..(l + 1) -> 1..(k + 1)]
      BY <2>2, <2>5, <3>3
    <3>5. \A m, o \in 1..(l + 1) : m < o => g[m] < g[o]
      BY <2>2, <2>5, <3>3
    <3>6. \A m \in 1..(l + 1) : acc[k + 1][m] = list[g[m]] /\ list[g[m]] \in S
      BY <2>5, <2>6, <3>2, <3>3
    <3>7. \A o \in 1..(k + 1) : list[o] \in S => \E m \in 1..(l + 1) : g[m] = o
      <4> SUFFICES ASSUME NEW o \in 1..(k + 1), list[o] \in S
                   PROVE  \E m \in 1..(l + 1) : g[m] = o
        OBVIOUS
      <4>1. CASE o = k + 1
        BY <4>1
      <4>2. CASE o # k + 1
        <5>1. o \in 1..k
          BY <2>2, <4>2
        <5>2. PICK m \in 1..l : f[m] = o
          BY <2>5, <5>1
        <5>3. m \in 1..(l + 1) /\ g[m] = o
          BY <5>2
        <5>4. QED
          BY <5>3
      <4>3. QED
        BY <4>1, <4>2
    <3> HIDE DEF g
    <3>8. KeptBy(g, list, S, k + 1, acc[k + 1])
      BY <3>2, <3>4, <3>5, <3>6, <3>7 DEF KeptBy
    <3>9. QED
      BY <2>2, <3>8
  <2>7. CASE list[k + 1] \notin S
    <3>1. acc[k + 1] = acc[k]
      BY <1>1, <2>2, <2>7
    <3>2. \A o \in 1..(k + 1) : o = k + 1 \/ o \in 1..k
      BY <2>2
    <3>3. f \in [1..l -> 1..(k + 1)]
      BY <2>2, <2>5
    <3>4. KeptBy(f, list, S, k + 1, acc[k + 1])
      BY <2>4, <2>5, <2>7, <3>1, <3>2, <3>3 DEF KeptBy
    <3>5. QED
      BY <2>2, <3>4
  <2>8. QED
    BY <2>6, <2>7
<1>5. n \in T
  <2> HIDE DEF T, n
  <2>1. \A k \in 0..n : k \in T
    BY <1>2, <1>3, <1>4, InductionUpTo
  <2>2. QED
    BY <2>1, <1>2
<1>6. n \in 0..n
  BY <1>2
<1>7. QED
  BY <1>1, <1>5, <1>6

\* Keeping every element keeps the list.
LEMMA KeepAll ==
  ASSUME NEW X, NEW list \in Seq(X), NEW S, \A k \in 1..Len(list) : list[k] \in S
  PROVE  Keep(list, S) = list
<1>1. PICK acc : IsKeepRun(acc, X, list, S)
  BY KeepRun
<1> USE DEF IsKeepRun
<1> DEFINE n == Len(list)
           T == {k \in 0..n : Len(acc[k]) = k /\ \A m \in 1..k : acc[k][m] = list[m]}
<1>2. n \in Nat /\ \A k \in 1..n : list[k] \in X
  BY LenProperties, ElementOfSeq
<1>3. 0 \in T
  BY <1>1, <1>2
<1>4. ASSUME NEW k \in 0..(n - 1), k \in T
      PROVE  k + 1 \in T
  <2>1. k + 1 \in 1..n /\ (k + 1) - 1 = k /\ k \in 0..n /\ k + 1 \in 0..n
    BY <1>2
  <2>2. acc[k + 1] = Append(acc[k], list[k + 1])
    BY <1>1, <2>1
  <2>3. acc[k] \in Seq(X) /\ list[k + 1] \in X
    BY <1>1, <1>2, <2>1
  <2>4. /\ Len(acc[k + 1]) = k + 1
        /\ \A m \in 1..k : acc[k + 1][m] = list[m]
        /\ acc[k + 1][k + 1] = list[k + 1]
    BY <2>2, <2>3, <1>4, AppendProperties
  <2>5. \A m \in 1..(k + 1) : m \in 1..k \/ m = k + 1
    BY <2>1
  <2>6. QED
    BY <2>1, <2>4, <2>5
<1>5. n \in T
  <2> HIDE DEF T, n
  <2>1. \A k \in 0..n : k \in T
    BY <1>2, <1>3, <1>4, InductionUpTo
  <2>2. QED
    BY <2>1, <1>2
<1>6. acc[n] \in Seq(X) /\ Len(acc[n]) = n /\ \A m \in 1..n : acc[n][m] = list[m]
  <2>1. n \in 0..n
    BY <1>2
  <2>2. QED
    BY <1>1, <1>5, <2>1
<1>7. acc[n] = list
  BY <1>6, SeqEqual
<1>8. QED
  BY <1>1, <1>7

-----------------------------------------------------------------------------
(* sort_by_key(|x| x.start) *)

IsIn(list, y) == \E n \in 1..Len(list) : list[n] = y

SortedStarts(list) ==
  \A m, n \in 1..Len(list) : m < n => list[m].start <= list[n].start

\* Filtering keeps the elements in the set and the order of the starts.
LEMMA KeepElements ==
  ASSUME NEW X, NEW list \in Seq(X), NEW S
  PROVE  /\ Keep(list, S) \in Seq(X)
         /\ \A y : IsIn(Keep(list, S), y) <=> IsIn(list, y) /\ y \in S
         /\ SortedStarts(list) => SortedStarts(Keep(list, S))
<1>1. PICK kept \in Seq(X) : kept = Keep(list, S)
  BY KeepIndex
<1>2. PICK f : KeptBy(f, list, S, Len(list), kept)
  BY <1>1, KeepIndex
<1>3. Len(kept) \in Nat /\ Len(list) \in Nat
  BY LenProperties
<1>4. /\ \A m \in 1..Len(kept) : /\ f[m] \in 1..Len(list)
                                 /\ kept[m] = list[f[m]] /\ list[f[m]] \in S
      /\ \A m, n \in 1..Len(kept) : m < n => f[m] < f[n]
      /\ \A n \in 1..Len(list) : list[n] \in S => \E m \in 1..Len(kept) : f[m] = n
  BY <1>2 DEF KeptBy
<1>5. ASSUME NEW y
      PROVE  IsIn(kept, y) <=> IsIn(list, y) /\ y \in S
  <2>1. ASSUME NEW m \in 1..Len(kept), kept[m] = y
        PROVE  IsIn(list, y) /\ y \in S
    BY <2>1, <1>4 DEF IsIn
  <2>2. ASSUME NEW n \in 1..Len(list), list[n] = y, y \in S
        PROVE  IsIn(kept, y)
    <3>1. PICK m \in 1..Len(kept) : f[m] = n
      BY <2>2, <1>4
    <3>2. kept[m] = y
      BY <2>2, <3>1, <1>4
    <3>3. QED
      BY <3>2 DEF IsIn
  <2>3. QED
    BY <2>1, <2>2 DEF IsIn
<1>6. SortedStarts(list) => SortedStarts(kept)
  <2> SUFFICES ASSUME SortedStarts(list), NEW m \in 1..Len(kept), NEW n \in 1..Len(kept), m < n
               PROVE  kept[m].start <= kept[n].start
    BY DEF SortedStarts
  <2>1. f[m] \in 1..Len(list) /\ f[n] \in 1..Len(list) /\ f[m] < f[n]
    BY <1>4
  <2>2. list[f[m]].start <= list[f[n]].start
    BY <2>1 DEF SortedStarts
  <2>3. QED
    BY <1>4, <2>2
<1>7. QED
  BY <1>1, <1>5, <1>6

\* The sorted list with one more element, put behind those that start with it.
LEMMA InsertSorted ==
  ASSUME NEW X, \A x \in X : x.start \in Int,
         NEW sorted \in Seq(X), SortedStarts(sorted), NEW x \in X
  PROVE  /\ InsertByStart(sorted, x) \in Seq(X)
         /\ \A y : IsIn(InsertByStart(sorted, x), y) <=> IsIn(sorted, y) \/ y = x
         /\ SortedStarts(InsertByStart(sorted, x))
<1> DEFINE low == {y \in ToSet(sorted) : y.start <= x.start}
           high == {y \in ToSet(sorted) : y.start > x.start}
<1>1. \A y : y \in ToSet(sorted) <=> IsIn(sorted, y)
  <2>1. DOMAIN sorted = 1..Len(sorted)
    BY LenProperties
  <2>2. QED
    BY <2>1 DEF ToSet, IsIn
<1>2. \A y : IsIn(sorted, y) => y \in X
  BY ElementOfSeq DEF IsIn
<1>3. PICK before \in Seq(X) : before = Keep(sorted, low)
  BY KeepElements
<1>4. PICK behind \in Seq(X) : behind = Keep(sorted, high)
  BY KeepElements
<1>5. /\ \A y : IsIn(before, y) <=> IsIn(sorted, y) /\ y.start <= x.start
      /\ SortedStarts(before)
  <2>1. /\ \A y : IsIn(before, y) <=> IsIn(sorted, y) /\ y \in low
        /\ SortedStarts(before)
    <3> HIDE DEF low
    <3>1. QED
      BY <1>3, KeepElements
  <2>2. QED
    BY <2>1, <1>1
<1>6. /\ \A y : IsIn(behind, y) <=> IsIn(sorted, y) /\ y.start > x.start
      /\ SortedStarts(behind)
  <2>1. /\ \A y : IsIn(behind, y) <=> IsIn(sorted, y) /\ y \in high
        /\ SortedStarts(behind)
    <3> HIDE DEF high
    <3>1. QED
      BY <1>4, KeepElements
  <2>2. QED
    BY <2>1, <1>1
<1>7. PICK l, h \in Nat : l = Len(before) /\ h = Len(behind)
  BY LenProperties
<1> DEFINE front == before \o <<x>>
           all == front \o behind
<1>8. /\ front \in Seq(X) /\ Len(front) = l + 1
      /\ \A n \in 1..l : front[n] = before[n]
      /\ front[l + 1] = x
  <2>1. front = Append(before, x)
    BY AppendIsConcat
  <2>2. QED
    BY <2>1, <1>7, AppendProperties
<1> HIDE DEF front
<1>9. /\ all \in Seq(X) /\ Len(all) = l + 1 + h
      /\ \A n \in 1..(l + 1 + h) :
           all[n] = IF n <= l + 1 THEN front[n] ELSE behind[n - (l + 1)]
  <2>1. /\ all \in Seq(X) /\ Len(all) = Len(front) + Len(behind)
        /\ \A n \in 1..(Len(front) + Len(behind)) :
             all[n] = IF n <= Len(front) THEN front[n] ELSE behind[n - Len(front)]
    BY <1>8, ConcatProperties
  <2>2. QED
    BY <2>1, <1>7, <1>8
<1> HIDE DEF all
<1>10. ASSUME NEW n \in 1..(l + 1 + h)
       PROVE  \/ n \in 1..l /\ all[n] = before[n] /\ all[n].start <= x.start
              \/ n = l + 1 /\ all[n] = x
              \/ /\ n > l + 1 /\ n - (l + 1) \in 1..h /\ all[n] = behind[n - (l + 1)]
                 /\ x.start < all[n].start
  <2>1. CASE n \in 1..l
    <3>1. all[n] = before[n]
      BY <2>1, <1>8, <1>9
    <3>2. IsIn(before, all[n])
      BY <2>1, <3>1, <1>7 DEF IsIn
    <3>3. QED
      BY <2>1, <3>1, <3>2, <1>5
  <2>2. CASE n = l + 1
    BY <2>2, <1>8, <1>9
  <2>3. CASE n > l + 1
    <3>1. n - (l + 1) \in 1..h /\ all[n] = behind[n - (l + 1)]
      BY <2>3, <1>9
    <3>2. IsIn(behind, all[n])
      BY <3>1, <1>7 DEF IsIn
    <3>3. all[n] \in X
      BY <3>2, <1>2, <1>6
    <3>4. all[n].start > x.start /\ all[n].start \in Int /\ x.start \in Int
      BY <3>2, <3>3, <1>6
    <3>5. QED
      BY <2>3, <3>1, <3>4
  <2>4. QED
    BY <2>1, <2>2, <2>3
<1>11. ASSUME NEW y
       PROVE  IsIn(all, y) <=> IsIn(sorted, y) \/ y = x
  <2>1. ASSUME NEW n \in 1..(l + 1 + h), all[n] = y
        PROVE  IsIn(sorted, y) \/ y = x
    <3>1. \/ IsIn(before, y) \/ y = x \/ IsIn(behind, y)
      BY <2>1, <1>7, <1>10 DEF IsIn
    <3>2. QED
      BY <3>1, <1>5, <1>6
  <2>2. ASSUME NEW m \in 1..l
        PROVE  IsIn(all, before[m])
    <3>1. m \in 1..(l + 1 + h) /\ m <= l + 1
      OBVIOUS
    <3>2. all[m] = before[m]
      BY <3>1, <1>8, <1>9
    <3>3. QED
      BY <3>1, <3>2, <1>9 DEF IsIn
  <2>3. ASSUME NEW m \in 1..h
        PROVE  IsIn(all, behind[m])
    <3>1. /\ m + (l + 1) \in 1..(l + 1 + h) /\ ~(m + (l + 1) <= l + 1)
          /\ (m + (l + 1)) - (l + 1) = m
      OBVIOUS
    <3>2. all[m + (l + 1)] = behind[m]
      BY <3>1, <1>9
    <3>3. QED
      BY <3>1, <3>2, <1>9 DEF IsIn
  <2>4. IsIn(all, x)
    <3>1. l + 1 \in 1..(l + 1 + h) /\ l + 1 <= l + 1
      OBVIOUS
    <3>2. all[l + 1] = x
      BY <3>1, <1>8, <1>9
    <3>3. QED
      BY <3>1, <3>2, <1>9 DEF IsIn
  <2>5. ASSUME IsIn(sorted, y)
        PROVE  IsIn(all, y)
    <3>1. y.start \in Int /\ x.start \in Int
      BY <2>5, <1>2
    <3>2. IsIn(before, y) \/ IsIn(behind, y)
      BY <2>5, <3>1, <1>5, <1>6
    <3>3. QED
      BY <3>2, <2>2, <2>3, <1>7 DEF IsIn
  <2>6. QED
    BY <2>1, <2>4, <2>5, <1>9 DEF IsIn
<1>12. SortedStarts(all)
  <2> SUFFICES ASSUME NEW m \in 1..(l + 1 + h), NEW n \in 1..(l + 1 + h), m < n
               PROVE  all[m].start <= all[n].start
    BY <1>9 DEF SortedStarts
  <2>1. all[m].start \in Int /\ all[n].start \in Int /\ x.start \in Int
    BY <1>9, ElementOfSeq
  <2>2. CASE n \in 1..l
    <3>1. m \in 1..l
      BY <2>2
    <3>2. all[m] = before[m] /\ all[n] = before[n]
      BY <2>2, <3>1, <1>10
    <3>3. QED
      BY <2>2, <3>1, <3>2, <1>5, <1>7 DEF SortedStarts
  <2>3. CASE n = l + 1
    BY <2>1, <2>3, <1>10
  <2>4. CASE n > l + 1 /\ m <= l + 1
    BY <2>1, <2>4, <1>10
  <2>5. CASE n > l + 1 /\ m > l + 1
    <3>1. /\ m - (l + 1) \in 1..h /\ all[m] = behind[m - (l + 1)]
          /\ n - (l + 1) \in 1..h /\ all[n] = behind[n - (l + 1)]
      BY <2>5, <1>10
    <3>2. PICK a \in 1..h, b \in 1..h : a = m - (l + 1) /\ b = n - (l + 1)
      BY <3>1
    <3>3. a < b
      BY <3>2
    <3>4. behind[a].start <= behind[b].start
      BY <3>3, <1>6, <1>7 DEF SortedStarts
    <3>5. QED
      BY <3>1, <3>2, <3>4
  <2>6. QED
    BY <2>2, <2>3, <2>4, <2>5
<1>13. InsertByStart(sorted, x) = all
  BY <1>3, <1>4 DEF InsertByStart, front, all
<1>14. QED
  BY <1>9, <1>11, <1>12, <1>13

\* The sorted list of each prefix.
IsInsertRun(acc, X, list) ==
  /\ \A k \in 0..Len(list) : acc[k] \in Seq(X) /\ SortedStarts(acc[k])
  /\ acc[0] = <<>>
  /\ \A k \in 1..Len(list) : acc[k] = InsertByStart(acc[k - 1], list[k])
  /\ ByStart(list) = acc[Len(list)]

LEMMA InsertRun ==
  ASSUME NEW X, \A x \in X : x.start \in Int, NEW list \in Seq(X)
  PROVE  \E acc : IsInsertRun(acc, X, list)
<1> DEFINE n == Len(list)
           A == {l \in Seq(X) : SortedStarts(l)}
           F == [p \in A \X (1..n) |-> InsertByStart(p[1], list[p[2]])]
           E(g) == g = [s \in SUBSET (1..n) |->
                     IF s = {} THEN <<>>
                     ELSE LET x == Max(s) IN InsertByStart(g[s \ {x}], list[x])]
           g == CHOOSE h : E(h)
<1>1. DOMAIN list = 1..n /\ n \in Nat /\ \A k \in 1..n : list[k] \in X
  BY LenProperties, ElementOfSeq
<1>2. ByStart(list) = g[1..n]
  BY <1>1, Zenon DEF ByStart, FoldLeft, MapThenFoldSet
<1>3. IsStep(F, n, A) /\ <<>> \in A
  <2>1. \A l \in A, k \in 1..n : InsertByStart(l, list[k]) \in A
    BY <1>1, InsertSorted
  <2>2. <<>> \in A
    BY EmptySeq DEF SortedStarts
  <2> HIDE DEF A
  <2>3. QED
    BY <2>1, <2>2 DEF IsStep
<1>4. \A s \in SUBSET (1..n) : s # {} => Max(s) \in 1..n /\ s \ {Max(s)} \in SUBSET (1..n)
  BY <1>1, MaxUpTo
<1>5. \A k \in 1..n, y \in A : F[<<y, k>>] = InsertByStart(y, list[k])
  OBVIOUS
<1> HIDE DEF n, A, F
<1>6. \E h : E(h)
  <2>1. PICK h \in [SUBSET (1..n) -> A] : Folds(h, n, <<>>, F)
    BY <1>1, <1>3, FoldExists
  <2>2. \A s \in SUBSET (1..n) : s # {} =>
          h[s] = InsertByStart(h[s \ {Max(s)}], list[Max(s)])
    BY <2>1, <1>4, <1>5 DEF Folds
  <2>3. E(h)
    BY <2>1, <2>2 DEF Folds
  <2>4. QED
    BY <2>3, Zenon
<1>7. E(g)
  <2> HIDE DEF E
  <2>1. QED
    BY <1>6, Zenon
<1> HIDE DEF g
<1>8. FoldsWithin(g, n, A, <<>>, F)
  BY <1>4, <1>5, <1>7 DEF FoldsWithin
<1> HIDE DEF E
<1>9. PICK acc : IsRun(acc, n, A, <<>>, F) /\ g[1..n] = acc[n]
  BY <1>1, <1>3, <1>8, FoldRun
<1>10. \A k \in 1..n : acc[k] = InsertByStart(acc[k - 1], list[k])
  <2> SUFFICES ASSUME NEW k \in 1..n
               PROVE  acc[k] = F[<<acc[k - 1], k>>] /\ acc[k - 1] \in A
    BY <1>5
  <2>1. k - 1 \in 0..n
    BY <1>1
  <2>2. QED
    BY <2>1, <1>9 DEF IsRun
<1>11. QED
  BY <1>2, <1>9, <1>10 DEF IsRun, IsInsertRun, n, A

\* Sorting keeps the elements and puts them in the order of their starts.
LEMMA SortByStart ==
  ASSUME NEW X, \A x \in X : x.start \in Int, NEW list \in Seq(X)
  PROVE  /\ ByStart(list) \in Seq(X)
         /\ SortedStarts(ByStart(list))
         /\ \A y : IsIn(ByStart(list), y) <=> IsIn(list, y)
<1>1. PICK acc : IsInsertRun(acc, X, list)
  BY InsertRun
<1> DEFINE n == Len(list)
           T == {k \in 0..n : \A y : IsIn(acc[k], y) <=> \E m \in 1..k : list[m] = y}
<1>2. n \in Nat /\ \A k \in 1..n : list[k] \in X
  BY LenProperties, ElementOfSeq
<1>3. 0 \in T
  BY <1>1, <1>2 DEF IsInsertRun, IsIn
<1>4. ASSUME NEW k \in 0..(n - 1), k \in T
      PROVE  k + 1 \in T
  <2>1. k + 1 \in 1..n /\ (k + 1) - 1 = k /\ k \in 0..n /\ k + 1 \in 0..n
    BY <1>2
  <2>2. /\ acc[k] \in Seq(X) /\ SortedStarts(acc[k]) /\ list[k + 1] \in X
        /\ acc[k + 1] = InsertByStart(acc[k], list[k + 1])
    BY <1>1, <1>2, <2>1 DEF IsInsertRun
  <2>3. \A y : IsIn(acc[k + 1], y) <=> IsIn(acc[k], y) \/ y = list[k + 1]
    <3>1. PICK sorted \in Seq(X), x \in X : sorted = acc[k] /\ x = list[k + 1]
      BY <2>2
    <3>2. SortedStarts(sorted)
      BY <2>2, <3>1
    <3>3. \A y : IsIn(InsertByStart(sorted, x), y) <=> IsIn(sorted, y) \/ y = x
      BY <3>2, InsertSorted
    <3>4. QED
      BY <2>2, <3>1, <3>3
  <2>4. \A m : m \in 1..(k + 1) <=> m \in 1..k \/ m = k + 1
    BY <2>1
  <2>5. QED
    BY <2>1, <2>3, <2>4, <1>4
<1>5. n \in T /\ n \in 0..n
  <2> HIDE DEF T, n
  <2>1. \A k \in 0..n : k \in T
    BY <1>2, <1>3, <1>4, InductionUpTo
  <2>2. QED
    BY <2>1, <1>2
<1>6. QED
  BY <1>1, <1>5 DEF IsInsertRun, IsIn

\* Keeping nothing leaves the empty list.
LEMMA KeepNone ==
  ASSUME NEW X, NEW list \in Seq(X), NEW S, \A k \in 1..Len(list) : list[k] \notin S
  PROVE  Keep(list, S) = <<>>
<1>1. Keep(list, S) \in Seq(X) /\ \A y : ~IsIn(Keep(list, S), y)
  <2>1. \A y : ~(IsIn(list, y) /\ y \in S)
    BY DEF IsIn
  <2>2. QED
    BY <2>1, KeepElements
<1>2. PICK kept \in Seq(X) : kept = Keep(list, S)
  BY <1>1
<1>3. Len(kept) \in Nat /\ \A k \in 1..Len(kept) : FALSE
  BY <1>1, <1>2, LenProperties DEF IsIn
<1>4. Len(kept) = 0
  BY <1>3
<1>5. QED
  BY <1>2, <1>4, EmptySeq

\* An element that starts behind all of them goes to the end.
LEMMA InsertLast ==
  ASSUME NEW X, \A x \in X : x.start \in Int, NEW list \in Seq(X), NEW x \in X,
         \A k \in 1..Len(list) : list[k].start <= x.start
  PROVE  InsertByStart(list, x) = Append(list, x)
<1> DEFINE low == {y \in ToSet(list) : y.start <= x.start}
           high == {y \in ToSet(list) : y.start > x.start}
<1>1. Len(list) \in Nat /\ DOMAIN list = 1..Len(list) /\ \A k \in 1..Len(list) : list[k] \in X
  BY LenProperties, ElementOfSeq
<1>2. \A k \in 1..Len(list) : list[k] \in low /\ list[k] \notin high
  BY <1>1 DEF ToSet
<1>3. InsertByStart(list, x) = Keep(list, low) \o <<x>> \o Keep(list, high)
  BY DEF InsertByStart
<1> HIDE DEF low, high
<1>4. Keep(list, low) = list /\ Keep(list, high) = <<>>
  BY <1>2, KeepAll, KeepNone
<1>5. <<x>> \in Seq(X) /\ list \o <<x>> \in Seq(X) /\ list \o <<x>> = Append(list, x)
  OBVIOUS
<1>6. (list \o <<x>>) \o <<>> = list \o <<x>>
  BY <1>5, ConcatEmptySeq
<1>7. QED
  BY <1>3, <1>4, <1>5, <1>6

\* Sorting a sorted list changes nothing.
LEMMA SortSorted ==
  ASSUME NEW X, \A x \in X : x.start \in Int, NEW list \in Seq(X), SortedStarts(list)
  PROVE  ByStart(list) = list
<1>1. PICK acc : IsInsertRun(acc, X, list)
  BY InsertRun
<1> DEFINE n == Len(list)
           T == {k \in 0..n : Len(acc[k]) = k /\ \A m \in 1..k : acc[k][m] = list[m]}
<1>2. n \in Nat /\ \A k \in 1..n : list[k] \in X
  BY LenProperties, ElementOfSeq
<1>3. 0 \in T
  BY <1>1, <1>2 DEF IsInsertRun
<1>4. ASSUME NEW k \in 0..(n - 1), k \in T
      PROVE  k + 1 \in T
  <2>1. k + 1 \in 1..n /\ (k + 1) - 1 = k /\ k \in 0..n /\ k + 1 \in 0..n
    BY <1>2
  <2>2. /\ acc[k] \in Seq(X) /\ list[k + 1] \in X
        /\ acc[k + 1] = InsertByStart(acc[k], list[k + 1])
    BY <1>1, <1>2, <2>1 DEF IsInsertRun
  <2>3. \A m \in 1..k : acc[k][m].start <= list[k + 1].start
    <3>1. \A m \in 1..k : m \in 1..n /\ m < k + 1
      BY <1>2, <2>1
    <3>2. \A m \in 1..k : list[m].start <= list[k + 1].start
      BY <2>1, <3>1 DEF SortedStarts
    <3>3. \A m \in 1..k : acc[k][m] = list[m]
      BY <1>4
    <3>4. QED
      BY <3>2, <3>3
  <2>4. acc[k + 1] = Append(acc[k], list[k + 1])
    <3>1. PICK done \in Seq(X), x \in X : done = acc[k] /\ x = list[k + 1]
      BY <2>2
    <3>2. \A m \in 1..Len(done) : done[m].start <= x.start
      BY <1>4, <2>3, <3>1
    <3>3. InsertByStart(done, x) = Append(done, x)
      BY <3>2, InsertLast
    <3>4. QED
      BY <2>2, <3>1, <3>3
  <2>5. /\ Len(acc[k + 1]) = k + 1
        /\ \A m \in 1..k : acc[k + 1][m] = list[m]
        /\ acc[k + 1][k + 1] = list[k + 1]
    BY <2>2, <2>4, <1>4, AppendProperties
  <2>6. \A m \in 1..(k + 1) : m \in 1..k \/ m = k + 1
    BY <2>1
  <2>7. QED
    BY <2>1, <2>5, <2>6
<1>5. n \in T /\ n \in 0..n
  <2> HIDE DEF T, n
  <2>1. \A k \in 0..n : k \in T
    BY <1>2, <1>3, <1>4, InductionUpTo
  <2>2. QED
    BY <2>1, <1>2
<1>6. acc[n] \in Seq(X) /\ Len(acc[n]) = n /\ \A m \in 1..n : acc[n][m] = list[m]
  BY <1>1, <1>5 DEF IsInsertRun
<1>7. acc[n] = list
  BY <1>6, SeqEqual
<1>8. QED
  BY <1>1, <1>7 DEF IsInsertRun

\* A list is determined by its elements when their keys strictly increase.
Increasing(list, key) ==
  \A m, n \in 1..Len(list) : m < n => key[list[m]] < key[list[n]]

LEMMA SameElementsPrefix ==
  ASSUME NEW X, NEW key, \A x \in X : key[x] \in Int, NEW l \in Seq(X), NEW r \in Seq(X),
         Increasing(l, key), Increasing(r, key), \A y : IsIn(l, y) <=> IsIn(r, y)
  PROVE  Len(l) <= Len(r) /\ \A k \in 1..Len(l) : l[k] = r[k]
<1> DEFINE n == Len(l)
           T == {k \in 0..n : \A m \in 1..k : m <= Len(r) /\ l[m] = r[m]}
<1>1. /\ n \in Nat /\ Len(r) \in Nat
      /\ \A k \in 1..n : l[k] \in X /\ key[l[k]] \in Int
      /\ \A k \in 1..Len(r) : r[k] \in X /\ key[r[k]] \in Int
  BY LenProperties, ElementOfSeq
<1>2. 0 \in T
  BY <1>1
<1>3. ASSUME NEW k \in 0..(n - 1), k \in T
      PROVE  k + 1 \in T
  <2>1. k + 1 \in 1..n /\ k + 1 \in 0..n /\ \A m \in 1..(k + 1) : m \in 1..k \/ m = k + 1
    BY <1>1
  <2>2. PICK j \in 1..Len(r) : r[j] = l[k + 1]
    BY <2>1 DEF IsIn
  <2>3. j >= k + 1
    <3>1. ASSUME j <= k PROVE FALSE
      <4>1. j \in 1..k /\ j \in 1..n /\ j < k + 1
        BY <1>1, <3>1
      <4>2. l[j] = r[j] /\ key[l[j]] < key[l[k + 1]]
        BY <4>1, <1>3, <2>1 DEF Increasing
      <4>3. QED
        BY <4>1, <4>2, <1>1, <2>2
    <3>2. QED
      BY <3>1
  <2>4. k + 1 \in 1..Len(r)
    BY <1>1, <2>1, <2>3
  <2>5. PICK i \in 1..n : l[i] = r[k + 1]
    BY <2>4 DEF IsIn
  <2>6. i >= k + 1
    <3>1. ASSUME i <= k PROVE FALSE
      <4>1. i \in 1..k /\ i < k + 1
        BY <1>1, <3>1
      <4>2. i \in 1..Len(r) /\ l[i] = r[i]
        BY <4>1, <1>1, <1>3
      <4>3. key[r[i]] < key[r[k + 1]]
        BY <4>1, <4>2, <2>4 DEF Increasing
      <4>4. QED
        BY <4>2, <4>3, <1>1, <2>5
    <3>2. QED
      BY <3>1
  <2>7. key[r[k + 1]] <= key[r[j]] /\ key[l[k + 1]] <= key[l[i]]
    BY <1>1, <2>1, <2>3, <2>4, <2>6 DEF Increasing
  <2>8. i = k + 1
    <3>1. ASSUME i > k + 1 PROVE FALSE
      <4>1. key[l[k + 1]] < key[l[i]]
        BY <2>1, <3>1 DEF Increasing
      <4>2. QED
        BY <1>1, <2>1, <2>2, <2>4, <2>5, <2>7, <4>1
    <3>2. QED
      BY <2>6, <3>1
  <2>9. QED
    BY <1>1, <1>3, <2>1, <2>4, <2>5, <2>8
<1>4. n \in T
  <2> HIDE DEF T, n
  <2>1. \A k \in 0..n : k \in T
    BY <1>1, <1>2, <1>3, InductionUpTo
  <2>2. QED
    BY <2>1, <1>1
<1>5. QED
  BY <1>1, <1>4

LEMMA SameElements ==
  ASSUME NEW X, NEW key, \A x \in X : key[x] \in Int, NEW l \in Seq(X), NEW r \in Seq(X),
         Increasing(l, key), Increasing(r, key), \A y : IsIn(l, y) <=> IsIn(r, y)
  PROVE  l = r
<1>1. Len(l) <= Len(r) /\ \A k \in 1..Len(l) : l[k] = r[k]
  BY SameElementsPrefix
<1>2. Len(r) <= Len(l)
  BY SameElementsPrefix
<1>3. Len(l) = Len(r)
  BY <1>1, <1>2, LenProperties
<1>4. QED
  BY <1>1, <1>3, SeqEqual

-----------------------------------------------------------------------------
(* Ranges *)

LEMMA RangeFacts ==
  ASSUME NEW r \in RangeType
  PROVE  /\ r.start \in Int /\ r.end \in Int /\ r.requested \in Nat
         /\ 0 <= r.start /\ r.start <= r.end /\ r.end <= MaxAddr
         /\ r.requested <= MaxAddr => r.requested = r.end
         /\ r.requested > MaxAddr => r.end = MaxAddr
  BY MaxAddrAssumption DEF RangeType, Addr

LEMMA RangeMade ==
  ASSUME NEW x \in Int, NEW y \in Int, 0 <= x, x <= y, y <= MaxAddr
  PROVE  /\ FromStartEnd(x, y) \in RangeType
         /\ FromStartEnd(x, y).start = x /\ FromStartEnd(x, y).end = y
         /\ \A a : In(a, FromStartEnd(x, y)) <=> x <= a /\ a <= y
  BY MaxAddrAssumption DEF FromStartEnd, RangeType, Addr, In

\* What merge_ranges makes of two ranges that overlap or touch.
Widen(s, t) ==
  [start |-> s.start, end |-> Max({s.end, t.end}),
   requested |-> Max({s.requested, t.requested})]

LEMMA WidenRange ==
  ASSUME NEW s \in RangeType, NEW t \in RangeType
  PROVE  /\ Widen(s, t) \in RangeType
         /\ Widen(s, t).start = s.start
         /\ s.start <= t.start /\ t.start <= s.end + 1
              => \A a \in Int : In(a, Widen(s, t)) <=> In(a, s) \/ In(a, t)
<1> DEFINE u == Widen(s, t)
<1>1. /\ s.start \in Int /\ s.end \in Int /\ s.requested \in Nat
      /\ 0 <= s.start /\ s.start <= s.end /\ s.end <= MaxAddr
      /\ t.start \in Int /\ t.end \in Int /\ t.requested \in Nat
      /\ 0 <= t.start /\ t.start <= t.end /\ t.end <= MaxAddr
      /\ s.end = IF s.requested > MaxAddr THEN MaxAddr ELSE s.requested
      /\ t.end = IF t.requested > MaxAddr THEN MaxAddr ELSE t.requested
  BY MaxAddrAssumption DEF RangeType, Addr
<1>2. /\ Max({s.end, t.end}) = IF s.end >= t.end THEN s.end ELSE t.end
      /\ Max({s.requested, t.requested})
           = IF s.requested >= t.requested THEN s.requested ELSE t.requested
  <2>1. s.requested \in Int /\ t.requested \in Int
    BY <1>1
  <2>2. QED
    BY <1>1, <2>1, MaxOfTwo
<1>3. /\ u.start = s.start
      /\ u.end = IF s.end >= t.end THEN s.end ELSE t.end
      /\ u.requested = IF s.requested >= t.requested THEN s.requested ELSE t.requested
      /\ u = [start |-> u.start, end |-> u.end, requested |-> u.requested]
  BY <1>2 DEF Widen
<1> HIDE DEF u
<1>4. u \in RangeType
  <2>1. /\ u.start \in Addr /\ u.end \in Addr /\ u.requested \in Nat /\ u.start <= u.end
        /\ u.end = IF u.requested > MaxAddr THEN MaxAddr ELSE u.requested
    BY <1>1, <1>3, MaxAddrAssumption DEF Addr
  <2>2. u \in [start : Addr, end : Addr, requested : Nat]
    BY <1>3, <2>1
  <2>3. QED
    BY <2>1, <2>2 DEF RangeType
<1>5. ASSUME s.start <= t.start, t.start <= s.end + 1, NEW a \in Int
      PROVE  In(a, u) <=> In(a, s) \/ In(a, t)
  BY <1>1, <1>3, <1>5 DEF In
<1>6. QED
  BY <1>3, <1>4, <1>5 DEF u

LEMMA AbsorbRangeStep ==
  ASSUME NEW done \in Seq(RangeType), NEW r \in RangeType
  PROVE  /\ AbsorbRange(done, r) \in Seq(RangeType)
         /\ AbsorbRange(done, r) =
              IF done # <<>> /\ r.start <= done[Len(done)].end + 1
                THEN [done EXCEPT ![Len(done)] = Widen(done[Len(done)], r)]
                ELSE Append(done, r)
<1>1. Append(done, r) \in Seq(RangeType)
  BY AppendProperties
<1>2. ASSUME done # <<>>
      PROVE  /\ Append(Front(done), Widen(Last(done), r)) \in Seq(RangeType)
             /\ Append(Front(done), Widen(Last(done), r))
                  = [done EXCEPT ![Len(done)] = Widen(done[Len(done)], r)]
             /\ Last(done) = done[Len(done)]
  <2>1. Last(done) = done[Len(done)] /\ Last(done) \in RangeType
    BY <1>2, ReplaceLast
  <2>2. Widen(Last(done), r) \in RangeType
    BY <2>1, WidenRange
  <2>3. QED
    BY <1>2, <2>1, <2>2, ReplaceLast
<1>3. AbsorbRange(done, r) =
        IF done # <<>> /\ r.start <= Last(done).end + 1
          THEN Append(Front(done), Widen(Last(done), r)) ELSE Append(done, r)
  BY DEF AbsorbRange, Widen
<1>4. QED
  BY <1>1, <1>2, <1>3

-----------------------------------------------------------------------------
(* merge_ranges *)

\* What the first k ranges of a sorted list are merged to.
MergedTo(list, k, done) ==
  /\ done \in Seq(RangeType) /\ Apart(done)
  /\ k < Len(list) => \A m \in 1..Len(done) : done[m].start <= list[k + 1].start
  /\ \A a \in Int : InAny(a, done) <=> \E m \in 1..k : In(a, list[m])

\* The next range is merged with the last one it overlaps or touches, or pushed.
LEMMA MergeStep ==
  ASSUME NEW list \in Seq(RangeType), SortedStarts(list),
         NEW k \in 1..Len(list), NEW done, MergedTo(list, k - 1, done)
  PROVE  MergedTo(list, k, AbsorbRange(done, list[k]))
<1>1. PICK x : x = list[k]
  OBVIOUS
<1> DEFINE L == Len(done)
           joins == done # <<>> /\ x.start <= done[L].end + 1
           more == AbsorbRange(done, x)
<1>2. /\ Len(list) \in Nat /\ k \in Nat /\ k - 1 \in Nat /\ (k - 1) + 1 = k
      /\ k - 1 < Len(list)
  BY LenProperties
<1>3. /\ x \in RangeType
      /\ done \in Seq(RangeType) /\ Apart(done) /\ L \in Nat
      /\ \A m \in 1..L : done[m].start <= x.start
      /\ \A a \in Int : InAny(a, done) <=> \E m \in 1..(k - 1) : In(a, list[m])
  BY <1>1, <1>2, ElementOfSeq, LenProperties DEF MergedTo
<1>4. /\ \A m \in 1..L : /\ done[m] \in RangeType
                         /\ done[m].start \in Int /\ done[m].end \in Int
                         /\ done[m].start <= done[m].end
      /\ x.start \in Int /\ x.end \in Int
  BY <1>3, ElementOfSeq, RangeFacts
<1>5. /\ more \in Seq(RangeType)
      /\ more = IF joins THEN [done EXCEPT ![L] = Widen(done[L], x)] ELSE Append(done, x)
  BY <1>3, AbsorbRangeStep
<1> HIDE DEF more
<1>6. /\ Apart(more)
      /\ \A m \in 1..Len(more) : more[m].start <= x.start
      /\ \A a \in Int : InAny(a, more) <=> InAny(a, done) \/ In(a, x)
  <2>1. CASE joins
    <3>1. L \in 1..L
      BY <2>1, <1>3, EmptySeq
    <3>2. PICK last \in RangeType, w \in RangeType :
            /\ last = done[L] /\ w = Widen(last, x)
            /\ w.start = last.start
            /\ \A a \in Int : In(a, w) <=> In(a, last) \/ In(a, x)
      <4>1. PICK last \in RangeType : last = done[L]
        BY <3>1, <1>4
      <4>2. last.start <= x.start /\ x.start <= last.end + 1
        BY <4>1, <3>1, <2>1, <1>3
      <4>3. QED
        BY <4>1, <4>2, <1>3, WidenRange
    <3>3. /\ Len(more) = L
          /\ \A m \in 1..L : more[m] = IF m = L THEN w ELSE done[m]
      <4>1. more = [done EXCEPT ![L] = w]
        BY <2>1, <3>2, <1>5
      <4>2. QED
        BY <4>1, <3>1, <3>2, <1>3, ExceptSeq
    <3>4. \A m \in 1..L : more[m].start = done[m].start
      BY <3>2, <3>3
    <3>5. Apart(more)
      <4> SUFFICES ASSUME NEW m \in 1..L, NEW n \in 1..L, m < n
                   PROVE  more[m].end + 1 < more[n].start
        BY <3>3 DEF Apart
      <4>1. m # L
        BY <1>3
      <4>2. QED
        BY <4>1, <3>3, <3>4, <1>3 DEF Apart
    <3>6. ASSUME NEW a \in Int
          PROVE  InAny(a, more) <=> InAny(a, done) \/ In(a, x)
      <4>1. InAny(a, more) => InAny(a, done) \/ In(a, x)
        BY <3>1, <3>2, <3>3 DEF InAny
      <4>2. InAny(a, done) => InAny(a, more)
        BY <3>2, <3>3 DEF InAny
      <4>3. In(a, x) => InAny(a, more)
        BY <3>1, <3>2, <3>3 DEF InAny
      <4>4. QED
        BY <4>1, <4>2, <4>3
    <3>7. QED
      BY <3>3, <3>4, <3>5, <3>6, <1>3
  <2>2. CASE ~joins
    <3>1. /\ Len(more) = L + 1
          /\ \A m \in 1..L : more[m] = done[m]
          /\ more[L + 1] = x
      BY <2>2, <1>3, <1>5, AppendProperties
    <3>2. \A m \in 1..(L + 1) : m \in 1..L \/ m = L + 1
      BY <1>3
    <3>3. ASSUME NEW m \in 1..L
          PROVE  done[m].end + 1 < x.start
      <4>1. L \in 1..L /\ done # <<>>
        BY <1>3, EmptySeq
      <4>2. done[L].end + 1 < x.start
        BY <4>1, <2>2, <1>4
      <4>3. CASE m = L
        BY <4>2, <4>3
      <4>4. CASE m < L
        <5>1. done[m].end + 1 < done[L].start
          BY <4>1, <4>4, <1>3 DEF Apart
        <5>2. /\ done[m].end \in Int /\ done[L].start \in Int /\ done[L].end \in Int
              /\ done[L].start <= done[L].end /\ x.start \in Int
          BY <4>1, <1>4
        <5>3. QED
          BY <5>1, <5>2, <4>2
      <4>5. QED
        BY <4>3, <4>4, <1>3
    <3>4. Apart(more)
      <4> SUFFICES ASSUME NEW m \in 1..(L + 1), NEW n \in 1..(L + 1), m < n
                   PROVE  more[m].end + 1 < more[n].start
        BY <3>1 DEF Apart
      <4>1. m \in 1..L
        BY <1>3
      <4>2. CASE n \in 1..L
        BY <4>1, <4>2, <3>1, <1>3 DEF Apart
      <4>3. CASE n = L + 1
        BY <4>1, <4>3, <3>1, <3>3
      <4>4. QED
        BY <4>2, <4>3, <3>2
    <3>5. ASSUME NEW a \in Int
          PROVE  InAny(a, more) <=> InAny(a, done) \/ In(a, x)
      <4>1. L + 1 \in 1..(L + 1) /\ \A m \in 1..L : m \in 1..(L + 1)
        BY <1>3
      <4>2. QED
        BY <4>1, <3>1, <3>2 DEF InAny
    <3>6. \A m \in 1..Len(more) : more[m].start <= x.start
      <4>1. \A m \in 1..L : more[m].start <= x.start
        BY <3>1, <1>3
      <4>2. more[L + 1].start <= x.start
        BY <3>1, <1>4
      <4>3. QED
        BY <4>1, <4>2, <3>1, <3>2
    <3>7. QED
      BY <3>4, <3>5, <3>6
  <2>3. QED
    BY <2>1, <2>2
<1>7. ASSUME k < Len(list), NEW m \in 1..Len(more)
      PROVE  more[m].start <= list[k + 1].start
  <2>1. k + 1 \in 1..Len(list)
    BY <1>2, <1>7
  <2>2. x.start <= list[k + 1].start
    <3>1. k \in 1..Len(list) /\ k < k + 1
      BY <1>2, <2>1
    <3>2. list[k].start <= list[k + 1].start
      BY <2>1, <3>1 DEF SortedStarts
    <3>3. QED
      BY <1>1, <3>2
  <2>3. list[k + 1] \in RangeType /\ more[m] \in RangeType
    BY <2>1, <1>5, ElementOfSeq
  <2>4. more[m].start \in Int /\ list[k + 1].start \in Int
    BY <2>3, RangeFacts
  <2>5. QED
    BY <2>2, <2>4, <1>4, <1>6
<1>8. ASSUME NEW a \in Int
      PROVE  InAny(a, more) <=> \E m \in 1..k : In(a, list[m])
  <2>1. \A m : m \in 1..k <=> m \in 1..(k - 1) \/ m = k
    BY <1>2
  <2>2. QED
    BY <2>1, <1>1, <1>3, <1>6
<1>9. MergedTo(list, k, more)
  BY <1>5, <1>6, <1>7, <1>8 DEF MergedTo
<1>10. QED
  BY <1>1, <1>9 DEF more

\* The merged list of each prefix.
IsAbsorbRun(acc, list) ==
  /\ acc[0] = <<>>
  /\ \A k \in 1..Len(list) : acc[k] = AbsorbRange(acc[k - 1], list[k])
  /\ FoldLeft(AbsorbRange, <<>>, list) = acc[Len(list)]

LEMMA AbsorbRun ==
  ASSUME NEW list \in Seq(RangeType)
  PROVE  \E acc : IsAbsorbRun(acc, list)
<1> DEFINE n == Len(list)
           A == Seq(RangeType)
           F == [p \in A \X (1..n) |-> AbsorbRange(p[1], list[p[2]])]
           E(g) == g = [s \in SUBSET (1..n) |->
                     IF s = {} THEN <<>>
                     ELSE LET x == Max(s) IN AbsorbRange(g[s \ {x}], list[x])]
           g == CHOOSE h : E(h)
<1>1. DOMAIN list = 1..n /\ n \in Nat /\ \A k \in 1..n : list[k] \in RangeType
  BY LenProperties, ElementOfSeq
<1>2. FoldLeft(AbsorbRange, <<>>, list) = g[1..n]
  BY <1>1, Zenon DEF FoldLeft, MapThenFoldSet
<1>3. IsStep(F, n, A) /\ <<>> \in A
  <2>1. \A l \in A, k \in 1..n : AbsorbRange(l, list[k]) \in A
    BY <1>1, AbsorbRangeStep
  <2>2. <<>> \in A
    BY EmptySeq
  <2> HIDE DEF A
  <2>3. QED
    BY <2>1, <2>2 DEF IsStep
<1>4. \A s \in SUBSET (1..n) : s # {} => Max(s) \in 1..n /\ s \ {Max(s)} \in SUBSET (1..n)
  BY <1>1, MaxUpTo
<1>5. \A k \in 1..n, y \in A : F[<<y, k>>] = AbsorbRange(y, list[k])
  OBVIOUS
<1> HIDE DEF n, A, F
<1>6. \E h : E(h)
  <2>1. PICK h \in [SUBSET (1..n) -> A] : Folds(h, n, <<>>, F)
    BY <1>1, <1>3, FoldExists
  <2>2. \A s \in SUBSET (1..n) : s # {} =>
          h[s] = AbsorbRange(h[s \ {Max(s)}], list[Max(s)])
    BY <2>1, <1>4, <1>5 DEF Folds
  <2>3. E(h)
    BY <2>1, <2>2 DEF Folds
  <2>4. QED
    BY <2>3, Zenon
<1>7. E(g)
  <2> HIDE DEF E
  <2>1. QED
    BY <1>6, Zenon
<1> HIDE DEF g
<1>8. FoldsWithin(g, n, A, <<>>, F)
  BY <1>4, <1>5, <1>7 DEF FoldsWithin
<1> HIDE DEF E
<1>9. PICK acc : IsRun(acc, n, A, <<>>, F) /\ g[1..n] = acc[n]
  BY <1>1, <1>3, <1>8, FoldRun
<1>10. \A k \in 1..n : acc[k] = AbsorbRange(acc[k - 1], list[k])
  <2> SUFFICES ASSUME NEW k \in 1..n
               PROVE  acc[k] = F[<<acc[k - 1], k>>] /\ acc[k - 1] \in A
    BY <1>5
  <2>1. k - 1 \in 0..n
    BY <1>1
  <2>2. QED
    BY <2>1, <1>9 DEF IsRun
<1>11. QED
  BY <1>2, <1>9, <1>10 DEF IsRun, IsAbsorbRun, n

LEMMA RangeStarts == \A r \in RangeType : r.start \in Int
  BY RangeFacts

\* merge_ranges: the same addresses, as ranges apart from each other.
LEMMA MergeRangesApart ==
  ASSUME NEW list \in Seq(RangeType)
  PROVE  /\ MergeRanges(list) \in Seq(RangeType)
         /\ Apart(MergeRanges(list))
         /\ \A a \in Int : InAny(a, MergeRanges(list)) <=> InAny(a, list)
<1>1. PICK sorted : sorted = ByStart(list)
  OBVIOUS
<1>2. /\ sorted \in Seq(RangeType) /\ SortedStarts(sorted)
      /\ \A y : IsIn(sorted, y) <=> IsIn(list, y)
  BY <1>1, RangeStarts, SortByStart
<1>3. PICK acc : IsAbsorbRun(acc, sorted)
  BY <1>2, AbsorbRun
<1> DEFINE n == Len(sorted)
           T == {k \in 0..n : MergedTo(sorted, k, acc[k])}
<1>4. n \in Nat
  BY <1>2, LenProperties
<1>5. 0 \in T
  <2>1. MergedTo(sorted, 0, <<>>)
    BY EmptySeq DEF MergedTo, Apart, InAny
  <2>2. QED
    BY <2>1, <1>3, <1>4 DEF IsAbsorbRun
<1>6. ASSUME NEW k \in 0..(n - 1), k \in T
      PROVE  k + 1 \in T
  <2>1. k + 1 \in 1..n /\ (k + 1) - 1 = k /\ k + 1 \in 0..n
    BY <1>4
  <2>2. acc[k + 1] = AbsorbRange(acc[k], sorted[k + 1])
    BY <2>1, <1>3 DEF IsAbsorbRun
  <2>3. PICK done, m : m \in 1..Len(sorted) /\ done = acc[k] /\ m = k + 1
    BY <2>1
  <2>4. MergedTo(sorted, m - 1, done)
    BY <2>1, <2>3, <1>6
  <2>5. MergedTo(sorted, m, AbsorbRange(done, sorted[m]))
    BY <2>3, <2>4, <1>2, MergeStep
  <2>6. QED
    BY <2>1, <2>2, <2>3, <2>5
<1>7. n \in T
  <2> HIDE DEF T, n
  <2>1. \A k \in 0..n : k \in T
    BY <1>4, <1>5, <1>6, InductionUpTo
  <2>2. QED
    BY <2>1, <1>4
<1>8. MergeRanges(list) = acc[n]
  BY <1>1, <1>3 DEF MergeRanges, IsAbsorbRun
<1>9. ASSUME NEW a
      PROVE  InAny(a, sorted) <=> InAny(a, list)
  <2>1. InAny(a, sorted) <=> \E y : IsIn(sorted, y) /\ In(a, y)
    BY DEF InAny, IsIn
  <2>2. InAny(a, list) <=> \E y : IsIn(list, y) /\ In(a, y)
    BY DEF InAny, IsIn
  <2>3. QED
    BY <2>1, <2>2, <1>2
<1>10. /\ acc[n] \in Seq(RangeType) /\ Apart(acc[n])
       /\ \A a \in Int : InAny(a, acc[n]) <=> InAny(a, sorted)
  BY <1>7 DEF MergedTo, InAny
<1>11. QED
  BY <1>8, <1>9, <1>10

-----------------------------------------------------------------------------
(* Concatenations *)

LEMMA ConcatIn ==
  ASSUME NEW X, NEW l \in Seq(X), NEW r \in Seq(X), NEW y
  PROVE  IsIn(l \o r, y) <=> IsIn(l, y) \/ IsIn(r, y)
<1>1. PICK v, p, q : v = l \o r /\ p = Len(l) /\ q = Len(r) /\ p \in Nat /\ q \in Nat
  BY LenProperties
<1>2. /\ Len(v) = p + q
      /\ \A k \in 1..(p + q) : v[k] = IF k <= p THEN l[k] ELSE r[k - p]
  BY <1>1, ConcatProperties
<1>3. ASSUME IsIn(v, y)
      PROVE  IsIn(l, y) \/ IsIn(r, y)
  <2>1. PICK k \in 1..(p + q) : v[k] = y
    BY <1>2, <1>3 DEF IsIn
  <2>2. CASE k <= p
    BY <2>1, <2>2, <1>1, <1>2 DEF IsIn
  <2>3. CASE ~(k <= p)
    <3>1. k - p \in 1..q /\ r[k - p] = y
      BY <2>1, <2>3, <1>1, <1>2
    <3>2. QED
      BY <3>1, <1>1 DEF IsIn
  <2>4. QED
    BY <2>2, <2>3
<1>4. ASSUME IsIn(l, y)
      PROVE  IsIn(v, y)
  <2>1. PICK k \in 1..p : l[k] = y
    BY <1>1, <1>4 DEF IsIn
  <2>2. k \in 1..(p + q) /\ v[k] = y
    BY <2>1, <1>1, <1>2
  <2>3. QED
    BY <2>2, <1>2 DEF IsIn
<1>5. ASSUME IsIn(r, y)
      PROVE  IsIn(v, y)
  <2>1. PICK k \in 1..q : r[k] = y
    BY <1>1, <1>5 DEF IsIn
  <2>2. k + p \in 1..(p + q) /\ ~(k + p <= p) /\ (k + p) - p = k
    BY <1>1
  <2>3. v[k + p] = y
    BY <2>1, <2>2, <1>2
  <2>4. QED
    BY <2>2, <2>3, <1>2 DEF IsIn
<1>6. QED
  BY <1>1, <1>3, <1>4, <1>5

LEMMA FlattenIn ==
  ASSUME NEW X, NEW seqs \in Seq(Seq(X))
  PROVE  /\ FlattenSeq(seqs) \in Seq(X)
         /\ \A y : IsIn(FlattenSeq(seqs), y) <=> \E m \in 1..Len(seqs) : IsIn(seqs[m], y)
<1> DEFINE n == Len(seqs)
<1>1. n \in Nat /\ \A k \in 1..n : seqs[k] \in Seq(X)
  BY LenProperties, ElementOfSeq
<1>2. PICK acc \in [0..n -> Seq(X)] :
        /\ acc[0] = <<>>
        /\ \A k \in 1..n : acc[k] = acc[k - 1] \o seqs[k]
        /\ FlattenSeq(seqs) = acc[n]
  BY FlattenRun
<1> DEFINE Of(k, y) == \E m \in 1..k : IsIn(seqs[m], y)
           T == {k \in 0..n : \A y : IsIn(acc[k], y) <=> Of(k, y)}
<1> HIDE DEF n
<1>3. 0 \in T
  BY <1>1, <1>2, EmptySeq DEF IsIn
<1>4. ASSUME NEW k \in 0..(n - 1), k \in T
      PROVE  k + 1 \in T
  <2>1. k + 1 \in 1..n /\ (k + 1) - 1 = k /\ k \in 0..n /\ k + 1 \in 0..n
    BY <1>1
  <2>2. PICK l \in Seq(X), r \in Seq(X) : l = acc[k] /\ r = seqs[k + 1]
    BY <2>1, <1>1, <1>2
  <2>3. acc[k + 1] = l \o r
    BY <2>1, <2>2, <1>2
  <2>4. \A y : IsIn(l \o r, y) <=> IsIn(l, y) \/ IsIn(r, y)
    BY ConcatIn
  <2>5. \A y : Of(k + 1, y) <=> Of(k, y) \/ IsIn(seqs[k + 1], y)
    <3>1. 1..(k + 1) = (1..k) \union {k + 1}
      BY <2>1
    <3> HIDE DEF IsIn
    <3>2. QED
      BY <3>1
  <2>6. \A y : IsIn(acc[k], y) <=> Of(k, y)
    BY <1>4
  <2> HIDE DEF Of
  <2>7. \A y : IsIn(acc[k + 1], y) <=> Of(k + 1, y)
    BY <2>2, <2>3, <2>4, <2>5, <2>6
  <2>8. QED
    BY <2>1, <2>7
<1>5. n \in T
  <2> HIDE DEF T
  <2>1. \A k \in 0..n : k \in T
    BY <1>1, <1>3, <1>4, InductionUpTo
  <2>2. QED
    BY <2>1, <1>1
<1>6. \A y : IsIn(acc[n], y) <=> Of(n, y)
  BY <1>5
<1>7. acc[n] \in Seq(X)
  BY <1>1, <1>2
<1>8. QED
  BY <1>2, <1>6, <1>7 DEF n

LEMMA IntersectionIn ==
  ASSUME NEW r \in RangeType, NEW t \in RangeType, Overlaps(r, t)
  PROVE  /\ Intersection(r, t) \in RangeType
         /\ \A a \in Int : In(a, Intersection(r, t)) <=> In(a, r) /\ In(a, t)
<1>1. /\ r.start \in Int /\ r.end \in Int /\ 0 <= r.start /\ r.start <= r.end
      /\ t.start \in Int /\ t.end \in Int /\ 0 <= t.start /\ t.start <= t.end
      /\ r.end <= MaxAddr /\ t.end <= MaxAddr /\ r.start <= t.end /\ t.start <= r.end
  BY RangeFacts DEF Overlaps
<1>2. PICK lo, hi : /\ lo = IF r.start >= t.start THEN r.start ELSE t.start
                    /\ hi = IF r.end <= t.end THEN r.end ELSE t.end
  OBVIOUS
<1>3. lo \in Int /\ hi \in Int /\ 0 <= lo /\ lo <= hi /\ hi <= MaxAddr
  BY <1>1, <1>2
<1>4. Intersection(r, t) = FromStartEnd(lo, hi)
  BY <1>1, <1>2, MaxOfTwo, MinOfTwo DEF Intersection
<1>5. \A a \in Int : lo <= a /\ a <= hi <=> In(a, r) /\ In(a, t)
  BY <1>1, <1>2 DEF In
<1>6. QED
  BY <1>3, <1>4, <1>5, RangeMade

-----------------------------------------------------------------------------
(* Addresses in order *)

AllAddresses == [k \in 1..(MaxAddr + 1) |-> k - 1]

LEMMA AddressList ==
  ASSUME NEW S, S \subseteq Addr
  PROVE  /\ AddressesIn(S) \in Seq(Addr)
         /\ \A y : IsIn(AddressesIn(S), y) <=> y \in S
         /\ \A m, j \in 1..Len(AddressesIn(S)) :
              m < j => AddressesIn(S)[m] < AddressesIn(S)[j]
<1>1. /\ AllAddresses \in Seq(Addr) /\ Len(AllAddresses) = MaxAddr + 1
      /\ \A k \in 1..(MaxAddr + 1) : AllAddresses[k] = k - 1
  <2>1. MaxAddr + 1 \in Nat /\ \A k \in 1..(MaxAddr + 1) : k - 1 \in Addr
    BY MaxAddrAssumption DEF Addr
  <2>2. AllAddresses \in Seq(Addr) /\ Len(AllAddresses) = MaxAddr + 1
    BY <2>1, IsASeq, LenProperties DEF AllAddresses
  <2>3. QED
    BY <2>2 DEF AllAddresses
<1>2. AddressesIn(S) = Keep(AllAddresses, S)
  BY DEF AddressesIn, AllAddresses
<1>3. PICK list : list = AddressesIn(S)
  OBVIOUS
<1>4. list \in Seq(Addr) /\ \E f : KeptBy(f, AllAddresses, S, MaxAddr + 1, list)
  BY <1>1, <1>2, <1>3, KeepIndex
<1>5. PICK f : KeptBy(f, AllAddresses, S, MaxAddr + 1, list)
  BY <1>4
<1>6. /\ \A m \in 1..Len(list) : f[m] \in 1..(MaxAddr + 1) /\ list[m] = f[m] - 1
      /\ \A m, j \in 1..Len(list) : m < j => f[m] < f[j]
  BY <1>1, <1>5 DEF KeptBy
<1>7. \A m, j \in 1..Len(list) : m < j => list[m] < list[j]
  BY <1>6, MaxAddrAssumption
<1>8. ASSUME NEW y
      PROVE  IsIn(list, y) <=> y \in S
  <2>1. IsIn(list, y) <=> IsIn(AllAddresses, y) /\ y \in S
    BY <1>1, <1>2, <1>3, KeepElements
  <2>2. y \in S => y + 1 \in 1..(MaxAddr + 1) /\ (y + 1) - 1 = y
    BY MaxAddrAssumption DEF Addr
  <2>3. y \in S => IsIn(AllAddresses, y)
    BY <2>2, <1>1 DEF IsIn
  <2>4. QED
    BY <2>1, <2>3
<1>9. QED
  BY <1>3, <1>4, <1>7, <1>8

-----------------------------------------------------------------------------
(* Lemmas about segments *)

\* The end of a segment in the address space, and what it covers.
LEMMA SpanInSpace ==
  ASSUME NEW s, InSpace(s)
  PROVE  /\ s.start \in Addr
         /\ EndAddress(s) \in Addr
         /\ EndAddress(s) = s.start + Len(s.data) - 1
         /\ s.start <= EndAddress(s)
         /\ \A a \in Int : Covers(s, a) <=> s.start <= a /\ a <= EndAddress(s)
  BY MaxAddrAssumption DEF InSpace, Addr, EndAddress, FitsAt, IsEmpty, Covers

\* A slice of a segment covers its own bounds and keeps the bytes in place.
LEMMA ClipInSpace ==
  ASSUME NEW s, InSpace(s), NEW lo \in Int, NEW hi \in Int,
         s.start <= lo, lo <= hi, hi <= EndAddress(s)
  PROVE  /\ InSpace(Clip(s, lo, hi))
         /\ Clip(s, lo, hi).start = lo
         /\ EndAddress(Clip(s, lo, hi)) = hi
         /\ \A a \in Int : \A b : Has(Clip(s, lo, hi), a, b)
                                <=> lo <= a /\ a <= hi /\ Has(s, a, b)
<1> DEFINE c == Clip(s, lo, hi)
<1>1. PICK d \in Seq(Byte), x \in Addr : d = s.data /\ x = s.start
  BY DEF InSpace
<1> DEFINE from == lo - x + 1
           to == hi - x + 1
           e == SubSeq(d, from, to)
<1>2. /\ Len(d) \in Nat
      /\ EndAddress(s) = x + Len(d) - 1
      /\ x + Len(d) - 1 <= MaxAddr
      /\ x <= lo /\ hi <= x + Len(d) - 1
  BY <1>1, SpanInSpace, MaxAddrAssumption DEF Addr
<1>3. x \in Nat /\ from \in 1..Len(d) /\ to \in 1..Len(d) /\ from <= to
  BY <1>2 DEF Addr
<1>4. c = [start |-> lo, data |-> e]
  BY <1>1 DEF Clip
<1>5. /\ e \in Seq(Byte)
      /\ Len(e) = to - from + 1
      /\ \A k \in 1..(to - from + 1) : e[k] = d[from + k - 1]
  BY <1>3, SubSeqProperties
<1> HIDE DEF e
<1>6. InSpace(c)
  <2>1. lo \in Addr
    BY <1>2, <1>3, MaxAddrAssumption DEF Addr
  <2>2. Len(e) > 0 /\ lo + Len(e) - 1 <= MaxAddr
    <3>1. PICK w \in Int, l \in Int, h \in Int : w = Len(e) /\ l = lo /\ h = hi
      BY <1>3, <1>5
    <3>2. w = h - l + 1 /\ l <= h /\ h <= MaxAddr /\ MaxAddr \in Int
      BY <1>2, <1>3, <1>5, <3>1, MaxAddrAssumption
    <3>3. w > 0 /\ l + w - 1 <= MaxAddr
      BY <3>2
    <3>4. QED
      BY <3>1, <3>3
  <2>3. QED
    BY <2>1, <2>2, <1>4, <1>5 DEF InSpace
<1>7. c.start = lo /\ c.data = e
  BY <1>4
<1> HIDE DEF c
<1>8. EndAddress(c) = hi
  <2>1. EndAddress(c) = lo + Len(e) - 1
    BY <1>6, <1>7, SpanInSpace
  <2>2. QED
    BY <2>1, <1>3, <1>5
<1>9. ASSUME NEW a \in Int, NEW b
      PROVE  Has(c, a, b) <=> lo <= a /\ a <= hi /\ Has(s, a, b)
  <2>1. Covers(c, a) <=> lo <= a /\ a <= hi
    BY <1>6, <1>7, <1>8, SpanInSpace
  <2>2. lo <= a /\ a <= hi => Covers(s, a)
    BY <1>1, <1>2, <1>3, SpanInSpace
  <2>3. lo <= a /\ a <= hi => ByteAt(c, a) = ByteAt(s, a)
    <3> SUFFICES ASSUME lo <= a, a <= hi
                 PROVE  e[a - lo + 1] = d[a - x + 1]
      BY <1>1, <1>7 DEF ByteAt
    <3>1. a - lo + 1 \in 1..(to - from + 1)
      BY <1>3
    <3>2. from + (a - lo + 1) - 1 = a - x + 1
      BY <1>3
    <3>3. QED
      BY <3>1, <3>2, <1>5
  <2>4. QED
    BY <2>1, <2>2, <2>3 DEF Has
<1>10. QED
  BY <1>6, <1>7, <1>8, <1>9 DEF c

\* Joining two segments that touch gives one that reads as both did.
LEMMA JoinInSpace ==
  ASSUME NEW s, NEW t, InSpace(s), InSpace(t), IsContiguousWith(s, t)
  PROVE  /\ InSpace(Join(s, t))
         /\ Join(s, t).start = s.start
         /\ EndAddress(Join(s, t)) = EndAddress(t)
         /\ \A a \in Int : \A b : Has(Join(s, t), a, b)
                                <=> Has(s, a, b) \/ Has(t, a, b)
<1> DEFINE u == Join(s, t)
<1>1. PICK d \in Seq(Byte), x \in Addr : d = s.data /\ x = s.start
  BY DEF InSpace
<1>2. PICK e \in Seq(Byte), y \in Addr : e = t.data /\ y = t.start
  BY DEF InSpace
<1> DEFINE f == d \o e
<1>3. /\ Len(d) \in Nat /\ EndAddress(s) = x + Len(d) - 1 /\ Len(d) > 0
      /\ Len(e) \in Nat /\ EndAddress(t) = y + Len(e) - 1 /\ Len(e) > 0
      /\ EndAddress(t) <= MaxAddr
      /\ x \in Nat /\ y \in Nat
  <2>1. Len(d) \in Nat /\ EndAddress(s) = x + Len(d) - 1 /\ Len(d) > 0
    BY <1>1, SpanInSpace DEF InSpace
  <2>2. Len(e) \in Nat /\ EndAddress(t) = y + Len(e) - 1 /\ Len(e) > 0
    BY <1>2, SpanInSpace DEF InSpace
  <2>3. x \in Nat /\ y \in Nat /\ EndAddress(t) <= MaxAddr
    BY SpanInSpace, MaxAddrAssumption DEF Addr
  <2>4. QED
    BY <2>1, <2>2, <2>3
<1>4. y = x + Len(d)
  BY <1>2, <1>3 DEF IsContiguousWith
<1>5. u = [start |-> x, data |-> f]
  BY <1>1, <1>2 DEF Join
<1>6. /\ f \in Seq(Byte)
      /\ Len(f) = Len(d) + Len(e)
      /\ \A k \in 1..(Len(d) + Len(e)) :
           f[k] = IF k <= Len(d) THEN d[k] ELSE e[k - Len(d)]
  BY ConcatProperties
<1> HIDE DEF f
<1>7. InSpace(u)
  <2>1. Len(f) > 0 /\ x + Len(f) - 1 <= MaxAddr
    BY <1>3, <1>4, <1>6, MaxAddrAssumption
  <2>2. QED
    BY <2>1, <1>5, <1>6 DEF InSpace
<1>8. u.start = x /\ u.data = f
  BY <1>5
<1> HIDE DEF u
<1>9. EndAddress(u) = EndAddress(t)
  <2>1. EndAddress(u) = x + Len(f) - 1
    BY <1>7, <1>8, SpanInSpace
  <2>2. QED
    BY <2>1, <1>3, <1>4, <1>6
<1>10. ASSUME NEW a \in Int, NEW b
       PROVE  Has(u, a, b) <=> Has(s, a, b) \/ Has(t, a, b)
  <2>1. /\ Covers(s, a) <=> x <= a /\ a < x + Len(d)
        /\ Covers(t, a) <=> y <= a /\ a < y + Len(e)
        /\ Covers(u, a) <=> x <= a /\ a < x + Len(f)
    BY <1>1, <1>2, <1>8 DEF Covers
  <2>2. Covers(u, a) <=> Covers(s, a) \/ Covers(t, a)
    BY <2>1, <1>3, <1>4, <1>6
  <2>3. ~(Covers(s, a) /\ Covers(t, a))
    BY <2>1, <1>3, <1>4
  <2>4. /\ ByteAt(s, a) = d[a - x + 1]
        /\ ByteAt(t, a) = e[a - y + 1]
        /\ ByteAt(u, a) = f[a - x + 1]
    BY <1>1, <1>2, <1>8 DEF ByteAt
  <2>5. Covers(s, a) => ByteAt(u, a) = ByteAt(s, a)
    <3> SUFFICES ASSUME Covers(s, a)
                 PROVE  f[a - x + 1] = d[a - x + 1]
      BY <2>4
    <3>1. a - x + 1 \in 1..(Len(d) + Len(e)) /\ a - x + 1 <= Len(d)
      BY <2>1, <1>3
    <3>2. QED
      BY <3>1, <1>6
  <2>6. Covers(t, a) => ByteAt(u, a) = ByteAt(t, a)
    <3> SUFFICES ASSUME Covers(t, a)
                 PROVE  f[a - x + 1] = e[a - y + 1]
      BY <2>4
    <3>1. /\ a - x + 1 \in 1..(Len(d) + Len(e))
          /\ ~(a - x + 1 <= Len(d))
          /\ (a - x + 1) - Len(d) = a - y + 1
      BY <2>1, <1>3, <1>4
    <3>2. QED
      BY <3>1, <1>6
  <2>7. QED
    BY <2>2, <2>3, <2>5, <2>6 DEF Has
<1>11. QED
  BY <1>1, <1>7, <1>8, <1>9, <1>10 DEF u

-----------------------------------------------------------------------------
(* Lemmas about lists of segments *)

EndsBefore(list, a) == \A n \in 1..Len(list) : EndAddress(list[n]) < a

\* What the first k segments of a list without overlaps read as.
Prefix(list, k, a, b) == \E m \in 1..k : Has(list[m], a, b)

SegRecord == [start : Addr, data : Seq(Byte)]

\* The list with one more segment at the end.
LEMMA AppendList ==
  ASSUME NEW list \in ListType, AllInSpace(list), NEW s, InSpace(s)
  PROVE  /\ Append(list, s) \in ListType
         /\ AllInSpace(Append(list, s))
         /\ Append(list, s) # <<>>
         /\ Len(Append(list, s)) = Len(list) + 1
         /\ Append(list, s)[Len(list) + 1] = s
         /\ \A n \in 1..Len(list) : Append(list, s)[n] = list[n]
         /\ \A a \in Int : \A b : Holds(Append(list, s), a, b)
                                <=> Holds(list, a, b) \/ Has(s, a, b)
<1> DEFINE more == Append(list, s)
<1>1. s \in SegRecord
  BY DEF InSpace, SegRecord
<1>2. list \in Seq(SegRecord) /\ Len(list) \in Nat
  BY DEF ListType, SegRecord
<1>3. /\ more \in Seq(SegRecord)
      /\ more # <<>>
      /\ Len(more) = Len(list) + 1
      /\ \A n \in 1..Len(list) : more[n] = list[n]
      /\ more[Len(list) + 1] = s
  BY <1>1, <1>2, AppendProperties
<1> HIDE DEF more
<1>4. \A n \in 1..Len(more) : n \in 1..Len(list) \/ n = Len(list) + 1
  BY <1>2, <1>3
<1>5. AllInSpace(more)
  BY <1>3, <1>4 DEF AllInSpace
<1>6. ASSUME NEW a \in Int, NEW b
      PROVE  Holds(more, a, b) <=> Holds(list, a, b) \/ Has(s, a, b)
  <2>1. \A n \in 1..Len(list) : n \in 1..Len(more)
    BY <1>2, <1>3
  <2>2. Len(list) + 1 \in 1..Len(more)
    BY <1>2, <1>3
  <2>3. QED
    BY <2>1, <2>2, <1>3, <1>4 DEF Holds
<1>7. QED
  BY <1>3, <1>5, <1>6 DEF more, ListType, SegRecord

\* Appending a segment that starts after every end keeps a list ordered.
LEMMA AppendOrdered ==
  ASSUME NEW list \in ListType, AllInSpace(list), InOrder(list),
         NEW s, InSpace(s), EndsBefore(list, s.start)
  PROVE  /\ InOrder(Append(list, s))
         /\ \A c \in Int : EndAddress(s) < c => EndsBefore(Append(list, s), c)
<1> DEFINE more == Append(list, s)
<1>1. /\ Len(more) = Len(list) + 1
      /\ more[Len(list) + 1] = s
      /\ \A n \in 1..Len(list) : more[n] = list[n]
      /\ Len(list) \in Nat
  BY AppendList DEF ListType
<1> HIDE DEF more
<1>2. \A n \in 1..Len(list) : EndAddress(list[n]) \in Int
  BY SpanInSpace, MaxAddrAssumption DEF AllInSpace, Addr
<1>3. EndAddress(s) \in Int /\ s.start \in Int /\ s.start <= EndAddress(s)
  BY SpanInSpace, MaxAddrAssumption DEF Addr
<1>4. InOrder(more)
  <2> SUFFICES ASSUME NEW m \in 1..Len(more), NEW n \in 1..Len(more), m < n
               PROVE  EndAddress(more[m]) < more[n].start
    BY DEF InOrder
  <2>1. CASE n \in 1..Len(list)
    BY <2>1, <1>1 DEF InOrder
  <2>2. CASE n = Len(list) + 1
    BY <2>2, <1>1 DEF EndsBefore
  <2>3. QED
    BY <2>1, <2>2, <1>1
<1>5. ASSUME NEW c \in Int, EndAddress(s) < c
      PROVE  EndsBefore(more, c)
  <2> SUFFICES ASSUME NEW n \in 1..Len(more)
               PROVE  EndAddress(more[n]) < c
    BY DEF EndsBefore
  <2>1. CASE n \in 1..Len(list)
    <3>1. EndAddress(more[n]) < s.start
      BY <2>1, <1>1 DEF EndsBefore
    <3>2. QED
      BY <3>1, <2>1, <1>1, <1>2, <1>3, <1>5
  <2>2. CASE n = Len(list) + 1
    BY <2>2, <1>1, <1>5
  <2>3. QED
    BY <2>1, <2>2, <1>1
<1>6. QED
  BY <1>4, <1>5 DEF more

\* The same for a list whose neighbours may not touch.
LEMMA AppendSeparated ==
  ASSUME NEW list \in ListType, AllInSpace(list), Separated(list),
         NEW s, InSpace(s),
         \A n \in 1..Len(list) : EndAddress(list[n]) + 1 < s.start
  PROVE  Separated(Append(list, s))
<1> DEFINE more == Append(list, s)
<1>1. /\ Len(more) = Len(list) + 1
      /\ more[Len(list) + 1] = s
      /\ \A n \in 1..Len(list) : more[n] = list[n]
      /\ Len(list) \in Nat
  BY AppendList DEF ListType
<1> HIDE DEF more
<1> SUFFICES ASSUME NEW m \in 1..Len(more), NEW n \in 1..Len(more), m < n
             PROVE  EndAddress(more[m]) + 1 < more[n].start
  BY DEF Separated, more
<1>2. CASE n \in 1..Len(list)
  BY <1>2, <1>1 DEF Separated
<1>3. CASE n = Len(list) + 1
  BY <1>3, <1>1
<1>4. QED
  BY <1>1, <1>2, <1>3

\* Replacing the last segment of a separated list by its join with a segment
\* that touches it.
LEMMA JoinLast ==
  ASSUME NEW list \in ListType, AllInSpace(list), Separated(list), list # <<>>,
         NEW s, InSpace(s), IsContiguousWith(list[Len(list)], s)
  PROVE  LET joined == [list EXCEPT ![Len(list)] = Join(list[Len(list)], s)]
         IN /\ joined \in ListType
            /\ AllInSpace(joined)
            /\ Separated(joined)
            /\ Len(joined) = Len(list)
            /\ \A c \in Int : EndAddress(s) < c => EndsBefore(joined, c)
            /\ \A a \in Int : \A b : Holds(joined, a, b)
                                   <=> Holds(list, a, b) \/ Has(s, a, b)
<1> DEFINE last == Len(list)
           u == Join(list[last], s)
           joined == [list EXCEPT ![last] = u]
<1>1. list \in Seq(SegRecord) /\ last \in Nat /\ last \in 1..Len(list)
  BY EmptySeq DEF ListType, SegRecord
<1>2. InSpace(list[last])
  BY <1>1 DEF AllInSpace
<1>3. /\ InSpace(u)
      /\ u.start = list[last].start
      /\ EndAddress(u) = EndAddress(s)
      /\ \A a \in Int : \A b : Has(u, a, b) <=> Has(list[last], a, b) \/ Has(s, a, b)
  BY <1>2, JoinInSpace
<1>4. u \in SegRecord
  BY <1>3 DEF InSpace, SegRecord
<1>5. /\ joined \in Seq(SegRecord)
      /\ Len(joined) = Len(list)
      /\ \A n \in 1..Len(list) : joined[n] = IF n = last THEN u ELSE list[n]
  BY <1>1, <1>4, ExceptSeq
<1> HIDE DEF u, joined
<1>6. AllInSpace(joined)
  BY <1>3, <1>5 DEF AllInSpace
<1>7. /\ \A n \in 1..Len(list) : EndAddress(list[n]) \in Int
                                 /\ list[n].start \in Int
                                 /\ list[n].start <= EndAddress(list[n])
      /\ EndAddress(s) \in Int /\ s.start \in Int /\ s.start <= EndAddress(s)
  BY SpanInSpace, MaxAddrAssumption DEF AllInSpace, Addr
<1>8. Separated(joined)
  <2> SUFFICES ASSUME NEW m \in 1..Len(joined), NEW n \in 1..Len(joined), m < n
               PROVE  EndAddress(joined[m]) + 1 < joined[n].start
    BY DEF Separated
  <2>1. joined[m] = list[m] /\ joined[n].start = list[n].start
    BY <1>1, <1>3, <1>5
  <2>2. QED
    BY <2>1, <1>5 DEF Separated
<1>9. ASSUME NEW c \in Int, EndAddress(s) < c
      PROVE  EndsBefore(joined, c)
  <2> SUFFICES ASSUME NEW n \in 1..Len(joined)
               PROVE  EndAddress(joined[n]) < c
    BY DEF EndsBefore
  <2>1. CASE n = last
    BY <2>1, <1>1, <1>3, <1>5, <1>9
  <2>2. CASE n # last
    <3>1. EndAddress(list[n]) + 1 < list[last].start
      BY <2>2, <1>1, <1>5 DEF Separated
    <3>2. EndAddress(list[last]) + 1 = s.start
      BY DEF IsContiguousWith
    <3>3. QED
      BY <3>1, <3>2, <2>2, <1>1, <1>5, <1>7, <1>9
  <2>3. QED
    BY <2>1, <2>2
<1>10. ASSUME NEW a \in Int, NEW b
       PROVE  Holds(joined, a, b) <=> Holds(list, a, b) \/ Has(s, a, b)
  <2>1. ASSUME NEW n \in 1..Len(list)
        PROVE  Has(joined[n], a, b)
                 <=> Has(list[n], a, b) \/ (n = last /\ Has(s, a, b))
    BY <1>3, <1>5
  <2>2. QED
    BY <2>1, <1>1, <1>5 DEF Holds
<1>11. QED
  BY <1>5, <1>6, <1>8, <1>9, <1>10 DEF joined, u, ListType, SegRecord

\* The empty list, with which every list starts.
LEMMA EmptyList == <<>> \in ListType /\ AllInSpace(<<>>)
  BY EmptySeq DEF ListType, AllInSpace

\* Pushing a segment under a condition.
LEMMA PushList ==
  ASSUME NEW list \in ListType, AllInSpace(list), NEW cond \in BOOLEAN,
         NEW s, cond => InSpace(s)
  PROVE  /\ PushIf(list, cond, s) \in ListType
         /\ AllInSpace(PushIf(list, cond, s))
         /\ \A a \in Int : \A b : Holds(PushIf(list, cond, s), a, b)
                                <=> Holds(list, a, b) \/ (cond /\ Has(s, a, b))
  BY AppendList DEF PushIf

\* ... and what it needs to keep the list ordered.
LEMMA PushOrdered ==
  ASSUME NEW list \in ListType, AllInSpace(list), InOrder(list),
         NEW cond \in BOOLEAN, NEW s,
         cond => InSpace(s) /\ EndsBefore(list, s.start)
  PROVE  /\ InOrder(PushIf(list, cond, s))
         /\ \A c \in Int : (cond /\ EndAddress(s) < c) \/ (~cond /\ EndsBefore(list, c))
                              => EndsBefore(PushIf(list, cond, s), c)
  BY AppendOrdered DEF PushIf

-----------------------------------------------------------------------------
(* overlay_segment: one iteration of its loop *)

\* The first k + 1 segments are the first k and one more.
LEMMA PrefixStep ==
  ASSUME NEW list, NEW k \in Nat, NEW a, NEW b
  PROVE  Prefix(list, k + 1, a, b) <=> Prefix(list, k, a, b) \/ Has(list[k + 1], a, b)
<1>1. \A m \in 1..(k + 1) : m \in 1..k \/ m = k + 1
  OBVIOUS
<1>2. (\A m \in 1..k : m \in 1..(k + 1)) /\ k + 1 \in 1..(k + 1)
  OBVIOUS
<1>3. QED
  BY <1>1, <1>2 DEF Prefix

\* What the scan has made of the first k segments of the list: `placed` says
\* whether s is among them.
Scanned(list, s, k, nx, pl) ==
  /\ nx \in ListType /\ AllInSpace(nx) /\ InOrder(nx)
  /\ pl \in BOOLEAN
  /\ k < Len(list) => EndsBefore(nx, list[k + 1].start)
  /\ ~pl => EndsBefore(nx, s.start)
  /\ pl /\ k < Len(list) => EndAddress(s) < list[k + 1].start
  /\ \A a \in Int : \A b : Holds(nx, a, b)
       <=> (pl /\ Has(s, a, b)) \/ (~Covers(s, a) /\ Prefix(list, k, a, b))

\* The scan at segment k: that one and the one behind it, and the new one.
ScanPoint(list, s, k, nx, pl) ==
  /\ k \in Nat /\ (k - 1) + 1 = k /\ k - 1 \in Nat
  /\ InSpace(list[k])
  /\ list[k].start \in Int /\ EndAddress(list[k]) \in Int
  /\ list[k].start <= EndAddress(list[k])
  /\ s.start \in Int /\ EndAddress(s) \in Int /\ s.start <= EndAddress(s)
  /\ nx \in ListType /\ AllInSpace(nx) /\ InOrder(nx) /\ pl \in BOOLEAN
  /\ EndsBefore(nx, list[k].start)
  /\ ~pl => EndsBefore(nx, s.start)
  /\ pl => EndAddress(s) < list[k].start
  /\ k < Len(list) => /\ list[k + 1].start \in Int
                      /\ EndAddress(list[k]) < list[k + 1].start
  /\ \A a \in Int :
       /\ Covers(list[k], a) <=> list[k].start <= a /\ a <= EndAddress(list[k])
       /\ Covers(s, a) <=> s.start <= a /\ a <= EndAddress(s)
  /\ \A a \in Int : \A b :
       /\ Prefix(list, k, a, b) <=> Prefix(list, k - 1, a, b) \/ Has(list[k], a, b)
       /\ Holds(nx, a, b)
            <=> (pl /\ Has(s, a, b)) \/ (~Covers(s, a) /\ Prefix(list, k - 1, a, b))

LEMMA ScanFacts ==
  ASSUME NEW list \in ListType, AllInSpace(list), Separated(list),
         NEW s, InSpace(s), NEW k \in 1..Len(list),
         NEW nx, NEW pl \in BOOLEAN, Scanned(list, s, k - 1, nx, pl)
  PROVE  ScanPoint(list, s, k, nx, pl)
<1>1. Len(list) \in Nat
  BY LenProperties DEF ListType
<1>2. k \in Nat /\ (k - 1) + 1 = k /\ k - 1 \in Nat /\ k - 1 < Len(list)
  BY <1>1
<1>3. InSpace(list[k])
  BY DEF AllInSpace
<1>4. /\ list[k].start \in Int /\ EndAddress(list[k]) \in Int
      /\ list[k].start <= EndAddress(list[k])
      /\ s.start \in Int /\ EndAddress(s) \in Int /\ s.start <= EndAddress(s)
  BY <1>3, SpanInSpace, MaxAddrAssumption DEF Addr
<1>5. /\ EndsBefore(nx, list[k].start)
      /\ pl => EndAddress(s) < list[k].start
  BY <1>2 DEF Scanned
<1>6. ASSUME k < Len(list)
      PROVE  /\ list[k + 1].start \in Int
             /\ EndAddress(list[k]) < list[k + 1].start
  <2>1. k + 1 \in 1..Len(list) /\ k < k + 1
    BY <1>1, <1>6
  <2>2. EndAddress(list[k]) + 1 < list[k + 1].start
    BY <2>1 DEF Separated
  <2>3. InSpace(list[k + 1])
    BY <2>1 DEF AllInSpace
  <2>4. list[k + 1].start \in Int
    BY <2>3, SpanInSpace, MaxAddrAssumption DEF Addr
  <2>5. QED
    BY <2>2, <2>4, <1>4
<1>7. ASSUME NEW a \in Int, NEW b
      PROVE  Prefix(list, k, a, b) <=> Prefix(list, k - 1, a, b) \/ Has(list[k], a, b)
  <2>1. Prefix(list, (k - 1) + 1, a, b)
          <=> Prefix(list, k - 1, a, b) \/ Has(list[(k - 1) + 1], a, b)
    BY <1>2, PrefixStep
  <2>2. QED
    BY <2>1, <1>2
<1>8. /\ nx \in ListType /\ AllInSpace(nx) /\ InOrder(nx) /\ pl \in BOOLEAN
      /\ ~pl => EndsBefore(nx, s.start)
      /\ \A a \in Int : \A b : Holds(nx, a, b)
           <=> (pl /\ Has(s, a, b)) \/ (~Covers(s, a) /\ Prefix(list, k - 1, a, b))
  BY DEF Scanned
<1>9. \A a \in Int :
        /\ Covers(list[k], a) <=> list[k].start <= a /\ a <= EndAddress(list[k])
        /\ Covers(s, a) <=> s.start <= a /\ a <= EndAddress(s)
  BY <1>3, SpanInSpace
<1>10. QED
  BY <1>2, <1>3, <1>4, <1>5, <1>6, <1>7, <1>8, <1>9 DEF ScanPoint

\* A segment in front of the new one is kept.
LEMMA ScanBefore ==
  ASSUME NEW list \in ListType, AllInSpace(list), Separated(list),
         NEW s, InSpace(s), NEW k \in 1..Len(list),
         NEW nx, NEW pl \in BOOLEAN, Scanned(list, s, k - 1, nx, pl),
         EndAddress(list[k]) < s.start
  PROVE  Scanned(list, s, k, Append(nx, list[k]), pl)
<1> DEFINE more == Append(nx, list[k])
<1>1. ScanPoint(list, s, k, nx, pl)
  BY ScanFacts
<1>2. /\ more \in ListType /\ AllInSpace(more)
      /\ \A a \in Int : \A b : Holds(more, a, b) <=> Holds(nx, a, b) \/ Has(list[k], a, b)
  BY <1>1, AppendList DEF ScanPoint
<1>3. /\ InOrder(more)
      /\ \A c \in Int : EndAddress(list[k]) < c => EndsBefore(more, c)
  BY <1>1, AppendOrdered DEF ScanPoint
<1> HIDE DEF more
<1>4. ~pl
  BY <1>1 DEF ScanPoint
<1>5. \A a \in Int : Covers(list[k], a) => ~Covers(s, a)
  BY <1>1 DEF ScanPoint
<1>6. k < Len(list) => EndsBefore(more, list[k + 1].start)
  BY <1>1, <1>3 DEF ScanPoint
<1>7. EndsBefore(more, s.start)
  BY <1>1, <1>3 DEF ScanPoint
<1>8. ASSUME NEW a \in Int, NEW b
      PROVE  Holds(more, a, b)
               <=> (pl /\ Has(s, a, b)) \/ (~Covers(s, a) /\ Prefix(list, k, a, b))
  BY <1>1, <1>2, <1>4, <1>5 DEF ScanPoint, Has
<1>9. Scanned(list, s, k, more, pl)
  BY <1>2, <1>3, <1>4, <1>6, <1>7, <1>8 DEF Scanned
<1>10. QED
  BY <1>9 DEF more

\* A segment behind the new one is kept, the new one placed before it once.
LEMMA ScanAfter ==
  ASSUME NEW list \in ListType, AllInSpace(list), Separated(list),
         NEW s, InSpace(s), NEW k \in 1..Len(list),
         NEW nx, NEW pl \in BOOLEAN, Scanned(list, s, k - 1, nx, pl),
         EndAddress(s) < list[k].start
  PROVE  Scanned(list, s, k, Append(PushIf(nx, ~pl, s), list[k]), TRUE)
<1> DEFINE mid == PushIf(nx, ~pl, s)
           more == Append(mid, list[k])
<1>1. ScanPoint(list, s, k, nx, pl)
  BY ScanFacts
<1>2. /\ mid \in ListType /\ AllInSpace(mid)
      /\ \A a \in Int : \A b : Holds(mid, a, b)
                           <=> Holds(nx, a, b) \/ (~pl /\ Has(s, a, b))
  BY <1>1, PushList DEF ScanPoint
<1>3. InOrder(mid) /\ EndsBefore(mid, list[k].start)
  <2>1. /\ EndsBefore(nx, list[k].start) /\ list[k].start \in Int
        /\ nx \in ListType /\ AllInSpace(nx) /\ InOrder(nx)
        /\ (~pl) \in BOOLEAN /\ (~pl => EndsBefore(nx, s.start))
    BY <1>1 DEF ScanPoint
  <2>2. QED
    BY <2>1, PushOrdered
<1> HIDE DEF mid
<1>4. /\ more \in ListType /\ AllInSpace(more)
      /\ \A a \in Int : \A b : Holds(more, a, b) <=> Holds(mid, a, b) \/ Has(list[k], a, b)
  BY <1>1, <1>2, AppendList DEF ScanPoint
<1>5. /\ InOrder(more)
      /\ \A c \in Int : EndAddress(list[k]) < c => EndsBefore(more, c)
  BY <1>1, <1>2, <1>3, AppendOrdered DEF ScanPoint
<1> HIDE DEF more
<1>6. k < Len(list) => /\ EndsBefore(more, list[k + 1].start)
                       /\ EndAddress(s) < list[k + 1].start
  BY <1>1, <1>5 DEF ScanPoint
<1>7. \A a \in Int : Covers(list[k], a) => ~Covers(s, a)
  <2>1. /\ EndAddress(s) \in Int /\ list[k].start \in Int
        /\ \A a \in Int : /\ Covers(list[k], a) => list[k].start <= a
                          /\ Covers(s, a) => a <= EndAddress(s)
    BY <1>1 DEF ScanPoint
  <2>2. QED
    BY <2>1
<1>8. ASSUME NEW a \in Int, NEW b
      PROVE  Holds(more, a, b)
               <=> Has(s, a, b) \/ (~Covers(s, a) /\ Prefix(list, k, a, b))
  <2>1. Holds(more, a, b) <=> \/ Holds(nx, a, b)
                              \/ ~pl /\ Has(s, a, b)
                              \/ Has(list[k], a, b)
    BY <1>2, <1>4
  <2>2. Has(list[k], a, b) => ~Covers(s, a)
    BY <1>7 DEF Has
  <2>3. QED
    BY <2>1, <2>2, <1>1 DEF ScanPoint
<1>9. Scanned(list, s, k, more, TRUE)
  BY <1>4, <1>5, <1>6, <1>8 DEF Scanned
<1>10. QED
  BY <1>9 DEF more, mid

\* What sticks out of a segment on either side of one it meets.
LEMMA ClipAround ==
  ASSUME NEW c, InSpace(c), NEW s, InSpace(s),
         EndAddress(c) >= s.start, c.start <= EndAddress(s)
  PROVE  /\ c.start < s.start =>
              LET before == Clip(c, c.start, s.start - 1)
              IN /\ InSpace(before) /\ before.start = c.start
                 /\ EndAddress(before) = s.start - 1
                 /\ \A a \in Int : \A b : Has(before, a, b)
                                     <=> a < s.start /\ Has(c, a, b)
         /\ EndAddress(c) > EndAddress(s) =>
              LET after == Clip(c, EndAddress(s) + 1, EndAddress(c))
              IN /\ InSpace(after) /\ after.start = EndAddress(s) + 1
                 /\ EndAddress(after) = EndAddress(c)
                 /\ \A a \in Int : \A b : Has(after, a, b)
                                     <=> EndAddress(s) < a /\ Has(c, a, b)
<1>1. /\ c.start \in Int /\ EndAddress(c) \in Int /\ c.start <= EndAddress(c)
      /\ s.start \in Int /\ EndAddress(s) \in Int /\ s.start <= EndAddress(s)
  BY SpanInSpace, MaxAddrAssumption DEF Addr
<1>2. \A a \in Int : \A b : Has(c, a, b) => c.start <= a /\ a <= EndAddress(c)
  BY SpanInSpace DEF Has
<1>3. ASSUME c.start < s.start
      PROVE  LET before == Clip(c, c.start, s.start - 1)
             IN /\ InSpace(before) /\ before.start = c.start
                /\ EndAddress(before) = s.start - 1
                /\ \A a \in Int : \A b : Has(before, a, b)
                                    <=> a < s.start /\ Has(c, a, b)
  <2>1. PICK hi \in Int : hi = s.start - 1
    BY <1>1
  <2>2. c.start <= c.start /\ c.start <= hi /\ hi <= EndAddress(c)
    BY <2>1, <1>1, <1>3
  <2>3. /\ InSpace(Clip(c, c.start, hi)) /\ Clip(c, c.start, hi).start = c.start
        /\ EndAddress(Clip(c, c.start, hi)) = hi
        /\ \A a \in Int : \A b : Has(Clip(c, c.start, hi), a, b)
                             <=> c.start <= a /\ a <= hi /\ Has(c, a, b)
    BY <2>2, <1>1, ClipInSpace
  <2>4. \A a \in Int : a <= hi <=> a < s.start
    BY <2>1, <1>1
  <2>5. QED
    BY <2>1, <2>3, <2>4, <1>2
<1>4. ASSUME EndAddress(c) > EndAddress(s)
      PROVE  LET after == Clip(c, EndAddress(s) + 1, EndAddress(c))
             IN /\ InSpace(after) /\ after.start = EndAddress(s) + 1
                /\ EndAddress(after) = EndAddress(c)
                /\ \A a \in Int : \A b : Has(after, a, b)
                                    <=> EndAddress(s) < a /\ Has(c, a, b)
  <2>1. PICK lo \in Int : lo = EndAddress(s) + 1
    BY <1>1
  <2>2. c.start <= lo /\ lo <= EndAddress(c) /\ EndAddress(c) <= EndAddress(c)
    BY <2>1, <1>1, <1>4
  <2>3. /\ InSpace(Clip(c, lo, EndAddress(c))) /\ Clip(c, lo, EndAddress(c)).start = lo
        /\ EndAddress(Clip(c, lo, EndAddress(c))) = EndAddress(c)
        /\ \A a \in Int : \A b : Has(Clip(c, lo, EndAddress(c)), a, b)
                             <=> lo <= a /\ a <= EndAddress(c) /\ Has(c, a, b)
    BY <2>2, <1>1, ClipInSpace
  <2>4. \A a \in Int : lo <= a <=> EndAddress(s) < a
    BY <2>1, <1>1
  <2>5. QED
    BY <2>1, <2>3, <2>4, <1>2
<1>5. QED
  BY <1>3, <1>4

\* A segment the new one covers leaves what sticks out on either side.
LEMMA ScanCover ==
  ASSUME NEW list \in ListType, AllInSpace(list), Separated(list),
         NEW s, InSpace(s), NEW k \in 1..Len(list),
         NEW nx, NEW pl \in BOOLEAN, Scanned(list, s, k - 1, nx, pl),
         EndAddress(list[k]) >= s.start, list[k].start <= EndAddress(s)
  PROVE  LET left  == list[k].start < s.start
             right == EndAddress(list[k]) > EndAddress(s)
             withLeft == PushIf(nx, left, Clip(list[k], list[k].start, s.start - 1))
             withSeg == PushIf(withLeft, right /\ ~pl, s)
         IN Scanned(list, s, k,
              PushIf(withSeg, right, Clip(list[k], EndAddress(s) + 1, EndAddress(list[k]))),
              pl \/ right)
<1>1. ScanPoint(list, s, k, nx, pl)
  BY ScanFacts
<1>2. PICK c : c = list[k]
  OBVIOUS
<1> DEFINE left  == c.start < s.start
           right == EndAddress(c) > EndAddress(s)
           before == Clip(c, c.start, s.start - 1)
           after == Clip(c, EndAddress(s) + 1, EndAddress(c))
           withLeft == PushIf(nx, left, before)
           withSeg == PushIf(withLeft, right, s)
           more == PushIf(withSeg, right, after)
<1>3. ~pl
  BY <1>1 DEF ScanPoint
<1>4. /\ InSpace(c) /\ InSpace(s)
      /\ c.start \in Int /\ EndAddress(c) \in Int /\ c.start <= EndAddress(c)
      /\ s.start \in Int /\ EndAddress(s) \in Int /\ s.start <= EndAddress(s)
      /\ EndAddress(c) >= s.start /\ c.start <= EndAddress(s)
      /\ nx \in ListType /\ AllInSpace(nx) /\ InOrder(nx)
      /\ EndsBefore(nx, c.start) /\ EndsBefore(nx, s.start)
  BY <1>1, <1>2, <1>3 DEF ScanPoint
<1>5. left => /\ InSpace(before) /\ before.start = c.start
              /\ EndAddress(before) = s.start - 1
              /\ \A a \in Int : \A b : Has(before, a, b) <=> a < s.start /\ Has(c, a, b)
  BY <1>4, ClipAround
<1>6. right => /\ InSpace(after) /\ after.start = EndAddress(s) + 1
               /\ EndAddress(after) = EndAddress(c)
               /\ \A a \in Int : \A b : Has(after, a, b) <=> EndAddress(s) < a /\ Has(c, a, b)
  BY <1>4, ClipAround
<1>7. left \in BOOLEAN /\ right \in BOOLEAN
  OBVIOUS
<1> HIDE DEF before, after
<1>8. /\ withLeft \in ListType /\ AllInSpace(withLeft) /\ InOrder(withLeft)
      /\ EndsBefore(withLeft, s.start)
      /\ \A a \in Int : \A b : Holds(withLeft, a, b)
                           <=> Holds(nx, a, b) \/ (left /\ Has(before, a, b))
  <2>1. left => EndAddress(before) < s.start /\ EndsBefore(nx, before.start)
    BY <1>4, <1>5
  <2>2. QED
    BY <2>1, <1>4, <1>5, <1>7, PushList, PushOrdered
<1> HIDE DEF withLeft
<1>9. /\ withSeg \in ListType /\ AllInSpace(withSeg) /\ InOrder(withSeg)
      /\ right => EndsBefore(withSeg, EndAddress(s) + 1)
      /\ ~right => EndsBefore(withSeg, s.start)
      /\ \A a \in Int : \A b : Holds(withSeg, a, b)
                           <=> Holds(withLeft, a, b) \/ (right /\ Has(s, a, b))
  <2>1. EndAddress(s) < EndAddress(s) + 1 /\ EndAddress(s) + 1 \in Int
    BY <1>4
  <2>2. QED
    BY <2>1, <1>4, <1>7, <1>8, PushList, PushOrdered
<1> HIDE DEF withSeg
<1>10. /\ more \in ListType /\ AllInSpace(more) /\ InOrder(more)
       /\ \A e \in Int : right /\ EndAddress(c) < e => EndsBefore(more, e)
       /\ ~right => EndsBefore(more, s.start)
       /\ \A a \in Int : \A b : Holds(more, a, b)
                            <=> Holds(withSeg, a, b) \/ (right /\ Has(after, a, b))
  BY <1>4, <1>6, <1>7, <1>9, PushList, PushOrdered
<1> HIDE DEF more
<1>11. ASSUME NEW a \in Int, NEW b
       PROVE  Holds(more, a, b)
                <=> (right /\ Has(s, a, b)) \/ (~Covers(s, a) /\ Prefix(list, k, a, b))
  <2>1. Prefix(list, k, a, b) <=> Prefix(list, k - 1, a, b) \/ Has(c, a, b)
    BY <1>1, <1>2 DEF ScanPoint
  <2>2. /\ Covers(c, a) <=> c.start <= a /\ a <= EndAddress(c)
        /\ Covers(s, a) <=> s.start <= a /\ a <= EndAddress(s)
    BY <1>4, SpanInSpace
  <2>3. ~Covers(s, a) /\ Has(c, a, b)
          <=> (left /\ Has(before, a, b)) \/ (right /\ Has(after, a, b))
    <3>1. Has(c, a, b) => c.start <= a /\ a <= EndAddress(c)
      BY <2>2 DEF Has
    <3>2. left /\ Has(before, a, b) <=> left /\ a < s.start /\ Has(c, a, b)
      BY <1>5
    <3>3. right /\ Has(after, a, b) <=> right /\ EndAddress(s) < a /\ Has(c, a, b)
      BY <1>6
    <3>4. QED
      BY <3>1, <3>2, <3>3, <2>2, <1>4 DEF left, right
  <2>4. Holds(nx, a, b) <=> ~Covers(s, a) /\ Prefix(list, k - 1, a, b)
    BY <1>1, <1>3 DEF ScanPoint
  <2>5. Holds(more, a, b) <=> \/ Holds(nx, a, b)
                              \/ left /\ Has(before, a, b)
                              \/ right /\ Has(s, a, b)
                              \/ right /\ Has(after, a, b)
    BY <1>8, <1>9, <1>10
  <2>6. QED
    BY <2>1, <2>3, <2>4, <2>5
<1>12. ASSUME k < Len(list)
       PROVE  /\ EndsBefore(more, list[k + 1].start)
              /\ right => EndAddress(s) < list[k + 1].start
  <2>1. PICK e \in Int : e = list[k + 1].start /\ EndAddress(c) < e
    BY <1>1, <1>2, <1>12 DEF ScanPoint
  <2>2. CASE right
    BY <2>1, <2>2, <1>4, <1>10 DEF right
  <2>3. CASE ~right
    <3> SUFFICES ASSUME NEW n \in 1..Len(more)
                 PROVE  EndAddress(more[n]) < e
      BY <2>1, <2>3 DEF EndsBefore
    <3>1. EndAddress(more[n]) < s.start
      BY <2>3, <1>10 DEF EndsBefore
    <3>2. EndAddress(more[n]) \in Int
      BY <1>10, SpanInSpace, MaxAddrAssumption DEF AllInSpace, Addr
    <3>3. QED
      BY <3>1, <3>2, <2>1, <1>4
  <2>4. QED
    BY <2>2, <2>3
<1>13. Scanned(list, s, k, more, right)
  BY <1>7, <1>10, <1>11, <1>12 DEF Scanned
<1>14. (pl \/ right) = right /\ (right /\ ~pl) = right
  BY <1>3, <1>7
<1>15. QED
  BY <1>2, <1>13, <1>14 DEF more, withSeg, withLeft, before, after, left, right

\* The scan starts with nothing kept and the new segment unplaced.
LEMMA ScanNothing ==
  ASSUME NEW list, NEW s
  PROVE  Scanned(list, s, 0, <<>>, FALSE)
<1>1. /\ InOrder(<<>>)
      /\ \A c : EndsBefore(<<>>, c)
      /\ \A a, b : ~Holds(<<>>, a, b) /\ ~Prefix(list, 0, a, b)
  BY EmptySeq DEF InOrder, EndsBefore, Holds, Prefix
<1>2. QED
  BY <1>1, EmptyList DEF Scanned

\* At its end the new segment lies in the list exactly once, over the old ones.
LEMMA ScanEnds ==
  ASSUME NEW list \in ListType, NEW s, InSpace(s),
         NEW nx, NEW pl \in BOOLEAN, Scanned(list, s, Len(list), nx, pl)
  PROVE  LET more == PushIf(nx, ~pl, s)
         IN /\ more \in ListType /\ AllInSpace(more) /\ InOrder(more)
            /\ \A a \in Int : \A b : Holds(more, a, b)
                 <=> Has(s, a, b) \/ (~Covers(s, a) /\ Holds(list, a, b))
<1>1. /\ nx \in ListType /\ AllInSpace(nx) /\ InOrder(nx) /\ pl \in BOOLEAN
      /\ ~pl => EndsBefore(nx, s.start)
      /\ \A a \in Int : \A b : Holds(nx, a, b)
           <=> (pl /\ Has(s, a, b)) \/ (~Covers(s, a) /\ Prefix(list, Len(list), a, b))
  BY DEF Scanned
<1>2. \A a, b : Prefix(list, Len(list), a, b) <=> Holds(list, a, b)
  BY DEF Prefix, Holds
<1>3. QED
  BY <1>1, <1>2, PushList, PushOrdered

-----------------------------------------------------------------------------
(* merge_adjacent_segments: one iteration of its loop *)

\* What the join has made of the first k segments of the list.
Joined(list, k, done) ==
  /\ done \in ListType /\ AllInSpace(done) /\ Separated(done)
  /\ k < Len(list) => EndsBefore(done, list[k + 1].start)
  /\ \A a \in Int : \A b : Holds(done, a, b) <=> Prefix(list, k, a, b)

LEMMA JoinNothing ==
  ASSUME NEW list
  PROVE  Joined(list, 0, <<>>)
<1>1. /\ Separated(<<>>)
      /\ \A c : EndsBefore(<<>>, c)
      /\ \A a, b : ~Holds(<<>>, a, b) /\ ~Prefix(list, 0, a, b)
  BY EmptySeq DEF Separated, EndsBefore, Holds, Prefix
<1>2. QED
  BY <1>1, EmptyList DEF Joined

\* A separated list is ordered.
LEMMA SeparatedOrdered ==
  ASSUME NEW list, AllInSpace(list), Separated(list)
  PROVE  InOrder(list)
<1> SUFFICES ASSUME NEW m \in 1..Len(list), NEW n \in 1..Len(list), m < n
             PROVE  EndAddress(list[m]) < list[n].start
  BY DEF InOrder
<1>1. EndAddress(list[m]) + 1 < list[n].start
  BY DEF Separated
<1>2. list[n].start \in Int /\ EndAddress(list[m]) \in Int
  BY SpanInSpace, MaxAddrAssumption DEF AllInSpace, Addr
<1>3. QED
  BY <1>1, <1>2

\* The next segment is joined to the last one it touches, or pushed.
LEMMA JoinStep ==
  ASSUME NEW list \in ListType, AllInSpace(list), InOrder(list),
         NEW k \in 1..Len(list), NEW done, Joined(list, k - 1, done)
  PROVE  Joined(list, k,
           IF done # <<>> /\ IsContiguousWith(done[Len(done)], list[k])
             THEN [done EXCEPT ![Len(done)] = Join(done[Len(done)], list[k])]
             ELSE Append(done, list[k]))
<1>1. PICK x : x = list[k]
  OBVIOUS
<1> DEFINE joins == done # <<>> /\ IsContiguousWith(done[Len(done)], x)
           more == IF joins THEN [done EXCEPT ![Len(done)] = Join(done[Len(done)], x)]
                            ELSE Append(done, x)
<1>2. /\ Len(list) \in Nat /\ k \in Nat /\ k - 1 \in Nat /\ (k - 1) + 1 = k
      /\ k - 1 < Len(list)
  BY LenProperties DEF ListType
<1>3. /\ InSpace(x)
      /\ done \in ListType /\ AllInSpace(done) /\ Separated(done)
      /\ EndsBefore(done, x.start)
  BY <1>1, <1>2 DEF AllInSpace, Joined
<1>4. Len(done) \in Nat
  BY <1>3, LenProperties DEF ListType
<1>5. /\ EndAddress(x) \in Int /\ x.start \in Int /\ x.start <= EndAddress(x)
      /\ x.start <= MaxAddr
      /\ \A n \in 1..Len(done) : EndAddress(done[n]) \in Addr
  BY <1>3, SpanInSpace, MaxAddrAssumption DEF AllInSpace, Addr
<1>6. /\ more \in ListType /\ AllInSpace(more) /\ Separated(more)
      /\ \A c \in Int : EndAddress(x) < c => EndsBefore(more, c)
      /\ \A a \in Int : \A b : Holds(more, a, b) <=> Holds(done, a, b) \/ Has(x, a, b)
  <2>1. CASE joins
    BY <2>1, <1>3, JoinLast
  <2>2. CASE ~joins
    <3>1. ASSUME NEW n \in 1..Len(done)
          PROVE  EndAddress(done[n]) + 1 < x.start
      <4>1. CASE n = Len(done)
        <5>1. done # <<>>
          BY <4>1, <1>4, EmptySeq
        <5>2. ~(EndAddress(done[n]) < MaxAddr /\ x.start = EndAddress(done[n]) + 1)
          BY <5>1, <4>1, <2>2 DEF IsContiguousWith
        <5>3. EndAddress(done[n]) < x.start
          BY <1>3 DEF EndsBefore
        <5>4. QED
          BY <5>2, <5>3, <1>5, MaxAddrAssumption DEF Addr
      <4>2. CASE n < Len(done)
        <5>1. Len(done) \in 1..Len(done)
          BY <4>2, <1>4
        <5>2. EndAddress(done[n]) + 1 < done[Len(done)].start
          BY <5>1, <4>2, <1>3 DEF Separated
        <5>3. InSpace(done[Len(done)]) /\ EndAddress(done[Len(done)]) < x.start
          BY <5>1, <1>3 DEF AllInSpace, EndsBefore
        <5>4. /\ done[Len(done)].start \in Int /\ EndAddress(done[Len(done)]) \in Int
              /\ done[Len(done)].start <= EndAddress(done[Len(done)])
          BY <5>3, SpanInSpace, MaxAddrAssumption DEF Addr
        <5>5. EndAddress(done[n]) \in Int
          BY <1>5, MaxAddrAssumption DEF Addr
        <5>6. QED
          BY <5>2, <5>3, <5>4, <5>5, <1>5
      <4>3. QED
        BY <4>1, <4>2, <1>4
    <3>2. Separated(Append(done, x))
      BY <3>1, <1>3, AppendSeparated
    <3>3. \A c \in Int : EndAddress(x) < c => EndsBefore(Append(done, x), c)
      BY <1>3, SeparatedOrdered, AppendOrdered
    <3>4. QED
      BY <3>2, <3>3, <2>2, <1>3, AppendList
  <2>3. QED
    BY <2>1, <2>2
<1> HIDE DEF more
<1>7. k < Len(list) => EndsBefore(more, list[k + 1].start)
  <2> SUFFICES ASSUME k < Len(list)
               PROVE  EndsBefore(more, list[k + 1].start)
    OBVIOUS
  <2>1. k + 1 \in 1..Len(list) /\ k < k + 1
    BY <1>2
  <2>2. EndAddress(x) < list[k + 1].start
    BY <2>1, <1>1 DEF InOrder
  <2>3. list[k + 1].start \in Int
    BY <2>1, SpanInSpace, MaxAddrAssumption DEF AllInSpace, Addr
  <2>4. QED
    BY <2>2, <2>3, <1>6
<1>8. ASSUME NEW a \in Int, NEW b
      PROVE  Holds(more, a, b) <=> Prefix(list, k, a, b)
  <2>1. Prefix(list, k, a, b) <=> Prefix(list, k - 1, a, b) \/ Has(x, a, b)
    <3>1. Prefix(list, (k - 1) + 1, a, b)
            <=> Prefix(list, k - 1, a, b) \/ Has(list[(k - 1) + 1], a, b)
      BY <1>2, PrefixStep
    <3>2. QED
      BY <3>1, <1>1, <1>2
  <2>2. Holds(done, a, b) <=> Prefix(list, k - 1, a, b)
    BY DEF Joined
  <2>3. QED
    BY <2>1, <2>2, <1>6
<1>9. Joined(list, k, more)
  BY <1>6, <1>7, <1>8 DEF Joined
<1>10. QED
  BY <1>1, <1>9 DEF more

-----------------------------------------------------------------------------
(* merge_adjacent_segments and overlay_segment as folds *)

\* AbsorbSegment is one iteration of merge_adjacent_segments.
LEMMA AbsorbStep ==
  ASSUME NEW done \in ListType, NEW s \in SegRecord
  PROVE  /\ AbsorbSegment(done, s) \in ListType
         /\ AbsorbSegment(done, s) =
              IF done # <<>> /\ IsContiguousWith(done[Len(done)], s)
                THEN [done EXCEPT ![Len(done)] = Join(done[Len(done)], s)]
                ELSE Append(done, s)
<1>1. done \in Seq(SegRecord) /\ Append(done, s) \in Seq(SegRecord)
  BY AppendProperties DEF ListType, SegRecord
<1>2. ASSUME done # <<>>
      PROVE  /\ Append(Front(done), Join(Last(done), s)) \in Seq(SegRecord)
             /\ Append(Front(done), Join(Last(done), s))
                  = [done EXCEPT ![Len(done)] = Join(done[Len(done)], s)]
             /\ Last(done) = done[Len(done)]
  <2>1. Last(done) = done[Len(done)] /\ Last(done) \in SegRecord
    BY <1>1, <1>2, ReplaceLast
  <2>2. Join(Last(done), s) \in SegRecord
    BY <2>1, ConcatProperties DEF Join, SegRecord
  <2>3. QED
    BY <1>1, <1>2, <2>1, <2>2, ReplaceLast
<1>3. QED
  BY <1>1, <1>2 DEF AbsorbSegment, ListType, SegRecord

\* What the segments of each prefix are joined to.
IsMergeRun(acc, list) ==
  /\ \A k \in 0..Len(list) : acc[k] \in ListType
  /\ acc[0] = <<>>
  /\ \A k \in 1..Len(list) : acc[k] = AbsorbSegment(acc[k - 1], list[k])
  /\ MergeAdjacent(list) = acc[Len(list)]

LEMMA MergeRun ==
  ASSUME NEW list \in ListType
  PROVE  \E acc : IsMergeRun(acc, list)
<1> DEFINE n == Len(list)
           A == ListType
           F == [p \in A \X (1..n) |-> AbsorbSegment(p[1], list[p[2]])]
           E(g) == g = [s \in SUBSET (1..n) |->
                     IF s = {} THEN <<>>
                     ELSE LET x == Max(s) IN AbsorbSegment(g[s \ {x}], list[x])]
           g == CHOOSE h : E(h)
<1>1. DOMAIN list = 1..n /\ n \in Nat /\ \A k \in 1..n : list[k] \in SegRecord
  BY LenProperties, ElementOfSeq DEF ListType, SegRecord
<1>2. MergeAdjacent(list) = g[1..n]
  BY <1>1, Zenon DEF MergeAdjacent, FoldLeft, MapThenFoldSet
<1>3. IsStep(F, n, A) /\ <<>> \in A
  <2>1. \A l \in A, k \in 1..n : AbsorbSegment(l, list[k]) \in A
    BY <1>1, AbsorbStep
  <2>2. <<>> \in A
    BY EmptyList
  <2> HIDE DEF A
  <2>3. QED
    BY <2>1, <2>2 DEF IsStep
<1>4. \A s \in SUBSET (1..n) : s # {} => Max(s) \in 1..n /\ s \ {Max(s)} \in SUBSET (1..n)
  BY <1>1, MaxUpTo
<1>5. \A k \in 1..n, y \in A : F[<<y, k>>] = AbsorbSegment(y, list[k])
  OBVIOUS
<1> HIDE DEF n, A, F
<1>6. \E h : E(h)
  <2>1. PICK h \in [SUBSET (1..n) -> A] : Folds(h, n, <<>>, F)
    BY <1>1, <1>3, FoldExists
  <2>2. \A s \in SUBSET (1..n) : s # {} =>
          h[s] = AbsorbSegment(h[s \ {Max(s)}], list[Max(s)])
    BY <2>1, <1>4, <1>5 DEF Folds
  <2>3. E(h)
    BY <2>1, <2>2 DEF Folds
  <2>4. QED
    BY <2>3, Zenon
<1>7. E(g)
  <2> HIDE DEF E
  <2>1. QED
    BY <1>6, Zenon
<1> HIDE DEF g
<1>8. FoldsWithin(g, n, A, <<>>, F)
  BY <1>4, <1>5, <1>7 DEF FoldsWithin
<1> HIDE DEF E
<1>9. PICK acc : IsRun(acc, n, A, <<>>, F) /\ g[1..n] = acc[n]
  BY <1>1, <1>3, <1>8, FoldRun
<1>10. \A k \in 1..n : acc[k] = AbsorbSegment(acc[k - 1], list[k])
  <2> SUFFICES ASSUME NEW k \in 1..n
               PROVE  acc[k] = F[<<acc[k - 1], k>>] /\ acc[k - 1] \in A
    BY <1>5
  <2>1. k - 1 \in 0..n
    BY <1>1
  <2>2. QED
    BY <2>1, <1>9 DEF IsRun
<1>11. QED
  BY <1>2, <1>9, <1>10 DEF IsRun, IsMergeRun, n, A

\* Merging an ordered list leaves a gap between any two segments and the
\* bytes where they are.
LEMMA MergeAdjacentJoins ==
  ASSUME NEW list \in ListType, AllInSpace(list), InOrder(list)
  PROVE  Joined(list, Len(list), MergeAdjacent(list))
<1>1. PICK acc : IsMergeRun(acc, list)
  BY MergeRun
<1> DEFINE n == Len(list)
           T == {k \in 0..n : Joined(list, k, acc[k])}
<1>2. n \in Nat /\ \A k \in 1..n : list[k] \in SegRecord
  BY LenProperties, ElementOfSeq DEF ListType, SegRecord
<1>3. 0 \in T
  <2>1. acc[0] = <<>>
    BY <1>1 DEF IsMergeRun
  <2>2. QED
    BY <2>1, <1>2, JoinNothing
<1>4. ASSUME NEW k \in 0..(n - 1), k \in T
      PROVE  k + 1 \in T
  <2>1. k + 1 \in 1..n /\ (k + 1) - 1 = k /\ k \in 0..n /\ k + 1 \in 0..n
    BY <1>2
  <2>2. PICK done \in ListType, m \in 1..Len(list) : done = acc[k] /\ m = k + 1
    BY <2>1, <1>1 DEF IsMergeRun
  <2>3. Joined(list, m - 1, done)
    BY <2>1, <2>2, <1>4
  <2>4. acc[k + 1] = AbsorbSegment(done, list[m])
    BY <2>1, <2>2, <1>1 DEF IsMergeRun
  <2>5. Joined(list, m, AbsorbSegment(done, list[m]))
    <3>1. AbsorbSegment(done, list[m]) =
            IF done # <<>> /\ IsContiguousWith(done[Len(done)], list[m])
              THEN [done EXCEPT ![Len(done)] = Join(done[Len(done)], list[m])]
              ELSE Append(done, list[m])
      BY <1>2, AbsorbStep
    <3>2. QED
      BY <2>3, <3>1, JoinStep
  <2>6. QED
    BY <2>1, <2>2, <2>4, <2>5
<1>5. n \in T
  <2> HIDE DEF T, n
  <2>1. \A k \in 0..n : k \in T
    BY <1>2, <1>3, <1>4, InductionUpTo
  <2>2. n \in 0..n
    BY <1>2
  <2>3. QED
    BY <2>1, <2>2
<1>6. QED
  BY <1>1, <1>5 DEF IsMergeRun

\* The states of the scan.
ScanType == [next : ListType, placed : BOOLEAN]

LEMMA OverlayStepType ==
  ASSUME NEW acc \in ScanType, NEW c, InSpace(c), NEW s, InSpace(s)
  PROVE  OverlayStep(acc, c, s) \in ScanType
<1> DEFINE left  == c.start < s.start
           right == EndAddress(c) > EndAddress(s)
           before == Clip(c, c.start, s.start - 1)
           after == Clip(c, EndAddress(s) + 1, EndAddress(c))
           withLeft == PushIf(acc.next, left, before)
           withSeg == PushIf(withLeft, right /\ ~acc.placed, s)
<1>1. PICK nx \in ListType, pl \in BOOLEAN : acc = [next |-> nx, placed |-> pl]
  BY DEF ScanType
<1>2. \A l \in ListType : \A x : InSpace(x) => Append(l, x) \in ListType
  BY AppendProperties DEF ListType, InSpace
<1>3. CASE EndAddress(c) < s.start
  <2>1. OverlayStep(acc, c, s) = [next |-> Append(acc.next, c), placed |-> acc.placed]
    BY <1>3 DEF OverlayStep
  <2>2. Append(nx, c) \in ListType
    BY <1>2
  <2>3. QED
    BY <2>1, <2>2, <1>1 DEF ScanType
<1>4. CASE ~(EndAddress(c) < s.start) /\ c.start > EndAddress(s)
  <2>1. OverlayStep(acc, c, s) =
          [next |-> Append(PushIf(nx, ~pl, s), c), placed |-> TRUE]
    BY <1>1, <1>4 DEF OverlayStep
  <2>2. PushIf(nx, ~pl, s) \in ListType
    BY <1>2 DEF PushIf
  <2>3. QED
    BY <2>1, <2>2, <1>2 DEF ScanType
<1>5. CASE ~(EndAddress(c) < s.start) /\ ~(c.start > EndAddress(s))
  <2>1. OverlayStep(acc, c, s) =
          [next |-> PushIf(withSeg, right, after), placed |-> pl \/ right]
    BY <1>1, <1>5 DEF OverlayStep
  <2>2. EndAddress(c) >= s.start /\ c.start <= EndAddress(s)
    BY <1>5, SpanInSpace, MaxAddrAssumption DEF Addr
  <2>3. (left => InSpace(before)) /\ (right => InSpace(after))
    BY <2>2, ClipAround
  <2> HIDE DEF before, after
  <2>4. withLeft \in ListType
    BY <2>3, <1>1, <1>2 DEF PushIf
  <2> HIDE DEF withLeft
  <2>5. withSeg \in ListType
    BY <2>4, <1>2 DEF PushIf
  <2> HIDE DEF withSeg
  <2>6. PushIf(withSeg, right, after) \in ListType
    BY <2>3, <2>5, <1>2 DEF PushIf
  <2>7. QED
    BY <2>1, <2>6 DEF ScanType
<1>6. QED
  BY <1>3, <1>4, <1>5

\* One iteration of overlay_segment, in each of its three cases.
LEMMA ScanNext ==
  ASSUME NEW list \in ListType, AllInSpace(list), Separated(list),
         NEW s, InSpace(s), NEW k \in 1..Len(list),
         NEW acc \in ScanType, Scanned(list, s, k - 1, acc.next, acc.placed),
         NEW more, more = OverlayStep(acc, list[k], s)
  PROVE  Scanned(list, s, k, more.next, more.placed)
<1>1. PICK nx \in ListType, pl \in BOOLEAN : acc = [next |-> nx, placed |-> pl]
  BY DEF ScanType
<1>2. /\ nx \in ListType /\ pl \in BOOLEAN /\ acc.next = nx /\ acc.placed = pl
      /\ Scanned(list, s, k - 1, nx, pl)
  BY <1>1
<1>3. /\ EndAddress(list[k]) \in Int /\ list[k].start \in Int
      /\ s.start \in Int /\ EndAddress(s) \in Int
  BY SpanInSpace, MaxAddrAssumption DEF AllInSpace, Addr
<1>4. CASE EndAddress(list[k]) < s.start
  <2>1. more = [next |-> Append(acc.next, list[k]), placed |-> acc.placed]
    BY <1>4 DEF OverlayStep
  <2>2. Scanned(list, s, k, Append(acc.next, list[k]), acc.placed)
    BY <1>2, <1>4, ScanBefore
  <2>3. more.next = Append(acc.next, list[k]) /\ more.placed = acc.placed
    BY <2>1
  <2>4. QED
    BY <2>2, <2>3, Zenon
<1>5. CASE ~(EndAddress(list[k]) < s.start) /\ list[k].start > EndAddress(s)
  <2>1. more = [next |-> Append(PushIf(nx, ~pl, s), list[k]), placed |-> TRUE]
    BY <1>1, <1>5 DEF OverlayStep
  <2>2. EndAddress(s) < list[k].start
    BY <1>3, <1>5
  <2>3. Scanned(list, s, k, Append(PushIf(nx, ~pl, s), list[k]), TRUE)
    BY <2>2, <1>2, ScanAfter
  <2>4. more.next = Append(PushIf(nx, ~pl, s), list[k]) /\ more.placed = TRUE
    BY <2>1
  <2>5. QED
    BY <2>3, <2>4, Zenon
<1>6. CASE ~(EndAddress(list[k]) < s.start) /\ ~(list[k].start > EndAddress(s))
  <2> DEFINE left  == list[k].start < s.start
             right == EndAddress(list[k]) > EndAddress(s)
             withLeft == PushIf(nx, left, Clip(list[k], list[k].start, s.start - 1))
             withSeg == PushIf(withLeft, right /\ ~pl, s)
             all == PushIf(withSeg, right,
                      Clip(list[k], EndAddress(s) + 1, EndAddress(list[k])))
  <2>1. more = [next |-> all, placed |-> pl \/ right]
    BY <1>1, <1>6 DEF OverlayStep
  <2>2. EndAddress(list[k]) >= s.start /\ list[k].start <= EndAddress(s)
    BY <1>3, <1>6
  <2>3. Scanned(list, s, k, all, pl \/ right)
    BY <2>2, <1>2, ScanCover
  <2> HIDE DEF all
  <2>4. QED
    BY <2>1, <2>3
<1>7. QED
  BY <1>4, <1>5, <1>6

\* What the scan has made of each prefix of the list.
IsOverlayRun(acc, list, s, scanned) ==
  /\ \A k \in 0..Len(list) : acc[k] \in ScanType
  /\ acc[0] = [next |-> <<>>, placed |-> FALSE]
  /\ \A k \in 1..Len(list) : acc[k] = OverlayStep(acc[k - 1], list[k], s)
  /\ scanned = acc[Len(list)]

LEMMA OverlayRun ==
  ASSUME NEW list \in ListType, AllInSpace(list), NEW s, InSpace(s)
  PROVE  \E acc : IsOverlayRun(acc, list, s, Scan(list, s))
<1> DEFINE n == Len(list)
           A == ScanType
           base == [next |-> <<>>, placed |-> FALSE]
           F == [p \in A \X (1..n) |-> OverlayStep(p[1], list[p[2]], s)]
           E(g) == g = [r \in SUBSET (1..n) |->
                     IF r = {} THEN base
                     ELSE LET x == Max(r) IN OverlayStep(g[r \ {x}], list[x], s)]
           g == CHOOSE h : E(h)
<1>1. DOMAIN list = 1..n /\ n \in Nat
  BY LenProperties DEF ListType
<1>2. Scan(list, s) = g[1..n]
  BY <1>1, Zenon DEF Scan, FoldLeft, MapThenFoldSet
<1>3. IsStep(F, n, A) /\ base \in A
  <2>1. \A a \in A, k \in 1..n : OverlayStep(a, list[k], s) \in A
    BY OverlayStepType DEF AllInSpace
  <2>2. base \in A
    BY EmptyList DEF ScanType
  <2> HIDE DEF A
  <2>3. QED
    BY <2>1, <2>2 DEF IsStep
<1>4. \A r \in SUBSET (1..n) : r # {} => Max(r) \in 1..n /\ r \ {Max(r)} \in SUBSET (1..n)
  BY <1>1, MaxUpTo
<1>5. \A k \in 1..n, y \in A : F[<<y, k>>] = OverlayStep(y, list[k], s)
  OBVIOUS
<1> HIDE DEF n, A, F, base
<1>6. \E h : E(h)
  <2>1. PICK h \in [SUBSET (1..n) -> A] : Folds(h, n, base, F)
    BY <1>1, <1>3, FoldExists
  <2>2. \A r \in SUBSET (1..n) : r # {} =>
          h[r] = OverlayStep(h[r \ {Max(r)}], list[Max(r)], s)
    BY <2>1, <1>4, <1>5 DEF Folds
  <2>3. E(h)
    BY <2>1, <2>2 DEF Folds
  <2>4. QED
    BY <2>3, Zenon
<1>7. E(g)
  <2> HIDE DEF E
  <2>1. QED
    BY <1>6, Zenon
<1> HIDE DEF g
<1>8. FoldsWithin(g, n, A, base, F)
  BY <1>4, <1>5, <1>7 DEF FoldsWithin
<1> HIDE DEF E
<1>9. PICK acc : IsRun(acc, n, A, base, F) /\ g[1..n] = acc[n]
  BY <1>1, <1>3, <1>8, FoldRun
<1>10. \A k \in 1..n : acc[k] = OverlayStep(acc[k - 1], list[k], s)
  <2> SUFFICES ASSUME NEW k \in 1..n
               PROVE  acc[k] = F[<<acc[k - 1], k>>] /\ acc[k - 1] \in A
    BY <1>5
  <2>1. k - 1 \in 0..n
    BY <1>1
  <2>2. QED
    BY <2>1, <1>9 DEF IsRun
<1>11. IsOverlayRun(acc, list, s, g[1..n])
  BY <1>9, <1>10 DEF IsRun, IsOverlayRun, n, A, base
<1>12. QED
  BY <1>2, <1>11 DEF base

\* A list without touching neighbours, and what it reads as with s over it.
LEMMA OverlayReads ==
  ASSUME NEW list \in ListType, AllInSpace(list), Separated(list), NEW s, InSpace(s)
  PROVE  LET over == OverlaySegment(list, s)
         IN /\ over \in ListType /\ AllInSpace(over) /\ Separated(over)
            /\ \A a \in Int : \A b : Holds(over, a, b)
                 <=> Has(s, a, b) \/ (~Covers(s, a) /\ Holds(list, a, b))
<1> DEFINE over == OverlaySegment(list, s)
           scanned == Scan(list, s)
<1>1. CASE list = <<>>
  <2>1. over = Append(<<>>, s)
    BY <1>1 DEF OverlaySegment
  <2>2. /\ Append(<<>>, s) \in ListType /\ AllInSpace(Append(<<>>, s))
        /\ \A a \in Int : \A b : Holds(Append(<<>>, s), a, b)
                             <=> Holds(<<>>, a, b) \/ Has(s, a, b)
    BY EmptyList, AppendList
  <2>3. Separated(Append(<<>>, s))
    <3>1. Separated(<<>>) /\ Len(<<>>) = 0
      BY EmptySeq DEF Separated
    <3>2. \A n \in 1..Len(<<>>) : EndAddress(<<>>[n]) + 1 < s.start
      BY <3>1
    <3>3. QED
      BY <3>1, <3>2, EmptyList, AppendSeparated
  <2>4. \A a, b : ~Holds(<<>>, a, b)
    BY EmptySeq DEF Holds
  <2> HIDE DEF over
  <2>5. QED
    BY <2>1, <2>2, <2>3, <2>4, <1>1 DEF over
<1>2. CASE list # <<>>
  <2>1. over = MergeAdjacent(PushIf(scanned.next, ~scanned.placed, s))
    BY <1>2 DEF OverlaySegment
  <2>2. PICK acc : IsOverlayRun(acc, list, s, scanned)
    BY OverlayRun
  <2> HIDE DEF over, scanned
  <2> DEFINE n == Len(list)
             T == {k \in 0..n : Scanned(list, s, k, acc[k].next, acc[k].placed)}
  <2>3. n \in Nat
    BY LenProperties DEF ListType
  <2>4. 0 \in T
    <3>1. acc[0] = [next |-> <<>>, placed |-> FALSE]
      BY <2>2 DEF IsOverlayRun
    <3>2. Scanned(list, s, 0, <<>>, FALSE)
      BY ScanNothing
    <3>3. acc[0].next = <<>> /\ acc[0].placed = FALSE
      BY <3>1
    <3>4. Scanned(list, s, 0, acc[0].next, acc[0].placed)
      BY <3>2, <3>3, Zenon
    <3>5. QED
      BY <3>4, <2>3
  <2>5. ASSUME NEW k \in 0..(n - 1), k \in T
        PROVE  k + 1 \in T
    <3>1. k + 1 \in 1..n /\ (k + 1) - 1 = k /\ k \in 0..n /\ k + 1 \in 0..n
      BY <2>3
    <3>2. PICK m, prev, more : /\ m \in 1..Len(list) /\ prev \in ScanType
                              /\ m = k + 1 /\ prev = acc[k] /\ more = acc[k + 1]
      BY <3>1, <2>2 DEF IsOverlayRun
    <3>3. Scanned(list, s, m - 1, prev.next, prev.placed)
      BY <3>1, <3>2, <2>5
    <3>4. more = OverlayStep(prev, list[m], s)
      BY <3>1, <3>2, <2>2 DEF IsOverlayRun
    <3>5. Scanned(list, s, m, more.next, more.placed)
      BY <3>2, <3>3, <3>4, ScanNext
    <3>6. QED
      BY <3>1, <3>2, <3>5
  <2>6. n \in T
    <3> HIDE DEF T, n
    <3>1. \A k \in 0..n : k \in T
      BY <2>3, <2>4, <2>5, InductionUpTo
    <3>2. n \in 0..n
      BY <2>3
    <3>3. QED
      BY <3>1, <3>2
  <2>7. PICK nx, pl : /\ nx = scanned.next /\ pl = scanned.placed
                     /\ pl \in BOOLEAN /\ Scanned(list, s, Len(list), nx, pl)
    <3>1. scanned = acc[n] /\ Scanned(list, s, n, acc[n].next, acc[n].placed)
      BY <2>2, <2>6 DEF IsOverlayRun
    <3>2. scanned.placed \in BOOLEAN
      BY <3>1 DEF Scanned
    <3>3. QED
      BY <3>1, <3>2, Zenon
  <2>8. PICK all : all = PushIf(nx, ~pl, s)
    OBVIOUS
  <2>9. /\ all \in ListType /\ AllInSpace(all) /\ InOrder(all)
        /\ \A a \in Int : \A b : Holds(all, a, b)
             <=> Has(s, a, b) \/ (~Covers(s, a) /\ Holds(list, a, b))
    BY <2>7, <2>8, ScanEnds
  <2>10. over = MergeAdjacent(all)
    BY <2>1, <2>7, <2>8
  <2>11. Joined(all, Len(all), over)
    BY <2>9, <2>10, MergeAdjacentJoins
  <2>12. \A a, b : Prefix(all, Len(all), a, b) <=> Holds(all, a, b)
    BY DEF Prefix, Holds
  <2>13. QED
    BY <2>9, <2>11, <2>12 DEF Joined, over
<1>3. QED
  BY <1>1, <1>2

-----------------------------------------------------------------------------
(* normalized() *)

\* One more insertion: the new segment wins where it covers.
LEMMA LastWinsStep ==
  ASSUME NEW list, NEW n \in Nat, NEW a, NEW b
  PROVE  LastWins(list, n + 1, a, b)
           <=> \/ Has(list[n + 1], a, b)
               \/ ~Covers(list[n + 1], a) /\ LastWins(list, n, a, b)
<1>1. \A m \in 1..(n + 1) : m \in 1..n \/ m = n + 1
  OBVIOUS
<1>2. \A m \in 1..n : n + 1 \in (m + 1)..(n + 1) /\ m \in 1..(n + 1)
  OBVIOUS
<1>3. \A m \in 1..n, l \in Int : l \in (m + 1)..(n + 1) <=> l \in (m + 1)..n \/ l = n + 1
  OBVIOUS
<1>4. \A l \in Int : l \notin ((n + 1) + 1)..(n + 1)
  OBVIOUS
<1>5. n + 1 \in 1..(n + 1)
  OBVIOUS
<1>6. ASSUME LastWins(list, n + 1, a, b)
      PROVE  \/ Has(list[n + 1], a, b)
             \/ ~Covers(list[n + 1], a) /\ LastWins(list, n, a, b)
  <2>1. PICK m \in 1..(n + 1) :
          /\ Has(list[m], a, b)
          /\ \A l \in (m + 1)..(n + 1) : ~Covers(list[l], a)
    BY <1>6 DEF LastWins
  <2>2. CASE m \in 1..n
    <3>1. ~Covers(list[n + 1], a)
      BY <2>1, <2>2, <1>2
    <3>2. \A l \in (m + 1)..n : ~Covers(list[l], a)
      BY <2>1, <2>2, <1>3
    <3>3. QED
      BY <3>1, <3>2, <2>1, <2>2 DEF LastWins
  <2>3. QED
    BY <2>1, <2>2, <1>1
<1>7. ASSUME Has(list[n + 1], a, b)
      PROVE  LastWins(list, n + 1, a, b)
  BY <1>4, <1>5, <1>7 DEF LastWins
<1>8. ASSUME ~Covers(list[n + 1], a), LastWins(list, n, a, b)
      PROVE  LastWins(list, n + 1, a, b)
  <2>1. PICK m \in 1..n :
          /\ Has(list[m], a, b)
          /\ \A l \in (m + 1)..n : ~Covers(list[l], a)
    BY <1>8 DEF LastWins
  <2>2. \A l \in (m + 1)..(n + 1) : ~Covers(list[l], a)
    BY <2>1, <1>3, <1>8
  <2>3. QED
    BY <2>1, <2>2, <1>2 DEF LastWins
<1>9. QED
  BY <1>6, <1>7, <1>8

\* The lists that overlay_segment makes.
SeparatedLists == {l \in ListType : AllInSpace(l) /\ Separated(l)}

\* What has been made of each prefix of the raw list.
IsOverlaysRun(acc, list) ==
  /\ \A k \in 0..Len(list) : acc[k] \in SeparatedLists
  /\ acc[0] = <<>>
  /\ \A k \in 1..Len(list) : acc[k] = OverlaySegment(acc[k - 1], list[k])
  /\ FoldLeft(OverlaySegment, <<>>, list) = acc[Len(list)]

LEMMA OverlaysRun ==
  ASSUME NEW list \in ListType, AllInSpace(list)
  PROVE  \E acc : IsOverlaysRun(acc, list)
<1> DEFINE n == Len(list)
           A == SeparatedLists
           F == [p \in A \X (1..n) |-> OverlaySegment(p[1], list[p[2]])]
           E(g) == g = [r \in SUBSET (1..n) |->
                     IF r = {} THEN <<>>
                     ELSE LET x == Max(r) IN OverlaySegment(g[r \ {x}], list[x])]
           g == CHOOSE h : E(h)
<1>1. DOMAIN list = 1..n /\ n \in Nat
  BY LenProperties DEF ListType
<1>2. FoldLeft(OverlaySegment, <<>>, list) = g[1..n]
  BY <1>1, Zenon DEF FoldLeft, MapThenFoldSet
<1>3. IsStep(F, n, A) /\ <<>> \in A
  <2>1. ASSUME NEW l \in A, NEW k \in 1..n
        PROVE  OverlaySegment(l, list[k]) \in A
    <3>1. PICK s : s = list[k]
      OBVIOUS
    <3>2. InSpace(s) /\ l \in ListType /\ AllInSpace(l) /\ Separated(l)
      BY <3>1 DEF AllInSpace, SeparatedLists
    <3>3. /\ OverlaySegment(l, s) \in ListType /\ AllInSpace(OverlaySegment(l, s))
          /\ Separated(OverlaySegment(l, s))
      BY <3>2, OverlayReads
    <3>4. QED
      BY <3>1, <3>3 DEF SeparatedLists
  <2>2. <<>> \in A
    BY EmptyList, EmptySeq DEF SeparatedLists, Separated
  <2> HIDE DEF A
  <2>3. QED
    BY <2>1, <2>2 DEF IsStep
<1>4. \A r \in SUBSET (1..n) : r # {} => Max(r) \in 1..n /\ r \ {Max(r)} \in SUBSET (1..n)
  BY <1>1, MaxUpTo
<1>5. \A k \in 1..n, y \in A : F[<<y, k>>] = OverlaySegment(y, list[k])
  OBVIOUS
<1> HIDE DEF n, A, F
<1>6. \E h : E(h)
  <2>1. PICK h \in [SUBSET (1..n) -> A] : Folds(h, n, <<>>, F)
    BY <1>1, <1>3, FoldExists
  <2>2. \A r \in SUBSET (1..n) : r # {} =>
          h[r] = OverlaySegment(h[r \ {Max(r)}], list[Max(r)])
    BY <2>1, <1>4, <1>5 DEF Folds
  <2>3. E(h)
    BY <2>1, <2>2 DEF Folds
  <2>4. QED
    BY <2>3, Zenon
<1>7. E(g)
  <2> HIDE DEF E
  <2>1. QED
    BY <1>6, Zenon
<1> HIDE DEF g
<1>8. FoldsWithin(g, n, A, <<>>, F)
  BY <1>4, <1>5, <1>7 DEF FoldsWithin
<1> HIDE DEF E
<1>9. PICK acc : IsRun(acc, n, A, <<>>, F) /\ g[1..n] = acc[n]
  BY <1>1, <1>3, <1>8, FoldRun
<1>10. \A k \in 1..n : acc[k] = OverlaySegment(acc[k - 1], list[k])
  <2> SUFFICES ASSUME NEW k \in 1..n
               PROVE  acc[k] = F[<<acc[k - 1], k>>] /\ acc[k - 1] \in A
    BY <1>5
  <2>1. k - 1 \in 0..n
    BY <1>1
  <2>2. QED
    BY <2>1, <1>9 DEF IsRun
<1>11. QED
  BY <1>2, <1>9, <1>10 DEF IsRun, IsOverlaysRun, n, A

\* Overlaying one segment after the other: the last one wins everywhere.
LEMMA OverlaysRead ==
  ASSUME NEW list \in ListType, AllInSpace(list)
  PROVE  LET over == FoldLeft(OverlaySegment, <<>>, list)
         IN /\ over \in SeparatedLists
            /\ \A a \in Int : \A b : Holds(over, a, b) <=> LastWins(list, Len(list), a, b)
<1>1. PICK acc : IsOverlaysRun(acc, list)
  BY OverlaysRun
<1> DEFINE n == Len(list)
           T == {k \in 0..n : \A a \in Int : \A b :
                               Holds(acc[k], a, b) <=> LastWins(list, k, a, b)}
<1>2. n \in Nat
  BY LenProperties DEF ListType
<1>3. 0 \in T
  <2>1. \A a, b : ~Holds(<<>>, a, b) /\ ~LastWins(list, 0, a, b)
    BY EmptySeq DEF Holds, LastWins
  <2>2. QED
    BY <1>1, <1>2, <2>1 DEF IsOverlaysRun
<1>4. ASSUME NEW k \in 0..(n - 1), k \in T
      PROVE  k + 1 \in T
  <2>1. k + 1 \in 1..n /\ (k + 1) - 1 = k /\ k \in 0..n /\ k + 1 \in 0..n /\ k \in Nat
    BY <1>2
  <2>2. PICK done, s : done = acc[k] /\ s = list[k + 1]
    OBVIOUS
  <2>3. /\ done \in ListType /\ AllInSpace(done) /\ Separated(done) /\ InSpace(s)
        /\ acc[k + 1] = OverlaySegment(done, s)
    BY <1>1, <2>1, <2>2 DEF IsOverlaysRun, SeparatedLists, AllInSpace
  <2>4. \A a \in Int : \A b : Holds(OverlaySegment(done, s), a, b)
          <=> Has(s, a, b) \/ (~Covers(s, a) /\ Holds(done, a, b))
    BY <2>3, OverlayReads
  <2>5. \A a \in Int : \A b : Holds(done, a, b) <=> LastWins(list, k, a, b)
    BY <1>4, <2>2
  <2>6. \A a, b : LastWins(list, k + 1, a, b)
          <=> Has(s, a, b) \/ (~Covers(s, a) /\ LastWins(list, k, a, b))
    BY <2>1, <2>2, LastWinsStep
  <2>7. QED
    BY <2>1, <2>3, <2>4, <2>5, <2>6
<1>5. n \in T /\ n \in 0..n
  <2> HIDE DEF T, n
  <2>1. \A k \in 0..n : k \in T
    BY <1>2, <1>3, <1>4, InductionUpTo
  <2>2. QED
    BY <2>1, <1>2
<1>6. QED
  BY <1>1, <1>5 DEF IsOverlaysRun

\* Where no two different segments cover an address, the order makes no
\* difference to what it reads as.
LEMMA DisjointReads ==
  ASSUME NEW list \in ListType, NEW a, NEW b,
         \A m, n \in 1..Len(list) :
           Covers(list[m], a) /\ Covers(list[n], a) => list[m] = list[n]
  PROVE  Holds(list, a, b) <=> LastWins(list, Len(list), a, b)
<1> DEFINE n == Len(list)
           T == {k \in 0..n : Prefix(list, k, a, b) <=> LastWins(list, k, a, b)}
<1>1. n \in Nat
  BY LenProperties DEF ListType
<1>2. 0 \in T
  BY <1>1 DEF Prefix, LastWins
<1>3. ASSUME NEW k \in 0..(n - 1), k \in T
      PROVE  k + 1 \in T
  <2>1. k + 1 \in 1..n /\ k \in 0..n /\ k + 1 \in 0..n /\ k \in Nat
        /\ \A m \in 1..k : m \in 1..n
    BY <1>1
  <2>2. Prefix(list, k, a, b) /\ Covers(list[k + 1], a) => Has(list[k + 1], a, b)
    BY <2>1 DEF Prefix, Has
  <2>3. Has(list[k + 1], a, b) => Covers(list[k + 1], a)
    BY DEF Has
  <2>4. Prefix(list, k + 1, a, b) <=> Prefix(list, k, a, b) \/ Has(list[k + 1], a, b)
    BY <2>1, PrefixStep
  <2>5. LastWins(list, k + 1, a, b)
          <=> \/ Has(list[k + 1], a, b)
              \/ ~Covers(list[k + 1], a) /\ LastWins(list, k, a, b)
    BY <2>1, LastWinsStep
  <2>6. QED
    BY <2>1, <2>2, <2>3, <2>4, <2>5, <1>3
<1>4. n \in T
  <2> HIDE DEF T, n
  <2>1. \A k \in 0..n : k \in T
    BY <1>1, <1>2, <1>3, InductionUpTo
  <2>2. QED
    BY <2>1, <1>1
<1>5. QED
  BY <1>4 DEF Prefix, Holds

\* Nothing is dropped from a list without empty segments.
LEMMA NonEmptyKeeps ==
  ASSUME NEW list \in ListType, AllInSpace(list)
  PROVE  NonEmpty(list) = list
<1> DEFINE S == {s \in ToSet(list) : ~IsEmpty(s)}
<1>1. \A k \in 1..Len(list) : list[k] \in S
  <2>1. DOMAIN list = 1..Len(list)
    BY LenProperties DEF ListType
  <2>2. \A k \in 1..Len(list) : list[k] \in ToSet(list)
    BY <2>1 DEF ToSet
  <2>3. \A k \in 1..Len(list) : ~IsEmpty(list[k])
    BY DEF AllInSpace, InSpace, IsEmpty
  <2>4. QED
    BY <2>2, <2>3
<1>2. list \in Seq(SegRecord)
  BY DEF ListType, SegRecord
<1>3. NonEmpty(list) = Keep(list, S)
  BY DEF NonEmpty
<1> HIDE DEF S
<1>4. QED
  BY <1>1, <1>2, <1>3, KeepAll

LEMMA StartsAreNumbers == \A s \in SegRecord : s.start \in Int
  BY MaxAddrAssumption DEF SegRecord, Addr

\* The sorted list has the same segments.
LEMMA SortedList ==
  ASSUME NEW list \in ListType, AllInSpace(list)
  PROVE  /\ ByStart(list) \in ListType /\ AllInSpace(ByStart(list))
         /\ SortedStarts(ByStart(list))
         /\ \A y : IsIn(ByStart(list), y) <=> IsIn(list, y)
         /\ \A a, b : Holds(ByStart(list), a, b) <=> Holds(list, a, b)
<1>1. list \in Seq(SegRecord)
  BY DEF ListType, SegRecord
<1>2. PICK sorted : sorted = ByStart(list)
  OBVIOUS
<1>3. /\ sorted \in Seq(SegRecord) /\ SortedStarts(sorted)
      /\ \A y : IsIn(sorted, y) <=> IsIn(list, y)
  BY <1>1, <1>2, StartsAreNumbers, SortByStart
<1>4. AllInSpace(sorted)
  <2> SUFFICES ASSUME NEW n \in 1..Len(sorted) PROVE InSpace(sorted[n])
    BY DEF AllInSpace
  <2>1. IsIn(sorted, sorted[n])
    BY DEF IsIn
  <2>2. QED
    BY <2>1, <1>3 DEF IsIn, AllInSpace
<1>5. \A a, b : Holds(sorted, a, b) <=> Holds(list, a, b)
  <2> SUFFICES ASSUME NEW a, NEW b PROVE Holds(sorted, a, b) <=> Holds(list, a, b)
    OBVIOUS
  <2>1. Holds(sorted, a, b) <=> \E y : IsIn(sorted, y) /\ Has(y, a, b)
    BY DEF Holds, IsIn
  <2>2. Holds(list, a, b) <=> \E y : IsIn(list, y) /\ Has(y, a, b)
    BY DEF Holds, IsIn
  <2>3. QED
    BY <2>1, <2>2, <1>3
<1>6. QED
  BY <1>2, <1>3, <1>4, <1>5 DEF ListType, SegRecord

\* The fast path of normalized(): sorted, no segment reaches the next.
LEMMA FastPathReads ==
  ASSUME NEW list \in ListType, AllInSpace(list), ~AnyOverlap(list)
  PROVE  /\ InOrder(ByStart(list))
         /\ \A a \in Int : \A b : Holds(ByStart(list), a, b)
                              <=> LastWins(list, Len(list), a, b)
<1>1. PICK q : q = ByStart(list)
  OBVIOUS
<1>2. /\ q \in ListType /\ AllInSpace(q) /\ SortedStarts(q) /\ Len(q) \in Nat
      /\ \A y : IsIn(q, y) <=> IsIn(list, y)
      /\ \A a, b : Holds(q, a, b) <=> Holds(list, a, b)
  BY <1>1, SortedList, LenProperties DEF ListType
<1>3. ASSUME NEW n \in 1..Len(q)
      PROVE  /\ q[n].start \in Int /\ EndAddress(q[n]) \in Int
             /\ \A a \in Int : Covers(q[n], a) <=> q[n].start <= a /\ a <= EndAddress(q[n])
  <2>1. InSpace(q[n])
    BY <1>2 DEF AllInSpace
  <2>2. QED
    BY <2>1, SpanInSpace, MaxAddrAssumption DEF Addr
<1>4. InOrder(q)
  <2> SUFFICES ASSUME NEW m \in 1..Len(q), NEW n \in 1..Len(q), m < n
               PROVE  EndAddress(q[m]) < q[n].start
    BY DEF InOrder
  <2>1. m + 1 \in 2..Len(q) /\ m + 1 \in 1..Len(q) /\ (m + 1) - 1 = m
    BY <1>2
  <2>2. EndAddress(q[m]) < q[m + 1].start
    <3>1. ~(q[m + 1].start <= EndAddress(q[(m + 1) - 1]))
      BY <2>1, <1>1 DEF AnyOverlap
    <3>2. q[m + 1].start \in Int /\ EndAddress(q[m]) \in Int
      BY <2>1, <1>3
    <3>3. QED
      BY <2>1, <3>1, <3>2
  <2>3. q[m + 1].start <= q[n].start
    <3>1. CASE m + 1 = n
      BY <3>1, <1>3
    <3>2. CASE m + 1 < n
      BY <3>2, <2>1, <1>2 DEF SortedStarts
    <3>3. QED
      BY <3>1, <3>2, <1>2
  <2>4. QED
    BY <2>1, <2>2, <2>3, <1>3
<1>5. ASSUME NEW m \in 1..Len(q), NEW n \in 1..Len(q), m < n, NEW a \in Int
      PROVE  ~(Covers(q[m], a) /\ Covers(q[n], a))
  <2>1. EndAddress(q[m]) < q[n].start
    BY <1>4, <1>5 DEF InOrder
  <2>2. QED
    BY <2>1, <1>3
<1>6. ASSUME NEW a \in Int, NEW m \in 1..Len(list), NEW n \in 1..Len(list),
             Covers(list[m], a), Covers(list[n], a)
      PROVE  list[m] = list[n]
  <2>1. IsIn(list, list[m]) /\ IsIn(list, list[n])
    BY DEF IsIn
  <2>2. PICK x \in 1..Len(q), y \in 1..Len(q) : q[x] = list[m] /\ q[y] = list[n]
    BY <2>1, <1>2 DEF IsIn
  <2>3. ~(x < y) /\ ~(y < x)
    BY <2>2, <1>5, <1>6
  <2>4. x = y
    BY <2>3
  <2>5. QED
    BY <2>2, <2>4
<1>7. ASSUME NEW a \in Int, NEW b
      PROVE  Holds(list, a, b) <=> LastWins(list, Len(list), a, b)
  BY <1>6, DisjointReads
<1>8. QED
  BY <1>1, <1>2, <1>4, <1>7

\* normalized() returns the one canonical list that reads as the raw one does.
LEMMA NormalizedReads ==
  ASSUME NEW list \in ListType, AllInSpace(list)
  PROVE  /\ Normalized(list) \in ListType /\ AllInSpace(Normalized(list))
         /\ Separated(Normalized(list))
         /\ \A a \in Int : \A b : Holds(Normalized(list), a, b)
                              <=> LastWins(list, Len(list), a, b)
<1> DEFINE over == FoldLeft(OverlaySegment, <<>>, list)
           Sorted(q) == /\ q \in ListType /\ AllInSpace(q) /\ InOrder(q)
                        /\ \A a \in Int : \A b : Holds(q, a, b)
                             <=> LastWins(list, Len(list), a, b)
<1>1. Normalized(list) = MergeAdjacent(ByStart(IF AnyOverlap(list) THEN over ELSE list))
  BY NonEmptyKeeps DEF Normalized
<1>2. CASE ~AnyOverlap(list)
  <2>1. Sorted(ByStart(list))
    BY <1>2, FastPathReads, SortedList
  <2>2. PICK q : q = ByStart(list)
    OBVIOUS
  <2>3. Normalized(list) = MergeAdjacent(q)
    BY <1>1, <1>2, <2>2
  <2>4. Sorted(q)
    BY <2>1, <2>2
  <2>5. Joined(q, Len(q), MergeAdjacent(q))
    BY <2>4, MergeAdjacentJoins
  <2>6. QED
    BY <2>3, <2>4, <2>5 DEF Joined, Prefix, Holds
<1>3. CASE AnyOverlap(list)
  <2>1. PICK q : q = over
    OBVIOUS
  <2>2. Sorted(q) /\ Separated(q)
    <3>1. /\ q \in ListType /\ AllInSpace(q) /\ Separated(q)
          /\ \A a \in Int : \A b : Holds(q, a, b) <=> LastWins(list, Len(list), a, b)
      BY <2>1, OverlaysRead DEF SeparatedLists
    <3>2. QED
      BY <3>1, SeparatedOrdered
  <2>3. ByStart(q) = q
    <3>1. q \in Seq(SegRecord)
      BY <2>2 DEF ListType, SegRecord
    <3>2. SortedStarts(q)
      <4> SUFFICES ASSUME NEW m \in 1..Len(q), NEW n \in 1..Len(q), m < n
                   PROVE  q[m].start <= q[n].start
        BY DEF SortedStarts
      <4>1. EndAddress(q[m]) < q[n].start
        BY <2>2 DEF InOrder
      <4>2. InSpace(q[m]) /\ InSpace(q[n])
        BY <2>2 DEF AllInSpace
      <4>3. QED
        BY <4>1, <4>2, SpanInSpace, MaxAddrAssumption DEF Addr
    <3>3. QED
      BY <3>1, <3>2, StartsAreNumbers, SortSorted
  <2>4. Normalized(list) = MergeAdjacent(q)
    BY <1>1, <1>3, <2>1, <2>3
  <2>5. Joined(q, Len(q), MergeAdjacent(q))
    BY <2>2, MergeAdjacentJoins
  <2>6. QED
    BY <2>2, <2>4, <2>5 DEF Joined, Prefix, Holds
<1>4. QED
  BY <1>2, <1>3

-----------------------------------------------------------------------------
(* Only one canonical list reads as a given image *)

\* Every segment of one list is a segment of the other: their bounds are the
\* addresses where the image starts and stops.
LEMMA SameSegment ==
  ASSUME NEW l \in ListType, AllInSpace(l), Separated(l),
         NEW r \in ListType, AllInSpace(r), Separated(r),
         \A a \in Addr, b \in Byte : Holds(l, a, b) <=> Holds(r, a, b),
         NEW i \in 1..Len(l)
  PROVE  IsIn(r, l[i])
<1> DEFINE Cov(q, a) == \E n \in 1..Len(q) : Covers(q[n], a)
<1>1. PICK x : x = l[i]
  OBVIOUS
<1>2. ASSUME NEW s, InSpace(s)
      PROVE  /\ s.start \in Int /\ EndAddress(s) \in Int
             /\ 0 <= s.start /\ s.start <= EndAddress(s) /\ EndAddress(s) <= MaxAddr
             /\ \A a \in Int : Covers(s, a) <=> s.start <= a /\ a <= EndAddress(s)
             /\ s.data \in Seq(Byte) /\ EndAddress(s) = s.start + Len(s.data) - 1
             /\ s = [start |-> s.start, data |-> s.data]
             /\ \A a \in Int : Covers(s, a) => a \in Addr /\ ByteAt(s, a) \in Byte
  <2>1. s \in [start : Addr, data : Seq(Byte)]
    BY <1>2 DEF InSpace
  <2>2. /\ s.start \in Int /\ EndAddress(s) \in Int
        /\ 0 <= s.start /\ s.start <= EndAddress(s) /\ EndAddress(s) <= MaxAddr
        /\ \A a \in Int : Covers(s, a) <=> s.start <= a /\ a <= EndAddress(s)
        /\ s.data \in Seq(Byte) /\ EndAddress(s) = s.start + Len(s.data) - 1
    BY <1>2, <2>1, SpanInSpace, MaxAddrAssumption DEF Addr
  <2>3. s = [start |-> s.start, data |-> s.data]
    BY <2>1
  <2>4. ASSUME NEW a \in Int, Covers(s, a)
        PROVE  a \in Addr /\ ByteAt(s, a) \in Byte
    <3>1. a \in Addr /\ a - s.start + 1 \in 1..Len(s.data)
      BY <2>2, <2>4, LenProperties, MaxAddrAssumption DEF Addr
    <3>2. QED
      BY <3>1, <2>2, ElementOfSeq DEF ByteAt
  <2>5. QED
    BY <2>2, <2>3, <2>4
<1>3. ASSUME NEW p \in ListType, AllInSpace(p), NEW q \in ListType, AllInSpace(q),
             \A a \in Addr, b \in Byte : Holds(p, a, b) => Holds(q, a, b),
             NEW a \in Int, Cov(p, a)
      PROVE  Cov(q, a)
  <2>1. PICK n \in 1..Len(p) : Covers(p[n], a)
    BY <1>3
  <2>2. a \in Addr /\ ByteAt(p[n], a) \in Byte /\ Has(p[n], a, ByteAt(p[n], a))
    BY <2>1, <1>2, <1>3 DEF AllInSpace, Has
  <2>3. Holds(q, a, ByteAt(p[n], a))
    BY <2>2, <1>3 DEF Holds
  <2>4. QED
    BY <2>3 DEF Holds, Has
<1>4. \A a \in Int : Cov(l, a) <=> Cov(r, a)
  BY <1>3
<1>5. ASSUME NEW q, AllInSpace(q), Separated(q), NEW n \in 1..Len(q)
      PROVE  ~Cov(q, q[n].start - 1) /\ ~Cov(q, EndAddress(q[n]) + 1)
  <2>1. ASSUME NEW m \in 1..Len(q)
        PROVE  ~Covers(q[m], q[n].start - 1) /\ ~Covers(q[m], EndAddress(q[n]) + 1)
    <3>1. InSpace(q[m]) /\ InSpace(q[n])
      BY <1>5 DEF AllInSpace
    <3>2. PICK s, t : s = q[m] /\ t = q[n] /\ InSpace(s) /\ InSpace(t)
      BY <3>1
    <3>3. s = t \/ EndAddress(s) + 1 < t.start \/ EndAddress(t) + 1 < s.start
      BY <1>5, <3>2 DEF Separated
    <3>4. /\ s.start \in Int /\ EndAddress(s) \in Int /\ s.start <= EndAddress(s)
          /\ t.start \in Int /\ EndAddress(t) \in Int /\ t.start <= EndAddress(t)
          /\ \A a \in Int : Covers(s, a) <=> s.start <= a /\ a <= EndAddress(s)
      BY <3>2, <1>2
    <3>5. ~Covers(s, t.start - 1) /\ ~Covers(s, EndAddress(t) + 1)
      BY <3>3, <3>4
    <3>6. QED
      BY <3>2, <3>5
  <2>2. QED
    BY <2>1
<1>6. InSpace(x) /\ Cov(l, x.start)
  <2>1. InSpace(x)
    BY <1>1 DEF AllInSpace
  <2>2. Covers(x, x.start)
    BY <2>1, <1>2
  <2>3. QED
    BY <1>1, <2>1, <2>2
<1>7. PICK j \in 1..Len(r) : Covers(r[j], x.start)
  BY <1>2, <1>4, <1>6
<1>8. PICK y : y = r[j]
  OBVIOUS
<1>9. InSpace(y) /\ Covers(y, x.start)
  BY <1>7, <1>8 DEF AllInSpace
<1>10. ~Cov(r, y.start - 1) /\ ~Cov(r, EndAddress(y) + 1)
  BY <1>5, <1>8
<1>11. ~Cov(l, x.start - 1) /\ ~Cov(l, EndAddress(x) + 1)
  BY <1>1, <1>5
<1>12. \A a \in Int : (Covers(x, a) => Cov(r, a)) /\ (Covers(y, a) => Cov(l, a))
  BY <1>1, <1>4, <1>8
<1> HIDE DEF Cov
<1>13. /\ x.start \in Int /\ y.start \in Int /\ EndAddress(x) \in Int /\ EndAddress(y) \in Int
       /\ y.start <= x.start /\ x.start <= EndAddress(y) /\ x.start <= EndAddress(x)
       /\ \A a \in Int : /\ Covers(x, a) <=> x.start <= a /\ a <= EndAddress(x)
                         /\ Covers(y, a) <=> y.start <= a /\ a <= EndAddress(y)
  BY <1>2, <1>6, <1>9
<1>14. x.start = y.start
  <2>1. ASSUME y.start < x.start PROVE FALSE
    <3>1. Covers(y, x.start - 1) /\ x.start - 1 \in Int
      BY <1>13, <2>1
    <3>2. QED
      BY <3>1, <1>11, <1>12
  <2>2. QED
    BY <1>13, <2>1
<1>15. EndAddress(x) = EndAddress(y)
  <2>1. ASSUME EndAddress(x) < EndAddress(y) PROVE FALSE
    <3>1. Covers(y, EndAddress(x) + 1) /\ EndAddress(x) + 1 \in Int
      BY <1>13, <1>14, <2>1
    <3>2. QED
      BY <3>1, <1>11, <1>12
  <2>2. ASSUME EndAddress(y) < EndAddress(x) PROVE FALSE
    <3>1. Covers(x, EndAddress(y) + 1) /\ EndAddress(y) + 1 \in Int
      BY <1>13, <1>14, <2>2
    <3>2. QED
      BY <3>1, <1>10, <1>12
  <2>3. QED
    BY <1>13, <2>1, <2>2
<1>16. x.data = y.data
  <2>1. /\ x.data \in Seq(Byte) /\ y.data \in Seq(Byte) /\ Len(x.data) = Len(y.data)
    <3>1. /\ x.data \in Seq(Byte) /\ EndAddress(x) = x.start + Len(x.data) - 1
          /\ y.data \in Seq(Byte) /\ EndAddress(y) = y.start + Len(y.data) - 1
      BY <1>2, <1>6, <1>9
    <3>2. QED
      BY <3>1, <1>13, <1>14, <1>15, LenProperties
  <2>2. ASSUME NEW k \in 1..Len(x.data)
        PROVE  x.data[k] = y.data[k]
    <3>1. PICK a \in Int : a = x.start + k - 1
      BY <1>13
    <3>2. /\ Covers(x, a) /\ Covers(y, a)
          /\ ByteAt(x, a) = x.data[k] /\ ByteAt(y, a) = y.data[k]
      <4>1. a - x.start + 1 = k /\ a - y.start + 1 = k
        BY <3>1, <1>13, <1>14
      <4>2. a <= EndAddress(x) /\ x.start <= a
        <5>1. PICK size, at, end : /\ size = Len(x.data) /\ at = x.start
                                   /\ end = EndAddress(x) /\ end = at + size - 1
                                   /\ size \in Nat /\ at \in Int
          BY <1>2, <1>6, <1>13, <2>1, LenProperties
        <5>2. a = at + k - 1 /\ k \in Int /\ 1 <= k /\ k <= size /\ at \in Int /\ size \in Int
          BY <5>1, <3>1
        <5>3. a <= at + size - 1 /\ at <= a
          BY ONLY <5>2
        <5>4. QED
          BY <5>1, <5>3
      <4>3. QED
        BY <4>1, <4>2, <1>13, <1>14, <1>15 DEF ByteAt
    <3>3. a \in Addr /\ ByteAt(x, a) \in Byte
      BY <3>2, <1>2, <1>6
    <3>4. Holds(r, a, ByteAt(x, a))
      <4>1. Holds(l, a, ByteAt(x, a))
        BY <1>1, <3>2 DEF Holds, Has
      <4>2. QED
        BY <3>3, <4>1
    <3>5. PICK m \in 1..Len(r) : Covers(r[m], a) /\ ByteAt(r[m], a) = ByteAt(x, a)
      BY <3>4 DEF Holds, Has
    <3>6. m = j
      <4>1. PICK s : s = r[m] /\ InSpace(s)
        BY DEF AllInSpace
      <4>2. /\ m < j => EndAddress(s) + 1 < y.start
            /\ j < m => EndAddress(y) + 1 < s.start
        BY <4>1, <1>8 DEF Separated
      <4>3. Covers(s, a) /\ Covers(y, a)
        BY <3>2, <3>5, <4>1
      <4>4. /\ s.start <= a /\ a <= EndAddress(s) /\ s.start \in Int /\ EndAddress(s) \in Int
            /\ y.start <= a /\ a <= EndAddress(y)
        BY <4>1, <4>3, <1>2, <1>13
      <4>5. ~(m < j) /\ ~(j < m)
        BY <4>2, <4>4, <1>13
      <4>6. QED
        BY <4>5
    <3>7. QED
      BY <3>2, <3>5, <3>6, <1>8
  <2>3. QED
    BY <2>1, <2>2, SeqEqual
<1>17. x = y
  BY <1>2, <1>6, <1>9, <1>14, <1>16
<1>18. QED
  BY <1>1, <1>8, <1>17 DEF IsIn

\* Two canonical lists that read the same are the same list.
LEMMA CanonicalUnique ==
  ASSUME NEW l \in ListType, AllInSpace(l), Separated(l),
         NEW r \in ListType, AllInSpace(r), Separated(r),
         \A a \in Addr, b \in Byte : Holds(l, a, b) <=> Holds(r, a, b)
  PROVE  l = r
<1>1. \A y : IsIn(l, y) <=> IsIn(r, y)
  <2>1. \A i \in 1..Len(l) : IsIn(r, l[i])
    BY SameSegment
  <2>2. \A i \in 1..Len(r) : IsIn(l, r[i])
    BY SameSegment
  <2>3. QED
    BY <2>1, <2>2 DEF IsIn
<1> DEFINE key == [s \in SegRecord |-> s.start]
<1>2. ASSUME NEW q, AllInSpace(q), Separated(q)
      PROVE  Increasing(q, key)
  <2> SUFFICES ASSUME NEW m \in 1..Len(q), NEW n \in 1..Len(q), m < n
               PROVE  key[q[m]] < key[q[n]]
    BY DEF Increasing
  <2>1. EndAddress(q[m]) + 1 < q[n].start
    BY <1>2 DEF Separated
  <2>2. InSpace(q[m]) /\ InSpace(q[n])
    BY <1>2 DEF AllInSpace
  <2>3. q[m].start < q[n].start
    BY <2>1, <2>2, SpanInSpace, MaxAddrAssumption DEF Addr
  <2>4. q[m] \in SegRecord /\ q[n] \in SegRecord
    BY <2>2 DEF InSpace, SegRecord
  <2>5. QED
    BY <2>3, <2>4
<1>3. l \in Seq(SegRecord) /\ r \in Seq(SegRecord)
  BY DEF ListType, SegRecord
<1>4. \A s \in SegRecord : key[s] \in Int
  BY StartsAreNumbers
<1> HIDE DEF key
<1>5. QED
  BY <1>1, <1>2, <1>3, <1>4, SameElements

-----------------------------------------------------------------------------
(* read_byte *)

\* read_byte finds the byte of the last segment that covers the address.
LEMMA ReadIsLastWins ==
  ASSUME NEW list \in ListType, AllInSpace(list), NEW a \in Int
  PROVE  /\ (\A n \in 1..Len(list) : ~Covers(list[n], a)) => ReadByte(list, a) = None
         /\ (\E n \in 1..Len(list) : Covers(list[n], a))
              => /\ ReadByte(list, a) \in Byte
                 /\ \A b : LastWins(list, Len(list), a, b) <=> ReadByte(list, a) = b
<1> DEFINE covering == {n \in DOMAIN list : Covers(list[n], a)}
<1>1. Len(list) \in Nat /\ DOMAIN list = 1..Len(list)
  BY LenProperties DEF ListType
<1>2. ReadByte(list, a) = IF covering = {} THEN None ELSE ByteAt(list[Max(covering)], a)
  BY DEF ReadByte
<1>3. ASSUME \A n \in 1..Len(list) : ~Covers(list[n], a)
      PROVE  ReadByte(list, a) = None
  BY <1>1, <1>2, <1>3
<1>4. ASSUME NEW n \in 1..Len(list), Covers(list[n], a)
      PROVE  /\ ReadByte(list, a) \in Byte
             /\ \A b : LastWins(list, Len(list), a, b) <=> ReadByte(list, a) = b
  <2>1. covering \in SUBSET (1..Len(list)) /\ covering # {}
    BY <1>1, <1>4
  <2>2. PICK m \in covering : m = Max(covering) /\ \A x \in covering : x <= m
    BY <1>1, <2>1, MaxUpTo
  <2>3. m \in 1..Len(list) /\ Covers(list[m], a)
    BY <1>1, <2>2
  <2>4. ASSUME NEW l \in (m + 1)..Len(list)
        PROVE  ~Covers(list[l], a)
    <3>1. l \in DOMAIN list /\ ~(l <= m)
      BY <1>1, <2>3
    <3>2. QED
      BY <3>1, <2>2
  <2>5. ReadByte(list, a) = ByteAt(list[m], a)
    BY <1>2, <2>1, <2>2
  <2>6. ByteAt(list[m], a) \in Byte
    <3>1. PICK s : s = list[m] /\ InSpace(s)
      BY <2>3 DEF AllInSpace
    <3>2. s.data \in Seq(Byte) /\ s.start \in Int /\ Len(s.data) \in Nat
      BY <3>1, MaxAddrAssumption, LenProperties DEF InSpace, Addr
    <3>3. a - s.start + 1 \in 1..Len(s.data)
      BY <2>3, <3>1, <3>2 DEF Covers
    <3>4. QED
      BY <3>1, <3>2, <3>3, ElementOfSeq DEF ByteAt
  <2>7. ASSUME NEW k \in 1..Len(list), Covers(list[k], a),
               \A l \in (k + 1)..Len(list) : ~Covers(list[l], a)
        PROVE  k = m
    <3>1. ~(k < m) /\ ~(m < k)
      BY <1>1, <2>3, <2>4, <2>7
    <3>2. QED
      BY <2>3, <3>1
  <2>8. ASSUME NEW b
        PROVE  LastWins(list, Len(list), a, b) <=> ByteAt(list[m], a) = b
    <3>1. ASSUME LastWins(list, Len(list), a, b)
          PROVE  ByteAt(list[m], a) = b
      <4>1. PICK k \in 1..Len(list) :
              /\ Covers(list[k], a) /\ ByteAt(list[k], a) = b
              /\ \A l \in (k + 1)..Len(list) : ~Covers(list[l], a)
        BY <3>1 DEF LastWins, Has
      <4>2. k = m
        BY <4>1, <2>7
      <4>3. QED
        BY <4>1, <4>2
    <3>2. ASSUME ByteAt(list[m], a) = b
          PROVE  LastWins(list, Len(list), a, b)
      BY <3>2, <2>3, <2>4 DEF LastWins, Has
    <3>3. QED
      BY <3>1, <3>2
  <2>9. QED
    BY <2>5, <2>6, <2>8
<1>5. QED
  BY <1>3, <1>4

\* In a list without overlaps it is the byte of the one segment that covers it.
LEMMA ReadSeparated ==
  ASSUME NEW list \in ListType, AllInSpace(list), Separated(list),
         NEW n \in 1..Len(list), NEW a \in Int, Covers(list[n], a)
  PROVE  ReadByte(list, a) = ByteAt(list[n], a) /\ ReadByte(list, a) \in Byte
<1>1. ASSUME NEW l \in 1..Len(list), NEW m \in 1..Len(list),
             Covers(list[l], a), Covers(list[m], a)
      PROVE  list[l] = list[m]
  <2>1. PICK s, t : s = list[l] /\ t = list[m] /\ InSpace(s) /\ InSpace(t)
    BY DEF AllInSpace
  <2>2. /\ l < m => EndAddress(s) + 1 < t.start
        /\ m < l => EndAddress(t) + 1 < s.start
    BY <2>1 DEF Separated
  <2>3. /\ s.start <= a /\ a <= EndAddress(s) /\ s.start \in Int /\ EndAddress(s) \in Int
        /\ t.start <= a /\ a <= EndAddress(t) /\ t.start \in Int /\ EndAddress(t) \in Int
    BY <1>1, <2>1, SpanInSpace, MaxAddrAssumption DEF Addr
  <2>4. ~(l < m) /\ ~(m < l)
    BY <2>2, <2>3
  <2>5. QED
    BY <2>4
<1>2. Holds(list, a, ByteAt(list[n], a))
  BY DEF Holds, Has
<1>3. LastWins(list, Len(list), a, ByteAt(list[n], a))
  BY <1>1, <1>2, DisjointReads
<1>4. QED
  BY <1>3, ReadIsLastWins

-----------------------------------------------------------------------------
(* What a file stores *)

LEMMA StoredFacts ==
  ASSUME NEW s
  PROVE  s \in StoredSegment <=> InSpace(s) /\ Len(s.data) <= MaxAddr
  BY MaxAddrAssumption, LenProperties
     DEF StoredSegment, SegmentType, FitsAt, IsEmpty, InSpace, Addr

LEMMA StoredList ==
  ASSUME NEW list \in Seq(StoredSegment)
  PROVE  list \in ListType /\ AllInSpace(list)
<1>1. \A s \in StoredSegment : s \in SegRecord /\ InSpace(s)
  BY StoredFacts DEF InSpace, SegRecord
<1>2. \A n \in 1..Len(list) : list[n] \in StoredSegment
  BY ElementOfSeq
<1>3. list = [n \in 1..Len(list) |-> list[n]] /\ Len(list) \in Nat
  BY SeqDef, LenProperties
<1>4. list \in Seq(SegRecord)
  BY <1>1, <1>2, <1>3, IsASeq
<1>5. QED
  BY <1>1, <1>2, <1>4 DEF ListType, SegRecord, AllInSpace

-----------------------------------------------------------------------------
(* Segments that a file stores *)

LEMMA IsStored ==
  ASSUME NEW list \in ListType, AllInSpace(list),
         \A n \in 1..Len(list) : Len(list[n].data) <= MaxAddr
  PROVE  list \in Seq(StoredSegment)
<1>1. \A n \in 1..Len(list) : list[n] \in StoredSegment
  BY StoredFacts DEF AllInSpace
<1>2. list = [n \in 1..Len(list) |-> list[n]] /\ Len(list) \in Nat
  BY SeqDef, LenProperties DEF ListType
<1>3. QED
  BY <1>1, <1>2, IsASeq

\* The bytes of a segment are bytes.
LEMMA CoveredByte ==
  ASSUME NEW s, InSpace(s), NEW a \in Int, Covers(s, a)
  PROVE  ByteAt(s, a) \in Byte /\ ByteAt(s, a) # None /\ a \in Addr
<1>1. s.data \in Seq(Byte) /\ s.start \in Addr /\ s.start \in Int /\ Len(s.data) \in Nat
      /\ s.start + Len(s.data) - 1 <= MaxAddr /\ 0 <= s.start
  BY MaxAddrAssumption, LenProperties DEF InSpace, Addr
<1>2. a - s.start + 1 \in 1..Len(s.data) /\ a \in Addr
  BY <1>1, MaxAddrAssumption DEF Covers, Addr
<1>3. ByteAt(s, a) \in Byte
  BY <1>1, <1>2, ElementOfSeq DEF ByteAt
<1>4. QED
  BY <1>2, <1>3, ByteAssumption

-----------------------------------------------------------------------------
(* Reading a list *)

\* An address reads as None exactly when nothing covers it.
LEMMA ReadCovered ==
  ASSUME NEW list \in ListType, AllInSpace(list), NEW a \in Int
  PROVE  /\ ReadByte(list, a) \in Byte \union {None}
         /\ ReadByte(list, a) # None <=> \E n \in 1..Len(list) : Covers(list[n], a)
         /\ ReadByte(list, a) # None => a \in Addr
<1>1. CASE \E n \in 1..Len(list) : Covers(list[n], a)
  <2>1. ReadByte(list, a) \in Byte
    BY <1>1, ReadIsLastWins
  <2>2. PICK n \in 1..Len(list) : Covers(list[n], a)
    BY <1>1
  <2>3. InSpace(list[n])
    BY DEF AllInSpace
  <2>4. a \in Addr
    BY <2>2, <2>3, CoveredByte
  <2>5. QED
    BY <2>1, <2>4, <1>1, ByteAssumption
<1>2. CASE ~\E n \in 1..Len(list) : Covers(list[n], a)
  <2>1. ReadByte(list, a) = None
    BY <1>2, ReadIsLastWins
  <2>2. QED
    BY <2>1, <1>2
<1>3. QED
  BY <1>1, <1>2

\* The last segment that covers an address gives its byte.
LEMMA ReadLast ==
  ASSUME NEW list \in ListType, AllInSpace(list), NEW a \in Int,
         NEW m \in 1..Len(list), Covers(list[m], a),
         \A l \in (m + 1)..Len(list) : ~Covers(list[l], a)
  PROVE  ReadByte(list, a) = ByteAt(list[m], a)
<1>1. LastWins(list, Len(list), a, ByteAt(list[m], a))
  BY DEF LastWins, Has
<1>2. QED
  BY <1>1, ReadIsLastWins

LEMMA ReadWins ==
  ASSUME NEW list \in ListType, AllInSpace(list), NEW a \in Int, NEW b,
         LastWins(list, Len(list), a, b)
  PROVE  ReadByte(list, a) = b
<1>1. \E n \in 1..Len(list) : Covers(list[n], a)
  BY DEF LastWins, Has
<1>2. QED
  BY <1>1, ReadIsLastWins

LEMMA ReadEmpty ==
  ASSUME NEW a \in Int
  PROVE  ReadByte(<<>>, a) = None
<1>1. ~\E n \in 1..Len(<<>>) : Covers((<<>>)[n], a)
  BY EmptySeq
<1>2. PICK list : list = <<>> /\ list \in ListType /\ AllInSpace(list)
  BY EmptyList
<1>3. QED
  BY <1>1, <1>2, ReadCovered

LEMMA ReadOne ==
  ASSUME NEW s, InSpace(s)
  PROVE  /\ <<s>> \in ListType /\ AllInSpace(<<s>>)
         /\ \A a \in Int : ReadByte(<<s>>, a) = IF Covers(s, a) THEN ByteAt(s, a) ELSE None
<1>1. /\ <<s>> \in Seq(SegRecord) /\ Len(<<s>>) = 1 /\ <<s>>[1] = s
  BY DEF InSpace, SegRecord
<1>2. PICK list : list = <<s>>
  OBVIOUS
<1>3. list \in ListType /\ AllInSpace(list) /\ Len(list) = 1 /\ list[1] = s
  BY <1>1, <1>2 DEF ListType, SegRecord, AllInSpace
<1>4. ASSUME NEW a \in Int
      PROVE  ReadByte(list, a) = IF Covers(s, a) THEN ByteAt(s, a) ELSE None
  <2>1. CASE Covers(s, a)
    <3>1. 1 \in 1..Len(list) /\ Covers(list[1], a)
          /\ \A l \in (1 + 1)..Len(list) : ~Covers(list[l], a)
      BY <1>3, <2>1
    <3>2. QED
      BY <3>1, <1>3, <2>1, ReadLast
  <2>2. CASE ~Covers(s, a)
    <3>1. ~\E n \in 1..Len(list) : Covers(list[n], a)
      BY <1>3, <2>2
    <3>2. QED
      BY <3>1, <1>3, <2>2, ReadCovered
  <2>3. QED
    BY <2>1, <2>2
<1>5. QED
  BY <1>2, <1>3, <1>4

\* Of two lists in a row the second wins.
LEMMA ReadConcat ==
  ASSUME NEW l \in ListType, AllInSpace(l), NEW r \in ListType, AllInSpace(r)
  PROVE  /\ l \o r \in ListType /\ AllInSpace(l \o r)
         /\ \A a \in Int : ReadByte(l \o r, a) =
              IF ReadByte(r, a) # None THEN ReadByte(r, a) ELSE ReadByte(l, a)
<1>1. PICK list, p, q : /\ list = l \o r /\ p = Len(l) /\ q = Len(r)
                        /\ p \in Nat /\ q \in Nat
  BY LenProperties DEF ListType
<1>2. /\ list \in ListType /\ Len(list) = p + q
      /\ \A n \in 1..p : list[n] = l[n]
      /\ \A n \in 1..q : list[p + n] = r[n]
  <2>1. /\ l \o r \in ListType /\ Len(l \o r) = Len(l) + Len(r)
        /\ \A n \in 1..(Len(l) + Len(r)) :
             (l \o r)[n] = IF n <= Len(l) THEN l[n] ELSE r[n - Len(l)]
    BY ConcatProperties DEF ListType
  <2>2. \A n \in 1..(p + q) : list[n] = IF n <= p THEN l[n] ELSE r[n - p]
    BY <2>1, <1>1
  <2>3. \A n \in 1..p : n \in 1..(p + q) /\ n <= p
    BY <1>1
  <2>4. \A n \in 1..q : p + n \in 1..(p + q) /\ ~(p + n <= p) /\ (p + n) - p = n
    BY <1>1
  <2>5. list \in ListType /\ Len(list) = p + q
    BY <2>1, <1>1
  <2>6. QED
    BY <2>2, <2>3, <2>4, <2>5
<1>3. \A n \in 1..(p + q) : n \in 1..p \/ (n - p \in 1..q /\ p + (n - p) = n)
  BY <1>1
<1>4. AllInSpace(list)
  <2> SUFFICES ASSUME NEW n \in 1..(p + q) PROVE InSpace(list[n])
    BY <1>2 DEF AllInSpace
  <2>1. CASE n \in 1..p
    BY <2>1, <1>1, <1>2 DEF AllInSpace
  <2>2. CASE n - p \in 1..q /\ p + (n - p) = n
    <3>1. list[p + (n - p)] = r[n - p]
      BY <2>2, <1>2
    <3>2. QED
      BY <3>1, <2>2, <1>1 DEF AllInSpace
  <2>3. QED
    BY <1>3, <2>1, <2>2
<1>5. ASSUME NEW a \in Int
      PROVE  ReadByte(list, a) =
               IF ReadByte(r, a) # None THEN ReadByte(r, a) ELSE ReadByte(l, a)
  <2>1. ASSUME NEW b, LastWins(r, q, a, b)
        PROVE  LastWins(list, p + q, a, b)
    <3>1. PICK m \in 1..q : Has(r[m], a, b) /\ \A k \in (m + 1)..q : ~Covers(r[k], a)
      BY <2>1 DEF LastWins
    <3>2. p + m \in 1..(p + q) /\ list[p + m] = r[m]
      BY <1>1, <1>2
    <3>3. ASSUME NEW k \in (p + m + 1)..(p + q)
          PROVE  ~Covers(list[k], a)
      <4>1. k - p \in (m + 1)..q /\ k - p \in 1..q /\ p + (k - p) = k
        BY <1>1
      <4>2. list[p + (k - p)] = r[k - p]
        BY <4>1, <1>2
      <4>3. QED
        BY <4>1, <4>2, <3>1
    <3>4. QED
      BY <3>1, <3>2, <3>3 DEF LastWins
  <2>2. ASSUME NEW b, LastWins(l, p, a, b), \A n \in 1..q : ~Covers(r[n], a)
        PROVE  LastWins(list, p + q, a, b)
    <3>1. PICK m \in 1..p : Has(l[m], a, b) /\ \A k \in (m + 1)..p : ~Covers(l[k], a)
      BY <2>2 DEF LastWins
    <3>2. m \in 1..(p + q) /\ list[m] = l[m]
      BY <1>1, <1>2
    <3>3. ASSUME NEW k \in (m + 1)..(p + q)
          PROVE  ~Covers(list[k], a)
      <4>1. CASE k <= p
        <5>1. k \in (m + 1)..p /\ k \in 1..p
          BY <4>1, <1>1
        <5>2. QED
          BY <5>1, <1>2, <3>1
      <4>2. CASE ~(k <= p)
        <5>1. k - p \in 1..q /\ p + (k - p) = k
          BY <4>2, <1>1
        <5>2. list[p + (k - p)] = r[k - p]
          BY <5>1, <1>2
        <5>3. QED
          BY <5>1, <5>2, <2>2
      <4>3. QED
        BY <4>1, <4>2
    <3>4. QED
      BY <3>1, <3>2, <3>3 DEF LastWins
  <2>3. ASSUME \A n \in 1..p : ~Covers(l[n], a), \A n \in 1..q : ~Covers(r[n], a)
        PROVE  \A n \in 1..(p + q) : ~Covers(list[n], a)
    <3>1. \A n \in 1..p : ~Covers(list[n], a)
      BY <2>3, <1>2
    <3>2. \A n \in 1..q : ~Covers(list[p + n], a)
      BY <2>3, <1>2
    <3>3. QED
      BY <3>1, <3>2, <1>3
  <2>4. CASE \E n \in 1..q : Covers(r[n], a)
    <3>1. ReadByte(r, a) # None /\ LastWins(r, q, a, ReadByte(r, a))
      BY <2>4, <1>1, ReadIsLastWins, ReadCovered
    <3>2. LastWins(list, p + q, a, ReadByte(r, a))
      BY <3>1, <2>1
    <3>3. ReadByte(list, a) = ReadByte(r, a)
      BY <3>2, <1>2, <1>4, ReadWins
    <3>4. QED
      BY <3>1, <3>3
  <2>5. CASE ~\E n \in 1..q : Covers(r[n], a)
    <3>1. ReadByte(r, a) = None
      BY <2>5, <1>1, ReadCovered
    <3>2. CASE \E n \in 1..p : Covers(l[n], a)
      <4>1. LastWins(l, p, a, ReadByte(l, a))
        BY <3>2, <1>1, ReadIsLastWins
      <4>2. LastWins(list, p + q, a, ReadByte(l, a))
        BY <4>1, <2>2, <2>5
      <4>3. ReadByte(list, a) = ReadByte(l, a)
        BY <4>2, <1>2, <1>4, ReadWins
      <4>4. QED
        BY <3>1, <4>3
    <3>3. CASE ~\E n \in 1..p : Covers(l[n], a)
      <4>1. ReadByte(l, a) = None
        BY <3>3, <1>1, ReadCovered
      <4>2. ReadByte(list, a) = None
        BY <3>3, <2>3, <2>5, <1>2, <1>4, ReadCovered
      <4>3. QED
        BY <3>1, <4>1, <4>2
    <3>4. QED
      BY <3>2, <3>3
  <2>6. QED
    BY <2>4, <2>5
<1>6. QED
  BY <1>1, <1>2, <1>4, <1>5

-----------------------------------------------------------------------------
(* Reading the normalized list *)

\* It reads as the raw one.
LEMMA ReadNormalized ==
  ASSUME NEW list \in ListType, AllInSpace(list), NEW a \in Int
  PROVE  ReadByte(Normalized(list), a) = ReadByte(list, a)
<1>1. PICK normal : /\ normal = Normalized(list) /\ normal \in ListType
                    /\ AllInSpace(normal) /\ Separated(normal)
                    /\ \A b : Holds(normal, a, b) <=> LastWins(list, Len(list), a, b)
  BY NormalizedReads
<1>2. CASE \E n \in 1..Len(list) : Covers(list[n], a)
  <2>1. LastWins(list, Len(list), a, ReadByte(list, a))
    BY <1>2, ReadIsLastWins
  <2>2. PICK n \in 1..Len(normal) : Has(normal[n], a, ReadByte(list, a))
    BY <2>1, <1>1 DEF Holds
  <2>3. Covers(normal[n], a) /\ ByteAt(normal[n], a) = ReadByte(list, a)
    BY <2>2 DEF Has
  <2>4. ReadByte(normal, a) = ReadByte(list, a)
    BY <2>3, <1>1, ReadSeparated
  <2>5. QED
    BY <2>4, <1>1
<1>3. CASE ~\E n \in 1..Len(list) : Covers(list[n], a)
  <2>1. ASSUME NEW n \in 1..Len(normal), Covers(normal[n], a)
        PROVE  FALSE
    <3>1. Holds(normal, a, ByteAt(normal[n], a))
      BY <2>1 DEF Holds, Has
    <3>2. QED
      BY <3>1, <1>1, <1>3 DEF LastWins, Has
  <2>2. ReadByte(normal, a) = None
    BY <2>1, <1>1, ReadIsLastWins
  <2>3. ReadByte(list, a) = None
    BY <1>3, ReadIsLastWins
  <2>4. QED
    BY <2>2, <2>3, <1>1
<1>4. QED
  BY <1>2, <1>3

LEMMA CoveredIs ==
  ASSUME NEW list \in ListType, AllInSpace(list), NEW a \in Int
  PROVE  a \in Covered(list) <=> ReadByte(list, a) # None
  BY ReadCovered DEF Covered

\* A covered address lies in a segment of the normalized list ...
LEMMA CoveredByRun ==
  ASSUME NEW list \in ListType, AllInSpace(list), NEW a \in Covered(list)
  PROVE  \E n \in 1..Len(Normalized(list)) : Covers(Normalized(list)[n], a)
<1>1. a \in Int /\ ReadByte(list, a) # None
  BY MaxAddrAssumption DEF Covered, Addr
<1>2. PICK normal : /\ normal = Normalized(list)
                    /\ normal \in ListType /\ AllInSpace(normal)
  BY NormalizedReads
<1>3. ReadByte(normal, a) # None
  BY <1>1, <1>2, ReadNormalized
<1>4. QED
  BY <1>1, <1>2, <1>3, ReadCovered

\* ... and a segment of it is a run of covered addresses that goes no further.
LEMMA NormalRun ==
  ASSUME NEW list \in ListType, AllInSpace(list), NEW n \in 1..Len(Normalized(list)),
         NEW s, s = Normalized(list)[n]
  PROVE  /\ InSpace(s)
         /\ \A a \in Int : Covers(s, a) =>
              a \in Covered(list) /\ ReadByte(list, a) = ByteAt(s, a)
         /\ s.start - 1 \notin Covered(list)
         /\ EndAddress(s) + 1 \notin Covered(list)
<1>1. PICK normal : /\ normal = Normalized(list) /\ normal \in ListType
                    /\ AllInSpace(normal) /\ Separated(normal)
  BY NormalizedReads
<1>2. n \in 1..Len(normal) /\ s = normal[n] /\ InSpace(s)
  BY <1>1 DEF AllInSpace
<1>3. /\ s.start \in Int /\ EndAddress(s) \in Int /\ s.start <= EndAddress(s)
  BY <1>2, SpanInSpace, MaxAddrAssumption DEF Addr
<1>4. ASSUME NEW a \in Int, Covers(s, a)
      PROVE  a \in Covered(list) /\ ReadByte(list, a) = ByteAt(s, a)
  <2>1. ReadByte(normal, a) = ByteAt(s, a) /\ ByteAt(s, a) # None
    BY <1>1, <1>2, <1>4, ReadSeparated, CoveredByte
  <2>2. ReadByte(list, a) = ByteAt(s, a)
    BY <2>1, <1>1, ReadNormalized
  <2>3. QED
    BY <2>1, <2>2, CoveredIs
<1>5. ASSUME NEW a \in Covered(list), a \in Int, a = s.start - 1 \/ a = EndAddress(s) + 1
      PROVE  FALSE
  <2>1. PICK m \in 1..Len(normal) : Covers(normal[m], a)
    BY <1>1, CoveredByRun
  <2>2. PICK t : t = normal[m] /\ InSpace(t)
    BY <1>1 DEF AllInSpace
  <2>3. /\ t.start \in Int /\ EndAddress(t) \in Int
        /\ t.start <= a /\ a <= EndAddress(t)
    BY <2>1, <2>2, <1>5, SpanInSpace, MaxAddrAssumption DEF Addr
  <2>4. /\ m < n => EndAddress(t) + 1 < s.start
        /\ n < m => EndAddress(s) + 1 < t.start
        /\ m = n => t = s
    BY <1>1, <1>2, <2>2 DEF Separated
  <2>5. m \in Int /\ n \in Int
    OBVIOUS
  <2>6. QED
    BY <2>3, <2>4, <2>5, <1>3, <1>5
<1>6. s.start - 1 \in Int /\ EndAddress(s) + 1 \in Int
  BY <1>3
<1>7. QED
  BY <1>2, <1>4, <1>5, <1>6

\* read_bytes_contiguous gives the bytes of a run of addresses, or None.
LEMMA ReadContiguous ==
  ASSUME NEW list \in ListType, AllInSpace(list),
         NEW a \in Addr, NEW len \in Nat \ {0}
  PROVE  ReadBytesContiguous(list, a, len) =
           IF len <= MaxAddr /\ \A k \in a..(a + len - 1) : k \in Covered(list)
             THEN [k \in 1..len |-> ReadByte(list, a + k - 1)]
             ELSE None
<1>1. PICK normal, end : /\ normal = Normalized(list) /\ normal \in ListType
                         /\ AllInSpace(normal) /\ end = a + len - 1
  BY NormalizedReads
<1> DEFINE whole == {n \in DOMAIN normal : a >= normal[n].start
                                           /\ end <= EndAddress(normal[n])}
           present == \A k \in a..end : k \in Covered(list)
<1>2. /\ a \in Int /\ end \in Int /\ a <= end /\ a + len - 1 = end /\ len > 0 /\ len # 0
      /\ a \in a..end /\ end \in a..end
  BY <1>1, MaxAddrAssumption DEF Addr
<1>3. DOMAIN normal = 1..Len(normal) /\ Len(normal) \in Nat
  BY <1>1, LenProperties DEF ListType
<1>4. CASE len > MaxAddr
  BY <1>2, <1>4, MaxAddrAssumption DEF ReadBytesContiguous
<1>5. CASE ~(len > MaxAddr) /\ end > MaxAddr
  <2>1. ReadBytesContiguous(list, a, len) = None
    BY <1>2, <1>5 DEF ReadBytesContiguous
  <2>2. end \notin Covered(list)
    BY <1>2, <1>5, MaxAddrAssumption DEF Covered, Addr
  <2>3. QED
    BY <2>1, <2>2, <1>2
<1>6. CASE ~(len > MaxAddr) /\ ~(end > MaxAddr) /\ whole = {}
  <2>1. ReadBytesContiguous(list, a, len) = None
    BY <1>1, <1>2, <1>6 DEF ReadBytesContiguous
  <2>2. ASSUME present
        PROVE  FALSE
    <3>1. a \in Covered(list)
      BY <1>2, <2>2
    <3>2. PICK n \in 1..Len(normal) : Covers(normal[n], a)
      BY <3>1, <1>1, CoveredByRun
    <3>3. PICK s : s = normal[n]
      OBVIOUS
    <3>4. InSpace(s) /\ EndAddress(s) + 1 \notin Covered(list)
      BY <1>1, <3>3, NormalRun
    <3>5. /\ s.start <= a /\ a <= EndAddress(s) /\ EndAddress(s) \in Int /\ s.start \in Int
      BY <1>2, <3>2, <3>3, <3>4, SpanInSpace, MaxAddrAssumption DEF Addr
    <3>6. ~(end <= EndAddress(s))
      BY <1>2, <1>3, <1>6, <3>2, <3>3, <3>5
    <3>7. EndAddress(s) + 1 \in a..end
      BY <1>2, <3>5, <3>6
    <3>8. QED
      BY <3>4, <3>7, <2>2
  <2>3. ~\A k \in a..(a + len - 1) : k \in Covered(list)
    BY <2>2, <1>2
  <2>4. QED
    BY <2>1, <2>3
<1>7. CASE ~(len > MaxAddr) /\ ~(end > MaxAddr) /\ whole # {}
  <2>1. whole \in SUBSET (1..Len(normal))
    BY <1>3
  <2>2. PICK n \in whole : n = Min(whole)
    <3>1. whole \subseteq Int /\ (\A x \in whole : 0 <= x) /\ whole # {} /\ 0 \in Int
      BY <2>1, <1>7
    <3> HIDE DEF whole
    <3>2. Min(whole) \in whole
      BY <3>1, MinOf
    <3>3. QED
      BY <3>2
  <2>3. PICK s : s = normal[n]
    OBVIOUS
  <2>4. n \in 1..Len(normal) /\ a >= s.start /\ end <= EndAddress(s)
    BY <2>1, <2>2, <2>3
  <2>5. /\ InSpace(s)
        /\ \A x \in Int : Covers(s, x) =>
             x \in Covered(list) /\ ReadByte(list, x) = ByteAt(s, x)
    BY <1>1, <2>3, <2>4, NormalRun
  <2>6. /\ s.start \in Int /\ EndAddress(s) \in Int
        /\ \A x \in Int : Covers(s, x) <=> s.start <= x /\ x <= EndAddress(s)
    BY <2>5, SpanInSpace, MaxAddrAssumption DEF Addr
  <2>7. \A k \in a..end : k \in Int /\ Covers(s, k)
    BY <1>2, <2>4, <2>6
  <2>8. present
    BY <2>5, <2>7
  <2>9. ReadBytesContiguous(list, a, len) = Clip(s, a, end).data
    BY <1>1, <1>2, <1>7, <2>2, <2>3 DEF ReadBytesContiguous
  <2>10. PICK c : /\ c = Clip(s, a, end) /\ InSpace(c) /\ c.start = a /\ EndAddress(c) = end
                  /\ \A x \in Int : \A b : Has(c, x, b) <=> a <= x /\ x <= end /\ Has(s, x, b)
    BY <1>2, <2>4, <2>5, <2>6, ClipInSpace
  <2>11. c.data \in Seq(Byte) /\ Len(c.data) = len
    <3>1. EndAddress(c) = c.start + Len(c.data) - 1 /\ Len(c.data) \in Nat
      BY <2>10, SpanInSpace, LenProperties DEF InSpace
    <3>2. QED
      BY <3>1, <2>10, <1>2 DEF InSpace
  <2>12. ASSUME NEW k \in 1..len
         PROVE  c.data[k] = ReadByte(list, a + k - 1)
    <3>1. PICK x : x = a + k - 1 /\ x \in a..end /\ x \in Int /\ x - a + 1 = k
      BY <1>2
    <3>2. Covers(c, x) /\ ByteAt(c, x) = c.data[k]
      BY <3>1, <1>2, <2>10, <2>11 DEF Covers, ByteAt
    <3>3. Has(s, x, c.data[k])
      BY <3>1, <3>2, <2>10 DEF Has
    <3>4. QED
      BY <3>1, <3>3, <2>5 DEF Has
  <2>13. c.data = [k \in 1..len |-> c.data[k]]
    BY <2>11, SeqDef
  <2>14. c.data = [k \in 1..len |-> ReadByte(list, a + k - 1)]
    BY <2>12, <2>13
  <2>15. \A k \in a..(a + len - 1) : k \in Covered(list)
    BY <2>8, <1>2
  <2>16. len <= MaxAddr
    BY <1>2, <1>7, MaxAddrAssumption
  <2>17. QED
    BY <2>9, <2>10, <2>14, <2>15, <2>16
<1>8. QED
  BY <1>4, <1>5, <1>6, <1>7

\* The bounds of a list that is not empty.
LEMMA MinMaxAddress ==
  ASSUME NEW list \in ListType, AllInSpace(list), list # <<>>,
         NEW lo, lo = MinAddress(list), NEW hi, hi = MaxAddress(list)
  PROVE  /\ lo \in Addr /\ hi \in Addr /\ lo <= hi
         /\ \E n \in 1..Len(list) : list[n].start = lo
         /\ \E n \in 1..Len(list) : EndAddress(list[n]) = hi
         /\ \A n \in 1..Len(list) : lo <= list[n].start /\ EndAddress(list[n]) <= hi
<1> DEFINE S == {list[n].start : n \in DOMAIN list}
           E == {EndAddress(list[n]) : n \in DOMAIN list}
<1>1. DOMAIN list = 1..Len(list) /\ Len(list) \in Nat \ {0}
  BY LenProperties, EmptySeq DEF ListType
<1>2. \A n \in 1..Len(list) :
        /\ list[n].start \in Int /\ EndAddress(list[n]) \in Int
        /\ 0 <= list[n].start /\ list[n].start <= EndAddress(list[n])
        /\ EndAddress(list[n]) <= MaxAddr
  <2> SUFFICES ASSUME NEW n \in 1..Len(list), NEW s, s = list[n]
               PROVE  /\ s.start \in Int /\ EndAddress(s) \in Int
                      /\ 0 <= s.start /\ s.start <= EndAddress(s)
                      /\ EndAddress(s) <= MaxAddr
    OBVIOUS
  <2>1. InSpace(s)
    BY DEF AllInSpace
  <2>2. QED
    BY <2>1, SpanInSpace, MaxAddrAssumption DEF Addr
<1>3. /\ S \subseteq Int /\ S # {} /\ \A x \in S : 0 <= x
      /\ E \subseteq Int /\ E # {} /\ \A x \in E : x <= MaxAddr
  <2>1. 1 \in DOMAIN list
    BY <1>1
  <2>2. S # {} /\ E # {}
    BY <2>1
  <2>3. S \subseteq Int /\ \A x \in S : 0 <= x
    BY <1>1, <1>2
  <2>4. E \subseteq Int /\ \A x \in E : x <= MaxAddr
    BY <1>1, <1>2
  <2>5. QED
    BY <2>2, <2>3, <2>4
<1>4. lo = Min(S) /\ hi = Max(E)
  BY DEF MinAddress, MaxAddress
<1>5. \A n \in 1..Len(list) : list[n].start \in S /\ EndAddress(list[n]) \in E
  BY <1>1
<1>6. /\ lo \in S => \E n \in 1..Len(list) : list[n].start = lo
      /\ hi \in E => \E n \in 1..Len(list) : EndAddress(list[n]) = hi
  BY <1>1
<1> HIDE DEF S, E
<1>7. lo \in S /\ \A x \in S : lo <= x
  <2>1. 0 \in Int /\ S \subseteq Int /\ S # {} /\ \A x \in S : 0 <= x
    BY <1>3
  <2>2. Min(S) \in S /\ \A x \in S : Min(S) <= x
    BY <2>1, MinOf
  <2>3. QED
    BY <2>2, <1>4
<1>8. hi \in E /\ \A x \in E : x <= hi
  <2>1. MaxAddr \in Int /\ E \subseteq Int /\ E # {} /\ \A x \in E : x <= MaxAddr
    BY <1>3, MaxAddrAssumption
  <2>2. Max(E) \in E /\ \A x \in E : x <= Max(E)
    BY <2>1, MaxOf
  <2>3. QED
    BY <2>2, <1>4
<1>9. PICK n \in 1..Len(list) : list[n].start = lo
  BY <1>6, <1>7
<1>10. /\ lo \in Int /\ hi \in Int /\ 0 <= lo /\ hi <= MaxAddr
  BY <1>3, <1>7, <1>8
<1>11. lo <= EndAddress(list[n]) /\ EndAddress(list[n]) <= hi /\ EndAddress(list[n]) \in Int
  BY <1>2, <1>5, <1>8, <1>9
<1>12. lo <= hi
  BY <1>10, <1>11
<1>13. lo \in Addr /\ hi \in Addr
  BY <1>10, <1>12, MaxAddrAssumption DEF Addr
<1>14. QED
  BY <1>5, <1>6, <1>7, <1>8, <1>12, <1>13
-----------------------------------------------------------------------------
(* subtract_ranges *)

SubType == [out : Seq(RangeType), cursor : Nat]

\* What is kept of r behind the first k excluded ranges, up to the cursor.
SubtractPoint(r, ex, k, out, cur) ==
  /\ out \in Seq(RangeType) /\ cur \in Int
  /\ r.start <= cur /\ cur <= r.end + 1
  /\ \A a \in Int : InAny(a, out) <=> /\ r.start <= a /\ a < cur
                                      /\ \A m \in 1..k : ~In(a, ex[m])
  /\ \A m \in 1..k : ex[m].end < cur \/ ex[m].start > r.end \/ cur = r.end + 1
  /\ cur = r.start \/ \A m \in (k + 1)..Len(ex) : cur <= ex[m].start

LEMMA AppendRange ==
  ASSUME NEW out \in Seq(RangeType), NEW r \in RangeType
  PROVE  /\ Append(out, r) \in Seq(RangeType)
         /\ \A a : InAny(a, Append(out, r)) <=> InAny(a, out) \/ In(a, r)
<1>1. PICK more, L : more = Append(out, r) /\ L = Len(out) /\ L \in Nat
  BY LenProperties
<1>2. /\ more \in Seq(RangeType) /\ Len(more) = L + 1
      /\ \A k \in 1..L : more[k] = out[k]
      /\ more[L + 1] = r
  BY <1>1, AppendProperties
<1>3. ASSUME NEW a
      PROVE  InAny(a, more) <=> InAny(a, out) \/ In(a, r)
  <2>1. 1..(L + 1) = (1..L) \union {L + 1}
    BY <1>1
  <2> HIDE DEF In
  <2>2. InAny(a, more) <=> (\E k \in 1..L : In(a, more[k])) \/ In(a, more[L + 1])
    BY <2>1, <1>2 DEF InAny
  <2>3. InAny(a, out) <=> \E k \in 1..L : In(a, more[k])
    BY <1>1, <1>2 DEF InAny
  <2>4. QED
    BY <2>2, <2>3, <1>2
<1>4. QED
  BY <1>1, <1>2, <1>3

\* Pushing a range under a condition.
LEMMA PushRange ==
  ASSUME NEW out \in Seq(RangeType), NEW cond \in BOOLEAN, NEW lo \in Int, NEW hi \in Int,
         cond => 0 <= lo /\ lo <= hi /\ hi <= MaxAddr
  PROVE  /\ PushIf(out, cond, FromStartEnd(lo, hi)) \in Seq(RangeType)
         /\ \A a \in Int : InAny(a, PushIf(out, cond, FromStartEnd(lo, hi)))
                             <=> InAny(a, out) \/ (cond /\ lo <= a /\ a <= hi)
<1>1. CASE ~cond
  BY <1>1 DEF PushIf
<1>2. CASE cond
  <2>1. PICK r \in RangeType : r = FromStartEnd(lo, hi)
    BY <1>2, RangeMade
  <2>2. \A a : In(a, r) <=> lo <= a /\ a <= hi
    BY <1>2, <2>1, RangeMade
  <2>3. PushIf(out, cond, FromStartEnd(lo, hi)) = Append(out, r)
    BY <1>2, <2>1 DEF PushIf
  <2>4. /\ Append(out, r) \in Seq(RangeType)
        /\ \A a : InAny(a, Append(out, r)) <=> InAny(a, out) \/ In(a, r)
    BY AppendRange
  <2> HIDE DEF In, InAny
  <2>5. QED
    BY <1>2, <2>2, <2>3, <2>4
<1>3. QED
  BY <1>1, <1>2

\* The numbers of r and of an excluded range.
LEMMA SubtractStepType ==
  ASSUME NEW acc \in SubType, NEW x \in RangeType, NEW r \in RangeType
  PROVE  SubtractStep(acc, x, r) \in SubType
<1>1. PICK out, cur : /\ out \in Seq(RangeType) /\ cur \in Nat
                      /\ acc = [out |-> out, cursor |-> cur]
  BY DEF SubType
<1>2. /\ x.start \in Int /\ x.end \in Int /\ r.end \in Int
      /\ 0 <= x.start /\ x.start <= x.end /\ x.end <= MaxAddr /\ 0 <= r.end
  BY RangeFacts
<1>3. Min({x.end, r.end}) + 1 \in Nat
  <2>1. Min({x.end, r.end}) = IF x.end <= r.end THEN x.end ELSE r.end
    BY <1>2, MinOfTwo
  <2>2. QED
    BY <1>2, <2>1
<1>4. PushIf(out, cur < x.start, FromStartEnd(cur, x.start - 1)) \in Seq(RangeType)
  <2>1. /\ (cur < x.start) \in BOOLEAN /\ x.start - 1 \in Int /\ cur \in Int
        /\ (cur < x.start) => 0 <= cur /\ cur <= x.start - 1 /\ x.start - 1 <= MaxAddr
    BY <1>1, <1>2, MaxAddrAssumption
  <2>2. QED
    BY <1>1, <2>1, PushRange
<1>5. QED
  BY <1>1, <1>3, <1>4 DEF SubtractStep, SubType

IsSubtractRun(acc, r, ex, last) ==
  /\ \A k \in 0..Len(ex) : acc[k] \in SubType
  /\ acc[0] = [out |-> <<>>, cursor |-> r.start]
  /\ \A k \in 1..Len(ex) : acc[k] = SubtractStep(acc[k - 1], ex[k], r)
  /\ last = acc[Len(ex)]

LEMMA SubtractRun ==
  ASSUME NEW r \in RangeType, NEW ex \in Seq(RangeType)
  PROVE  \E acc : IsSubtractRun(acc, r, ex, Subtracted(r, ex))
<1> DEFINE N == Len(ex)
           A == SubType
           base == [out |-> <<>>, cursor |-> r.start]
           F == [p \in A \X (1..N) |-> SubtractStep(p[1], ex[p[2]], r)]
           E(g) == g = [s \in SUBSET (1..N) |->
                     IF s = {} THEN base
                     ELSE LET x == Max(s) IN SubtractStep(g[s \ {x}], ex[x], r)]
           g == CHOOSE h : E(h)
<1>1. DOMAIN ex = 1..N /\ N \in Nat /\ \A k \in 1..N : ex[k] \in RangeType
  BY LenProperties, ElementOfSeq
<1>2. Subtracted(r, ex) = g[1..N]
  BY <1>1, Zenon DEF Subtracted, FoldLeft, MapThenFoldSet
<1>3. IsStep(F, N, A) /\ base \in A
  <2>1. \A a \in A, k \in 1..N : SubtractStep(a, ex[k], r) \in A
    BY <1>1, SubtractStepType
  <2>2. base \in A
    <3>1. r.start \in Nat /\ <<>> \in Seq(RangeType)
      BY RangeFacts, EmptySeq
    <3>2. QED
      BY <3>1 DEF SubType
  <2> HIDE DEF A
  <2>3. QED
    BY <2>1, <2>2 DEF IsStep
<1>4. \A s \in SUBSET (1..N) : s # {} => Max(s) \in 1..N /\ s \ {Max(s)} \in SUBSET (1..N)
  BY <1>1, MaxUpTo
<1>5. \A k \in 1..N, y \in A : F[<<y, k>>] = SubtractStep(y, ex[k], r)
  OBVIOUS
<1> HIDE DEF N, A, F, base
<1>6. \E h : E(h)
  <2>1. PICK h \in [SUBSET (1..N) -> A] : Folds(h, N, base, F)
    BY <1>1, <1>3, FoldExists
  <2>2. \A s \in SUBSET (1..N) : s # {} =>
          h[s] = SubtractStep(h[s \ {Max(s)}], ex[Max(s)], r)
    BY <2>1, <1>4, <1>5 DEF Folds
  <2>3. E(h)
    BY <2>1, <2>2 DEF Folds
  <2>4. QED
    BY <2>3, Zenon
<1>7. E(g)
  <2> HIDE DEF E
  <2>1. QED
    BY <1>6, Zenon
<1> HIDE DEF g
<1>8. FoldsWithin(g, N, A, base, F)
  BY <1>4, <1>5, <1>7 DEF FoldsWithin
<1> HIDE DEF E
<1>9. PICK acc : IsRun(acc, N, A, base, F) /\ g[1..N] = acc[N]
  BY <1>1, <1>3, <1>8, FoldRun
<1>10. \A k \in 1..N : acc[k] = SubtractStep(acc[k - 1], ex[k], r)
  <2> SUFFICES ASSUME NEW k \in 1..N
               PROVE  acc[k] = F[<<acc[k - 1], k>>] /\ acc[k - 1] \in A
    BY <1>5
  <2>1. k - 1 \in 0..N
    BY <1>1
  <2>2. QED
    BY <2>1, <1>9 DEF IsRun
<1>11. IsSubtractRun(acc, r, ex, g[1..N])
  BY <1>9, <1>10 DEF IsRun, IsSubtractRun, N, A, base
<1>12. QED
  BY <1>2, <1>11 DEF base

\* One more excluded range.
LEMMA SubtractNext ==
  ASSUME NEW r \in RangeType, NEW ex \in Seq(RangeType), Apart(ex), NEW k \in 1..Len(ex),
         NEW acc \in SubType, SubtractPoint(r, ex, k - 1, acc.out, acc.cursor),
         NEW more, more = SubtractStep(acc, ex[k], r)
  PROVE  SubtractPoint(r, ex, k, more.out, more.cursor)
<1>1. PICK x, out, cur : /\ x = ex[k] /\ x \in RangeType
                         /\ out = acc.out /\ cur = acc.cursor
  BY ElementOfSeq
<1>2. /\ x.start \in Int /\ x.end \in Int /\ r.start \in Int /\ r.end \in Int
      /\ 0 <= x.start /\ x.start <= x.end /\ x.end <= MaxAddr
      /\ 0 <= r.start /\ r.start <= r.end /\ r.end <= MaxAddr
  BY <1>1, RangeFacts
<1>3. /\ out \in Seq(RangeType) /\ cur \in Int
      /\ r.start <= cur /\ cur <= r.end + 1
      /\ cur = r.start \/ \A m \in k..Len(ex) : cur <= ex[m].start
  BY <1>1 DEF SubtractPoint
<1>4. /\ \A a \in Int : InAny(a, out) <=> /\ r.start <= a /\ a < cur
                                          /\ \A m \in 1..(k - 1) : ~In(a, ex[m])
      /\ \A m \in 1..(k - 1) : ex[m].end < cur \/ ex[m].start > r.end \/ cur = r.end + 1
  BY <1>1 DEF SubtractPoint
<1>5. k \in Nat /\ Len(ex) \in Nat /\ k <= Len(ex) /\ k >= 1
  BY LenProperties
<1>6. cur = r.start \/ cur <= x.start
  BY <1>1, <1>3, <1>5
<1>7. \A m \in 1..k : m = k \/ m \in 1..(k - 1)
  BY <1>5
<1>8. \A m \in (k + 1)..Len(ex) : m \in k..Len(ex) /\ m \in 1..Len(ex) /\ k < m
  BY <1>5
<1>9. \A m \in (k + 1)..Len(ex) : x.end + 1 < ex[m].start /\ ex[m].start \in Int
  <2> SUFFICES ASSUME NEW m \in (k + 1)..Len(ex)
               PROVE  x.end + 1 < ex[m].start /\ ex[m].start \in Int
    OBVIOUS
  <2>1. ex[m] \in RangeType
    BY <1>8, ElementOfSeq
  <2>2. QED
    BY <2>1, <1>1, <1>8, RangeFacts DEF Apart
<1>10. CASE x.end < cur \/ x.start > r.end
  <2>1. more = acc
    BY <1>1, <1>10 DEF SubtractStep
  <2>2. ASSUME NEW a \in Int, r.start <= a, a < cur
        PROVE  ~In(a, x)
    BY <2>2, <1>2, <1>3, <1>6, <1>10 DEF In
  <2>3. \A a \in Int : InAny(a, out) <=> /\ r.start <= a /\ a < cur
                                         /\ \A m \in 1..k : ~In(a, ex[m])
    <3> SUFFICES ASSUME NEW a \in Int
                 PROVE  InAny(a, out) <=> /\ r.start <= a /\ a < cur
                                          /\ \A m \in 1..k : ~In(a, ex[m])
      OBVIOUS
    <3> HIDE DEF In, InAny
    <3>1. (\A m \in 1..k : ~In(a, ex[m]))
            <=> (\A m \in 1..(k - 1) : ~In(a, ex[m])) /\ ~In(a, ex[k])
      BY <1>5, <1>7
    <3>2. QED
      BY <3>1, <2>2, <1>1, <1>4
  <2>4. \A m \in 1..k : ex[m].end < cur \/ ex[m].start > r.end \/ cur = r.end + 1
    BY <1>1, <1>4, <1>7, <1>10
  <2>5. QED
    BY <2>1, <2>3, <2>4, <1>1, <1>3, <1>8 DEF SubtractPoint
<1>11. CASE ~(x.end < cur \/ x.start > r.end)
  <2>1. PICK left, cut :
               /\ left = PushIf(out, cur < x.start, FromStartEnd(cur, x.start - 1))
               /\ cut = (IF x.end <= r.end THEN x.end ELSE r.end) + 1
    OBVIOUS
  <2>2. more.out = left /\ more.cursor = cut
    <3>1. Min({x.end, r.end}) = IF x.end <= r.end THEN x.end ELSE r.end
      BY <1>2, MinOfTwo
    <3>2. QED
      BY <3>1, <2>1, <1>1, <1>11 DEF SubtractStep
  <2>3. /\ left \in Seq(RangeType)
        /\ \A a \in Int : InAny(a, left)
             <=> InAny(a, out) \/ ((cur < x.start) /\ cur <= a /\ a <= x.start - 1)
    <3>1. /\ (cur < x.start) \in BOOLEAN /\ x.start - 1 \in Int
          /\ (cur < x.start) => 0 <= cur /\ cur <= x.start - 1 /\ x.start - 1 <= MaxAddr
      BY <1>2, <1>3, MaxAddrAssumption
    <3>2. QED
      BY <3>1, <2>1, <1>3, PushRange
  <2>4. cut \in Int /\ cur <= cut /\ cut <= r.end + 1 /\ r.start <= cut /\ cut <= x.end + 1
        /\ x.start < cut
    <3>1. PICK xs \in Int, xe \in Int, rs \in Int, re \in Int :
                 xs = x.start /\ xe = x.end /\ rs = r.start /\ re = r.end
      BY <1>2
    <3>2. cur \in Int /\ rs <= cur /\ cur <= re + 1 /\ rs <= re /\ xs <= xe
      BY <3>1, <1>2, <1>3
    <3>3. cur <= xe /\ xs <= re
      BY <3>1, <3>2, <1>11
    <3>4. cut = (IF xe <= re THEN xe ELSE re) + 1
      BY <3>1, <2>1
    <3>5. cut \in Int /\ cur <= cut /\ cut <= re + 1 /\ rs <= cut /\ cut <= xe + 1 /\ xs < cut
      BY <3>2, <3>3, <3>4
    <3>6. QED
      BY <3>1, <3>5
  <2>5. ASSUME NEW a \in Int
        PROVE  InAny(a, left) <=> /\ r.start <= a /\ a < cut
                                  /\ \A m \in 1..k : ~In(a, ex[m])
    <3>1. (\A m \in 1..k : ~In(a, ex[m]))
            <=> (\A m \in 1..(k - 1) : ~In(a, ex[m])) /\ ~In(a, x)
      <4> HIDE DEF In
      <4>1. QED
        BY <1>1, <1>5, <1>7
    <3>2. CASE a < cur
      <4>1. ~((cur < x.start) /\ cur <= a /\ a <= x.start - 1) /\ a < cut
        BY <3>2, <2>4, <1>2, <1>3
      <4>2. r.start <= a => ~In(a, x)
        BY <3>2, <1>2, <1>3, <1>6 DEF In
      <4> HIDE DEF InAny, In
      <4>3. QED
        BY <3>1, <3>2, <4>1, <4>2, <2>3, <1>4
    <3>3. CASE ~(a < cur)
      <4>1. ~InAny(a, out)
        BY <3>3, <1>4
      <4>2. ((cur < x.start) /\ cur <= a /\ a <= x.start - 1) <=> a < x.start
        BY <3>3, <1>2, <1>3
      <4>3. a < cut => \A m \in 1..(k - 1) : ~In(a, ex[m])
        <5> SUFFICES ASSUME a < cut, NEW m \in 1..(k - 1), In(a, ex[m])
                     PROVE  FALSE
          OBVIOUS
        <5>1. PICK y : y = ex[m] /\ y \in RangeType
          <6>1. m \in 1..Len(ex)
            BY <1>5
          <6>2. QED
            BY <6>1, ElementOfSeq
        <5>2. /\ y.start \in Int /\ y.end \in Int /\ y.start <= a /\ a <= y.end
              /\ y.end < cur \/ y.start > r.end \/ cur = r.end + 1
          BY <5>1, <1>4, RangeFacts DEF In
        <5>3. /\ r.end \in Int /\ cur \in Int /\ cut \in Int
              /\ cur <= a /\ a < cut /\ cut <= r.end + 1
          BY <3>3, <2>4, <1>2, <1>3
        <5>4. QED
          BY <5>2, <5>3
      <4>4. a < cut => (~In(a, x) <=> a < x.start)
        BY <2>1, <1>2 DEF In
      <4>5. a < x.start => r.start <= a /\ a < cut
        BY <3>3, <2>4, <1>2, <1>3
      <4>6. r.start <= a
        BY <3>3, <1>2, <1>3
      <4> HIDE DEF InAny, In
      <4>7. QED
        BY <3>1, <4>1, <4>2, <4>3, <4>4, <4>5, <4>6, <2>3
    <3>4. QED
      BY <3>2, <3>3
  <2>6. ASSUME NEW m \in 1..k
        PROVE  ex[m].end < cut \/ ex[m].start > r.end \/ cut = r.end + 1
    <3>1. CASE m = k
      BY <3>1, <2>1, <1>1, <1>2
    <3>2. CASE m # k
      <4>1. PICK y : y = ex[m] /\ y \in RangeType
        <5>1. m \in 1..Len(ex)
          BY <1>5
        <5>2. QED
          BY <5>1, ElementOfSeq
      <4>2. /\ y.start \in Int /\ y.end \in Int
            /\ y.end < cur \/ y.start > r.end \/ cur = r.end + 1
        BY <3>2, <4>1, <1>4, <1>7, RangeFacts
      <4>3. QED
        BY <4>1, <4>2, <2>4, <1>2, <1>3
    <3>3. QED
      BY <3>1, <3>2
  <2>7. \A m \in (k + 1)..Len(ex) : cut <= ex[m].start
    BY <2>4, <1>2, <1>9
  <2>8. QED
    BY <2>2, <2>3, <2>4, <2>5, <2>6, <2>7 DEF SubtractPoint
<1>12. QED
  BY <1>10, <1>11

\* The addresses of r that no excluded range has.
LEMMA SubtractRangesIn ==
  ASSUME NEW r \in RangeType, NEW ex \in Seq(RangeType), Apart(ex)
  PROVE  /\ SubtractRanges(r, ex) \in Seq(RangeType)
         /\ \A a \in Int : InAny(a, SubtractRanges(r, ex)) <=> In(a, r) /\ ~InAny(a, ex)
<1>1. PICK last, acc : last = Subtracted(r, ex) /\ IsSubtractRun(acc, r, ex, last)
  BY SubtractRun
<1> DEFINE N == Len(ex)
           T == {k \in 0..N : SubtractPoint(r, ex, k, acc[k].out, acc[k].cursor)}
<1>2. N \in Nat
  BY LenProperties
<1>3. 0 \in T
  <2>1. acc[0].out = <<>> /\ acc[0].cursor = r.start
    BY <1>1 DEF IsSubtractRun
  <2>2. SubtractPoint(r, ex, 0, <<>>, r.start)
    BY EmptySeq, RangeFacts DEF SubtractPoint, InAny
  <2>3. QED
    BY <2>1, <2>2, <1>2
<1>4. ASSUME NEW k \in 0..(N - 1), k \in T
      PROVE  k + 1 \in T
  <2>1. k + 1 \in 1..N /\ (k + 1) - 1 = k /\ k \in 0..N /\ k + 1 \in 0..N
    BY <1>2
  <2>2. PICK m, prev, more : /\ m \in 1..Len(ex) /\ prev \in SubType
                             /\ m = k + 1 /\ prev = acc[k] /\ more = acc[k + 1]
    BY <2>1, <1>1 DEF IsSubtractRun
  <2>3. SubtractPoint(r, ex, m - 1, prev.out, prev.cursor)
    BY <2>1, <2>2, <1>4
  <2>4. more = SubtractStep(prev, ex[m], r)
    BY <2>1, <2>2, <1>1 DEF IsSubtractRun
  <2>5. SubtractPoint(r, ex, m, more.out, more.cursor)
    BY <2>2, <2>3, <2>4, SubtractNext
  <2>6. QED
    BY <2>1, <2>2, <2>5
<1>5. N \in T
  <2> HIDE DEF T, N
  <2>1. \A k \in 0..N : k \in T
    BY <1>2, <1>3, <1>4, InductionUpTo
  <2>2. QED
    BY <2>1, <1>2
<1>6. PICK out, cur : /\ out = last.out /\ cur = last.cursor
                      /\ SubtractPoint(r, ex, N, out, cur)
  BY <1>1, <1>5 DEF IsSubtractRun
<1>8. SubtractRanges(r, ex) = PushIf(out, cur <= r.end, FromStartEnd(cur, r.end))
  BY <1>1, <1>6 DEF SubtractRanges
<1>9. /\ out \in Seq(RangeType) /\ cur \in Int /\ r.start <= cur /\ cur <= r.end + 1
      /\ r.start \in Int /\ r.end \in Int /\ 0 <= r.start /\ r.end <= MaxAddr
  BY <1>6, RangeFacts DEF SubtractPoint
<1>10. /\ PushIf(out, cur <= r.end, FromStartEnd(cur, r.end)) \in Seq(RangeType)
       /\ \A a \in Int : InAny(a, PushIf(out, cur <= r.end, FromStartEnd(cur, r.end)))
                           <=> InAny(a, out) \/ ((cur <= r.end) /\ cur <= a /\ a <= r.end)
  <2>1. /\ (cur <= r.end) \in BOOLEAN
        /\ (cur <= r.end) => 0 <= cur /\ cur <= r.end /\ r.end <= MaxAddr
    BY <1>9
  <2>2. QED
    BY <2>1, <1>9, PushRange
<1>11. ASSUME NEW a \in Int
       PROVE  (InAny(a, out) \/ ((cur <= r.end) /\ cur <= a /\ a <= r.end))
              <=> (In(a, r) /\ ~InAny(a, ex))
  <2>1. InAny(a, out) <=> r.start <= a /\ a < cur /\ ~InAny(a, ex)
    BY <1>6 DEF SubtractPoint, InAny
  <2>2. cur <= a /\ a <= r.end => ~InAny(a, ex)
    <3> SUFFICES ASSUME cur <= a, a <= r.end, NEW m \in 1..Len(ex), In(a, ex[m])
                 PROVE  FALSE
      BY DEF InAny
    <3>1. PICK y : y = ex[m] /\ y \in RangeType
      BY ElementOfSeq
    <3>2. /\ y.start \in Int /\ y.end \in Int /\ y.start <= a /\ a <= y.end
          /\ y.end < cur \/ y.start > r.end \/ cur = r.end + 1
      BY <3>1, <1>6, RangeFacts DEF In, SubtractPoint
    <3>3. QED
      BY <3>2, <1>9
  <2>3. a < cur => (In(a, r) <=> r.start <= a) /\ ~(cur <= a)
    BY <1>9 DEF In
  <2>4. ~(a < cur) => (In(a, r) <=> a <= r.end) /\ cur <= a
    BY <1>9 DEF In
  <2>5. ~(a < cur) /\ a <= r.end => cur <= r.end
    BY <1>9
  <2> HIDE DEF In, InAny
  <2>6. QED
    BY <2>1, <2>2, <2>3, <2>4, <2>5
<1>12. QED
  BY <1>8, <1>10, <1>11

-----------------------------------------------------------------------------
(* The ranges to include *)

LEMMA SegRangeIn ==
  ASSUME NEW s, InSpace(s)
  PROVE  /\ SegRange(s) \in RangeType
         /\ SegRange(s).start = s.start /\ SegRange(s).end = EndAddress(s)
         /\ \A a \in Int : In(a, SegRange(s)) <=> Covers(s, a)
<1>1. /\ s.start \in Int /\ EndAddress(s) \in Int /\ 0 <= s.start
      /\ s.start <= EndAddress(s) /\ EndAddress(s) <= MaxAddr
      /\ \A a \in Int : Covers(s, a) <=> s.start <= a /\ a <= EndAddress(s)
  BY SpanInSpace, MaxAddrAssumption DEF Addr
<1>2. QED
  BY <1>1, RangeMade DEF SegRange

\* A list made element by element.
LEMMA MadeRanges ==
  ASSUME NEW f, NEW N \in Nat, DOMAIN f = 1..N, f = [k \in 1..N |-> f[k]],
         \A k \in 1..N : f[k] \in RangeType
  PROVE  /\ f \in Seq(RangeType) /\ Len(f) = N
         /\ \A a : InAny(a, f) <=> \E k \in 1..N : In(a, f[k])
<1>1. f \in Seq(RangeType)
  BY IsASeq
<1>2. Len(f) = N
  BY <1>1, LenProperties
<1>3. QED
  BY <1>1, <1>2 DEF InAny

CoveredAt(list, a) == \E k \in 1..Len(list) : Covers(list[k], a)

LEMMA DataRanges ==
  ASSUME NEW list \in ListType, AllInSpace(list)
  PROVE  LET spans == [k \in DOMAIN list |-> SegRange(list[k])]
         IN /\ spans \in Seq(RangeType)
            /\ \A a \in Int : InAny(a, spans) <=> CoveredAt(list, a)
<1> DEFINE N == Len(list)
           spans == [k \in 1..N |-> SegRange(list[k])]
<1>1. N \in Nat /\ DOMAIN list = 1..N
  BY LenProperties DEF ListType
<1>2. \A k \in 1..N : SegRange(list[k]) \in RangeType
  BY SegRangeIn DEF AllInSpace
<1>3. /\ spans \in Seq(RangeType)
      /\ \A a : InAny(a, spans) <=> \E k \in 1..N : In(a, spans[k])
  <2>1. /\ DOMAIN spans = 1..N /\ spans = [k \in 1..N |-> spans[k]]
        /\ \A k \in 1..N : spans[k] \in RangeType
    BY <1>2
  <2> HIDE DEF spans, N
  <2>2. QED
    BY <1>1, <2>1, MadeRanges
<1>4. \A a \in Int : \A k \in 1..N : In(a, SegRange(list[k])) <=> Covers(list[k], a)
  BY SegRangeIn DEF AllInSpace
<1>5. QED
  BY <1>1, <1>3, <1>4 DEF CoveredAt

OptionType(o) ==
  /\ o.range = None \/ o.range \in RangeType
  /\ o.forced = None \/ o.forced.range \in RangeType
  /\ o.exclude \in Seq(RangeType)

InForcedRange(o, a) == o.forced # None /\ In(a, o.forced.range)

InLimit(o, a) == o.range = None \/ In(a, o.range)

LEMMA DomainsIn ==
  ASSUME NEW list \in ListType, AllInSpace(list), NEW o, OptionType(o)
  PROVE  /\ Domains(list, o) \in Seq(RangeType)
         /\ \A a \in Int : InAny(a, Domains(list, o))
              <=> (CoveredAt(list, a) \/ InForcedRange(o, a)) /\ InLimit(o, a)
<1>1. PICK spans : spans = [k \in DOMAIN list |-> SegRange(list[k])]
  OBVIOUS
<1>2. spans \in Seq(RangeType) /\ \A a \in Int : InAny(a, spans) <=> CoveredAt(list, a)
  BY <1>1, DataRanges
<1>3. PICK both : both = IF o.forced = None THEN spans ELSE Append(spans, o.forced.range)
  OBVIOUS
<1>4. /\ both \in Seq(RangeType)
      /\ \A a \in Int : InAny(a, both) <=> CoveredAt(list, a) \/ InForcedRange(o, a)
  BY <1>2, <1>3, AppendRange DEF OptionType, InForcedRange
<1>5. PICK all : all = MergeRanges(both)
  OBVIOUS
<1>6. /\ all \in Seq(RangeType)
      /\ \A a \in Int : InAny(a, all) <=> CoveredAt(list, a) \/ InForcedRange(o, a)
  BY <1>4, <1>5, MergeRangesApart
<1>7. PICK within, hit : /\ within = {r \in ToSet(all) : Overlaps(r, o.range)}
                         /\ hit = Keep(all, within)
  OBVIOUS
<1>8. Domains(list, o) = IF o.range = None THEN all
                         ELSE [k \in DOMAIN hit |-> Intersection(hit[k], o.range)]
  BY <1>1, <1>3, <1>5, <1>7, Zenon DEF Domains
<1>9. CASE o.range = None
  BY <1>6, <1>8, <1>9 DEF InLimit
<1>10. CASE o.range # None
  <2>1. PICK t \in RangeType : t = o.range
    BY <1>10 DEF OptionType
  <2>2. hit \in Seq(RangeType) /\ \A r : IsIn(hit, r) <=> IsIn(all, r) /\ r \in within
    BY <1>6, <1>7, KeepElements
  <2>3. \A r : IsIn(all, r) => r \in RangeType
    BY <1>6, ElementOfSeq DEF IsIn
  <2>4. \A r : IsIn(all, r) <=> r \in ToSet(all)
    BY <1>6, LenProperties DEF IsIn, ToSet
  <2>5. \A r : IsIn(hit, r) <=> IsIn(all, r) /\ Overlaps(r, t)
    BY <2>1, <2>2, <2>4, <1>7
  <2> DEFINE N == Len(hit)
             cut == [k \in 1..N |-> Intersection(hit[k], t)]
  <2>6. N \in Nat /\ DOMAIN hit = 1..N /\ Domains(list, o) = cut
    BY <2>1, <2>2, <1>8, <1>10, LenProperties
  <2>7. \A k \in 1..N : hit[k] \in RangeType /\ Overlaps(hit[k], t)
    BY <2>3, <2>5 DEF IsIn
  <2>8. \A k \in 1..N : /\ Intersection(hit[k], t) \in RangeType
                        /\ \A a \in Int : In(a, Intersection(hit[k], t))
                                            <=> In(a, hit[k]) /\ In(a, t)
    BY <2>7, IntersectionIn
  <2>9. /\ cut \in Seq(RangeType)
        /\ \A a : InAny(a, cut) <=> \E k \in 1..N : In(a, cut[k])
    <3>1. /\ DOMAIN cut = 1..N /\ cut = [k \in 1..N |-> cut[k]]
          /\ \A k \in 1..N : cut[k] \in RangeType
      BY <2>8
    <3> HIDE DEF cut, N
    <3>2. QED
      BY <2>6, <3>1, MadeRanges
  <2>10. ASSUME NEW a \in Int
         PROVE  InAny(a, cut) <=> InAny(a, all) /\ In(a, t)
    <3>1. InAny(a, cut) <=> (\E k \in 1..N : In(a, hit[k])) /\ In(a, t)
      BY <2>8, <2>9
    <3>2. (\E k \in 1..N : In(a, hit[k])) <=> \E r : IsIn(hit, r) /\ In(a, r)
      BY DEF IsIn
    <3>3. InAny(a, all) <=> \E r : IsIn(all, r) /\ In(a, r)
      BY DEF InAny, IsIn
    <3>4. \A r : IsIn(all, r) /\ In(a, r) /\ In(a, t) => Overlaps(r, t)
      <4> SUFFICES ASSUME NEW r, IsIn(all, r), In(a, r), In(a, t)
                   PROVE  Overlaps(r, t)
        OBVIOUS
      <4>1. r \in RangeType
        BY <2>3
      <4>2. /\ r.start \in Int /\ r.end \in Int /\ r.start <= a /\ a <= r.end
            /\ t.start \in Int /\ t.end \in Int /\ t.start <= a /\ a <= t.end
        BY <4>1, RangeFacts DEF In
      <4>3. QED
        BY <4>2 DEF Overlaps
    <3> HIDE DEF In, cut, IsIn, InAny
    <3>5. QED
      BY <3>1, <3>2, <3>3, <3>4, <2>5
  <2> HIDE DEF cut
  <2>11. \A a \in Int : InLimit(o, a) <=> In(a, t)
    BY <2>1, <1>10 DEF InLimit
  <2>12. QED
    BY <2>6, <2>9, <2>10, <2>11, <1>6
<1>11. QED
  BY <1>9, <1>10

ExcludedAt(o, t, a) == InAny(a, o.exclude) \/ (t # None /\ In(a, t))

LEMMA ExcludedIn ==
  ASSUME NEW o, OptionType(o), NEW t, t = None \/ t \in RangeType
  PROVE  /\ Excluded(o, t) \in Seq(RangeType) /\ Apart(Excluded(o, t))
         /\ \A a \in Int : InAny(a, Excluded(o, t)) <=> ExcludedAt(o, t, a)
<1>1. PICK list : list = IF t = None THEN o.exclude ELSE Append(o.exclude, t)
  OBVIOUS
<1>2. /\ list \in Seq(RangeType)
      /\ \A a \in Int : InAny(a, list) <=> ExcludedAt(o, t, a)
  BY <1>1, AppendRange DEF OptionType, ExcludedAt
<1>3. Excluded(o, t) = MergeRanges(list)
  BY <1>1 DEF Excluded
<1>4. QED
  BY <1>2, <1>3, MergeRangesApart

\* What calculate_checksum walks: ranges apart from each other, with the
\* addresses that have data or a forced byte, lie within the limit and are not
\* excluded.
LEMMA IncludeRangesIn ==
  ASSUME NEW list \in ListType, AllInSpace(list), NEW o, OptionType(o),
         NEW t, t = None \/ t \in RangeType
  PROVE  LET walked == IncludeRanges(list, o, Excluded(o, t))
         IN /\ walked \in Seq(RangeType) /\ Apart(walked)
            /\ \A a \in Int : InAny(a, walked)
                 <=> /\ CoveredAt(list, a) \/ InForcedRange(o, a)
                     /\ InLimit(o, a) /\ ~ExcludedAt(o, t, a)
<1>1. PICK ex, doms : ex = Excluded(o, t) /\ doms = Domains(list, o)
  OBVIOUS
<1>2. /\ ex \in Seq(RangeType) /\ Apart(ex)
      /\ \A a \in Int : InAny(a, ex) <=> ExcludedAt(o, t, a)
  BY <1>1, ExcludedIn
<1>3. /\ doms \in Seq(RangeType)
      /\ \A a \in Int : InAny(a, doms)
           <=> (CoveredAt(list, a) \/ InForcedRange(o, a)) /\ InLimit(o, a)
  BY <1>1, DomainsIn
<1> DEFINE N == Len(doms)
           Part(k) == IF ex = <<>> THEN <<doms[k]>> ELSE SubtractRanges(doms[k], ex)
           parts == [k \in 1..N |-> Part(k)]
<1>4. N \in Nat /\ DOMAIN doms = 1..N /\ \A k \in 1..N : doms[k] \in RangeType
  BY <1>3, LenProperties, ElementOfSeq
<1>5. ASSUME NEW k \in 1..N
      PROVE  /\ Part(k) \in Seq(RangeType)
             /\ \A a \in Int : InAny(a, Part(k)) <=> In(a, doms[k]) /\ ~InAny(a, ex)
  <2>1. PICK r \in RangeType : r = doms[k]
    BY <1>4
  <2>2. CASE ex = <<>>
    <3>1. <<r>> \in Seq(RangeType) /\ Len(<<r>>) = 1 /\ <<r>>[1] = r
      OBVIOUS
    <3>2. \A a : InAny(a, <<r>>) <=> In(a, r)
      BY <3>1 DEF InAny
    <3>3. \A a : ~InAny(a, ex)
      BY <2>2, EmptySeq DEF InAny
    <3>4. QED
      BY <2>1, <2>2, <3>1, <3>2, <3>3
  <2>3. CASE ex # <<>>
    BY <2>1, <2>3, <1>2, SubtractRangesIn
  <2>4. QED
    BY <2>2, <2>3
<1>6. IncludeRanges(list, o, ex) = MergeRanges(FlattenSeq(parts))
  BY <1>1, <1>4 DEF IncludeRanges
<1>7. /\ parts \in Seq(Seq(RangeType)) /\ Len(parts) = N
      /\ \A k \in 1..N : parts[k] = Part(k)
  <2>1. \A k \in 1..N : Part(k) \in Seq(RangeType)
    BY <1>5
  <2> HIDE DEF Part, N
  <2>2. parts \in Seq(Seq(RangeType)) /\ Len(parts) = N
    BY <1>4, <2>1, IsASeq, LenProperties
  <2>3. QED
    BY <2>2
<1> HIDE DEF parts, Part, N
<1>8. PICK flat : flat = FlattenSeq(parts)
  OBVIOUS
<1>9. flat \in Seq(RangeType) /\ \A y : IsIn(flat, y) <=> \E k \in 1..N : IsIn(parts[k], y)
  BY <1>7, <1>8, FlattenIn
<1>10. ASSUME NEW a \in Int
       PROVE  InAny(a, flat) <=> InAny(a, doms) /\ ~InAny(a, ex)
  <2>1. InAny(a, flat) <=> \E y : IsIn(flat, y) /\ In(a, y)
    BY DEF InAny, IsIn
  <2>2. \A k \in 1..N : InAny(a, parts[k]) <=> \E y : IsIn(parts[k], y) /\ In(a, y)
    BY DEF InAny, IsIn
  <2>3. InAny(a, flat) <=> \E k \in 1..N : InAny(a, parts[k])
    <3> HIDE DEF InAny, IsIn, In
    <3>1. QED
      BY <2>1, <2>2, <1>9
  <2>4. \A k \in 1..N : InAny(a, parts[k]) <=> In(a, doms[k]) /\ ~InAny(a, ex)
    BY <1>5, <1>7
  <2>5. InAny(a, doms) <=> \E k \in 1..N : In(a, doms[k])
    BY DEF InAny, N
  <2> HIDE DEF InAny, In
  <2>6. QED
    BY <2>3, <2>4, <2>5
<1>11. /\ MergeRanges(flat) \in Seq(RangeType) /\ Apart(MergeRanges(flat))
       /\ \A a \in Int : InAny(a, MergeRanges(flat)) <=> InAny(a, flat)
  BY <1>9, MergeRangesApart
<1>12. QED
  BY <1>1, <1>2, <1>3, <1>6, <1>8, <1>10, <1>11

=============================================================================

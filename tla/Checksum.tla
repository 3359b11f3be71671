------------------------------ MODULE Checksum ------------------------------
(***************************************************************************)
(* HexFile::checksum_many_sequential of hexy-core/src/ops/checksum.rs: the *)
(* jobs run one after the other, each on the file the ones before it left, *)
(* and the first that fails ends the call.                                 *)
(***************************************************************************)
EXTENDS ChecksumOps

CONSTANTS
  Files,   \* the files the call is made on
  JobLists \* the lists of jobs: sequences of [options, target]

ASSUME FilesAssumption == Files \subseteq Seq({s \in SegmentType : ~IsEmpty(s)})

\* The sums; the CRCs and hashes come from libraries.
Algorithms ==
  WordSums \union {"ByteSumBe", "ByteSumLe", "ByteSumTwosComplement", "ModularSum"}

ForcedRange == [range : RangeType, pattern : Seq(Byte)]

ChecksumOptions ==
  [alg : Algorithms, reversed : BOOLEAN, range : RangeType \union {None},
   forced : ForcedRange \union {None}, exclude : Seq(RangeType)]

ChecksumTarget ==
  [kind : {"Address"}, at : Addr]
  \union [kind : {"None", "Append", "Prepend", "OverwriteEnd", "File"}, at : {None}]

ASSUME JobsAssumption ==
  JobLists \subseteq Seq([options : ChecksumOptions, target : ChecksumTarget])

\* A byte is a digit of a sum.
ASSUME DigitAssumption == Base \in Nat \ {0} /\ Byte = 0..(Base - 1)

\* The length of a result is a u32.
ASSUME SizeAssumption == Size <= MaxAddr

\* What stands for no value is none.
ASSUME NoneAssumption ==
  /\ None \notin Int /\ None \notin Seq(Byte)
  /\ None \notin RangeType /\ None \notin ForcedRange

VARIABLES
  segments,  \* self.segments
  jobs,
  out,       \* the results so far, one per job done
  res,       \* "ok", or "error" once a job failed
  wrote      \* for each job done, the range its result went to, or None

vars == <<segments, jobs, out, res, wrote>>

Init ==
  /\ segments \in Files
  /\ jobs \in JobLists
  /\ out = <<>>
  /\ res = "ok"
  /\ wrote = <<>>

\* There is a next job to run.
Running == res = "ok" /\ Len(out) < Len(jobs)

job == jobs[Len(out) + 1]

Result == Calculate(segments, job.options, TargetRange(segments, job.target))

\* checksum() of the next job succeeds and writes its result to its target;
\* for a file that is empty, or a target outside of it, it only returns it.
RunJob ==
  /\ Running
  /\ TargetFits(segments, job.target)
  /\ \E result \in {Result} \ {None} :
       LET at == WriteStart(segments, job.target, result)
       IN /\ segments' = IF at = None THEN segments
                         ELSE AppendSegment(segments, [start |-> at, data |-> result])
          /\ wrote' = Append(wrote, IF at = None THEN None
                                    ELSE FromStartLength(at, Len(result)))
          /\ out' = Append(out, result)
  /\ UNCHANGED <<jobs, res>>

\* It fails before it writes: `?` returns from both loops.
FailJob ==
  /\ Running
  /\ ~TargetFits(segments, job.target) \/ Result = None
  /\ res' = "error"
  /\ UNCHANGED <<segments, jobs, out, wrote>>

Next == RunJob \/ FailJob

Spec == Init /\ [][Next]_vars

-----------------------------------------------------------------------------
(* Properties *)

Done == 1..Len(out)

\* A reader who computes the checksum of job n anew, leaving out the bytes it
\* was written to, finds those very bytes there.
Verifies(n) ==
  Calculate(segments, jobs[n].options, wrote[n]) =
    ReadBytesContiguous(segments, wrote[n].start, RangeLength(wrote[n]))

\* A checksum is valid right after it was written, although its own bytes then
\* lie in the file, between data or at an end of it.
LastVerifies ==
  out # <<>> /\ wrote[Len(out)] # None => Verifies(Len(out))

\* What job n takes into account: its range without what it excludes.
Reaches(n, a) ==
  LET o == jobs[n].options
  IN /\ o.range = None \/ (o.range.start <= a /\ a <= o.range.end)
     /\ ~\E k \in DOMAIN o.exclude :
          o.exclude[k].start <= a /\ a <= o.exclude[k].end

\* It stays valid through all later jobs that write neither over it nor into
\* what it takes into account: a target in an excluded range does no harm.
EarlierStayValid ==
  \A n \in Done :
    (/\ wrote[n] # None
     /\ \A m \in (n + 1)..Len(out) : wrote[m] # None =>
          /\ ~Overlaps(wrote[m], wrote[n])
          /\ \A a \in wrote[m].start..wrote[m].end : ~Reaches(n, a))
      => Verifies(n)

=============================================================================

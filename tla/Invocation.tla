----------------------------- MODULE Invocation -----------------------------
(***************************************************************************)
(* One run of hexy-compat (hexy-compat/src/args): options are parsed one   *)
(* after the other, then the run goes through fixed phases, reads and      *)
(* writes files on the way, and ends with "ok" or at the first error.      *)
(* A file on disk is what its reader makes of it: raw segments, the bytes  *)
(* of a flat file, the commands of a log, a signature or a checksum.       *)
(* Options that only fail (/PB, /XV, ...) or only print are left out.      *)
(***************************************************************************)
EXTENDS Operations

CONSTANTS
  DenseLimit,     \* DEFAULT_DENSE_SPAN_LIMIT
  RecordTop,      \* the last address that /XI (type 2) and /XS (types 0, 1) reach
  SignatureBytes  \* the bytes of a placed signature

VARIABLES
  args,      \* from the name of an option to its value
  phase,     \* "parse", a key of After, or the exit: "ok" or "error"
  hexfile,   \* the raw segments worked on
  jobsDone,  \* how many checksum jobs have run
  disk       \* from paths to contents, None where there is no file

invocationVars == <<args, phase, hexfile, jobsDone, disk>>

-----------------------------------------------------------------------------
(* Parsing *)

Flags == {"S12MAP", "S12XMAP", "S08MAP", "FA", "AL", "SWAPWORD", "SWAPLONG"}

\* Options that can be given again and add to what they said before.
Lists == {"CDSPX", "CDSPS", "CDSPG", "FR", "CR", "MT", "MO", "CSM"}

\* Options that name a file to read.
PathOptions == {"II2", "IN", "IA", "L", "P"}

\* Options whose last value counts; "input" is the positional argument, "X"
\* the output format and "type" the type of records that /XI or /XS names.
Singles ==
  PathOptions \union
  {"REMAP", "FP", "AR", "AD", "AF", "AE", "SB", "CS", "DP", "SV", "X", "type", "o", "input"}

NoArgs ==
  [name \in Flags \union Lists \union Singles |->
     CASE name \in Flags -> FALSE
       [] name \in Lists -> <<>>
       [] name = "AF" -> Base - 1
       [] OTHER -> None]

Given(name) == args[name] # None

StartInvocation(files) ==
  /\ args = NoArgs
  /\ phase = "parse"
  /\ hexfile = <<>>
  /\ jobsDone = 0
  /\ disk = files

\* A second output format or input file, /CS next to /CSM.
Misplaced(o) ==
  \/ o.name \in {"X", "input"} /\ Given(o.name)
  \/ o.name = "CS" /\ args["CSM"] # <<>>
  \/ o.name = "CSM" /\ Given("CS")

Take(options) ==
  FoldLeft(LAMBDA acc, o : [acc EXCEPT ![o.name] = IF o.name \in Lists THEN @ \o o.value
                                                    ELSE o.value],
           args, options)

ParseOptions(options) ==
  /\ phase = "parse"
  /\ ~Misplaced(options[1])
  /\ args' = Take(options)
  /\ UNCHANGED <<phase, hexfile, jobsDone, disk>>

Exit(result) == phase' = result /\ UNCHANGED <<args, hexfile, jobsDone, disk>>

RejectOption(o) == phase = "parse" /\ Misplaced(o) /\ Exit("error")

EndOfArguments == phase = "parse" /\ Exit("validate")

-----------------------------------------------------------------------------
(* The phases of execute_with_provider *)

\* Mutant of After: writes the output before it is verified.
AfterWriteFirst ==
  [validate |-> "load", load |-> "operate", operate |-> "checksum", checksum |-> "sign",
   sign |-> "write", write |-> "verify", verify |-> "ok"]

\* Mutant of After: verifies what was not signed and has no checksum yet.
AfterVerifyFirst ==
  [validate |-> "load", load |-> "operate", operate |-> "verify", verify |-> "checksum",
   checksum |-> "sign", sign |-> "write", write |-> "ok"]

\* Mutant of After: computes the checksums before the operations.
AfterChecksumFirst ==
  [validate |-> "load", load |-> "checksum", checksum |-> "operate", operate |-> "sign",
   sign |-> "verify", verify |-> "write", write |-> "ok"]

After ==
  [validate |-> "load", load |-> "operate", operate |-> "checksum", checksum |-> "sign",
   sign |-> "verify", verify |-> "write", write |-> "ok"]

Goto(next, segs, files) ==
  phase' = next /\ hexfile' = segs /\ disk' = files /\ UNCHANGED <<args, jobsDone>>

\* The phase yields segs, or fails.
Proceed(segs) ==
  IF segs = Failed THEN Exit("error") ELSE Goto(After[phase], segs, disk)

Mapped == args["S12MAP"] \/ args["S12XMAP"] \/ args["S08MAP"]

\* validate_supported_features and validate_porsche_output_args.
Unsupported ==
  \/ args["MT"] # <<>> /\ args["MO"] # <<>>
  \/ args["S12MAP"] /\ args["S12XMAP"]
  \/ args["S08MAP"] /\ (args["S12MAP"] \/ args["S12XMAP"])
  \/ Given("REMAP") /\ Mapped
  \/ Given("DP") /\ Given("SV") /\ args["DP"].placement # None
  \/ Given("IA") /\ (Given("IN") \/ Given("II2"))
  \/ Given("II2") /\ Given("IN")
  \/ Given("input") /\ (Given("IN") \/ Given("II2"))
  \/ args["X"] = "XP" /\ ~Given("CS")

Validate ==
  phase = "validate" /\ (IF Unsupported THEN Exit("error") ELSE Proceed(hexfile))

ReadFile(path) == IF disk[path] = None THEN Failed ELSE disk[path]

\* parse_binary and parse_hex_ascii: one segment at the offset.
ReadFlat(file) ==
  LET s == [start |-> file.offset, data |-> disk[file.path]]
  IN IF disk[file.path] = None THEN Failed
     ELSE Attempt(IsEmpty(s) \/ FitsAt(s.start, Len(s.data)), NonEmpty(<<s>>))

\* Mutant of Meets: segments that share one address do not meet.
MeetsInMore(a, b) ==
  LET meets[i \in 1..(Len(a) + 1), j \in 1..(Len(b) + 1)] ==
        /\ i <= Len(a) /\ j <= Len(b)
        /\ IF EndAddress(a[i]) <= b[j].start THEN meets[i + 1, j]
           ELSE IF EndAddress(b[j]) <= a[i].start THEN meets[i, j + 1]
           ELSE TRUE
  IN meets[1, 1]

\* The sweep of hexfiles_overlap over two sorted lists.
Meets(a, b) ==
  LET meets[i \in 1..(Len(a) + 1), j \in 1..(Len(b) + 1)] ==
        /\ i <= Len(a) /\ j <= Len(b)
        /\ IF EndAddress(a[i]) < b[j].start THEN meets[i + 1, j]
           ELSE IF EndAddress(b[j]) < a[i].start THEN meets[i, j + 1]
           ELSE TRUE
  IN meets[1, 1]

\* /IA: next to an input file that it overlaps the input file is ignored.
ImportAscii(ascii, base) ==
  CASE ascii = Failed \/ base = Failed -> Failed
    [] ascii # Failed /\ base # Failed /\ Meets(ByStart(base), ByStart(ascii)) -> ascii
    [] OTHER -> base \o ascii

LoadHexfile ==
  /\ phase = "load"
  /\ Proceed(
       IF Given("IN") THEN ReadFlat(args["IN"])
       ELSE IF Given("IA")
         THEN ImportAscii(ReadFlat(args["IA"]),
                          IF Given("input") THEN ReadFile(args["input"]) ELSE <<>>)
       ELSE IF Given("II2") THEN ReadFile(args["II2"])
       ELSE IF Given("input") THEN ReadFile(args["input"])
       ELSE Attempt(Given("L") \/ args["MT"] # <<>> \/ args["MO"] # <<>>, <<>>))

-----------------------------------------------------------------------------
(* execute_operations *)

Flag(name, op) == IF args[name] THEN <<[op |-> op]>> ELSE <<>>

Option(name, ops) == IF Given(name) THEN ops ELSE <<>>

Each(name, ToOp(_)) == [n \in DOMAIN args[name] |-> ToOp(args[name][n])]

AlignOp(length) ==
  [op |-> "align", alignment |-> args["AD"], byte |-> args["AF"], length |-> length]

\* Without /FP the ranges of /FR get random bytes, in the model one for all.
FillOps(random) ==
  IF Given("FP")
    THEN <<[op |-> "fill", ranges |-> args["FR"], pattern |-> args["FP"],
            overwrite |-> FALSE]>>
    ELSE Each("FR", LAMBDA r : [op |-> "random_fill", range |-> r, byte |-> random])

MergeFiles(name, mode) ==
  Each(name, LAMBDA m : [op |-> "merge_file", path |-> m.path, offset |-> m.offset,
                         ranges |-> m.ranges, mode |-> mode])

\* What execute_operations does, in its order.
OperationsOf(random) ==
  Flag("S12MAP", "map_star12") \o Flag("S12XMAP", "map_star12x")
  \o Flag("S08MAP", "map_star08")
  \o Option("REMAP", <<[op |-> "remap", options |-> args["REMAP"]]>>)
  \o Each("CDSPX", LAMBDA c : [op |-> "dspic_expand", range |-> c.range, target |-> c.target])
  \o Each("CDSPS", LAMBDA c : [op |-> "dspic_shrink", range |-> c.range, target |-> c.target])
  \o Each("CDSPG", LAMBDA r : [op |-> "dspic_clear_ghost", range |-> r])
  \o FillOps(random)
  \o <<[op |-> "cut", ranges |-> args["CR"]]>>
  \o MergeFiles("MT", "Preserve") \o MergeFiles("MO", "Overwrite")
  \o Option("AR", <<[op |-> "filter", ranges |-> args["AR"]]>>)
  \o Option("L", <<[op |-> "log", path |-> args["L"]]>>)
  \o (IF args["FA"] THEN <<[op |-> "fill_gaps", byte |-> args["AF"], limit |-> DenseLimit]>>
      ELSE <<>>)
  \o Option("AD", <<AlignOp(FALSE)>> \o (IF args["AL"] THEN <<AlignOp(TRUE)>> ELSE <<>>))
  \o Option("SB", <<[op |-> "split", size |-> args["SB"]]>>)
  \o Flag("SWAPWORD", "swap_word") \o Flag("SWAPLONG", "swap_dword")

RandomFill(segs, r, byte) ==
  Attempt(Materializable(r),
          PrependSegment(segs, [start |-> r.start, data |-> [k \in 1..RangeLength(r) |-> byte]]))

\* parse_log_commands knows three commands and fails at any other word.
LogParses(commands) == Range(commands) \subseteq {"FileOpen", "FileClose", "FileNew"}

\* execute_compat_log_commands: FileOpen fails, the others empty the file.
ReplayLog(segs, commands) ==
  CASE ~LogParses(commands) \/ "FileOpen" \in Range(commands) -> Failed
    [] commands = <<>> -> segs
    [] OTHER -> <<>>

\* A file to merge and a log are read when their turn comes.
Execute(segs, o) ==
  CASE o.op = "random_fill" -> RandomFill(segs, o.range, o.byte)
    [] o.op = "merge_file" ->
         IF ReadFile(o.path) = Failed THEN Failed
         ELSE Merge(segs, [other |-> disk[o.path], offset |-> o.offset,
                           ranges |-> o.ranges, mode |-> o.mode])
    [] o.op = "log" ->
         IF ReadFile(o.path) = Failed THEN Failed ELSE ReplayLog(segs, disk[o.path])
    [] OTHER -> Apply(segs, o)

ExecuteOperations ==
  /\ phase = "operate"
  /\ \E random \in Byte :
       \E made \in {InTurn(Execute, hexfile, OperationsOf(random))} : Proceed(made)

-----------------------------------------------------------------------------
(* Checksums, signature and verification *)

Jobs == IF Given("CS") THEN <<args["CS"]>> ELSE args["CSM"]

\* resolve_checksum_target: @begin is the first address of the file.
CoreTarget(target) ==
  CASE target.kind = "Begin" /\ hexfile # <<>> ->
         [kind |-> "Address", at |-> MinAddress(hexfile)]
    [] target.kind = "Begin" /\ hexfile = <<>> -> [kind |-> "Append", at |-> None]
    [] OTHER -> target

\* run_checksum: in the file, in a file of its own, or nowhere.
RunChecksum(job) ==
  \E target \in {CoreTarget(job.target)} :
    \E result \in {Calculate(hexfile, job.options, TargetRange(hexfile, target))} :
      IF ~TargetFits(hexfile, target) \/ result = None THEN Exit("error")
      ELSE \E at \in {WriteStart(hexfile, target, result)} :
        /\ hexfile' = IF at = None THEN hexfile
                      ELSE AppendSegment(hexfile, [start |-> at, data |-> result])
        /\ disk' = IF target.kind = "File" THEN [disk EXCEPT ![target.path] = result]
                   ELSE disk
        /\ jobsDone' = jobsDone + 1
        /\ UNCHANGED <<args, phase>>

\* For /XP the checksum is computed when the output is written.
ApplyChecksums ==
  /\ phase = "checksum"
  /\ IF args["X"] = "XP" \/ jobsDone = Len(Jobs) THEN Proceed(hexfile)
     ELSE RunChecksum(Jobs[jobsDone + 1])

Stream(segs) == FlattenSeq([n \in DOMAIN segs |-> segs[n].data])

\* signature_payload; the length in the metadata is that of the data.
Payload(segs, metadata) ==
  LET normal == Normalized(segs)
  IN [data |-> Stream(normal),
      start |-> IF ~metadata THEN None
                ELSE IF normal = <<>> THEN 0 ELSE MinAddress(normal)]

\* A signature is valid for what was signed and the key that signed it.
Signature(params, segs) ==
  [key |-> params.key, payload |-> Payload(segs, params.metadata)]

\* Where place_signature writes: nowhere in a file that is empty.
SignatureStart(segs, placement) ==
  CASE placement.kind = "Address" -> placement.at
    [] placement.kind = "Append" /\ segs # <<>> -> MaxAddress(segs) + 1
    [] placement.kind = "Begin" /\ segs # <<>> -> MinAddress(segs)
    [] placement.kind = "Prepend" /\ segs # <<>> -> MinAddress(segs) - Len(SignatureBytes)
    [] placement.kind = "OverwriteEnd" /\ segs # <<>> ->
         MaxAddress(segs) - (Len(SignatureBytes) - 1)
    [] OTHER -> None

PlaceSignature(segs, placement) ==
  LET at == IF placement = None THEN None ELSE SignatureStart(segs, placement)
  IN IF at = None THEN segs
     ELSE Attempt(at \in Addr /\ FitsAt(at, Len(SignatureBytes)),
                  AppendSegment(segs, [start |-> at, data |-> SignatureBytes]))

\* The signature file holds the signature of what there was before it was
\* placed, and is there whatever comes later.
ApplyDataProcessing ==
  /\ phase = "sign"
  /\ LET params == args["DP"]
     IN IF ~Given("DP") THEN Proceed(hexfile)
        ELSE \E segs \in {PlaceSignature(hexfile, params.placement)} :
          IF segs = Failed THEN Exit("error")
          ELSE Goto(After[phase], segs,
                    IF params.output = None THEN disk
                    ELSE [disk EXCEPT ![params.output] = Signature(params, hexfile)])

Verifies(segs) == ReadFile(args["SV"].path) = Signature(args["SV"], segs)

ApplySignatureVerification ==
  /\ phase = "verify"
  /\ Proceed(IF Given("SV") /\ ~Verifies(hexfile) THEN Failed ELSE hexfile)

-----------------------------------------------------------------------------
(* Outputs *)

\* primary_input_path: the outputs with a name of their own take it from it.
HasPrimary == \E name \in {"input", "IN", "IA", "II2"} : Given(name)

\* Mutant of RunImage: lays the segments of a run over each other by address.
RunImageSorted(segs, run) ==
  LET members == SelectSeq(ByStart(segs), LAMBDA s : s.start \in run)
  IN IF Len(members) = 1 THEN members ELSE Normalized(members)

\* push_separate_binary_run: a run of one segment as it is, another one
\* normalized in insertion order.
RunImage(segs, run) ==
  LET members == SelectSeq(segs, LAMBDA s : s.start \in run)
  IN IF Len(members) = 1 THEN members ELSE Normalized(members)

\* separate_binary_segments: the sorted segments fall into runs that overlap
\* from one to the next; touching is not enough.
SeparateBinary(segs) ==
  LET sorted == ByStart(NonEmpty(segs))
      Step(acc, s) ==
        IF acc.runs # <<>> /\ s.start <= acc.end
          THEN [runs |-> Append(Front(acc.runs), Last(acc.runs) \union {s.start}),
                end |-> Max({acc.end, EndAddress(s)})]
          ELSE [runs |-> Append(acc.runs, {s.start}), end |-> EndAddress(s)]
      runs == FoldLeft(Step, [runs |-> <<>>, end |-> 0], sorted).runs
  IN ByStart(FlattenSeq([n \in DOMAIN runs |-> RunImage(segs, runs[n])]))

\* format_erase_sectors: each run of the file, rounded to whole sectors.
EraseSectors(segs, sector) ==
  LET normal == Normalized(segs)
  IN [n \in DOMAIN normal |->
        LET past == EndAddress(normal[n]) + 1
        IN IF sector \in {None, 0} THEN SegRange(normal[n])
           ELSE FromStartEnd(AlignDown(normal[n].start, sector),
                             ((past + sector - 1) \div sector) * sector - 1)]

\* write_porsche_output: the dense file and its checksum after it.
DenseWithChecksum(segs) ==
  LET WithSum(dense) == [data |-> Stream(dense),
                         sum |-> Calculate(dense, args["CS"].options, None)]
      Checked(made) == Attempt(made.sum # None, made)
  IN IF ~CanFillGaps(segs, DenseLimit) THEN Failed
     ELSE Checked(WithSum(FillGaps(Normalized(segs), args["AF"])))



\* write_intel_hex and write_srec refuse a file that has an address the type
\* of records asked for cannot hold; there is no S-Record type above 3.
TypeReaches(segs) ==
  LET records == <<args["X"], args["type"]>>
  IN /\ args["X"] = "XS" => args["type"] \in {None} \union 0..3
     /\ records \in DOMAIN RecordTop /\ segs # <<>> => MaxAddress(segs) <= RecordTop[records]

\* The file that is written: a hex file, the bytes of a flat one, files named
\* by their first address, or what the ECU formats put together.
Rendered(segs, complete) ==
  CASE args["X"] \in {None, "XI", "XS"} -> Attempt(TypeReaches(segs), Normalized(segs))
    [] args["X"] \in {"XN", "XA"} -> Stream(Normalized(segs))
    [] args["X"] = "XSB" -> SeparateBinary(segs)
    [] args["X"] = "XP" -> DenseWithChecksum(segs)
    [] args["X"] = "XF" /\ complete ->
         [sectors |-> EraseSectors(segs, args["AE"]), segs |-> Normalized(segs)]
    [] args["X"] = "XF" /\ ~complete -> [sectors |-> None, segs |-> <<>>]

\* Where the output goes: without -o the formats of their own names derive it
\* from the input, the others write nothing.
OutputPath ==
  IF Given("o") THEN args["o"]
  ELSE IF args["X"] \in {"XF", "XP"} /\ HasPrimary THEN "derived" ELSE None

\* A header for /XF comes from the INI file, named by /P or as the input.
IniPath == IF Given("P") THEN args["P"] ELSE IF HasPrimary THEN "derived.ini" ELSE None

NoName ==
  \/ args["X"] \in {"XF", "XP"} /\ OutputPath = None
  \/ args["X"] = "XF" /\ IniPath = None

\* The checksum of /XP goes to its file before the output is written.
WithSumFile(files, rendered) ==
  IF args["X"] = "XP" /\ args["CS"].target.kind = "File"
    THEN [files EXCEPT ![args["CS"].target.path] = rendered.sum] ELSE files

WriteOutputs ==
  /\ phase = "write"
  /\ CASE NoName -> Exit("error")
       [] ~NoName /\ OutputPath = None -> Proceed(hexfile)
       [] OTHER ->
            \E rendered \in {Rendered(hexfile, args["X"] = "XF" /\ disk[IniPath] # None)} :
              IF rendered = Failed THEN Exit("error")
              ELSE Goto(After[phase], hexfile,
                        IF args["X"] = "XSB" /\ rendered = <<>> THEN disk
                        ELSE [WithSumFile(disk, rendered) EXCEPT ![OutputPath] = rendered])

InvocationNext ==
  \/ EndOfArguments
  \/ Validate
  \/ LoadHexfile
  \/ ExecuteOperations
  \/ ApplyChecksums
  \/ ApplyDataProcessing
  \/ ApplySignatureVerification
  \/ WriteOutputs

=============================================================================

----------------------------- MODULE Frontends -----------------------------
(***************************************************************************)
(* Both front ends side by side: a request is made of the command line as  *)
(* options and of a Pipeline as a call, in any order; then the command     *)
(* runs, and the Pipeline could be applied to the file it has read.  Other *)
(* options and calls are for one of the two only.                          *)
(***************************************************************************)
EXTENDS Invocation, Pipeline

CONSTANTS
  Requests,      \* records [options, call]: the same wish, made of both
  Sources,       \* lists of options that say what is read and written
  Settings,      \* lists of options for the command line alone
  Disks,         \* the files there may be at the start
  MaxChoices     \* bound: how many requests and settings there are in one run

VARIABLES
  asked,     \* how many requests were made
  set,       \* how many settings were, the sources not counted
  together,  \* both front ends took every request and nothing undid one
  before     \* disk at the start

vars == <<invocationVars, pipelineVars, asked, set, together, before>>

Init ==
  /\ \E files \in Disks : StartInvocation(files)
  /\ NewPipeline
  /\ asked = 0 /\ set = 0 /\ together = TRUE
  /\ before = disk

Request(r) ==
  /\ asked + set < MaxChoices
  /\ ParseOptions(r.options)
  /\ CallPipeline(r.call)
  /\ asked' = asked + 1
  /\ UNCHANGED <<set, together, before>>

\* The command line finds out later that it cannot merge in two modes.
RequestRefused(r) ==
  /\ asked + set < MaxChoices
  /\ ParseOptions(r.options)
  /\ RefuseMerge(r.call)
  /\ asked' = asked + 1
  /\ together' = FALSE
  /\ UNCHANGED <<set, before>>

\* Bound: the sources come first, which the parser does not care about.
ChooseSource(options) ==
  /\ args = NoArgs /\ asked = 0 /\ set = 0
  /\ ParseOptions(options)
  /\ UNCHANGED <<pipelineVars, asked, set, together, before>>

Choose(options) ==
  /\ asked + set < MaxChoices
  /\ ParseOptions(options)
  /\ set' = set + 1
  /\ UNCHANGED <<pipelineVars, asked, together, before>>

RefuseOption(options) ==
  /\ asked + set < MaxChoices
  /\ RejectOption(options[1])
  /\ set' = set + 1
  /\ UNCHANGED <<pipelineVars, asked, together, before>>

\* A call that is for the Pipeline alone.
Solitary ==
  /\ phase = "parse" /\ set = 0 /\ together
  /\ \/ \E mode \in {"Overwrite", "Preserve"} : MergeBadRange(mode) /\ together' = together
     \/ ClearPipeline /\ together' = (asked = 0)
  /\ UNCHANGED <<invocationVars, asked, set, before>>

Run == InvocationNext /\ UNCHANGED <<pipelineVars, asked, set, together, before>>

Next ==
  \/ \E r \in Requests : Request(r) \/ RequestRefused(r)
  \/ \E options \in Sources : ChooseSource(options)
  \/ \E options \in Settings : Choose(options) \/ RefuseOption(options)
  \/ Solitary
  \/ Run

Spec == Init /\ [][Next]_vars

-----------------------------------------------------------------------------
(* Properties *)

\* What a second option of the same name would replace and a second call
\* would add to was asked for once.
OnlyOnce ==
  \A stage \in {"map_star12", "map_star12x", "map_star08", "remap", "filter", "fill_gaps",
                "align", "split", "swap_word", "swap_dword"} : Len(buckets[stage]) <= 1

\* "Pipeline applies operations in hexy CLI compatibility order, not in the
\* order methods are called" (README.md): for the same requests, in whatever
\* order they come, the command line makes of its input what the Pipeline
\* makes of that file, or both fail.  Excepted are requests the command line
\* refuses to combine and gaps above its limit.
SameAsPipeline ==
  [][ phase = "operate" /\ together /\ set = 0 /\ OnlyOnce =>
        \E made \in {Applied(hexfile)} :
          IF phase' = "error" THEN made = Failed \/ args["FA"]
          ELSE made # Failed /\ Image(hexfile') = Image(made) ]_vars

\* /IA next to an input file shows every byte of the import, and what it shows
\* of the input file is all of it or nothing, nothing only where they overlap.
ImportKeepsBoth ==
  [][ phase = "load" /\ phase' # "error" /\ Given("IA") /\ Given("input") =>
        \E ascii \in {ReadFlat(args["IA"])}, base \in {disk[args["input"]]} :
          LET clash == Covered(ascii) \intersect Covered(base) # {}
          IN \A a \in Addr :
               ReadByte(hexfile', a) =
                 IF a \in Covered(ascii) THEN ReadByte(ascii, a)
                 ELSE IF clash THEN None ELSE ReadByte(base, a) ]_vars

SideFiles ==
  { job.target.path : job \in { job \in Range(Jobs) : job.target.kind = "File" } }
  \union (IF Given("DP") THEN { args["DP"].output } ELSE {})

\* A run that fails leaves the file it was to write as it was, although files
\* with a checksum or a signature may be new.
FailedLeavesOutput ==
  phase = "error" /\ OutputPath # None /\ OutputPath \notin SideFiles
    => disk[OutputPath] = before[OutputPath]

IsHexFile == args["X"] \in {None, "XI", "XS"}

\* The hex file that a run wrote.
HexWritten == phase = "ok" /\ Given("o") /\ IsHexFile

\* With /SV a hex file that was written carries what the signature signs,
\* whatever checksums and signatures were made and placed in the same run.
OutputVerifies ==
  HexWritten /\ Given("SV") /\ args["SV"].path # args["o"] => Verifies(disk[args["o"]])

\* Where the checksum of a job lies in the file that has it.
SumStart(target, written) ==
  CASE target.kind = "Address" -> target.at
    [] target.kind \in {"Append", "OverwriteEnd"} /\ written # <<>> ->
         MaxAddress(written) - (Size - 1)
    [] target.kind \in {"Prepend", "Begin"} /\ written # <<>> -> MinAddress(written)
    [] OTHER -> None

\* Unless a signature is placed, the last checksum that went into the file is
\* right for the file that was written, transforms and all.
OutputChecksumHolds ==
  HexWritten /\ Jobs # <<>> /\ (Given("DP") => args["DP"].placement = None) =>
    LET job == Last(Jobs)
        written == disk[args["o"]]
        at == SumStart(job.target, written)
    IN at # None =>
         Calculate(written, job.options, FromStartLength(at, Size)) =
           ReadBytesContiguous(written, at, Size)

\* What each container holds is what a read of the file shows: the separate
\* binaries together, the bytes before the checksum of /XP, the sectors /XF
\* has erased.
OutputShowsImage ==
  phase = "ok" /\ OutputPath # None =>
    LET written == disk[OutputPath]
        shown == Covered(hexfile)
    IN CASE args["X"] = "XSB" ->
              hexfile # <<>> => Image(written) = Image(hexfile) /\ ~AnyOverlap(written)
         [] args["X"] = "XP" ->
              /\ hexfile # <<>> => \A a \in shown :
                   written.data[(a - MinAddress(hexfile)) + 1] = ReadByte(hexfile, a)
              /\ Len(written.data) = IF hexfile = <<>> THEN 0 ELSE RawSpan(hexfile)
         [] args["X"] = "XF" ->
              written.sectors # None => \A a \in shown :
                \E n \in DOMAIN written.sectors :
                  written.sectors[n].start <= a /\ a <= written.sectors[n].end
         [] OTHER -> TRUE

=============================================================================

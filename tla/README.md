# hexy: a verification development in TLA+

hexy reads firmware images (Intel HEX, S-Record, HEX-ASCII, binary), edits them
and writes them again. It is sequential: a `HexFile` has one owner and every
operation takes `&mut self`. What makes it hard is data, not concurrency: a
file is an ordered list of raw segments that may overlap, later segments win,
and every operation works on the raw list, on a normalized copy or on both.
The questions are therefore about long sequences of calls, the borders of
segments, ranges and banks, the ends of the 32-bit address space, and errors
halfway through an operation.

- [Inventory](#inventory): the parts of the program and what makes each correct
- [Modules](#modules): which module models what, and how it corresponds to the code
- [Runs](#runs): what TLC checks, with which bounds
- [Divergences](#divergences): where code and documentation disagree
- [Proofs](#proofs): what TLAPS proves
- [Limits](#limits): what is only model-checked and what is not modelled
- [Plan](#plan): what comes next

## Inventory

| component | source | state | operations | what makes it correct |
|---|---|---|---|---|
| Segment | `hexy-core/src/segment.rs` | start, bytes | `new`, `try_new`, `end_address`, `is_contiguous_with`, `merge` | the end fits u32 |
| HexFile | `hexy-core/src/hexfile.rs` | ordered raw segments | append, prepend, write, read, `normalized`, `as_contiguous` | reads by address, raw order and the normalized list agree; the last segment wins |
| AddressRange | `hexy-core/src/range.rs` | start, end, requested end | constructors, overlap, intersection, `merge_ranges` | a request past the address space stays recognisable |
| Filter operations | `hexy-core/src/ops/filter.rs` | on a HexFile | filter, cut, fill, fill gaps, merge, offset | act on the image as set operations do; an error changes nothing |
| Transforms | `hexy-core/src/ops/transform.rs` | on a HexFile | align, split, swap, dsPIC, scale, remap, banked maps | no byte lost, each at its mapped address, loops end |
| Checksums | `hexy-core/src/ops/checksum.rs` | on a HexFile | select, compute, place, sequential jobs | the target is never part of its own input |
| Log replay | `hexy-core/src/ops/log.rs` | on a HexFile | FileOpen, FileClose, FileNew | the commands act in order; a log that does not parse changes nothing |
| Intel HEX, S-Record | `hexy-core/src/io/intel_hex.rs`, `srec.rs` | extended address, open segment; bank and mode of the writer | parse, write | a reader takes the bytes the records say; what was written reads back as the same image |
| HEX-ASCII, binary, C arrays | `hexy-core/src/io/*.rs` | none | text layout | one byte after the other |
| File access | `hexy-core/src/io/file.rs` | none | `detect_format`, `parse_auto` | a whole file of a format is read as that format |
| Signatures | `hexy-core/src/signature.rs` | on a HexFile | payload, place, verify | placed next to or inside the data signed |
| Command line | `hexy-compat/src/args/*` | the parsed options, the file worked on, the files on disk | parse, validate, load, operate, checksum, sign, verify, write | the documented order; what is written is complete, signed and sums up; a failure leaves the output alone |
| Python bindings | `hexy-py/src/*` | a HexFile; a Pipeline's buckets and merge mode | as above | a Pipeline makes of its requests what the command line makes of them |

How they interact. There are no messages, threads or callbacks: the operations
share one `HexFile` through `&mut self` and call each other directly.
Everything that reads by address goes through `normalized()`: the dense view,
`read_bytes_contiguous`, fill, align, the dsPIC copies, the checksums, the
writers. Everything that edits goes through `append_segment`,
`prepend_segment` or `set_segments`, and a list an edit leaves may overlap
again. Ranges enter as `AddressRange` and, where several are given, through
`merge_ranges`. The command line and the Python pipeline apply the operations
in a fixed order to one file.

What is hard, by kind; `PROJECT.json` lists each hazard at its line:

- **calls in any order** - cut, fill, merge and swap work on raw segments, so
  what one call hides another can bring out again;
- **stale views** - a normalized snapshot next to the raw list it was made
  from, a target found twice, a fill pattern counted from the wrong start;
- **boundaries** - `end + 1` at `u32::MAX`, products of bank numbers,
  subtraction below a window, a length that reaches past the address space;
- **loops that advance by hand** - the overlay scan, `remap_segment`,
  `append_checksum_range`;
- **errors halfway** - operations that validate all before they apply, and
  sequences of jobs that stop at the first failure; a run of the command line
  that fails when some of its files are written already;
- **state carried from line to line** - the extended address and the open
  segment of the Intel HEX reader, the bank and mode of the writer, against a
  text that says something else;
- **order** - options and calls come in any order, operations go in one, kept
  twice: in the command line and in the Python Pipeline.

## Modules

A module EXTENDS the ones it is built from; `MC...` modules and their `.cfg`
files only give constants values.

```
AddressSpace - Segment -+- RemapLoop
                        +- BankMap
                        +- SegmentList (with AddressRange)
SegmentList -+- NormalizeLoop
             +- FilterOps -+- TransformOps - HexFile
             |             +- ChecksumOps -+- ChecksumLoop
             |                             +- Checksum
             +- RecordFile -+- IntelHexReader -+
                            +- IntelHexWriter -+- Conversion
                            +- SRec -----------+
TransformOps, ChecksumOps - Operations -+- Pipeline ---+- Frontends
                                        +- Invocation -+
SparseImage  (what HexFile implements)

ListLemmas -+- NormalizeLoopProofs, RemapLoopProofs, BankMapProofs
            +- ChecksumLoopProofs, ChecksumProofs
            +- HexFileProofs, ConversionProofs
```

| module | models | how it corresponds |
|---|---|---|
| `AddressSpace` | u32 | `Addr == 0..MaxAddr`; `MaxAddr` stands for 2^32 - 1. Arithmetic is on integers and every place where the code checks, saturates or wraps says so |
| `Segment` | `segment.rs` | a record of start and data; `FitsAt` is `checked_end_address_for`, which also refuses a length that is not a u32 |
| `AddressRange` | `range.rs` | start, end and requested end; `MergeRanges` sorts stably and folds, as the code does |
| `NormalizeLoop` | `normalized()` with `overlay_segment` and `merge_adjacent_segments` | one action per turn of each loop and per branch; `i` is the segment overlaid, `j` the index of the inner loop, `placed` the flag `inserted`. A `sort_by_key` is any permutation that sorts, since the sort in the fast path sees no equal keys |
| `SegmentList` | the rest of `hexfile.rs` | reads, edits and `Normalized` as functions on lists, in folds. `StepsComputeNormalized` of `NormalizeLoop` ties `Normalized` to its steps |
| `FilterOps` | `ops/filter.rs` | an operator per method and a `Can...` for its error paths |
| `TransformOps` | `ops/transform.rs` without the bank maps | likewise |
| `HexFile` | the object | `segments`; one action per public method answers a call, `Return` hands control back. One step per call is exact because each method has the only reference. `call` and `res` let properties speak about a step |
| `SparseImage` | no code: the promise | a map from addresses to bytes on which the same calls are defined by address, without segments. `HexFile` implements it under `mem <- Image(segments)` |
| `RemapLoop` | `remap` and `remap_segment` | one action per turn of the loop and per branch; `start` is the cursor `seg_start` |
| `BankMap` | `map_banked` and `map_star08` | one action per segment and branch of the first pass; `Apply` is the second. The underflow of `start - bank_base` is both outcomes a build can give |
| `ChecksumOps` | `ops/checksum.rs` as operators | selection of the addresses, sums, target placement. The digit base is a constant, so that sums wrap in small instances |
| `ChecksumLoop` | `collect_data_for_checksum`, `append_checksum_range` | one action per turn of either loop; `segIdx` is the index shared by all ranges, and `WalkIsCollectData` ties the steps to `CollectData` |
| `Checksum` | `checksum`, `checksum_many_sequential` | one action per job; `wrote` is a history of where the results went |
| `RecordFile` | what the readers and writers share | a line of text is what it says: type, address, data; `phase` is the function that runs |
| `IntelHexReader` | `parse_intel_hex_with_address_scale` | one action per way a turn of the loop over the lines goes; `current`, `extended`, `eofSeen`, `recordSeen` are its locals |
| `IntelHexWriter` | `write_intel_hex` | one action per record, with or without an extended address record before it; `n` and `offset` are the two loops |
| `SRec` | `parse_srec`, `write_srec` | likewise; a byte count is cut to eight bits |
| `Conversion` | `io/file.rs` | composes them: a file is written, or a text is given, and `parse_auto` or the 16-bit reader reads it |
| `Operations` | one operation of a front end | a record `[op |-> ...]`; `Apply` is `apply_op` of the Pipeline, `ApplyAll` a list of them up to the first error. `Remap` is the loop as a function; `MapStar` is a constant that stands for `BankMap` |
| `Pipeline` | the builder of `hexy-py/src/pipeline.rs` | one action per kind of call; `buckets` are the vectors of the class, `mergeMode` its sticky mode |
| `Invocation` | one run of `hexy-compat` | one action per option and per phase of `execute_with_provider`; `disk` maps paths to what a reader makes of the file. `TypeReaches` is when `/XI` and `/XS` refuse a file for its addresses or for a type of records there is not, before they write it |
| `Frontends` | both side by side | the same wish goes to the command line as options and to a Pipeline as a call, in any order, together with settings for one of them |

Mutants. Next to some definitions stands a "Mutant of": the definition with a
plausible bug. `PROJECT.json` names for each property of each passing run
one that breaks it.

## Runs

The runs check each module in the smallest space in which every case of the
code occurs; `None` stands for Rust's `None`.

| run | shows | bounds, and why they are enough |
|---|---|---|
| `normalize_loop` | both paths of `normalized()` give a list that is sorted, has gaps, and reads as the raw list with the last segment winning; so does the accumulated list after every overlay; the list is the one `Normalized` says | all lists of up to 3 segments over 6 addresses: the third meets a list of two, and can lie before, between, over, inside or behind them |
| `hexfile_calls` | any sequence of calls of `hexfile.rs` and `ops/filter.rs` acts on the image as on a sparse map, and fails exactly when the map says so; normalized lists are canonical; both ways of reading agree | 5 addresses, calls on at most 2 raw segments (a call may leave more; the state is checked but no further call is made). 2 segments overlap in every way, and with a range out of order or past the end they cut each other into every kind of part |
| `remap_loop` | `remap` loses, doubles or reorders no byte, places each by the documented rule, fails only if some byte has no place, and ends | 8 addresses, windows of 1 to 3 bytes, distances of 1 to 3: a segment spans up to 8 banks and starts and ends anywhere in them |
| `transforms` | `align` pads to whole blocks without covering data, `split` makes the pieces asked for and is invisible to reads, the dsPIC calls write what a read shows, swaps turn each word of the image around or none, scaling keeps every byte with its segment | 2 words of 4 addresses, alignments 3 and 4, segments of 1 to 5 bytes that share, split and hide words; `LargeSpan` is 6. The action constraint `OneKind` keeps a behaviour to calls of one kind, so that two of them are enough |
| `bank_map` | exactly the segments inside a window move, as a whole, and a call fails only where one has no place | quarters of 2 addresses, 4 banks in the space and 2 that a bank number can tell apart, so that the cut to u8 aliases |
| `checksum_walk` | the data of a checksum are the bytes at the included addresses, each once and in order, no error comes after the first byte, and both loops end | 8 addresses, up to 2 runs of data, 5 forced ranges, 3 limits, 3 lists of exclusions and 3 targets, in every combination |
| `checksum_jobs` | a checksum that was written verifies, and stays valid under later jobs that leave its input alone | 10 addresses, base 3 (sums wrap at 9), every algorithm whose arithmetic is in the source, every target, lists of 1 to 3 jobs |
| `record_files` | at every line the reader has the bytes the records so far say; a file that is one whole text of a format is accepted; no record of the writer crosses a bank; what was written reads back as the same image, in every mode and record type | 4 banks of 4 addresses, paragraphs of 2: as in the code a bank is several paragraphs, segment mode reaches less than linear mode (two banks), S1 one bank and S2 two, and a segment spans banks. Texts are four data and base records in any order before the end record, and up to three lines of every kind, in and out of order; up to two segments are written, with every mode and record type, at line lengths from one byte to more than a bank |
| `frontends` | see the properties in `Frontends`: the same image from both front ends, imports, and what a run writes or leaves alone | 12 addresses, of which segment records, S1 and S2 reach 9, 6 and 9; 19 requests and 23 settings, two of them in one run next to one of 9 choices of input and output: every pair of operations meets in both orders, and every operation meets every phase after it. Four disks differ in the input and the log |
| `merge_overlapping_other`, `bank_map_below_window`, `srec_long_line` | see [Divergences](#divergences) | |

Bounds in guards. `Bounded` (in `HexFile`) makes no call on a list of more than
`MaxSegs` raw segments. `HasGap` keeps the calls that join segments away from
a file that covers every address: its one segment would have a length that no
u32 holds. `MaxChoices` (in `Frontends`) bounds the requests and settings of one
run, and `ChooseSource` has the input and output named first, which the parser
does not care about. No other guard is there for the checker's sake.

Scaling of the record files. `Bank` stands for 2^16, `Para` for 16, `MaxAddr` for
2^32 - 1, `ByteRange` for 256. The reach of segment mode follows from them as in
the code; `SRecTop` gives the largest address of each S-Record type.

Properties that carry a condition. `PlacedByAddress` and `ErrorsAreReal`
leave out windows wider than the distance of the banks, for which the rule in
the documentation gives two answers. `SwapsWords` asks for even segments and
`SwapsLongWords` for words without holes; elsewhere `swap_bytes` keeps or
repeats bytes by its compatibility rules, which the model follows.
`ScaleShowsAll` leaves out the factor 0, which puts all segments at one address.
`PlansByWindow` and `FailsForAReason` leave out the segments below a window,
which have a run of their own. `AlignsRuns` says something else of the ends of
runs in the last block of the address space: there `align_up` gives up on an
overflow, `align` returns `Ok`, and the run ends where its data did.
`ContiguousReadsAgree` has the one length that no u32 holds as a case of its own.
`ReadsAsRecords` leaves out texts with a data record of no bytes, which opens a
segment that ends at its start. `ImageKept` leaves out lines so long that the
count of an S-Record wraps, which have a run of their own. `SameAsPipeline`
leaves out what only one front end has: options for the command line alone, a
second value for an option that has one, modes of merging that the command
line refuses to combine, and gaps above its limit. `OutputVerifies` leaves out
an output that overwrites the signature it is verified with.

Deadlock. `CHECK_DEADLOCK` is off because the programs modelled stop: the loops
at `pc = "done"`, a list of jobs at its end or its first error, a run of the
command line at its exit, a reader or writer when the file is done, and a caller
of a file that has grown past `MaxSegs` makes no further call.

Fairness. `RemapLoop` and `ChecksumLoop` assume weak fairness of the whole
next-state relation: the loop runs on the calling thread, waits for nothing,
and that thread takes its next step. Nothing else is assumed, and nothing
else has a liveness property.

## Divergences

| run | where | what |
|---|---|---|
| `merge_overlapping_other` | `ops/filter.rs:345` | a Preserve merge prepends the other file's segments one by one and so reverses their priority: where they overlap, the loser comes in |
| `bank_map_below_window` | `ops/transform.rs:696` | a segment in the first half of a bank passes the test of `banked_map_start`, then `start - bank_base` underflows; `map_star08` has the missing test |
| `srec_long_line` | `io/srec.rs:191` | the byte count is `(addr_len + chunk.len() + 1) as u8`; a line of 251 to 255 bytes, which `/XS` allows, says it is short, and the file that was written is rejected by the reader |

Without a run, since stating them takes no state of the system:

- `hexfile.rs:247` joins two adjacent segments that together cover all of u32;
  the debug assertion two lines on, that the result has an end address, fails.
  No call of the model stores such a result (`HasGap`). `NormalizeLoop` and the reads of
  `HexFile` do meet a file that covers every address, and follow the release
  build: `end_address` saturates, and `read_bytes_contiguous` answers `None`
  for the length no u32 holds.
- `ops/checksum.rs:645`: a forced range past the address space is refused,
  except when anything is excluded: `subtract_ranges` forgets the requested end
  that `range.rs:166` keeps "so allocation-producing callers can still reject it".
- `args/parse_util.rs:287`: `/CS` without a target computes a checksum and puts
  it nowhere, where `args/types.rs:70` and `docs/cli-reference.md:180` give
  `@append` as the default.

## Proofs

TLAPS proves the following for every size of the address space, every set of
bytes and every input that the types of the code let through, with no bound on
the number of segments, ranges or calls.

`NormalizeLoopProofs`, of `normalized()`:

| theorem | states |
|---|---|
| `TypeCorrectness` | `Spec => []TypeOK`: every list at every step holds non-empty segments inside the address space |
| `OverlayCorrectness` | `Spec => []OverlayIsLastWins`: between two overlays the accumulated list is sorted with gaps and reads as the segments overlaid so far, the last one winning |
| `ResultCorrectness` | `Spec => []ResultIsLastWins`: what is returned reads as the raw list does, whichever path was taken |
| `NormalizedCorrectness` | `Spec => []StepsComputeNormalized`: the list returned is `Normalized(segments)`, the operator every other module uses for the call |

`HexFileProofs`, of a file on which any calls are made:

| theorem | states |
|---|---|
| `TypeCorrectness` | `Spec => []TypeOK`: whatever is called, every stored segment is non-empty and has its end in the address space |
| `ContiguousReads` | `Spec => []ContiguousReadsAgree`: the reads by the normalized list agree with those by the raw one, for every length that a u32 holds; the one length above, that of the address space, is `None` |
| `Canonical` | `Spec => []NormalizedIsCanonical`: `normalized()` returns the maximal runs of the image |
| `Implementation` | `MergesUnambiguous => (Spec => ImplementsSparseImage)`: a file acts as a plain map from addresses to bytes does, call by call, errors included |
| `ScalingShowsAll` | `Spec => ScaleShowsAll`: scaling a file without overlaps by a positive factor leaves every byte readable where its segment went |
| `SplittingFits` | `Spec => SplitFits`: no piece of a split is longer than the size asked for, and there are no more pieces than that needs |
| `AligningAligns` | `Spec => AlignsRuns`: after `align` each run starts and, if asked, ends at a block, or in the last block of the space where its data ended |
| `WordsSwapped`, `LongWordsSwapped` | `Spec => SwapsWords`, `Spec => SwapsLongWords`: a swap turns every word of the image around or none, for even segments and for words without holes |

`RemapLoopProofs`, of `remap()`:

| theorem | states |
|---|---|
| `TypeCorrectness` | `Spec => []TypeOK`: every part is bytes at an address, whatever the options |
| `CursorCorrectness` | `Spec => []CursorInSegment`: at the head of the loop a byte is left of the segment, so every slice is in bounds and not empty |
| `Placement` | `Spec => PlacedByAddress`: each part holds the bytes at the cursor and puts each where the documented rule puts its address |
| `ErrorCorrectness` | `Spec => []ErrorsAreReal`: an error means options that make no sense or a byte the rule puts outside the address space |
| `NoByteIsLost` | `Spec => []NoByteLost`: the parts cut so far hold the bytes up to the cursor, in order |

`BankMapProofs`, of `map_banked()` and `map_star08()`, also for every size of a
bank and every width of a bank number:

| theorem | states |
|---|---|
| `PlanCorrectness` | `Spec => []PlansByWindow`: every planned start is that of the window the segment lies in, or its own |
| `FailureCorrectness` | `Spec => []FailsForAReason`: a call fails only for a segment with no place, or one below its window |

`ChecksumLoopProofs`, of `collect_data_for_checksum`:

| theorem | states |
|---|---|
| `IndexNeverAhead` | `Spec => []IndexBehindCursor`: the index kept from one range to the next never passes data still to be taken |
| `ErrorsComeFirst` | `Spec => []FailsBeforeData`: once a byte was taken the walk cannot fail |
| `TakenInOrder` | `Spec => []TakesIncludedInOrder`: the data are the bytes of the included addresses below the cursor, each once, in order |
| `AllTaken` | `Spec => []TakesAll`: data that are returned are the bytes of all included addresses |
| `WalkCollectsData` | `Spec => []WalkIsCollectData`: the two loops make the list that `CollectData` says, which the jobs and the front ends use |

`ChecksumProofs`, of `checksum_many_sequential`, also for every digit base:

| theorem | states |
|---|---|
| `TypeCorrectness` | `Spec => []TypeInv`: segments inside the address space, at most one result per job, every range written inside the space |
| `ValidWhenWritten` | `Spec => []LastVerifies`: a checksum computed anew is the one that was just written |
| `StaysValid` | `Spec => []EarlierStayValid`: and stays it through all later jobs that write neither over it nor into what it takes into account |

`ConversionProofs`, of the readers and writers of record files, also for every
size of banks and paragraphs and every length of a line:

| theorem | states |
|---|---|
| `ReadsWhatRecordsSay` | `Spec => []ReadsAsRecords`: at every line the Intel HEX reader has the bytes the records so far say, each under the extended address in force, the last record winning |
| `ReadsWholeFilesOnly` | `Spec => []AcceptsWholeFiles`: a text is accepted by the reader chosen for it exactly when it is a whole file of the format |
| `WritesInsideBanks` | `Spec => []RecordsInBank`: no data record crosses a bank, is empty or too long |
| `RoundTripKeepsImage` | `Spec => []ImageKept`: what either writer wrote is detected, accepted and reads back as the same image, in every mode and record type; a writer refuses exactly what its mode or type cannot address |

### What is assumed

Of the constants, each assumption named in the module that declares them and
checked by TLC in every run: `MaxAddr` is a positive number; `None`, Rust's
`None`, is no byte (`ByteAssumption` of `SegmentList`; `HexFile` also needs that it
is no list of bytes and no segment, `Checksum` that it is no number and nothing
else that an option can be); the inputs of `normalized()` and of the maps are lists
of non-empty segments with an end in the space; the lists the checksum walks are
normalized (`NormalsAreNormalized`), its ranges and targets are made by a
constructor; jobs have options and targets of their types (`JobsAssumption`) and a
byte is a digit of a sum (`DigitAssumption`), and the length of a result is a u32
(`SizeAssumption`); the
arguments of a call have the types of the method's parameters
(`CallsAssumption`); bank numbers are below `BankCount`. For the record files
(`FormatAssumption`, `CountAssumption`, `InputAssumption`, `NoneAssumption` of
`Conversion`): a bank is a whole number of paragraphs and at least one, a count byte
holds at least one value besides 0, a line asked for has a length that a u8
holds, the texts are lists of lines and the files lists of segments
in the address space, and what stands for no value is none.

`Implementation` has a hypothesis besides. `MergesUnambiguous` says that a file
merged in Preserve mode has no two segments with different bytes at one address.
Without it the claim is false: the run `merge_overlapping_other` is the
counterexample, and [Divergences](#divergences) the reason. The two runs that check
the refinement assume the same of their calls (`MergesAreUnambiguous`).

### `normalized()`

What the runs check is not inductive: it speaks about `pc =
"overlay"` and `"done"` only, and says nothing about the loops between. `IInv`
adds

- `ScanInv`: while the new segment `seg` is held against the accumulated list,
  the list under construction reads as what was passed so far with the part
  under `seg` cut out, plus `seg` once it is placed. For this the list stays
  ordered, ends before the segment looked at next and, while `seg` is not
  placed, before `seg`. That `placed` implies that `seg` ends before the segment
  looked at is what lets `KeepAfter` and `Cover` place it once.
- `JoinInv`: the joined list reads as the part of `next` already joined, has
  gaps, and ends before what is joined next; the list as a whole reads as the
  segments overlaid so far, on both paths.
- `StartInv`: the lists are empty at first.

`InitIInv`, one lemma for each action (`KeepBeforeStep`, ..., `FastPathStep`) and
`NextStep` show that `IInv` is inductive; `Invariance` puts them together.

`NormalizedCorrectness` does not follow the loops a second time. A list that is
sorted and has gaps is determined by what it reads as (`CanonicalUnique`); the
steps' result is such a list by the invariant, `Normalized(segments)` is one by
`NormalizedReads`, and both read as the raw list does.

### Lists and folds

`ListLemmas` says what each function of `range.rs` and of the list part of
`hexfile.rs` makes of a list: `Keep` and the stable sort (`KeepElements`,
`SortSorted`), `MergeRanges`, clipping, joining, overlaying, `Normalized`, what can
be read where (`ReadNormalized`, `ReadConcat`, `ReadContiguous`), and which addresses
a checksum includes (`IncludeRangesIn`). Most of
these are folds or recursive functions, and induction with a property as an operator
parameter is out of the provers' reach. It is done without: the set of
the indices at which a claim holds is a set of numbers, and one that is closed
under successors has no least number outside it (`InductionUpTo`, from the least
element of a well-founded order). A fold is first shown to have a sequence of
intermediate results (`FoldRun`), and a lemma on a fold is an
induction over that sequence.

### A file and its calls

`TypeOK` of `HexFile` is inductive as it stands, thanks to `CallsAssumption` and
to `HasGap`, which keeps away the one file whose joined segment has no end in
u32. `TypePreserved` has a step for each of the 19 calls; a lemma on each
operator (`FilterReads`, `CutReads`, `FillsRead`, `AlignReads`, `SplitReads`, ...)
says what the list it returns is made of and, of the calls the image determines,
what can be read in it.

These lemmas are also what `Implementation` stands on. For each call a lemma
(`AppendAnswer`, ..., `ClearGhostAnswer`) shows that it fails exactly when the map
says it must, and otherwise that the image of the new list is what the map
makes of the old image. The refinement mapping is `mem <- Image(segments)`; of
`swap_bytes` and `scale_addresses`, which the image does not determine, the map
says only that a failure changes nothing. `StepImplements` splits on the calls.
What is not obvious:

- *fill*: gaps are filled by the first of the ranges that reach them and
  overwritten by the last, each with the phase of its own start (`FillEffect`);
- *merge*: in Preserve mode the segments are prepended one by one, so the first
  of them wins in the new file where in its own the last did (`FirstIsRead`
  needs them to agree);
- *align*: the padding of a run, cut out by `AlignDown` and `AlignUp` at its two
  ends, is the rest of the block that the run shares (`PadBelowBlock`,
  `PadAboveBlock`), and the one `align_up` gives up on is the one the map leaves out;
- *the dsPIC copies*: a range that can be read has a length in u32, since the
  file has a gap (`CopyRangeIs`).

`ContiguousReads` and `Canonical` hold in every state of `TypeOK`. The segments of a
normalized list are maximal runs (`NormalRun`), in the order of their starts, and
the sorted list of the run starts is the only such list (`StartsInOrder`).

The five properties of single transforms speak about one step each
(`TransformAnswered`), but about lists, which the image does not determine:

- *scale*: segments that do not overlap keep a distance that a positive
  factor only widens (`DisjointApart`, `MovesApart`), so no byte comes to lie
  under another. The proof needs the factor to be positive, and so does the
  property: factor 0, which `unscale_addresses` refuses, is accepted and moves
  every segment to the first address;
- *split*: one segment is cut into as many pieces as the division rounded up says
  (`SplitSegmentFits`), and the number of all pieces is the sum of these, a fold
  over the list (`PiecesRun`);
- *align*: an address is covered afterwards exactly when it lies between the
  aligned ends of a run there was before (`AlignCovers`). So a run starts where one
  of them did and ends where one did (`AlignedStart`, `AlignedEnd`; in the last block where its data ended), and every run
  of a file with a gap has an end (`RunsHaveEnds`);
- *swaps*: where every segment is whole words, turning each of them around
  shows at an address what the file showed at its mirror image in the word, since
  a segment covers both or neither (`MirrorCovered`, `ReverseReads`). Segments that
  cut words go through the map of the image, and without holes every
  segment takes from it the same byte (`SwapMapReads`).

### `remap()`

`CursorInSegment` is inductive with `TypeOK`,
`InputInv` (the file is the one the call was made on until the end, so its
segments have an end) and `OptionsInv` (what was checked before the loop holds
in it: without `size > 0` and `inc > 0` a window could be empty). `TakeStep` is
the heart: a turn whose part ends between the cursor and the end of the segment
leaves the cursor in a segment; each action then only has to bound its end, by
`WindowEnd`. `Placement` adds what a turn does to addresses. `TakePlaces`
reduces it to the start the turn computes, and `SameQuotient`, a fact about
division, shows that all addresses of a part have the bank of the first: the
window ends with the bank, since `size <= inc`.

`ErrorCorrectness` reuses what the four lemmas of `Placement` show of a turn,
that it moves the part as the rule moves each of its addresses: a part that
does not fit then has a byte without a place, its last one (`OverflowIsReal`).
`NoByteIsLost` adds that a turn appends to the joined parts exactly the bytes the
cursor passes, with the concatenation of lists as a fold.

### The maps of the banks

`IInv` says of the starts planned so far what
`PlansByWindow` says, through `Good`, and of a failure what `FailsForAReason`
says, through `Reason`, both as operators on constants so that a step that leaves
file and options alone carries them over. `LowStep`, `HighStep` and `BankStep` show
the window a test has found; `LeaveStep` shows that a segment no test catches
is in no window, for which the number of the bank has to be found again from the
addresses of its window: `BankOfStart`, by `Quotient`. A bank above the 256 that
a number can tell apart has the number of a lower one, but its addresses are
above that one's window.

### The walk of a checksum

`IndexBehindCursor` and `TakesIncludedInOrder` speak about the walk only; that the
index is safe at the next range needs the ranges to be sorted and apart, and that
no error follows a byte needs every address of the ranges to be covered or forced.
Both are facts about the folds that made the ranges (`RangesInOrder`,
`InputFacts`, from the lemmas on `MergeRanges` and on what is subtracted). `IInv`
keeps them for the whole call (`Inputs`), and in the walk
`WalkPoint`: the data are those of the included addresses below the cursor, and
every segment before the index ends below it. `TakesAll` and `FailsBeforeData`
join it because the last step is where they are decided.

### The jobs of checksums

`LastVerifies` says nothing of older checksums and `EarlierStayValid`
has the last one as its case without later jobs, so the invariant is the types
(`TypeInv`) and the second (`AllValid`). Three lemmas carry it.

- `SameCalculation`: a checksum is the same for two files that read alike at
  the addresses that options and target select, with or without data there. The
  ranges to include then have the same addresses (`IncludeRangesIn`) and are the
  same list, but only because the target is excluded: with nothing to exclude a
  range keeps the end it was asked for, which its addresses do not show. With a target
  every range passes through `subtract_ranges`, which makes ranges that end where
  they were asked to (`PlainInclude`), and such ranges, merged, are determined by
  their addresses (`SamePlain`).
- `ValidAfterWrite`: what is written differs from the file only where the target was
  excluded. That it is the same target, of the size of the result, is
  `WritesThere` and `ResultType`: the position is computed twice, before and after
  the sum, once from `result_size` and once from the result.
- `ValidElsewhere`: a later write that an older checksum neither contains nor takes
  into account changes neither side of the comparison.

### Record files

What a text says is defined without a reader: `IntelSays` and `SRecSays` look up the
last data record that has an address, each record under the base that the extended
address records before it leave (`BaseAfter`). `IInv` relates three things to it:

- `ReadInv`: what a reader has gathered after `pos` lines, the open segment
  last, reads as those lines say (`IntelGathers`), and what it remembers - base,
  end record, whether there was a record - is what they leave (`IntelKnows`). Every
  line passed was acceptable, so that at the end the text is whole.
- `WrittenInv`: what the lines written so far say is the file below the place the
  writer has reached (`Passed`), and `writtenExtended` in `writtenMode` is the base in
  force at the end of them, which is what makes it right to leave a record out.
- when the text is read again it still says the file (`Rereading`).

`RoundTripKeepsImage` then needs no third walk: the reader gathers what the text says,
the text says the file, and a normalized list is determined by what it reads as
(`CanonicalUnique`). Everything hard is in two steps. `WroteChunk`: a line
takes the next bytes of the segment and no more, so that what is `Passed` grows by
exactly its record. `BaseInForce`: where the writer leaves the extended address
record out, the base in force is the bank of the next byte, whichever of the two
kinds of record set it last.

## Limits

Only model-checked:

- that the loops end (`Terminates`): liveness is beyond the prover;
- all properties of `Frontends`. They relate the two ends of a whole run, through
  every operation there is; what the operations do to a file, one by one, is what the
  other proofs are about.

Not modelled, and why:

- empty segments that a caller makes through `segments_mut` - no operation of
  the program does;
- CRCs and hashes - libraries, and a table of 16-bit arithmetic; which bytes
  they see and where their result goes is modelled for the sums and is the same code;
- the exact messages of errors, and which of two errors is reported;
- the text syntax of ranges and options, the digits of records, and file access;
  files that cannot be read or written do not occur, those that are not there do;
- C arrays (`/XC`), the text of HEX-ASCII files and of the headers and
  checksum files, options that only print or always fail (`/S`, `/V`, `/E`,
  `/PB`, `/XV`, `/XG`...), and an option that fails but is the path of a file;
- cryptography: a signature is the pair of key and payload, and verifies for these;
- random fill (`/FR` without `/FP`) is any one byte for the whole range;
- the replay of a log by the library, where `FileOpen` loads a file: the command
  line, which is modelled, refuses it;
- in `Frontends`, what the maps of the banks do in detail: `MapStar` moves one
  window, `BankMap` has the maps.

## Plan

1. *Done*: `NormalizeLoop`, `RemapLoop`, `BankMap` and `ChecksumLoop` with their
   proofs; `HexFile` against `SparseImage`, proved; `TransformOps`; the checksum
   jobs; the record files; both front ends.
2. Proofs: `FailedLeavesOutput` of `Frontends`, an invariant of the phases.
3. The CRC of `checksum.rs` that is written out there, as arithmetic modulo 2^16
   against its definition over short inputs.
4. `/XC` and the sums in the header of `/XF`.

Each program loop worth a theorem is a module without RECURSIVE operators.

## How to run

```
tlc -workers 2 -config MCNormalizeLoop.cfg MCNormalizeLoop
for m in ListLemmas NormalizeLoopProofs RemapLoopProofs BankMapProofs \
         ChecksumLoopProofs ChecksumProofs HexFileProofs ConversionProofs
do tlapm $m.tla; done
```

A `.cfg` names its properties; a run listed in `PROJECT.json` with `expect:
violation` ends in the counterexample the table of divergences describes.

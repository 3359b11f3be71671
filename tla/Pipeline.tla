------------------------------ MODULE Pipeline ------------------------------
(***************************************************************************)
(* The Pipeline of the Python bindings (hexy-py/src/pipeline.rs): calls    *)
(* put operations into one bucket for each kind, apply() runs the buckets  *)
(* one after the other on a copy of a file, whatever the order of the      *)
(* calls was.                                                              *)
(***************************************************************************)
EXTENDS Operations

VARIABLES
  buckets,    \* map_star12_ops, ..., swap_dword_ops: lists of operations
  mergeMode   \* the mode of the merges, or None

pipelineVars == <<buckets, mergeMode>>

\* Mutant of Stages: merges before it cuts.
StagesMergeFirst ==
  <<"map_star12", "map_star12x", "map_star08", "remap", "dspic_expand", "dspic_shrink",
    "dspic_clear_ghost", "fill", "merge", "cut", "filter", "fill_gaps", "align", "split",
    "swap_word", "swap_dword">>

\* The order in which apply() takes the buckets.
Stages ==
  <<"map_star12", "map_star12x", "map_star08", "remap", "dspic_expand", "dspic_shrink",
    "dspic_clear_ghost", "fill", "cut", "merge", "filter", "fill_gaps", "align", "split",
    "swap_word", "swap_dword">>

NewPipeline ==
  buckets = [stage \in Range(Stages) |-> <<>>] /\ mergeMode = None

Push(o) == buckets' = [buckets EXCEPT ![o.op] = Append(@, o)]

\* merge() with another mode than the merges before it is refused.
ModeClashes(o) == o.op = "merge" /\ mergeMode \notin {None, o.mode}

\* A call whose arguments parse; fill_gaps has no limit but u32::MAX.
CallPipeline(o) ==
  /\ ~ModeClashes(o)
  /\ Push(IF o.op = "fill_gaps" THEN [o EXCEPT !.limit = MaxAddr] ELSE o)
  /\ mergeMode' = IF o.op = "merge" THEN o.mode ELSE mergeMode

RefuseMerge(o) == ModeClashes(o) /\ UNCHANGED pipelineVars

\* merge() stores its mode before its range is parsed, and keeps it when that
\* fails.
MergeBadRange(mode) ==
  /\ mergeMode \in {None, mode}
  /\ mergeMode' = mode
  /\ UNCHANGED buckets

ClearPipeline ==
  buckets' = [stage \in Range(Stages) |-> <<>>] /\ mergeMode' = None

Ordered == FlattenSeq([n \in DOMAIN Stages |-> buckets[Stages[n]]])

\* apply(source): the new file, or Failed.
Applied(source) == ApplyAll(source, Ordered)

=============================================================================

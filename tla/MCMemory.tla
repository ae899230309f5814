------------------------------ MODULE MCMemory ------------------------------
(***************************************************************************)
(* Address space, page resources and metadata, for TLC.  No two of these   *)
(* components share state in the models, so a behaviour is one of one      *)
(* component: part is chosen at the start, and the variables of the others *)
(* keep one of their initial values.                                       *)
(***************************************************************************)
EXTENDS PageResources, SpaceGrowth, HeapLayout, ChunkTable, MetadataBits, MetadataRanges

VARIABLE part

Parts == {"pages", "growth", "layout", "chunks", "bits", "ranges"}

\* Two spaces of two chunks each, and where their two metadata specs start.
TwoRanges == << <<2, 3>>, <<4, 5>> >>
TwoBases == <<16, 18>>

\* The spaces two plans create, in order.
TwoPlans == {<<"lockfree", "freelist">>, <<"freelist", "monotone", "freelist">>}

\* The fields two threads work on: neighbours in one side byte, a whole side
\* byte, two fields of one header byte, and forwarding bits in
\* the low bits of a header pointer.
FieldIn(where, at, bits, mask, args) ==
  [where |-> where, at |-> at, bits |-> bits, mask |-> mask, args |-> args]
FieldSets ==
  { {FieldIn("side", 0, 1, {}, {1}), FieldIn("side", 1, 1, {}, {1})},
    {FieldIn("side", 0, 8, {}, {128})},
    {FieldIn("header", 0, 2, {}, {3}), FieldIn("header", 2, 1, {}, {1})},
    {FieldIn("header", 8, 2, {}, {3}), FieldIn("header", 8, 8, 2 .. 7, {4})} }

\* From one bit for two bytes to a byte for four.
TableSpec(bits, region) == [log_num_of_bits |-> bits, log_bytes_in_region |-> region]
FourSpecs == {TableSpec(0, 1), TableSpec(1, 1), TableSpec(2, 2), TableSpec(3, 2)}

Init ==
  /\ part \in Parts
  /\ PagesInit
  /\ GrowthInit /\ (part # "growth" => mm.layout = "space")
  /\ LayoutInit /\ (part # "layout" => todo = <<"lockfree", "freelist">>)
  /\ ChunksInit
  /\ BitsInit /\ (part # "bits" => metas = {FieldIn("side", 0, 8, {}, {128})})
  /\ RangesInit /\ (part # "ranges" => /\ table.spec = TableSpec(0, 1) /\ ~ table.filled
                                       /\ table.bits = {} /\ 1 .. 3 \subseteq table.mapped)

Next ==
  \/ part = "pages" /\ PagesNext
       /\ UNCHANGED <<part, growthVars, layoutVars, chunkVars, bitsVars, rangeVars>>
  \/ part = "growth" /\ GrowthNext
       /\ UNCHANGED <<part, pageVars, layoutVars, chunkVars, bitsVars, rangeVars>>
  \/ part = "layout" /\ LayoutNext
       /\ UNCHANGED <<part, pageVars, growthVars, chunkVars, bitsVars, rangeVars>>
  \/ part = "chunks" /\ ChunksNext
       /\ UNCHANGED <<part, pageVars, growthVars, layoutVars, bitsVars, rangeVars>>
  \/ part = "bits" /\ BitsNext
       /\ UNCHANGED <<part, pageVars, growthVars, layoutVars, chunkVars, rangeVars>>
  \/ part = "ranges" /\ RangesNext
       /\ UNCHANGED <<part, pageVars, growthVars, layoutVars, chunkVars, bitsVars>>

Spec ==
  Init /\ [][Next]_<<part, pageVars, growthVars, layoutVars, chunkVars, bitsVars, rangeVars>>
=============================================================================

----------------------------- MODULE UnlogTable -----------------------------
(***************************************************************************)
(* The field unlog bits of LXR over the life of the objects: one block of  *)
(* the Immix space (its counts and holes are those of RCLines) and the     *)
(* large object space.  A field whose bit is set is logged by the write    *)
(* barrier at its next store; the bit has to be set for the fields of      *)
(* objects that have been counted (promoted) and clear for young objects.  *)
(* The code sets bits a byte or a line at a time, also those of neighbours *)
(* and of dead objects, and clears them when memory is taken again: at the *)
(* acquisition of lines or of a clean block, and at the release of the     *)
(* pages of a large object.                                                *)
(* Addresses count granules of the smallest object; the first granule of   *)
(* an object is its header, each other one a reference field.              *)
(***************************************************************************)
EXTENDS RCLines

CONSTANTS
  UnlogByteGranules,   \* heap_bytes_per_unlog_byte
  LosPageGranules,     \* BYTES_IN_PAGE
  LosPageCount,        \* pages of the large object space
  LargeSizes,          \* sizes of large objects
  MaxObjectsU,         \* bound on the objects at a time
  MaxStoresU,          \* bound on the barrier slow paths of an epoch
  MaxPausesU           \* bound on the pauses

VARIABLES
  unlogBits,   \* GLOBAL_FIELD_UNLOG_BIT_SPEC: the addresses whose bit is set
  nursery,     \* young objects of the block
  large,       \* LargeObjectSpace: rc_nursery_objects, rc_mature_objects,
               \* the objects with a count, the pages accounted for,
               \* young_alloc_size, and whether this pause has prepared the space
  blockIs,     \* the block: "clean", "reusable", "full", or "taken" by a mutator
  window,      \* the mutator's cursor and limit, and where it searches next
  incSlots,    \* slots the barrier has logged in this epoch
  pauseAt,     \* where the pause is: "mutators", "incs" or "decs"
  pausesU      \* pauses so far

unlogVars == <<rc, straddles, residents, unlogBits, nursery, large, blockIs,
               window, incSlots, pauseAt, pausesU>>

HEADER == 1
LosStart == RCLineCount * LineGranules
Pages(size) == (size + LosPageGranules - 1) \div LosPageGranules
PagesFrom(o) == {o.at + g : g \in 0..(Pages(o.size) * LosPageGranules - 1)}
FieldsIn(o) == IF o.refs THEN (o.at + HEADER)..(o.at + o.size - 1) ELSE {}
AllObjects == nursery \cup residents \cup large.nursery \cup large.mature
LinesFrom(first, last) == FirstGranule(first)..(FirstGranule(last) - 1)
NoWindow == [cursor |-> 0, limit |-> 0, line |-> RCLineCount]

UnlogInit ==
  /\ RCLinesInit
  /\ unlogBits = {} /\ nursery = {} /\ incSlots = {}
  /\ large = [nursery |-> {}, mature |-> {}, counted |-> {}, committed |-> 0,
              youngSize |-> 0, prepared |-> FALSE]
  /\ blockIs = "clean" /\ window = NoWindow
  /\ pauseAt = "mutators" /\ pausesU = 0

-------------------------------------------------------------------------------
(* Mutators.                                                                   *)

\* Mistake: the last line of the hole keeps its bits.
clear_field_unlog_tableShort(first, last) == LinesFrom(first, last - 1)

\* The bits cleared for lines taken by a mutator.
clear_field_unlog_table(first, last) == LinesFrom(first, last)

\* Block::clear_field_unlog_table.
BlockBits == Granule

\* A clean block: the bits of the whole block are cleared.
TakeCleanBlock ==
  /\ blockIs = "clean"
  /\ blockIs' = "taken"
  /\ unlogBits' = unlogBits \ BlockBits
  /\ window' = [cursor |-> 0, limit |-> LosStart, line |-> RCLineCount]

\* A block with holes: the mutator searches it from its first line.
TakeReusableBlock ==
  /\ blockIs = "reusable"
  /\ blockIs' = "taken"
  /\ window' = [NoWindow EXCEPT !.line = 0]
  /\ UNCHANGED unlogBits

\* The next hole of the block at hand.
TakeHole ==
  LET holes == rc_get_next_available_lines[window.line]
      hole  == CHOOSE h \in holes : \A k \in holes : h.first <= k.first
  IN  /\ blockIs = "taken" /\ holes # {}
      /\ window' = [cursor |-> FirstGranule(hole.first),
                    limit |-> FirstGranule(hole.last), line |-> hole.last]
      /\ unlogBits' = unlogBits \ clear_field_unlog_table(hole.first, hole.last)
      /\ UNCHANGED blockIs

AcquireMemory ==
  /\ pauseAt = "mutators"
  /\ TakeCleanBlock \/ TakeReusableBlock \/ TakeHole
  /\ UNCHANGED <<rcLineVars, nursery, large, incSlots, pauseAt, pausesU>>

\* An object, or an array of values without reference fields, in the window.
AllocSmall(size, refs) ==
  /\ pauseAt = "mutators" /\ Cardinality(AllObjects) < MaxObjectsU
  /\ window.cursor + size <= window.limit
  /\ nursery' = nursery \cup {[at |-> window.cursor, size |-> size, refs |-> refs]}
  /\ window' = [window EXCEPT !.cursor = @ + size]
  /\ UNCHANGED <<rcLineVars, unlogBits, large, blockIs, incSlots, pauseAt, pausesU>>

\* The first run of free pages that is long enough, if there is one.
allocate_pages(pages) ==
  LET used == UNION {PagesFrom(o) : o \in large.nursery \cup large.mature}
      fits == {p \in 0..(LosPageCount - pages) :
                 \A g \in 0..(pages * LosPageGranules - 1) :
                   LosStart + p * LosPageGranules + g \notin used}
  IN  IF fits = {} THEN {} ELSE {LosStart + Min(fits) * LosPageGranules}

\* A large object: whole pages, and an entry of rc_nursery_objects.
AllocLarge(size, refs) ==
  /\ pauseAt = "mutators" /\ Cardinality(AllObjects) < MaxObjectsU
  /\ \E at \in allocate_pages(Pages(size)) :
       large' = [large EXCEPT !.nursery = @ \cup {[at |-> at, size |-> size, refs |-> refs]},
                              !.committed = @ + Pages(size), !.youngSize = @ + size]
  /\ UNCHANGED <<rcLineVars, unlogBits, nursery, blockIs, window, incSlots, pauseAt, pausesU>>

is_field_logged(f) == f \notin unlogBits

\* A store to a field whose bit is set: the barrier logs the slot.  A store to
\* any other field changes nothing here.
StoreInField(f) ==
  /\ pauseAt = "mutators" /\ Cardinality(incSlots) < MaxStoresU
  /\ ~ is_field_logged(f)
  /\ unlogBits' = unlogBits \ {f}
  /\ incSlots' = incSlots \cup {f}
  /\ UNCHANGED <<rcLineVars, nursery, large, blockIs, window, pauseAt, pausesU>>

-------------------------------------------------------------------------------
(* The pause: increments and promotion, release, decrements and sweeping.     *)

\* Mutators stop and give their windows up.
StopForPause ==
  /\ pauseAt = "mutators" /\ pausesU < MaxPausesU
  /\ pauseAt' = "incs" /\ pausesU' = pausesU + 1
  /\ window' = NoWindow
  /\ UNCHANGED <<rcLineVars, unlogBits, nursery, large, blockIs, incSlots>>

\* LargeObjectSpace::prepare: the volume allocated since the last pause.
los_prepare(space) == [space EXCEPT !.youngSize = 0, !.prepared = TRUE]

\* A packet of the increment stage prepares the spaces.
FastRCPrepare ==
  /\ pauseAt = "incs" /\ ~ large.prepared
  /\ large' = los_prepare(large)
  /\ UNCHANGED <<rcLineVars, unlogBits, nursery, blockIs, window, incSlots, pauseAt, pausesU>>

\* The bits unlog_field_relaxed sets: those of the byte of the field.
unlog_field_relaxed(f) ==
  LET first == f - (f % UnlogByteGranules) IN first..(first + UnlogByteGranules - 1)

\* A slot logged in a mature object: its bit is set again before its target is
\* counted.
unlog_and_load_rc_object(f) ==
  /\ pauseAt = "incs" /\ f \in incSlots
  /\ incSlots' = incSlots \ {f}
  /\ unlogBits' = unlogBits \cup unlog_field_relaxed(f)
  /\ UNCHANGED <<rcLineVars, nursery, large, blockIs, window, pauseAt, pausesU>>

\* Mistake: the walk stops at the last whole line of the object.
UnlogsInPlaceRoundsDown(o) ==
  IF o.refs THEN LinesFrom(LineOf(o.at + HEADER), LineOf(o.at + o.size)) ELSE {}

\* scan_nursery_object in a block: the bits of whole lines, from the line of
\* the first field to the line of the last one; none for arrays of values.
UnlogsInPlace(o) ==
  IF o.refs THEN LinesFrom(LineOf(o.at + HEADER), LineOf(o.at + o.size + LineGranules - 1))
  ELSE {}

\* scan_nursery_object for large objects: the bits of whole bytes to the end of
\* the object; of the first byte at least.
UnlogsLarge(o) ==
  unlog_field_relaxed(o.at)
  \cup (IF o.refs THEN UNION {unlog_field_relaxed(f) : f \in o.at..(o.at + o.size - 1)} ELSE {})

\* The first count of a young object of the block.
PromoteSmall(o) ==
  /\ pauseAt = "incs" /\ o \in nursery
  /\ nursery' = nursery \ {o}
  /\ promote_with_size(o)
  /\ unlogBits' = unlogBits \cup UnlogsInPlace(o)
  /\ UNCHANGED <<large, blockIs, window, incSlots, pauseAt, pausesU>>

\* The first count of a young large object; it stays in rc_nursery_objects.
PromoteLarge(o) ==
  /\ pauseAt = "incs" /\ o \in large.nursery \ large.counted
  /\ large' = [large EXCEPT !.counted = @ \cup {o}]
  /\ unlogBits' = unlogBits \cup UnlogsLarge(o)
  /\ UNCHANGED <<rcLineVars, nursery, blockIs, window, incSlots, pauseAt, pausesU>>

\* Mistake: pages are released as in a space without field log bits.
release_objectKeepsBits(objects) == unlogBits

\* release_object: the pages of the objects are given back, and the bits of
\* all of them cleared.
release_object(objects) == unlogBits \ UNION {PagesFrom(o) : o \in objects}

\* The pages accounted for are those of the objects that are left.
PagesReleased(objects) == large.committed - MapThenSumSet(LAMBDA o : Pages(o.size), objects)

\* The release stage: young objects without a count are dead; large ones with
\* a count become mature.
release_rc_nursery_objects ==
  /\ pauseAt = "incs" /\ incSlots = {} /\ large.prepared
  /\ LET dead == large.nursery \ large.counted
     IN  /\ unlogBits' = release_object(dead)
         /\ large' = [large EXCEPT !.nursery = {},
                                   !.mature = @ \cup (large.nursery \cap large.counted),
                                   !.committed = PagesReleased(dead), !.prepared = FALSE]
  /\ nursery' = {}
  /\ pauseAt' = "decs"
  /\ UNCHANGED <<rcLineVars, blockIs, window, incSlots, pausesU>>

\* The last count of an object of the block is gone.
DecSmall(o) ==
  /\ pauseAt = "decs" /\ o \in residents
  /\ process_dead_object(o)
  /\ UNCHANGED <<unlogBits, nursery, large, blockIs, window, incSlots, pauseAt, pausesU>>

\* The last count of a large object is gone.
rc_free(o) ==
  /\ pauseAt = "decs" /\ o \in large.mature
  /\ unlogBits' = release_object({o})
  /\ large' = [large EXCEPT !.mature = @ \ {o}, !.counted = @ \ {o},
                            !.committed = PagesReleased({o})]
  /\ UNCHANGED <<rcLineVars, nursery, blockIs, window, incSlots, pauseAt, pausesU>>

\* The block is swept and the mutators resume.
SweepAndResume ==
  /\ pauseAt = "decs"
  /\ pauseAt' = "mutators"
  /\ blockIs' = IF rc_dead THEN "clean" ELSE IF has_holes(1) THEN "reusable" ELSE "full"
  /\ UNCHANGED <<rcLineVars, unlogBits, nursery, large, window, incSlots, pausesU>>

UnlogNext ==
  \/ AcquireMemory
  \/ \E size \in PromotedSizes, refs \in BOOLEAN : AllocSmall(size, refs)
  \/ \E size \in LargeSizes, refs \in BOOLEAN : AllocLarge(size, refs)
  \/ \E o \in AllObjects : \E f \in FieldsIn(o) : StoreInField(f)
  \/ StopForPause
  \/ FastRCPrepare
  \/ \E f \in incSlots : unlog_and_load_rc_object(f)
  \/ \E o \in nursery : PromoteSmall(o)
  \/ \E o \in large.nursery : PromoteLarge(o)
  \/ release_rc_nursery_objects
  \/ \E o \in residents : DecSmall(o)
  \/ \E o \in large.mature : rc_free(o)
  \/ SweepAndResume

-------------------------------------------------------------------------------
\* While mutators run, every field of a counted object has its bit set or its
\* slot in the log, never both, so that the first store of the epoch is logged
\* and logged once; no field of a young object has its bit set, whatever its
\* neighbours and whoever used the memory before, so that the barrier never
\* logs it (the old value was not counted: its decrement would free an object
\* in use); the log names slots of counted objects only.  The large object space
\* accounts for exactly the pages of its objects, and its young_alloc_size is the
\* volume of the objects allocated since the last pause.  No two objects of the
\* block overlap.
UnlogBitsAreExact ==
  /\ pauseAt = "mutators" =>
       /\ \A o \in residents \cup large.mature : \A f \in FieldsIn(o) :
            (f \in unlogBits) # (f \in incSlots)
       /\ \A o \in nursery \cup large.nursery : FieldsIn(o) \cap unlogBits = {}
       /\ incSlots \subseteq UNION {FieldsIn(o) : o \in residents \cup large.mature}
       /\ large.youngSize = MapThenSumSet(LAMBDA o : o.size, large.nursery)
  /\ large.committed = MapThenSumSet(LAMBDA o : Pages(o.size), large.nursery \cup large.mature)
  /\ \A o, p \in nursery \cup residents :
       o = p \/ o.at + o.size <= p.at \/ p.at + p.size <= o.at
===============================================================================

------------------------------ MODULE ImmixLines ------------------------------
(* Lines and holes of a tracing Immix space (policy/immix, the Immix plan):    *)
(* bump allocation into clean blocks and into holes, the hole search by line   *)
(* marks, a collection that marks or evacuates objects and marks their lines   *)
(* when they are scanned, the sweep of the blocks, and the choice of the       *)
(* blocks to evacuate.  One mutator and one copying worker: how several        *)
(* allocators share blocks is ImmixBlocks' subject.                            *)
(* A block is LINES lines of GRANULES granules; an object is an interval of    *)
(* granules of one block.                                                      *)
EXTENDS Integers, FiniteSets, FiniteSetsExt

CONSTANTS
  NumImmixBlocks,   \* blocks mapped for the space
  LINES,            \* Block::LINES
  GRANULES,         \* granules in a line
  HeapBlocks,       \* the heap size, in blocks (a block is one page here)
  ObjectSizes,      \* sizes of objects, in granules
  MaxLive,          \* objects reachable at one time
  MaxRequests,      \* objects the mutator asks for, in all
  MaxCollections,   \* collections, in all
  MAX_MARK_STATE,   \* Line::MAX_MARK_STATE (127)
  AlwaysDefrag      \* whether feature ix_always_defrag may be on: a subset of BOOLEAN

VARIABLES
  blockTable,  \* per block: the state byte, the defrag byte, the phase that
               \* allocated into it last, and its lines' marks
  objects,     \* the reachable objects: name -> where it is
  immix,       \* fields of ImmixSpace and of its Defrag
  bump,        \* the allocators: the mutator's and the worker's copy allocator
  gcState        \* the collection: its phase, objects marked and objects scanned

immixVars == <<blockTable, objects, immix, bump, gcState>>

ImmixBlock == 1..NumImmixBlocks
Line == 0..(LINES - 1)
Names == 1..MaxLive
Allocators == {"mutator", "copy"}
RESET_MARK_STATE == 1
MIN_SPILL_THRESHOLD == 2
DEFRAG_HEADROOM_PERCENT == 5
DEFRAG_SOURCE_STATE == 255
NUM_BINS == (LINES \div 2) + 1
Spot == 0..(LINES * GRANULES)
NoLine == -1
NoImmixBlock == 0

\* Block states as the bytes of the mark table; k in 1..LINES - 1 is
\* Reusable { unavailable_lines: k }.
Unallocated == 0
Unmarked == 255
Marked == 254
Reusable == 1..(LINES - 1)

LinesOf(o) == (o.from \div GRANULES)..((o.to - 1) \div GRANULES)
Granules(o) == o.from..(o.to - 1)
Allocated(t) == {b \in ImmixBlock : t[b].state # Unallocated}
EmptyWindow == [block |-> NoImmixBlock, cursor |-> 0, limit |-> 0]
NoWant == [stage |-> "none", name |-> 0, size |-> 0]
FreshAllocator ==
  [small |-> EmptyWindow, large |-> EmptyWindow, line |-> NoLine, want |-> NoWant]

LinesInit ==
  /\ blockTable = [b \in ImmixBlock |->
       [state |-> Unallocated, byte |-> 0, used |-> "before",
        marks |-> [l \in Line |-> 0]]]
  /\ objects = <<>>
  /\ \E always \in AlwaysDefrag :
       immix = [mark |-> RESET_MARK_STATE, unavail |-> RESET_MARK_STATE,
                always |-> always, in_defrag |-> FALSE, exhausted |-> FALSE,
                clean |-> 0, threshold |-> 0, histogram |-> [h \in 0..(NUM_BINS - 1) |-> 0]]
  /\ bump = [a \in Allocators |-> FreshAllocator]
  /\ gcState = [phase |-> "mutator", marked |-> {}, scanned |-> {}, requests |-> 0, collections |-> 0]

-------------------------------------------------------------------------------
\* Blocks.

\* The byte is the number of holes outside a collection and the defrag-source
\* mark within one; this test only asks whether it is zero.
is_defrag_source(b) == blockTable[b].byte # 0

\* Allocated into by the mutator since the last pause.
is_reusing_block(b) == blockTable[b].state # Unallocated /\ blockTable[b].used = "mutator"

is_gc_reusing(b) == blockTable[b].state # Unallocated /\ blockTable[b].used = "gc"

\* Block::init: phase epoch, state and, for a clean block, the defrag byte.
init_block(t, b, copy, reuse) ==
  [t EXCEPT ![b].used = IF copy THEN "gc" ELSE "mutator",
            ![b].state = IF copy THEN Marked ELSE Unmarked,
            ![b].byte = IF reuse THEN @ ELSE 0]

notify_new_clean_block(ix, copy) ==
  IF ~copy THEN ix
  ELSE [ix EXCEPT !.clean = IF @ <= 1 THEN 0 ELSE @ - 1,
                  !.exhausted = @ \/ ix.clean <= 1]

\* The page budget is charged here and, in a defrag collection, a second time
\* by BlockAllocation::initialize_new_clean_block.
initialize_new_clean_block(ix, copy) ==
  IF ix.in_defrag THEN notify_new_clean_block(ix, copy) ELSE ix

-------------------------------------------------------------------------------
\* The hole search.

\* Mistake: only the marks of the running collection are looked at.
TakenByCurrentMarks(ix, marks, l) == marks[l] = ix.mark

Taken(ix, marks, l) == marks[l] \in {ix.unavail, ix.mark}

\* The next hole at or after line "from": the lines first..last - 1.
normal_get_next_available_lines(ix, marks, from) ==
  LET open == {l \in from..(LINES - 1) : ~ Taken(ix, marks, l)}
  IN  IF open = {} THEN {}
      ELSE LET first == Min(open)
               closed == {l \in first..(LINES - 1) : Taken(ix, marks, l)}
           IN  {[first |-> first, last |-> IF closed = {} THEN LINES ELSE Min(closed)]}

-------------------------------------------------------------------------------
\* The allocator.

InPause == gcState.phase # "mutator"
Active(a) == IF a = "copy" THEN gcState.phase = "trace" ELSE ~InPause

\* A request of the mutator, or of the copy allocator by forward below.
Request ==
  /\ gcState.phase = "mutator" /\ bump["mutator"].want = NoWant
  /\ DOMAIN objects # Names /\ gcState.requests < MaxRequests
  /\ \E size \in ObjectSizes :
       bump' = [bump EXCEPT !["mutator"].want =
         [stage |-> "hot", name |-> Min(Names \ DOMAIN objects), size |-> size]]
  /\ gcState' = [gcState EXCEPT !.requests = @ + 1]
  /\ UNCHANGED <<blockTable, objects, immix>>

Fits(window, size) == window.block # NoImmixBlock /\ window.cursor + size <= window.limit

\* The object is placed; a copy is marked by post_copy.
Place(a, window, which) ==
  LET want == bump[a].want
      o == [block |-> window.block, from |-> window.cursor, to |-> window.cursor + want.size]
  IN  /\ objects' = [n \in DOMAIN objects \cup {want.name} |->
                       IF n = want.name THEN o ELSE objects[n]]
      /\ bump' = IF which = "small"
                 THEN [bump EXCEPT ![a].small.cursor = @ + want.size, ![a].want = NoWant]
                 ELSE [bump EXCEPT ![a].large.cursor = @ + want.size, ![a].want = NoWant]
      /\ gcState' = IF a = "copy" THEN [gcState EXCEPT !.marked = @ \cup {want.name}] ELSE gcState
      /\ UNCHANGED <<blockTable, immix>>

alloc_fast(a) ==
  /\ Active(a) /\ bump[a].want.stage = "hot"
  /\ Fits(bump[a].small, bump[a].want.size)
  /\ Place(a, bump[a].small, "small")

\* Objects larger than a line use a bump pointer of their own, refilled with
\* clean blocks only.
overflow_alloc(a) ==
  /\ Active(a) /\ bump[a].want.stage = "hot" /\ bump[a].want.size > GRANULES
  /\ ~ Fits(bump[a].small, bump[a].want.size)
  /\ IF Fits(bump[a].large, bump[a].want.size)
     THEN Place(a, bump[a].large, "large")
     ELSE /\ bump' = [bump EXCEPT ![a].want.stage = "clean"]
          /\ UNCHANGED <<blockTable, objects, immix, gcState>>

Hot(a) ==
  /\ Active(a) /\ bump[a].want.stage = "hot" /\ bump[a].want.size <= GRANULES
  /\ ~ Fits(bump[a].small, bump[a].want.size)

\* One turn of the loop of acquire_recyclable_lines with a current line.
acquire_recyclable_lines(a) ==
  /\ Hot(a) /\ bump[a].line # NoLine
  /\ LET b == bump[a].small.block
         hole == normal_get_next_available_lines(immix, blockTable[b].marks, bump[a].line)
     IN  bump' = IF hole = {} THEN [bump EXCEPT ![a].line = NoLine]
                 ELSE LET h == CHOOSE h \in hole : TRUE
                      IN [bump EXCEPT
                           ![a].small = [block |-> b, cursor |-> h.first * GRANULES,
                                         limit |-> h.last * GRANULES],
                           ![a].line = IF h.last = LINES THEN NoLine ELSE h.last]
  /\ UNCHANGED <<blockTable, objects, immix, gcState>>

\* Mistake: blocks filled since the last pause are searched for holes.
block_is_availableYoung(a, b) ==
  /\ blockTable[b].state # Unallocated
  /\ a = "copy" => ~ is_gc_reusing(b)
  /\ ~ is_defrag_source(b)

\* BlockPageResource::block_is_available, and the test try_acquire_block
\* repeats under the block's lock.
block_is_available(a, b) ==
  /\ blockTable[b].state # Unallocated
  /\ ~ is_reusing_block(b)
  /\ a = "copy" => ~ is_gc_reusing(b)
  /\ ~ is_defrag_source(b)

\* The blocks are scanned in order; when none is recyclable, go on to a clean
\* one.
acquire_recyclable_block(a) ==
  LET found == {b \in ImmixBlock : block_is_available(a, b)}
      b == Min(found)
  IN  /\ Hot(a) /\ bump[a].line = NoLine
      /\ IF found = {}
         THEN /\ bump' = [bump EXCEPT ![a].want.stage = "clean"]
              /\ UNCHANGED blockTable
         ELSE /\ blockTable' = init_block(blockTable, b, a = "copy", TRUE)
              /\ bump' = [bump EXCEPT ![a].line = 0,
                                      ![a].small = [EmptyWindow EXCEPT !.block = b]]
      /\ UNCHANGED <<objects, immix, gcState>>

\* The mutator polls first: a full heap blocks it until a collection frees
\* a block.  The whole block becomes the window, its stale line marks cleared.
acquire_clean_block(a) ==
  LET free == ImmixBlock \ Allocated(blockTable)
      b == Min(free)
      window == [block |-> b, cursor |-> 0, limit |-> LINES * GRANULES]
  IN  /\ Active(a) /\ bump[a].want.stage = "clean" /\ free # {}
      /\ a = "mutator" => Cardinality(Allocated(blockTable)) < HeapBlocks
      /\ blockTable' = [init_block(blockTable, b, a = "copy", FALSE)
                          EXCEPT ![b].marks = [l \in Line |-> 0]]
      /\ bump' = IF bump[a].want.size > GRANULES
                 THEN [bump EXCEPT ![a].large = window, ![a].want.stage = "hot"]
                 ELSE [bump EXCEPT ![a].small = window, ![a].want.stage = "hot"]
      /\ immix' = initialize_new_clean_block(notify_new_clean_block(immix, a = "copy"),
                                             a = "copy")
      /\ UNCHANGED <<objects, gcState>>

\* The mutator lets go of its last reference to an object.
DropObject ==
  /\ gcState.phase = "mutator"
  /\ \E name \in DOMAIN objects :
       objects' = [n \in DOMAIN objects \ {name} |-> objects[n]]
  /\ UNCHANGED <<blockTable, immix, bump, gcState>>

-------------------------------------------------------------------------------
\* A collection.

defrag_headroom_pages(reserved) == (reserved * DEFRAG_HEADROOM_PERCENT) \div 100

\* Block::is_reusable asks for a zero defrag byte too.
get_available_lines(bin) ==
  MapThenSumSet(LAMBDA b : LINES - blockTable[b].state,
    {b \in ImmixBlock : /\ blockTable[b].state \in Reusable
                        /\ ~ is_defrag_source(b) /\ blockTable[b].byte = bin})

\* The largest number of holes such that all blocks with at least that many can
\* be evacuated into the lines expected to be free.
establish_defrag_spill_threshold(clean) ==
  LET bins == 0..(NUM_BINS - 1)
      avail == [h \in bins |-> get_available_lines(h)]
      From(h) == h..(NUM_BINS - 1)
      Sum(f, S) == MapThenSumSet(LAMBDA h : f[h], S)
      limit == ((Sum(avail, bins) + clean * LINES) * 100) \div 99
      short == {h \in MIN_SPILL_THRESHOLD..(NUM_BINS - 1) :
                  limit - Sum(avail, From(h)) < Sum(immix.histogram, From(h))}
  IN  IF short = {} THEN MIN_SPILL_THRESHOLD ELSE Max(short)

\* Defrag::prepare, in a collection that defragments or not.
prepare_defrag(defrag) ==
  LET reserved == Cardinality(Allocated(blockTable))
      headroom == defrag_headroom_pages(reserved)
      free == HeapBlocks - reserved + headroom
      clean == IF free < 0 THEN 0 ELSE free
  IN  [immix EXCEPT !.in_defrag = defrag, !.exhausted = FALSE,
                    !.threshold = IF defrag THEN establish_defrag_spill_threshold(clean) ELSE @,
                    !.clean = clean + headroom]

\* The line mark of the new collection: 1..MAX_MARK_STATE, round and round.
next_line_mark_state(s) == IF s + 1 > MAX_MARK_STATE THEN RESET_MARK_STATE ELSE s + 1

PrepareBlockState(ix) ==
  [b \in ImmixBlock |->
     IF blockTable[b].state = Unallocated THEN blockTable[b]
     ELSE [blockTable[b] EXCEPT
             !.byte = IF ix.in_defrag /\ @ >= ix.threshold THEN DEFRAG_SOURCE_STATE ELSE 0,
             !.state = Unmarked]]

\* decide_whether_to_defrag: what it weighs (an emergency, earlier attempts,
\* the reusable blocks used up) is an input; the feature overrides it.
decide_whether_to_defrag == {d \in BOOLEAN : immix.always => d}

\* schedule_collection, the mutator stopped and its allocator reset, and
\* ImmixSpace::prepare with its block packets.
prepare_immix ==
  /\ gcState.phase = "mutator" /\ bump["mutator"].want.stage \in {"none", "clean"}
  /\ gcState.collections < MaxCollections
  /\ \E defrag \in decide_whether_to_defrag :
       LET ix == prepare_defrag(defrag)
       IN  /\ immix' = [ix EXCEPT !.mark = next_line_mark_state(@)]
           /\ blockTable' = PrepareBlockState(ix)
  /\ bump' = [bump EXCEPT !["mutator"] = [FreshAllocator EXCEPT !.want = bump["mutator"].want]]
  /\ gcState' = [gcState EXCEPT !.phase = "trace", !.collections = @ + 1]
  /\ UNCHANGED objects

Untraced == {n \in DOMAIN objects :
               /\ n \notin gcState.marked
               /\ ~ (bump["copy"].want # NoWant /\ bump["copy"].want.name = n)}

trace_object_without_moving(n) ==
  /\ ~ (immix.in_defrag /\ is_defrag_source(objects[n].block))
  /\ gcState' = [gcState EXCEPT !.marked = @ \cup {n}]
  /\ UNCHANGED <<blockTable, objects, immix, bump>>

\* An object of a defrag source is copied while pages last, otherwise marked
\* in place.
trace_object_with_opportunistic_copy(n) ==
  /\ immix.in_defrag /\ is_defrag_source(objects[n].block)
  /\ \/ /\ immix.exhausted
        /\ gcState' = [gcState EXCEPT !.marked = @ \cup {n}]
        /\ blockTable' = [blockTable EXCEPT ![objects[n].block].state = Marked]
        /\ UNCHANGED bump
     \/ /\ ~ immix.exhausted /\ bump["copy"].want = NoWant
        /\ bump' = [bump EXCEPT !["copy"].want =
             [stage |-> "hot", name |-> n, size |-> objects[n].to - objects[n].from]]
        /\ UNCHANGED <<blockTable, gcState>>
  /\ UNCHANGED <<objects, immix>>

Trace ==
  /\ gcState.phase = "trace"
  /\ \E n \in Untraced : trace_object_without_moving(n) \/ trace_object_with_opportunistic_copy(n)

mark_lines_for_object(t, o, state) ==
  [t EXCEPT ![o.block].marks = [l \in Line |-> IF l \in LinesOf(o) THEN state ELSE @[l]]]

\* Lines are marked when the object is scanned, not when it is marked.
post_scan_object ==
  /\ gcState.phase = "trace"
  /\ \E n \in gcState.marked \ gcState.scanned :
       /\ blockTable' = mark_lines_for_object(blockTable, objects[n], immix.mark)
       /\ gcState' = [gcState EXCEPT !.scanned = @ \cup {n}]
  /\ UNCHANGED <<objects, immix, bump>>

HoleStarts(marked) == {l \in Line \ marked : l = 0 \/ l - 1 \in marked}

\* Mistake: lines left unmarked keep their old marks in every collection.
sweep_blockKeepsMarks(entry, state) ==
  LET marked == {l \in Line : entry.marks[l] = state}
  IN  IF marked = {} THEN [entry EXCEPT !.byte = 0, !.state = Unallocated]
      ELSE [entry EXCEPT !.byte = Cardinality(HoleStarts(marked)),
                         !.state = IF Cardinality(marked) = LINES THEN Unmarked
                                   ELSE Cardinality(marked)]

\* Block::sweep: the new entry of a block.
sweep_block(entry, state) ==
  LET marked == {l \in Line : entry.marks[l] = state}
      marks == [l \in Line |-> IF l \notin marked /\ state > MAX_MARK_STATE - 2
                               THEN 0 ELSE entry.marks[l]]
  IN  IF marked = {} THEN [entry EXCEPT !.byte = 0, !.marks = marks, !.state = Unallocated]
      ELSE [entry EXCEPT !.marks = marks, !.byte = Cardinality(HoleStarts(marked)),
                         !.state = IF Cardinality(marked) = LINES THEN Unmarked
                                   ELSE Cardinality(marked)]

\* SweepChunk over all chunks, with the histogram of live lines by holes.
SweepChunk ==
  LET new == [b \in ImmixBlock |-> IF blockTable[b].state = Unallocated THEN blockTable[b]
                                   ELSE sweep_block(blockTable[b], immix.mark)]
      live == {b \in Allocated(blockTable) : new[b].state # Unallocated}
      Full(b) == IF new[b].state = Unmarked THEN LINES ELSE new[b].state
  IN  /\ blockTable' = new
      /\ immix' = [immix EXCEPT
           !.unavail = immix.mark,
           !.histogram = [h \in 0..(NUM_BINS - 1) |->
              MapThenSumSet(Full, {b \in live : new[b].byte = h})]]

\* ImmixSpace::release after the closure; the copy allocator is reset.
release_immix ==
  /\ gcState.phase = "trace" /\ gcState.scanned = DOMAIN objects
  /\ bump["copy"].want = NoWant
  /\ SweepChunk
  /\ bump' = [bump EXCEPT !["copy"] = FreshAllocator]
  /\ gcState' = [gcState EXCEPT !.phase = "swept", !.marked = {}, !.scanned = {}]
  /\ UNCHANGED objects

\* end_of_gc and gc_pause_end: the phase epoch moves on, so no block counts as
\* used in the current phase.
end_of_gc_immix ==
  /\ gcState.phase = "swept"
  /\ immix' = [immix EXCEPT !.in_defrag = FALSE]
  /\ blockTable' = [b \in ImmixBlock |-> [blockTable[b] EXCEPT !.used = "before"]]
  /\ gcState' = [gcState EXCEPT !.phase = "mutator"]
  /\ UNCHANGED <<objects, bump>>

LinesNext ==
  \/ Request \/ DropObject
  \/ \E a \in Allocators : \/ alloc_fast(a) \/ overflow_alloc(a)
                           \/ acquire_recyclable_lines(a)
                           \/ acquire_recyclable_block(a) \/ acquire_clean_block(a)
  \/ prepare_immix \/ Trace \/ post_scan_object \/ release_immix \/ end_of_gc_immix

-------------------------------------------------------------------------------
\* No two reachable objects share a granule, and no window an allocator may
\* still bump through covers a reachable object: a hole is never handed out
\* over an object whose line is not marked yet (get_next_available_lines,
\* immixspace.rs), whatever the order of marking, copying and scanning.
HolesHoldNoObject ==
  /\ \A m, n \in DOMAIN objects :
       m # n /\ objects[m].block = objects[n].block
         => Granules(objects[m]) \cap Granules(objects[n]) = {}
  /\ \A a \in Allocators, n \in DOMAIN objects : \A w \in {bump[a].small, bump[a].large} :
       w.block = objects[n].block => Granules(objects[n]) \cap w.cursor..(w.limit - 1) = {}

\* After a sweep a block is free exactly when it holds no reachable object,
\* and otherwise its state and defrag byte count the lines and the holes those
\* objects leave: no mark of an earlier round of mark states is taken for a
\* current one (Block::sweep, block.rs).
SweepIsExact ==
  gcState.phase = "swept" =>
    \A b \in ImmixBlock :
      LET held == UNION {LinesOf(objects[n]) : n \in {n \in DOMAIN objects : objects[n].block = b}}
      IN  IF held = {} THEN blockTable[b].state = Unallocated
          ELSE /\ blockTable[b].state =
                    IF Cardinality(held) = LINES THEN Unmarked ELSE Cardinality(held)
               /\ blockTable[b].byte = Cardinality(HoleStarts(held))

\* A mutator falls back to a clean block only when no block is marked
\* reusable: small objects are bump-allocated into holes first
\* (acquire_recyclable_lines, immix_allocator.rs).
HolesAreReused ==
  bump["mutator"].want.stage = "clean" /\ bump["mutator"].want.size <= GRANULES
    /\ gcState.phase = "mutator"
  => \A b \in ImmixBlock : blockTable[b].state \notin Reusable
===============================================================================

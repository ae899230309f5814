---------------------------- MODULE MarkCompact ----------------------------
(***************************************************************************)
(* The MarkCompact plan: policy/markcompactspace.rs, plan/markcompact and  *)
(* the bump allocation that fills the space.  Memory is an array of words; *)
(* the collector finds objects by their valid-object (VO) bits, marks,     *)
(* computes a forwarding pointer for every marked object in the word       *)
(* before it, traces a second time to update the references, and slides    *)
(* the objects down in place.  On a 64-bit target the space is one         *)
(* contiguous range, handed out by a contiguous MonotonePageResource.      *)
(*                                                                         *)
(* An object has one reference field, in its first word.  One immortal     *)
(* object with a field stands for the common spaces, which both traces     *)
(* cross.                                                                  *)
(***************************************************************************)
EXTENDS Integers, FiniteSets, FiniteSetsExt

CONSTANTS McMutators,      \* mutator threads, each with a bump pointer
          McRoots,         \* root slots
          McShapes,        \* [size, align] in words for each object name 1..n
          MAX_ALIGNMENT,   \* in words
          BYTES_IN_PAGE,   \* in words
          BLOCK_PAGES,     \* pages in a thread-local buffer (BLOCK_SIZE)
          PAGES_IN_CHUNK,
          McChunkCount,    \* chunks in the space's range
          MarkInHeader,    \* LOCAL_MARK_BIT_SPEC is in the header
          StressModes,     \* whether precise_stress may be on: a subset of BOOLEAN
          EmptyHeaps,      \* a collection may find no live object in the space
          MaxCompactions   \* bound

VARIABLES words,           \* memory
          voBits,          \* addresses whose VO bit is set
          markBits,        \* addresses whose mark bit is set
          mcRoots,         \* the root slots
          immortal,        \* the immortal object's field and mark, and MarkState
          bumps,           \* the bump pointer of each mutator
          mono,            \* the page resource: cursor, current_chunk, mapped chunks
          gcwork,          \* the collection: stage, queued slots, scan cursors
          view             \* ghost: the graph as the mutators built it

mcVars == <<words, voBits, markBits, mcRoots, immortal, bumps, mono, gcwork, view>>

Shapes == DOMAIN McShapes
ChunkWords == BYTES_IN_PAGE * PAGES_IN_CHUNK
SpaceStart == ChunkWords
SpaceEnd == SpaceStart + (McChunkCount * ChunkWords)
Zeroed == <<"zero">>
NoObject == 0

align_up(a, n) == ((a + n - 1) \div n) * n
align_down(a, n) == (a \div n) * n
chunk_align_down(a) == align_down(a, ChunkWords)

\* GC_EXTRA_HEADER_BYTES is one word.
HEADER_RESERVED_IN_BYTES == IF MAX_ALIGNMENT > 1 THEN MAX_ALIGNMENT ELSE 1

MarkCompactInit ==
    /\ words = [a \in SpaceStart..(SpaceEnd - 1) |-> Zeroed]
    /\ voBits = {} /\ markBits = {}
    /\ mcRoots = [r \in McRoots |-> NoObject]
    /\ immortal = [field |-> NoObject, mark |-> 0, state |-> 1]
    /\ bumps = [m \in McMutators |-> [cursor |-> 0, limit |-> 0]]
    /\ mono \in [cursor : {SpaceStart}, current_chunk : {0}, mapped : {{}}, stress : StressModes]
    /\ gcwork = [stage |-> "mutators", queue |-> {}, from |-> 0, to |-> 0, done |-> 0]
    /\ view = [fields |-> [n \in Shapes |-> NoObject], roots |-> [r \in McRoots |-> NoObject],
               permanent |-> NoObject]

-----------------------------------------------------------------------------
(* Objects in memory: the first word holds the VM's header (name, hence    *)
(* shape) and the field, the others payload.                               *)

FirstWord(n, ref) == <<"head", n, ref>>
NameAt(a) == words[a][2]
FieldAt(a) == words[a][3]
SizeAt(a) == McShapes[NameAt(a)].size
AlignAt(a) == McShapes[NameAt(a)].align

\* The value of word k of an object called n.
Word(n, ref, k) == IF k = 0 THEN FirstWord(n, ref) ELSE <<"rest", n, k>>

header_forwarding_pointer_address(a) == a - 1

get_header_forwarding_pointer(a) ==
    LET w == words[header_forwarding_pointer_address(a)]
    IN  IF w = Zeroed THEN NoObject ELSE w[2]

store_header_forwarding_pointer(a, new) ==
    [words EXCEPT ![header_forwarding_pointer_address(a)] = <<"forward", new>>]

is_marked(a) == a \in markBits

\* ObjectIterator::next, from the cursor to the end of the range.
NextObject(from, end) ==
    LET found == {a \in voBits : from <= a /\ a < end}
    IN  IF found = {} THEN NoObject ELSE Min(found)

\* iterate_allocated_regions: a contiguous space yields one range, up to the chunk of the cursor.
AllocatedEnd == align_up(mono.cursor, ChunkWords)

-----------------------------------------------------------------------------
(* Allocation.                                                             *)

align_allocation_no_fill(region, alignment) ==
    IF alignment <= 1 \/ MAX_ALIGNMENT <= 1 THEN region
    ELSE region + ((-region) % alignment)

\* MonotonePageResource::alloc_pages on a contiguous range, and the zeroing of
\* the new pages in Space::acquire.
NewCurrentChunk(cursor) ==
    IF chunk_align_down(cursor) = cursor THEN cursor - ChunkWords ELSE chunk_align_down(cursor)

GrowedChunks(old, new) ==
    IF old = 0 THEN 1 + ((new - SpaceStart) \div ChunkWords) ELSE (new - old) \div ChunkWords

alloc_pages_contiguous(start, pages) ==
    LET cursor == start + (pages * BYTES_IN_PAGE)
        new == NewCurrentChunk(cursor)
        first == align_up(start, ChunkWords)
        new_chunks == {first + (i * ChunkWords) : i \in 0..(GrowedChunks(mono.current_chunk, new) - 1)}
    IN  IF new # mono.current_chunk
        THEN [mono EXCEPT !.cursor = cursor, !.current_chunk = new, !.mapped = @ \cup new_chunks]
        ELSE [mono EXCEPT !.cursor = cursor]

BlockBytes(size) == align_up(size, BLOCK_PAGES * BYTES_IN_PAGE)

\* The bump pointer after an allocation that ends at new_cursor.  Under precise
\* stress the limit is the number of words left, so that the fast path fails.
alloc_slow_once_precise_stress(bump, new_cursor) ==
    [cursor |-> new_cursor, limit |-> bump.limit - (new_cursor - bump.cursor)]

Bumped(bump, new_cursor) ==
    IF mono.stress THEN alloc_slow_once_precise_stress(bump, new_cursor)
    ELSE [bump EXCEPT !.cursor = new_cursor]

\* What a bump pointer may still hand out ends here.
BumpEnd(bump) == IF mono.stress THEN bump.cursor + bump.limit ELSE bump.limit

\* BumpAllocator::acquire_block: a new buffer, and the allocation at its start.
acquire_block(m, size) ==
    LET start == mono.cursor
        bytes == BlockBytes(size)
        fresh == [cursor |-> start, limit |-> IF mono.stress THEN bytes ELSE start + bytes]
    IN  /\ start + bytes <= SpaceEnd
        /\ mono' = alloc_pages_contiguous(start, bytes \div BYTES_IN_PAGE)
        /\ bumps' = [bumps EXCEPT ![m] = Bumped(fresh, start + size)]

initialize_object_metadata(cell) == voBits' = voBits \cup {cell}

\* The VM writes the object, whose memory Space::acquire may just have zeroed.
Initialise(start, n, r, zeroed) ==
    LET cell == start + HEADER_RESERVED_IN_BYTES
        size == McShapes[n].size
    IN  /\ words' = [a \in DOMAIN words |->
                        IF a \in cell..(cell + size - 1) THEN Word(n, NoObject, a - cell)
                        ELSE IF a \in zeroed THEN Zeroed ELSE words[a]]
        /\ initialize_object_metadata(cell)
        /\ mcRoots' = [mcRoots EXCEPT ![r] = cell]
        /\ view' = [view EXCEPT !.roots[r] = n, !.fields[n] = NoObject]

\* BumpAllocator::alloc.
BumpAlloc(m, n, r, size, result) ==
    IF result + size > BumpEnd(bumps[m])
    THEN /\ acquire_block(m, size)
         /\ Initialise(mono.cursor, n, r, mono.cursor..(mono.cursor + BlockBytes(size) - 1))
    ELSE /\ bumps' = [bumps EXCEPT ![m] = Bumped(@, result + size)]
         /\ Initialise(result, n, r, {})
         /\ UNCHANGED mono

\* MarkCompactAllocator::alloc: room for the header before the cell.
AllocMarkCompact(m, n, r) ==
    /\ gcwork.stage = "mutators"
    /\ \A a \in voBits : NameAt(a) # n
    /\ BumpAlloc(m, n, r, McShapes[n].size + HEADER_RESERVED_IN_BYTES,
                 align_allocation_no_fill(bumps[m].cursor, McShapes[n].align))
    /\ UNCHANGED <<markBits, immortal, gcwork>>

-----------------------------------------------------------------------------
(* The other operations of the mutators: the plan has no barrier.          *)

SetRoot(r, a, n) ==
    /\ mcRoots' = [mcRoots EXCEPT ![r] = a]
    /\ view' = [view EXCEPT !.roots[r] = n]
    /\ UNCHANGED <<words, immortal>>

MutateGraph ==
    /\ gcwork.stage = "mutators"
    /\ \/ \E r \in McRoots : mcRoots[r] # NoObject /\ SetRoot(r, NoObject, NoObject)
       \/ \E r, s \in McRoots :
            /\ mcRoots[s] # NoObject
            /\ SetRoot(r, FieldAt(mcRoots[s]), view.fields[view.roots[s]])
       \/ \E r, s \in McRoots :
            /\ mcRoots[r] # NoObject
            /\ words' = [words EXCEPT ![mcRoots[r]] = FirstWord(NameAt(mcRoots[r]), mcRoots[s])]
            /\ view' = [view EXCEPT !.fields[view.roots[r]] = view.roots[s]]
            /\ UNCHANGED <<mcRoots, immortal>>
       \/ \E r \in McRoots :
            /\ immortal' = [immortal EXCEPT !.field = mcRoots[r]]
            /\ view' = [view EXCEPT !.permanent = view.roots[r]]
            /\ UNCHANGED <<mcRoots, words>>
    /\ UNCHANGED <<voBits, markBits, bumps, mono, gcwork>>

-----------------------------------------------------------------------------
(* The collection, stage by stage.  A slot is a root, the field of an      *)
(* object, or one of the immortal object's two slots.                      *)

RootSlots == {<<"root", r>> : r \in McRoots} \cup {<<"permanent">>}

SlotValue(slot) == CASE slot[1] = "root" -> mcRoots[slot[2]]
                [] slot[1] = "field" -> FieldAt(slot[2])
                [] slot[1] = "immortal" -> immortal.field
                [] slot[1] = "permanent" -> NoObject

StoreSlot(slot, a) ==
    /\ mcRoots' = IF slot[1] = "root" THEN [mcRoots EXCEPT ![slot[2]] = a] ELSE mcRoots
    /\ words' = IF slot[1] = "field" THEN [words EXCEPT ![slot[2]] = FirstWord(NameAt(slot[2]), a)] ELSE words
    /\ immortal' = IF slot[1] = "immortal" THEN [immortal EXCEPT !.field = a] ELSE immortal

\* ImmortalSpace::prepare clears side mark bits, release flips the header state.
PrepareCommon(i) == IF MarkInHeader THEN i ELSE [i EXCEPT !.mark = 0]
ReleaseCommon(i) == IF MarkInHeader THEN [i EXCEPT !.state = 1 - @] ELSE i

\* StopMutators and Prepare.
StopForCompaction ==
    /\ gcwork.stage = "mutators" /\ gcwork.done < MaxCompactions
    /\ EmptyHeaps \/ (\E r \in McRoots : mcRoots[r] # NoObject)
    /\ gcwork' = [gcwork EXCEPT !.stage = "marking", !.queue = RootSlots]
    /\ immortal' = PrepareCommon(immortal)
    /\ UNCHANGED <<words, voBits, markBits, mcRoots, bumps, mono, view>>

\* ImmortalSpace::trace_object, in either trace.
TraceImmortal ==
    /\ IF immortal.mark # immortal.state
       THEN /\ immortal' = [immortal EXCEPT !.mark = immortal.state]
            /\ gcwork' = [gcwork EXCEPT !.queue = (@ \ {<<"permanent">>}) \cup {<<"immortal">>}]
       ELSE /\ gcwork' = [gcwork EXCEPT !.queue = @ \ {<<"permanent">>}]
            /\ UNCHANGED immortal
    /\ UNCHANGED <<words, markBits, mcRoots>>

Processed(slot, a, enqueue) ==
    gcwork' = [gcwork EXCEPT !.queue = (@ \ {slot}) \cup (IF enqueue THEN {<<"field", a>>} ELSE {})]

\* The exchange of the mark bit: one worker finds it clear, and sets it.
test_and_mark_compact(a, won) == won = ~is_marked(a) /\ markBits' = markBits \cup {a}

test_and_clear_mark(a, won) == won = is_marked(a) /\ markBits' = markBits \ {a}

trace_mark_object(slot, a) ==
    /\ \E won \in BOOLEAN : test_and_mark_compact(a, won) /\ Processed(slot, a, won)
    /\ UNCHANGED <<words, mcRoots, immortal>>

\* Mistake: references found in unmarked objects keep their old address.
trace_forward_objectMarkedOnly(slot, a) ==
    /\ \E won \in BOOLEAN : test_and_clear_mark(a, won) /\ Processed(slot, a, won)
    /\ IF is_marked(a) THEN StoreSlot(slot, get_header_forwarding_pointer(a))
       ELSE UNCHANGED <<words, mcRoots, immortal>>

\* The slot gets the forwarding pointer.
trace_forward_object(slot, a) ==
    /\ \E won \in BOOLEAN : test_and_clear_mark(a, won) /\ Processed(slot, a, won)
    /\ StoreSlot(slot, get_header_forwarding_pointer(a))

\* The workers take the queued slots in some order; what two of them do to one
\* object at a time is the subject of module Tracing.
TraceSlot ==
    /\ gcwork.stage \in {"marking", "forwarding"} /\ gcwork.queue # {}
    /\ LET slot == CHOOSE s \in gcwork.queue : TRUE IN
         IF slot = <<"permanent">> THEN TraceImmortal
         ELSE IF SlotValue(slot) = NoObject
         THEN Processed(slot, NoObject, FALSE) /\ UNCHANGED <<words, markBits, mcRoots, immortal>>
         ELSE IF gcwork.stage = "marking" THEN trace_mark_object(slot, SlotValue(slot))
         ELSE trace_forward_object(slot, SlotValue(slot))
    /\ UNCHANGED <<voBits, bumps, mono, view>>

\* CalculateForwardingAddress opens once the marking closure is drained.
StartCalculating ==
    /\ gcwork.stage = "marking" /\ gcwork.queue = {}
    /\ gcwork' = [gcwork EXCEPT !.stage = "calculating", !.from = SpaceStart, !.to = SpaceStart]
    /\ UNCHANGED <<words, voBits, markBits, mcRoots, immortal, bumps, mono, view>>

\* One turn of the loop of calculate_forwarding_pointer, dead objects skipped.
calculate_forwarding_pointer ==
    LET a == NextObject(gcwork.from, AllocatedEnd)
        to == align_allocation_no_fill(gcwork.to, AlignAt(a))
    IN  /\ gcwork.stage = "calculating" /\ a # NoObject
        /\ IF is_marked(a)
           THEN /\ words' = store_header_forwarding_pointer(a, to + HEADER_RESERVED_IN_BYTES)
                /\ gcwork' = [gcwork EXCEPT !.from = a + SizeAt(a),
                                            !.to = to + SizeAt(a) + HEADER_RESERVED_IN_BYTES]
           ELSE /\ gcwork' = [gcwork EXCEPT !.from = a + SizeAt(a)]
                /\ UNCHANGED words
        /\ UNCHANGED <<voBits, markBits, mcRoots, immortal, bumps, mono, view>>

\* Mistake: the common spaces are not released between the traces.
UpdateReferencesNoRelease ==
    /\ gcwork.stage = "calculating" /\ NextObject(gcwork.from, AllocatedEnd) = NoObject
    /\ gcwork' = [gcwork EXCEPT !.stage = "forwarding", !.queue = RootSlots]
    /\ UNCHANGED <<words, voBits, markBits, mcRoots, immortal, bumps, mono, view>>

\* UpdateReferences::do_work: the common spaces are readied for the second
\* trace and the roots are scanned again.
UpdateReferences ==
    /\ gcwork.stage = "calculating" /\ NextObject(gcwork.from, AllocatedEnd) = NoObject
    /\ gcwork' = [gcwork EXCEPT !.stage = "forwarding", !.queue = RootSlots]
    /\ immortal' = PrepareCommon(ReleaseCommon(immortal))
    /\ UNCHANGED <<words, voBits, markBits, mcRoots, bumps, mono, view>>

StartCompacting ==
    /\ gcwork.stage = "forwarding" /\ gcwork.queue = {}
    /\ gcwork' = [gcwork EXCEPT !.stage = "compacting", !.from = SpaceStart, !.to = 0]
    /\ UNCHANGED <<words, voBits, markBits, mcRoots, immortal, bumps, mono, view>>

clear_header_forwarding_pointer(a) == [words EXCEPT ![header_forwarding_pointer_address(a)] = Zeroed]

\* Copying word by word upwards, after the header of the new place is cleared.
MoveObject(a, new) ==
    LET cleared == clear_header_forwarding_pointer(new)
    IN  [w \in DOMAIN words |-> IF w \in new..(new + SizeAt(a) - 1) THEN cleared[a + (w - new)] ELSE cleared[w]]

\* One turn of the loop of compact.
compact_object ==
    LET a == NextObject(gcwork.from, AllocatedEnd)
        new == get_header_forwarding_pointer(a)
    IN  /\ gcwork.stage = "compacting" /\ a # NoObject
        /\ IF new # NoObject
           THEN /\ words' = MoveObject(a, new)
                /\ voBits' = (voBits \ {a}) \cup {new}
                /\ gcwork' = [gcwork EXCEPT !.from = a + SizeAt(a), !.to = new + SizeAt(a)]
           ELSE /\ voBits' = voBits \ {a}
                /\ gcwork' = [gcwork EXCEPT !.from = a + SizeAt(a)]
                /\ UNCHANGED words
        /\ UNCHANGED <<markBits, mcRoots, immortal, bumps, mono, view>>

\* MonotonePageResource::reset_cursor on a contiguous space.
reset_cursor(top) == [mono EXCEPT !.cursor = align_up(top, BYTES_IN_PAGE),
                                  !.current_chunk = chunk_align_down(top)]

markcompact_mutator_release == bumps' = [m \in McMutators |-> [cursor |-> 0, limit |-> 0]]

\* The end of compact; Release resets the common spaces and the bump pointers.
FinishCompaction ==
    /\ gcwork.stage = "compacting" /\ NextObject(gcwork.from, AllocatedEnd) = NoObject
    /\ mono' = reset_cursor(gcwork.to)
    /\ immortal' = ReleaseCommon(immortal)
    /\ markcompact_mutator_release
    /\ gcwork' = [gcwork EXCEPT !.stage = "mutators", !.from = 0, !.to = 0, !.done = @ + 1]
    /\ UNCHANGED <<words, voBits, markBits, mcRoots, view>>

MarkCompactNext ==
    \/ \E m \in McMutators, n \in Shapes, r \in McRoots : AllocMarkCompact(m, n, r)
    \/ MutateGraph
    \/ StopForCompaction
    \/ TraceSlot
    \/ StartCalculating
    \/ calculate_forwarding_pointer
    \/ UpdateReferences
    \/ StartCompacting
    \/ compact_object
    \/ FinishCompaction

MarkCompactSpec == MarkCompactInit /\ [][MarkCompactNext]_mcVars

-----------------------------------------------------------------------------

\* The names that the mutators can still reach.
ReachableNames ==
    LET roots == ({view.roots[r] : r \in McRoots} \cup {view.permanent}) \ {NoObject}
        step(S) == S \cup ({view.fields[n] : n \in S} \ {NoObject})
        iterate[i \in 0..Cardinality(Shapes)] == IF i = 0 THEN roots ELSE step(iterate[i - 1])
    IN  iterate[Cardinality(Shapes)]

\* The address where an object is found, or NoObject.
PlaceOf(n) ==
    LET at == {a \in voBits : words[a] \in {FirstWord(n, ref) : ref \in voBits \cup {NoObject}}}
    IN  IF Cardinality(at) = 1 THEN Max(at) ELSE NoObject

Refers(a, n) == IF n = NoObject THEN a = NoObject ELSE a # NoObject /\ a = PlaceOf(n)

\* Sliding the objects down in place and updating every reference keeps the
\* graph that the mutators built: whenever they run, every object they can
\* reach is found at one address, whole, with an empty header word and no mark
\* bit, every reference to it has been updated, and the memory that the page
\* resource and the bump pointers may still hand out does not touch it.
CompactionKeepsTheGraph ==
    gcwork.stage = "mutators" =>
        /\ \A r \in McRoots : Refers(mcRoots[r], view.roots[r])
        /\ Refers(immortal.field, view.permanent)
        /\ \A n \in ReachableNames :
             LET a == PlaceOf(n)
                 size == McShapes[n].size
             IN  /\ a # NoObject /\ Refers(FieldAt(a), view.fields[n])
                 /\ \A k \in 1..(size - 1) : words[a + k] = Word(n, NoObject, k)
                 /\ words[header_forwarding_pointer_address(a)] = Zeroed
                 /\ a \notin markBits
                 /\ a + size <= mono.cursor
                 /\ \A m \in McMutators : a + size <= bumps[m].cursor \/ a > BumpEnd(bumps[m])

\* The pages below the cursor lie in chunks that alloc_pages has mapped, which
\* is what its callers rely on when they write to the pages.
AllocatedPagesAreMapped ==
    \A a \in SpaceStart..(mono.cursor - 1) : chunk_align_down(a) \in mono.mapped
=============================================================================

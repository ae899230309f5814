---------------------------- MODULE MallocSpace ----------------------------
(***************************************************************************)
(* The malloc mark-sweep space (feature malloc_mark_sweep):                *)
(* policy/marksweepspace/malloc_ms and util/malloc/malloc_ms_util.rs.      *)
(* Memory comes from the C library one block at a time, so the space keeps *)
(* its own record of it in side metadata: a mark per chunk and per page,   *)
(* a VO bit per object and a bit for the objects whose address was shifted *)
(* to meet an alignment offset.  Mutators allocate concurrently; the sweep *)
(* runs as one work packet per chunk.                                      *)
(*                                                                         *)
(* Addresses count words.  Objects have no fields: the mutators' roots are *)
(* the reachable objects.                                                  *)
(***************************************************************************)
EXTENDS Integers, Sequences, FiniteSets, FiniteSetsExt, SequencesExt

CONSTANTS MallocMutators, SweepWorkers,
          PageWords,       \* BYTES_IN_MALLOC_PAGE
          PagesPerChunk,
          MallocChunks,    \* chunks in the address range that malloc uses
          MallocSizes,     \* requested sizes
          MallocOverhead,  \* words that the library keeps between two blocks
          MaxObjects,      \* bound: blocks allocated at a time
          MaxSweeps        \* bound: collections

VARIABLES blocks,          \* the library's allocated blocks
          roots,           \* the addresses that mutators hold
          bits,            \* side metadata: vo, mark, offset, page and chunk marks
          bounds,          \* chunk_addr_min and chunk_addr_max
          sftChunks,       \* chunks whose SFT entry is this space
          active,          \* active_bytes and active_pages
          requests,        \* where each mutator is in alloc
          sweeper,         \* the collection: stage, packets, debug counters
          workers          \* where each worker is in its packet

mallocVars == <<blocks, roots, bits, bounds, sftChunks, active, requests, sweeper, workers>>

ChunkSize == PageWords * PagesPerChunk
FirstMallocWord == ChunkSize
EndOfMemory == FirstMallocWord + (MallocChunks * ChunkSize)
NoRequest == [at |-> "safepoint", start |-> 0, size |-> 0, offset |-> FALSE, pages |-> 0]
NoPacket == [at |-> "idle", live |-> 0, completed |-> 0]

AlignDown(a, n) == (a \div n) * n
AlignUp(a, n) == AlignDown(a + n - 1, n)

\* The chunks, or pages, that the words from start on touch.
ChunksOf(start, size) == {AlignDown(a, ChunkSize) : a \in start..(start + size - 1)}
PagesOfRange(start, size) == {AlignDown(a, PageWords) : a \in start..(start + size - 1)}

MallocInit ==
    /\ blocks = {} /\ roots = {}
    /\ bits = [vo |-> {}, mark |-> {}, offset |-> {}, page |-> {}, chunk |-> {}]
    /\ bounds = [min |-> EndOfMemory, max |-> 0]
    /\ sftChunks = {}
    /\ active = [bytes |-> 0, pages |-> 0]
    /\ requests = [m \in MallocMutators |-> NoRequest]
    /\ sweeper = [stage |-> "mutators", packets |-> {}, total |-> 0, completed |-> 0, live |-> 0, sweeps |-> 0]
    /\ workers = [w \in SweepWorkers |-> NoPacket]

-----------------------------------------------------------------------------
(* The library: a block is a free run of words, with the library's own     *)
(* words between two blocks.                                               *)

Apart(raw, size, b) ==
    \/ raw + size + MallocOverhead <= b.raw
    \/ b.raw + b.usable + MallocOverhead <= raw

calloc(size) == {raw \in FirstMallocWord..(EndOfMemory - size) : \A b \in blocks : Apart(raw, size, b)}

BlockAt(start) == CHOOSE b \in blocks : b.start = start

\* The size of the library's block, however the object's address was shifted.
get_malloc_usable_size(start) == BlockAt(start).usable

\* align_offset_alloc asks for room for the shift and for the word before the
\* object that keeps the library's address; this is the case of a shift by one.
align_offset_alloc(raw, size) ==
    [raw |-> raw, usable |-> size + 1, start |-> raw + 1, offset |-> TRUE]

PlainAlloc(raw, size) == [raw |-> raw, usable |-> size, start |-> raw, offset |-> FALSE]

malloc_alloc(size, offset) ==
    IF offset THEN {align_offset_alloc(raw, size) : raw \in calloc(size + 1)}
    ELSE {PlainAlloc(raw, size) : raw \in calloc(size)}

-----------------------------------------------------------------------------
(* MallocSpace::alloc, one atomic access of shared state at a time.        *)

Step(m, at) == requests' = [requests EXCEPT ![m].at = at]

is_meta_space_mapped(start, size) == ChunksOf(start, size) \subseteq bits.chunk

\* The mutator asks the library for memory.
StartAlloc(m) ==
    /\ sweeper.stage = "mutators" /\ requests[m].at = "safepoint"
    /\ Cardinality(blocks) < MaxObjects
    /\ \E size \in MallocSizes, offset \in BOOLEAN : \E b \in malloc_alloc(size, offset) :
         /\ b.start + b.usable <= EndOfMemory
         /\ blocks' = blocks \cup {b}
         /\ requests' = [requests EXCEPT ![m] = [at |-> "check", start |-> b.start, size |-> b.usable,
                                                 offset |-> offset, pages |-> 0]]
    /\ UNCHANGED <<roots, bits, bounds, sftChunks, active, sweeper, workers>>

CheckMapped(m) ==
    /\ requests[m].at = "check"
    /\ Step(m, IF is_meta_space_mapped(requests[m].start, requests[m].size) THEN "page" ELSE "map")
    /\ UNCHANGED <<blocks, roots, bits, bounds, sftChunks, active, sweeper, workers>>

\* Under CHUNK_MAP_LOCK; a chunk that another thread has marked is skipped.
map_meta_space(m) ==
    /\ requests[m].at = "map"
    /\ bits' = [bits EXCEPT !.chunk = @ \cup ChunksOf(requests[m].start, requests[m].size)]
    /\ Step(m, "bound")
    /\ UNCHANGED <<blocks, roots, bounds, sftChunks, active, sweeper, workers>>

\* The two compare-exchange loops, each an atomic minimum or maximum.
update_bound(m) ==
    LET r == requests[m]
    IN  /\ r.at \in {"bound", "bound max"}
        /\ IF r.at = "bound"
           THEN bounds' = [bounds EXCEPT !.min = Min({@, AlignDown(r.start, ChunkSize)})]
           ELSE bounds' = [bounds EXCEPT !.max = Max({@, AlignDown(r.start + r.size, ChunkSize)})]
        /\ Step(m, IF r.at = "bound" THEN "bound max" ELSE "sft")
        /\ UNCHANGED <<blocks, roots, bits, sftChunks, active, sweeper, workers>>

UpdateSFT(m) ==
    /\ requests[m].at = "sft"
    /\ sftChunks' = sftChunks \cup ChunksOf(requests[m].start, requests[m].size)
    /\ Step(m, "page")
    /\ UNCHANGED <<blocks, roots, bits, bounds, active, sweeper, workers>>

\* Mistake: every page of the object is counted, marked before or not.
set_page_markCountsAll(m) ==
    LET r == requests[m]
        pages == PagesOfRange(r.start, r.size)
    IN  /\ r.at = "page"
        /\ bits' = [bits EXCEPT !.page = @ \cup pages]
        /\ requests' = [requests EXCEPT ![m] = [@ EXCEPT !.at = "count", !.pages = Cardinality(pages)]]
        /\ UNCHANGED <<blocks, roots, bounds, sftChunks, active, sweeper, workers>>

\* The pages whose mark this thread's compare-exchange set.
set_page_mark(m) ==
    LET r == requests[m]
        pages == PagesOfRange(r.start, r.size)
    IN  /\ r.at = "page"
        /\ bits' = [bits EXCEPT !.page = @ \cup pages]
        /\ requests' = [requests EXCEPT ![m] = [@ EXCEPT !.at = "count", !.pages = Cardinality(pages \ bits.page)]]
        /\ UNCHANGED <<blocks, roots, bounds, sftChunks, active, sweeper, workers>>

\* The counters, the offset bit, and the VO bit that post_alloc sets.
FinishAlloc(m) ==
    LET r == requests[m]
    IN  /\ r.at = "count"
        /\ active' = [bytes |-> active.bytes + r.size, pages |-> active.pages + r.pages]
        /\ bits' = [bits EXCEPT !.offset = IF r.offset THEN @ \cup {r.start} ELSE @, !.vo = @ \cup {r.start}]
        /\ roots' = roots \cup {r.start}
        /\ requests' = [requests EXCEPT ![m] = NoRequest]
        /\ UNCHANGED <<blocks, bounds, sftChunks, sweeper, workers>>

ForgetObject ==
    /\ sweeper.stage = "mutators"
    /\ \E o \in roots : roots' = roots \ {o}
    /\ UNCHANGED <<blocks, bits, bounds, sftChunks, active, requests, sweeper, workers>>

-----------------------------------------------------------------------------
(* The collection.                                                         *)

StopForSweep ==
    /\ sweeper.stage = "mutators" /\ sweeper.sweeps < MaxSweeps
    /\ \A m \in MallocMutators : requests[m].at = "safepoint"
    /\ sweeper' = [sweeper EXCEPT !.stage = "tracing", !.packets = roots]
    /\ UNCHANGED <<blocks, roots, bits, bounds, sftChunks, active, requests, workers>>

trace_malloc_object ==
    /\ sweeper.stage = "tracing" /\ sweeper.packets # {}
    /\ LET o == Min(sweeper.packets)
       IN  /\ bits' = IF o \in bits.mark THEN bits
                      ELSE [bits EXCEPT !.mark = @ \cup {o}, !.chunk = @ \cup {AlignDown(o, ChunkSize)}]
           /\ sweeper' = [sweeper EXCEPT !.packets = @ \ {o}]
    /\ UNCHANGED <<blocks, roots, bounds, sftChunks, active, requests, workers>>

\* MallocSpace::release: a packet for every marked chunk within the bounds.
release_malloc ==
    LET chunks == {c \in bits.chunk : bounds.min <= c /\ c <= bounds.max}
    IN  /\ sweeper.stage = "tracing" /\ sweeper.packets = {}
        /\ sweeper' = [sweeper EXCEPT !.stage = "sweeping", !.packets = chunks, !.total = Cardinality(chunks),
                                      !.completed = 0, !.live = 0]
        /\ UNCHANGED <<blocks, roots, bits, bounds, sftChunks, active, requests, workers>>

\* A packet at work: the metadata it has rewritten, the counters it has moved,
\* the iterator's cursor, and the start of a possibly empty run of pages.
Sweep0 == [vo |-> bits.vo, mark |-> bits.mark, offset |-> bits.offset, page |-> bits.page,
           freed |-> {}, cursor |-> 0, empty |-> 0, live |-> 0]

unset_page_mark(s, from, to) == [s EXCEPT !.page = {p \in @ : p < from \/ p >= to}]

free_internal(s, o) == [s EXCEPT !.freed = @ \cup {o}, !.offset = @ \ {o}]

\* Mistake: an object that dies keeps its VO bit.
sweep_deadKeepsVO(s, o) == free_internal(s, o)

sweep_dead(s, o) == LET t == free_internal(s, o) IN [t EXCEPT !.vo = @ \ {o}]

\* Pages between the last live object and this one are unset; none are before
\* the first live object of the chunk.
sweep_live(s, o) ==
    LET page == AlignDown(o, PageWords)
        t == IF s.empty # 0 /\ page > s.empty THEN unset_page_mark(s, s.empty, page) ELSE s
    IN  [t EXCEPT !.empty = AlignUp(o + get_malloc_usable_size(o), PageWords)]

sweep_object(s, o) == IF o \notin s.mark THEN sweep_dead(s, o) ELSE sweep_live(s, o)

\* One turn of the loop of sweep_each_object_in_chunk: a word the iterator
\* steps over, or an object, whose mark bit is cleared if it lives.
SweepWord(s, a) ==
    IF a < s.cursor \/ a \notin s.vo THEN s
    ELSE LET t == [sweep_object(s, a) EXCEPT !.cursor = a + get_malloc_usable_size(a)]
         IN  IF a \in s.mark
             THEN [t EXCEPT !.mark = @ \ {a}, !.live = @ + get_malloc_usable_size(a)]
             ELSE t

sweep_each_object_in_chunk(chunk) ==
    LET swept == FoldLeft(SweepWord, Sweep0, [i \in 1..ChunkSize |-> chunk + i - 1])
        end == chunk + ChunkSize
    IN  IF swept.empty = 0 THEN unset_page_mark(swept, chunk, end)
        ELSE IF swept.empty < end THEN unset_page_mark(swept, swept.empty, end)
        ELSE swept

\* clean_up_empty_chunk also drops the chunk mark and the SFT entry.
CleanedUp(chunk, swept) == IF swept.empty = 0 THEN {chunk} ELSE {}

\* Chunks are swept in parallel and touch disjoint metadata; the counters are
\* moved by atomic subtractions.
MSSweepChunk(w) ==
    /\ sweeper.stage = "sweeping" /\ workers[w].at = "idle"
    /\ \E chunk \in sweeper.packets :
         LET s == sweep_each_object_in_chunk(chunk)
             freed == {b \in blocks : b.start \in s.freed}
         IN  /\ bits' = [vo |-> s.vo, mark |-> s.mark, offset |-> s.offset, page |-> s.page,
                         chunk |-> bits.chunk \ CleanedUp(chunk, s)]
             /\ sftChunks' = sftChunks \ CleanedUp(chunk, s)
             /\ blocks' = blocks \ freed
             /\ active' = [bytes |-> active.bytes - MapThenSumSet(LAMBDA b : b.usable, freed),
                           pages |-> active.pages - Cardinality(bits.page \ s.page)]
             /\ sweeper' = [sweeper EXCEPT !.packets = @ \ {chunk}]
             /\ workers' = [workers EXCEPT ![w] = [at |-> "done", live |-> s.live, completed |-> 0]]
    /\ UNCHANGED <<roots, bounds, requests>>

\* debug_sweep_chunk_done: count the packet, add its live bytes, compare.
debug_sweep_chunk_done(w) ==
    /\ \/ /\ workers[w].at = "done"
          /\ sweeper' = [sweeper EXCEPT !.completed = @ + 1]
          /\ workers' = [workers EXCEPT ![w] = [@ EXCEPT !.at = "counted", !.completed = sweeper.completed + 1]]
       \/ /\ workers[w].at = "counted"
          /\ sweeper' = [sweeper EXCEPT !.live = @ + workers[w].live]
          /\ workers' = [workers EXCEPT ![w].at = "added"]
       \/ /\ workers[w].at = "added"
          /\ workers' = [workers EXCEPT ![w] = NoPacket]
          /\ UNCHANGED sweeper
    /\ UNCHANGED <<blocks, roots, bits, bounds, sftChunks, active, requests>>

SweepDone ==
    /\ sweeper.stage = "sweeping" /\ sweeper.packets = {}
    /\ \A w \in SweepWorkers : workers[w].at = "idle"

ResumeAfterSweep ==
    /\ SweepDone
    /\ sweeper' = [sweeper EXCEPT !.stage = "mutators", !.total = 0, !.completed = 0, !.live = 0, !.sweeps = @ + 1]
    /\ UNCHANGED <<blocks, roots, bits, bounds, sftChunks, active, requests, workers>>

MallocNext ==
    \/ \E m \in MallocMutators :
         StartAlloc(m) \/ CheckMapped(m) \/ map_meta_space(m) \/ update_bound(m)
         \/ UpdateSFT(m) \/ set_page_mark(m) \/ FinishAlloc(m)
    \/ ForgetObject \/ StopForSweep \/ trace_malloc_object \/ release_malloc
    \/ \E w \in SweepWorkers : MSSweepChunk(w) \/ debug_sweep_chunk_done(w)
    \/ ResumeAfterSweep

MallocSpec == MallocInit /\ [][MallocNext]_mallocVars

-----------------------------------------------------------------------------

\* At a safepoint the space's own records agree with the library's blocks: the
\* VO bits are exactly the allocated objects and include every one a mutator
\* holds, the chunk of each is marked, within the sweep bounds and in the SFT
\* map, the counters match the blocks and the page marks, the page where an
\* object starts is marked, and no mark bit is left behind to
\* hide an object from the next trace.  A finished sweep has freed every object
\* that no mutator held.
MallocRecordsAreExact ==
    /\ SweepDone => bits.vo = roots
    /\ (SweepDone \/ sweeper.stage = "mutators") /\ (\A m \in MallocMutators : requests[m].at = "safepoint") =>
        /\ bits.vo = {b.start : b \in blocks}
        /\ roots \subseteq bits.vo
        /\ bits.mark = {}
        /\ bits.offset = {b.start : b \in {c \in blocks : c.offset}}
        /\ active.bytes = MapThenSumSet(LAMBDA b : b.usable, blocks)
        /\ active.pages = Cardinality(bits.page)
        /\ \A o \in bits.vo :
             LET chunk == AlignDown(o, ChunkSize)
             IN  /\ chunk \in bits.chunk \cap sftChunks /\ bounds.min <= chunk /\ chunk <= bounds.max
                 /\ AlignDown(o, PageWords) \in bits.page

\* The debug assertion at the end of debug_sweep_chunk_done: the packet that
\* completes last finds the live bytes of all packets added up.
LiveBytesMatchActiveBytes ==
    \A w \in SweepWorkers :
        (workers[w].at = "added" /\ workers[w].completed = sweeper.total) => sweeper.live = active.bytes
=============================================================================

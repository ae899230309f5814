---------------------------- MODULE SpaceGrowth ----------------------------
(***************************************************************************)
(* How a space gets address range that a thread may touch.  A page         *)
(* resource that runs out of pages takes a chunk from the virtual memory   *)
(* map, has the two-level memory mapper (FragmentedMapper) map the chunk   *)
(* and the side metadata of the chunk, and enters the space in the space   *)
(* function table (SFT), all while it holds its own lock.  The spaces have *)
(* a lock each, and share the mapper, whose slab table and chunk states    *)
(* are read without its lock: two spaces that grow at the same time often  *)
(* want the same chunk of side metadata.                                   *)
(*                                                                         *)
(* Addresses are counted in mmap chunks.  A critical section of the        *)
(* mapper's lock is one step: the only readers that do not take the lock   *)
(* look at one entry.                                                      *)
(***************************************************************************)
EXTENDS Integers, FiniteSets, FiniteSetsExt, Sequences, SequencesExt, Bitwise

CONSTANTS
    GrowThreads,         \* threads that allocate
    SpaceRanges,         \* the range <<first, last>> of chunks of each space
    SFTLayouts,          \* the space function tables to try, see GrowthInit
    VMChunk,             \* the chunk of the VM's own image, outside the heap
    MetadataBases,       \* the first chunk of each side metadata; the first
                         \* one holds the dense SFT's indices
    LOG_DATA_META_RATIO, \* data chunks per metadata chunk, as a logarithm
    CHUNKS_PER_SLAB, LOG_SLAB_TABLE_SIZE, MAX_SLABS,
    PagesPerGrowth,      \* pages in a chunk
    MaxAcquires          \* bound: pages acquired in a behaviour

VARIABLES
    mm,       \* the mapper, the operating system and the SFT
    vmChunks, \* VMMap: the space that owns a chunk
    resource, \* the page resource of each space: its lock and free pages
    grower,   \* what each thread is doing
    acquired  \* the number of pages acquired so far

growthVars == <<mm, vmChunks, resource, grower, acquired>>

Spaces == DOMAIN SpaceRanges
NoSpaceYet == 0
VMSpace == Len(SpaceRanges) + 1
NoThread == "no thread"
HeapChunks == UNION {SpaceRanges[s][1] .. SpaceRanges[s][2] : s \in Spaces}

SLAB_TABLE_SIZE == 2 ^ LOG_SLAB_TABLE_SIZE
SENTINEL == -1

-----------------------------------------------------------------------------
(* The slab table: an open-addressing hash table from slabs to the states   *)
(* of their chunks.  Entries are never removed.                             *)

slab_align_down(c) == c \div CHUNKS_PER_SLAB

chunk_index(c) == c % CHUNKS_PER_SLAB

hash[slab \in Nat] ==
    IF slab = 0 THEN 0
    ELSE (slab % SLAB_TABLE_SIZE) ^^ hash[slab \div SLAB_TABLE_SIZE]

(* The index at which a search for the slab ends: its entry, or the first   *)
(* free one.                                                                *)
Probe(m, slab) ==
    LET at(k) == (hash[slab] + k) % SLAB_TABLE_SIZE
        ends == {k \in 0 .. SLAB_TABLE_SIZE - 1 :
                    m.slab_map[at(k)] \in {slab, SENTINEL}}
    IN  at(Min(ends))

get_slab_table(m, c) ==
    LET index == Probe(m, slab_align_down(c))
    IN  IF m.slab_map[index] = SENTINEL THEN <<>> ELSE m.slab_table[index]

commit_free_slab(m, c) ==
    LET index == Probe(m, slab_align_down(c))
    IN  [m EXCEPT !.slab_map[index] = slab_align_down(c),
                  !.slab_table[index] = [i \in 0 .. CHUNKS_PER_SLAB - 1 |-> "Unmapped"],
                  !.free_slab_index = @ + 1]

(* The lock is taken for one index at a time; an index found in use stays   *)
(* in use, so the search may be one step.                                   *)
get_or_allocate_slab_table(m, c) ==
    IF get_slab_table(m, c) # <<>> THEN m
    ELSE IF m.free_slab_index < MAX_SLABS THEN commit_free_slab(m, c)
    ELSE [m EXCEPT !.error = "no slab"]

LoadState(m, c) == get_slab_table(m, c)[chunk_index(c)]

StoreState(m, c, state) ==
    [m EXCEPT !.slab_table[Probe(m, slab_align_down(c))][chunk_index(c)] = state]

is_mapped_address(m, c) ==
    /\ get_slab_table(m, c) # <<>>
    /\ LoadState(m, c) = "Mapped"

-----------------------------------------------------------------------------
(* The system calls.  m.os is the protection of a chunk, m.data the chunks  *)
(* that were written since they were mapped; a refused call returns an      *)
(* error.                                                                   *)

dzmmap(m, c) == [m EXCEPT !.os[c] = "read-write", !.data = @ \ {c}]

dzmmap_noreplace(m, c) ==
    IF m.os[c] = "none" THEN dzmmap(m, c) ELSE [m EXCEPT !.error = "EEXIST"]

mmap_noreserve(m, cs) ==
    IF \A c \in cs : m.os[c] = "none"
    THEN [m EXCEPT !.os = [c \in DOMAIN m.os |-> IF c \in cs THEN "reserved" ELSE m.os[c]]]
    ELSE [m EXCEPT !.error = "EEXIST"]

munmap(m, c) == [m EXCEPT !.os[c] = "none", !.data = @ \ {c}]

transition_to_mapped(m, c) ==
    LET m1 == CASE LoadState(m, c) = "Unmapped" -> dzmmap_noreplace(m, c)
                [] LoadState(m, c) = "Quarantined" -> dzmmap(m, c)
                [] LoadState(m, c) = "Mapped" -> m
    IN  IF m1.error = "" THEN StoreState(m1, c, "Mapped") ELSE m1

transition_to_unmapped(m, c) ==
    IF LoadState(m, c) = "Mapped" THEN StoreState(munmap(m, c), c, "Unmapped")
    ELSE [m EXCEPT !.error = "unreachable"]

(* The maximal runs of equal keys, as <<first, last>> indices.              *)
revisitable_group_by(keys) ==
    LET first == {i \in DOMAIN keys : i = 1 \/ keys[i] # keys[i - 1]}
        last(i) == Min({j \in DOMAIN keys : j >= i /\ (j = Len(keys) \/ keys[j + 1] # keys[i])})
    IN  SetToSortSeq({<<i, last(i)>> : i \in first}, LAMBDA g, h : g[1] < h[1])

bulk_transition_to_quarantined(m, first, states) ==
    LET group(m1, g) ==
            LET cs == {first + i - 1 : i \in g[1] .. g[2]}
                m2 == mmap_noreserve(m1, cs)
            IN  IF states[g[1]] # "Unmapped" \/ m1.error # "" THEN m1
                ELSE FoldSet(LAMBDA c, m3 : StoreState(m3, c, "Quarantined"), m2, cs)
    IN  FoldLeft(group, m, revisitable_group_by(states))

-----------------------------------------------------------------------------
(* The calls of the mapper that run while MMTk starts, on one thread, and   *)
(* what the space function tables and the metadata do with them.            *)

Chunks(first, last) == [i \in 1 .. last - first + 1 |-> first + i - 1]

(* The chunks of side metadata b for a range of data chunks.                *)
MetadataOf(b, first, last) ==
    Chunks(b + (first \div 2 ^ LOG_DATA_META_RATIO), b + (last \div 2 ^ LOG_DATA_META_RATIO))

(* The side metadata of a chunk of the heap, in the order of the specs;     *)
(* only the dense SFT has an index of its own.                              *)
Specs(layout) == IF layout = "dense" THEN MetadataBases ELSE Tail(MetadataBases)

mark_as_mapped(m, c) == StoreState(get_or_allocate_slab_table(m, c), c, "Mapped")

quarantine_address_range(m, cs) ==
    LET m1 == FoldLeft(get_or_allocate_slab_table, m, cs)
    IN  bulk_transition_to_quarantined(m1, Head(cs), [i \in DOMAIN cs |-> LoadState(m1, cs[i])])

ensure_mapped_at_startup(m, cs) ==
    FoldLeft(LAMBDA m1, c : transition_to_mapped(get_or_allocate_slab_table(m1, c), c), m, cs)

SFTIndex(m, c) ==
    IF m.layout = "space"
    THEN CHOOSE s \in Spaces : c \in SpaceRanges[s][1] .. SpaceRanges[s][2]
    ELSE c

has_sft_entry(m, c) ==
    CASE m.layout = "space" -> c \in HeapChunks
      [] m.layout = "sparse" -> c \in HeapChunks
      [] m.layout = "dense" -> is_mapped_address(m, MetadataOf(MetadataBases[1], c, c)[1])

get_checked(m, c) == IF has_sft_entry(m, c) THEN m.sft[SFTIndex(m, c)] ELSE NoSpaceYet

(* An entry goes from empty to a space and back, and never from one space   *)
(* to another.                                                              *)
SetSFT(m, c, s) ==
    LET old == m.sft[SFTIndex(m, c)]
    IN  IF old \in {NoSpaceYet, s} \/ s = NoSpaceYet
        THEN [m EXCEPT !.sft[SFTIndex(m, c)] = s]
        ELSE [m EXCEPT !.error = "SFT overwritten"]

(* A store to the index of a chunk whose metadata is not mapped faults.     *)
update(m, s, c) ==
    IF m.layout = "dense" /\ m.os[MetadataOf(MetadataBases[1], c, c)[1]] # "read-write"
    THEN [m EXCEPT !.error = "fault"]
    ELSE SetSFT(m, c, s)

clear(m, c) == SetSFT(m, c, NoSpaceYet)

eager_initialize(m, s, first, last) ==
    LET m1 == IF m.layout = "dense"
              THEN ensure_mapped_at_startup(m, MetadataOf(MetadataBases[1], first, last))
              ELSE m
    IN  FoldLeft(LAMBDA m2, c : update(m2, s, c), m1, Chunks(first, last))

(* A contiguous space reserves the addresses of its metadata and enters     *)
(* the SFT at once; one without a range of its own does both as it grows.   *)
initialize_sft(m, s) ==
    LET first == SpaceRanges[s][1]
        last == SpaceRanges[s][2]
        quarantine(m1, b) == quarantine_address_range(m1, MetadataOf(b, first, last))
    IN  IF m.layout = "sparse" THEN m
        ELSE eager_initialize(FoldLeft(quarantine, m, Specs(m.layout)), s, first, last)

set_vm_region(m) ==
    LET meta(m1, b) == ensure_mapped_at_startup(m1, MetadataOf(b, VMChunk, VMChunk))
    IN  IF m.layout # "dense" THEN m
        ELSE update(FoldLeft(meta, mark_as_mapped(m, VMChunk), Specs(m.layout)),
                    VMSpace, VMChunk)

-----------------------------------------------------------------------------

Memory ==
    LET meta(b) == {b + (c \div 2 ^ LOG_DATA_META_RATIO) : c \in HeapChunks \cup {VMChunk}}
    IN  HeapChunks \cup {VMChunk} \cup UNION {meta(MetadataBases[i]) : i \in DOMAIN MetadataBases}

Boot(layout, unmaps) ==
    [layout |-> layout, munmap |-> unmaps,
     slab_map |-> [i \in 0 .. SLAB_TABLE_SIZE - 1 |-> SENTINEL],
     slab_table |-> [i \in 0 .. SLAB_TABLE_SIZE - 1 |-> <<>>],
     free_slab_index |-> 0,
     os |-> [c \in Memory |-> IF c = VMChunk THEN "read-write" ELSE "none"],
     data |-> {},
     sft |-> [c \in HeapChunks \cup {VMChunk} \cup Spaces |-> NoSpaceYet],
     error |-> ""]

NotGrowing == [at |-> "idle", space |-> NoSpaceYet, chunk |-> 0, todo |-> <<>>, held |-> {},
               written |-> {}, failed |-> FALSE]

(* The spaces are created one after the other.  Only discontiguous spaces   *)
(* give chunks back, and only then is there anything to unmap.              *)
GrowthInit ==
    /\ \E layout \in SFTLayouts, unmaps \in BOOLEAN :
        /\ unmaps => layout = "sparse"
        /\ mm = FoldLeft(initialize_sft, set_vm_region(Boot(layout, unmaps)),
                         [s \in DOMAIN SpaceRanges |-> s])
    /\ vmChunks = [c \in HeapChunks |-> NoSpaceYet]
    /\ resource = [s \in Spaces |-> [lock |-> NoThread, free |-> {}]]
    /\ grower = [t \in GrowThreads |-> NotGrowing]
    /\ acquired = 0

-----------------------------------------------------------------------------
PagesIn(c) == {<<c, i>> : i \in 1 .. PagesPerGrowth}

MetadataChunks(m, c) ==
    [i \in DOMAIN Specs(m.layout) |-> MetadataOf(Specs(m.layout)[i], c, c)[1]]

(* The chunks a space may take next: any free one, or the next one of its   *)
(* own range.                                                               *)
AddChunk(s) ==
    {c \in HeapChunks :
        /\ vmChunks[c] = NoSpaceYet
        /\ mm.layout = "sparse" \/ c \in SpaceRanges[s][1] .. SpaceRanges[s][2]}

(* alloc_pages with a page on the free list: nothing to map.                *)
AllocFromFreeList(t, s) ==
    /\ grower[t].at = "idle"
    /\ resource[s].lock = NoThread
    /\ resource[s].free # {}
    /\ LET page == CHOOSE p \in resource[s].free :
                        \A q \in resource[s].free : p[1] * PagesPerGrowth + p[2] <= q[1] * PagesPerGrowth + q[2]
       IN  /\ resource' = [resource EXCEPT ![s].free = @ \ {page}]
           /\ grower' = [grower EXCEPT ![t].held = @ \cup {page}]
    /\ UNCHANGED <<mm, vmChunks>>

(* alloc_pages with an empty free list: the lock is kept until the chunk is *)
(* in the SFT.                                                              *)
AllocGrows(t, s) ==
    /\ grower[t].at = "idle"
    /\ resource[s].lock = NoThread
    /\ resource[s].free = {}
    /\ AddChunk(s) # {}
    /\ LET c == Min(AddChunk(s))
       IN  /\ vmChunks' = [vmChunks EXCEPT ![c] = s]
           /\ resource' = [resource EXCEPT ![s] = [lock |-> t, free |-> PagesIn(c) \ {<<c, 1>>}]]
           /\ grower' = [grower EXCEPT ![t].at = "map", ![t].space = s, ![t].chunk = c,
                                       ![t].todo = <<c>> \o MetadataChunks(mm, c)]
    /\ UNCHANGED mm

alloc_pages(t, s) ==
    /\ acquired < MaxAcquires
    /\ acquired' = acquired + 1
    /\ AllocFromFreeList(t, s) \/ AllocGrows(t, s)

NextRange(g) == [g EXCEPT !.at = IF Len(g.todo) = 1 THEN "grow" ELSE "map", !.todo = Tail(@)]

(* The look at a chunk's state that ensure_mapped takes without the lock.   *)
ensure_mapped(t) ==
    /\ grower[t].at = "map"
    /\ LET c == Head(grower[t].todo)
           m == get_or_allocate_slab_table(mm, c)
       IN  /\ mm' = m
           /\ grower' = [grower EXCEPT ![t] =
                            IF m.error = "" /\ LoadState(m, c) = "Mapped" THEN NextRange(@)
                            ELSE [@ EXCEPT !.at = "lock"]]
    /\ UNCHANGED <<vmChunks, resource, acquired>>

(* The transition under the mapper's lock.                                  *)
MapUnderLock(t) ==
    /\ grower[t].at = "lock"
    /\ mm' = transition_to_mapped(mm, Head(grower[t].todo))
    /\ grower' = [grower EXCEPT ![t] = NextRange(@)]
    /\ UNCHANGED <<vmChunks, resource, acquired>>

\* Mistake: the result of mapping the metadata replaces that of mapping the chunk.
MmapRefusedForgotten(t) ==
    /\ grower[t].at = "lock"
    /\ LoadState(mm, Head(grower[t].todo)) # "Mapped"
    /\ grower' = [grower EXCEPT ![t] =
                    IF Head(@.todo) = @.chunk THEN NextRange(@)
                    ELSE [@ EXCEPT !.failed = TRUE, !.at = "grow", !.todo = <<>>]]
    /\ UNCHANGED <<mm, vmChunks, resource, acquired>>

(* The operating system refuses: the metadata is tried even when the chunk  *)
(* could not be mapped, and given up at the first piece that fails.         *)
MmapRefused(t) ==
    /\ grower[t].at = "lock"
    /\ LoadState(mm, Head(grower[t].todo)) # "Mapped"
    /\ grower' = [grower EXCEPT ![t] =
                    IF Head(@.todo) = @.chunk THEN [NextRange(@) EXCEPT !.failed = TRUE]
                    ELSE [@ EXCEPT !.failed = TRUE, !.at = "grow", !.todo = <<>>]]
    /\ UNCHANGED <<mm, vmChunks, resource, acquired>>

(* handle_mmap_error does not return; the VM is told of the error and ends. *)
handle_mmap_error(t) ==
    /\ grower[t].at = "grow"
    /\ grower[t].failed
    /\ mm' = [mm EXCEPT !.error = "out of memory"]
    /\ UNCHANGED <<vmChunks, resource, grower, acquired>>

grow_space(t) ==
    /\ grower[t].at = "grow"
    /\ ~grower[t].failed
    /\ LET s == grower[t].space
           c == grower[t].chunk
       IN  /\ mm' = update(mm, s, c)
           /\ resource' = [resource EXCEPT ![s].lock = NoThread]
           /\ grower' = [grower EXCEPT ![t] = [NotGrowing EXCEPT !.held = grower[t].held \cup {<<c, 1>>},
                                                          !.written = grower[t].written]]
    /\ UNCHANGED <<vmChunks, acquired>>

(* The thread puts an object in a page: data and metadata are written.      *)
WritePage(t) ==
    /\ grower[t].at = "idle"
    /\ \E p \in grower[t].held \ grower[t].written :
        /\ mm' = [mm EXCEPT !.data = @ \cup {p[1]} \cup ToSet(MetadataChunks(mm, p[1]))]
        /\ grower' = [grower EXCEPT ![t].written = @ \cup {p}]
    /\ UNCHANGED <<vmChunks, resource, acquired>>

(* The page goes back to its space; a discontiguous space returns a chunk   *)
(* without pages in use: its SFT entry is cleared and, in builds with the   *)
(* munmap feature, it is unmapped.                                          *)
free_chunk(m, c) ==
    LET m1 == clear(m, c) IN IF m.munmap THEN transition_to_unmapped(m1, c) ELSE m1

GiveBackPages(t) ==
    /\ grower[t].at = "idle"
    /\ \E p \in grower[t].held :
        LET c == p[1]
            s == vmChunks[c]
            free == resource[s].free \cup {p}
        IN  /\ resource[s].lock = NoThread
            /\ grower' = [grower EXCEPT ![t].held = @ \ {p}, ![t].written = @ \ {p}]
            /\ IF mm.layout = "sparse" /\ PagesIn(c) \subseteq free
               THEN /\ resource' = [resource EXCEPT ![s].free = free \ PagesIn(c)]
                    /\ vmChunks' = [vmChunks EXCEPT ![c] = NoSpaceYet]
                    /\ mm' = free_chunk(mm, c)
               ELSE /\ resource' = [resource EXCEPT ![s].free = free]
                    /\ UNCHANGED <<vmChunks, mm>>
    /\ UNCHANGED acquired

GrowthNext ==
    /\ mm.error = ""
    /\ \E t \in GrowThreads :
        \/ \E s \in Spaces : alloc_pages(t, s)
        \/ ensure_mapped(t)
        \/ MapUnderLock(t)
        \/ MmapRefused(t)
        \/ handle_mmap_error(t)
        \/ grow_space(t)
        \/ WritePage(t)
        \/ GiveBackPages(t)

GrowthSpec == GrowthInit /\ [][GrowthNext]_growthVars

-----------------------------------------------------------------------------
(* Whoever is given a page may use it: the chunk and all its side metadata  *)
(* are mapped, the mapper and the SFT say so without a lock, and what was   *)
(* written to either is never wiped because another space mapped the same   *)
(* metadata a moment later.  No call ends in one of the mapper's or the     *)
(* SFT's assertions; only the operating system's refusal ends the program.  *)
GrownPagesAreUsable ==
    /\ mm.error \in {"", "out of memory"}
    /\ \A t \in GrowThreads : \A p \in grower[t].held :
        LET c == p[1]
            ranges == {c} \cup ToSet(MetadataChunks(mm, c))
        IN  /\ \A r \in ranges : mm.os[r] = "read-write" /\ is_mapped_address(mm, r)
            /\ get_checked(mm, c) = vmChunks[c]
            /\ p \in grower[t].written => ranges \subseteq mm.data
=============================================================================

--------------------------- MODULE MarkSweepBlocks ---------------------------
(***************************************************************************)
(* The native mark-sweep space: block lists of the free-list allocators    *)
(* and of the space, cells of the blocks, and the pause that marks,        *)
(* releases and sweeps them, lazily or eagerly (feature eager_sweeping).   *)
(*                                                                         *)
(* A list is <<owner, kind, bin>>.  The links live in the side metadata of *)
(* the blocks: next, prev, and home, the list a block belongs to.  Lists   *)
(* of a mutator are touched by it or by its ReleaseMutator packet, those   *)
(* of the space under a lock, so one visit to a list is one step.          *)
(***************************************************************************)
EXTENDS Naturals, Sequences, FiniteSets, SequencesExt

CONSTANTS
  MSMutators,
  NumBlocks, BlocksPerChunk,
  BlockWords,     \* words in a block
  BinWords,       \* BinWords[bin]: words in a cell of that bin
  MaxPausesMS, MaxAllocs

MSBlocks == 1 .. NumBlocks
NoneBlock == 0
MSBins == 1 .. Len(BinWords)
Runs == 0
Gone == Len(BinWords) + 1
Chunks == {(b - 1) \div BlocksPerChunk : b \in MSBlocks}
chunk(b) == (b - 1) \div BlocksPerChunk

\* The owners of lists besides the mutators.
Abandoned == "abandoned"
AbandonedInGC == "abandoned_in_gc"
Kinds == {"available", "unswept", "consumed"}
Lists == (MSMutators \cup {Abandoned, AbandonedInGC}) \X Kinds \X MSBins

VARIABLES
  eager,      \* feature eager_sweeping
  bl,         \* the block lists: [first, last, next, prev, home]
  blockState, \* "Unallocated", "Unmarked" or "Marked"
  cellBin,    \* the bin whose cell size each block has
  freeList,   \* the cells on each block's free list
  cellMarks,   \* the cells whose mark bit is set
  reachable,  \* the cells that hold reachable objects
  chunkMap,   \* the chunks that are allocated
  mut,        \* mut[m]: Runs, Gone, or the bin it is in the slow path for
  msPhase,    \* "mutator", "trace" or "release"
  pending,    \* pending_release_packets
  packetsMS,  \* packets of the Release bucket
  sweeping,   \* RecycleBlocks::counter
  panicked,   \* release_block was called
  pausesMS, allocsMS

heapMS == <<eager, bl, blockState, cellBin, freeList, cellMarks, reachable, chunkMap>>
releaseMS == <<pending, packetsMS, sweeping>>
msVars == <<heapMS, mut, msPhase, releaseMS, panicked, pausesMS, allocsMS>>

-----------------------------------------------------------------------------
(* BlockList, as operators on bl                                            *)

is_empty(s, l) == s.first[l] = NoneBlock

\* The first block of the list, which loses its links.
pop(s, l) ==
  LET head == s.first[l]
      succ == s.next[head]
      unlinked == [s EXCEPT !.first[l] = succ, !.next[head] = NoneBlock, !.prev[head] = NoneBlock]
  IN IF succ = NoneBlock THEN [unlinked EXCEPT !.last[l] = NoneBlock]
     ELSE [unlinked EXCEPT !.prev[succ] = NoneBlock, !.home[succ] = l]

push(s, l, b) ==
  LET head == s.first[l]
      linked == [s EXCEPT !.first[l] = b, !.next[b] = head, !.prev[b] = NoneBlock, !.home[b] = l]
  IN IF head = NoneBlock THEN [linked EXCEPT !.last[l] = b]
     ELSE [linked EXCEPT !.prev[head] = b]

remove(s, l, b) ==
  LET p == s.prev[b]
      n == s.next[b]
  IN CASE p = NoneBlock /\ n = NoneBlock -> [s EXCEPT !.first[l] = NoneBlock, !.last[l] = NoneBlock]
       [] p = NoneBlock /\ n # NoneBlock ->
            [s EXCEPT !.prev[n] = NoneBlock, !.first[l] = n, !.home[n] = l]
       [] p # NoneBlock /\ n = NoneBlock ->
            [s EXCEPT !.next[p] = NoneBlock, !.last[l] = p, !.home[p] = l]
       [] OTHER -> [s EXCEPT !.next[p] = n, !.prev[n] = p]

\* BlockListIterator.
RECURSIVE WalkFrom(_, _)
WalkFrom(link, b) == IF b = NoneBlock THEN <<>> ELSE <<b>> \o WalkFrom(link, link[b])
iter(s, l) == WalkFrom(s.next, s.first[l])

\* Mistake: the blocks that move keep the list they came from.
appendKeepsHome(s, l, other) ==
  LET head == s.first[other]
      tail == s.last[l]
      joined == IF is_empty(s, l) THEN [s EXCEPT !.first[l] = head]
                ELSE [s EXCEPT !.next[tail] = head, !.prev[head] = tail]
  IN IF is_empty(s, other) THEN s
     ELSE [joined EXCEPT !.last[l] = s.last[other],
                         !.first[other] = NoneBlock, !.last[other] = NoneBlock]

\* All blocks of other, in order, become the tail of l.
append(s, l, other) ==
  LET head == s.first[other]
      tail == s.last[l]
      moved == ToSet(iter(s, other))
      joined == IF is_empty(s, l) THEN [s EXCEPT !.first[l] = head]
                ELSE [s EXCEPT !.next[tail] = head, !.prev[head] = tail]
  IN IF is_empty(s, other) THEN s
     ELSE [joined EXCEPT !.last[l] = s.last[other],
                         !.home = [b \in MSBlocks |-> IF b \in moved THEN l ELSE @[b]],
                         !.first[other] = NoneBlock, !.last[other] = NoneBlock]

\* A series of appends <<list, other>>, in order.
appendAll(s, pairs) == FoldSeq(LAMBDA p, t : append(t, p[1], p[2]), s, pairs)

-----------------------------------------------------------------------------
(* Blocks and cells                                                         *)

\* Cells that fit in a block.
CellsOf(bin) == 1 .. BlockWords \div BinWords[bin]

has_free_cells(f, b) == f[b] # {}

\* The cells without a mark bit; only the links of free cells are rewritten.
sweep(f, b) == [f EXCEPT ![b] = CellsOf(cellBin[b]) \ cellMarks[b]]

\* A cell for a new object, which the mutator holds.
block_alloc(f, b) == [free |-> [f EXCEPT ![b] = @ \ {CHOOSE c \in @ : TRUE}],
                      cell |-> CHOOSE c \in f[b] : TRUE]

-----------------------------------------------------------------------------
(* FreeListAllocator                                                        *)

\* Full blocks at the front of the available list become consumed.
RECURSIVE find_free_block_with(_, _, _, _)
find_free_block_with(s, f, m, bin) ==
  LET b == s.first[<<m, "available", bin>>]
  IN IF b = NoneBlock \/ has_free_cells(f, b) THEN [lists |-> s, block |-> b, free |-> f]
     ELSE find_free_block_with(push(pop(s, <<m, "available", bin>>), <<m, "consumed", bin>>, b), f, m, bin)

\* Unswept blocks are swept until one has a free cell.
RECURSIVE recycle_local_blocks(_, _, _, _)
recycle_local_blocks(s, f, m, bin) ==
  LET b == s.first[<<m, "unswept", bin>>]
      popped == pop(s, <<m, "unswept", bin>>)
      swept == sweep(f, b)
  IN IF eager \/ b = NoneBlock THEN [lists |-> s, block |-> NoneBlock, free |-> f]
     ELSE IF has_free_cells(swept, b)
     THEN [lists |-> push(popped, <<m, "available", bin>>, b), block |-> b, free |-> swept]
     ELSE recycle_local_blocks(push(popped, <<m, "consumed", bin>>, b), swept, m, bin)

find_free_block_local(m, bin) ==
  LET found == find_free_block_with(bl, freeList, m, bin)
  IN IF found.block # NoneBlock THEN found
     ELSE recycle_local_blocks(found.lists, found.free, m, bin)

\* Mutator m has a cell of block b.
AllocatedIn(m, b, lists, free) ==
  LET a == block_alloc(free, b)
  IN /\ bl' = lists
     /\ freeList' = a.free
     /\ reachable' = [reachable EXCEPT ![b] = @ \cup {a.cell}]
     /\ mut' = [mut EXCEPT ![m] = Runs]

alloc(m, bin) ==
  /\ msPhase = "mutator" /\ mut[m] = Runs /\ allocsMS < MaxAllocs
  /\ allocsMS' = allocsMS + 1
  /\ LET found == find_free_block_local(m, bin)
     IN IF found.block # NoneBlock THEN AllocatedIn(m, found.block, found.lists, found.free)
        ELSE /\ bl' = found.lists /\ freeList' = found.free
             /\ mut' = [mut EXCEPT ![m] = bin]
             /\ UNCHANGED reachable
  /\ UNCHANGED <<eager, blockState, cellBin, cellMarks, chunkMap, msPhase, releaseMS, panicked, pausesMS>>

\* acquire_block prefers abandoned blocks to new ones.
SlowPath(m) == msPhase = "mutator" /\ mut[m] \in MSBins
AvailableList(m) == <<Abandoned, "available", mut[m]>>
UnsweptList(m) == <<Abandoned, "unswept", mut[m]>>

\* A block taken from the space is used if it has a free cell, else it is consumed
\* and the loop of acquire_global_block goes on.
Use(m, b, lists, free) ==
  IF has_free_cells(free, b)
  THEN AllocatedIn(m, b, push(lists, <<m, "available", mut[m]>>, b), free)
  ELSE /\ bl' = push(lists, <<m, "consumed", mut[m]>>, b)
       /\ freeList' = free
       /\ UNCHANGED <<reachable, mut>>

acquire_available_block(m) ==
  /\ SlowPath(m) /\ ~is_empty(bl, AvailableList(m))
  /\ Use(m, bl.first[AvailableList(m)], pop(bl, AvailableList(m)), freeList)
  /\ UNCHANGED <<eager, blockState, cellBin, cellMarks, chunkMap, msPhase, releaseMS, panicked, pausesMS, allocsMS>>

acquire_unswept_block(m) ==
  /\ SlowPath(m) /\ is_empty(bl, AvailableList(m)) /\ ~is_empty(bl, UnsweptList(m))
  /\ LET b == bl.first[UnsweptList(m)]
     IN Use(m, b, pop(bl, UnsweptList(m)), sweep(freeList, b))
  /\ UNCHANGED <<eager, blockState, cellBin, cellMarks, chunkMap, msPhase, releaseMS, panicked, pausesMS, allocsMS>>

\* init_block: every cell is free and the block is recorded in the chunk map.
init_ms_block(m, b) ==
  /\ blockState' = [blockState EXCEPT ![b] = "Unmarked"]
  /\ chunkMap' = chunkMap \cup {chunk(b)}
  /\ cellBin' = [cellBin EXCEPT ![b] = mut[m]]

acquire_fresh_block(m) ==
  /\ SlowPath(m) /\ is_empty(bl, AvailableList(m)) /\ is_empty(bl, UnsweptList(m))
  /\ \E b \in MSBlocks :
       /\ blockState[b] = "Unallocated" /\ \A c \in 1 .. b - 1 : blockState[c] # "Unallocated"
       /\ init_ms_block(m, b)
       /\ AllocatedIn(m, b, push(bl, <<m, "available", mut[m]>>, b),
                    [freeList EXCEPT ![b] = CellsOf(mut[m])])
  /\ UNCHANGED <<eager, cellMarks, msPhase, releaseMS, panicked, pausesMS, allocsMS>>

\* abandon_blocks: the lists of m to the space's.
abandon_blocks(s, m, global) ==
  appendAll(s, FlattenSeq([bin \in MSBins |-> <<
    <<<<global, "available", bin>>, <<m, "available", bin>>>>,
    <<<<global, "consumed", bin>>, <<m, "consumed", bin>>>>,
    <<<<global, "unswept", bin>>, <<m, "unswept", bin>>>> >>]))

on_mutator_destroy(m) ==
  /\ msPhase = "mutator" /\ mut[m] = Runs
  /\ bl' = abandon_blocks(bl, m, Abandoned)
  /\ mut' = [mut EXCEPT ![m] = Gone]
  /\ UNCHANGED <<eager, blockState, cellBin, freeList, cellMarks, reachable, chunkMap, msPhase, releaseMS,
                 panicked, pausesMS, allocsMS>>

\* The program lets go of an object.
LetGo ==
  /\ msPhase = "mutator"
  /\ \E b \in MSBlocks, c \in 1 .. BlockWords :
       c \in reachable[b] /\ reachable' = [reachable EXCEPT ![b] = @ \ {c}]
  /\ UNCHANGED <<eager, bl, blockState, cellBin, freeList, cellMarks, chunkMap, mut, msPhase, releaseMS,
                 panicked, pausesMS, allocsMS>>

-----------------------------------------------------------------------------
(* The pause                                                                *)

\* prepare and its PrepareChunkMap packets.
prepareMS ==
  LET occupied == {c \in chunkMap : \E b \in MSBlocks : chunk(b) = c /\ blockState[b] # "Unallocated"}
  IN /\ msPhase = "mutator" /\ pausesMS < MaxPausesMS
     /\ pausesMS' = pausesMS + 1
     /\ msPhase' = "trace"
     /\ blockState' = [b \in MSBlocks |-> IF chunk(b) \in chunkMap /\ blockState[b] # "Unallocated"
                                          THEN "Unmarked" ELSE blockState[b]]
     /\ chunkMap' = occupied
     /\ cellMarks' = [b \in MSBlocks |-> IF chunk(b) \in occupied THEN {} ELSE cellMarks[b]]
     /\ UNCHANGED <<eager, bl, cellBin, freeList, reachable, mut, releaseMS, panicked, allocsMS>>

trace_objectMS(b, c) ==
  /\ msPhase = "trace" /\ c \in reachable[b] \ cellMarks[b]
  /\ cellMarks' = [cellMarks EXCEPT ![b] = @ \cup {c}]
  /\ blockState' = [blockState EXCEPT ![b] = "Marked"]
  /\ UNCHANGED <<eager, bl, cellBin, freeList, reachable, chunkMap, mut, msPhase, releaseMS, panicked, pausesMS, allocsMS>>

\* One packet for the space and one for each mutator.
releaseMSSpace ==
  LET there == {m \in MSMutators : mut[m] # Gone}
  IN /\ msPhase = "trace" /\ \A b \in MSBlocks : reachable[b] \subseteq cellMarks[b]
     /\ msPhase' = "release"
     /\ pending' = Cardinality(there) + 1
     /\ packetsMS' = {<<"release", o>> : o \in there \cup {Abandoned}}
     /\ UNCHANGED <<heapMS, mut, sweeping, panicked, pausesMS, allocsMS>>

\* release_blocks: an unmarked block is to be released, which is not implemented.
release_blocks(ls) == \E l \in ls : \E b \in ToSet(iter(bl, l)) : blockState[b] = "Unmarked"

\* Everything that is not unswept becomes unswept.
sweep_later(s, o) ==
  IF eager THEN s
  ELSE appendAll(s, FlattenSeq([bin \in MSBins |-> <<
         <<<<o, "unswept", bin>>, <<o, "available", bin>>>>,
         <<<<o, "unswept", bin>>, <<o, "consumed", bin>>>> >>]))

\* The packet is done with the lists; it still has to report that.
Reported(p) == packetsMS' = (packetsMS \ {p}) \cup {<<"done", p[2]>>}

ReleaseMarkSweepSpace ==
  LET p == <<"release", Abandoned>>
      lists == {l \in Lists : l[1] = Abandoned /\ (eager => l[2] # "unswept")}
  IN /\ p \in packetsMS /\ ~panicked
     /\ IF release_blocks(lists)
        THEN panicked' = TRUE /\ UNCHANGED <<bl, packetsMS>>
        ELSE bl' = sweep_later(bl, Abandoned) /\ Reported(p) /\ UNCHANGED panicked
     /\ UNCHANGED <<eager, blockState, cellBin, freeList, cellMarks, reachable, chunkMap, mut, msPhase,
                    pending, sweeping, pausesMS, allocsMS>>

ReleaseMutator(m) ==
  LET p == <<"release", m>>
      lists == {l \in Lists : l[1] = m /\ l[2] # "unswept"}
  IN /\ p \in packetsMS /\ ~panicked
     /\ IF release_blocks(lists)
        THEN panicked' = TRUE /\ UNCHANGED <<bl, packetsMS>>
        ELSE /\ bl' = abandon_blocks(sweep_later(bl, m), m, AbandonedInGC)
             /\ Reported(p) /\ UNCHANGED panicked
     /\ UNCHANGED <<eager, blockState, cellBin, freeList, cellMarks, reachable, chunkMap, mut, msPhase,
                    pending, sweeping, pausesMS, allocsMS>>

\* Consumed blocks that have free cells after an eager sweep are available.
recycle_consumed(s, f, o) ==
  LET Recycle(b, t) ==
        IF has_free_cells(f, b)
        THEN push(remove(t, <<o, "consumed", cellBin[b]>>, b), <<o, "available", cellBin[b]>>, b)
        ELSE t
  IN FoldSeq(Recycle, s, FlattenSeq([bin \in MSBins |-> iter(s, <<o, "consumed", bin>>)]))

merge(s) ==
  appendAll(s, FlattenSeq([bin \in MSBins |-> <<
    <<<<Abandoned, "available", bin>>, <<AbandonedInGC, "available", bin>>>>,
    <<<<Abandoned, "unswept", bin>>, <<AbandonedInGC, "unswept", bin>>>>,
    <<<<Abandoned, "consumed", bin>>, <<AbandonedInGC, "consumed", bin>>>> >>]))

recycle_blocks(f) ==
  merge(IF eager THEN recycle_consumed(recycle_consumed(bl, f, Abandoned), f, AbandonedInGC)
        ELSE bl)

\* Mistake: whoever comes last but one recycles.
release_packet_doneEarly(o) ==
  /\ <<"done", o>> \in packetsMS /\ ~panicked
  /\ pending' = pending - 1
  /\ packetsMS' = (packetsMS \ {<<"done", o>>})
                  \cup (IF eager /\ pending = 2 THEN {<<"sweep", c>> : c \in chunkMap} ELSE {})
  /\ sweeping' = IF eager /\ pending = 2 THEN Cardinality(chunkMap) ELSE sweeping
  /\ bl' = IF ~eager /\ pending = 2 THEN recycle_blocks(freeList) ELSE bl
  /\ UNCHANGED <<eager, blockState, cellBin, freeList, cellMarks, reachable, chunkMap, mut, msPhase,
                 panicked, pausesMS, allocsMS>>

\* The last packet recycles blocks, or has the chunks swept.
release_packet_done(o) ==
  /\ <<"done", o>> \in packetsMS /\ ~panicked
  /\ pending' = pending - 1
  /\ packetsMS' = (packetsMS \ {<<"done", o>>})
                  \cup (IF eager /\ pending = 1 THEN {<<"sweep", c>> : c \in chunkMap} ELSE {})
  /\ sweeping' = IF eager /\ pending = 1 THEN Cardinality(chunkMap) ELSE sweeping
  /\ bl' = IF ~eager /\ pending = 1 THEN recycle_blocks(freeList) ELSE bl
  /\ UNCHANGED <<eager, blockState, cellBin, freeList, cellMarks, reachable, chunkMap, mut, msPhase,
                 panicked, pausesMS, allocsMS>>

\* The last chunk to be swept recycles blocks.
SweepMSChunk(c) ==
  LET here == {b \in MSBlocks : chunk(b) = c /\ blockState[b] # "Unallocated"}
      swept == [b \in MSBlocks |-> IF b \in here THEN CellsOf(cellBin[b]) \ cellMarks[b] ELSE freeList[b]]
  IN /\ <<"sweep", c>> \in packetsMS /\ ~panicked
     /\ packetsMS' = packetsMS \ {<<"sweep", c>>}
     /\ freeList' = swept
     /\ chunkMap' = IF here = {} THEN chunkMap \ {c} ELSE chunkMap
     /\ sweeping' = sweeping - 1
     /\ bl' = IF sweeping = 1 THEN recycle_blocks(swept) ELSE bl
     /\ UNCHANGED <<eager, blockState, cellBin, cellMarks, reachable, mut, msPhase, pending, panicked, pausesMS, allocsMS>>

\* Mistake: mark bits are cleared when the pause ends, before lazy sweeping.
end_of_gcClearsMarks ==
  /\ msPhase = "release" /\ packetsMS = {}
  /\ msPhase' = "mutator"
  /\ cellMarks' = [b \in MSBlocks |-> {}]
  /\ UNCHANGED <<eager, bl, blockState, cellBin, freeList, reachable, chunkMap, mut, releaseMS,
                 panicked, pausesMS, allocsMS>>

end_of_gc ==
  /\ msPhase = "release" /\ packetsMS = {}
  /\ msPhase' = "mutator"
  /\ UNCHANGED <<heapMS, mut, releaseMS, panicked, pausesMS, allocsMS>>

-----------------------------------------------------------------------------
MarkSweepInit ==
  /\ eager \in BOOLEAN
  /\ bl = [first |-> [l \in Lists |-> NoneBlock], last |-> [l \in Lists |-> NoneBlock],
           next |-> [b \in MSBlocks |-> NoneBlock], prev |-> [b \in MSBlocks |-> NoneBlock],
           home |-> [b \in MSBlocks |-> <<>>]]
  /\ blockState = [b \in MSBlocks |-> "Unallocated"]
  /\ cellBin = [b \in MSBlocks |-> 1]
  /\ freeList = [b \in MSBlocks |-> {}]
  /\ cellMarks = [b \in MSBlocks |-> {}]
  /\ reachable = [b \in MSBlocks |-> {}]
  /\ chunkMap = {}
  /\ mut = [m \in MSMutators |-> Runs]
  /\ msPhase = "mutator"
  /\ pending = 0 /\ packetsMS = {} /\ sweeping = 0
  /\ panicked = FALSE /\ pausesMS = 0 /\ allocsMS = 0

MarkSweepNext ==
  \/ \E m \in MSMutators : \/ \E bin \in MSBins : alloc(m, bin)
                           \/ acquire_available_block(m) \/ acquire_unswept_block(m)
                           \/ acquire_fresh_block(m) \/ on_mutator_destroy(m) \/ ReleaseMutator(m)
  \/ LetGo \/ prepareMS \/ releaseMSSpace \/ ReleaseMarkSweepSpace \/ end_of_gc
  \/ \E b \in MSBlocks, c \in 1 .. BlockWords : trace_objectMS(b, c)
  \/ \E o \in MSMutators \cup {Abandoned} : release_packet_done(o)
  \/ \E c \in Chunks : SweepMSChunk(c)

-----------------------------------------------------------------------------
\* "A block that is in use belongs to exactly one of the block lists": the walks
\* along next and along prev agree, every block is on the list it names, of its
\* own bin, and no block is lost to all of them.  While mutators run, the lists
\* of the pause are empty and consumed blocks have no free cell, so that no
\* usable cell waits for the next pause (MarkSweepSpace, BlockList).
BlockListsAreExact ==
  ~panicked =>
    LET used == {l \in Lists : bl.first[l] # NoneBlock \/ bl.last[l] # NoneBlock}
        on == [l \in used |-> ToSet(iter(bl, l))]
    IN /\ \A l \in used : /\ Reverse(iter(bl, l)) = WalkFrom(bl.prev, bl.last[l])
                          /\ \A b \in on[l] : bl.home[b] = l /\ cellBin[b] = l[3]
       /\ \A b \in MSBlocks : Cardinality({l \in used : b \in on[l]})
                                = (IF blockState[b] = "Unallocated" THEN 0 ELSE 1)
       /\ msPhase = "mutator" =>
            \A l \in used : /\ l[1] # AbandonedInGC
                            /\ l[2] = "consumed" => \A b \in on[l] : freeList[b] = {}

\* A cell with a reachable object is never free, whichever list its block waits
\* on and however late it is swept (block_alloc, sweep).
ReachableCellsAreNotFree ==
  \A b \in MSBlocks : reachable[b] \cap freeList[b] = {} /\ (reachable[b] # {} => blockState[b] # "Unallocated")

\* "Release this block if it is unmarked. Return true if the block is released."
\* (Block::attempt_release)
ReleasesReturn == ~panicked

=============================================================================

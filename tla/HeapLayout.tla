----------------------------- MODULE HeapLayout ------------------------------
(***************************************************************************)
(* The 64-bit heap layout and the page lists kept inside it.               *)
(*                                                                         *)
(* At boot a plan creates its spaces one after the other.  Each takes the  *)
(* next slice of the address range (HeapMeta::reserve), gets a descriptor  *)
(* holding the index of its slice, and is entered in the descriptor map    *)
(* (Map64::insert).  A space that hands out pages through a free list      *)
(* keeps the list's entries in memory at the start of its own slice        *)
(* (RawMemoryFreeList); the pages it may hand out start behind, at the     *)
(* next chunk.  The entries are mapped block by block while the space      *)
(* grows (Map64::allocate_contiguous_chunks, grow_freelist).  The lock-    *)
(* free immortal space of NoGC takes its whole memory at boot and bumps    *)
(* one shared cursor.                                                      *)
(*                                                                         *)
(* An address is a page number.  The methods of FreeListPageResource run   *)
(* under its lock and are single steps.  A failed assertion, a subtraction *)
(* below zero or a panic ends the process: layoutPanic.                       *)
(***************************************************************************)
EXTENDS FreeList, Sequences, FiniteSetsExt

CONSTANTS
  LOG_MAX_SPACES,
  log_space_extent,   \* in pages
  PagesInLayoutChunk,
  UnitsPerPage,       \* units whose entries fill a page of a list (512)
  MaxBlockPages,      \* pages of a list mapped at a time at most (16)
  PlanSpaces,         \* the sequences of spaces a plan creates, by kind
  HeapPages,          \* size of the lock-free space, from the heap size option
  LayoutRequests,     \* sizes of requests for pages
  MaxServed,          \* requests made in all
  DebugAssertions     \* the build checks debug_assert!

VARIABLES
  heapMeta,           \* HeapMeta: cursor and limit
  map64,              \* Map64: descriptors, base addresses and high water marks
  layoutSpaces,       \* the spaces created so far, with their page resources
  todo,               \* the spaces the plan has still to create
  held,               \* runs of pages handed out and not released
  served,             \* requests made so far
  layoutPanic

layoutVars == <<heapMeta, map64, layoutSpaces, todo, held, served, layoutPanic>>

LayoutKinds == {"freelist", "monotone", "lockfree"}

-----------------------------------------------------------------------------
(* VMLayout, SpaceDescriptor                                                *)

MAX_SPACES == 2 ^ LOG_MAX_SPACES
max_space_extent == 2 ^ log_space_extent
heap_start == max_space_extent
heap_end == (MAX_SPACES + 1) * max_space_extent

UNINITIALIZED == [index |-> 0, hi |-> FALSE, contiguous |-> FALSE]

create_descriptor_from_heap_range(start, end) ==
  [index |-> start \div max_space_extent, hi |-> end = heap_end, contiguous |-> TRUE]
get_start(d) == d.index * max_space_extent
get_extent(d) == max_space_extent

\* Map64::space_index; Map64::get_descriptor_for_address
space_index(a) == IF a > heap_end THEN MAX_SPACES + 2 ELSE a \div max_space_extent
get_descriptor_for_address(a) ==
  IF a > heap_end THEN UNINITIALIZED ELSE map64.descriptor_map[space_index(a)]

chunk_align_up(a) == ((a + PagesInLayoutChunk - 1) \div PagesInLayoutChunk) * PagesInLayoutChunk
DivUp(a, b) == (a + b - 1) \div b

-----------------------------------------------------------------------------
(* RawMemoryFreeList: entries for units -heads .. currentUnits, with one    *)
(* head; list pages base .. highWater - 1 are mapped.                       *)

RawHeads == 1
size_in_pages(units, heads) == DivUp(units + heads + 1, UnitsPerPage)
default_block_size(units, heads) == Min({size_in_pages(units, heads), MaxBlockPages})
units_per_block(l) == l.pagesPerBlock * UnitsPerPage
units_in_first_block(l) == units_per_block(l) - RawHeads - 1
current_capacity(l) ==
  units_in_first_block(l)
    + (((l.highWater - l.listBase) \div l.pagesPerBlock) - 1) * units_per_block(l)

RawList(base, limit, pagesPerBlock, units, grain) ==
  [listBase |-> base, listLimit |-> limit, highWater |-> base, pagesPerBlock |-> pagesPerBlock,
   maxUnits |-> units, grain |-> grain, currentUnits |-> 0,
   table |-> EmptyTable(-RawHeads, units + PagesInLayoutChunk)]

\* A block that would cross the limit is shortened by subtracting the limit
\* from the mark below it, which fails.
CannotRaise(l, blocks) ==
  \/ l.highWater = l.listLimit
  \/ l.highWater + l.pagesPerBlock * blocks > l.listLimit
raise_high_water(l, blocks) == [l EXCEPT !.highWater = @ + l.pagesPerBlock * blocks]

\* Blocks to map for so many more units.
BlocksNeeded(l, units) ==
  LET required == units + l.currentUnits
  IN IF required > current_capacity(l)
     THEN DivUp(required - current_capacity(l), units_per_block(l)) ELSE 0

grow_list_by_blocks(l, blocks, newMax) ==
  LET m == IF blocks > 0 THEN raise_high_water(l, blocks) ELSE l
      oldMax == l.currentUnits
      a == IF oldMax = 0 THEN Sentinels(l.table, RawHeads) ELSE set_size(l.table, oldMax, 1)
      grain == Min({l.grain, newMax - oldMax})
      b == AddGrains(set_sentinel(a, newMax), -1, oldMax, grain, newMax - grain)
  IN [m EXCEPT !.currentUnits = newMax, !.table = b]

\* A list already at its maximum is left as it is.
grow_freelist(l, units) ==
  IF units + l.currentUnits > l.maxUnits THEN l
  ELSE grow_list_by_blocks(l, BlocksNeeded(l, units), units + l.currentUnits)

\* With debug assertions the chunks of a list that did not grow are noticed
\* when they are given back: their lump is not a chunk long.
GrowthPanics(l, units) ==
  \/ /\ units + l.currentUnits =< l.maxUnits
     /\ BlocksNeeded(l, units) > 0
     /\ CannotRaise(l, BlocksNeeded(l, units))
  \/ DebugAssertions /\ units + l.currentUnits > l.maxUnits

raw_alloc(l, size) ==
  IF l.currentUnits = 0 THEN [table |-> l.table, unit |-> FAILURE]
  ELSE alloc_first_fit(l.table, -1, size)

-----------------------------------------------------------------------------
(* Boot: HeapMeta, Map64 and the spaces                                     *)

\* Map64::new
NewMap64 ==
  LET bases == [i \in 0 .. MAX_SPACES - 1 |-> i * max_space_extent]
  IN [descriptor_map |-> [i \in 0 .. MAX_SPACES - 1 |-> UNINITIALIZED],
      base_address |-> bases, high_water |-> bases]

\* VMRequest::common64bit: every request is for a whole slice.
common64bit(top) == [extent |-> max_space_extent, top |-> top]

\* HeapMeta::reserve
reserve(h, r) ==
  IF r.top THEN [h EXCEPT !.limit = @ - r.extent] ELSE [h EXCEPT !.cursor = @ + r.extent]
ReservedStart(h, r) == IF r.top THEN h.limit - r.extent ELSE h.cursor

\* NON_MAP_FRACTION of the pages are left when their entries are stored.
NonMapUnits(pages) == pages - (pages \div UnitsPerPage)

\* Mistake: the list's own pages are counted as pages of the space.
create_parent_freelistNoDisplacement(start, pages, grain) ==
  LET units == NonMapUnits(pages)
      extent == size_in_pages(units, 1)
  IN [list |-> RawList(start, start + extent, default_block_size(units, RawHeads), units, grain),
      base |-> chunk_align_up(start + extent - PagesInLayoutChunk)]

\* Map64::create_parent_freelist
create_parent_freelist(start, pages, grain) ==
  LET units == NonMapUnits(pages)
      extent == size_in_pages(units, 1)
  IN [list |-> RawList(start, start + extent, default_block_size(units, RawHeads), units, grain),
      base |-> chunk_align_up(start + extent)]

\* FreeListPageResource::new_contiguous: the pages start behind the list.
new_contiguous(common, made) ==
  [common |-> common, list |-> made.list, prStart |-> made.base, onFreelist |-> 0,
   cursor |-> common.start, limit |-> common.start + common.extent]

\* A resource without a list: MonotonePageResource, or none at all.
WithoutList(common) ==
  new_contiguous(common, [list |-> RawList(common.start, common.start, 1, 0, 1), base |-> common.start])

\* CommonSpace::new, then the constructor of the space's page resource.
CommonSpace(kind, h, m) ==
  LET r == common64bit(FALSE)
      start == ReservedStart(h, r)
      descriptor == create_descriptor_from_heap_range(start, start + r.extent)
      index == space_index(start)
      common == [kind |-> kind, start |-> start, extent |-> r.extent, descriptor |-> descriptor]
      named == [m EXCEPT !.descriptor_map = [@ EXCEPT ![index] = descriptor]]
      made == create_parent_freelist(start, r.extent, PagesInLayoutChunk)
  IN [heap |-> reserve(h, r),
      map |-> IF kind = "freelist"
              THEN [named EXCEPT !.base_address = [@ EXCEPT ![index] = made.base],
                                 !.high_water = [@ EXCEPT ![index] = made.base]]
              ELSE named,
      space |-> IF kind = "freelist" THEN new_contiguous(common, made) ELSE WithoutList(common)]

\* LockFreeImmortalSpace::new: a slice is reserved; no descriptor is made.
LockFreeImmortalSpace(h, m) ==
  LET r == common64bit(FALSE)
      start == ReservedStart(h, r)
  IN [heap |-> reserve(h, r), map |-> m,
      space |-> WithoutList([kind |-> "lockfree", start |-> start, extent |-> chunk_align_up(HeapPages),
                             descriptor |-> UNINITIALIZED])]

\* The plan's constructor creates its next space.
CreateSpace ==
  /\ todo # <<>> /\ ~layoutPanic
  /\ LET made == IF Head(todo) = "lockfree" THEN LockFreeImmortalSpace(heapMeta, map64)
                 ELSE CommonSpace(Head(todo), heapMeta, map64)
     IN IF made.heap.cursor > made.heap.limit
        THEN layoutPanic' = TRUE /\ UNCHANGED <<heapMeta, map64, layoutSpaces, todo, held, served>>
        ELSE /\ heapMeta' = made.heap
             /\ map64' = made.map
             /\ layoutSpaces' = Append(layoutSpaces, made.space)
             /\ todo' = Tail(todo)
             /\ UNCHANGED <<held, served, layoutPanic>>

-----------------------------------------------------------------------------
(* Pages of a running plan                                                  *)

Ready == todo = <<>> /\ ~layoutPanic
OfKind(kind) == {s \in DOMAIN layoutSpaces : layoutSpaces[s].common.kind = kind}

\* The units of chunks first .. last of a list are nailed down one by one.
RECURSIVE TakeChunks(_, _, _)
TakeChunks(t, unit, n) ==
  IF n = 0 THEN t
  ELSE TakeChunks(alloc_from_unit(set_uncoalescable(t, unit), -1, PagesInLayoutChunk, unit),
                  unit + PagesInLayoutChunk, n - 1)

\* Map64::allocate_contiguous_chunks, for a space with a list: the list grows
\* and the new chunks are taken from it.
AllocateChunks(s, n) ==
  LET sp == layoutSpaces[s]
      index == sp.common.descriptor.index
      region == map64.high_water[index]
      grown == grow_freelist(sp.list, n * PagesInLayoutChunk)
      table == TakeChunks(grown.table, region - map64.base_address[index], n)
  IN [region |-> region, list |-> [grown EXCEPT !.table = table],
      map |-> [map64 EXCEPT !.high_water = [@ EXCEPT ![index] = region + n * PagesInLayoutChunk]]]

\* FreeListPageResource::allocate_contiguous_chunks gives the chunks back to
\* the list, coalesced with each other and not with their neighbours.
RECURSIVE LiberateChunks(_, _, _, _)
LiberateChunks(t, first, unit, n) ==
  IF n = 0 THEN t
  ELSE LET a == IF unit # first THEN clear_uncoalescable(t, unit) ELSE t
       IN LiberateChunks(free(a, -1, unit).table, first, unit + PagesInLayoutChunk, n - 1)
LiberateRegion(t, unit, n) ==
  LiberateChunks(set_uncoalescable(set_uncoalescable(t, unit), unit + n * PagesInLayoutChunk), unit, unit, n)

\* The page resource of a space after an allocation from table t at unit u.
Handed(sp, t, u, freePages) ==
  [sp EXCEPT !.list = [@ EXCEPT !.table = t], !.onFreelist = freePages]

\* FreeListPageResource::alloc_pages
AllocPages(s, n) ==
  /\ Ready /\ s \in OfKind("freelist") /\ served < MaxServed
  /\ served' = served + 1
  /\ LET sp == layoutSpaces[s]
         chunks == DivUp(n, PagesInLayoutChunk)
         fit == raw_alloc(sp.list, n)
         grown == AllocateChunks(s, chunks)
         freed == LiberateRegion(grown.list.table, grown.region - sp.prStart, chunks)
         again == alloc_first_fit(freed, -1, n)
     IN \/ /\ fit.unit # FAILURE
           /\ layoutSpaces' = [layoutSpaces EXCEPT ![s] =
                                 Handed(sp, fit.table, fit.unit, sp.onFreelist - n)]
           /\ held' = held \cup {[space |-> s, first |-> sp.prStart + fit.unit, pages |-> n]}
           /\ UNCHANGED <<heapMeta, map64, todo, layoutPanic>>
        \/ /\ fit.unit = FAILURE /\ GrowthPanics(sp.list, chunks * PagesInLayoutChunk)
           /\ layoutPanic' = TRUE
           /\ UNCHANGED <<heapMeta, map64, layoutSpaces, todo, held>>
        \/ /\ fit.unit = FAILURE /\ ~GrowthPanics(sp.list, chunks * PagesInLayoutChunk)
           /\ map64' = grown.map
           /\ layoutSpaces' = [layoutSpaces EXCEPT ![s] =
                Handed([sp EXCEPT !.list = grown.list], again.table, again.unit,
                       sp.onFreelist + chunks * PagesInLayoutChunk - n)]
           /\ held' = held \cup {[space |-> s, first |-> sp.prStart + again.unit, pages |-> n]}
           /\ UNCHANGED <<heapMeta, todo, layoutPanic>>

\* FreeListPageResource::release_pages
ReleasePages(g) ==
  /\ Ready /\ layoutSpaces[g.space].common.kind = "freelist"
  /\ LET sp == layoutSpaces[g.space]
         done == free(sp.list.table, -1, g.first - sp.prStart)
     IN layoutSpaces' = [layoutSpaces EXCEPT ![g.space] =
                           Handed(sp, done.table, g.first, sp.onFreelist + g.pages)]
  /\ held' = held \ {g}
  /\ UNCHANGED <<heapMeta, map64, todo, served, layoutPanic>>

\* LockFreeImmortalSpace::acquire: the cursor moves even when memory is out.
AcquireLockFree(s, n) ==
  /\ Ready /\ s \in OfKind("lockfree") /\ served < MaxServed
  /\ served' = served + 1
  /\ LET sp == layoutSpaces[s]
     IN /\ layoutSpaces' = [layoutSpaces EXCEPT ![s].cursor = @ + n]
        /\ layoutPanic' = (sp.cursor + n > sp.limit)
        /\ held' = IF layoutPanic' THEN held
                   ELSE held \cup {[space |-> s, first |-> sp.cursor, pages |-> n]}
        /\ UNCHANGED <<heapMeta, map64, todo>>

LayoutInit ==
  /\ heapMeta = [cursor |-> heap_start, limit |-> heap_end]
  /\ map64 = NewMap64
  /\ layoutSpaces = <<>>
  /\ todo \in PlanSpaces
  /\ held = {}
  /\ served = 0
  /\ layoutPanic = FALSE

LayoutNext ==
  \/ CreateSpace
  \/ \E s \in DOMAIN layoutSpaces, n \in LayoutRequests : AllocPages(s, n) \/ AcquireLockFree(s, n)
  \/ \E g \in held : ReleasePages(g)

-----------------------------------------------------------------------------
(* Properties                                                               *)

PagesOfRun(g) == g.first .. g.first + g.pages - 1
ListPages(s) == layoutSpaces[s].list.listBase .. layoutSpaces[s].list.listLimit - 1
Slice(s) == layoutSpaces[s].common.start
              .. layoutSpaces[s].common.start + layoutSpaces[s].common.extent - 1

\* Whatever the spaces and the order of requests: slices never overlap and
\* lie in the heap; the descriptor found for an address is the one of the
\* space whose slice holds it and decodes to that slice; pages handed out
\* have one user, lie in the slice of their space and never on the pages
\* that hold a list's entries; every unit a list knows has its entry in a
\* mapped page below the list's limit; and lists are well-formed and count
\* the pages they have free.
LayoutIsExact ==
  /\ \A s, t \in DOMAIN layoutSpaces : s # t => Slice(s) \cap Slice(t) = {}
  /\ \A s \in DOMAIN layoutSpaces :
       /\ Slice(s) \subseteq heap_start .. heap_end - 1
       /\ layoutSpaces[s].common.kind # "lockfree" =>
            /\ \A a \in Slice(s) : get_descriptor_for_address(a) = layoutSpaces[s].common.descriptor
            /\ get_start(layoutSpaces[s].common.descriptor) = layoutSpaces[s].common.start
            /\ get_extent(layoutSpaces[s].common.descriptor) = layoutSpaces[s].common.extent
  /\ \A g \in held : /\ PagesOfRun(g) \subseteq Slice(g.space) \ ListPages(g.space)
                     /\ \A h \in held : g # h => PagesOfRun(g) \cap PagesOfRun(h) = {}
  /\ \A s \in OfKind("freelist") :
       LET l == layoutSpaces[s].list
           units == l.currentUnits
       IN units > 0 =>
            /\ l.highWater =< l.listLimit
            /\ units + RawHeads + 1 =< (l.highWater - l.listBase) * UnitsPerPage
            /\ ConsistentTable(l.table, {-1}, units)
            /\ layoutSpaces[s].onFreelist =
                 units - MapThenSumSet(LAMBDA g : g.pages, {g \in held : g.space = s})
            /\ map64.high_water[layoutSpaces[s].common.descriptor.index] = layoutSpaces[s].prStart + units

=============================================================================

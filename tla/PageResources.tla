---------------------------- MODULE PageResources ----------------------------
(***************************************************************************)
(* Page resources of discontiguous spaces, as with compressed pointers.    *)
(*                                                                         *)
(* Map32 owns the chunks of the address range.  Spaces with a              *)
(* FreeListPageResource keep their free pages on lists that share one page *)
(* table; spaces with a MonotonePageResource bump a cursor through their   *)
(* chunks and give them all back, or, for a compacting space, those after  *)
(* the last live one.  Addresses are page numbers.                         *)
(*                                                                         *)
(* Spaces of blocks (Immix, native mark-sweep) only take single chunks.    *)
(*                                                                         *)
(* Each operation of a page resource is one step: it runs under the lock   *)
(* of the resource and takes the lock of Map32 inside.                     *)
(***************************************************************************)
EXTENDS FreeList, FiniteSetsExt, SequencesExt

CONSTANTS
  NumFreeListSpaces, NumMonotoneSpaces, NumBlockSpaces,
  PagesInChunk,
  FirstChunk, LastChunk, NumChunks,  \* the discontiguous range within the chunks of the layout
  LargeBoundary,   \* chunks from here on serve requests for several chunks
  PageRequests,    \* numbers of pages asked for
  MaxGrants,       \* bound on the requests granted
  FillsRegions     \* a compaction may end exactly at the end of a region

FreeListSpaces == 1 .. NumFreeListSpaces
MonotoneSpaces == NumFreeListSpaces + 1 .. NumFreeListSpaces + NumMonotoneSpaces
BlockSpaces == NumFreeListSpaces + NumMonotoneSpaces + 1
                 .. NumFreeListSpaces + NumMonotoneSpaces + NumBlockSpaces
PageSpaces == FreeListSpaces \cup MonotoneSpaces \cup BlockSpaces
NoSpace == 0
Nowhere == 0
Heads == NumFreeListSpaces + 1  \* ordinals start at 1, MAX_SPACES in the code
HeadOf(s) == -(1 + s)
DiscontigChunks == FirstChunk .. LastChunk
NumPages == (1 + LastChunk - FirstChunk) * PagesInChunk

\* Conversions between chunks, page addresses and units of the page table.
PageOf(c) == c * PagesInChunk
ChunkOf(page) == page \div PagesInChunk
Unit(page) == page - PageOf(FirstChunk)
PagesOf(c, n) == PageOf(c) .. PageOf(c + n) - 1
required_chunks(pages) == (pages + PagesInChunk - 1) \div PagesInChunk

VARIABLES
  vm,       \* Map32Inner, with the chunks mapped by the mmapper and the SFT entries
  res,      \* res[s]: the page resource of space s
  given,    \* given[s]: the pages in use by the clients of s, as [start, pages]
  grants

pageVars == <<vm, res, given, grants>>

-----------------------------------------------------------------------------
(* Map32                                                                    *)

insert(v, c, n, s) ==
  [v EXCEPT !.descriptor = [i \in DOMAIN @ |-> IF i \in c .. c + n - 1 THEN s ELSE @[i]]]

is_large_chunk_allocation(n) == n > 1

\* Returns the map and the first chunk, or Nowhere.
allocate_contiguous_chunks(v, s, n, head) ==
  LET large == is_large_chunk_allocation(n)
      got == alloc_first_fit(IF large THEN v.largeMap ELSE v.regionMap, -1, n)
      c == got.unit
      a == [v EXCEPT !.regionMap = IF large THEN @ ELSE got.table,
                     !.largeMap = IF large THEN got.table ELSE @,
                     !.available = @ - n,
                     !.availableLarge = @ - IF large THEN n ELSE 0,
                     !.chunkSpace[c] = IF large THEN "large" ELSE "small",
                     !.next[c] = IF head = Nowhere THEN @ ELSE ChunkOf(head),
                     !.prev = IF head = Nowhere THEN @ ELSE [@ EXCEPT ![ChunkOf(head)] = c]]
  IN IF c = FAILURE THEN [vm |-> v, region |-> Nowhere]
     ELSE [vm |-> insert(a, c, n, s), region |-> PageOf(c)]

get_next_contiguous_region(v, region) ==
  IF region = Nowhere \/ v.next[ChunkOf(region)] = -1 THEN Nowhere
  ELSE PageOf(v.next[ChunkOf(region)])

get_contiguous_region_chunks(v, region) ==
  get_size(IF v.chunkSpace[ChunkOf(region)] = "small" THEN v.regionMap ELSE v.largeMap, ChunkOf(region))

\* Mistake: the links of the neighbours of a freed region are left alone.
free_contiguous_chunksKeepsLinks(v, c) ==
  LET large == v.chunkSpace[c] # "small"
      t == IF large THEN v.largeMap ELSE v.regionMap
      n == get_size(t, c)
      freed == c .. c + n - 1
  IN [v EXCEPT !.regionMap = IF large THEN @ ELSE free(t, -1, c).table,
               !.largeMap = IF large THEN free(t, -1, c).table ELSE @,
               !.available = @ + n,
               !.availableLarge = @ + IF large THEN n ELSE 0,
               !.chunkSpace = [i \in DOMAIN @ |-> IF i \in freed THEN "none" ELSE @[i]],
               !.descriptor = [i \in DOMAIN @ |-> IF i \in freed THEN NoSpace ELSE @[i]],
               !.sft = [i \in DOMAIN @ |-> IF i \in freed THEN NoSpace ELSE @[i]],
               !.prev = [@ EXCEPT ![c] = -1],
               !.next = [@ EXCEPT ![c] = -1]]

free_contiguous_chunks(v, c) ==
  LET large == v.chunkSpace[c] # "small"
      t == IF large THEN v.largeMap ELSE v.regionMap
      n == get_size(t, c)
      freed == c .. c + n - 1
      next == v.next[c]
      prev == v.prev[c]
      relinked == [v EXCEPT !.prev = IF next # -1 THEN [@ EXCEPT ![next] = prev] ELSE @,
                            !.next = IF prev # -1 THEN [@ EXCEPT ![prev] = next] ELSE @]
  IN [relinked EXCEPT
        !.regionMap = IF large THEN @ ELSE free(t, -1, c).table,
        !.largeMap = IF large THEN free(t, -1, c).table ELSE @,
        !.available = @ + n,
        !.availableLarge = @ + IF large THEN n ELSE 0,
        !.chunkSpace = [i \in DOMAIN @ |-> IF i \in freed THEN "none" ELSE @[i]],
        !.descriptor = [i \in DOMAIN @ |-> IF i \in freed THEN NoSpace ELSE @[i]],
        !.sft = [i \in DOMAIN @ |-> IF i \in freed THEN NoSpace ELSE @[i]],
        !.prev = [@ EXCEPT ![c] = -1],
        !.next = [@ EXCEPT ![c] = -1]]

\* Both directions of the list, then the chunk itself.
RECURSIVE free_all_chunks(_, _)
free_all_chunks(v, c) ==
  IF v.next[c] # -1 THEN free_all_chunks(free_contiguous_chunks(v, v.next[c]), c)
  ELSE IF v.prev[c] # -1 THEN free_all_chunks(free_contiguous_chunks(v, v.prev[c]), c)
  ELSE free_contiguous_chunks(v, c)

\* The boot: everything is blocked out of both region maps, then each chunk of
\* the range is put on one of them; the page table starts with every chunk in use.
RECURSIVE AllocTimes(_, _, _)
AllocTimes(t, size, n) ==
  IF n = 0 THEN t ELSE AllocTimes(alloc_first_fit(t, -1, size).table, size, n - 1)

BlockOut ==
  LET a == alloc_first_fit(initialize_heap(1, NumChunks, NumChunks), -1, FirstChunk).table
      b == AllocTimes(a, 1, Cardinality(DiscontigChunks))
      trailing == NumChunks - (LastChunk + 1)
  IN IF trailing = 0 THEN b ELSE alloc_first_fit(b, -1, trailing).table

FreeChunks(chunks) ==
  FoldLeft(LAMBDA t, c : free(t, -1, c).table, BlockOut, SetToSortSeq(chunks, <))

PopulatePages ==
  FoldLeft(LAMBDA t, c : alloc_first_fit(set_uncoalescable(t, Unit(PageOf(c))), -1, PagesInChunk).table,
           initialize_heap(Heads, NumPages, NumPages), SetToSortSeq(DiscontigChunks, <))

finalize_static_space_map ==
  [regionMap |-> FreeChunks({c \in DiscontigChunks : c < LargeBoundary}),
   largeMap |-> FreeChunks({c \in DiscontigChunks : c >= LargeBoundary}),
   pageMap |-> PopulatePages,
   available |-> Cardinality(DiscontigChunks),
   availableLarge |-> Cardinality({c \in DiscontigChunks : c >= LargeBoundary}),
   chunkSpace |-> [c \in 0 .. NumChunks - 1 |-> "none"],
   descriptor |-> [c \in 0 .. NumChunks - 1 |-> NoSpace],
   next |-> [c \in 0 .. NumChunks - 1 |-> -1],
   prev |-> [c \in 0 .. NumChunks - 1 |-> -1],
   mapped |-> {},
   sft |-> [c \in 0 .. NumChunks - 1 |-> NoSpace]]

-----------------------------------------------------------------------------
(* CommonPageResource                                                       *)

grow_discontiguous_space(v, s, n) == allocate_contiguous_chunks(v, s, n, res[s].head)

release_discontiguous_chunks(v, s, region) ==
  [vm |-> free_contiguous_chunks(v, ChunkOf(region)),
   head |-> IF region = res[s].head THEN get_next_contiguous_region(v, region) ELSE res[s].head]

release_all_chunks(v, s) ==
  IF res[s].head = Nowhere THEN v ELSE free_all_chunks(v, ChunkOf(res[s].head))

\* The mmapper, and grow_space: the SFT entries of new chunks.
MapAndGrow(v, s, c, n) ==
  [v EXCEPT !.mapped = @ \cup (c .. c + n - 1),
            !.sft = [i \in DOMAIN @ |-> IF i \in c .. c + n - 1 THEN s ELSE @[i]]]

Grant(s, page, n) ==
  /\ grants < MaxGrants
  /\ grants' = grants + 1
  /\ given' = [given EXCEPT ![s] = @ \cup {[start |-> page, pages |-> n]}]

-----------------------------------------------------------------------------
(* FreeListPageResource                                                     *)

\* Mistake: a larger region leaves its interior chunk boundaries uncoalescable.
AddRegionInPieces(t, h, u, n) ==
  FoldLeft(LAMBDA tt, i : free(tt, h, u + (i - 1) * PagesInChunk).table,
           set_uncoalescable(set_uncoalescable(t, u), u + n * PagesInChunk), [i \in 1 .. n |-> i])

\* The pages of a new region go to the list, chunk by chunk.
AddRegion(t, h, u, n) ==
  LET start == set_uncoalescable(set_uncoalescable(t, u), u + n * PagesInChunk)
      add(tt, i) == LET p == u + (i - 1) * PagesInChunk
                    IN free(IF i = 1 THEN tt ELSE clear_uncoalescable(tt, p), h, p).table
  IN FoldLeft(add, start, [i \in 1 .. n |-> i])

fl_alloc_pages(s, n) ==
  LET h == HeadOf(s)
      first == alloc_first_fit(vm.pageMap, h, n)
      chunks == required_chunks(n)
      grown == grow_discontiguous_space(vm, s, chunks)
      u == Unit(grown.region)
      again == alloc_first_fit(AddRegion(grown.vm.pageMap, h, u, chunks), h, n)
      page(unit) == unit + PageOf(FirstChunk)
  IN \/ /\ first.unit # FAILURE
        /\ vm' = [vm EXCEPT !.pageMap = first.table]
        /\ res' = [res EXCEPT ![s].onList = @ - n, ![s].committed = @ + n]
        /\ Grant(s, page(first.unit), n)
     \/ /\ first.unit = FAILURE
        /\ grown.region # Nowhere
        /\ vm' = MapAndGrow([grown.vm EXCEPT !.pageMap = again.table], s,
                            ChunkOf(page(again.unit)), chunks)
        /\ res' = [res EXCEPT ![s].head = grown.region,
                              ![s].onList = @ + chunks * PagesInChunk - n,
                              ![s].committed = @ + n]
        /\ Grant(s, page(again.unit), n)

\* All pages of a region whose last page was freed leave the list again.
free_contiguous_chunk(t, h, u, n) ==
  FoldLeft(LAMBDA tt, i : LET p == u + (i - 1) * PagesInChunk
                          IN alloc_from_unit(set_uncoalescable(tt, p), h, PagesInChunk, p),
           t, [i \in 1 .. n |-> i])

\* The region around a unit, by the uncoalescable marks at its ends.
RECURSIVE RegionStart(_, _)
RegionStart(t, u) == IF is_coalescable(t, u) THEN RegionStart(t, u - PagesInChunk) ELSE u
RECURSIVE RegionEnd(_, _)
RegionEnd(t, u) == IF u < NumPages /\ is_coalescable(t, u) THEN RegionEnd(t, u + PagesInChunk) ELSE u

\* release_free_chunks: the region to give back after a free that left a lump
\* of the given size, or Nowhere.
release_free_chunks(t, u, size) ==
  LET c == u - (u % PagesInChunk)
      start == RegionStart(t, c)
      end == RegionEnd(t, c + PagesInChunk)
  IN IF size % PagesInChunk = 0 /\ size = end - start THEN start + PageOf(FirstChunk) ELSE Nowhere

release_pages(s, lump) ==
  LET h == HeadOf(s)
      u == Unit(lump.start)
      freed == free(vm.pageMap, h, u)
      region == release_free_chunks(freed.table, u, freed.size)
      chunks == get_contiguous_region_chunks(vm, region)
      nailed == free_contiguous_chunk(freed.table, h, Unit(region), chunks)
      released == release_discontiguous_chunks([vm EXCEPT !.pageMap = nailed], s, region)
      before == [res[s] EXCEPT !.committed = @ - lump.pages, !.onList = @ + lump.pages]
  IN /\ given' = [given EXCEPT ![s] = @ \ {lump}]
     /\ IF region = Nowhere
        THEN /\ vm' = [vm EXCEPT !.pageMap = freed.table]
             /\ res' = [res EXCEPT ![s] = before]
        ELSE /\ vm' = released.vm
             /\ res' = [res EXCEPT ![s] = [before EXCEPT !.head = released.head,
                                                         !.onList = @ - chunks * PagesInChunk]]
     /\ UNCHANGED grants

-----------------------------------------------------------------------------
(* BlockPageResource::alloc_chunk                                           *)

take_chunk(s) ==
  LET grown == grow_discontiguous_space(vm, s, 1)
  IN /\ grown.region # Nowhere
     /\ vm' = MapAndGrow(grown.vm, s, ChunkOf(grown.region), 1)
     /\ res' = [res EXCEPT ![s].head = grown.region]
     /\ Grant(s, grown.region, PagesInChunk)

-----------------------------------------------------------------------------
(* MonotonePageResource                                                     *)

monotone_alloc_pages(s, n) ==
  LET r == res[s]
      grows == r.cursor + n > r.sentinel
      chunks == required_chunks(n)
      grown == grow_discontiguous_space(vm, s, chunks)
  IN \/ /\ ~grows
        /\ res' = [res EXCEPT ![s].cursor = @ + n, ![s].committed = @ + n]
        /\ Grant(s, r.cursor, n)
        /\ UNCHANGED vm
     \/ /\ grows /\ grown.region # Nowhere
        /\ vm' = MapAndGrow(grown.vm, s, ChunkOf(grown.region), chunks)
        /\ res' = [res EXCEPT ![s].head = grown.region,
                              ![s].cursor = grown.region + n,
                              ![s].sentinel = grown.region + chunks * PagesInChunk,
                              ![s].committed = @ + n]
        /\ Grant(s, grown.region, n)
     \/ /\ grows /\ grown.region = Nowhere
        /\ res' = [res EXCEPT ![s].cursor = Nowhere, ![s].sentinel = Nowhere]
        /\ UNCHANGED <<vm, given, grants>>

\* The space is empty after a collection (reset, release_pages).
monotone_reset(s) ==
  /\ given' = [given EXCEPT ![s] = {}]
  /\ IF res[s].cursor # Nowhere
     THEN /\ vm' = release_all_chunks(vm, s)
          /\ res' = [res EXCEPT ![s] = [@ EXCEPT !.cursor = Nowhere, !.sentinel = Nowhere,
                                                 !.head = Nowhere, !.committed = 0]]
     ELSE /\ res' = [res EXCEPT ![s].committed = 0]
          /\ UNCHANGED vm
  /\ UNCHANGED grants

RECURSIVE Regions(_, _)
Regions(v, region) ==
  IF region = Nowhere THEN <<>>
  ELSE <<region>> \o Regions(v, get_next_contiguous_region(v, region))
RegionSize(v, region) == get_contiguous_region_chunks(v, region) * PagesInChunk

\* iterate_allocated_regions: the pages in use, in the order of the regions.
AllocatedPages(s) ==
  LET size(r) == IF r < res[s].cursor /\ res[s].cursor < r + RegionSize(vm, r)
                 THEN res[s].cursor - r ELSE RegionSize(vm, r)
  IN FlattenSeq([i \in 1 .. Len(Regions(vm, res[s].head)) |->
                   LET r == Regions(vm, res[s].head)[i] IN [j \in 1 .. size(r) |-> r + j - 1]])

\* reset_cursor: the regions behind the one that top lies in are released.
RECURSIVE ResetCursor(_, _, _, _, _, _)
ResetCursor(v, r, s, regions, top, releasing) ==
  LET region == Head(regions)
      end == region + RegionSize(v, region)
      rest == Tail(regions)
      released == [vm |-> free_contiguous_chunks(v, ChunkOf(region)),
                   head |-> IF region = r.head THEN get_next_contiguous_region(v, region) ELSE r.head]
  IN IF regions = <<>> THEN [vm |-> v, res |-> r]
     ELSE IF top >= region /\ top < end
     THEN ResetCursor(v, [r EXCEPT !.cursor = top, !.sentinel = end, !.committed = @ + top - region],
                      s, rest, top, TRUE)
     ELSE IF releasing
     THEN ResetCursor(released.vm, [r EXCEPT !.head = released.head], s, rest, top, TRUE)
     ELSE ResetCursor(v, [r EXCEPT !.committed = @ + end - region], s, rest, top, FALSE)

\* A compaction moves n live pages of data to the front of the regions and sets
\* the cursor behind them.  Something survives every collection.
compact(s, n) ==
  LET regions == Regions(vm, res[s].head)
      live == SubSeq(AllocatedPages(s), 1, n)
      top == Last(live) + 1
      after == ResetCursor(vm, [res[s] EXCEPT !.committed = 0], s, regions, top, FALSE)
  IN /\ n \in 1 .. Min({MapThenSumSet(LAMBDA g : g.pages, given[s]), Len(AllocatedPages(s))})
     /\ FillsRegions \/ \A i \in 1 .. Len(regions) : top # regions[i] + RegionSize(vm, regions[i])
     /\ vm' = after.vm
     /\ res' = [res EXCEPT ![s] = after.res]
     /\ given' = [given EXCEPT ![s] = {[start |-> live[i], pages |-> 1] : i \in 1 .. n}]
     /\ UNCHANGED grants

-----------------------------------------------------------------------------
PagesInit ==
  /\ vm = finalize_static_space_map
  /\ res = [s \in PageSpaces |-> [head |-> Nowhere, committed |-> 0, onList |-> 0,
                                  cursor |-> Nowhere, sentinel |-> Nowhere]]
  /\ given = [s \in PageSpaces |-> {}]
  /\ grants = 0

PagesNext ==
  \/ \E s \in FreeListSpaces, n \in PageRequests : fl_alloc_pages(s, n)
  \/ \E s \in FreeListSpaces : \E lump \in given[s] : release_pages(s, lump)
  \/ \E s \in BlockSpaces : take_chunk(s)
  \/ \E s \in MonotoneSpaces, n \in PageRequests : monotone_alloc_pages(s, n)
  \/ \E s \in MonotoneSpaces : monotone_reset(s)
  \/ \E s \in MonotoneSpaces, n \in 1 .. NumPages : compact(s, n)

-----------------------------------------------------------------------------
PagesHeld(s) == UNION {g.start .. g.start + g.pages - 1 : g \in given[s]}
ChunksOf(s) == {c \in DiscontigChunks : vm.descriptor[c] = s}
RegionsOf(s) == ToSet(Regions(vm, res[s].head))

\* No page has two users, whatever was split, coalesced, given back and taken
\* again by another space: every page in use lies in a mapped chunk that the
\* descriptor map and the SFT give to the space, and the pages of a space with
\* free lists are either in use or on its own list.
PagesHaveOneUser ==
  /\ \A s \in PageSpaces :
       /\ \A g, k \in given[s] : g # k => g.start + g.pages =< k.start \/ k.start + k.pages =< g.start
       /\ \A p \in PagesHeld(s) : /\ ChunkOf(p) \in ChunksOf(s) \cap vm.mapped
                                 /\ vm.sft[ChunkOf(p)] = s
  /\ \A s \in FreeListSpaces :
       LET lumps == Linked(vm.pageMap, HeadOf(s), NumPages)
       IN {Unit(p) : p \in UNION {PagesOf(c, 1) : c \in ChunksOf(s)}} =
            {Unit(p) : p \in PagesHeld(s)}
              \cup UNION {u .. get_right(vm.pageMap, u) - 1 : u \in lumps}

\* The free lists and their counters are exact, and a space that frees the last
\* page of a region gives its chunks back to the others (release_free_chunks):
\* the two chunk maps and the page table are consistent, the counters match
\* them, the regions of a space are linked from its head and no region of a
\* space with free lists is empty.
PageListsAreExact ==
  /\ ConsistentTable(vm.regionMap, {-1}, NumChunks)
  /\ ConsistentTable(vm.largeMap, {-1}, NumChunks)
  /\ ConsistentTable(vm.pageMap, {-i : i \in 1 .. Heads}, NumPages)
  /\ vm.available = Cardinality(ChunksOf(NoSpace))
  /\ vm.availableLarge = Cardinality({c \in ChunksOf(NoSpace) : c >= LargeBoundary})
  /\ \A s \in PageSpaces :
       ChunksOf(s) = UNION {ChunkOf(r) .. ChunkOf(r) + get_contiguous_region_chunks(vm, r) - 1 :
                              r \in RegionsOf(s)}
  /\ \A s \in FreeListSpaces :
       /\ res[s].onList = MapThenSumSet(LAMBDA u : get_size(vm.pageMap, u),
                                        Linked(vm.pageMap, HeadOf(s), NumPages))
       /\ res[s].committed = Cardinality(PagesHeld(s))
       /\ \A r \in RegionsOf(s) :
            PagesHeld(s) \cap PagesOf(ChunkOf(r), get_contiguous_region_chunks(vm, r)) # {}

\* reset releases "all pages associated with this page resource": a monotone
\* space that is reset owns no chunk afterwards.
ResetReleasesAll ==
  [][\A s \in MonotoneSpaces : monotone_reset(s) => \A c \in DiscontigChunks : vm'.descriptor[c] # s]_pageVars

=============================================================================

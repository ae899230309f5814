----------------------------- MODULE ImmixBlocks -----------------------------
(***************************************************************************)
(* How LXR's mutators share the blocks of the Immix space.                 *)
(*                                                                         *)
(* The page resource (BlockPageResource) keeps no list of free blocks: it  *)
(* scans the block metadata with shared cursors.  A mutator takes blocks   *)
(* into a private list by writing itself into their owner word, steals     *)
(* from the private lists of others, and sets the in-use bit of the block  *)
(* it allocates into.  A block used for allocation in the current phase is *)
(* recognised by its phase epoch, one byte that wraps around.  A block     *)
(* filled by a mutator stays Unallocated until an object in it survives a  *)
(* pause, so releasing the nursery takes no work per block.                *)
(*                                                                         *)
(* The build is the default one (lxr_no_evac, lxr_stw): nothing is copied, *)
(* and mature blocks are swept inside the pause.                           *)
(***************************************************************************)
EXTENDS Naturals, Sequences, SequencesExt, FiniteSets, FiniteSetsExt

CONSTANTS
  BlockMutators,  \* mutator threads with an ImmixAllocator
  NoBlock, NoOwner,
  BlocksInChunk,
  MaxChunks,      \* bound on the chunks of the space
  AllocCount,     \* blocks asked for by acquire_block, 32 in the code
  StealCount,     \* blocks asked for when stealing, 16 in the code
  HeapBlocks,     \* the heap size at which polling asks for a collection
  LastEpoch,      \* the epoch after which the counter restarts at 1, 254 in the code
  MaxBlockPauses, \* bound on the pauses
  StopsTogether   \* the binding visits the mutators only when all have stopped

VARIABLES
  numChunks,   \* chunks.len()
  allocated,   \* blocks whose state is not Unallocated
  epoch,       \* PHASE_EPOCH of each block
  owner,       \* BLOCK_OWNER
  inUse,       \* blocks whose BLOCK_IN_USE bit is set
  promoted,    \* blocks whose NURSERY_PROMOTION_STATE is set
  cursors,     \* the four shared cursors
  count,       \* num_nursery_blocks, in_place_promoted_nursery_blocks, committed pages
  local,       \* local[m][kind]: local_clean_blocks, local_reuse_blocks
  next,        \* next[m][kind]: the cursor into them
  holds,       \* holds[m]: block and large_block
  op,          \* op[m]: where m is in acquire_block
  globalEpoch, \* GLOBAL_PHASE_EPOCH
  blockPhase,  \* "mutators", "incs" or "decs"
  stopped,     \* mutators stopped for the pause
  blockPauses,
  mature,      \* blocks with an object whose count is not zero
  handed       \* handed[b]: how often b was handed to an allocator in this mutator phase

blockVars == <<numChunks, allocated, epoch, owner, inUse, promoted, cursors, count, local, next,
               holds, op, globalEpoch, blockPhase, stopped, blockPauses, mature, handed>>

AllBlocks == 0 .. MaxChunks * BlocksInChunk - 1
MaxIndex == numChunks * BlocksInChunk
Blocks == 0 .. MaxIndex - 1
Run == [at |-> "run"]
Holds(m) == {holds[m].small, holds[m].large} \ {NoBlock}

BlocksInit ==
  /\ numChunks = 0
  /\ allocated = {}
  /\ epoch = [b \in AllBlocks |-> 0]
  /\ owner = [b \in AllBlocks |-> NoOwner]
  /\ inUse = {}
  /\ promoted = {}
  /\ cursors = [clean |-> 0, cleanSteal |-> 0, reuse |-> 0, reuseSteal |-> 0]
  /\ count = [nursery |-> 0, promoted |-> 0, committed |-> 0]
  /\ local = [m \in BlockMutators |-> [clean |-> <<>>, reuse |-> <<>>]]
  /\ next = [m \in BlockMutators |-> [clean |-> 1, reuse |-> 1]]
  /\ holds = [m \in BlockMutators |-> [small |-> NoBlock, large |-> NoBlock]]
  /\ op = [m \in BlockMutators |-> Run]
  /\ globalEpoch = 1
  /\ blockPhase = "mutators"
  /\ stopped = {}
  /\ blockPauses = 0
  /\ mature = {}
  /\ handed = [b \in AllBlocks |-> 0]

-----------------------------------------------------------------------------
(* Block metadata                                                           *)

in_mutator_phase == globalEpoch % 2 = 1

is_nursery_or_reusing(b) ==
  epoch[b] = IF in_mutator_phase THEN globalEpoch ELSE globalEpoch - 1

is_nursery(b) == b \notin allocated /\ is_nursery_or_reusing(b)
is_reusing(b) == b \in allocated /\ is_nursery_or_reusing(b)

block_is_available(b, kind) ==
  /\ owner[b] = NoOwner
  /\ IF kind = "clean" THEN b \notin allocated ELSE b \in allocated /\ ~is_reusing(b)

\* Mistake: a block in use for allocation in this phase may be stolen.
block_is_stealableInUse(b, kind, m) ==
  /\ owner[b] \notin {NoOwner, m}
  /\ IF kind = "clean" THEN b \notin allocated ELSE b \in allocated

block_is_stealable(b, kind, m) ==
  /\ owner[b] \notin {NoOwner, m}
  /\ IF kind = "clean" THEN b \notin allocated /\ ~is_nursery(b)
                       ELSE b \in allocated /\ ~is_reusing(b)

\* The test try_acquire_block makes before and after it locks a local block.
is_mine(b, kind, m) ==
  /\ owner[b] = m
  /\ IF kind = "clean" THEN b \notin allocated /\ ~is_nursery(b) ELSE b \in allocated

-----------------------------------------------------------------------------
(* acquire_block: the local list, then the page resource                    *)

Search(kind, slot) == [at |-> "search", kind |-> kind, slot |-> slot]
Goto(m, o) == op' = [op EXCEPT ![m] = o]

\* An exhausted bump pointer: small objects look for holes first (alloc_slow_hot),
\* larger ones for a clean block (overflow_alloc).
alloc(m) ==
  /\ op[m] = Run /\ m \notin stopped /\ blockPhase = "mutators"
  /\ \/ Goto(m, Search("reuse", "small"))
     \/ Goto(m, [at |-> "poll", slot |-> "large"])
  /\ UNCHANGED <<numChunks, allocated, epoch, owner, inUse, promoted, cursors, count, local, next,
                 holds, globalEpoch, blockPhase, stopped, blockPauses, mature, handed>>

\* The pages of a clean block are committed before a block is looked for; a
\* full heap sends the thread to wait for a collection.
get_clean_block_logically(m) ==
  /\ op[m].at = "poll"
  /\ \/ /\ count.committed < HeapBlocks
        /\ count' = [count EXCEPT !.committed = @ + 1]
        /\ Goto(m, Search("clean", op[m].slot))
     \/ /\ count.committed >= HeapBlocks
        /\ Goto(m, Run)
        /\ UNCHANGED count
  /\ UNCHANGED <<numChunks, allocated, epoch, owner, inUse, promoted, cursors, local, next,
                 holds, globalEpoch, blockPhase, stopped, blockPauses, mature, handed>>

try_acquire_block(m) ==
  /\ op[m].at = "search"
  /\ LET kind == op[m].kind
         i == next[m][kind]
         b == local[m][kind][i]
     IN \/ /\ i > Len(local[m][kind])
           /\ Goto(m, [op[m] EXCEPT !.at = "acquire"])
           /\ UNCHANGED next
        \/ /\ i =< Len(local[m][kind])
           /\ next' = [next EXCEPT ![m][kind] = i + 1]
           /\ IF is_mine(b, kind, m)
              THEN Goto(m, [at |-> "lock", why |-> "take", b |-> b, back |-> op[m]])
              ELSE UNCHANGED op
  /\ UNCHANGED <<numChunks, allocated, epoch, owner, inUse, promoted, cursors, count, local,
                 holds, globalEpoch, blockPhase, stopped, blockPauses, mature, handed>>

\* Where a scan stops: after the n-th block that qualifies, or at the end.
ScanUp(n, qualifies) ==
  IF Cardinality(qualifies) >= n
  THEN 1 + CHOOSE i \in qualifies : Cardinality({j \in qualifies : j =< i}) = n
  ELSE MaxIndex
ScanDown(n, qualifies) ==
  IF Cardinality(qualifies) >= n
  THEN CHOOSE i \in qualifies : Cardinality({j \in qualifies : j >= i}) = n
  ELSE 0

\* A thread claims a range of indexes by moving the shared cursor past it.
ClaimFree(m, kind) ==
  /\ op[m].at = "acquire" /\ op[m].kind = kind
  /\ LET c == cursors[kind]
         qualifies == {i \in c .. MaxIndex - 1 : block_is_available(i, kind)}
         new == ScanUp(AllocCount, qualifies)
     IN \/ /\ c < MaxIndex
           /\ cursors' = [cursors EXCEPT ![kind] = new]
           /\ IF qualifies # {}
              THEN Goto(m, [at |-> "claim", why |-> "own", b |-> c, end |-> new, back |-> op[m]])
              ELSE Goto(m, [op[m] EXCEPT !.at = "steal"])
        \/ /\ c >= MaxIndex
           /\ Goto(m, [op[m] EXCEPT !.at = "steal"])
           /\ UNCHANGED cursors
  /\ UNCHANGED <<numChunks, allocated, epoch, owner, inUse, promoted, count, local, next,
                 holds, globalEpoch, blockPhase, stopped, blockPauses, mature, handed>>

acquire_clean_blocks_fast(m) == ClaimFree(m, "clean")
acquire_reusable_blocks_fast(m) == ClaimFree(m, "reuse")

\* The same from the other end, for blocks of other mutators.  Without a block
\* to reuse the allocation goes on with a clean block.
ClaimOwned(m, kind) ==
  /\ op[m].at = "steal" /\ op[m].kind = kind
  /\ LET which == IF kind = "clean" THEN "cleanSteal" ELSE "reuseSteal"
         c == cursors[which]
         qualifies == {i \in 0 .. c - 1 : block_is_stealable(i, kind, m) /\ i \notin inUse}
         new == ScanDown(StealCount, qualifies)
     IN /\ cursors' = [cursors EXCEPT ![which] = new]
        /\ Goto(m, IF c # 0 /\ qualifies # {}
                   THEN [at |-> "claim", why |-> "steal", b |-> new, end |-> c, back |-> op[m]]
                   ELSE IF kind = "clean" THEN [op[m] EXCEPT !.at = "new chunk"]
                                          ELSE [at |-> "poll", slot |-> "small"])
  /\ UNCHANGED <<numChunks, allocated, epoch, owner, inUse, promoted, count, local, next,
                 holds, globalEpoch, blockPhase, stopped, blockPauses, mature, handed>>

steal_clean_blocks(m) == ClaimOwned(m, "clean")
steal_reusable_blocks(m) == ClaimOwned(m, "reuse")

\* Slow path, under the write lock of the chunk list: unless another thread has
\* added a chunk meanwhile, a new one is mapped and its first blocks are taken.
alloc_chunk(m) ==
  /\ op[m].at = "new chunk"
  /\ \/ /\ cursors.clean < MaxIndex
        /\ Goto(m, [op[m] EXCEPT !.at = "acquire"])
        /\ UNCHANGED <<numChunks, owner, cursors, local>>
     \/ /\ cursors.clean >= MaxIndex
        /\ numChunks < MaxChunks
        /\ LET n == Min({AllocCount, BlocksInChunk})
               taken == [i \in 1 .. n |-> MaxIndex + i - 1]
           IN /\ numChunks' = numChunks + 1
              /\ owner' = [b \in AllBlocks |-> IF b \in Range(taken) THEN m ELSE owner[b]]
              /\ local' = [local EXCEPT ![m].clean = @ \o taken]
              /\ cursors' = [cursors EXCEPT !.clean = MaxIndex + n]
        /\ Goto(m, [op[m] EXCEPT !.at = "search"])
  /\ UNCHANGED <<allocated, epoch, inUse, promoted, count, next, holds, globalEpoch, blockPhase,
                 stopped, blockPauses, mature, handed>>

-----------------------------------------------------------------------------
(* try_lock_with_condition: test, set the in-use bit, test again            *)

Condition(m, o) ==
  CASE o.why = "take"  -> is_mine(o.b, o.back.kind, m)
    [] o.why = "own"   -> block_is_available(o.b, o.back.kind)
    [] o.why = "steal" -> block_is_stealable(o.b, o.back.kind, m)

\* What follows once a block has been dealt with.
Onward(o) == IF o.why = "take" THEN o.back ELSE [o EXCEPT !.at = "claim", !.b = @ + 1]

\* The next block of the claimed range.
Claim(m) ==
  /\ op[m].at = "claim"
  /\ Goto(m, IF op[m].b = op[m].end THEN [op[m].back EXCEPT !.at = "search"]
             ELSE IF Condition(m, op[m]) /\ (op[m].why = "steal" => op[m].b \notin inUse)
             THEN [op[m] EXCEPT !.at = "lock"]
             ELSE Onward(op[m]))
  /\ UNCHANGED <<numChunks, allocated, epoch, owner, inUse, promoted, cursors, count, local, next,
                 holds, globalEpoch, blockPhase, stopped, blockPauses, mature, handed>>

try_lock(m) ==
  /\ op[m].at = "lock"
  /\ \/ /\ op[m].b \in inUse
        /\ Goto(m, Onward(op[m]))
        /\ UNCHANGED inUse
     \/ /\ op[m].b \notin inUse
        /\ inUse' = inUse \cup {op[m].b}
        /\ Goto(m, [op[m] EXCEPT !.at = "locked"])
  /\ UNCHANGED <<numChunks, allocated, epoch, owner, promoted, cursors, count, local, next,
                 holds, globalEpoch, blockPhase, stopped, blockPauses, mature, handed>>

\* The block changes hands.
set_owner(m, why) ==
  /\ op[m].at = "locked" /\ op[m].why = why
  /\ IF Condition(m, op[m])
     THEN /\ owner' = [owner EXCEPT ![op[m].b] = m]
          /\ local' = [local EXCEPT ![m][op[m].back.kind] = Append(@, op[m].b)]
     ELSE UNCHANGED <<owner, local>>
  /\ inUse' = inUse \ {op[m].b}
  /\ Goto(m, Onward(op[m]))
  /\ UNCHANGED <<numChunks, allocated, epoch, promoted, cursors, count, next, holds, globalEpoch,
                 blockPhase, stopped, blockPauses, mature, handed>>

append_to_buf(m) == set_owner(m, "own")
attempt_to_steal(m) == set_owner(m, "steal")

\* Mistake: a block that is taken is not given the current epoch.
block_initKeepsEpoch(b, kind) ==
  /\ UNCHANGED epoch
  /\ promoted' = promoted \ {b}
  /\ count' = [count EXCEPT !.nursery = @ + IF kind = "clean" THEN 1 ELSE 0]

\* initialize_new_block and Block::init.
block_init(b, kind) ==
  /\ epoch' = [epoch EXCEPT ![b] = globalEpoch]
  /\ promoted' = promoted \ {b}
  /\ count' = [count EXCEPT !.nursery = @ + IF kind = "clean" THEN 1 ELSE 0]

\* The block becomes the allocating block, and the previous one is retired.
set_allocating_block(m) ==
  /\ op[m].at = "locked" /\ op[m].why = "take"
  /\ LET b == op[m].b
         slot == op[m].back.slot
     IN IF Condition(m, op[m])
        THEN /\ block_init(b, op[m].back.kind)
             /\ holds' = [holds EXCEPT ![m][slot] = b]
             /\ inUse' = inUse \ {holds[m][slot]}
             /\ handed' = [handed EXCEPT ![b] = @ + 1]
             /\ Goto(m, Run)
        ELSE /\ inUse' = inUse \ {b}
             /\ Goto(m, Onward(op[m]))
             /\ UNCHANGED <<epoch, promoted, count, holds, handed>>
  /\ UNCHANGED <<numChunks, allocated, owner, cursors, local, next, globalEpoch, blockPhase,
                 stopped, blockPauses, mature>>

-----------------------------------------------------------------------------
(* The pause                                                                *)

\* flush and prepare of a stopped mutator: both blocks are retired and the
\* local lists keep what is still the mutator's (ImmixAllocator::reset).
ResetAllocators(ms) ==
  /\ blockPhase = "mutators"
  /\ blockPauses < MaxBlockPauses
  /\ ms \cap stopped = {} /\ \A m \in ms : op[m] = Run
  /\ inUse' = inUse \ UNION {Holds(m) : m \in ms}
  /\ holds' = [m \in BlockMutators |->
                 IF m \in ms THEN [small |-> NoBlock, large |-> NoBlock] ELSE holds[m]]
  /\ local' = [m \in BlockMutators |->
                 IF m \in ms
                 THEN [clean |-> SelectSeq(local[m].clean, LAMBDA b : b \notin allocated /\ owner[b] = m),
                       reuse |-> SelectSeq(local[m].reuse, LAMBDA b : b \in allocated /\ owner[b] = m)]
                 ELSE local[m]]
  /\ next' = [m \in BlockMutators |-> IF m \in ms THEN [clean |-> 1, reuse |-> 1] ELSE next[m]]
  /\ stopped' = stopped \cup ms
  /\ UNCHANGED <<numChunks, allocated, epoch, owner, promoted, cursors, count, op, globalEpoch,
                 blockPhase, blockPauses, mature, handed>>

prepare_gc == cursors' = [cursors EXCEPT !.clean = 0, !.reuse = 0]

\* The epoch moves to the GC phase (rc_eager_prepare).
gc_pause_start ==
  /\ blockPhase = "mutators" /\ stopped = BlockMutators
  /\ blockPhase' = "incs"
  /\ blockPauses' = blockPauses + 1
  /\ globalEpoch' = globalEpoch + 1
  /\ prepare_gc
  /\ UNCHANGED <<numChunks, allocated, epoch, owner, inUse, promoted, count, local, next, holds,
                 op, stopped, mature, handed>>

\* ProcessIncs finds a live young object; the first one in a nursery block
\* promotes the block in place.
set_as_in_place_promoted(b) ==
  /\ blockPhase = "incs" /\ handed[b] > 0
  /\ mature' = mature \cup {b}
  /\ IF is_nursery(b)
     THEN /\ promoted' = promoted \cup {b}
          /\ allocated' = allocated \cup {b}
          /\ epoch' = [epoch EXCEPT ![b] = globalEpoch]
          /\ count' = [count EXCEPT !.promoted = @ + 1]
     ELSE UNCHANGED <<promoted, allocated, epoch, count>>
  /\ UNCHANGED <<numChunks, owner, inUse, cursors, local, next, holds, op, globalEpoch, blockPhase,
                 stopped, blockPauses, handed>>

\* Mistake: the epochs of the blocks survive the restart of the counter.
update_global_phase_epochKeepsBlocks ==
  /\ globalEpoch' = IF globalEpoch = LastEpoch THEN 1 ELSE globalEpoch + 1
  /\ UNCHANGED epoch

reset_nursery_state == epoch' = [b \in AllBlocks |-> IF b \in Blocks THEN 0 ELSE epoch[b]]

update_global_phase_epoch ==
  /\ globalEpoch' = IF globalEpoch = LastEpoch THEN 1 ELSE globalEpoch + 1
  /\ IF globalEpoch = LastEpoch THEN reset_nursery_state ELSE UNCHANGED epoch

\* Mistake: the blocks promoted in place are released as well.
sweep_nursery_blocksAll ==
  count' = [nursery |-> 0, promoted |-> 0, committed |-> count.committed - count.nursery]

sweep_nursery_blocks ==
  count' = [nursery |-> 0, promoted |-> 0,
            committed |-> count.committed - (count.nursery - count.promoted)]

pr_reset ==
  cursors' = [clean |-> 0, cleanSteal |-> MaxIndex, reuse |-> 0, reuseSteal |-> MaxIndex]

release_rc ==
  /\ blockPhase = "incs"
  /\ blockPhase' = "decs"
  /\ sweep_nursery_blocks
  /\ pr_reset
  /\ update_global_phase_epoch
  /\ handed' = [b \in AllBlocks |-> 0]
  /\ UNCHANGED <<numChunks, allocated, owner, inUse, promoted, local, next, holds, op, stopped,
                 blockPauses, mature>>

\* Decrements kill the last object of a mature block, and the sweep frees the
\* block unless it is in use for allocation (lock_skip_reusing_or_unallocated,
\* attempt_dealloc, deinit).
rc_sweep_mature(b) ==
  /\ blockPhase = "decs"
  /\ b \in mature
  /\ mature' = mature \ {b}
  /\ IF b \in allocated /\ ~(in_mutator_phase /\ is_reusing(b))
     THEN /\ b \notin inUse
          /\ allocated' = allocated \ {b}
          /\ promoted' = promoted \ {b}
          /\ owner' = [owner EXCEPT ![b] = NoOwner]
          /\ count' = [count EXCEPT !.committed = @ - 1]
     ELSE UNCHANGED <<allocated, promoted, owner, count>>
  /\ UNCHANGED <<numChunks, epoch, inUse, cursors, local, next, holds, op, globalEpoch, blockPhase,
                 stopped, blockPauses, handed>>

ResumeMutators ==
  /\ blockPhase = "decs"
  /\ blockPhase' = "mutators"
  /\ stopped' = {}
  /\ UNCHANGED <<numChunks, allocated, epoch, owner, inUse, promoted, cursors, count, local, next,
                 holds, op, globalEpoch, blockPauses, mature, handed>>

Acquire(m) ==
  \/ alloc(m) \/ get_clean_block_logically(m) \/ try_acquire_block(m)
  \/ acquire_clean_blocks_fast(m) \/ acquire_reusable_blocks_fast(m)
  \/ steal_clean_blocks(m) \/ steal_reusable_blocks(m) \/ alloc_chunk(m)
  \/ Claim(m) \/ try_lock(m) \/ append_to_buf(m) \/ attempt_to_steal(m)
  \/ set_allocating_block(m)

BlocksNext ==
  \/ \E m \in BlockMutators : Acquire(m)
  \/ \E ms \in IF StopsTogether THEN {BlockMutators} ELSE {{m} : m \in BlockMutators} :
       ResetAllocators(ms)
  \/ gc_pause_start
  \/ \E b \in Blocks : set_as_in_place_promoted(b) \/ rc_sweep_mature(b)
  \/ release_rc \/ ResumeMutators

-----------------------------------------------------------------------------
\* A block is handed to one allocator at most once in a mutator phase, whoever
\* owned it, stole it or raced for it: a second bump allocation over its holes
\* would overwrite the objects of the first, whose counts are still zero.  The
\* in-use bit is set exactly for the blocks being allocated into or changing
\* hands, so the sweep never spins on a bit nobody will clear; and a block with
\* counted objects is never free for allocation as a clean block.
BlocksUsedOnce ==
  /\ \A b \in AllBlocks : handed[b] =< 1
  /\ \A m, n \in BlockMutators : m # n => Holds(m) \cap Holds(n) = {}
  /\ inUse = UNION {Holds(m) : m \in BlockMutators}
               \cup {op[m].b : m \in {n \in BlockMutators : op[n].at = "locked"}}
  /\ mature \subseteq allocated

\* Between two pauses what the space keeps about its blocks agrees with them.
\* The one-byte epoch tells exactly the blocks allocated into in the current
\* mutator phase, also after the counter has restarted
\* (update_global_phase_epoch): otherwise a free block would never be reused, a
\* dead one never swept, or a filled one handed out again.  The committed pages
\* are those of the blocks with mature objects and of the blocks filled since
\* the last pause, plus the pages taken for a block not found yet, although no
\* list of nursery blocks exists: the release only subtracts two counters
\* (sweep_nursery_blocks).
BlockAccountsAgree ==
  blockPhase # "incs" =>
    /\ \A b \in Blocks : is_nursery_or_reusing(b) <=> handed[b] > 0
    /\ count.committed = Cardinality(allocated \cup {b \in Blocks : is_nursery(b)})
                          + Cardinality({m \in BlockMutators :
                              \/ op[m].at \in {"search", "acquire", "steal", "new chunk"} /\ op[m].kind = "clean"
                              \/ op[m].at \in {"claim", "lock", "locked"} /\ op[m].back.kind = "clean"})

=============================================================================

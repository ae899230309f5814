----------------------------- MODULE ChunkTable -----------------------------
(***************************************************************************)
(* The chunk map of the Immix space: a byte for each chunk and the range   *)
(* of chunks ever used.  Threads that take a clean block record its chunk  *)
(* with a plain load and store of the byte and a locked update of the      *)
(* range; a collection cuts the range into sweep packets, the last of      *)
(* which flushes the page resource.                                        *)
(***************************************************************************)
EXTENDS Integers, FiniteSets, FiniteSetsExt

CONSTANTS
  ChunkThreads,     \* threads that take clean blocks
  NumMapChunks,     \* chunks of the space: 1 .. NumMapChunks
  BlocksPerMapChunk,
  TaskBins,         \* num_workers * 8
  EmptyMaps,        \* whether a collection may come before the first block
  MaxBlocksTaken,   \* bound on the blocks taken
  MaxMapPauses      \* bound on the collections

ASSUME ChunksAssumption ==
  /\ NumMapChunks \in Nat /\ BlocksPerMapChunk \in Nat /\ TaskBins \in Nat \ {0}
  /\ EmptyMaps \in BOOLEAN

VARIABLES
  chunkMap,     \* [alloc: the chunks whose byte is Allocated, start, end: chunk_range]
  setters,      \* setters[t]: where thread t is in ChunkMap::set, and the chunk
  blocksIn,     \* blocksIn[c]: blocks of the chunk in use
  sweepTasks,   \* SweepChunk packets to run: sets of consecutive chunks
  epilogue,     \* FlushPageResource: [counter, flushes]
  sweepWorld    \* [phase, pauses, taken, panicked, unswept: chunks with blocks at the stop]

chunkVars == <<chunkMap, setters, blocksIn, sweepTasks, epilogue, sweepWorld>>

MapChunks == 1..NumMapChunks
ZERO == 0
NotSetting == [pc |-> "idle", chunk |-> ZERO]

\* ChunkMap::new: no byte set, and the range from chunk zero to chunk zero.
ChunksInit ==
  /\ chunkMap = [alloc |-> {}, start |-> ZERO, end |-> ZERO]
  /\ setters = [t \in ChunkThreads |-> NotSetting]
  /\ blocksIn = [c \in MapChunks |-> 0]
  /\ sweepTasks = {} /\ epilogue = [counter |-> 0, flushes |-> 0]
  /\ sweepWorld = [phase |-> "mutators", pauses |-> 0, taken |-> 0, panicked |-> FALSE,
                   unswept |-> {}]

-------------------------------------------------------------------------------
\* A clean block of some chunk is initialised; its chunk is recorded next.
initialize_new_block(t) ==
  /\ sweepWorld.phase = "mutators" /\ setters[t].pc = "idle"
  /\ sweepWorld.taken < MaxBlocksTaken
  /\ \E c \in MapChunks :
       /\ blocksIn[c] < BlocksPerMapChunk
       /\ blocksIn' = [blocksIn EXCEPT ![c] = @ + 1]
       /\ setters' = [setters EXCEPT ![t] = [pc |-> "get", chunk |-> c]]
  /\ sweepWorld' = [sweepWorld EXCEPT !.taken = @ + 1]
  /\ UNCHANGED <<chunkMap, sweepTasks, epilogue>>

\* ChunkMap::get of the chunk: nothing is left to do if it is Allocated.
SetReadsByte(t) ==
  /\ setters[t].pc = "get"
  /\ setters' = [setters EXCEPT ![t] =
                   IF @.chunk \in chunkMap.alloc THEN NotSetting ELSE [@ EXCEPT !.pc = "store"]]
  /\ UNCHANGED <<chunkMap, blocksIn, sweepTasks, epilogue, sweepWorld>>

SetStoresByte(t) ==
  /\ setters[t].pc = "store"
  /\ chunkMap' = [chunkMap EXCEPT !.alloc = @ \cup {setters[t].chunk}]
  /\ setters' = [setters EXCEPT ![t].pc = "range"]
  /\ UNCHANGED <<blocksIn, sweepTasks, epilogue, sweepWorld>>

\* Mistake: the end of the range is the chunk itself.
ExpandedShort(c) ==
  IF chunkMap.start = ZERO THEN [chunkMap EXCEPT !.start = c, !.end = c + 1]
  ELSE IF c < chunkMap.start THEN [chunkMap EXCEPT !.start = c]
  ELSE IF chunkMap.end <= c THEN [chunkMap EXCEPT !.end = c]
  ELSE chunkMap

\* The range grown to cover chunk c.
Expanded(c) ==
  IF chunkMap.start = ZERO THEN [chunkMap EXCEPT !.start = c, !.end = c + 1]
  ELSE IF c < chunkMap.start THEN [chunkMap EXCEPT !.start = c]
  ELSE IF chunkMap.end <= c THEN [chunkMap EXCEPT !.end = c + 1]
  ELSE chunkMap

SetExpandsRange(t) ==
  /\ setters[t].pc = "range"
  /\ chunkMap' = Expanded(setters[t].chunk)
  /\ setters' = [setters EXCEPT ![t] = NotSetting]
  /\ UNCHANGED <<blocksIn, sweepTasks, epilogue, sweepWorld>>

-------------------------------------------------------------------------------
\* RegionIterator: from the start of the range up to its end.
all_chunks == chunkMap.start..(chunkMap.end - 1)

\* One packet for each allocated chunk (the mark-sweep space).
generate_tasks == {{c} : c \in all_chunks \cap chunkMap.alloc}

\* The chunks walked when objects are enumerated.
enumerate_blocks_from_chunk_map == {c \in all_chunks : c \in chunkMap.alloc /\ blocksIn[c] > 0}

\* The range cut into at most TaskBins pieces of equal size, the last one
\* shorter; the pieces may hold chunks that are free.
BinSize == (chunkMap.end - chunkMap.start + TaskBins - 1) \div TaskBins

BinStart(i) == chunkMap.start + i * BinSize
Bins == {i \in 0..(chunkMap.end - chunkMap.start - 1) : BinStart(i) < chunkMap.end}

generate_tasks_batched == {BinStart(i)..(Min({chunkMap.end, BinStart(i + 1)}) - 1) : i \in Bins}

\* The space's release: every mutator is stopped; the walk over the bins
\* panics if their size is zero.
generate_sweep_tasks ==
  /\ sweepWorld.phase = "mutators" /\ ~ sweepWorld.panicked
  /\ sweepWorld.pauses < MaxMapPauses
  /\ EmptyMaps \/ sweepWorld.taken > 0
  /\ \A t \in ChunkThreads : setters[t].pc = "idle"
  /\ IF BinSize = 0
     THEN /\ sweepWorld' = [sweepWorld EXCEPT !.panicked = TRUE]
          /\ UNCHANGED <<sweepTasks, epilogue>>
     ELSE /\ sweepTasks' = generate_tasks_batched
          /\ epilogue' = [counter |-> Cardinality(generate_tasks_batched), flushes |-> 0]
          /\ sweepWorld' = [sweepWorld EXCEPT !.phase = "sweep", !.pauses = @ + 1,
                              !.unswept = {c \in MapChunks : blocksIn[c] > 0}]
  /\ UNCHANGED <<chunkMap, setters, blocksIn>>

\* Mistake: a chunk is freed as soon as one of its blocks is.
FreedChunksEarly(swept, left) == {c \in swept : left[c] < blocksIn[c]}

\* Chunks of a packet left without a block become free; the range stays.
FreedChunks(swept, left) == {c \in swept : left[c] = 0}

\* SweepChunk: some blocks of each allocated chunk are found dead.  The packet
\* that finishes last flushes the page resource.
SweepChunks(task) ==
  LET swept == task \cap chunkMap.alloc
  IN  \E left \in [MapChunks -> 0..BlocksPerMapChunk] :
        /\ \A c \in MapChunks : IF c \in swept THEN left[c] <= blocksIn[c] ELSE left[c] = blocksIn[c]
        /\ blocksIn' = left
        /\ chunkMap' = [chunkMap EXCEPT !.alloc = @ \ FreedChunks(swept, left)]
        /\ sweepTasks' = sweepTasks \ {task}
        /\ epilogue' = [counter |-> epilogue.counter - 1,
                        flushes |-> epilogue.flushes + (IF epilogue.counter = 1 THEN 1 ELSE 0)]
        /\ sweepWorld' = [sweepWorld EXCEPT !.unswept = @ \ swept]
        /\ UNCHANGED setters

ResumeAllocation ==
  /\ sweepWorld.phase = "sweep" /\ sweepTasks = {}
  /\ sweepWorld' = [sweepWorld EXCEPT !.phase = "mutators"]
  /\ UNCHANGED <<chunkMap, setters, blocksIn, sweepTasks, epilogue>>

ChunksNext ==
  \/ \E t \in ChunkThreads : initialize_new_block(t) \/ SetReadsByte(t) \/ SetStoresByte(t)
                             \/ SetExpandsRange(t)
  \/ generate_sweep_tasks
  \/ \E task \in sweepTasks : SweepChunks(task)
  \/ ResumeAllocation

ChunksSpec == ChunksInit /\ [][ChunksNext]_chunkVars

-------------------------------------------------------------------------------
\* However the plain accesses of ChunkMap::set interleave, every chunk that
\* holds blocks when a collection starts is swept by exactly one packet
\* (generate_sweep_tasks), and by the time the mutators resume by all of them;
\* packets do not overlap; the page resource is flushed once, after the last
\* packet (FlushPageResource); between collections, once no thread is inside
\* set, an enumeration visits exactly the chunks with blocks, and tasks for
\* single chunks would cover them; and generating the packets does not panic.
ChunkTasksAreExact ==
  LET holding == {c \in MapChunks : blocksIn[c] > 0}
      quiet   == \A t \in ChunkThreads : setters[t].pc = "idle"
  IN  /\ ~ sweepWorld.panicked
      /\ \A c \in sweepWorld.unswept : Cardinality({k \in sweepTasks : c \in k}) = 1
      /\ \A k, l \in sweepTasks : k = l \/ k \cap l = {}
      /\ sweepWorld.phase = "sweep" => epilogue.flushes = (IF sweepTasks = {} THEN 1 ELSE 0)
      /\ sweepWorld.phase = "mutators" => sweepWorld.unswept = {}
      /\ quiet => /\ enumerate_blocks_from_chunk_map = holding
                  /\ \A c \in holding : {c} \in generate_tasks
===============================================================================

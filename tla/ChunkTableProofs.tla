-------------------------- MODULE ChunkTableProofs --------------------------
(***************************************************************************)
(* The chunk map's packets are exact for any number of threads, chunks and *)
(* bins.  Between the plain store of a chunk's byte and the update of the  *)
(* range the two disagree; the invariant says which thread still has to    *)
(* close the gap, so none is left once every thread is stopped.            *)
(***************************************************************************)
EXTENDS ChunkTable, FiniteSetTheorems, TLAPS

USE ZenonT(60)

Maps == [alloc : SUBSET MapChunks, start : Nat, end : Nat]
Setters == [pc : {"idle", "get", "store", "range"}, chunk : Nat]
Worlds == [phase : {"mutators", "sweep"}, pauses : Nat, taken : Nat, panicked : BOOLEAN,
           unswept : SUBSET MapChunks]

ChunkTypes ==
  /\ chunkMap \in Maps
  /\ \/ chunkMap.start = 0 /\ chunkMap.end = 0
     \/ 0 < chunkMap.start /\ chunkMap.start < chunkMap.end
  /\ setters \in [ChunkThreads -> Setters]
  /\ \A t \in ChunkThreads : setters[t].pc # "idle" => setters[t].chunk \in MapChunks
  /\ blocksIn \in [MapChunks -> 0..BlocksPerMapChunk]
  /\ sweepWorld \in Worlds

InRange(c) == chunkMap.start <= c /\ c < chunkMap.end

Inside(t, pcs, c) == setters[t].pc \in pcs /\ setters[t].chunk = c

Recorded ==
  /\ \A c \in chunkMap.alloc : InRange(c) \/ \E t \in ChunkThreads : Inside(t, {"range"}, c)
  /\ \A c \in MapChunks :
       blocksIn[c] > 0 => c \in chunkMap.alloc \/ \E t \in ChunkThreads : Inside(t, {"get", "store"}, c)
  /\ sweepWorld.taken > 0 =>
       0 < chunkMap.start \/ \E t \in ChunkThreads : setters[t].pc # "idle"

Sweeping ==
  /\ ~ sweepWorld.panicked
  /\ sweepWorld.phase = "mutators" => sweepTasks = {} /\ sweepWorld.unswept = {}
  /\ IsFiniteSet(sweepTasks)
  /\ \A k, l \in sweepTasks : k = l \/ k \cap l = {}
  /\ sweepWorld.unswept \subseteq chunkMap.alloc \cap UNION sweepTasks
  /\ sweepWorld.phase = "sweep" =>
       /\ \A t \in ChunkThreads : setters[t].pc = "idle"
       /\ epilogue.counter = Cardinality(sweepTasks)
       /\ epilogue.flushes = IF sweepTasks = {} THEN 1 ELSE 0

ChunkInv == ChunkTypes /\ Recorded /\ Sweeping

-----------------------------------------------------------------------------
\* ChunkMap::new satisfies the invariant.
LEMMA ChunkInvInit == ChunksInit => ChunkInv
  <1> HAVE ChunksInit
  <1>1. setters \in [ChunkThreads -> Setters] /\ \A t \in ChunkThreads : setters[t].pc = "idle"
    <2>1. NotSetting \in Setters /\ NotSetting.pc = "idle"
      BY SMT DEF NotSetting, Setters, ZERO
    <2> QED
      BY <2>1 DEF ChunksInit
  <1>2. /\ sweepWorld \in Worlds /\ sweepWorld.phase = "mutators" /\ sweepWorld.taken = 0
        /\ ~ sweepWorld.panicked /\ sweepWorld.unswept = {}
    BY SMT DEF ChunksInit, Worlds
  <1>3. /\ chunkMap \in Maps /\ chunkMap.alloc = {}
        /\ chunkMap.start = 0 /\ chunkMap.end = 0
    BY SMT DEF ChunksInit, Maps, ZERO
  <1>4. blocksIn \in [MapChunks -> 0..BlocksPerMapChunk] /\ \A c \in MapChunks : blocksIn[c] = 0
    BY ChunksAssumption, SMT DEF ChunksInit
  <1>5. sweepTasks = {}
    BY DEF ChunksInit
  <1>6. Recorded
    BY <1>1, <1>2, <1>3, <1>4, SMT DEF Recorded
  <1>7. Sweeping
    BY <1>1, <1>2, <1>5, FS_EmptySet DEF Sweeping
  <1> QED
    BY <1>1, <1>2, <1>3, <1>4, <1>6, <1>7 DEF ChunkInv, ChunkTypes

\* Taking a clean block: its chunk is the thread's to record
\* (ImmixSpace::initialize_new_block).
LEMMA TakeStep ==
    ASSUME ChunkInv, NEW t \in ChunkThreads, initialize_new_block(t)
    PROVE  ChunkInv'
  <1>1. PICK c \in MapChunks :
          /\ blocksIn[c] < BlocksPerMapChunk
          /\ blocksIn' = [blocksIn EXCEPT ![c] = @ + 1]
          /\ setters' = [setters EXCEPT ![t] = [pc |-> "get", chunk |-> c]]
    BY DEF initialize_new_block
  <1>2. /\ sweepWorld.phase = "mutators" /\ setters[t].pc = "idle"
        /\ sweepWorld' = [sweepWorld EXCEPT !.taken = @ + 1]
        /\ UNCHANGED <<chunkMap, sweepTasks, epilogue>>
    BY DEF initialize_new_block
  <1>3. c \in Nat
    BY ChunksAssumption, SMT DEF MapChunks
  <1>4. /\ setters' \in [ChunkThreads -> Setters]
        /\ setters'[t].pc = "get" /\ setters'[t].chunk = c
        /\ \A u \in ChunkThreads \ {t} : setters'[u] = setters[u]
    <2>1. /\ [pc |-> "get", chunk |-> c] \in Setters
          /\ [pc |-> "get", chunk |-> c].pc = "get" /\ [pc |-> "get", chunk |-> c].chunk = c
      BY <1>3, SMT DEF Setters
    <2> QED
      BY <1>1, <2>1 DEF ChunkInv, ChunkTypes
  <1>5. sweepWorld.taken + 1 \in Nat
    BY SMT DEF ChunkInv, ChunkTypes, Worlds
  <1>6. /\ sweepWorld' \in Worlds /\ sweepWorld'.phase = sweepWorld.phase
        /\ sweepWorld'.panicked = sweepWorld.panicked /\ sweepWorld'.unswept = sweepWorld.unswept
    BY <1>2, <1>5 DEF ChunkInv, ChunkTypes, Worlds
  <1>7. /\ blocksIn' \in [MapChunks -> 0..BlocksPerMapChunk]
        /\ \A d \in MapChunks \ {c} : blocksIn'[d] = blocksIn[d]
    <2>1. blocksIn[c] + 1 \in 0..BlocksPerMapChunk
      BY <1>1, ChunksAssumption, SMT DEF ChunkInv, ChunkTypes
    <2> QED
      BY <1>1, <2>1 DEF ChunkInv, ChunkTypes
  <1>8. ChunkTypes'
    BY <1>2, <1>4, <1>6, <1>7 DEF ChunkInv, ChunkTypes
  <1>9. Recorded'
    <2>1. \A u \in ChunkThreads : \A d : Inside(u, {"range"}, d) => Inside(u, {"range"}, d)'
      BY <1>2, <1>4 DEF Inside
    <2>2. \A u \in ChunkThreads : \A d : Inside(u, {"get", "store"}, d) => Inside(u, {"get", "store"}, d)'
      BY <1>2, <1>4 DEF Inside
    <2>3. Inside(t, {"get", "store"}, c)' /\ setters'[t].pc # "idle"
      BY <1>4 DEF Inside
    <2>4. \A d \in chunkMap'.alloc : InRange(d)' \/ \E u \in ChunkThreads : Inside(u, {"range"}, d)'
      BY <1>2, <2>1 DEF ChunkInv, Recorded, InRange
    <2>5. ASSUME NEW d \in MapChunks, blocksIn'[d] > 0
          PROVE  d \in chunkMap'.alloc \/ \E u \in ChunkThreads : Inside(u, {"get", "store"}, d)'
      <3>1. CASE d = c
        BY <2>3, <3>1
      <3>2. CASE d # c
        BY <1>2, <1>7, <2>2, <2>5, <3>2 DEF ChunkInv, Recorded
      <3> QED
        BY <3>1, <3>2
    <2> QED
      BY <2>3, <2>4, <2>5 DEF Recorded
  <1>10. Sweeping'
    BY <1>2, <1>6 DEF ChunkInv, Sweeping
  <1> QED
    BY <1>8, <1>9, <1>10 DEF ChunkInv

\* ChunkMap::get of the byte: a thread that finds it Allocated leaves the range
\* to the thread that stored it.
LEMMA ReadStep == ASSUME ChunkInv, NEW t \in ChunkThreads, SetReadsByte(t) PROVE ChunkInv'
  <1> DEFINE s == IF setters[t].chunk \in chunkMap.alloc THEN NotSetting
                  ELSE [setters[t] EXCEPT !.pc = "store"]
  <1>1. /\ setters[t].pc = "get" /\ setters' = [setters EXCEPT ![t] = s]
        /\ UNCHANGED <<chunkMap, blocksIn, sweepTasks, epilogue, sweepWorld>>
    BY DEF SetReadsByte
  <1>2. setters[t] \in Setters /\ setters[t].chunk \in MapChunks
    BY <1>1 DEF ChunkInv, ChunkTypes
  <1>3. /\ s \in Setters
        /\ \/ setters[t].chunk \in chunkMap.alloc /\ s.pc = "idle"
           \/ s.pc = "store" /\ s.chunk = setters[t].chunk
    <2>1. NotSetting \in Setters /\ NotSetting.pc = "idle"
      BY SMT DEF NotSetting, Setters, ZERO
    <2>2. LET e == [setters[t] EXCEPT !.pc = "store"]
          IN e \in Setters /\ e.pc = "store" /\ e.chunk = setters[t].chunk
      BY <1>2 DEF Setters
    <2> QED
      BY <2>1, <2>2
  <1> HIDE DEF s
  <1>4. /\ setters' \in [ChunkThreads -> Setters] /\ setters'[t] = s
        /\ \A u \in ChunkThreads \ {t} : setters'[u] = setters[u]
    BY <1>1, <1>3 DEF ChunkInv, ChunkTypes
  <1>5. ChunkTypes'
    BY <1>1, <1>2, <1>3, <1>4 DEF ChunkInv, ChunkTypes
  <1>6. \A u \in ChunkThreads : \A d : Inside(u, {"range"}, d) => u # t /\ Inside(u, {"range"}, d)'
    BY <1>1, <1>4 DEF Inside
  <1>7. ASSUME NEW u \in ChunkThreads, NEW d, Inside(u, {"get", "store"}, d)
        PROVE  d \in chunkMap.alloc \/ Inside(u, {"get", "store"}, d)'
    BY <1>3, <1>4, <1>7 DEF Inside
  <1>8. Recorded'
    <2>1. \A d \in chunkMap'.alloc : InRange(d)' \/ \E u \in ChunkThreads : Inside(u, {"range"}, d)'
      BY <1>1, <1>6 DEF ChunkInv, Recorded, InRange
    <2>2. \A d \in MapChunks : blocksIn'[d] > 0 =>
            d \in chunkMap'.alloc \/ \E u \in ChunkThreads : Inside(u, {"get", "store"}, d)'
      BY <1>1, <1>7 DEF ChunkInv, Recorded
    <2>3. 0 < chunkMap'.start \/ \E u \in ChunkThreads : setters'[u].pc # "idle"
      <3>1. CASE setters[t].chunk \in chunkMap.alloc
        <4>1. CASE InRange(setters[t].chunk)
          BY <1>1, <1>2, <4>1, ChunksAssumption, SMT DEF ChunkInv, ChunkTypes, InRange, MapChunks, Maps
        <4>2. CASE \E u \in ChunkThreads : Inside(u, {"range"}, setters[t].chunk)
          BY <1>6, <4>2 DEF Inside
        <4> QED
          BY <3>1, <4>1, <4>2 DEF ChunkInv, Recorded
      <3>2. CASE s.pc = "store"
        BY <1>4, <3>2
      <3> QED
        BY <1>3, <3>1, <3>2
    <2> QED
      BY <2>1, <2>2, <2>3 DEF Recorded
  <1>9. Sweeping'
    BY <1>1 DEF ChunkInv, ChunkTypes, Worlds, Sweeping
  <1> QED
    BY <1>5, <1>8, <1>9 DEF ChunkInv

\* The plain store of the byte: the thread still has to expand the range.
LEMMA StoreStep == ASSUME ChunkInv, NEW t \in ChunkThreads, SetStoresByte(t) PROVE ChunkInv'
  <1> DEFINE c == setters[t].chunk
             s == [setters[t] EXCEPT !.pc = "range"]
  <1>1. /\ setters[t].pc = "store" /\ setters' = [setters EXCEPT ![t] = s]
        /\ chunkMap' = [chunkMap EXCEPT !.alloc = @ \cup {c}]
        /\ UNCHANGED <<blocksIn, sweepTasks, epilogue, sweepWorld>>
    BY DEF SetStoresByte
  <1>2. setters[t] \in Setters /\ c \in MapChunks
    BY <1>1 DEF ChunkInv, ChunkTypes
  <1>3. s \in Setters /\ s.pc = "range" /\ s.chunk = c
    BY <1>2 DEF Setters
  <1>4. /\ chunkMap' \in Maps /\ chunkMap'.alloc = chunkMap.alloc \cup {c}
        /\ chunkMap'.start = chunkMap.start /\ chunkMap'.end = chunkMap.end
    BY <1>1, <1>2 DEF ChunkInv, ChunkTypes, Maps
  <1> HIDE DEF s
  <1>5. /\ setters' \in [ChunkThreads -> Setters] /\ setters'[t] = s
        /\ \A u \in ChunkThreads \ {t} : setters'[u] = setters[u]
    BY <1>1, <1>3 DEF ChunkInv, ChunkTypes
  <1>6. PICK d : d = c
    OBVIOUS
  <1>7. ChunkTypes'
    BY <1>1, <1>2, <1>3, <1>4, <1>5 DEF ChunkInv, ChunkTypes
  <1>8. /\ \A u \in ChunkThreads : \A e : Inside(u, {"range"}, e) => Inside(u, {"range"}, e)'
        /\ Inside(t, {"range"}, d)'
    BY <1>1, <1>3, <1>5, <1>6 DEF Inside
  <1>9. \A u \in ChunkThreads : \A e : Inside(u, {"get", "store"}, e) => e = d \/ Inside(u, {"get", "store"}, e)'
    BY <1>5, <1>6 DEF Inside
  <1>10. Recorded'
    <2>1. ASSUME NEW e \in chunkMap'.alloc
          PROVE  InRange(e)' \/ \E u \in ChunkThreads : Inside(u, {"range"}, e)'
      <3>1. CASE e = d
        BY <1>8, <3>1
      <3>2. CASE e \in chunkMap.alloc
        BY <1>4, <1>8, <3>2 DEF ChunkInv, Recorded, InRange
      <3> QED
        BY <1>4, <1>6, <2>1, <3>1, <3>2
    <2>2. \A e \in MapChunks : blocksIn'[e] > 0 =>
            e \in chunkMap'.alloc \/ \E u \in ChunkThreads : Inside(u, {"get", "store"}, e)'
      BY <1>1, <1>4, <1>6, <1>9 DEF ChunkInv, Recorded
    <2>3. setters'[t].pc # "idle"
      BY <1>3, <1>5
    <2> QED
      BY <2>1, <2>2, <2>3 DEF Recorded
  <1>11. Sweeping'
    BY <1>1, <1>4 DEF ChunkInv, ChunkTypes, Worlds, Sweeping
  <1> QED
    BY <1>7, <1>10, <1>11 DEF ChunkInv

\* The locked update of the range covers the thread's chunk, and every chunk
\* the range covered before.
LEMMA ExpandedRange ==
    ASSUME chunkMap \in Maps,
           \/ chunkMap.start = 0 /\ chunkMap.end = 0
           \/ 0 < chunkMap.start /\ chunkMap.start < chunkMap.end,
           NEW c \in Nat \ {0}
    PROVE  LET m == Expanded(c)
           IN  /\ m \in Maps /\ m.alloc = chunkMap.alloc
               /\ 0 < m.start /\ m.start < m.end /\ m.start <= c /\ c < m.end
               /\ \A d \in Nat : InRange(d) => m.start <= d /\ d < m.end
  <1> DEFINE a == chunkMap.alloc
             b == chunkMap.start
             e == chunkMap.end
  <1>1. a \in SUBSET MapChunks /\ b \in Nat /\ e \in Nat /\ c + 1 \in Nat /\ c \in Nat
    BY SMT DEF Maps
  <1>2. chunkMap = [alloc |-> a, start |-> b, end |-> e]
    BY DEF Maps
  <1>3. PICK x \in Nat, y \in Nat :
          /\ Expanded(c) = [alloc |-> a, start |-> x, end |-> y]
          /\ \/ b = 0 /\ x = c /\ y = c + 1
             \/ b # 0 /\ c < b /\ x = c /\ y = e
             \/ b # 0 /\ ~(c < b) /\ e <= c /\ x = b /\ y = c + 1
             \/ b # 0 /\ ~(c < b) /\ ~(e <= c) /\ x = b /\ y = e
    <2> HIDE DEF a, b, e
    <2>1. CASE b = 0
      BY <1>1, <1>2, <2>1 DEF Expanded, ZERO, a, b, e
    <2>2. CASE b # 0 /\ c < b
      BY <1>1, <1>2, <2>2 DEF Expanded, ZERO, a, b, e
    <2>3. CASE b # 0 /\ ~(c < b) /\ e <= c
      BY <1>1, <1>2, <2>3 DEF Expanded, ZERO, a, b, e
    <2>4. CASE b # 0 /\ ~(c < b) /\ ~(e <= c)
      BY <1>1, <1>2, <2>4 DEF Expanded, ZERO, a, b, e
    <2> QED
      BY <2>1, <2>2, <2>3, <2>4
  <1> QED
    BY <1>1, <1>3, SMT DEF Maps, InRange

\* The locked update of the range closes the gap that the store had opened.
LEMMA ExpandStep == ASSUME ChunkInv, NEW t \in ChunkThreads, SetExpandsRange(t) PROVE ChunkInv'
  <1> DEFINE m == Expanded(setters[t].chunk)
  <1>1. /\ setters[t].pc = "range" /\ setters' = [setters EXCEPT ![t] = NotSetting]
        /\ chunkMap' = m /\ UNCHANGED <<blocksIn, sweepTasks, epilogue, sweepWorld>>
    BY DEF SetExpandsRange
  <1>2. PICK c \in MapChunks : c = setters[t].chunk
    BY <1>1 DEF ChunkInv, ChunkTypes
  <1>3. MapChunks \subseteq Nat /\ c \in Nat \ {0}
    BY ChunksAssumption, SMT DEF MapChunks
  <1>4. /\ m \in Maps /\ m.alloc = chunkMap.alloc
        /\ 0 < m.start /\ m.start < m.end /\ m.start <= c /\ c < m.end
        /\ \A d \in Nat : InRange(d) => m.start <= d /\ d < m.end
    BY <1>2, <1>3, ExpandedRange DEF ChunkInv, ChunkTypes
  <1> HIDE DEF m
  <1>5. /\ setters' \in [ChunkThreads -> Setters] /\ setters'[t].pc = "idle"
        /\ \A u \in ChunkThreads \ {t} : setters'[u] = setters[u]
    <2>1. NotSetting \in Setters /\ NotSetting.pc = "idle"
      BY SMT DEF NotSetting, Setters, ZERO
    <2> QED
      BY <1>1, <2>1 DEF ChunkInv, ChunkTypes
  <1>6. ChunkTypes'
    BY <1>1, <1>4, <1>5 DEF ChunkInv, ChunkTypes
  <1>7. Recorded'
    <2>1. ASSUME NEW d \in chunkMap'.alloc
          PROVE  InRange(d)' \/ \E u \in ChunkThreads : Inside(u, {"range"}, d)'
      <3>1. d \in chunkMap.alloc /\ d \in Nat
        BY <1>1, <1>3, <1>4, <2>1 DEF Maps
      <3>2. CASE InRange(d) \/ d = c
        BY <1>1, <1>4, <3>1, <3>2 DEF InRange
      <3>3. CASE \E u \in ChunkThreads : Inside(u, {"range"}, d) /\ d # c
        BY <1>2, <1>5, <3>3 DEF Inside
      <3> QED
        BY <3>1, <3>2, <3>3 DEF ChunkInv, Recorded
    <2>2. \A u \in ChunkThreads : \A d : Inside(u, {"get", "store"}, d) => Inside(u, {"get", "store"}, d)'
      BY <1>1, <1>5 DEF Inside
    <2>3. \A d \in MapChunks : blocksIn'[d] > 0 =>
            d \in chunkMap'.alloc \/ \E u \in ChunkThreads : Inside(u, {"get", "store"}, d)'
      BY <1>1, <1>4, <2>2 DEF ChunkInv, Recorded
    <2> QED
      BY <1>1, <1>4, <2>1, <2>3 DEF Recorded
  <1>8. Sweeping'
    BY <1>1, <1>4 DEF ChunkInv, ChunkTypes, Worlds, Sweeping
  <1> QED
    BY <1>6, <1>7, <1>8 DEF ChunkInv

-----------------------------------------------------------------------------
(***************************************************************************)
(* The bins.                                                               *)
(***************************************************************************)
\* Rounding up leaves bins of at least one chunk, unless there is none.
LEMMA RoundUp ==
    ASSUME NEW n \in Nat, NEW b \in Nat \ {0}
    PROVE  /\ (n + b - 1) \div b \in Nat
           /\ n > 0 => (n + b - 1) \div b > 0
  BY SMT

\* The multiples of a bin's size cut the numbers into disjoint pieces.
LEMMA Pieces ==
    ASSUME NEW b \in Nat \ {0}
    PROVE  /\ \A x \in Nat : /\ x \div b \in Nat /\ x \div b <= x
                             /\ (x \div b) * b <= x /\ x < (x \div b + 1) * b
           /\ \A i, j \in Nat : i < j => (i + 1) * b <= j * b
  <1>1. ASSUME NEW x \in Nat
        PROVE  /\ x \div b \in Nat /\ (x \div b) * b <= x /\ x < (x \div b + 1) * b
    BY SMT
  <1>2. ASSUME NEW x \in Nat PROVE x \div b <= x
    BY SMT
  <1>3. ASSUME NEW i \in Nat, NEW j \in Nat, i < j PROVE (i + 1) * b <= j * b
    BY <1>3, SMT
  <1> QED
    BY <1>1, <1>2, <1>3

\* The lesser of two numbers.
LEMMA MinOfTwo == ASSUME NEW x \in Nat, NEW y \in Nat PROVE Min({x, y}) = IF x <= y THEN x ELSE y
  BY SMT DEF Min

\* However many workers there are, the packets cut the range into disjoint
\* pieces that cover it (ChunkMap::generate_tasks_batched).
LEMMA BatchedTasks ==
    ASSUME chunkMap \in Maps, chunkMap.start < chunkMap.end
    PROVE  /\ BinSize \in Nat \ {0}
           /\ IsFiniteSet(generate_tasks_batched) /\ generate_tasks_batched # {}
           /\ \A k, l \in generate_tasks_batched : k = l \/ k \cap l = {}
           /\ \A c \in Nat : InRange(c) => \E k \in generate_tasks_batched : c \in k
  <1> DEFINE b == BinSize
             s == chunkMap.start
             e == chunkMap.end
             End(i) == IF e <= BinStart(i + 1) THEN e ELSE BinStart(i + 1)
  <1>1. s \in Nat /\ e \in Nat /\ s < e
    BY DEF Maps
  <1>2. b \in Nat \ {0}
    <2>1. e - s \in Nat /\ e - s > 0 /\ e - s + TaskBins - 1 = (e - s) + TaskBins - 1
      BY <1>1, SMT
    <2>2. TaskBins \in Nat \ {0}
      BY ChunksAssumption
    <2>3. (e - s + TaskBins - 1) \div TaskBins \in Nat /\ (e - s + TaskBins - 1) \div TaskBins > 0
      BY <2>1, <2>2, RoundUp
    <2> QED
      BY <2>3, SMT DEF BinSize
  <1> HIDE DEF b, s, e
  <1>3. \A i \in Nat : BinStart(i) = s + i * b /\ BinStart(i) \in Nat /\ i * b \in Nat
    BY <1>1, <1>2, SMT DEF BinStart, b, s
  <1>4. Bins = {i \in 0..(e - s - 1) : s + i * b < e} /\ Bins \subseteq Nat
    BY <1>1, <1>3, SMT DEF Bins, s, e
  <1>5. generate_tasks_batched = {BinStart(i)..(End(i) - 1) : i \in Bins}
    <2>1. \A i \in Bins : Min({chunkMap.end, BinStart(i + 1)}) = End(i)
      <3>1. \A i \in Bins : i + 1 \in Nat
        BY <1>4, SMT
      <3> QED
        BY <1>1, <1>3, <3>1, MinOfTwo DEF e
    <2> QED
      BY <2>1 DEF generate_tasks_batched
  <1>6. ASSUME NEW i \in Nat
        PROVE  /\ i + 1 \in Nat /\ BinStart(i + 1) \in Nat /\ End(i) \in Nat
               /\ End(i) <= e /\ End(i) <= BinStart(i + 1)
               /\ End(i) = e \/ End(i) = BinStart(i + 1)
    <2>1. i + 1 \in Nat
      BY SMT
    <2>2. PICK y \in Nat : y = BinStart(i + 1)
      BY <1>3, <2>1
    <2> QED
      BY <1>1, <2>1, <2>2, SMT
  <1> HIDE DEF End
  <1>7. ASSUME NEW k \in generate_tasks_batched, NEW l \in generate_tasks_batched, k # l
        PROVE  k \cap l = {}
    <2>1. PICK i \in Bins, j \in Bins : k = BinStart(i)..(End(i) - 1) /\ l = BinStart(j)..(End(j) - 1)
      BY <1>5
    <2>2. i \in Nat /\ j \in Nat /\ i # j
      BY <1>4, <1>7, <2>1
    <2>3. i < j \/ j < i
      BY <2>2, SMT
    <2>4. End(i) <= BinStart(j) \/ End(j) <= BinStart(i)
      <3>1. CASE i < j
        <4>1. PICK y \in Nat, z \in Nat : y = (i + 1) * b /\ z = j * b
          BY <1>3, <1>6, <2>2
        <4>2. y <= z
          BY <1>2, <2>2, <3>1, <4>1, Pieces
        <4>3. End(i) <= s + y /\ BinStart(j) = s + z /\ End(i) \in Nat
          BY <1>3, <1>6, <2>2, <4>1
        <4> QED
          BY <1>1, <4>2, <4>3, SMT
      <3>2. CASE j < i
        <4>1. PICK y \in Nat, z \in Nat : y = (j + 1) * b /\ z = i * b
          BY <1>3, <1>6, <2>2
        <4>2. y <= z
          BY <1>2, <2>2, <3>2, <4>1, Pieces
        <4>3. End(j) <= s + y /\ BinStart(i) = s + z /\ End(j) \in Nat
          BY <1>3, <1>6, <2>2, <4>1
        <4> QED
          BY <1>1, <4>2, <4>3, SMT
      <3> QED
        BY <2>3, <3>1, <3>2
    <2>5. End(i) \in Nat /\ End(j) \in Nat /\ BinStart(i) \in Nat /\ BinStart(j) \in Nat
      BY <1>3, <1>6, <2>2
    <2> QED
      BY <2>1, <2>4, <2>5, SMT
  <1>8. ASSUME NEW c \in Nat, InRange(c) PROVE \E k \in generate_tasks_batched : c \in k
    <2>1. s <= c /\ c < e
      BY <1>8 DEF InRange, s, e
    <2>2. PICK x \in Nat : x = c - s
      BY <1>1, <2>1, SMT
    <2>3. PICK i \in Nat : i = x \div b
      BY <1>2, Pieces
    <2>4. i <= x /\ i * b <= x /\ x < (i + 1) * b
      BY <1>2, <2>3, Pieces
    <2>5. PICK y \in Nat, z \in Nat : y = i * b /\ z = (i + 1) * b
      BY <1>3, <1>6
    <2>6. i \in 0..(e - s - 1) /\ s + y < e
      BY <1>1, <2>1, <2>2, <2>4, <2>5, SMT
    <2>7. i \in Bins
      BY <1>4, <2>5, <2>6
    <2>8. BinStart(i) = s + y /\ (End(i) = e \/ End(i) = s + z)
      BY <1>3, <1>6, <2>5
    <2>9. y <= x /\ x < z
      BY <2>4, <2>5
    <2>10. c \in BinStart(i)..(End(i) - 1)
      BY <1>1, <2>1, <2>2, <2>8, <2>9, SMT
    <2> QED
      BY <1>5, <2>7, <2>10
  <1>9. generate_tasks_batched # {}
    <2>1. InRange(s)
      BY <1>1, SMT DEF InRange, s, e
    <2> QED
      BY <1>1, <1>8, <2>1
  <1>10. IsFiniteSet(generate_tasks_batched)
    <2>1. ASSUME NEW i \in Bins PROVE BinStart(i)..(End(i) - 1) \subseteq 0..e
      <3>1. BinStart(i) \in Nat /\ End(i) \in Nat /\ End(i) <= e
        BY <1>3, <1>4, <1>6
      <3> QED
        BY <1>1, <3>1, SMT
    <2>2. generate_tasks_batched \in SUBSET (SUBSET (0..e))
      BY <1>5, <2>1
    <2>3. IsFiniteSet(0..e)
      <3>1. 0 \in Int /\ e \in Int
        BY <1>1, SMT
      <3> QED
        BY <3>1, FS_Interval
    <2>4. IsFiniteSet(SUBSET (0..e))
      BY <2>3, FS_SUBSET
    <2> QED
      BY <2>2, <2>4, FS_Subset
  <1> QED
    BY <1>2, <1>7, <1>8, <1>9, <1>10 DEF b

-----------------------------------------------------------------------------
(***************************************************************************)
(* The collection.                                                         *)
(***************************************************************************)
\* Every thread is stopped: the range has a chunk, so the walk over the bins
\* does not panic, and the packets cover every chunk that holds blocks.
LEMMA GenerateStep == ASSUME ~EmptyMaps, ChunkInv, generate_sweep_tasks PROVE ChunkInv'
  <1>1. /\ sweepWorld.phase = "mutators" /\ \A t \in ChunkThreads : setters[t].pc = "idle"
        /\ sweepWorld.taken > 0 /\ UNCHANGED <<chunkMap, setters, blocksIn>>
    BY DEF generate_sweep_tasks
  <1>2. chunkMap \in Maps /\ 0 < chunkMap.start /\ chunkMap.start < chunkMap.end
    <2>1. 0 < chunkMap.start
      BY <1>1 DEF ChunkInv, Recorded
    <2> QED
      BY <2>1, SMT DEF ChunkInv, ChunkTypes, Maps
  <1>3. BinSize # 0
    BY <1>2, BatchedTasks
  <1> DEFINE held == {c \in MapChunks : blocksIn[c] > 0}
  <1>4. /\ sweepTasks' = generate_tasks_batched
        /\ epilogue' = [counter |-> Cardinality(generate_tasks_batched), flushes |-> 0]
        /\ sweepWorld' = [sweepWorld EXCEPT !.phase = "sweep", !.pauses = @ + 1, !.unswept = held]
    BY <1>3 DEF generate_sweep_tasks
  <1>5. sweepWorld.pauses + 1 \in Nat
    BY SMT DEF ChunkInv, ChunkTypes, Worlds
  <1>6. /\ sweepWorld' \in Worlds /\ sweepWorld'.phase = "sweep" /\ sweepWorld'.unswept = held
        /\ sweepWorld'.panicked = sweepWorld.panicked /\ sweepWorld'.taken = sweepWorld.taken
    BY <1>4, <1>5 DEF ChunkInv, ChunkTypes, Worlds
  <1>7. ChunkTypes'
    BY <1>1, <1>6 DEF ChunkInv, ChunkTypes
  <1>8. Recorded'
    <2>1. \A u \in ChunkThreads : \A d : /\ Inside(u, {"range"}, d)' <=> Inside(u, {"range"}, d)
                                         /\ Inside(u, {"get", "store"}, d)' <=> Inside(u, {"get", "store"}, d)
      BY <1>1 DEF Inside
    <2>2. \A d : InRange(d)' <=> InRange(d)
      BY <1>1 DEF InRange
    <2> QED
      BY <1>1, <1>2, <2>1, <2>2 DEF ChunkInv, Recorded
  <1>9. held \subseteq chunkMap.alloc \cap UNION generate_tasks_batched
    <2> SUFFICES ASSUME NEW c \in MapChunks, blocksIn[c] > 0
                 PROVE  c \in chunkMap.alloc /\ \E k \in generate_tasks_batched : c \in k
      OBVIOUS
    <2>1. c \in chunkMap.alloc
      BY <1>1 DEF ChunkInv, Recorded, Inside
    <2>2. InRange(c)
      BY <1>1, <2>1 DEF ChunkInv, Recorded, Inside
    <2>3. c \in Nat
      BY ChunksAssumption, SMT DEF MapChunks
    <2> QED
      BY <1>2, <2>1, <2>2, <2>3, BatchedTasks
  <1>10. Sweeping'
    <2>1. epilogue'.counter = Cardinality(sweepTasks') /\ epilogue'.flushes = 0
      BY <1>4
    <2>2. /\ IsFiniteSet(sweepTasks') /\ sweepTasks' # {}
          /\ \A k, l \in sweepTasks' : k = l \/ k \cap l = {}
      BY <1>2, <1>4, BatchedTasks
    <2>3. sweepWorld'.unswept \subseteq chunkMap'.alloc \cap UNION sweepTasks'
      BY <1>1, <1>4, <1>6, <1>9
    <2> QED
      BY <1>1, <1>6, <2>1, <2>2, <2>3 DEF ChunkInv, Sweeping
  <1> QED
    BY <1>7, <1>8, <1>10 DEF ChunkInv

\* A packet sweeps its allocated chunks; the last one flushes the page
\* resource (SweepChunk::do_work, FlushPageResource::finish_one_work_packet).
LEMMA SweepStep == ASSUME ChunkInv, NEW k \in sweepTasks, SweepChunks(k) PROVE ChunkInv'
  <1> DEFINE swept == k \cap chunkMap.alloc
  <1>1. PICK left \in [MapChunks -> 0..BlocksPerMapChunk] :
          /\ \A c \in MapChunks : IF c \in swept THEN left[c] <= blocksIn[c] ELSE left[c] = blocksIn[c]
          /\ blocksIn' = left
          /\ chunkMap' = [chunkMap EXCEPT !.alloc = @ \ FreedChunks(swept, left)]
    BY DEF SweepChunks
  <1>2. /\ sweepTasks' = sweepTasks \ {k}
        /\ epilogue' = [counter |-> epilogue.counter - 1,
                        flushes |-> epilogue.flushes + (IF epilogue.counter = 1 THEN 1 ELSE 0)]
        /\ sweepWorld' = [sweepWorld EXCEPT !.unswept = @ \ swept]
        /\ UNCHANGED setters
    BY DEF SweepChunks
  <1>3. PICK freed : freed = FreedChunks(swept, left)
    OBVIOUS
  <1>4. freed \subseteq swept /\ \A c \in MapChunks : c \in freed => blocksIn'[c] = 0
    BY <1>1, <1>3 DEF FreedChunks
  <1>5. /\ chunkMap' \in Maps /\ chunkMap'.alloc = chunkMap.alloc \ freed
        /\ chunkMap'.start = chunkMap.start /\ chunkMap'.end = chunkMap.end
    BY <1>1, <1>3 DEF ChunkInv, ChunkTypes, Maps
  <1>6. /\ sweepWorld' \in Worlds /\ sweepWorld'.phase = sweepWorld.phase
        /\ sweepWorld'.panicked = sweepWorld.panicked /\ sweepWorld'.taken = sweepWorld.taken
        /\ sweepWorld'.unswept = sweepWorld.unswept \ swept
    BY <1>2 DEF ChunkInv, ChunkTypes, Worlds
  <1>7. sweepWorld.phase = "sweep" /\ \A t \in ChunkThreads : setters[t].pc = "idle"
    BY DEF ChunkInv, ChunkTypes, Worlds, Sweeping
  <1>8. ChunkTypes'
    BY <1>1, <1>2, <1>5, <1>6 DEF ChunkInv, ChunkTypes
  <1>9. Recorded'
    <2>1. \A c \in chunkMap.alloc : InRange(c)
      BY <1>7 DEF ChunkInv, Recorded, Inside
    <2>2. \A c \in chunkMap'.alloc : InRange(c)'
      BY <1>5, <2>1 DEF InRange
    <2>3. ASSUME NEW c \in MapChunks, blocksIn'[c] > 0 PROVE c \in chunkMap'.alloc
      <3>1. c \notin freed
        BY <1>4, <2>3, SMT
      <3>2. blocksIn[c] > 0
        <4>1. blocksIn[c] \in Nat /\ blocksIn'[c] \in Nat /\ blocksIn'[c] <= blocksIn[c]
          BY <1>1, ChunksAssumption, SMT DEF ChunkInv, ChunkTypes
        <4> QED
          BY <2>3, <4>1, SMT
      <3>3. c \in chunkMap.alloc
        BY <1>7, <3>2 DEF ChunkInv, Recorded, Inside
      <3> QED
        BY <1>5, <3>1, <3>3
    <2>4. sweepWorld'.taken > 0 => 0 < chunkMap'.start
      BY <1>5, <1>6, <1>7 DEF ChunkInv, Recorded
    <2> QED
      BY <2>2, <2>3, <2>4 DEF Recorded
  <1>10. Sweeping'
    <2>1. IsFiniteSet(sweepTasks') /\ Cardinality(sweepTasks') = Cardinality(sweepTasks) - 1
      BY <1>2, FS_RemoveElement DEF ChunkInv, Sweeping
    <2>2. epilogue'.counter = Cardinality(sweepTasks')
      BY <1>2, <1>7, <2>1 DEF ChunkInv, Sweeping
    <2>3. epilogue'.flushes = IF sweepTasks' = {} THEN 1 ELSE 0
      <3>1. epilogue.flushes = 0 /\ epilogue.counter = Cardinality(sweepTasks)
        BY <1>7 DEF ChunkInv, Sweeping
      <3>2. epilogue'.flushes = epilogue.flushes + (IF epilogue.counter = 1 THEN 1 ELSE 0)
        BY <1>2
      <3>3. Cardinality(sweepTasks) \in Nat /\ Cardinality(sweepTasks') \in Nat
        BY <2>1, FS_CardinalityType DEF ChunkInv, Sweeping
      <3>4. sweepTasks' = {} <=> Cardinality(sweepTasks') = 0
        BY <2>1, FS_EmptySet
      <3> QED
        BY <2>1, <3>1, <3>2, <3>3, <3>4, SMT
    <2>4. sweepWorld'.unswept \subseteq chunkMap'.alloc \cap UNION sweepTasks'
      <3> SUFFICES ASSUME NEW c \in sweepWorld.unswept, c \notin swept
                   PROVE  c \in chunkMap'.alloc /\ \E l \in sweepTasks' : c \in l
        BY <1>6
      <3>1. PICK l \in sweepTasks : c \in l
        BY DEF ChunkInv, Sweeping
      <3>2. c \in chunkMap.alloc
        BY DEF ChunkInv, Sweeping
      <3>3. l # k
        BY <3>1, <3>2
      <3> QED
        BY <1>2, <1>4, <1>5, <3>1, <3>2, <3>3
    <2> QED
      BY <1>2, <1>6, <1>7, <2>1, <2>2, <2>3, <2>4 DEF ChunkInv, Sweeping
  <1> QED
    BY <1>8, <1>9, <1>10 DEF ChunkInv

\* The mutators resume when every packet has run.
LEMMA ResumeStep == ASSUME ChunkInv, ResumeAllocation PROVE ChunkInv'
  <1>1. /\ sweepWorld.phase = "sweep" /\ sweepTasks = {}
        /\ sweepWorld' = [sweepWorld EXCEPT !.phase = "mutators"]
        /\ UNCHANGED <<chunkMap, setters, blocksIn, sweepTasks, epilogue>>
    BY DEF ResumeAllocation
  <1>2. /\ sweepWorld' \in Worlds /\ sweepWorld'.phase = "mutators"
        /\ sweepWorld'.panicked = sweepWorld.panicked /\ sweepWorld'.taken = sweepWorld.taken
        /\ sweepWorld'.unswept = sweepWorld.unswept
    BY <1>1 DEF ChunkInv, ChunkTypes, Worlds
  <1>3. ChunkTypes'
    BY <1>1, <1>2 DEF ChunkInv, ChunkTypes
  <1>4. Recorded'
    BY <1>1, <1>2 DEF ChunkInv, Recorded, Inside, InRange
  <1>5. sweepWorld.unswept = {}
    BY <1>1 DEF ChunkInv, Sweeping
  <1>6. Sweeping'
    BY <1>1, <1>2, <1>5 DEF ChunkInv, Sweeping
  <1> QED
    BY <1>3, <1>4, <1>6 DEF ChunkInv

\* Every step keeps the invariant, if no collection precedes the first block.
LEMMA ChunkInvStep == ASSUME ~EmptyMaps PROVE ChunkInv /\ [ChunksNext]_chunkVars => ChunkInv'
  <1> SUFFICES ASSUME ChunkInv, [ChunksNext]_chunkVars PROVE ChunkInv'
    OBVIOUS
  <1>1. CASE UNCHANGED chunkVars
    <2>1. UNCHANGED <<chunkMap, setters, blocksIn, sweepTasks, epilogue, sweepWorld>>
      BY <1>1 DEF chunkVars
    <2>2. ChunkTypes'
      BY <2>1 DEF ChunkInv, ChunkTypes
    <2>3. Recorded'
      BY <2>1 DEF ChunkInv, Recorded, Inside, InRange
    <2>4. Sweeping'
      BY <2>1 DEF ChunkInv, Sweeping
    <2> QED
      BY <2>2, <2>3, <2>4 DEF ChunkInv
  <1> QED
    BY <1>1, TakeStep, ReadStep, StoreStep, ExpandStep, GenerateStep, SweepStep, ResumeStep
    DEF ChunksNext

\* What the invariant says of packets and of enumeration.
LEMMA ChunkInvImplies == ChunkInv => ChunkTasksAreExact
  <1> SUFFICES ASSUME ChunkInv PROVE ChunkTasksAreExact
    OBVIOUS
  <1> DEFINE holding == {c \in MapChunks : blocksIn[c] > 0}
             quiet   == \A t \in ChunkThreads : setters[t].pc = "idle"
  <1>1. ASSUME NEW c \in sweepWorld.unswept PROVE Cardinality({k \in sweepTasks : c \in k}) = 1
    <2>1. PICK k \in sweepTasks : c \in k
      BY DEF ChunkInv, Sweeping
    <2>2. \A l \in sweepTasks : c \in l => l = k
      BY <2>1 DEF ChunkInv, Sweeping
    <2>3. {l \in sweepTasks : c \in l} = {k}
      BY <2>1, <2>2
    <2> QED
      BY <2>3, FS_Singleton
  <1>2. ASSUME quiet PROVE /\ enumerate_blocks_from_chunk_map = holding
                           /\ \A c \in holding : {c} \in generate_tasks
    <2>1. ASSUME NEW c \in holding PROVE c \in all_chunks /\ c \in chunkMap.alloc
      <3>1. c \in chunkMap.alloc
        BY <1>2 DEF ChunkInv, Recorded, Inside
      <3>2. InRange(c)
        BY <1>2, <3>1 DEF ChunkInv, Recorded, Inside
      <3>3. c \in Nat
        BY ChunksAssumption, SMT DEF MapChunks
      <3>4. chunkMap.start \in Nat /\ chunkMap.end \in Nat
        BY DEF ChunkInv, ChunkTypes, Maps
      <3> QED
        BY <3>1, <3>2, <3>3, <3>4, SMT DEF InRange, all_chunks
    <2>2. chunkMap.alloc \subseteq MapChunks
      BY DEF ChunkInv, ChunkTypes, Maps
    <2> QED
      BY <2>1, <2>2 DEF enumerate_blocks_from_chunk_map, generate_tasks
  <1> QED
    BY <1>1, <1>2 DEF ChunkInv, Sweeping, ChunkTasksAreExact

\* For any number of threads, chunks, bins and collections: if a block is taken
\* before the first collection, every chunk that holds blocks is swept by
\* exactly one packet, packets do not overlap, the page resource is flushed once
\* after the last, and enumeration visits exactly the chunks with blocks
\* (ChunkMap::set, generate_tasks_batched, SweepChunk, FlushPageResource).
THEOREM ChunkTasksAreExactThm == ASSUME ~EmptyMaps PROVE ChunksSpec => []ChunkTasksAreExact
  BY ChunkInvInit, ChunkInvStep, ChunkInvImplies, PTL DEF ChunksSpec
=============================================================================

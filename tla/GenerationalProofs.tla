------------------------- MODULE GenerationalProofs -------------------------
(***************************************************************************)
(* Proofs about Generational: with side mark bits no object that a mutator *)
(* can reach is freed, for any number of objects, mutators and collections *)
(* and any capacity of the modbufs.                                        *)
(*                                                                         *)
(* The argument needs no reachability: at every moment there is a set L of *)
(* objects that holds what the mutators hold, is closed under fields, and  *)
(* has no freed member.  The barrier keeps track of the members of L that  *)
(* are old and refer to young ones; a collection replaces L by the members *)
(* it has visited or never meant to collect.                               *)
(***************************************************************************)
EXTENDS Generational, FiniteSetTheorems, TLAPS

\* A leaf is a first-order argument for Zenon unless it cites SMT.
USE ZenonT(60)

-----------------------------------------------------------------------------
(* The invariant.                                                          *)

Refs == GenObjects \cup {NullRef}

CellType == [space : {"free", "nursery", "copyspace", "immix", "los", "immortal"},
             field : Refs, unlog : 0..1, mark : 0..1, young : 0..1]

WriterType == [at : {"safepoint", "post", "slow", "log", "raw"}, src : Refs, target : Refs]

CycleType == [plan : {"gencopy", "genimmix", "sticky"}, phase : {"mutators", "prepare", "closure"},
              gc_full_heap : BOOLEAN, los_state : 0..1, immortal_state : {1},
              queue : SUBSET GenObjects, copied : SUBSET GenObjects, panicked : BOOLEAN,
              operations : Nat, collections : Nat]

BufferType == [objects : Seq(GenObjects), regions : Seq(GenObjects)]

\* StickyImmix has no copying nursery, GenCopy no Immix space.
SpaceUsed(space) == /\ cycle.plan = "sticky" => space # "nursery"
                    /\ cycle.plan = "gencopy" => space # "immix"

\* The types, and what the phases say of the mutators: they are stopped while
\* a collection runs, and after a panic.  With side mark bits the mark state
\* of the immortal space is always 1.
GenShape ==
    /\ cells \in [GenObjects -> CellType]
    /\ stack \in SUBSET GenObjects
    /\ writer \in [GenMutators -> WriterType]
    /\ modbufs \in [GenMutators -> BufferType]
    /\ packets \in [objects : SUBSET GenObjects, regions : SUBSET GenObjects]
    /\ cycle \in CycleType
    /\ \A m \in GenMutators : IF writer[m].at = "safepoint"
                              THEN writer[m] = AtSafepoint ELSE writer[m].src # NullRef
    /\ cycle.phase # "mutators" \/ cycle.panicked =>
          \A m \in GenMutators : writer[m].at = "safepoint"
    /\ cycle.panicked => cycle.phase = "mutators"
    /\ cycle.phase # "closure" /\ ~cycle.panicked => cycle.copied = {}
    /\ \A o \in cycle.copied : cells[o].space = "copyspace"
    /\ \A o \in GenObjects : SpaceUsed(cells[o].space)

\* What the mutators hold, in the stack or in the middle of a store.
Held == (stack \cup ({writer[m].src : m \in GenMutators} \cup {writer[m].target : m \in GenMutators}))
        \ {NullRef}

\* The objects a nursery collection may free.
Young(o) == \/ cells[o].space = "nursery"
            \/ cells[o].space = "los" /\ cells[o].young = 1
            \/ cycle.plan = "sticky" /\ cells[o].space = "immix" /\ cells[o].mark = 0

\* The objects that the current full-heap collection has visited.
Visited(o) == \/ cells[o].space = "copyspace" /\ o \in cycle.copied
              \/ cells[o].space = "immix" /\ cells[o].mark = 1
              \/ cells[o].space = "los" /\ cells[o].mark = cycle.los_state
              \/ cells[o].space = "immortal" /\ cells[o].mark = 1

\* The object waits in a modbuf or in a modbuf packet, or is about to.
InModbuf(o) == o \in packets.objects \/ \E m \in GenMutators : o \in Range(modbufs[m].objects)

BufferedObject(o) ==
    \/ InModbuf(o)
    \/ \E m \in GenMutators : writer[m].at = "log" /\ writer[m].src = o

BufferedRegion(o) ==
    \/ o \in packets.regions
    \/ \E m \in GenMutators : o \in Range(modbufs[m].regions)

\* A store into the object was made and its barrier has not decided yet.
InBarrier(o) == \E m \in GenMutators : writer[m].at \in {"post", "slow"} /\ writer[m].src = o

\* A logged object is in a modbuf, an object with a young referent is in a
\* modbuf or in a barrier, and the target of a store without a barrier is in a
\* modbuf before the store.
Remembered(o) ==
    /\ cells[o].unlog = 0 => BufferedObject(o)
    /\ cells[o].field # NullRef /\ Young(cells[o].field) =>
          BufferedObject(o) \/ BufferedRegion(o) \/ InBarrier(o)
    /\ (\E m \in GenMutators : writer[m].at = "raw" /\ writer[m].src = o) => BufferedObject(o)

\* While mutators run the old objects are remembered.
BarrierHolds(L) == \A o \in L : ~Young(o) => Remembered(o)

\* In a nursery collection: what is old by now leads to what is old by now, to
\* the queue, or is in a packet that will put its referent there.
NurseryClosure(L) ==
    /\ \A o \in stack : ~Young(o) \/ o \in cycle.queue
    /\ \A o \in L : ~Young(o) =>
          /\ cells[o].unlog = 0 => o \in packets.objects
          /\ \/ cells[o].field = NullRef
             \/ ~Young(cells[o].field)
             \/ cells[o].field \in cycle.queue
             \/ o \in packets.objects \cup packets.regions

\* In a full-heap collection: what is visited is old, unlogged, and leads to
\* what is visited or to the queue.
FullClosure(L) ==
    /\ \A o \in stack : Visited(o) \/ o \in cycle.queue
    /\ \A o \in L : Visited(o) =>
          /\ ~Young(o) /\ cells[o].unlog = 1
          /\ \/ cells[o].field = NullRef
             \/ Visited(cells[o].field)
             \/ cells[o].field \in cycle.queue

\* The large objects carry the mark of the last full-heap collection until the
\* next one is prepared.
LargeMarked(L) == \A o \in L : cells[o].space = "los" => cells[o].mark = cycle.los_state

\* L holds what the mutators hold and is closed; what else is known of it
\* depends on the phase.
LiveSet(L) ==
    /\ Held \subseteq L
    /\ \A o \in L : cells[o].space # "free" /\ cells[o].field \in L \cup {NullRef}
    /\ cycle.phase = "mutators" /\ ~cycle.panicked => LargeMarked(L) /\ BarrierHolds(L)
    /\ cycle.phase # "mutators" /\ ~cycle.gc_full_heap => LargeMarked(L) /\ NurseryClosure(L)
    /\ cycle.phase = "prepare" /\ cycle.gc_full_heap => LargeMarked(L) /\ cycle.queue = stack
    /\ cycle.phase = "closure" /\ cycle.gc_full_heap => FullClosure(L)

GenInv == GenShape /\ \E L \in SUBSET GenObjects : LiveSet(L)

-----------------------------------------------------------------------------
(* Numbers, sequences, and what the mutators can reach.                    *)

\* A non-empty set of naturals has a least element.
LEMMA LeastNat ==
    ASSUME NEW T \in SUBSET Nat, T # {}
    PROVE  \E x \in T : \A y \in T : x =< y
  <1> DEFINE R == {ss \in Nat \X Nat : ss[1] < ss[2]}
  <1>1. IsWellFoundedOn(R, Nat)
    BY NatLessThanWellFounded, SMTT(30) DEF OpToRel
  <1>2. \A x, y \in Nat : <<y, x>> \notin R => x =< y
    BY SMTT(30)
  <1> HIDE DEF R
  <1>3. PICK x \in T : \A y \in T : <<y, x>> \notin R
    BY <1>1, WFMin
  <1> QED
    BY <1>2, <1>3

\* The object that ProcessSlot takes is one of the queue.
LEMMA MinIsMember == ASSUME NEW T \in SUBSET GenObjects, T # {} PROVE Min(T) \in T
  <1>1. \E x \in T : \A y \in T : x =< y
    BY LeastNat, GenAssumption
  <1> QED
    BY <1>1 DEF Min

\* Induction up to n, for the hops of ReachableCells.
LEMMA UpTo ==
    ASSUME NEW n \in Nat, NEW good, 0 \in good, \A k \in 1 .. n : k - 1 \in good => k \in good
    PROVE  \A k \in 0 .. n : k \in good
  <1> DEFINE bad == {k \in 0 .. n : k \notin good}
  <1> SUFFICES ASSUME bad # {} PROVE FALSE
    OBVIOUS
  <1>1. bad \in SUBSET Nat
    BY SMTT(30)
  <1>2. PICK x \in bad : \A y \in bad : x =< y
    <2> HIDE DEF bad
    <2> QED
      BY <1>1, LeastNat
  <1>3. x \in 0 .. n /\ x \notin good /\ x # 0
    BY <1>2
  <1>4. x - 1 \in 0 .. n /\ ~(x =< x - 1) /\ x \in 1 .. n
    BY <1>3, SMTT(30)
  <1> QED
    BY <1>2, <1>3, <1>4

\* What the mutators reach lies in every set that holds what they hold and is
\* closed under fields: so ReachableCells is one of them at most.
LEMMA ReachableStays ==
    ASSUME NEW U, Held \subseteq U, \A o \in U : cells[o].field \in U \cup {NullRef}
    PROVE  ReachableCells \subseteq U
  <1> DEFINE n == Cardinality(GenObjects)
             Hop(X) == X \cup FieldsOf(X)
             Fun(g, k) == g = [i \in 0 .. k |-> IF i = 0 THEN Held ELSE Hop(g[i - 1])]
             W == CHOOSE g : Fun(g, n)
  <1>1. n \in Nat
    BY GenAssumption, FS_CardinalityType
  <1>2. ReachableCells = W[n]
    BY DEF ReachableCells, Held
  <1> HIDE DEF n
  <1>3. /\ n \in 0 .. n /\ 0 \in 0 .. n
        /\ \A i \in 1 .. n : i # 0 /\ i \in 0 .. n /\ i - 1 \in 0 .. n /\ i \in Nat
    BY <1>1, SMTT(30)
  <1>4. \E g : Fun(g, n)
    <2> DEFINE good == {k \in 0 .. n : \E g : Fun(g, k)}
    <2> HIDE DEF Hop
    <2>1. 0 \in good
      <3> DEFINE g0 == [i \in 0 .. 0 |-> Held]
      <3>1. \A i \in 0 .. 0 : i = 0
        BY SMTT(30)
      <3>2. g0 = [i \in 0 .. 0 |-> IF i = 0 THEN Held ELSE Hop(g0[i - 1])]
        BY <3>1
      <3> QED
        BY <1>3, <3>2
    <2>2. ASSUME NEW k \in 1 .. n, k - 1 \in good PROVE k \in good
      <3>1. PICK g : Fun(g, k - 1)
        BY <2>2
      <3> DEFINE h == [i \in 0 .. k |-> IF i = 0 THEN Held ELSE Hop(g[i - 1])]
      <3>2. /\ k \in Nat
            /\ \A i \in 0 .. k : i # 0 => i - 1 \in 0 .. k - 1
            /\ \A i \in 0 .. k - 1 : i \in 0 .. k
        BY <1>3, SMTT(30)
      <3>3. \A i \in 0 .. k - 1 : h[i] = g[i]
        BY <3>1, <3>2
      <3>4. \A i \in 0 .. k : h[i] = IF i = 0 THEN Held ELSE Hop(h[i - 1])
        BY <3>2, <3>3
      <3>5. Fun(h, k)
        BY <3>4
      <3> QED
        BY <1>3, <3>5
    <2>3. \A k \in 0 .. n : k \in good
      <3> HIDE DEF good
      <3> QED
        BY <1>1, <2>1, <2>2, UpTo
    <2> QED
      BY <1>3, <2>3
  <1>5. Fun(W, n)
    BY <1>4
  <1>6. W[0] = Held /\ \A i \in 1 .. n : W[i] = Hop(W[i - 1])
    <2> HIDE DEF W, Hop
    <2> QED
      BY <1>3, <1>5
  <1> HIDE DEF W
  <1> DEFINE in == {k \in 0 .. n : W[k] \subseteq U}
  <1>7. 0 \in in
    BY <1>3, <1>6
  <1>8. ASSUME NEW k \in 1 .. n, k - 1 \in in PROVE k \in in
    <2>1. W[k - 1] \subseteq U /\ W[k] = Hop(W[k - 1])
      BY <1>6, <1>8
    <2> QED
      BY <1>3, <2>1 DEF FieldsOf
  <1>9. \A k \in 0 .. n : k \in in
    <2> HIDE DEF in
    <2> QED
      BY <1>1, <1>7, <1>8, UpTo
  <1> QED
    BY <1>2, <1>3, <1>9

\* Appending to a modbuf adds one element to what it holds.
LEMMA AppendHolds ==
    ASSUME NEW s \in Seq(GenObjects), NEW o \in GenObjects
    PROVE  /\ Append(s, o) \in Seq(GenObjects)
           /\ Range(Append(s, o)) = Range(s) \cup {o}
           /\ Range(s) \subseteq GenObjects
  <1>1. /\ Append(s, o) \in Seq(GenObjects)
        /\ DOMAIN s = 1 .. Len(s) /\ Len(s) \in Nat
        /\ DOMAIN Append(s, o) = 1 .. Len(s) + 1
        /\ \A i \in 1 .. Len(s) : Append(s, o)[i] = s[i] /\ s[i] \in GenObjects
        /\ Append(s, o)[Len(s) + 1] = o
    BY SMTT(30)
  <1>2. /\ \A i \in 1 .. Len(s) + 1 : i \in 1 .. Len(s) \/ i = Len(s) + 1
        /\ \A i \in 1 .. Len(s) : i \in 1 .. Len(s) + 1
        /\ Len(s) + 1 \in 1 .. Len(s) + 1
    BY <1>1, SMTT(30)
  <1> QED
    BY <1>1, <1>2 DEF Range

\* An empty modbuf holds nothing.
LEMMA EmptyHolds == <<>> \in Seq(GenObjects) /\ Range(<<>>) = {}
  <1>1. <<>> \in Seq(GenObjects) /\ DOMAIN <<>> = {}
    BY SMTT(30)
  <1> QED
    BY <1>1 DEF Range

\* The invariant gives the property.
LEMMA InvGivesSurvival == GenInv => ReachableObjectsSurvive
  <1> SUFFICES ASSUME GenInv PROVE ReachableObjectsSurvive
    OBVIOUS
  <1>1. PICK L \in SUBSET GenObjects : LiveSet(L)
    BY DEF GenInv
  <1>2. ReachableCells \subseteq L
    BY <1>1, ReachableStays DEF LiveSet
  <1> QED
    BY <1>1, <1>2 DEF LiveSet, ReachableObjectsSurvive

-----------------------------------------------------------------------------
(* The modbufs lose nothing while mutators run.                            *)

\* What the shape says of one modbuf, one writer, one object.
LEMMA ShapeOf ==
    ASSUME GenShape
    PROVE  /\ \A m \in GenMutators : /\ modbufs[m].objects \in Seq(GenObjects)
                                     /\ modbufs[m].regions \in Seq(GenObjects)
                                     /\ writer[m].src \in Refs /\ writer[m].target \in Refs
                                     /\ writer[m].at # "safepoint" => writer[m].src \in GenObjects
           /\ \A o \in GenObjects : /\ cells[o].field \in Refs /\ cells[o].unlog \in 0 .. 1
                                    /\ cells[o].mark \in 0 .. 1 /\ cells[o].young \in 0 .. 1
           /\ packets.objects \subseteq GenObjects /\ packets.regions \subseteq GenObjects
           /\ stack \subseteq GenObjects /\ NullRef \notin GenObjects
  <1>1. NullRef \notin GenObjects
    BY GenAssumption, SMTT(30) DEF NullRef
  <1>2. ASSUME NEW m \in GenMutators
        PROVE  /\ modbufs[m].objects \in Seq(GenObjects)
               /\ modbufs[m].regions \in Seq(GenObjects)
               /\ writer[m].src \in Refs /\ writer[m].target \in Refs
               /\ writer[m].at # "safepoint" => writer[m].src \in GenObjects
    <2>1. modbufs[m] \in BufferType /\ writer[m] \in WriterType
      BY DEF GenShape
    <2>2. modbufs[m].objects \in Seq(GenObjects) /\ modbufs[m].regions \in Seq(GenObjects)
      BY <2>1 DEF BufferType
    <2>3. writer[m].src \in Refs /\ writer[m].target \in Refs
      BY <2>1 DEF WriterType
    <2>4. writer[m].at # "safepoint" => writer[m].src # NullRef
      BY DEF GenShape
    <2> QED
      BY <2>2, <2>3, <2>4 DEF Refs
  <1>3. ASSUME NEW o \in GenObjects
        PROVE  /\ cells[o].field \in Refs /\ cells[o].unlog \in 0 .. 1
               /\ cells[o].mark \in 0 .. 1 /\ cells[o].young \in 0 .. 1
    <2>1. cells[o] \in CellType
      BY DEF GenShape
    <2> QED
      BY <2>1 DEF CellType
  <1> QED
    BY <1>1, <1>2, <1>3 DEF GenShape

\* A modbuf is replaced in the record of its mutator.
LEMMA BufferReplaced ==
    ASSUME NEW S, NEW f \in [GenMutators -> [objects : S, regions : S]], NEW e \in S,
           NEW m \in GenMutators
    PROVE  /\ [f EXCEPT ![m].objects = e] \in [GenMutators -> [objects : S, regions : S]]
           /\ [f EXCEPT ![m].regions = e] \in [GenMutators -> [objects : S, regions : S]]
  BY SMTT(30)

\* The store of a buffer: what it held, it or the packets hold afterwards.
LEMMA PushKeeps ==
    ASSUME GenShape, NEW m \in GenMutators, NEW o \in GenObjects, PushObject(m, o)
    PROVE  /\ modbufs' \in [GenMutators -> BufferType]
           /\ packets' \in [objects : SUBSET GenObjects, regions : SUBSET GenObjects]
           /\ \A x : InModbuf(x) => InModbuf(x)'
           /\ InModbuf(o)'
           /\ \A x : BufferedRegion(x) => BufferedRegion(x)'
  <1> DEFINE buf == Append(modbufs[m].objects, o)
  <1>1. /\ buf \in Seq(GenObjects) /\ Range(buf) = Range(modbufs[m].objects) \cup {o}
        /\ Range(buf) \subseteq GenObjects
    <2>1. modbufs[m].objects \in Seq(GenObjects)
      BY ShapeOf
    <2> QED
      BY <2>1, AppendHolds
  <1>2. /\ modbufs \in [GenMutators -> BufferType]
        /\ packets \in [objects : SUBSET GenObjects, regions : SUBSET GenObjects]
    BY DEF GenShape
  <1> HIDE DEF buf
  <1>3. CASE flush_modbuf(m, buf)
    <2>1. /\ packets' = [packets EXCEPT !.objects = @ \cup Range(buf)]
          /\ modbufs' = [modbufs EXCEPT ![m].objects = <<>>]
      BY <1>3 DEF flush_modbuf
    <2>2. packets' \in [objects : SUBSET GenObjects, regions : SUBSET GenObjects]
      BY <1>1, <1>2, <2>1, SMTT(30)
    <2>3. packets'.objects = packets.objects \cup Range(buf) /\ packets'.regions = packets.regions
      BY <1>2, <2>1, SMTT(30)
    <2>4. modbufs' \in [GenMutators -> BufferType]
      BY <1>2, <2>1, EmptyHolds, BufferReplaced DEF BufferType
    <2>5. /\ \A k \in GenMutators : k # m => modbufs'[k] = modbufs[k]
          /\ modbufs'[m].regions = modbufs[m].regions
      BY <1>2, <2>1, SMTT(30) DEF BufferType
    <2>6. ASSUME NEW x, InModbuf(x) PROVE InModbuf(x)'
      BY <1>1, <2>3, <2>5, <2>6 DEF InModbuf
    <2>7. InModbuf(o)'
      BY <1>1, <2>3 DEF InModbuf
    <2>8. ASSUME NEW x, BufferedRegion(x) PROVE BufferedRegion(x)'
      BY <2>3, <2>5, <2>8 DEF BufferedRegion
    <2> QED
      BY <2>2, <2>4, <2>6, <2>7, <2>8
  <1>4. CASE modbufs' = [modbufs EXCEPT ![m].objects = Append(@, o)] /\ UNCHANGED packets
    <2>1. modbufs' = [modbufs EXCEPT ![m].objects = buf]
      BY <1>2, <1>4 DEF buf
    <2>2. modbufs' \in [GenMutators -> BufferType]
      BY <1>1, <1>2, <2>1, BufferReplaced DEF BufferType
    <2>3. /\ \A k \in GenMutators : k # m => modbufs'[k] = modbufs[k]
          /\ modbufs'[m].regions = modbufs[m].regions /\ modbufs'[m].objects = buf
      BY <1>2, <2>1, SMTT(30) DEF BufferType
    <2>4. ASSUME NEW x, InModbuf(x) PROVE InModbuf(x)'
      BY <1>1, <1>4, <2>3, <2>4 DEF InModbuf
    <2>5. InModbuf(o)'
      BY <1>1, <2>3 DEF InModbuf
    <2>6. ASSUME NEW x, BufferedRegion(x) PROVE BufferedRegion(x)'
      BY <1>4, <2>3, <2>6 DEF BufferedRegion
    <2> QED
      BY <1>2, <1>4, <2>2, <2>4, <2>5, <2>6
  <1> QED
    BY <1>3, <1>4 DEF PushObject, buf

\* The region's entry is kept by memory_region_copy_slow, unless the region
\* belongs to a young object.
LEMMA RegionPushKeeps ==
    ASSUME GenShape, NEW m \in GenMutators, NEW o \in GenObjects, NEW knows \in BOOLEAN,
           memory_region_copy_slow(m, o, knows)
    PROVE  /\ modbufs' \in [GenMutators -> BufferType]
           /\ packets' \in [objects : SUBSET GenObjects, regions : SUBSET GenObjects]
           /\ \A x : InModbuf(x) => InModbuf(x)'
           /\ \A x : BufferedRegion(x) => BufferedRegion(x)'
           /\ BufferedRegion(o)' \/ Young(o)
  <1> DEFINE buf == Append(modbufs[m].regions, o)
  <1>1. /\ buf \in Seq(GenObjects) /\ Range(buf) = Range(modbufs[m].regions) \cup {o}
        /\ Range(buf) \subseteq GenObjects
    <2>1. modbufs[m].regions \in Seq(GenObjects)
      BY ShapeOf
    <2> QED
      BY <2>1, AppendHolds
  <1>2. /\ modbufs \in [GenMutators -> BufferType]
        /\ packets \in [objects : SUBSET GenObjects, regions : SUBSET GenObjects]
    BY DEF GenShape
  <1> HIDE DEF buf
  <1>3. CASE flush_region_modbuf(m, buf)
    <2>1. /\ packets' = [packets EXCEPT !.regions = @ \cup Range(buf)]
          /\ modbufs' = [modbufs EXCEPT ![m].regions = <<>>]
      BY <1>3 DEF flush_region_modbuf
    <2>2. packets' \in [objects : SUBSET GenObjects, regions : SUBSET GenObjects]
      BY <1>1, <1>2, <2>1, SMTT(30)
    <2>3. packets'.regions = packets.regions \cup Range(buf) /\ packets'.objects = packets.objects
      BY <1>2, <2>1, SMTT(30)
    <2>4. modbufs' \in [GenMutators -> BufferType]
      BY <1>2, <2>1, EmptyHolds, BufferReplaced DEF BufferType
    <2>5. /\ \A k \in GenMutators : k # m => modbufs'[k] = modbufs[k]
          /\ modbufs'[m].objects = modbufs[m].objects
      BY <1>2, <2>1, SMTT(30) DEF BufferType
    <2>6. ASSUME NEW x, BufferedRegion(x) PROVE BufferedRegion(x)'
      BY <1>1, <2>3, <2>5, <2>6 DEF BufferedRegion
    <2>7. BufferedRegion(o)'
      BY <1>1, <2>3 DEF BufferedRegion
    <2>8. ASSUME NEW x, InModbuf(x) PROVE InModbuf(x)'
      BY <2>3, <2>5, <2>8 DEF InModbuf
    <2> QED
      BY <2>2, <2>4, <2>6, <2>7, <2>8
  <1>4. CASE modbufs' = [modbufs EXCEPT ![m].regions = Append(@, o)] /\ UNCHANGED packets
    <2>1. modbufs' = [modbufs EXCEPT ![m].regions = buf]
      BY <1>2, <1>4 DEF buf
    <2>2. modbufs' \in [GenMutators -> BufferType]
      BY <1>1, <1>2, <2>1, BufferReplaced DEF BufferType
    <2>3. /\ \A k \in GenMutators : k # m => modbufs'[k] = modbufs[k]
          /\ modbufs'[m].objects = modbufs[m].objects /\ modbufs'[m].regions = buf
      BY <1>2, <2>1, SMTT(30) DEF BufferType
    <2>4. ASSUME NEW x, BufferedRegion(x) PROVE BufferedRegion(x)'
      BY <1>1, <1>4, <2>3, <2>4 DEF BufferedRegion
    <2>5. BufferedRegion(o)'
      BY <1>1, <2>3 DEF BufferedRegion
    <2>6. ASSUME NEW x, InModbuf(x) PROVE InModbuf(x)'
      BY <1>4, <2>3, <2>6 DEF InModbuf
    <2> QED
      BY <1>2, <1>4, <2>2, <2>4, <2>5, <2>6
  <1>5. CASE /\ IF knows THEN is_object_in_nursery(o) ELSE is_address_in_nursery(o)
             /\ UNCHANGED <<modbufs, packets>>
    <2>1. Young(o)
      BY <1>5 DEF is_object_in_nursery, is_object_in_nursery_sticky, is_object_in_nursery_gen,
                  is_address_in_nursery, Young
    <2> QED
      BY <1>2, <1>5, <2>1 DEF InModbuf, BufferedRegion
  <1> QED
    BY <1>3, <1>4, <1>5 DEF memory_region_copy_slow, buf

-----------------------------------------------------------------------------
(* The steps of mutators.                                                  *)

\* A step of a mutator changes no more of the collection's state than the
\* count of operations.
SameCycle ==
    /\ cycle' \in CycleType
    /\ cycle'.plan = cycle.plan /\ cycle'.phase = cycle.phase /\ cycle'.panicked = cycle.panicked
    /\ cycle'.los_state = cycle.los_state /\ cycle'.copied = cycle.copied

\* A mutator runs between collections.
MutatorsRun == cycle.phase = "mutators" /\ ~cycle.panicked

\* The guard and the count of a mutator's operation.
LEMMA RunningFacts ==
    ASSUME GenShape, NEW m \in GenMutators, Running(m)
    PROVE  SameCycle /\ MutatorsRun /\ writer[m].at = "safepoint"
  <1>1. cycle \in CycleType /\ cycle' = [cycle EXCEPT !.operations = @ + 1]
    BY DEF GenShape, Running
  <1>2. cycle' \in CycleType
    BY <1>1, SMTT(30) DEF CycleType
  <1>3. /\ cycle'.plan = cycle.plan /\ cycle'.phase = cycle.phase /\ cycle'.panicked = cycle.panicked
        /\ cycle'.los_state = cycle.los_state /\ cycle'.copied = cycle.copied
    BY <1>1, SMTT(30) DEF CycleType
  <1> QED
    BY <1>2, <1>3 DEF SameCycle, MutatorsRun, Running

\* A mutator in the middle of an operation: no collection runs.
LEMMA BusyFacts ==
    ASSUME GenShape, NEW m \in GenMutators, writer[m].at # "safepoint", UNCHANGED cycle
    PROVE  SameCycle /\ MutatorsRun /\ writer[m].src \in GenObjects
  <1>1. writer[m].src \in GenObjects
    BY ShapeOf
  <1>2. cycle.phase = "mutators" /\ ~cycle.panicked
    BY DEF GenShape
  <1> QED
    BY <1>1, <1>2 DEF GenShape, SameCycle, MutatorsRun

\* The steps of mutators keep the shape if they keep the types, and the
\* invariant if some set is live afterwards.
LEMMA MutatorInv ==
    ASSUME GenShape, SameCycle, MutatorsRun,
           cells' \in [GenObjects -> CellType], stack' \in SUBSET GenObjects,
           writer' \in [GenMutators -> WriterType], modbufs' \in [GenMutators -> BufferType],
           packets' \in [objects : SUBSET GenObjects, regions : SUBSET GenObjects],
           \A m \in GenMutators : IF writer'[m].at = "safepoint"
                                  THEN writer'[m] = AtSafepoint ELSE writer'[m].src # NullRef,
           \A o \in GenObjects : SpaceUsed(cells'[o].space),
           NEW K \in SUBSET GenObjects, Held' \subseteq K,
           \A o \in K : cells'[o].space # "free" /\ cells'[o].field \in K \cup {NullRef},
           \A o \in K : cells'[o].space = "los" => cells'[o].mark = cycle.los_state,
           \A o \in K : ~Young(o)' => Remembered(o)'
    PROVE  GenInv'
  <1>1. cycle'.phase = "mutators" /\ ~cycle'.panicked /\ cycle'.copied = {} /\ cycle.copied = {}
    BY DEF SameCycle, MutatorsRun, GenShape
  <1>2. \A o \in GenObjects : SpaceUsed(cells[o].space)'
    BY DEF SpaceUsed, SameCycle
  <1>3. GenShape'
    BY <1>1, <1>2 DEF GenShape, SameCycle
  <1>4. LargeMarked(K)' /\ BarrierHolds(K)'
    BY DEF LargeMarked, BarrierHolds, SameCycle
  <1>5. LiveSet(K)'
    BY <1>1, <1>4 DEF LiveSet
  <1> QED
    BY <1>3, <1>5 DEF GenInv

\* What LiveSet says while mutators run.
LEMMA LiveFacts ==
    ASSUME GenShape, MutatorsRun, NEW L \in SUBSET GenObjects, LiveSet(L)
    PROVE  /\ Held \subseteq L /\ stack \subseteq L
           /\ \A m \in GenMutators : writer[m].src \in L \cup {NullRef} /\ writer[m].target \in L \cup {NullRef}
           /\ \A m \in GenMutators : writer[m].at # "safepoint" => writer[m].src \in L
           /\ \A o \in L : cells[o].space # "free" /\ cells[o].field \in L \cup {NullRef}
           /\ \A o \in L : cells[o].space = "los" => cells[o].mark = cycle.los_state
           /\ \A o \in L : ~Young(o) => Remembered(o)
  <1>1. Held \subseteq L
    BY DEF LiveSet
  <1>2. /\ \A o \in L : cells[o].space # "free" /\ cells[o].field \in L \cup {NullRef}
        /\ LargeMarked(L) /\ BarrierHolds(L)
    BY DEF LiveSet, MutatorsRun
  <1>3. stack \subseteq L
    BY <1>1, ShapeOf DEF Held
  <1>4. \A m \in GenMutators : writer[m].src \in L \cup {NullRef} /\ writer[m].target \in L \cup {NullRef}
    BY <1>1 DEF Held
  <1>5. \A m \in GenMutators : writer[m].at # "safepoint" => writer[m].src # NullRef
    BY DEF GenShape
  <1> QED
    BY <1>1, <1>2, <1>3, <1>4, <1>5 DEF LargeMarked, BarrierHolds

\* What the mutators hold lies in a set that holds the stack and what each of
\* them is storing.
LEMMA HeldIn ==
    ASSUME NEW K, stack' \subseteq K,
           \A k \in GenMutators : writer'[k].src \in K \cup {NullRef} /\ writer'[k].target \in K \cup {NullRef}
    PROVE  Held' \subseteq K
  BY DEF Held

\* Age is a matter of the space, the mark and the young bit.
LEMMA SameAge ==
    ASSUME NEW o, cycle'.plan = cycle.plan, cells'[o].space = cells[o].space,
           cells'[o].mark = cells[o].mark, cells'[o].young = cells[o].young
    PROVE  Young(o)' <=> Young(o)
  BY DEF Young

\* A store changes the field of one object.
LEMMA FieldStored ==
    ASSUME GenShape, NEW src \in GenObjects, NEW target \in Refs,
           cells' = [cells EXCEPT ![src].field = target]
    PROVE  /\ cells' \in [GenObjects -> CellType]
           /\ \A o \in GenObjects :
                 /\ cells'[o].space = cells[o].space /\ cells'[o].mark = cells[o].mark
                 /\ cells'[o].young = cells[o].young /\ cells'[o].unlog = cells[o].unlog
                 /\ cells'[o].field = IF o = src THEN target ELSE cells[o].field
  <1>1. cells \in [GenObjects -> CellType]
    BY DEF GenShape
  <1>2. cells' \in [GenObjects -> CellType]
    BY <1>1, SMTT(30) DEF CellType
  <1>3. \A o \in GenObjects : o # src => cells'[o] = cells[o]
    BY <1>1
  <1>4. cells'[src] = [cells[src] EXCEPT !.field = target] /\ cells[src] \in CellType
    BY <1>1
  <1>5. /\ cells'[src].space = cells[src].space /\ cells'[src].mark = cells[src].mark
        /\ cells'[src].young = cells[src].young /\ cells'[src].unlog = cells[src].unlog
        /\ cells'[src].field = target
    BY <1>4, SMTT(30) DEF CellType
  <1> QED
    BY <1>2, <1>3, <1>5

\* A mutator's record is replaced.
LEMMA WriterSet ==
    ASSUME GenShape, NEW m \in GenMutators, NEW w \in WriterType,
           writer' = [writer EXCEPT ![m] = w]
    PROVE  /\ writer' \in [GenMutators -> WriterType]
           /\ writer'[m] = w /\ \A k \in GenMutators : k # m => writer'[k] = writer[k]
  BY DEF GenShape

\* A mutator at its safepoint holds nothing.
LEMMA SafepointFacts ==
    /\ AtSafepoint \in WriterType
    /\ AtSafepoint.at = "safepoint" /\ AtSafepoint.src = NullRef /\ AtSafepoint.target = NullRef
  BY DEF AtSafepoint, WriterType, Refs

\* A new object is young or, in the immortal space, unlogged.
LEMMA AllocateStep ==
    ASSUME GenShape, NEW L \in SUBSET GenObjects, LiveSet(L), NEW m \in GenMutators, Allocate(m),
           ~HeaderMarks
    PROVE  GenInv'
  <1>1. SameCycle /\ MutatorsRun
    BY RunningFacts DEF Allocate
  <1>2. PICK o \in GenObjects, cell \in {AllocDefault, initialize_large_object, initialize_immortal_object} :
           /\ cells[o].space = "free" /\ cells' = [cells EXCEPT ![o] = cell]
           /\ stack' = stack \cup {o}
    BY DEF Allocate
  <1>3. UNCHANGED <<writer, modbufs, packets>>
    BY DEF Allocate
  <1>4. cycle \in CycleType /\ cycle.los_state \in 0 .. 1 /\ cells \in [GenObjects -> CellType]
    BY DEF GenShape, CycleType
  <1>5. NoCell \in CellType /\ NoCell.field = NullRef /\ NoCell.mark = 0 /\ NoCell.young = 0
    <2>1. 0 \in 0 .. 1
      BY SMTT(30)
    <2> QED
      BY <2>1 DEF NoCell, CellType, Refs
  <1>6. /\ cell \in CellType /\ cell.space # "free" /\ cell.field = NullRef
        /\ cell.space = "los" => cell.mark = cycle.los_state
        /\ cycle.plan = "sticky" => cell.space # "nursery"
        /\ cycle.plan = "gencopy" => cell.space # "immix"
        /\ \/ cell.space = "nursery" \/ (cell.space = "los" /\ cell.young = 1)
           \/ (cycle.plan = "sticky" /\ cell.space = "immix" /\ cell.mark = 0)
           \/ cell.unlog = 1
    <2>1. CASE cell = AllocDefault
      BY <1>5, <2>1, SMTT(30) DEF AllocDefault, CellType
    <2>2. CASE cell = initialize_large_object
      <3>1. cell = [NoCell EXCEPT !.space = "los", !.mark = cycle.los_state, !.young = 1]
        BY <2>2 DEF initialize_large_object
      <3>2. cell = [space |-> "los", field |-> NullRef, unlog |-> 0, mark |-> cycle.los_state, young |-> 1]
        BY <3>1 DEF NoCell
      <3>3. 0 \in 0 .. 1 /\ 1 \in 0 .. 1
        BY SMTT(30)
      <3> QED
        BY <1>4, <3>2, <3>3 DEF CellType, Refs
    <2>3. CASE cell = initialize_immortal_object
      <3>1. cell = [NoCell EXCEPT !.space = "immortal", !.unlog = 1, !.mark = 0]
        BY <2>3 DEF initialize_immortal_object, on_object_metadata_initialization
      <3>2. cell = [space |-> "immortal", field |-> NullRef, unlog |-> 1, mark |-> 0, young |-> 0]
        BY <3>1 DEF NoCell
      <3>3. 0 \in 0 .. 1 /\ 1 \in 0 .. 1
        BY SMTT(30)
      <3> QED
        BY <3>2, <3>3 DEF CellType, Refs
    <2> QED
      BY <2>1, <2>2, <2>3
  <1>7. /\ cells' \in [GenObjects -> CellType] /\ cells'[o] = cell
        /\ \A p \in GenObjects : p # o => cells'[p] = cells[p]
    BY <1>2, <1>4, <1>6
  <1>8. /\ stack \subseteq L /\ o \notin L /\ \A p \in L : p # o /\ p \in GenObjects
        /\ \A p \in L : cells[p].field \in L \cup {NullRef} /\ cells[p].space # "free"
        /\ \A p \in L : cells[p].space = "los" => cells[p].mark = cycle.los_state
        /\ \A p \in L : ~Young(p) => Remembered(p)
        /\ \A k \in GenMutators : writer[k].src \in L \cup {NullRef} /\ writer[k].target \in L \cup {NullRef}
    BY <1>1, <1>2, LiveFacts
  <1> DEFINE K == L \cup {o}
  <1>9. ASSUME NEW p \in K, ~Young(p)' PROVE Remembered(p)'
    <2>1. CASE p = o
      <3>1. cells'[p].unlog = 1 /\ cells'[p].field = NullRef
        BY <1>1, <1>6, <1>7, <1>9, <2>1 DEF Young, SameCycle
      <3>2. \A k \in GenMutators : writer'[k].src # p
        BY <1>3, <1>8, <2>1, ShapeOf
      <3>3. cells'[p].unlog # 0
        BY <3>1, SMTT(30)
      <3> QED
        BY <3>1, <3>2, <3>3 DEF Remembered
    <2>2. CASE p \in L
      <3>1. cells'[p] = cells[p] /\ (Young(p)' <=> Young(p))
        BY <1>1, <1>7, <1>8, <2>2, SameAge DEF SameCycle
      <3>2. Remembered(p)
        BY <1>8, <1>9, <2>2, <3>1
      <3>3. cells[p].field # NullRef => (Young(cells[p].field)' <=> Young(cells[p].field))
        <4>1. SUFFICES ASSUME NEW q \in L, q = cells[p].field PROVE Young(cells[p].field)' <=> Young(q)
          BY <1>8, <2>2
        <4>2. cells'[q] = cells[q]
          BY <1>7, <1>8
        <4> QED
          BY <1>1, <3>1, <4>1, <4>2 DEF SameCycle, Young
      <3>4. BufferedObject(p) => BufferedObject(p)'
        BY <1>3 DEF BufferedObject, InModbuf
      <3>5. BufferedRegion(p) => BufferedRegion(p)'
        BY <1>3 DEF BufferedRegion
      <3>6. InBarrier(p) => InBarrier(p)'
        BY <1>3 DEF InBarrier
      <3> QED
        BY <1>3, <3>1, <3>2, <3>3, <3>4, <3>5, <3>6 DEF Remembered
    <2> QED
      BY <2>1, <2>2
  <1>10. Held' \subseteq K
    BY <1>2, <1>3, <1>8, HeldIn
  <1>11. \A p \in K : cells'[p].space # "free" /\ cells'[p].field \in K \cup {NullRef}
    BY <1>6, <1>7, <1>8
  <1>12. \A p \in K : cells'[p].space = "los" => cells'[p].mark = cycle.los_state
    BY <1>6, <1>7, <1>8
  <1>13. \A p \in GenObjects : SpaceUsed(cells'[p].space)
    BY <1>6, <1>7 DEF GenShape, SpaceUsed
  <1>14. /\ stack' \in SUBSET GenObjects /\ writer' \in [GenMutators -> WriterType]
         /\ modbufs' \in [GenMutators -> BufferType]
         /\ packets' \in [objects : SUBSET GenObjects, regions : SUBSET GenObjects]
         /\ \A k \in GenMutators : IF writer'[k].at = "safepoint"
                                   THEN writer'[k] = AtSafepoint ELSE writer'[k].src # NullRef
    BY <1>2, <1>3 DEF GenShape
  <1>15. K \in SUBSET GenObjects
    OBVIOUS
  <1> HIDE DEF K
  <1> QED
    BY <1>1, <1>7, <1>9, <1>10, <1>11, <1>12, <1>13, <1>14, <1>15, MutatorInv

\* A load or a lost reference changes the stack, within L.
LEMMA LoadOrForgetStep ==
    ASSUME GenShape, NEW L \in SUBSET GenObjects, LiveSet(L), NEW m \in GenMutators, LoadOrForget(m)
    PROVE  GenInv'
  <1>1. SameCycle /\ MutatorsRun
    BY RunningFacts DEF LoadOrForget
  <1>2. UNCHANGED <<cells, writer, modbufs, packets>>
    BY DEF LoadOrForget
  <1>3. PICK o \in stack : stack' = stack \cup ({cells[o].field} \ {NullRef}) \/ stack' = stack \ {o}
    BY DEF LoadOrForget
  <1>4. /\ stack \subseteq L
        /\ \A p \in L : cells[p].field \in L \cup {NullRef} /\ cells[p].space # "free"
        /\ \A p \in L : cells[p].space = "los" => cells[p].mark = cycle.los_state
        /\ \A p \in L : ~Young(p) => Remembered(p)
        /\ \A k \in GenMutators : writer[k].src \in L \cup {NullRef} /\ writer[k].target \in L \cup {NullRef}
    BY <1>1, LiveFacts
  <1>5. stack' \subseteq L
    BY <1>3, <1>4
  <1>6. Held' \subseteq L
    BY <1>2, <1>4, <1>5, HeldIn
  <1>7. ASSUME NEW p \in L, ~Young(p)' PROVE Remembered(p)'
    <2>1. Young(p)' <=> Young(p)
      BY <1>1, <1>2 DEF SameCycle, Young
    <2>2. Young(cells[p].field)' <=> Young(cells[p].field)
      BY <1>1, <1>2 DEF SameCycle, Young
    <2>3. Remembered(p)
      BY <1>4, <1>7, <2>1
    <2>4. BufferedObject(p) => BufferedObject(p)'
      BY <1>2 DEF BufferedObject, InModbuf
    <2>5. BufferedRegion(p) => BufferedRegion(p)'
      BY <1>2 DEF BufferedRegion
    <2>6. InBarrier(p) => InBarrier(p)'
      BY <1>2 DEF InBarrier
    <2> QED
      BY <1>2, <2>2, <2>3, <2>4, <2>5, <2>6 DEF Remembered
  <1>8. \A p \in L : cells'[p].space # "free" /\ cells'[p].field \in L \cup {NullRef}
    BY <1>2, <1>4
  <1>9. \A p \in L : cells'[p].space = "los" => cells'[p].mark = cycle.los_state
    BY <1>2, <1>4
  <1>10. /\ stack' \in SUBSET GenObjects /\ writer' \in [GenMutators -> WriterType]
         /\ cells' \in [GenObjects -> CellType]
         /\ modbufs' \in [GenMutators -> BufferType]
         /\ packets' \in [objects : SUBSET GenObjects, regions : SUBSET GenObjects]
         /\ \A k \in GenMutators : IF writer'[k].at = "safepoint"
                                   THEN writer'[k] = AtSafepoint ELSE writer'[k].src # NullRef
         /\ \A p \in GenObjects : SpaceUsed(cells'[p].space)
    BY <1>2, <1>5 DEF GenShape
  <1> QED
    BY <1>1, <1>6, <1>7, <1>8, <1>9, <1>10, MutatorInv

\* The modbufs or a barrier take care of the object.
Tracked(o) == BufferedObject(o) \/ BufferedRegion(o) \/ InBarrier(o)

\* A step of a store or of its barrier, in which no object ages, keeps the
\* invariant if the old objects it touches stay remembered.
LEMMA StoreInv ==
    ASSUME GenShape, SameCycle, MutatorsRun, NEW L \in SUBSET GenObjects, LiveSet(L),
           stack' = stack, cells' \in [GenObjects -> CellType],
           \A o \in GenObjects : /\ cells'[o].space = cells[o].space /\ cells'[o].mark = cells[o].mark
                                 /\ cells'[o].young = cells[o].young,
           \A o \in L : cells'[o].field \in L \cup {NullRef},
           writer' \in [GenMutators -> WriterType], modbufs' \in [GenMutators -> BufferType],
           packets' \in [objects : SUBSET GenObjects, regions : SUBSET GenObjects],
           \A k \in GenMutators : IF writer'[k].at = "safepoint"
                                  THEN writer'[k] = AtSafepoint ELSE writer'[k].src # NullRef,
           \A k \in GenMutators : writer'[k].src \in L \cup {NullRef} /\ writer'[k].target \in L \cup {NullRef},
           \A o \in L : ~Young(o) /\ cells'[o].unlog = 0 => BufferedObject(o)',
           \A o \in L : ~Young(o) => Tracked(o)' \/ (cells'[o].field = cells[o].field /\ ~Tracked(o)),
           \A o \in L, k \in GenMutators :
              ~Young(o) /\ writer'[k].at = "raw" /\ writer'[k].src = o => BufferedObject(o)'
    PROVE  GenInv'
  <1>1. /\ stack \subseteq L
        /\ \A p \in L : cells[p].field \in L \cup {NullRef} /\ cells[p].space # "free"
        /\ \A p \in L : cells[p].space = "los" => cells[p].mark = cycle.los_state
        /\ \A p \in L : ~Young(p) => Remembered(p)
    BY LiveFacts
  <1>2. Held' \subseteq L
    BY <1>1, HeldIn
  <1>3. \A p \in L : cells'[p].space # "free" /\ cells'[p].field \in L \cup {NullRef}
    BY <1>1
  <1>4. \A p \in L : cells'[p].space = "los" => cells'[p].mark = cycle.los_state
    BY <1>1
  <1>5. \A p \in GenObjects : SpaceUsed(cells'[p].space)
    BY DEF GenShape
  <1>6. \A p \in GenObjects : Young(p)' <=> Young(p)
    BY SameAge DEF SameCycle
  <1>7. ASSUME NEW p \in L, ~Young(p)' PROVE Remembered(p)'
    <2>1. ~Young(p) /\ Remembered(p)
      BY <1>1, <1>6, <1>7
    <2>2. ASSUME NEW q \in L, q = cells'[p].field, Young(q)' PROVE Tracked(p)'
      <3>1. Young(q)
        BY <1>6, <2>2
      <3>2. CASE cells'[p].field = cells[p].field /\ ~Tracked(p)
        <4>1. cells[p].field = q /\ q # NullRef
          BY <2>2, <3>2, ShapeOf
        <4> QED
          BY <2>1, <3>1, <3>2, <4>1 DEF Remembered, Tracked
      <3> QED
        BY <2>1, <3>2
    <2>3. cells'[p].field # NullRef /\ Young(cells[p].field)' => Tracked(p)'
      <3> SUFFICES ASSUME cells'[p].field # NullRef, Young(cells[p].field)' PROVE Tracked(p)'
        OBVIOUS
      <3>1. PICK q \in L : q = cells'[p].field
        BY <1>3
      <3>2. Young(q)'
        BY <3>1 DEF Young
      <3> QED
        BY <2>2, <3>1, <3>2
    <2> QED
      BY <2>1, <2>3 DEF Remembered, Tracked
  <1>8. stack' \in SUBSET GenObjects
    BY DEF GenShape
  <1> QED
    BY <1>2, <1>3, <1>4, <1>5, <1>7, <1>8, MutatorInv

\* The store is made; its barrier is still to come.
LEMMA StoreFieldStep ==
    ASSUME GenShape, NEW L \in SUBSET GenObjects, LiveSet(L), NEW m \in GenMutators, StoreField(m)
    PROVE  GenInv'
  <1>1. SameCycle /\ MutatorsRun /\ writer[m].at = "safepoint"
    BY RunningFacts DEF StoreField
  <1>2. UNCHANGED <<stack, modbufs, packets>>
    BY DEF StoreField
  <1>3. PICK src \in stack, target \in stack \cup {NullRef} :
           /\ cells' = [cells EXCEPT ![src].field = target]
           /\ writer' = [writer EXCEPT ![m] = [at |-> "post", src |-> src, target |-> target]]
    BY DEF StoreField
  <1> DEFINE w == [at |-> "post", src |-> src, target |-> target]
  <1>4. /\ stack \subseteq L
        /\ \A p \in L : cells[p].field \in L \cup {NullRef}
        /\ \A p \in L : ~Young(p) => Remembered(p)
        /\ \A k \in GenMutators : writer[k].src \in L \cup {NullRef} /\ writer[k].target \in L \cup {NullRef}
    BY <1>1, LiveFacts
  <1>5. src \in GenObjects /\ target \in Refs /\ NullRef \notin GenObjects
    BY <1>3, <1>4, ShapeOf DEF Refs
  <1>6. /\ cells' \in [GenObjects -> CellType]
        /\ \A o \in GenObjects :
              /\ cells'[o].space = cells[o].space /\ cells'[o].mark = cells[o].mark
              /\ cells'[o].young = cells[o].young /\ cells'[o].unlog = cells[o].unlog
              /\ cells'[o].field = IF o = src THEN target ELSE cells[o].field
    BY <1>3, <1>5, FieldStored
  <1>7. w \in WriterType /\ w.at = "post" /\ w.src = src /\ w.target = target
    BY <1>5 DEF WriterType, Refs
  <1>8. /\ writer' \in [GenMutators -> WriterType]
        /\ writer'[m] = w /\ \A k \in GenMutators : k # m => writer'[k] = writer[k]
    <2> HIDE DEF w
    <2>1. writer' = [writer EXCEPT ![m] = w]
      BY <1>3 DEF w
    <2> QED
      BY <1>7, <2>1, WriterSet
  <1> HIDE DEF w
  <1>9. \A o : /\ BufferedObject(o) => BufferedObject(o)'
               /\ BufferedRegion(o) => BufferedRegion(o)'
               /\ InBarrier(o) => InBarrier(o)'
    <2> SUFFICES ASSUME NEW o
                 PROVE  /\ BufferedObject(o) => BufferedObject(o)'
                        /\ BufferedRegion(o) => BufferedRegion(o)'
                        /\ InBarrier(o) => InBarrier(o)'
      OBVIOUS
    <2>1. BufferedObject(o) => BufferedObject(o)'
      BY <1>1, <1>2, <1>8 DEF BufferedObject, InModbuf
    <2>2. BufferedRegion(o) => BufferedRegion(o)'
      BY <1>2 DEF BufferedRegion
    <2>3. InBarrier(o) => InBarrier(o)'
      BY <1>1, <1>8 DEF InBarrier
    <2> QED
      BY <2>1, <2>2, <2>3
  <1>10. InBarrier(src)'
    BY <1>7, <1>8 DEF InBarrier
  <1>11. ASSUME NEW o \in L PROVE cells'[o].field \in L \cup {NullRef}
    <2>1. target \in L \cup {NullRef} /\ cells[o].field \in L \cup {NullRef}
      BY <1>3, <1>4
    <2>2. cells'[o].field = IF o = src THEN target ELSE cells[o].field
      BY <1>6
    <2> QED
      BY <2>1, <2>2
  <1>12. \A k \in GenMutators : IF writer'[k].at = "safepoint"
                                THEN writer'[k] = AtSafepoint ELSE writer'[k].src # NullRef
    BY <1>5, <1>7, <1>8 DEF GenShape
  <1>13. \A k \in GenMutators : writer'[k].src \in L \cup {NullRef} /\ writer'[k].target \in L \cup {NullRef}
    BY <1>3, <1>4, <1>7, <1>8
  <1>14. \A o \in L : ~Young(o) /\ cells'[o].unlog = 0 => BufferedObject(o)'
    BY <1>4, <1>6, <1>9 DEF Remembered
  <1>15. \A o \in L : ~Young(o) => Tracked(o)' \/ (cells'[o].field = cells[o].field /\ ~Tracked(o))
    BY <1>6, <1>9, <1>10 DEF Tracked
  <1>16. \A o \in L, k \in GenMutators :
            ~Young(o) /\ writer'[k].at = "raw" /\ writer'[k].src = o => BufferedObject(o)'
    BY <1>4, <1>7, <1>8, <1>9 DEF Remembered
  <1>17. /\ modbufs' \in [GenMutators -> BufferType]
         /\ packets' \in [objects : SUBSET GenObjects, regions : SUBSET GenObjects]
         /\ stack' = stack
    BY <1>2 DEF GenShape
  <1> QED
    BY <1>1, <1>6, <1>8, <1>11, <1>12, <1>13, <1>14, <1>15, <1>16, <1>17, StoreInv

\* The fast path of the barrier: a logged object needs nothing more.
LEMMA WritePostStep ==
    ASSUME GenShape, NEW L \in SUBSET GenObjects, LiveSet(L), NEW m \in GenMutators,
           object_reference_write_post(m)
    PROVE  GenInv'
  <1>1. writer[m].at = "post" /\ UNCHANGED <<cells, stack, modbufs, packets, cycle>>
    BY DEF object_reference_write_post
  <1>2. PICK src \in GenObjects : src = writer[m].src
    BY <1>1, BusyFacts
  <1>3. SameCycle /\ MutatorsRun
    BY <1>1, BusyFacts
  <1>4. /\ \A p \in L : cells[p].field \in L \cup {NullRef}
        /\ \A p \in L : ~Young(p) => Remembered(p)
        /\ \A k \in GenMutators : writer[k].src \in L \cup {NullRef} /\ writer[k].target \in L \cup {NullRef}
    BY <1>3, LiveFacts
  <1> DEFINE w == IF object_is_unlogged(src) THEN [writer[m] EXCEPT !.at = "slow"] ELSE AtSafepoint
  <1>5. writer \in [GenMutators -> WriterType] /\ writer[m] \in WriterType
    BY DEF GenShape
  <1>6. /\ w \in WriterType /\ w.at = IF object_is_unlogged(src) THEN "slow" ELSE "safepoint"
        /\ w.src = IF object_is_unlogged(src) THEN src ELSE NullRef
        /\ w.target = IF object_is_unlogged(src) THEN writer[m].target ELSE NullRef
        /\ ~object_is_unlogged(src) => w = AtSafepoint
    <2>1. CASE object_is_unlogged(src)
      BY <1>2, <1>5, <2>1, SMTT(30) DEF WriterType
    <2>2. CASE ~object_is_unlogged(src)
      BY <2>2, SafepointFacts
    <2> QED
      BY <2>1, <2>2
  <1>7. writer' = [writer EXCEPT ![m] = w]
    BY <1>2, <1>5 DEF object_reference_write_post
  <1> HIDE DEF w
  <1>8. /\ writer' \in [GenMutators -> WriterType]
        /\ writer'[m] = w /\ \A k \in GenMutators : k # m => writer'[k] = writer[k]
    BY <1>6, <1>7, WriterSet
  <1>9. \A o : BufferedObject(o) => BufferedObject(o)'
    BY <1>1, <1>8 DEF BufferedObject, InModbuf
  <1>10. \A o : BufferedRegion(o) => BufferedRegion(o)'
    BY <1>1 DEF BufferedRegion
  <1>11. \A o : o # src => (InBarrier(o) => InBarrier(o)')
    BY <1>2, <1>8 DEF InBarrier
  <1>12. ASSUME src \in L, ~Young(src) PROVE BufferedObject(src)' \/ InBarrier(src)'
    <2>1. CASE object_is_unlogged(src)
      BY <1>6, <1>8, <2>1 DEF InBarrier
    <2>2. CASE ~object_is_unlogged(src)
      BY <1>4, <1>9, <1>12, <2>2 DEF Remembered, object_is_unlogged
    <2> QED
      BY <2>1, <2>2
  <1>13. \A o \in L : ~Young(o) => Tracked(o)' \/ (cells'[o].field = cells[o].field /\ ~Tracked(o))
    BY <1>1, <1>9, <1>10, <1>11, <1>12 DEF Tracked
  <1>14. \A k \in GenMutators : IF writer'[k].at = "safepoint"
                                THEN writer'[k] = AtSafepoint ELSE writer'[k].src # NullRef
    BY <1>2, <1>6, <1>8, ShapeOf DEF GenShape
  <1>15. \A k \in GenMutators : writer'[k].src \in L \cup {NullRef} /\ writer'[k].target \in L \cup {NullRef}
    <2>1. w.src \in L \cup {NullRef} /\ w.target \in L \cup {NullRef}
      BY <1>2, <1>4, <1>6
    <2> QED
      BY <1>4, <1>8, <2>1
  <1>16. \A o \in L : ~Young(o) /\ cells'[o].unlog = 0 => BufferedObject(o)'
    BY <1>1, <1>4, <1>9 DEF Remembered
  <1>17. \A o \in L, k \in GenMutators :
            ~Young(o) /\ writer'[k].at = "raw" /\ writer'[k].src = o => BufferedObject(o)'
    BY <1>4, <1>6, <1>8, <1>9 DEF Remembered
  <1>18. /\ modbufs' \in [GenMutators -> BufferType] /\ cells' \in [GenObjects -> CellType]
         /\ packets' \in [objects : SUBSET GenObjects, regions : SUBSET GenObjects]
         /\ stack' = stack
    BY <1>1 DEF GenShape
  <1> QED
    BY <1>1, <1>3, <1>4, <1>8, <1>13, <1>14, <1>15, <1>16, <1>17, <1>18, StoreInv

\* The compare-exchange: the winner is about to fill its modbuf, and a loser
\* has seen the object logged.
LEMMA LogObjectStep ==
    ASSUME GenShape, NEW L \in SUBSET GenObjects, LiveSet(L), NEW m \in GenMutators, log_object(m)
    PROVE  GenInv'
  <1>1. writer[m].at = "slow" /\ UNCHANGED <<stack, modbufs, packets, cycle>>
    BY DEF log_object
  <1>2. PICK src \in GenObjects : src = writer[m].src
    BY <1>1, BusyFacts
  <1>3. SameCycle /\ MutatorsRun
    BY <1>1, BusyFacts
  <1>4. /\ \A p \in L : cells[p].field \in L \cup {NullRef}
        /\ \A p \in L : ~Young(p) => Remembered(p)
        /\ \A k \in GenMutators : writer[k].src \in L \cup {NullRef} /\ writer[k].target \in L \cup {NullRef}
    BY <1>3, LiveFacts
  <1> DEFINE w == IF object_is_unlogged(src) THEN [writer[m] EXCEPT !.at = "log"] ELSE AtSafepoint
  <1>5. writer \in [GenMutators -> WriterType] /\ writer[m] \in WriterType
    BY DEF GenShape
  <1>6. /\ w \in WriterType /\ w.at = IF object_is_unlogged(src) THEN "log" ELSE "safepoint"
        /\ w.src = IF object_is_unlogged(src) THEN src ELSE NullRef
        /\ w.target = IF object_is_unlogged(src) THEN writer[m].target ELSE NullRef
        /\ ~object_is_unlogged(src) => w = AtSafepoint
    <2>1. CASE object_is_unlogged(src)
      BY <1>2, <1>5, <2>1, SMTT(30) DEF WriterType
    <2>2. CASE ~object_is_unlogged(src)
      BY <2>2, SafepointFacts
    <2> QED
      BY <2>1, <2>2
  <1>7. writer' = [writer EXCEPT ![m] = w] /\ cells' = [cells EXCEPT ![src].unlog = 0]
    BY <1>2, <1>5 DEF log_object
  <1> HIDE DEF w
  <1>8. /\ writer' \in [GenMutators -> WriterType]
        /\ writer'[m] = w /\ \A k \in GenMutators : k # m => writer'[k] = writer[k]
    BY <1>6, <1>7, WriterSet
  <1>9. \A o : BufferedObject(o) => BufferedObject(o)'
    BY <1>1, <1>8 DEF BufferedObject, InModbuf
  <1>10. \A o : BufferedRegion(o) => BufferedRegion(o)'
    BY <1>1 DEF BufferedRegion
  <1>11. \A o : o # src => (InBarrier(o) => InBarrier(o)')
    BY <1>2, <1>8 DEF InBarrier
  <1>12. ASSUME src \in L, ~Young(src) PROVE BufferedObject(src)'
    <2>1. CASE object_is_unlogged(src)
      BY <1>6, <1>8, <2>1 DEF BufferedObject
    <2>2. CASE ~object_is_unlogged(src)
      BY <1>4, <1>9, <1>12, <2>2 DEF Remembered, object_is_unlogged
    <2> QED
      BY <2>1, <2>2
  <1>13. /\ cells' \in [GenObjects -> CellType]
         /\ \A o \in GenObjects :
              /\ cells'[o].space = cells[o].space /\ cells'[o].mark = cells[o].mark
              /\ cells'[o].young = cells[o].young /\ cells'[o].field = cells[o].field
              /\ o # src => cells'[o].unlog = cells[o].unlog
    <2>1. cells \in [GenObjects -> CellType] /\ cells[src] \in CellType
      BY DEF GenShape
    <2>2. cells' \in [GenObjects -> CellType]
      BY <1>7, <2>1, SMTT(30) DEF CellType
    <2>3. /\ cells'[src] = [cells[src] EXCEPT !.unlog = 0]
          /\ \A o \in GenObjects : o # src => cells'[o] = cells[o]
      BY <1>7, <2>1
    <2>4. /\ cells'[src].space = cells[src].space /\ cells'[src].mark = cells[src].mark
          /\ cells'[src].young = cells[src].young /\ cells'[src].field = cells[src].field
      BY <2>1, <2>3, SMTT(30) DEF CellType
    <2> QED
      BY <2>2, <2>3, <2>4
  <1>14. \A o \in L : ~Young(o) => Tracked(o)' \/ (cells'[o].field = cells[o].field /\ ~Tracked(o))
    BY <1>9, <1>10, <1>11, <1>12, <1>13 DEF Tracked
  <1>15. \A k \in GenMutators : IF writer'[k].at = "safepoint"
                                THEN writer'[k] = AtSafepoint ELSE writer'[k].src # NullRef
    BY <1>2, <1>6, <1>8, ShapeOf DEF GenShape
  <1>16. \A k \in GenMutators : writer'[k].src \in L \cup {NullRef} /\ writer'[k].target \in L \cup {NullRef}
    <2>1. w.src \in L \cup {NullRef} /\ w.target \in L \cup {NullRef}
      BY <1>2, <1>4, <1>6
    <2> QED
      BY <1>4, <1>8, <2>1
  <1>17. \A o \in L : ~Young(o) /\ cells'[o].unlog = 0 => BufferedObject(o)'
    BY <1>4, <1>9, <1>12, <1>13 DEF Remembered
  <1>18. \A o \in L, k \in GenMutators :
            ~Young(o) /\ writer'[k].at = "raw" /\ writer'[k].src = o => BufferedObject(o)'
    BY <1>4, <1>6, <1>8, <1>9 DEF Remembered
  <1>19. /\ modbufs' \in [GenMutators -> BufferType]
         /\ packets' \in [objects : SUBSET GenObjects, regions : SUBSET GenObjects]
         /\ stack' = stack
    BY <1>1 DEF GenShape
  <1>20. \A o \in L : cells'[o].field \in L \cup {NullRef}
    BY <1>4, <1>13
  <1> QED
    BY <1>3, <1>8, <1>13, <1>14, <1>15, <1>16, <1>17, <1>18, <1>19, <1>20, StoreInv

\* The slow path puts the object into the modbuf.
LEMMA WriteSlowStep ==
    ASSUME GenShape, NEW L \in SUBSET GenObjects, LiveSet(L), NEW m \in GenMutators,
           object_reference_write_slow(m)
    PROVE  GenInv'
  <1>1. /\ writer[m].at = "log" /\ UNCHANGED <<cells, stack, cycle>>
        /\ writer' = [writer EXCEPT ![m] = AtSafepoint]
    BY DEF object_reference_write_slow
  <1>2. PICK src \in GenObjects : src = writer[m].src
    BY <1>1, BusyFacts
  <1>3. SameCycle /\ MutatorsRun
    BY <1>1, BusyFacts
  <1>4. /\ \A p \in L : cells[p].field \in L \cup {NullRef}
        /\ \A p \in L : ~Young(p) => Remembered(p)
        /\ \A k \in GenMutators : writer[k].src \in L \cup {NullRef} /\ writer[k].target \in L \cup {NullRef}
    BY <1>3, LiveFacts
  <1>5. /\ writer' \in [GenMutators -> WriterType]
        /\ writer'[m] = AtSafepoint /\ \A k \in GenMutators : k # m => writer'[k] = writer[k]
    BY <1>1, WriterSet, SafepointFacts
  <1>6. /\ modbufs' \in [GenMutators -> BufferType]
        /\ packets' \in [objects : SUBSET GenObjects, regions : SUBSET GenObjects]
        /\ \A x : InModbuf(x) => InModbuf(x)'
        /\ InModbuf(src)'
        /\ \A x : BufferedRegion(x) => BufferedRegion(x)'
    BY <1>2, PushKeeps DEF object_reference_write_slow
  <1>7. \A o : BufferedObject(o) => BufferedObject(o)'
    BY <1>2, <1>5, <1>6 DEF BufferedObject
  <1>8. \A o : InBarrier(o) => InBarrier(o)'
    BY <1>1, <1>5 DEF InBarrier
  <1>9. \A o \in L : ~Young(o) => Tracked(o)' \/ (cells'[o].field = cells[o].field /\ ~Tracked(o))
    BY <1>1, <1>6, <1>7, <1>8 DEF Tracked
  <1>10. \A k \in GenMutators : IF writer'[k].at = "safepoint"
                                THEN writer'[k] = AtSafepoint ELSE writer'[k].src # NullRef
    BY <1>5, SafepointFacts DEF GenShape
  <1>11. \A k \in GenMutators : writer'[k].src \in L \cup {NullRef} /\ writer'[k].target \in L \cup {NullRef}
    BY <1>4, <1>5, SafepointFacts
  <1>12. \A o \in L : ~Young(o) /\ cells'[o].unlog = 0 => BufferedObject(o)'
    BY <1>1, <1>4, <1>7 DEF Remembered
  <1>13. \A o \in L, k \in GenMutators :
            ~Young(o) /\ writer'[k].at = "raw" /\ writer'[k].src = o => BufferedObject(o)'
    BY <1>4, <1>5, <1>7, SafepointFacts DEF Remembered
  <1>14. cells' \in [GenObjects -> CellType] /\ stack' = stack
    BY <1>1 DEF GenShape
  <1> QED
    BY <1>1, <1>3, <1>4, <1>5, <1>6, <1>9, <1>10, <1>11, <1>12, <1>13, <1>14, StoreInv

\* A copied slice is remembered as a region, unless its object is young.
LEMMA CopyRegionStep ==
    ASSUME GenShape, NEW L \in SUBSET GenObjects, LiveSet(L), NEW m \in GenMutators, CopyRegion(m)
    PROVE  GenInv'
  <1>1. SameCycle /\ MutatorsRun /\ UNCHANGED <<stack, writer>>
    BY RunningFacts DEF CopyRegion
  <1>2. PICK dst \in stack, target \in stack, knows \in BOOLEAN :
           cells' = [cells EXCEPT ![dst].field = target] /\ memory_region_copy_slow(m, dst, knows)
    BY DEF CopyRegion
  <1>3. /\ stack \subseteq L
        /\ \A p \in L : cells[p].field \in L \cup {NullRef}
        /\ \A p \in L : ~Young(p) => Remembered(p)
        /\ \A k \in GenMutators : writer[k].src \in L \cup {NullRef} /\ writer[k].target \in L \cup {NullRef}
    BY <1>1, LiveFacts
  <1>4. dst \in GenObjects /\ target \in Refs /\ target \in L
    BY <1>2, <1>3 DEF Refs
  <1>5. /\ cells' \in [GenObjects -> CellType]
        /\ \A o \in GenObjects :
              /\ cells'[o].space = cells[o].space /\ cells'[o].mark = cells[o].mark
              /\ cells'[o].young = cells[o].young /\ cells'[o].unlog = cells[o].unlog
              /\ cells'[o].field = IF o = dst THEN target ELSE cells[o].field
    BY <1>2, <1>4, FieldStored
  <1>6. /\ modbufs' \in [GenMutators -> BufferType]
        /\ packets' \in [objects : SUBSET GenObjects, regions : SUBSET GenObjects]
        /\ \A x : InModbuf(x) => InModbuf(x)'
        /\ \A x : BufferedRegion(x) => BufferedRegion(x)'
        /\ BufferedRegion(dst)' \/ Young(dst)
    BY <1>2, <1>4, RegionPushKeeps
  <1>7. \A o : BufferedObject(o) => BufferedObject(o)'
    BY <1>1, <1>6 DEF BufferedObject
  <1>8. \A o : InBarrier(o) => InBarrier(o)'
    BY <1>1 DEF InBarrier
  <1>9. \A o \in L : ~Young(o) => Tracked(o)' \/ (cells'[o].field = cells[o].field /\ ~Tracked(o))
    BY <1>5, <1>6, <1>7, <1>8 DEF Tracked
  <1>10. /\ \A k \in GenMutators : IF writer'[k].at = "safepoint"
                                   THEN writer'[k] = AtSafepoint ELSE writer'[k].src # NullRef
         /\ writer' \in [GenMutators -> WriterType]
         /\ stack' = stack
    BY <1>1 DEF GenShape
  <1>11. \A k \in GenMutators : writer'[k].src \in L \cup {NullRef} /\ writer'[k].target \in L \cup {NullRef}
    BY <1>1, <1>3
  <1>12. \A o \in L : ~Young(o) /\ cells'[o].unlog = 0 => BufferedObject(o)'
    BY <1>3, <1>5, <1>7 DEF Remembered
  <1>13. \A o \in L, k \in GenMutators :
            ~Young(o) /\ writer'[k].at = "raw" /\ writer'[k].src = o => BufferedObject(o)'
    BY <1>1, <1>3, <1>7 DEF Remembered
  <1>14. ASSUME NEW o \in L PROVE cells'[o].field \in L \cup {NullRef}
    <2>1. cells[o].field \in L \cup {NullRef}
      BY <1>3
    <2>2. cells'[o].field = IF o = dst THEN target ELSE cells[o].field
      BY <1>5
    <2> QED
      BY <1>4, <2>1, <2>2
  <1> QED
    BY <1>1, <1>5, <1>6, <1>9, <1>10, <1>11, <1>12, <1>13, <1>14, StoreInv

\* The barrier before a store without one queues the object.
LEMMA ProbableWriteStep ==
    ASSUME GenShape, NEW L \in SUBSET GenObjects, LiveSet(L), NEW m \in GenMutators,
           object_probable_write(m)
    PROVE  GenInv'
  <1>1. SameCycle /\ MutatorsRun /\ writer[m].at = "safepoint" /\ UNCHANGED <<cells, stack>>
    BY RunningFacts DEF object_probable_write
  <1>2. PICK src \in stack, target \in stack :
           /\ IF object_is_unlogged(src) THEN PushObject(m, src) ELSE UNCHANGED <<modbufs, packets>>
           /\ writer' = [writer EXCEPT ![m] = [at |-> "raw", src |-> src, target |-> target]]
    BY DEF object_probable_write
  <1> DEFINE w == [at |-> "raw", src |-> src, target |-> target]
  <1>3. /\ stack \subseteq L
        /\ \A p \in L : cells[p].field \in L \cup {NullRef}
        /\ \A p \in L : ~Young(p) => Remembered(p)
        /\ \A k \in GenMutators : writer[k].src \in L \cup {NullRef} /\ writer[k].target \in L \cup {NullRef}
    BY <1>1, LiveFacts
  <1>4. src \in GenObjects /\ src \in L /\ target \in L /\ src # NullRef /\ target \in Refs
    BY <1>2, <1>3, ShapeOf DEF Refs
  <1>5. w \in WriterType /\ w.at = "raw" /\ w.src = src /\ w.target = target
    BY <1>4 DEF WriterType, Refs
  <1>6. /\ writer' \in [GenMutators -> WriterType]
        /\ writer'[m] = w /\ \A k \in GenMutators : k # m => writer'[k] = writer[k]
    <2> HIDE DEF w
    <2>1. writer' = [writer EXCEPT ![m] = w]
      BY <1>2 DEF w
    <2> QED
      BY <1>5, <2>1, WriterSet
  <1> HIDE DEF w
  <1>7. /\ modbufs' \in [GenMutators -> BufferType]
        /\ packets' \in [objects : SUBSET GenObjects, regions : SUBSET GenObjects]
        /\ \A x : InModbuf(x) => InModbuf(x)'
        /\ object_is_unlogged(src) => InModbuf(src)'
        /\ \A x : BufferedRegion(x) => BufferedRegion(x)'
    <2>1. CASE object_is_unlogged(src)
      BY <1>2, <1>4, <2>1, PushKeeps
    <2>2. CASE ~object_is_unlogged(src)
      BY <1>2, <2>2 DEF GenShape, InModbuf, BufferedRegion
    <2> QED
      BY <2>1, <2>2
  <1>8. \A o : BufferedObject(o) => BufferedObject(o)'
    BY <1>1, <1>6, <1>7 DEF BufferedObject
  <1>9. \A o : InBarrier(o) => InBarrier(o)'
    BY <1>1, <1>6 DEF InBarrier
  <1>10. \A o \in L : ~Young(o) => Tracked(o)' \/ (cells'[o].field = cells[o].field /\ ~Tracked(o))
    BY <1>1, <1>7, <1>8, <1>9 DEF Tracked
  <1>11. ~Young(src) => BufferedObject(src)'
    BY <1>3, <1>4, <1>7, <1>8 DEF Remembered, object_is_unlogged, BufferedObject
  <1>12. \A k \in GenMutators : IF writer'[k].at = "safepoint"
                                THEN writer'[k] = AtSafepoint ELSE writer'[k].src # NullRef
    BY <1>4, <1>5, <1>6 DEF GenShape
  <1>13. \A k \in GenMutators : writer'[k].src \in L \cup {NullRef} /\ writer'[k].target \in L \cup {NullRef}
    BY <1>3, <1>4, <1>5, <1>6
  <1>14. \A o \in L : ~Young(o) /\ cells'[o].unlog = 0 => BufferedObject(o)'
    BY <1>1, <1>3, <1>8 DEF Remembered
  <1>15. \A o \in L, k \in GenMutators :
            ~Young(o) /\ writer'[k].at = "raw" /\ writer'[k].src = o => BufferedObject(o)'
    BY <1>3, <1>5, <1>6, <1>8, <1>11 DEF Remembered
  <1>16. cells' \in [GenObjects -> CellType] /\ stack' = stack
    BY <1>1 DEF GenShape
  <1> QED
    BY <1>1, <1>3, <1>6, <1>7, <1>10, <1>12, <1>13, <1>14, <1>15, <1>16, StoreInv

\* The store without a barrier: its object is in a modbuf already.
LEMMA StoreWithoutBarrierStep ==
    ASSUME GenShape, NEW L \in SUBSET GenObjects, LiveSet(L), NEW m \in GenMutators,
           StoreWithoutBarrier(m)
    PROVE  GenInv'
  <1>1. writer[m].at = "raw" /\ UNCHANGED <<stack, modbufs, packets, cycle>>
    BY DEF StoreWithoutBarrier
  <1>2. SameCycle /\ MutatorsRun
    BY <1>1, BusyFacts
  <1>3. /\ \A p \in L : cells[p].field \in L \cup {NullRef}
        /\ \A p \in L : ~Young(p) => Remembered(p)
        /\ \A k \in GenMutators : writer[k].src \in L \cup {NullRef} /\ writer[k].target \in L \cup {NullRef}
    BY <1>2, LiveFacts
  <1>4. PICK src \in GenObjects, target \in Refs : src = writer[m].src /\ target = writer[m].target
    BY <1>1, ShapeOf
  <1>5. /\ cells' = [cells EXCEPT ![src].field = target]
        /\ writer' = [writer EXCEPT ![m] = AtSafepoint]
    BY <1>4 DEF StoreWithoutBarrier
  <1>6. /\ cells' \in [GenObjects -> CellType]
        /\ \A o \in GenObjects :
              /\ cells'[o].space = cells[o].space /\ cells'[o].mark = cells[o].mark
              /\ cells'[o].young = cells[o].young /\ cells'[o].unlog = cells[o].unlog
              /\ cells'[o].field = IF o = src THEN target ELSE cells[o].field
    BY <1>5, FieldStored
  <1>7. /\ writer' \in [GenMutators -> WriterType]
        /\ writer'[m] = AtSafepoint /\ \A k \in GenMutators : k # m => writer'[k] = writer[k]
    BY <1>5, WriterSet, SafepointFacts
  <1>8. \A o : BufferedObject(o) => BufferedObject(o)'
    BY <1>1, <1>7 DEF BufferedObject, InModbuf
  <1>9. \A o : BufferedRegion(o) => BufferedRegion(o)'
    BY <1>1 DEF BufferedRegion
  <1>10. \A o : InBarrier(o) => InBarrier(o)'
    BY <1>1, <1>7 DEF InBarrier
  <1>11. ASSUME src \in L, ~Young(src) PROVE BufferedObject(src)'
    BY <1>1, <1>3, <1>4, <1>8, <1>11 DEF Remembered
  <1>12. \A o \in L : ~Young(o) => Tracked(o)' \/ (cells'[o].field = cells[o].field /\ ~Tracked(o))
    BY <1>6, <1>8, <1>9, <1>10, <1>11 DEF Tracked
  <1>13. \A k \in GenMutators : IF writer'[k].at = "safepoint"
                                THEN writer'[k] = AtSafepoint ELSE writer'[k].src # NullRef
    BY <1>7, SafepointFacts DEF GenShape
  <1>14. \A k \in GenMutators : writer'[k].src \in L \cup {NullRef} /\ writer'[k].target \in L \cup {NullRef}
    BY <1>3, <1>7, SafepointFacts
  <1>15. \A o \in L : ~Young(o) /\ cells'[o].unlog = 0 => BufferedObject(o)'
    BY <1>3, <1>6, <1>8 DEF Remembered
  <1>16. \A o \in L, k \in GenMutators :
            ~Young(o) /\ writer'[k].at = "raw" /\ writer'[k].src = o => BufferedObject(o)'
    BY <1>3, <1>7, <1>8, SafepointFacts DEF Remembered
  <1>17. /\ modbufs' \in [GenMutators -> BufferType]
         /\ packets' \in [objects : SUBSET GenObjects, regions : SUBSET GenObjects]
         /\ stack' = stack
    BY <1>1 DEF GenShape
  <1>18. ASSUME NEW o \in L PROVE cells'[o].field \in L \cup {NullRef}
    <2>1. cells[o].field \in L \cup {NullRef} /\ target \in L \cup {NullRef}
      BY <1>3, <1>4
    <2>2. cells'[o].field = IF o = src THEN target ELSE cells[o].field
      BY <1>6
    <2> QED
      BY <2>1, <2>2
  <1> QED
    BY <1>2, <1>6, <1>7, <1>12, <1>13, <1>14, <1>15, <1>16, <1>17, <1>18, StoreInv

-----------------------------------------------------------------------------
(* The steps of a collection.                                              *)

\* The mutators are stopped: nothing is in a barrier, and the stack is what
\* they hold.
Stopped == \A m \in GenMutators : writer[m].at = "safepoint"

\* A collection's step leaves the mutators alone.
LEMMA StoppedFacts ==
    ASSUME GenShape, Stopped, NEW L \in SUBSET GenObjects, LiveSet(L)
    PROVE  /\ \A m \in GenMutators : writer[m] = AtSafepoint
           /\ Held = stack /\ stack \subseteq L
  <1>1. \A m \in GenMutators : writer[m] = AtSafepoint
    BY DEF GenShape, Stopped
  <1>2. Held = stack
    BY <1>1, SafepointFacts, ShapeOf DEF Held
  <1> QED
    BY <1>1, <1>2 DEF LiveSet

\* The collection's record keeps its type when one of its fields is set.
LEMMA CycleSet ==
    ASSUME NEW c \in CycleType
    PROVE  /\ \A x \in {"mutators", "prepare", "closure"} : [c EXCEPT !.phase = x] \in CycleType
           /\ \A x \in BOOLEAN : [c EXCEPT !.gc_full_heap = x] \in CycleType
           /\ \A x \in BOOLEAN : [c EXCEPT !.panicked = x] \in CycleType
           /\ \A x \in SUBSET GenObjects : [c EXCEPT !.queue = x] \in CycleType
           /\ \A x \in SUBSET GenObjects : [c EXCEPT !.copied = x] \in CycleType
           /\ \A x \in 0 .. 1 : [c EXCEPT !.los_state = x] \in CycleType
           /\ \A x \in {1} : [c EXCEPT !.immortal_state = x] \in CycleType
           /\ \A x \in Nat : [c EXCEPT !.operations = x] \in CycleType
           /\ \A x \in Nat : [c EXCEPT !.collections = x] \in CycleType
  <1>1. \A x \in {"mutators", "prepare", "closure"} : [c EXCEPT !.phase = x] \in CycleType
    BY SMTT(30) DEF CycleType
  <1>2. \A x \in BOOLEAN : [c EXCEPT !.gc_full_heap = x] \in CycleType
    BY SMTT(30) DEF CycleType
  <1>3. \A x \in BOOLEAN : [c EXCEPT !.panicked = x] \in CycleType
    BY SMTT(30) DEF CycleType
  <1>4. \A x \in SUBSET GenObjects : [c EXCEPT !.queue = x] \in CycleType
    BY SMTT(30) DEF CycleType
  <1>5. \A x \in SUBSET GenObjects : [c EXCEPT !.copied = x] \in CycleType
    BY SMTT(30) DEF CycleType
  <1>6. \A x \in 0 .. 1 : [c EXCEPT !.los_state = x] \in CycleType
    BY SMTT(30) DEF CycleType
  <1>7. \A x \in {1} : [c EXCEPT !.immortal_state = x] \in CycleType
    BY SMTT(30) DEF CycleType
  <1>8. \A x \in Nat : [c EXCEPT !.operations = x] \in CycleType
    BY SMTT(30) DEF CycleType
  <1>9. \A x \in Nat : [c EXCEPT !.collections = x] \in CycleType
    BY SMTT(30) DEF CycleType
  <1> QED
    BY <1>1, <1>2, <1>3, <1>4, <1>5, <1>6, <1>7, <1>8, <1>9

\* The mutators stop: what is remembered is in the packets.
LEMMA StopAndScheduleStep ==
    ASSUME GenShape, NEW L \in SUBSET GenObjects, LiveSet(L), StopAndSchedule
    PROVE  GenInv'
  <1>1. /\ MutatorsRun /\ Stopped /\ UNCHANGED <<cells, stack, writer>>
        /\ packets' = [objects |-> packets.objects \cup UNION {Range(modbufs[m].objects) : m \in GenMutators},
                       regions |-> packets.regions \cup UNION {Range(modbufs[m].regions) : m \in GenMutators}]
        /\ modbufs' = [m \in GenMutators |-> [objects |-> <<>>, regions |-> <<>>]]
    BY DEF StopAndSchedule, MutatorsRun, Stopped
  <1>2. PICK full \in BOOLEAN :
           cycle' = [cycle EXCEPT !.phase = "prepare", !.queue = stack,
                       !.operations = 0, !.collections = @ + 1, !.gc_full_heap = full]
    BY DEF StopAndSchedule
  <1>3. cycle \in CycleType /\ stack \in SUBSET GenObjects
    BY DEF GenShape
  <1>4. /\ cycle'.phase = "prepare" /\ cycle'.queue = stack /\ cycle'.gc_full_heap = full
        /\ cycle'.plan = cycle.plan /\ cycle'.los_state = cycle.los_state
        /\ cycle'.copied = cycle.copied /\ cycle'.panicked = cycle.panicked
        /\ cycle' \in CycleType
    <2>1. PICK n \in Nat : n = cycle.collections + 1
      <3>1. cycle.collections \in Nat
        BY <1>3 DEF CycleType
      <3> QED
        BY <3>1, SMTT(30)
    <2>2. cycle' = [cycle EXCEPT !.phase = "prepare", !.queue = stack,
                      !.operations = 0, !.collections = n, !.gc_full_heap = full]
      BY <1>2, <1>3, <2>1, SMTT(30) DEF CycleType
    <2>3. PICK c1 \in CycleType : c1 = [cycle EXCEPT !.phase = "prepare"]
      BY <1>3, CycleSet
    <2>4. PICK c2 \in CycleType : c2 = [c1 EXCEPT !.queue = stack]
      BY <1>3, CycleSet
    <2>5. PICK c3 \in CycleType : c3 = [c2 EXCEPT !.operations = 0]
      BY CycleSet, 0 \in Nat
    <2>6. PICK c4 \in CycleType : c4 = [c3 EXCEPT !.collections = n]
      BY CycleSet
    <2>7. PICK c5 \in CycleType : c5 = [c4 EXCEPT !.gc_full_heap = full]
      BY CycleSet
    <2>8. cycle' = c5
      BY <2>2, <2>3, <2>4, <2>5, <2>6, <2>7
    <2>9. /\ cycle'.phase = "prepare" /\ cycle'.queue = stack /\ cycle'.gc_full_heap = full
          /\ cycle'.plan = cycle.plan /\ cycle'.los_state = cycle.los_state
          /\ cycle'.copied = cycle.copied /\ cycle'.panicked = cycle.panicked
      BY <1>3, <2>2, SMTT(30) DEF CycleType
    <2> QED
      BY <2>8, <2>9
  <1>5. /\ packets'.objects = packets.objects \cup UNION {Range(modbufs[m].objects) : m \in GenMutators}
        /\ packets'.regions = packets.regions \cup UNION {Range(modbufs[m].regions) : m \in GenMutators}
    BY <1>1
  <1>6. packets' \in [objects : SUBSET GenObjects, regions : SUBSET GenObjects]
    <2>1. ASSUME NEW m \in GenMutators
          PROVE  Range(modbufs[m].objects) \subseteq GenObjects /\ Range(modbufs[m].regions) \subseteq GenObjects
      <3>1. modbufs[m].objects \in Seq(GenObjects) /\ modbufs[m].regions \in Seq(GenObjects)
        BY ShapeOf
      <3>2. ASSUME NEW s \in Seq(GenObjects) PROVE Range(s) \subseteq GenObjects
        <4>1. DOMAIN s = 1 .. Len(s) /\ \A i \in 1 .. Len(s) : s[i] \in GenObjects
          BY SMTT(30)
        <4> QED
          BY <4>1 DEF Range
      <3> QED
        BY <3>1, <3>2
    <2>2. packets.objects \subseteq GenObjects /\ packets.regions \subseteq GenObjects
      BY ShapeOf
    <2> QED
      BY <1>1, <2>1, <2>2
  <1>7. modbufs' \in [GenMutators -> BufferType]
    BY <1>1, EmptyHolds DEF BufferType
  <1>8. cycle.phase = "mutators" /\ ~cycle.panicked /\ cycle.copied = {}
    BY <1>1 DEF MutatorsRun, GenShape
  <1>9. \A o \in GenObjects : SpaceUsed(cells[o].space)'
    BY <1>1, <1>4 DEF GenShape, SpaceUsed
  <1>10. GenShape'
    BY <1>1, <1>4, <1>6, <1>7, <1>8, <1>9 DEF GenShape, Stopped
  <1>11. /\ stack \subseteq L
         /\ \A p \in L : cells[p].field \in L \cup {NullRef} /\ cells[p].space # "free"
         /\ \A p \in L : cells[p].space = "los" => cells[p].mark = cycle.los_state
         /\ \A p \in L : ~Young(p) => Remembered(p)
    BY <1>1, LiveFacts
  <1>12. \A p : Young(p)' <=> Young(p)
    BY <1>1, <1>4 DEF Young
  <1>13. /\ \A p : BufferedObject(p) => p \in packets'.objects
         /\ \A p : BufferedRegion(p) => p \in packets'.regions
         /\ \A p : ~InBarrier(p)
    <2>1. ASSUME NEW p, BufferedObject(p) PROVE p \in packets'.objects
      BY <1>1, <1>5, <2>1 DEF BufferedObject, InModbuf, Stopped
    <2>2. ASSUME NEW p, BufferedRegion(p) PROVE p \in packets'.regions
      BY <1>5, <2>2 DEF BufferedRegion
    <2>3. ASSUME NEW p PROVE ~InBarrier(p)
      BY <1>1 DEF InBarrier, Stopped
    <2> QED
      BY <2>1, <2>2, <2>3
  <1>14. NurseryClosure(L)'
    <2>1. \A o \in stack' : ~Young(o)' \/ o \in cycle'.queue
      BY <1>1, <1>4
    <2>2. ASSUME NEW o \in L, ~Young(o)'
          PROVE  /\ cells'[o].unlog = 0 => o \in packets'.objects
                 /\ \/ cells'[o].field = NullRef \/ ~Young(cells[o].field)'
                    \/ cells'[o].field \in cycle'.queue
                    \/ o \in packets'.objects \cup packets'.regions
      <3>1. Remembered(o)
        BY <1>11, <1>12, <2>2
      <3>2. Young(cells[o].field)' <=> Young(cells[o].field)
        BY <1>1, <1>4 DEF Young
      <3> QED
        BY <1>1, <1>13, <3>1, <3>2 DEF Remembered
    <2> QED
      BY <2>1, <2>2 DEF NurseryClosure
  <1>15. Held' \subseteq L
    BY <1>1 DEF Held, LiveSet
  <1>16. LargeMarked(L)'
    BY <1>1, <1>4, <1>11 DEF LargeMarked
  <1>17. LiveSet(L)'
    BY <1>1, <1>4, <1>11, <1>14, <1>15, <1>16 DEF LiveSet
  <1> QED
    BY <1>10, <1>17 DEF GenInv

\* What Prepare does to an object.
LEMMA PrepareFacts ==
    ASSUME GenShape, Prepare, ~HeaderMarks, NEW o \in GenObjects
    PROVE  /\ cells'[o] \in CellType
           /\ cells'[o].space = cells[o].space /\ cells'[o].field = cells[o].field
           /\ cells'[o].young = cells[o].young
           /\ ~cycle.gc_full_heap => /\ cells'[o].unlog = cells[o].unlog
                                     /\ cells[o].space # "immortal" => cells'[o].mark = cells[o].mark
           /\ cells[o].space = "los" => cells'[o].mark = cells[o].mark
           /\ cycle.gc_full_heap /\ cells[o].space \in {"immix", "immortal"} => cells'[o].mark = 0
  <1> DEFINE c == cells[o]
             Zero(d) == [d EXCEPT !.mark = 0]
             Clear(d) == [d EXCEPT !.mark = 0, !.unlog = 0]
  <1>1. c \in CellType
    BY DEF GenShape
  <1>2. cycle.plan \in {"gencopy", "genimmix", "sticky"}
    BY DEF GenShape, CycleType
  <1>3. cells'[o] = CASE cycle.plan = "gencopy" -> prepare_gencopy(c)
                      [] cycle.plan = "genimmix" -> prepare_genimmix(c)
                      [] cycle.plan = "sticky" -> prepare_sticky(c)
    BY DEF Prepare
  <1>4. cells'[o] = IF cycle.plan = "gencopy" THEN prepare_gencopy(c)
                    ELSE IF cycle.plan = "genimmix" THEN prepare_genimmix(c) ELSE prepare_sticky(c)
    BY <1>2, <1>3
  <1>5. 0 \in 0 .. 1
    BY SMTT(30)
  <1>6. /\ Zero(c) \in CellType /\ Zero(c).space = c.space /\ Zero(c).field = c.field
        /\ Zero(c).young = c.young /\ Zero(c).unlog = c.unlog /\ Zero(c).mark = 0
    BY <1>1, <1>5, SMTT(30) DEF CellType
  <1>7. /\ Clear(c) \in CellType /\ Clear(c).space = c.space /\ Clear(c).field = c.field
        /\ Clear(c).young = c.young /\ Clear(c).mark = 0
    <2>1. PICK c1 \in CellType : c1 = Zero(c)
      BY <1>6
    <2>2. PICK c2 \in CellType : c2 = [c1 EXCEPT !.unlog = 0]
      <3>1. [c1 EXCEPT !.unlog = 0] \in CellType
        BY <1>5, SMTT(30) DEF CellType
      <3> QED
        BY <3>1
    <2>3. Clear(c) = c2
      BY <2>1, <2>2
    <2>4. c2.space = c1.space /\ c2.field = c1.field /\ c2.young = c1.young /\ c2.mark = c1.mark
      BY <2>2, SMTT(30) DEF CellType
    <2> HIDE DEF Clear, Zero
    <2> QED
      BY <1>6, <2>1, <2>3, <2>4
  <1>8. prepare_immortal(c) = IF c.space = "immortal" THEN Zero(c) ELSE c
    BY DEF prepare_immortal
  <1>9. ClearedForMajor(prepare_immortal(c)) =
           IF c.space = "immortal" THEN Zero(c) ELSE IF c.space = "immix" THEN Clear(c) ELSE c
    BY <1>6, <1>8 DEF ClearedForMajor
  <1>10. cycle.plan = "gencopy" => c.space # "immix"
    BY DEF GenShape, SpaceUsed
  <1> HIDE DEF c, Zero, Clear
  <1>11. \/ cells'[o] = c /\ ~(cycle.gc_full_heap /\ c.space \in {"immix", "immortal"})
         \/ cells'[o] = Zero(c) /\ c.space = "immortal"
         \/ cells'[o] = Clear(c) /\ c.space = "immix" /\ cycle.gc_full_heap
    BY <1>4, <1>8, <1>9, <1>10 DEF prepare_gencopy, prepare_genimmix, prepare_sticky
  <1>12. c = cells[o]
    BY DEF c
  <1> QED
    BY <1>1, <1>6, <1>7, <1>11, <1>12

\* After Prepare a nursery collection is where it was; in a full-heap
\* collection no live object counts as visited.
LEMMA PrepareStep ==
    ASSUME GenShape, NEW L \in SUBSET GenObjects, LiveSet(L), Prepare, ~HeaderMarks
    PROVE  GenInv'
  <1>1. /\ cycle.phase = "prepare" /\ UNCHANGED <<stack, writer, modbufs, packets>>
        /\ cycle' = [cycle EXCEPT !.phase = "closure", !.los_state = prepare_los(cycle.gc_full_heap)]
        /\ DOMAIN cells' = GenObjects
    BY DEF Prepare
  <1>2. cycle \in CycleType
    BY DEF GenShape
  <1>3. /\ prepare_los(cycle.gc_full_heap) \in 0 .. 1
        /\ cycle.gc_full_heap => prepare_los(cycle.gc_full_heap) # cycle.los_state
        /\ ~cycle.gc_full_heap => prepare_los(cycle.gc_full_heap) = cycle.los_state
    <2>1. cycle.los_state \in 0 .. 1
      BY <1>2 DEF CycleType
    <2>2. 1 - cycle.los_state \in 0 .. 1 /\ 1 - cycle.los_state # cycle.los_state
      BY <2>1, SMTT(30)
    <2> QED
      BY <2>1, <2>2 DEF prepare_los
  <1>4. /\ cycle'.phase = "closure" /\ cycle'.queue = cycle.queue
        /\ cycle'.gc_full_heap = cycle.gc_full_heap
        /\ cycle'.plan = cycle.plan /\ cycle'.los_state = prepare_los(cycle.gc_full_heap)
        /\ cycle'.copied = cycle.copied /\ cycle'.panicked = cycle.panicked
        /\ cycle' \in CycleType
    <2>1. PICK c1 \in CycleType : c1 = [cycle EXCEPT !.phase = "closure"]
      BY <1>2, CycleSet
    <2>2. PICK c2 \in CycleType : c2 = [c1 EXCEPT !.los_state = prepare_los(cycle.gc_full_heap)]
      BY <1>3, CycleSet
    <2>3. cycle' = c2
      BY <1>1, <2>1, <2>2
    <2>4. /\ cycle'.phase = "closure" /\ cycle'.queue = cycle.queue
          /\ cycle'.gc_full_heap = cycle.gc_full_heap
          /\ cycle'.plan = cycle.plan /\ cycle'.los_state = prepare_los(cycle.gc_full_heap)
          /\ cycle'.copied = cycle.copied /\ cycle'.panicked = cycle.panicked
      BY <1>1, <1>2, SMTT(30) DEF CycleType
    <2> QED
      BY <2>3, <2>4
  <1>5. cells' \in [GenObjects -> CellType]
    <2> DEFINE e(o) == CASE cycle.plan = "gencopy" -> prepare_gencopy(cells[o])
                         [] cycle.plan = "genimmix" -> prepare_genimmix(cells[o])
                         [] cycle.plan = "sticky" -> prepare_sticky(cells[o])
    <2>1. cells' = [o \in GenObjects |-> e(o)]
      BY DEF Prepare
    <2> HIDE DEF e
    <2>2. \A o \in GenObjects : cells'[o] \in CellType
      BY PrepareFacts
    <2> QED
      BY <2>1, <2>2
  <1>6. cycle.copied = {} /\ ~cycle.panicked /\ Stopped
    BY <1>1 DEF GenShape, Stopped
  <1>7. \A o \in GenObjects : SpaceUsed(cells[o].space)'
    BY <1>4, PrepareFacts DEF GenShape, SpaceUsed
  <1>8. GenShape'
    BY <1>1, <1>2, <1>4, <1>5, <1>6, <1>7 DEF GenShape, Stopped
  <1>9. /\ LargeMarked(L) /\ Held \subseteq L
        /\ \A o \in L : cells[o].space # "free" /\ cells[o].field \in L \cup {NullRef}
        /\ ~cycle.gc_full_heap => NurseryClosure(L)
        /\ cycle.gc_full_heap => cycle.queue = stack
    BY <1>1 DEF LiveSet
  <1>10. Held' \subseteq L
    BY <1>1, <1>9 DEF Held
  <1>11. \A o \in L : cells'[o].space # "free" /\ cells'[o].field \in L \cup {NullRef}
    BY <1>9, PrepareFacts
  <1>12. ASSUME ~cycle.gc_full_heap PROVE LargeMarked(L)' /\ NurseryClosure(L)'
    <2>1. LargeMarked(L)'
      BY <1>3, <1>4, <1>9, <1>12, PrepareFacts DEF LargeMarked
    <2>2. ASSUME NEW p \in GenObjects PROVE Young(p)' <=> Young(p)
      <3>1. /\ cells'[p].space = cells[p].space /\ cells'[p].young = cells[p].young
            /\ cells[p].space = "immix" => cells'[p].mark = cells[p].mark
        BY <1>12, PrepareFacts
      <3> QED
        BY <1>4, <3>1 DEF Young
    <2>3. stack \subseteq GenObjects
      BY ShapeOf
    <2>4. \A o \in stack' : ~Young(o)' \/ o \in cycle'.queue
      BY <1>1, <1>4, <1>9, <1>12, <2>2, <2>3 DEF NurseryClosure
    <2>5. ASSUME NEW o \in L, ~Young(o)'
          PROVE  /\ cells'[o].unlog = 0 => o \in packets'.objects
                 /\ \/ cells'[o].field = NullRef \/ ~Young(cells[o].field)'
                    \/ cells'[o].field \in cycle'.queue
                    \/ o \in packets'.objects \cup packets'.regions
      <3>1. /\ cells[o].unlog = 0 => o \in packets.objects
            /\ \/ cells[o].field = NullRef \/ ~Young(cells[o].field)
               \/ cells[o].field \in cycle.queue
               \/ o \in packets.objects \cup packets.regions
        BY <1>9, <1>12, <2>2, <2>5 DEF NurseryClosure
      <3>2. cells'[o].field = cells[o].field /\ cells'[o].unlog = cells[o].unlog
        BY <1>12, PrepareFacts
      <3>3. cells[o].field # NullRef => (Young(cells[o].field)' <=> Young(cells[o].field))
        <4> SUFFICES ASSUME NEW q \in GenObjects, q = cells[o].field
                     PROVE  Young(cells[o].field)' <=> Young(q)
          BY <1>9
        <4>1. Young(cells[o].field)' <=> Young(q)'
          BY <3>2 DEF Young
        <4> QED
          BY <2>2, <4>1
      <3> QED
        BY <1>1, <1>4, <3>1, <3>2, <3>3
    <2> QED
      BY <2>1, <2>4, <2>5 DEF NurseryClosure
  <1>13. ASSUME cycle.gc_full_heap PROVE FullClosure(L)'
    <2>1. ASSUME NEW o \in L PROVE ~Visited(o)'
      <3>1. CASE cells[o].space \in {"immix", "immortal"}
        <4>1. cells'[o].mark = 0 /\ cells'[o].space = cells[o].space /\ 0 # 1
          BY <1>13, <3>1, PrepareFacts, SMTT(30)
        <4> QED
          BY <3>1, <4>1 DEF Visited
      <3>2. CASE cells[o].space = "los"
        <4>1. cells'[o].mark = cycle.los_state /\ cells'[o].space = "los"
          BY <1>9, <3>2, PrepareFacts DEF LargeMarked
        <4> QED
          BY <1>3, <1>4, <1>13, <4>1 DEF Visited
      <3>3. CASE cells[o].space \notin {"immix", "immortal", "los"}
        <4>1. cells'[o].space = cells[o].space
          BY PrepareFacts
        <4> QED
          BY <1>4, <1>6, <3>3, <4>1 DEF Visited
      <3> QED
        BY <3>1, <3>2, <3>3
    <2>2. \A o \in stack' : o \in cycle'.queue
      BY <1>1, <1>4, <1>9, <1>13
    <2> QED
      BY <2>1, <2>2 DEF FullClosure
  <1>14. LiveSet(L)'
    BY <1>4, <1>10, <1>11, <1>12, <1>13 DEF LiveSet
  <1> QED
    BY <1>8, <1>14 DEF GenInv

\* A step of the closure changes the queue and the copied objects of the
\* collection's record.
ClosureCycle ==
    /\ cycle' \in CycleType
    /\ cycle'.plan = cycle.plan /\ cycle'.phase = cycle.phase /\ cycle'.panicked = cycle.panicked
    /\ cycle'.los_state = cycle.los_state /\ cycle'.gc_full_heap = cycle.gc_full_heap

\* The queue of an untouched or of a grown record.
LEMMA QueueSet ==
    ASSUME GenShape, NEW q \in SUBSET GenObjects, cycle' = [cycle EXCEPT !.queue = q]
    PROVE  ClosureCycle /\ cycle'.queue = q /\ cycle'.copied = cycle.copied
  <1>1. cycle \in CycleType
    BY DEF GenShape
  <1>2. cycle' \in CycleType
    BY <1>1, CycleSet
  <1>3. /\ cycle'.plan = cycle.plan /\ cycle'.phase = cycle.phase /\ cycle'.panicked = cycle.panicked
        /\ cycle'.los_state = cycle.los_state /\ cycle'.gc_full_heap = cycle.gc_full_heap
        /\ cycle'.queue = q /\ cycle'.copied = cycle.copied
    BY <1>1, SMTT(30) DEF CycleType
  <1> QED
    BY <1>2, <1>3 DEF ClosureCycle

\* The fields of objects are objects.
LEMMA FieldsAreObjects ==
    ASSUME GenShape, NEW S \in SUBSET GenObjects
    PROVE  /\ FieldsOf(S) \in SUBSET GenObjects
           /\ \A o \in S : cells[o].field = NullRef \/ cells[o].field \in FieldsOf(S)
  <1>1. \A o \in GenObjects : cells[o].field \in Refs
    BY ShapeOf
  <1> QED
    BY <1>1 DEF FieldsOf, Refs

\* A modbuf packet of a nursery collection makes its objects unlogged again
\* and queues what they refer to; a full-heap collection drops it.
LEMMA ProcessModBufStep ==
    ASSUME GenShape, NEW L \in SUBSET GenObjects, LiveSet(L), ProcessModBuf
    PROVE  GenInv'
  <1>1. /\ cycle.phase = "closure" /\ UNCHANGED <<stack, writer, modbufs>>
        /\ packets' = [packets EXCEPT !.objects = {}]
    BY DEF ProcessModBuf
  <1>2. /\ packets \in [objects : SUBSET GenObjects, regions : SUBSET GenObjects]
        /\ cells \in [GenObjects -> CellType] /\ cycle \in CycleType /\ Stopped /\ ~cycle.panicked
    BY <1>1 DEF GenShape, Stopped
  <1>3. /\ packets' \in [objects : SUBSET GenObjects, regions : SUBSET GenObjects]
        /\ packets'.objects = {} /\ packets'.regions = packets.regions
    BY <1>1, <1>2, SMTT(30)
  <1>4. /\ Held \subseteq L
        /\ \A o \in L : cells[o].space # "free" /\ cells[o].field \in L \cup {NullRef}
        /\ ~cycle.gc_full_heap => LargeMarked(L) /\ NurseryClosure(L)
        /\ cycle.gc_full_heap => FullClosure(L)
    BY <1>1 DEF LiveSet
  <1>5. Held' \subseteq L
    BY <1>1, <1>4 DEF Held
  <1>6. CASE cycle.gc_full_heap
    <2>1. UNCHANGED <<cells, cycle>>
      BY <1>6 DEF ProcessModBuf, is_current_gc_nursery
    <2>2. \A o \in GenObjects : SpaceUsed(cells[o].space)'
      BY <2>1 DEF GenShape, SpaceUsed
    <2>3. GenShape'
      BY <1>1, <1>3, <2>1, <2>2 DEF GenShape
    <2>4. FullClosure(L)'
      <3>1. \A o : (Visited(o)' <=> Visited(o)) /\ (Young(o)' <=> Young(o))
        BY <2>1 DEF Visited, Young
      <3>2. \A o : Visited(cells[o].field)' <=> Visited(cells[o].field)
        BY <2>1 DEF Visited
      <3> QED
        BY <1>1, <1>4, <1>6, <2>1, <3>1, <3>2 DEF FullClosure
    <2>5. LiveSet(L)'
      BY <1>1, <1>4, <1>5, <1>6, <2>1, <2>4 DEF LiveSet
    <2> QED
      BY <2>3, <2>5 DEF GenInv
  <1>7. CASE ~cycle.gc_full_heap
    <2> DEFINE new(o) == IF o \in packets.objects THEN [cells[o] EXCEPT !.unlog = 1] ELSE cells[o]
               q == cycle.queue \cup FieldsOf(packets.objects)
    <2>1. /\ cells' = [o \in GenObjects |-> new(o)]
          /\ cycle' = [cycle EXCEPT !.queue = q]
      BY <1>2, <1>7, SMTT(30) DEF ProcessModBuf, is_current_gc_nursery, CycleType
    <2>2. ASSUME NEW o \in GenObjects
          PROVE  /\ new(o) \in CellType /\ new(o).space = cells[o].space
                 /\ new(o).mark = cells[o].mark /\ new(o).young = cells[o].young
                 /\ new(o).field = cells[o].field
                 /\ new(o).unlog = IF o \in packets.objects THEN 1 ELSE cells[o].unlog
      <3>1. cells[o] \in CellType /\ 1 \in 0 .. 1
        BY <1>2, SMTT(30)
      <3>2. PICK c \in CellType : c = cells[o]
        BY <3>1
      <3>3. /\ [c EXCEPT !.unlog = 1] \in CellType /\ [c EXCEPT !.unlog = 1].space = c.space
            /\ [c EXCEPT !.unlog = 1].mark = c.mark /\ [c EXCEPT !.unlog = 1].young = c.young
            /\ [c EXCEPT !.unlog = 1].field = c.field /\ [c EXCEPT !.unlog = 1].unlog = 1
        BY <3>1, SMTT(30) DEF CellType
      <3> QED
        BY <3>1, <3>2, <3>3
    <2>3. /\ packets.objects \in SUBSET GenObjects /\ cycle.queue \in SUBSET GenObjects
      BY <1>2 DEF CycleType
    <2>4. /\ q \in SUBSET GenObjects /\ cycle.queue \subseteq q
          /\ \A o \in packets.objects : cells[o].field = NullRef \/ cells[o].field \in q
      BY <2>3, FieldsAreObjects
    <2> HIDE DEF q, new
    <2>5. ClosureCycle /\ cycle'.queue = q /\ cycle'.copied = cycle.copied
      BY <2>1, <2>4, QueueSet
    <2>6. /\ cells' \in [GenObjects -> CellType]
          /\ \A o \in GenObjects :
                /\ cells'[o].space = cells[o].space /\ cells'[o].field = cells[o].field
                /\ cells'[o].mark = cells[o].mark /\ cells'[o].young = cells[o].young
                /\ cells'[o].unlog = IF o \in packets.objects THEN 1 ELSE cells[o].unlog
      BY <2>1, <2>2
    <2>7. \A o \in GenObjects : SpaceUsed(cells[o].space)'
      BY <2>5, <2>6 DEF GenShape, SpaceUsed, ClosureCycle
    <2>8. GenShape'
      <3>1. \A o \in cycle'.copied : cells'[o].space = "copyspace"
        <4>1. cycle.copied \in SUBSET GenObjects
          BY <1>2 DEF CycleType
        <4> QED
          BY <2>5, <2>6, <4>1 DEF GenShape
      <3> QED
        BY <1>1, <1>2, <1>3, <2>5, <2>6, <2>7, <3>1 DEF GenShape, ClosureCycle, Stopped
    <2>9. \A o \in GenObjects : Young(o)' <=> Young(o)
      BY <2>5, <2>6, SameAge DEF ClosureCycle
    <2>10. LargeMarked(L)'
      BY <1>4, <1>7, <2>5, <2>6 DEF LargeMarked, ClosureCycle
    <2>11. NurseryClosure(L)'
      <3>1. \A o \in stack' : ~Young(o)' \/ o \in cycle'.queue
        BY <1>1, <1>4, <1>7, <2>4, <2>5, <2>9, ShapeOf DEF NurseryClosure
      <3>2. ASSUME NEW o \in L, ~Young(o)'
            PROVE  /\ cells'[o].unlog = 0 => o \in packets'.objects
                   /\ \/ cells'[o].field = NullRef \/ ~Young(cells[o].field)'
                      \/ cells'[o].field \in cycle'.queue
                      \/ o \in packets'.objects \cup packets'.regions
        <4>1. /\ cells[o].unlog = 0 => o \in packets.objects
              /\ \/ cells[o].field = NullRef \/ ~Young(cells[o].field)
                 \/ cells[o].field \in cycle.queue
                 \/ o \in packets.objects \cup packets.regions
          BY <1>4, <1>7, <2>9, <3>2 DEF NurseryClosure
        <4>2. cells[o].field # NullRef => (Young(cells[o].field)' <=> Young(cells[o].field))
          <5> SUFFICES ASSUME NEW p \in GenObjects, p = cells[o].field
                       PROVE  Young(cells[o].field)' <=> Young(p)
            BY <1>4
          <5>1. Young(cells[o].field)' <=> Young(p)'
            BY <2>6 DEF Young
          <5> QED
            BY <2>9, <5>1
        <4>3. cells'[o].unlog # 0
          <5>1. CASE o \in packets.objects
            BY <2>6, <5>1, SMTT(30)
          <5> QED
            BY <2>6, <4>1, <5>1
        <4>4. /\ cells'[o].field = cells[o].field
              /\ o \in packets.objects => cells[o].field = NullRef \/ cells[o].field \in q
          BY <2>4, <2>6
        <4> QED
          BY <1>3, <2>4, <2>5, <4>1, <4>2, <4>3, <4>4
      <3> QED
        BY <3>1, <3>2 DEF NurseryClosure
    <2>12. \A o \in L : cells'[o].space # "free" /\ cells'[o].field \in L \cup {NullRef}
      BY <1>4, <2>6
    <2>13. LiveSet(L)'
      BY <1>1, <1>5, <1>7, <2>5, <2>10, <2>11, <2>12 DEF LiveSet, ClosureCycle
    <2> QED
      BY <2>8, <2>13 DEF GenInv
  <1> QED
    BY <1>6, <1>7

\* A region packet of a nursery collection queues what its regions refer to.
LEMMA ProcessRegionModBufStep ==
    ASSUME GenShape, NEW L \in SUBSET GenObjects, LiveSet(L), ProcessRegionModBuf
    PROVE  GenInv'
  <1>1. /\ cycle.phase = "closure" /\ UNCHANGED <<cells, stack, writer, modbufs>>
        /\ packets' = [packets EXCEPT !.regions = {}]
    BY DEF ProcessRegionModBuf
  <1>2. /\ packets \in [objects : SUBSET GenObjects, regions : SUBSET GenObjects]
        /\ cycle \in CycleType /\ Stopped /\ ~cycle.panicked
    BY <1>1 DEF GenShape, Stopped
  <1>3. /\ packets' \in [objects : SUBSET GenObjects, regions : SUBSET GenObjects]
        /\ packets'.regions = {} /\ packets'.objects = packets.objects
    BY <1>1, <1>2, SMTT(30)
  <1>4. /\ Held \subseteq L
        /\ \A o \in L : cells[o].space # "free" /\ cells[o].field \in L \cup {NullRef}
        /\ ~cycle.gc_full_heap => LargeMarked(L) /\ NurseryClosure(L)
        /\ cycle.gc_full_heap => FullClosure(L)
    BY <1>1 DEF LiveSet
  <1>5. Held' \subseteq L
    BY <1>1, <1>4 DEF Held
  <1>6. /\ ClosureCycle /\ cycle'.copied = cycle.copied
        /\ cycle.queue \subseteq cycle'.queue
        /\ ~cycle.gc_full_heap => \A o \in packets.regions :
                                     cells[o].field = NullRef \/ cells[o].field \in cycle'.queue
    <2>1. CASE cycle.gc_full_heap
      BY <1>2, <2>1 DEF ProcessRegionModBuf, is_current_gc_nursery, ClosureCycle
    <2>2. CASE ~cycle.gc_full_heap
      <3> DEFINE q == cycle.queue \cup FieldsOf(packets.regions)
      <3>1. packets.regions \in SUBSET GenObjects /\ cycle.queue \in SUBSET GenObjects
        BY <1>2 DEF CycleType
      <3>2. /\ q \in SUBSET GenObjects /\ cycle.queue \subseteq q
            /\ \A o \in packets.regions : cells[o].field = NullRef \/ cells[o].field \in q
        BY <3>1, FieldsAreObjects
      <3>3. cycle' = [cycle EXCEPT !.queue = q]
        BY <1>2, <2>2, SMTT(30) DEF ProcessRegionModBuf, is_current_gc_nursery, CycleType
      <3> HIDE DEF q
      <3> QED
        BY <3>2, <3>3, QueueSet
    <2> QED
      BY <2>1, <2>2
  <1>7. \A o \in GenObjects : SpaceUsed(cells[o].space)'
    BY <1>1, <1>6 DEF GenShape, SpaceUsed, ClosureCycle
  <1>8. GenShape'
    BY <1>1, <1>2, <1>3, <1>6, <1>7 DEF GenShape, ClosureCycle, Stopped
  <1>9. \A o : (Visited(o)' <=> Visited(o)) /\ (Young(o)' <=> Young(o))
    BY <1>1, <1>6 DEF Visited, Young, ClosureCycle
  <1>10. \A o : /\ Visited(cells[o].field)' <=> Visited(cells[o].field)
                /\ Young(cells[o].field)' <=> Young(cells[o].field)
    BY <1>1, <1>6 DEF Visited, Young, ClosureCycle
  <1>11. cycle.gc_full_heap => FullClosure(L)'
    BY <1>1, <1>4, <1>6, <1>9, <1>10 DEF FullClosure
  <1>12. ASSUME ~cycle.gc_full_heap PROVE LargeMarked(L)' /\ NurseryClosure(L)'
    <2>1. LargeMarked(L)'
      BY <1>1, <1>4, <1>6, <1>12 DEF LargeMarked, ClosureCycle
    <2>2. \A o \in stack' : ~Young(o)' \/ o \in cycle'.queue
      BY <1>1, <1>4, <1>6, <1>9, <1>12 DEF NurseryClosure
    <2>3. ASSUME NEW o \in L, ~Young(o)'
          PROVE  /\ cells'[o].unlog = 0 => o \in packets'.objects
                 /\ \/ cells'[o].field = NullRef \/ ~Young(cells[o].field)'
                    \/ cells'[o].field \in cycle'.queue
                    \/ o \in packets'.objects \cup packets'.regions
      <3>1. /\ cells[o].unlog = 0 => o \in packets.objects
            /\ \/ cells[o].field = NullRef \/ ~Young(cells[o].field)
               \/ cells[o].field \in cycle.queue
               \/ o \in packets.objects \cup packets.regions
        BY <1>4, <1>9, <1>12, <2>3 DEF NurseryClosure
      <3> QED
        BY <1>1, <1>3, <1>6, <1>10, <1>12, <3>1
    <2> QED
      BY <2>1, <2>2, <2>3 DEF NurseryClosure
  <1>13. LiveSet(L)'
    BY <1>1, <1>4, <1>5, <1>6, <1>11, <1>12 DEF LiveSet, ClosureCycle
  <1> QED
    BY <1>8, <1>13 DEF GenInv

\* The metadata that a visit in place writes, and what it leaves alone.
LEMMA VisitedCells ==
    ASSUME NEW c \in CellType, NEW k \in 0 .. 1
    PROVE  /\ \E d \in CellType : /\ d = [c EXCEPT !.mark = k, !.unlog = 1]
                                  /\ d.space = c.space /\ d.mark = k /\ d.unlog = 1 /\ d.field = c.field
           /\ \E d \in CellType : /\ d = [c EXCEPT !.mark = k, !.young = 0, !.unlog = 1]
                                  /\ d.space = c.space /\ d.mark = k /\ d.young = 0 /\ d.unlog = 1
                                  /\ d.field = c.field
  <1>1. 0 \in 0 .. 1 /\ 1 \in 0 .. 1
    BY SMTT(30)
  <1>2. PICK d1 \in CellType : d1 = [c EXCEPT !.mark = k]
    <2>1. [c EXCEPT !.mark = k] \in CellType
      BY SMTT(30) DEF CellType
    <2> QED
      BY <2>1
  <1>3. PICK d2 \in CellType : d2 = [d1 EXCEPT !.unlog = 1]
    <2>1. [d1 EXCEPT !.unlog = 1] \in CellType
      BY <1>1, SMTT(30) DEF CellType
    <2> QED
      BY <2>1
  <1>4. PICK d3 \in CellType : d3 = [d1 EXCEPT !.young = 0]
    <2>1. [d1 EXCEPT !.young = 0] \in CellType
      BY <1>1, SMTT(30) DEF CellType
    <2> QED
      BY <2>1
  <1>5. PICK d4 \in CellType : d4 = [d3 EXCEPT !.unlog = 1]
    <2>1. [d3 EXCEPT !.unlog = 1] \in CellType
      BY <1>1, SMTT(30) DEF CellType
    <2> QED
      BY <2>1
  <1>6. /\ d2 = [c EXCEPT !.mark = k, !.unlog = 1]
        /\ d4 = [c EXCEPT !.mark = k, !.young = 0, !.unlog = 1]
    BY <1>2, <1>3, <1>4, <1>5
  <1>7. d2.space = c.space /\ d2.mark = k /\ d2.unlog = 1 /\ d2.field = c.field
    BY <1>2, <1>3, SMTT(30) DEF CellType
  <1>8. d4.space = c.space /\ d4.mark = k /\ d4.young = 0 /\ d4.unlog = 1 /\ d4.field = c.field
    BY <1>2, <1>4, <1>5, SMTT(30) DEF CellType
  <1> QED
    BY <1>6, <1>7, <1>8

\* The spaces copies go to.
MatureSpaces == {"copyspace", "immix"}

\* The metadata of a copy.
LEMMA CopiedCell ==
    ASSUME NEW c \in CellType, NEW k \in 0 .. 1, NEW s \in MatureSpaces
    PROVE  \E d \in CellType : /\ d = [c EXCEPT !.space = s, !.unlog = 1, !.mark = k]
                               /\ d.space = s /\ d.mark = k /\ d.unlog = 1 /\ d.field = c.field
  <1>1. 1 \in 0 .. 1
    BY SMTT(30)
  <1>2. PICK d1 \in CellType : d1 = [c EXCEPT !.space = s]
    <2>1. [c EXCEPT !.space = s] \in CellType
      BY SMTT(30) DEF CellType, MatureSpaces
    <2> QED
      BY <2>1
  <1>3. PICK d2 \in CellType : d2 = [d1 EXCEPT !.unlog = 1]
    <2>1. [d1 EXCEPT !.unlog = 1] \in CellType
      BY <1>1, SMTT(30) DEF CellType
    <2> QED
      BY <2>1
  <1>4. PICK d3 \in CellType : d3 = [d2 EXCEPT !.mark = k]
    <2>1. [d2 EXCEPT !.mark = k] \in CellType
      BY SMTT(30) DEF CellType
    <2> QED
      BY <2>1
  <1>5. d3 = [c EXCEPT !.space = s, !.unlog = 1, !.mark = k]
    BY <1>2, <1>3, <1>4
  <1>6. d3.space = s /\ d3.mark = k /\ d3.unlog = 1 /\ d3.field = c.field
    BY <1>2, <1>3, <1>4, SMTT(30) DEF CellType
  <1> QED
    BY <1>5, <1>6

\* The metadata c makes a live object an old, unlogged and visited one.
Promoted(o, c) ==
    /\ c \in CellType /\ c.field = cells[o].field /\ c.unlog = 1
    /\ o \notin cycle.copied /\ SpaceUsed(c.space) /\ c.space \notin {"free", "nursery"}
    /\ c.space = "los" => c.young = 0 /\ c.mark = cycle.los_state
    /\ c.space \in {"immix", "immortal"} => c.mark = 1

\* Tracing a copied object, an Immix object, an immortal and a large one.
LEMMA TraceCases ==
    ASSUME GenShape, NEW o \in GenObjects
    PROVE  /\ cells[o].space \in {"nursery", "copyspace"} /\ trace_copyspace(o) =>
                 \/ Skip(o) /\ o \in cycle.copied
                 \/ \E c : Visit(o, c) /\ Promoted(o, c)
           /\ cells[o].space = "immix" /\ trace_immix(o) =>
                 \/ Skip(o) /\ cells[o].mark = 1
                 \/ \E c : Visit(o, c) /\ Promoted(o, c)
           /\ cells[o].space = "immortal" /\ trace_immortal(o) =>
                 \/ Skip(o) /\ cells[o].mark = 1
                 \/ \E c : Visit(o, c) /\ Promoted(o, c)
           /\ cells[o].space = "los" /\ trace_los(o) =>
                 \/ Skip(o) /\ ~((cycle.gc_full_heap \/ is_in_nursery(o)) /\ test_and_mark(o))
                 \/ \E c : Visit(o, c) /\ Promoted(o, c)
  <1>1. /\ cells[o] \in CellType /\ cycle.los_state \in 0 .. 1 /\ cycle.immortal_state = 1
        /\ SpaceUsed(cells[o].space)
        /\ \A p \in cycle.copied : cells[p].space = "copyspace"
    BY DEF GenShape, CycleType
  <1>2. 0 \in 0 .. 1 /\ 1 \in 0 .. 1
    BY SMTT(30)
  <1>3. ASSUME cells[o].space \in {"nursery", "copyspace"}, trace_copyspace(o), o \notin cycle.copied
        PROVE  \E c : Visit(o, c) /\ Promoted(o, c)
    <2>1. PICK s \in MatureSpaces, k \in 0 .. 1 :
             /\ s = MatureSpace /\ k = IF MatureSpace = "immix" THEN 1 ELSE 0
             /\ s = "immix" => k = 1
      BY <1>2 DEF MatureSpace, MatureSpaces
    <2>2. PICK d \in CellType : /\ d = [cells[o] EXCEPT !.space = s, !.unlog = 1, !.mark = k]
                                /\ d.space = s /\ d.mark = k /\ d.unlog = 1 /\ d.field = cells[o].field
      <3>1. PICK c0 \in CellType : c0 = cells[o]
        BY <1>1
      <3>2. \E d \in CellType : /\ d = [c0 EXCEPT !.space = s, !.unlog = 1, !.mark = k]
                                /\ d.space = s /\ d.mark = k /\ d.unlog = 1 /\ d.field = c0.field
        BY CopiedCell
      <3> QED
        BY <3>1, <3>2
    <2>3. d = post_copy(cells[o])
      BY <2>1, <2>2 DEF post_copy
    <2>4. Visit(o, d)
      BY <1>3, <2>3 DEF trace_copyspace
    <2>5. SpaceUsed(s)
      BY <2>1 DEF SpaceUsed, MatureSpace
    <2>6. Promoted(o, d)
      BY <1>3, <2>1, <2>2, <2>5 DEF Promoted, MatureSpaces
    <2> QED
      BY <2>4, <2>6
  <1>4. ASSUME cells[o].space = "immix", trace_immix(o), cells[o].mark # 1
        PROVE  \E c : Visit(o, c) /\ Promoted(o, c)
    <2>1. PICK d \in CellType : /\ d = [cells[o] EXCEPT !.mark = 1, !.unlog = 1]
                                /\ d.space = cells[o].space /\ d.mark = 1 /\ d.unlog = 1
                                /\ d.field = cells[o].field
      BY <1>1, <1>2, VisitedCells
    <2>2. Visit(o, d)
      BY <1>4, <2>1 DEF trace_immix
    <2>3. Promoted(o, d)
      BY <1>1, <1>4, <2>1 DEF Promoted
    <2> QED
      BY <2>2, <2>3
  <1>5. ASSUME cells[o].space = "immortal", trace_immortal(o), cells[o].mark # 1
        PROVE  \E c : Visit(o, c) /\ Promoted(o, c)
    <2>1. PICK d \in CellType : /\ d = [cells[o] EXCEPT !.mark = 1, !.unlog = 1]
                                /\ d.space = cells[o].space /\ d.mark = 1 /\ d.unlog = 1
                                /\ d.field = cells[o].field
      BY <1>1, <1>2, VisitedCells
    <2>2. Visit(o, d)
      BY <1>1, <1>5, <2>1 DEF trace_immortal
    <2>3. Promoted(o, d)
      BY <1>1, <1>5, <2>1 DEF Promoted
    <2> QED
      BY <2>2, <2>3
  <1>6. ASSUME cells[o].space = "los", trace_los(o),
               (cycle.gc_full_heap \/ is_in_nursery(o)) /\ test_and_mark(o)
        PROVE  \E c : Visit(o, c) /\ Promoted(o, c)
    <2>1. PICK d \in CellType : /\ d = [cells[o] EXCEPT !.mark = cycle.los_state, !.young = 0, !.unlog = 1]
                                /\ d.space = cells[o].space /\ d.mark = cycle.los_state /\ d.young = 0
                                /\ d.unlog = 1 /\ d.field = cells[o].field
      <3>1. PICK c0 \in CellType, k \in 0 .. 1 : c0 = cells[o] /\ k = cycle.los_state
        BY <1>1
      <3>2. \E d \in CellType : /\ d = [c0 EXCEPT !.mark = k, !.young = 0, !.unlog = 1]
                                /\ d.space = c0.space /\ d.mark = k /\ d.young = 0 /\ d.unlog = 1
                                /\ d.field = c0.field
        BY VisitedCells
      <3> QED
        BY <3>1, <3>2
    <2>2. Visit(o, d)
      BY <1>6, <2>1 DEF trace_los
    <2>3. Promoted(o, d)
      BY <1>1, <1>6, <2>1 DEF Promoted
    <2> QED
      BY <2>2, <2>3
  <1>7. cells[o].space \in {"nursery", "copyspace"} /\ trace_copyspace(o) /\ o \in cycle.copied => Skip(o)
    BY DEF trace_copyspace
  <1>8. trace_immix(o) /\ cells[o].mark = 1 => Skip(o)
    BY DEF trace_immix
  <1>9. trace_immortal(o) /\ cells[o].mark = 1 => Skip(o)
    BY <1>1 DEF trace_immortal
  <1>10. trace_los(o) /\ ~((cycle.gc_full_heap \/ is_in_nursery(o)) /\ test_and_mark(o)) => Skip(o)
    BY DEF trace_los
  <1> QED
    BY <1>3, <1>4, <1>5, <1>6, <1>7, <1>8, <1>9, <1>10

\* An object that a nursery collection does not visit is an old one.
LEMMA NurserySlot ==
    ASSUME GenShape, NEW o \in GenObjects, ~cycle.gc_full_heap,
           \/ cycle.plan = "sticky" /\ trace_object_nursery_sticky(o)
           \/ cycle.plan # "sticky" /\ trace_object_nursery_gen(o)
    PROVE  \/ Skip(o) /\ ~Young(o)
           \/ \E c : Visit(o, c) /\ Promoted(o, c)
  <1>1. /\ cycle.plan = "sticky" => cells[o].space # "nursery"
        /\ \A p \in cycle.copied : cells[p].space = "copyspace"
        /\ cells[o].mark \in 0 .. 1
    BY ShapeOf DEF GenShape, SpaceUsed
  <1>2. CASE cells[o].space = "los"
    <2>1. trace_los(o)
      BY <1>2 DEF trace_object_nursery_sticky, trace_object_nursery_gen
    <2>2. \/ Skip(o) /\ ~((cycle.gc_full_heap \/ is_in_nursery(o)) /\ test_and_mark(o))
          \/ \E c : Visit(o, c) /\ Promoted(o, c)
      BY <1>2, <2>1, TraceCases
    <2> QED
      BY <1>2, <2>2 DEF is_in_nursery, test_and_mark, is_current_gc_nursery, Young
  <1>3. CASE cells[o].space = "nursery"
    <2>1. trace_copyspace(o) /\ o \notin cycle.copied
      BY <1>1, <1>3 DEF trace_object_nursery_gen
    <2> QED
      BY <1>3, <2>1, TraceCases
  <1>4. CASE cycle.plan = "sticky" /\ cells[o].space = "immix" /\ cells[o].mark = 0
    <2>1. trace_immix(o) /\ cells[o].mark # 1
      <3>1. 0 # 1
        BY SMTT(30)
      <3> QED
        BY <1>4, <3>1 DEF trace_object_nursery_sticky, is_object_in_nursery, is_object_in_nursery_sticky
    <2> QED
      BY <1>4, <2>1, TraceCases
  <1>5. CASE ~Young(o) /\ cells[o].space # "los"
    <2>1. Skip(o)
      BY <1>5 DEF trace_object_nursery_sticky, trace_object_nursery_gen, Young,
                  is_object_in_nursery, is_object_in_nursery_sticky
    <2> QED
      BY <1>5, <2>1
  <1> QED
    BY <1>2, <1>3, <1>4, <1>5 DEF Young

\* An object that a full-heap collection does not visit was visited, or is
\* no object any more.
LEMMA FullSlot ==
    ASSUME GenShape, NEW o \in GenObjects, cycle.gc_full_heap, trace_object_full(o)
    PROVE  \/ Skip(o) /\ (Visited(o) \/ cells[o].space = "free")
           \/ \E c : Visit(o, c) /\ Promoted(o, c)
  <1>1. /\ cells[o].space \in {"free", "nursery", "copyspace", "immix", "los", "immortal"}
        /\ \A p \in cycle.copied : cells[p].space = "copyspace"
    <2>1. cells[o] \in CellType
      BY DEF GenShape
    <2> QED
      BY <2>1 DEF CellType, GenShape
  <1>2. CASE cells[o].space \in {"nursery", "copyspace"}
    <2>1. trace_copyspace(o)
      BY <1>2 DEF trace_object_full
    <2> QED
      BY <1>1, <1>2, <2>1, TraceCases DEF Visited
  <1>3. CASE cells[o].space = "immix"
    <2>1. trace_immix(o)
      BY <1>3 DEF trace_object_full
    <2> QED
      BY <1>3, <2>1, TraceCases DEF Visited
  <1>4. CASE cells[o].space = "los"
    <2>1. trace_los(o)
      BY <1>4 DEF trace_object_full
    <2>2. \/ Skip(o) /\ ~((cycle.gc_full_heap \/ is_in_nursery(o)) /\ test_and_mark(o))
          \/ \E c : Visit(o, c) /\ Promoted(o, c)
      BY <1>4, <2>1, TraceCases
    <2> QED
      BY <1>4, <2>2 DEF test_and_mark, Visited
  <1>5. CASE cells[o].space = "immortal"
    <2>1. trace_immortal(o)
      BY <1>5 DEF trace_object_full
    <2> QED
      BY <1>5, <2>1, TraceCases DEF Visited
  <1>6. CASE cells[o].space = "free"
    <2>1. Skip(o)
      BY <1>6 DEF trace_object_full
    <2> QED
      BY <1>6, <2>1
  <1> QED
    BY <1>1, <1>2, <1>3, <1>4, <1>5, <1>6

\* What processing the slot of object o leaves behind.
SlotDone(o) ==
    /\ ClosureCycle /\ cells' \in [GenObjects -> CellType]
    /\ \A p \in GenObjects : p # o => cells'[p] = cells[p] /\ (p \in cycle'.copied <=> p \in cycle.copied)
    /\ \A p \in cycle.queue : p # o => p \in cycle'.queue
    /\ cells'[o].field = cells[o].field /\ SpaceUsed(cells'[o].space)
    /\ cells[o].space # "free" => cells'[o].space # "free"
    /\ o \in cycle'.copied => cells'[o].space = "copyspace"
    /\ \/ /\ cells'[o] = cells[o] /\ (o \in cycle'.copied <=> o \in cycle.copied)
          /\ IF cycle.gc_full_heap THEN Visited(o) \/ cells[o].space = "free" ELSE ~Young(o)
       \/ /\ cells'[o].unlog = 1 /\ cells'[o].space \notin {"free", "nursery"}
          /\ cells'[o].field = NullRef \/ cells'[o].field \in cycle'.queue
          /\ cells'[o].space = "los" => cells'[o].young = 0 /\ cells'[o].mark = cycle.los_state
          /\ cells'[o].space \in {"immix", "immortal"} => cells'[o].mark = 1
          /\ cells'[o].space = "copyspace" => o \in cycle'.copied

\* A slot that is skipped.
LEMMA SkipEffect ==
    ASSUME GenShape, NEW o \in GenObjects, Skip(o),
           IF cycle.gc_full_heap THEN Visited(o) \/ cells[o].space = "free" ELSE ~Young(o)
    PROVE  SlotDone(o)
  <1>1. /\ cycle \in CycleType /\ cycle.queue \in SUBSET GenObjects
        /\ cells \in [GenObjects -> CellType] /\ SpaceUsed(cells[o].space)
        /\ \A p \in cycle.copied : cells[p].space = "copyspace"
    BY DEF GenShape, CycleType
  <1>2. PICK q \in SUBSET GenObjects : q = cycle.queue \ {o}
    BY <1>1
  <1>3. cycle' = [cycle EXCEPT !.queue = q] /\ cells' = cells
    BY <1>1, <1>2, SMTT(30) DEF Skip, CycleType
  <1>4. ClosureCycle /\ cycle'.queue = q /\ cycle'.copied = cycle.copied
    BY <1>3, QueueSet
  <1> QED
    BY <1>1, <1>2, <1>3, <1>4 DEF SlotDone

\* A slot whose object is visited.
LEMMA VisitEffect ==
    ASSUME GenShape, NEW o \in GenObjects, NEW c, Visit(o, c), Promoted(o, c)
    PROVE  SlotDone(o)
  <1>1. /\ cycle \in CycleType /\ cycle.queue \in SUBSET GenObjects /\ cycle.copied \in SUBSET GenObjects
        /\ cells \in [GenObjects -> CellType] /\ cells[o].field \in Refs
    BY ShapeOf DEF GenShape, CycleType
  <1>2. c \in CellType /\ c.field = cells[o].field /\ o \notin cycle.copied
    BY DEF Promoted
  <1>3. PICK q \in SUBSET GenObjects : q = (cycle.queue \ {o}) \cup ({c.field} \ {NullRef})
    BY <1>1, <1>2 DEF Refs
  <1>4. PICK k \in SUBSET GenObjects : k = IF c.space = "copyspace" THEN cycle.copied \cup {o} ELSE cycle.copied
    BY <1>1
  <1>5. cells' = [cells EXCEPT ![o] = c]
    BY DEF Visit
  <1>6. PICK c1 \in CycleType : c1 = [cycle EXCEPT !.queue = q]
    BY <1>1, CycleSet
  <1>7. PICK c2 \in CycleType : c2 = [c1 EXCEPT !.copied = k]
    BY CycleSet
  <1>8. cycle' = [cycle EXCEPT !.queue = q, !.copied = k]
    BY <1>1, <1>3, <1>4, SMTT(30) DEF Visit, CycleType
  <1>9. cycle' = c2
    BY <1>6, <1>7, <1>8
  <1>10. /\ cycle'.plan = cycle.plan /\ cycle'.phase = cycle.phase /\ cycle'.panicked = cycle.panicked
         /\ cycle'.los_state = cycle.los_state /\ cycle'.gc_full_heap = cycle.gc_full_heap
         /\ cycle'.queue = q /\ cycle'.copied = k
    BY <1>1, <1>8, SMTT(30) DEF CycleType
  <1>11. ClosureCycle
    BY <1>9, <1>10 DEF ClosureCycle
  <1>12. /\ cells' \in [GenObjects -> CellType] /\ cells'[o] = c
         /\ \A p \in GenObjects : p # o => cells'[p] = cells[p]
    BY <1>1, <1>2, <1>5
  <1>13. \A p \in GenObjects : p # o => (p \in cycle'.copied <=> p \in cycle.copied)
    BY <1>4, <1>10
  <1>14. o \in cycle'.copied <=> c.space = "copyspace"
    BY <1>2, <1>4, <1>10
  <1>15. /\ c.field = NullRef \/ c.field \in cycle'.queue
         /\ \A p \in cycle.queue : p # o => p \in cycle'.queue
    BY <1>3, <1>10
  <1> QED
    BY <1>11, <1>12, <1>13, <1>14, <1>15 DEF SlotDone, Promoted

\* Processing a slot: the object it takes from the queue is old, or visited,
\* afterwards.
LEMMA ProcessSlotStep ==
    ASSUME GenShape, NEW L \in SUBSET GenObjects, LiveSet(L), ProcessSlot
    PROVE  GenInv'
  <1>1. cycle.phase = "closure" /\ cycle.queue # {} /\ UNCHANGED <<stack, writer, modbufs, packets>>
    BY DEF ProcessSlot
  <1>2. cycle \in CycleType /\ cycle.queue \in SUBSET GenObjects /\ Stopped /\ ~cycle.panicked
    BY <1>1 DEF GenShape, CycleType, Stopped
  <1>3. PICK o \in cycle.queue : o = Min(cycle.queue)
    BY <1>1, <1>2, MinIsMember
  <1>4. o \in GenObjects /\ cycle.gc_full_heap \in BOOLEAN
    BY <1>2, <1>3 DEF CycleType
  <1>5. /\ cycle.gc_full_heap => trace_object_full(o)
        /\ ~cycle.gc_full_heap => \/ cycle.plan = "sticky" /\ trace_object_nursery_sticky(o)
                                  \/ cycle.plan # "sticky" /\ trace_object_nursery_gen(o)
    BY <1>3, <1>4 DEF ProcessSlot, is_current_gc_nursery
  <1>6. SlotDone(o)
    <2>1. CASE cycle.gc_full_heap
      <3>1. \/ Skip(o) /\ (Visited(o) \/ cells[o].space = "free")
            \/ \E c : Visit(o, c) /\ Promoted(o, c)
        BY <1>4, <1>5, <2>1, FullSlot
      <3> QED
        BY <1>4, <2>1, <3>1, SkipEffect, VisitEffect
    <2>2. CASE ~cycle.gc_full_heap
      <3>1. \/ Skip(o) /\ ~Young(o)
            \/ \E c : Visit(o, c) /\ Promoted(o, c)
        BY <1>4, <1>5, <2>2, NurserySlot
      <3> QED
        BY <1>4, <2>2, <3>1, SkipEffect, VisitEffect
    <2> QED
      BY <2>1, <2>2
  <1>7. /\ cycle'.plan = cycle.plan /\ cycle'.phase = "closure" /\ ~cycle'.panicked
        /\ cycle'.los_state = cycle.los_state /\ cycle'.gc_full_heap = cycle.gc_full_heap
        /\ cycle' \in CycleType
    BY <1>1, <1>2, <1>6 DEF SlotDone, ClosureCycle
  <1>8. GenShape'
    <2>1. \A p \in GenObjects : SpaceUsed(cells[p].space)'
      BY <1>6, <1>7 DEF GenShape, SlotDone, SpaceUsed
    <2>2. cycle'.copied \in SUBSET GenObjects
      BY <1>7 DEF CycleType
    <2>3. \A p \in cycle'.copied : cells'[p].space = "copyspace"
      BY <1>6, <2>2 DEF GenShape, SlotDone
    <2>4. cells' \in [GenObjects -> CellType]
      BY <1>6 DEF SlotDone
    <2> QED
      BY <1>1, <1>2, <1>7, <2>1, <2>3, <2>4 DEF GenShape, Stopped
  <1>9. /\ Held \subseteq L /\ stack \subseteq L
        /\ \A p \in L : cells[p].space # "free" /\ cells[p].field \in L \cup {NullRef}
        /\ ~cycle.gc_full_heap => LargeMarked(L) /\ NurseryClosure(L)
        /\ cycle.gc_full_heap => FullClosure(L)
    BY <1>1, <1>2, StoppedFacts DEF LiveSet
  <1>10. Held' \subseteq L
    BY <1>1, <1>9 DEF Held
  <1>11. /\ \A p \in GenObjects : cells'[p].field = cells[p].field
         /\ \A p \in GenObjects : p # o => cells'[p] = cells[p] /\ (p \in cycle'.copied <=> p \in cycle.copied)
         /\ \A p \in cycle.queue : p # o => p \in cycle'.queue
         /\ \A p \in GenObjects : cells[p].space # "free" => cells'[p].space # "free"
    BY <1>6 DEF SlotDone
  <1>12. \A p \in L : cells'[p].space # "free" /\ cells'[p].field \in L \cup {NullRef}
    BY <1>9, <1>11
  <1>13. \A p \in GenObjects : p # o => (Young(p)' <=> Young(p)) /\ (Visited(p)' <=> Visited(p))
    BY <1>7, <1>11 DEF Young, Visited
  <1>14. ASSUME ~cycle.gc_full_heap PROVE LargeMarked(L)' /\ NurseryClosure(L)'
    <2>1. ~Young(o)'
      <3>1. 0 # 1
        BY SMTT(30)
      <3> QED
        BY <1>6, <1>7, <1>14, <3>1 DEF SlotDone, Young
    <2>2. LargeMarked(L)'
      <3>1. cells'[o].space = "los" => cells'[o] = cells[o] \/ cells'[o].mark = cycle.los_state
        BY <1>6 DEF SlotDone
      <3> QED
        BY <1>7, <1>9, <1>11, <1>14, <3>1 DEF LargeMarked
    <2>3. \A p \in GenObjects : ~Young(p) \/ p \in cycle.queue => ~Young(p)' \/ p \in cycle'.queue
      BY <1>11, <1>13, <2>1
    <2>4. \A p \in stack' : ~Young(p)' \/ p \in cycle'.queue
      BY <1>1, <1>9, <1>14, <2>3 DEF NurseryClosure
    <2>5. ASSUME NEW p \in L, ~Young(p)'
          PROVE  /\ cells'[p].unlog = 0 => p \in packets'.objects
                 /\ \/ cells'[p].field = NullRef \/ ~Young(cells[p].field)'
                    \/ cells'[p].field \in cycle'.queue
                    \/ p \in packets'.objects \cup packets'.regions
      <3>1. \/ ~Young(p) /\ cells'[p] = cells[p]
            \/ cells'[p].unlog = 1 /\ (cells'[p].field = NullRef \/ cells'[p].field \in cycle'.queue)
        BY <1>6, <1>11, <1>13, <1>14, <2>5 DEF SlotDone
      <3>2. CASE cells'[p].unlog = 1 /\ (cells'[p].field = NullRef \/ cells'[p].field \in cycle'.queue)
        <4>1. cells'[p].unlog # 0
          BY <3>2, SMTT(30)
        <4> QED
          BY <3>2, <4>1
      <3>3. CASE ~Young(p) /\ cells'[p] = cells[p]
        <4>1. /\ cells[p].unlog = 0 => p \in packets.objects
              /\ \/ cells[p].field = NullRef \/ ~Young(cells[p].field)
                 \/ cells[p].field \in cycle.queue
                 \/ p \in packets.objects \cup packets.regions
          BY <1>9, <1>14, <3>3 DEF NurseryClosure
        <4>2. ASSUME NEW q \in L, q = cells[p].field, ~Young(q) \/ q \in cycle.queue
              PROVE  ~Young(cells[p].field)' \/ cells'[p].field \in cycle'.queue
          <5>1. ~Young(q)' \/ q \in cycle'.queue
            BY <2>3, <4>2
          <5>2. Young(cells[p].field)' <=> Young(q)'
            BY <3>3, <4>2 DEF Young
          <5> QED
            BY <3>3, <4>2, <5>1, <5>2
        <4>3. cells[p].field \in L \cup {NullRef}
          BY <1>9
        <4> QED
          BY <1>1, <3>3, <4>1, <4>2, <4>3
      <3> QED
        BY <3>1, <3>2, <3>3
    <2> QED
      BY <2>2, <2>4, <2>5 DEF NurseryClosure
  <1>15. ASSUME cycle.gc_full_heap PROVE FullClosure(L)'
    <2>1. o \in L => Visited(o)'
      <3> SUFFICES ASSUME o \in L PROVE Visited(o)'
        OBVIOUS
      <3>1. cells[o].space # "free"
        BY <1>9
      <3>2. CASE /\ cells'[o] = cells[o] /\ (o \in cycle'.copied <=> o \in cycle.copied)
                 /\ Visited(o) \/ cells[o].space = "free"
        BY <1>7, <3>1, <3>2 DEF Visited
      <3>3. CASE /\ cells'[o].space \notin {"free", "nursery"}
                 /\ cells'[o].space = "los" => cells'[o].young = 0 /\ cells'[o].mark = cycle.los_state
                 /\ cells'[o].space \in {"immix", "immortal"} => cells'[o].mark = 1
                 /\ cells'[o].space = "copyspace" => o \in cycle'.copied
        <4>1. cells'[o].space \in {"free", "nursery", "copyspace", "immix", "los", "immortal"}
          <5>1. cells'[o] \in CellType
            BY <1>4, <1>6 DEF SlotDone
          <5> QED
            BY <5>1 DEF CellType
        <4> QED
          BY <1>7, <3>3, <4>1 DEF Visited
      <3> QED
        BY <1>6, <1>15, <3>2, <3>3 DEF SlotDone
    <2>2. \A p \in L : Visited(p) \/ p \in cycle.queue => Visited(p)' \/ p \in cycle'.queue
      BY <1>11, <1>13, <2>1
    <2>3. \A p \in stack' : Visited(p)' \/ p \in cycle'.queue
      BY <1>1, <1>9, <1>15, <2>2 DEF FullClosure
    <2>4. ASSUME NEW p \in L, Visited(p)'
          PROVE  /\ ~Young(p)' /\ cells'[p].unlog = 1
                 /\ \/ cells'[p].field = NullRef \/ Visited(cells[p].field)'
                    \/ cells'[p].field \in cycle'.queue
      <3>1. \/ Visited(p) /\ cells'[p] = cells[p]
            \/ /\ cells'[p].unlog = 1 /\ (cells'[p].field = NullRef \/ cells'[p].field \in cycle'.queue)
               /\ ~Young(p)'
        <4>1. CASE p # o
          BY <1>11, <1>13, <2>4, <4>1
        <4>2. CASE p = o
          <5>1. 0 # 1
            BY SMTT(30)
          <5>2. CASE /\ cells'[o] = cells[o] /\ (o \in cycle'.copied <=> o \in cycle.copied)
                     /\ Visited(o) \/ cells[o].space = "free"
            BY <1>9, <4>2, <5>2
          <5>3. CASE /\ cells'[o].unlog = 1 /\ cells'[o].space \notin {"free", "nursery"}
                     /\ cells'[o].field = NullRef \/ cells'[o].field \in cycle'.queue
                     /\ cells'[o].space = "los" => cells'[o].young = 0 /\ cells'[o].mark = cycle.los_state
                     /\ cells'[o].space \in {"immix", "immortal"} => cells'[o].mark = 1
            BY <4>2, <5>1, <5>3 DEF Young
          <5> QED
            BY <1>6, <1>15, <5>2, <5>3 DEF SlotDone
        <4> QED
          BY <4>1, <4>2
      <3>2. CASE Visited(p) /\ cells'[p] = cells[p]
        <4>1. /\ ~Young(p) /\ cells[p].unlog = 1
              /\ \/ cells[p].field = NullRef \/ Visited(cells[p].field)
                 \/ cells[p].field \in cycle.queue
          BY <1>9, <1>15, <3>2 DEF FullClosure
        <4>2. ~Young(p)'
          BY <1>7, <3>2, <4>1 DEF Young
        <4>3. ASSUME NEW q \in L, q = cells[p].field, Visited(q) \/ q \in cycle.queue
              PROVE  Visited(cells[p].field)' \/ cells'[p].field \in cycle'.queue
          <5>1. Visited(q)' \/ q \in cycle'.queue
            BY <2>2, <4>3
          <5>2. Visited(cells[p].field)' <=> Visited(q)'
            BY <3>2, <4>3 DEF Visited
          <5> QED
            BY <3>2, <4>3, <5>1, <5>2
        <4>4. cells[p].field \in L \cup {NullRef}
          BY <1>9
        <4> QED
          BY <3>2, <4>1, <4>2, <4>3, <4>4
      <3> QED
        BY <3>1, <3>2
    <2> QED
      BY <2>3, <2>4 DEF FullClosure
  <1>16. LiveSet(L)'
    BY <1>7, <1>10, <1>12, <1>14, <1>15 DEF LiveSet
  <1> QED
    BY <1>8, <1>16 DEF GenInv

\* What the release frees is young in a nursery collection, and was not
\* visited in a full-heap one.
LEMMA FreedObjects ==
    ASSUME GenShape, NEW o \in Freed
    PROVE  o \in GenObjects /\ IF cycle.gc_full_heap THEN ~Visited(o) ELSE Young(o)
  <1>1. cycle.plan \in {"gencopy", "genimmix", "sticky"} /\ 0 # 1
    <2>1. 0 # 1
      BY SMTT(30)
    <2> QED
      BY <2>1 DEF GenShape, CycleType
  <1>2. CASE cycle.plan = "gencopy"
    <2>1. o \in release_gencopy
      BY <1>2 DEF Freed
    <2> QED
      BY <2>1 DEF release_gencopy, In, Young, Visited
  <1>3. CASE cycle.plan = "genimmix"
    <2>1. o \in release_genimmix
      BY <1>3 DEF Freed
    <2> QED
      BY <1>1, <2>1 DEF release_genimmix, UnmarkedImmix, In, Young, Visited
  <1>4. CASE cycle.plan = "sticky"
    <2>1. o \in release_sticky
      BY <1>4 DEF Freed
    <2> QED
      BY <1>1, <1>4, <2>1 DEF release_sticky, UnmarkedImmix, In, Young, Visited
  <1> QED
    BY <1>1, <1>2, <1>3, <1>4

\* What a collection keeps of L: its old members, or the visited ones.
Kept(L) == {o \in L : IF cycle.gc_full_heap THEN Visited(o) ELSE ~Young(o)}

\* When the queue and the packets are empty, the kept set holds the stack, is
\* closed, and has neither a young nor a logged member.
LEMMA KeptIsClosed ==
    ASSUME GenShape, NEW L \in SUBSET GenObjects, LiveSet(L), cycle.phase = "closure",
           cycle.queue = {}, packets = [objects |-> {}, regions |-> {}]
    PROVE  /\ stack \subseteq Kept(L)
           /\ \A o \in Kept(L) : /\ cells[o].space # "free" /\ cells[o].field \in Kept(L) \cup {NullRef}
                                 /\ ~Young(o) /\ cells[o].unlog # 0
                                 /\ cells[o].space = "los" => cells[o].mark = cycle.los_state
                                 /\ o \notin Freed
  <1>1. packets.objects = {} /\ packets.regions = {} /\ 0 # 1 /\ Stopped
    <2>1. 0 # 1
      BY SMTT(30)
    <2> QED
      BY <2>1 DEF GenShape, Stopped
  <1>2. /\ stack \subseteq L
        /\ \A o \in L : cells[o].space # "free" /\ cells[o].field \in L \cup {NullRef}
        /\ ~cycle.gc_full_heap => LargeMarked(L) /\ NurseryClosure(L)
        /\ cycle.gc_full_heap => FullClosure(L)
    BY <1>1, StoppedFacts DEF LiveSet
  <1>3. stack \subseteq Kept(L)
    BY <1>2 DEF Kept, NurseryClosure, FullClosure
  <1>4. ASSUME NEW o \in Kept(L)
        PROVE  /\ cells[o].space # "free" /\ cells[o].field \in Kept(L) \cup {NullRef}
               /\ ~Young(o) /\ cells[o].unlog # 0
               /\ cells[o].space = "los" => cells[o].mark = cycle.los_state
               /\ o \notin Freed
    <2>1. o \in L /\ cells[o].space # "free" /\ o \notin Freed
      BY <1>2, FreedObjects DEF Kept
    <2>2. CASE cycle.gc_full_heap
      <3>1. Visited(o) /\ FullClosure(L)
        BY <1>2, <2>2 DEF Kept
      <3>2. /\ ~Young(o) /\ cells[o].unlog = 1
            /\ cells[o].field = NullRef \/ Visited(cells[o].field)
        BY <1>1, <2>1, <3>1 DEF FullClosure
      <3>3. cells[o].field \in Kept(L) \cup {NullRef}
        BY <1>2, <2>1, <2>2, <3>2 DEF Kept
      <3>4. cells[o].space = "los" => cells[o].mark = cycle.los_state
        BY <3>1 DEF Visited
      <3> QED
        BY <1>1, <2>1, <3>2, <3>3, <3>4
    <2>3. CASE ~cycle.gc_full_heap
      <3>1. ~Young(o) /\ NurseryClosure(L) /\ LargeMarked(L)
        BY <1>2, <2>3 DEF Kept
      <3>2. /\ cells[o].unlog # 0
            /\ cells[o].field = NullRef \/ ~Young(cells[o].field)
        BY <1>1, <2>1, <3>1 DEF NurseryClosure
      <3>3. cells[o].field \in Kept(L) \cup {NullRef}
        BY <1>2, <2>1, <2>3, <3>2 DEF Kept
      <3>4. cells[o].space = "los" => cells[o].mark = cycle.los_state
        BY <2>1, <3>1 DEF LargeMarked
      <3> QED
        BY <2>1, <3>1, <3>2, <3>3, <3>4
    <2> QED
      BY <2>2, <2>3
  <1> QED
    BY <1>3, <1>4

\* The release: the kept set is live for the mutators that resume.  A panic
\* leaves the cells as they are.
LEMMA ReleaseAndResumeStep ==
    ASSUME GenShape, NEW L \in SUBSET GenObjects, LiveSet(L), ReleaseAndResume, ~HeaderMarks
    PROVE  GenInv'
  <1>1. /\ cycle.phase = "closure" /\ cycle.queue = {} /\ packets = [objects |-> {}, regions |-> {}]
        /\ UNCHANGED <<stack, writer, modbufs, packets>>
    BY DEF ReleaseAndResume
  <1>2. cycle \in CycleType /\ Stopped /\ ~cycle.panicked /\ cells \in [GenObjects -> CellType]
    BY <1>1 DEF GenShape, Stopped
  <1>3. CASE sweep_large_pages # {}
    <2>1. cycle' = [cycle EXCEPT !.panicked = TRUE, !.phase = "mutators"] /\ UNCHANGED cells
      BY <1>3 DEF ReleaseAndResume
    <2>2. PICK c1 \in CycleType : c1 = [cycle EXCEPT !.panicked = TRUE]
      BY <1>2, CycleSet
    <2>3. PICK c2 \in CycleType : c2 = [c1 EXCEPT !.phase = "mutators"]
      BY CycleSet
    <2>4. cycle' = c2
      BY <2>1, <2>2, <2>3
    <2>5. /\ cycle'.phase = "mutators" /\ cycle'.panicked /\ cycle'.plan = cycle.plan
          /\ cycle'.copied = cycle.copied
      BY <1>2, <2>1, SMTT(30) DEF CycleType
    <2>6. \A o \in GenObjects : SpaceUsed(cells[o].space)'
      BY <2>1, <2>5 DEF GenShape, SpaceUsed
    <2>7. GenShape'
      BY <1>1, <1>2, <2>1, <2>4, <2>5, <2>6 DEF GenShape, Stopped
    <2>8. Held' = Held
      BY <1>1 DEF Held
    <2>9. LiveSet(L)'
      BY <2>1, <2>5, <2>8 DEF LiveSet
    <2> QED
      BY <2>7, <2>9 DEF GenInv
  <1>4. CASE sweep_large_pages = {}
    <2>1. /\ cells' = [o \in GenObjects |-> IF o \in Freed THEN NoCell ELSE cells[o]]
          /\ cycle' = [cycle EXCEPT !.phase = "mutators", !.copied = {}, !.gc_full_heap = FALSE,
                                    !.immortal_state = on_global_release]
      BY <1>4 DEF ReleaseAndResume
    <2>2. on_global_release = 1
      <3>1. on_global_release = cycle.immortal_state
        BY DEF on_global_release
      <3> QED
        BY <1>2, <3>1 DEF CycleType
    <2>3. PICK c1 \in CycleType : c1 = [cycle EXCEPT !.phase = "mutators"]
      BY <1>2, CycleSet
    <2>4. PICK c2 \in CycleType : c2 = [c1 EXCEPT !.copied = {}]
      BY CycleSet
    <2>5. PICK c3 \in CycleType : c3 = [c2 EXCEPT !.gc_full_heap = FALSE]
      BY CycleSet
    <2>6. PICK c4 \in CycleType : c4 = [c3 EXCEPT !.immortal_state = 1]
      BY CycleSet
    <2>7. cycle' = [cycle EXCEPT !.phase = "mutators", !.copied = {}, !.gc_full_heap = FALSE,
                                 !.immortal_state = 1]
      BY <2>1, <2>2
    <2>8. cycle' = c4
      BY <2>3, <2>4, <2>5, <2>6, <2>7
    <2>9. /\ cycle'.phase = "mutators" /\ cycle'.panicked = cycle.panicked /\ cycle'.plan = cycle.plan
          /\ cycle'.copied = {} /\ cycle'.los_state = cycle.los_state
      BY <1>2, <2>7, SMTT(30) DEF CycleType
    <2>10. NoCell \in CellType /\ NoCell.space = "free"
      <3>1. 0 \in 0 .. 1
        BY SMTT(30)
      <3> QED
        BY <3>1 DEF NoCell, CellType, Refs
    <2>11. cells' \in [GenObjects -> CellType]
      BY <1>2, <2>1, <2>10
    <2>12. \A o \in GenObjects : SpaceUsed(cells[o].space)'
      <3>1. \A o \in GenObjects : cells'[o].space = cells[o].space \/ cells'[o].space = "free"
        BY <2>1, <2>10
      <3> QED
        BY <2>9, <3>1 DEF GenShape, SpaceUsed
    <2>13. GenShape'
      BY <1>1, <1>2, <2>8, <2>9, <2>11, <2>12 DEF GenShape, Stopped
    <2>14. PICK K \in SUBSET GenObjects : K = Kept(L)
      BY DEF Kept
    <2>15. /\ stack \subseteq K
           /\ \A o \in K : /\ cells[o].space # "free" /\ cells[o].field \in K \cup {NullRef}
                           /\ ~Young(o) /\ cells[o].unlog # 0
                           /\ cells[o].space = "los" => cells[o].mark = cycle.los_state
                           /\ o \notin Freed
      BY <1>1, <2>14, KeptIsClosed
    <2>16. \A o \in K : cells'[o] = cells[o]
      BY <2>1, <2>15
    <2>17. \A o \in K : ~Young(o)'
      BY <2>9, <2>15, <2>16 DEF Young
    <2>18. \A m \in GenMutators : writer'[m] = AtSafepoint
      BY <1>1, <1>2, StoppedFacts
    <2>19. Held' \subseteq K
      BY <1>1, <2>15, <2>18, SafepointFacts DEF Held
    <2>20. \A o \in K : Remembered(o)'
      <3>1. ASSUME NEW o \in K PROVE Remembered(o)'
        <4>1. cells'[o].unlog # 0
          BY <2>15, <2>16
        <4>2. cells'[o].field # NullRef => ~Young(cells[o].field)'
          <5>1. ASSUME NEW q \in K, q = cells'[o].field PROVE ~Young(cells[o].field)'
            <6>1. Young(cells[o].field)' <=> Young(q)'
              BY <5>1 DEF Young
            <6> QED
              BY <2>17, <6>1
          <5> QED
            BY <2>15, <2>16, <5>1
        <4>3. \A m \in GenMutators : writer'[m].at # "raw"
          BY <2>18, SafepointFacts
        <4> QED
          BY <4>1, <4>2, <4>3 DEF Remembered
      <3> QED
        BY <3>1
    <2>21. LargeMarked(K)' /\ BarrierHolds(K)'
      BY <2>9, <2>15, <2>16, <2>20 DEF LargeMarked, BarrierHolds
    <2>22. \A o \in K : cells'[o].space # "free" /\ cells'[o].field \in K \cup {NullRef}
      BY <2>15, <2>16
    <2>23. LiveSet(K)'
      BY <2>9, <2>19, <2>21, <2>22 DEF LiveSet
    <2> QED
      BY <2>13, <2>23 DEF GenInv
  <1> QED
    BY <1>3, <1>4

-----------------------------------------------------------------------------
(* The invariant and the theorem.                                          *)

\* Nothing is allocated and nothing is held at the start.
LEMMA GenInvInit == GenInit => GenInv
  <1> SUFFICES ASSUME GenInit PROVE GenInv
    OBVIOUS
  <1>1. /\ cells = [o \in GenObjects |-> NoCell] /\ stack = {}
        /\ writer = [m \in GenMutators |-> AtSafepoint]
        /\ modbufs = [m \in GenMutators |-> [objects |-> <<>>, regions |-> <<>>]]
        /\ packets = [objects |-> {}, regions |-> {}]
    BY DEF GenInit
  <1>2. /\ cycle.phase = "mutators" /\ cycle.copied = {} /\ ~cycle.panicked
        /\ cycle \in CycleType
    <2>1. cycle \in [plan : GenPlans, phase : {"mutators"}, gc_full_heap : {FALSE},
                     los_state : {0}, immortal_state : {1},
                     queue : {{}}, copied : {{}}, panicked : {FALSE},
                     operations : {0}, collections : {0}]
      BY DEF GenInit
    <2>2. 0 \in 0 .. 1 /\ 0 \in Nat
      BY SMTT(30)
    <2>3. GenPlans \subseteq {"gencopy", "genimmix", "sticky"}
      BY GenAssumption
    <2>4. PICK p \in GenPlans :
             cycle = [plan |-> p, phase |-> "mutators", gc_full_heap |-> FALSE, los_state |-> 0,
                      immortal_state |-> 1, queue |-> {}, copied |-> {}, panicked |-> FALSE,
                      operations |-> 0, collections |-> 0]
      <3>1. /\ cycle.plan \in GenPlans /\ cycle.phase = "mutators" /\ cycle.gc_full_heap = FALSE
            /\ cycle.los_state = 0 /\ cycle.immortal_state = 1 /\ cycle.queue = {} /\ cycle.copied = {}
            /\ cycle.panicked = FALSE /\ cycle.operations = 0 /\ cycle.collections = 0
        BY <2>1
      <3>2. cycle = [plan |-> cycle.plan, phase |-> cycle.phase, gc_full_heap |-> cycle.gc_full_heap,
                     los_state |-> cycle.los_state, immortal_state |-> cycle.immortal_state,
                     queue |-> cycle.queue, copied |-> cycle.copied, panicked |-> cycle.panicked,
                     operations |-> cycle.operations, collections |-> cycle.collections]
        BY <2>1
      <3> QED
        BY <3>1, <3>2
    <2>5. p \in {"gencopy", "genimmix", "sticky"}
      BY <2>3
    <2>6. cycle \in CycleType
      BY <2>2, <2>4, <2>5 DEF CycleType
    <2> QED
      BY <2>4, <2>6
  <1>3. NoCell \in CellType /\ NoCell.space = "free"
    <2>1. 0 \in 0 .. 1
      BY SMTT(30)
    <2> QED
      BY <2>1 DEF NoCell, CellType, Refs
  <1>4. \A o \in GenObjects : SpaceUsed(cells[o].space)
    BY <1>1, <1>3 DEF SpaceUsed
  <1>5. GenShape
    BY <1>1, <1>2, <1>3, <1>4, SafepointFacts, EmptyHolds DEF GenShape, BufferType
  <1>6. Held \subseteq {}
    BY <1>1, SafepointFacts DEF Held
  <1>7. LiveSet({})
    BY <1>2, <1>6 DEF LiveSet, LargeMarked, BarrierHolds
  <1> QED
    BY <1>5, <1>7 DEF GenInv

\* Every step keeps the invariant.
LEMMA GenInvStep ==
    ASSUME GenInv, [GenNext]_genVars, ~HeaderMarks
    PROVE  GenInv'
  <1>1. GenShape
    BY DEF GenInv
  <1>2. PICK L \in SUBSET GenObjects : LiveSet(L)
    BY DEF GenInv
  <1>3. ASSUME NEW m \in GenMutators, Allocate(m) \/ LoadOrForget(m) \/ StoreField(m)
        PROVE  GenInv'
    BY <1>1, <1>2, <1>3, AllocateStep, LoadOrForgetStep, StoreFieldStep
  <1>4. ASSUME NEW m \in GenMutators,
               object_reference_write_post(m) \/ log_object(m) \/ object_reference_write_slow(m)
        PROVE  GenInv'
    BY <1>1, <1>2, <1>4, WritePostStep, LogObjectStep, WriteSlowStep
  <1>5. ASSUME NEW m \in GenMutators,
               CopyRegion(m) \/ object_probable_write(m) \/ StoreWithoutBarrier(m)
        PROVE  GenInv'
    BY <1>1, <1>2, <1>5, CopyRegionStep, ProbableWriteStep, StoreWithoutBarrierStep
  <1>6. CASE StopAndSchedule \/ Prepare
    BY <1>1, <1>2, <1>6, StopAndScheduleStep, PrepareStep
  <1>7. CASE ProcessModBuf \/ ProcessRegionModBuf
    BY <1>1, <1>2, <1>7, ProcessModBufStep, ProcessRegionModBufStep
  <1>8. CASE ProcessSlot \/ ReleaseAndResume
    BY <1>1, <1>2, <1>8, ProcessSlotStep, ReleaseAndResumeStep
  <1>9. CASE UNCHANGED genVars
    <2>1. UNCHANGED <<cells, stack, writer, modbufs, packets, cycle>>
      BY <1>9 DEF genVars
    <2>2. GenShape'
      BY <1>1, <2>1 DEF GenShape, SpaceUsed
    <2>3. \A p : (Young(p)' <=> Young(p)) /\ (Visited(p)' <=> Visited(p))
      BY <2>1 DEF Young, Visited
    <2>4. \A p : /\ BufferedObject(p)' <=> BufferedObject(p)
                 /\ BufferedRegion(p)' <=> BufferedRegion(p)
                 /\ InBarrier(p)' <=> InBarrier(p)
      BY <2>1 DEF BufferedObject, BufferedRegion, InBarrier, InModbuf
    <2>5. \A p : Young(cells[p].field)' <=> Young(cells[p].field)
      BY <2>1 DEF Young
    <2>6. \A p : Visited(cells[p].field)' <=> Visited(cells[p].field)
      BY <2>1 DEF Visited
    <2>7. ASSUME NEW p PROVE Remembered(p)' <=> Remembered(p)
      BY <2>1, <2>4, <2>5 DEF Remembered
    <2>8. BarrierHolds(L) => BarrierHolds(L)'
      BY <2>3, <2>7 DEF BarrierHolds
    <2>9. NurseryClosure(L) => NurseryClosure(L)'
      BY <2>1, <2>3, <2>5 DEF NurseryClosure
    <2>10. FullClosure(L) => FullClosure(L)'
      BY <2>1, <2>3, <2>6 DEF FullClosure
    <2>11. LargeMarked(L) => LargeMarked(L)'
      BY <2>1 DEF LargeMarked
    <2>12. Held' = Held
      BY <2>1 DEF Held
    <2>13. LiveSet(L)'
      BY <1>2, <2>1, <2>8, <2>9, <2>10, <2>11, <2>12 DEF LiveSet
    <2> QED
      BY <2>2, <2>13 DEF GenInv
  <1> QED
    BY <1>3, <1>4, <1>5, <1>6, <1>7, <1>8, <1>9 DEF GenNext

\* With side mark bits the barrier, the modbufs and the collections of GenCopy,
\* GenImmix and StickyImmix never free an object a mutator can reach.
THEOREM ReachableObjectsSurviveThm ==
    ASSUME ~HeaderMarks
    PROVE  GenSpec => []ReachableObjectsSurvive
  <1>1. GenInit => GenInv
    BY GenInvInit
  <1>2. GenInv /\ [GenNext]_genVars => GenInv'
    BY GenInvStep
  <1>3. GenInv => ReachableObjectsSurvive
    BY InvGivesSurvival
  <1> QED
    BY <1>1, <1>2, <1>3, PTL DEF GenSpec
=============================================================================

---------------------------- MODULE Generational ----------------------------
(***************************************************************************)
(* The generational plans: GenCopy, GenImmix and StickyImmix.  Mutators    *)
(* run the object-remembering barrier of plan/barriers.rs, whose slow path *)
(* fills the modbufs of plan/generational/barrier.rs.  Collections are     *)
(* nursery or full-heap ones and cross the nursery (or the unmarked        *)
(* objects of the sticky Immix space), the mature space, the large object  *)
(* space with its treadmill, and the immortal space with its mark state.   *)
(*                                                                         *)
(* An object keeps its identity when it is copied: what a move does to     *)
(* slots and forwarding words is the subject of module Tracing.  Each      *)
(* object has one reference field, and the mutators share one stack.       *)
(***************************************************************************)
EXTENDS Integers, Sequences, FiniteSets, FiniteSetsExt

CONSTANTS GenObjects,    \* object names: a finite set of naturals
          GenMutators,   \* mutator threads
          GenPlans,      \* a subset of {"gencopy", "genimmix", "sticky"}
          MODBUF_SIZE,   \* the capacity of a VectorQueue
          HeaderMarks,   \* LOCAL_MARK_BIT_SPEC is in the object's header
          MaxOperations, \* bound: mutator operations between two collections
          MaxCycles      \* bound: collections

ASSUME GenAssumption ==
    /\ GenObjects \subseteq Nat /\ IsFiniteSet(GenObjects)
    /\ GenPlans \subseteq {"gencopy", "genimmix", "sticky"}

VARIABLES cells,         \* the objects: space, field, and the metadata bits
          stack,         \* the objects that mutators hold directly
          writer,        \* what each mutator is doing
          modbufs,       \* the modbuf and region_modbuf of each mutator
          packets,       \* the modbuf packets in the Closure bucket
          mill,          \* the treadmill of the large object space
          cycle          \* the plan and the state of the collection

genVars == <<cells, stack, writer, modbufs, packets, mill, cycle>>

NullRef == -1
AtSafepoint == [at |-> "safepoint", src |-> NullRef, target |-> NullRef]
NoCell == [space |-> "free", field |-> NullRef, unlog |-> 0, mark |-> 0, young |-> 0]
MatureSpace == IF cycle.plan = "gencopy" THEN "copyspace" ELSE "immix"

\* The mark state of LargeObjectSpace starts at 0, MarkState::new at 1.
GenInit ==
    /\ cells = [o \in GenObjects |-> NoCell]
    /\ stack = {}
    /\ writer = [m \in GenMutators |-> AtSafepoint]
    /\ modbufs = [m \in GenMutators |-> [objects |-> <<>>, regions |-> <<>>]]
    /\ packets = [objects |-> {}, regions |-> {}]
    /\ mill = [alloc_nursery |-> {}, collect_nursery |-> {}, from_space |-> {}, to_space |-> {}]
    /\ cycle \in [plan : GenPlans, phase : {"mutators"}, gc_full_heap : {FALSE},
                  los_state : {0}, immortal_state : {1},
                  queue : {{}}, copied : {{}}, panicked : {FALSE},
                  operations : {0}, collections : {0}]

GenTypeOK ==
    /\ cells \in [GenObjects -> [space : {"free", "nursery", "copyspace", "immix", "los", "immortal"},
                                 field : GenObjects \cup {NullRef}, unlog : 0..1, mark : 0..1, young : 0..1]]
    /\ stack \subseteq GenObjects
    /\ cycle.queue \subseteq GenObjects

-----------------------------------------------------------------------------
(* Which objects count as young.                                           *)

is_object_in_nursery_gen(o) == cells[o].space = "nursery"

is_object_in_nursery_sticky(o) == cells[o].space = "immix" /\ cells[o].mark = 0

is_object_in_nursery(o) == IF cycle.plan = "sticky"
                           THEN is_object_in_nursery_sticky(o)
                           ELSE is_object_in_nursery_gen(o)

is_current_gc_nursery == ~cycle.gc_full_heap

-----------------------------------------------------------------------------
(* Allocation.  A new object of the sticky plan lies in the Immix space,   *)
(* unmarked; a large object starts in the logical nursery; an immortal one *)
(* is never young and is unlogged from the start.                          *)

unmarked_state == 1 - cycle.immortal_state

on_object_metadata_initialization == IF HeaderMarks THEN unmarked_state ELSE 0

AllocDefault == [NoCell EXCEPT !.space = IF cycle.plan = "sticky" THEN "immix" ELSE "nursery"]

initialize_large_object == [NoCell EXCEPT !.space = "los", !.mark = cycle.los_state, !.young = 1]

initialize_immortal_object ==
    [NoCell EXCEPT !.space = "immortal", !.unlog = 1, !.mark = on_object_metadata_initialization]

add_to_treadmill(o) == [mill EXCEPT !.alloc_nursery = @ \cup {o}]

\* A mutator at a safepoint starts its next operation.
Running(m) ==
    /\ cycle.phase = "mutators" /\ writer[m].at = "safepoint" /\ ~cycle.panicked
    /\ cycle.operations < MaxOperations
    /\ cycle' = [cycle EXCEPT !.operations = @ + 1]

Allocate(m) ==
    /\ Running(m)
    /\ \E o \in {p \in GenObjects : cells[p].space = "free"} :
       /\ \A p \in GenObjects : cells[p].space = "free" => o <= p
       /\ \E cell \in {AllocDefault, initialize_large_object, initialize_immortal_object} :
            /\ cells' = [cells EXCEPT ![o] = cell]
            /\ mill' = IF cell.space = "los" THEN add_to_treadmill(o) ELSE mill
       /\ stack' = stack \cup {o}
    /\ UNCHANGED <<writer, modbufs, packets>>

\* The mutator loads a field, or forgets a reference that no thread is using.
LoadOrForget(m) ==
    /\ Running(m)
    /\ \E o \in stack :
         stack' \in {stack \cup ({cells[o].field} \ {NullRef})}
                    \cup (IF \E w \in GenMutators : o \in {writer[w].src, writer[w].target}
                          THEN {} ELSE {stack \ {o}})
    /\ UNCHANGED <<cells, writer, modbufs, packets, mill>>

-----------------------------------------------------------------------------
(* The barrier.                                                            *)

object_is_unlogged(o) == cells[o].unlog # 0

flush_modbuf(m, buf) ==
    /\ packets' = [packets EXCEPT !.objects = @ \cup Range(buf)]
    /\ modbufs' = [modbufs EXCEPT ![m].objects = <<>>]

\* modbuf.push, and flush_modbuf once the queue is full
PushObject(m, o) ==
    IF Len(modbufs[m].objects) + 1 >= MODBUF_SIZE
    THEN flush_modbuf(m, Append(modbufs[m].objects, o))
    ELSE /\ modbufs' = [modbufs EXCEPT ![m].objects = Append(@, o)]
         /\ UNCHANGED packets

\* The store itself, after which the VM calls object_reference_write_post.
StoreField(m) ==
    /\ Running(m)
    /\ \E src \in stack, target \in stack \cup {NullRef} :
         /\ cells' = [cells EXCEPT ![src].field = target]
         /\ writer' = [writer EXCEPT ![m] = [at |-> "post", src |-> src, target |-> target]]
    /\ UNCHANGED <<stack, modbufs, packets, mill>>

object_reference_write_post(m) ==
    /\ writer[m].at = "post"
    /\ writer' = [writer EXCEPT ![m] = IF object_is_unlogged(writer[m].src)
                                       THEN [@ EXCEPT !.at = "slow"] ELSE AtSafepoint]
    /\ UNCHANGED <<cells, stack, modbufs, packets, mill, cycle>>

\* One thread's compare-exchange succeeds; the others see the object logged.
log_object(m) ==
    /\ writer[m].at = "slow"
    /\ cells' = [cells EXCEPT ![writer[m].src].unlog = 0]
    /\ writer' = [writer EXCEPT ![m] = IF object_is_unlogged(writer[m].src)
                                       THEN [@ EXCEPT !.at = "log"] ELSE AtSafepoint]
    /\ UNCHANGED <<stack, modbufs, packets, mill, cycle>>

object_reference_write_slow(m) ==
    /\ writer[m].at = "log"
    /\ PushObject(m, writer[m].src)
    /\ writer' = [writer EXCEPT ![m] = AtSafepoint]
    /\ UNCHANGED <<cells, stack, mill, cycle>>

\* memory_region_copy_post follows the copy of a slice into dst.  The slice
\* may or may not know the object it belongs to; without it the sticky plan
\* takes every address for a mature one.
is_address_in_nursery(o) == IF cycle.plan = "sticky" THEN FALSE ELSE is_object_in_nursery_gen(o)

flush_region_modbuf(m, buf) ==
    /\ packets' = [packets EXCEPT !.regions = @ \cup Range(buf)]
    /\ modbufs' = [modbufs EXCEPT ![m].regions = <<>>]

memory_region_copy_slow(m, dst, knowsObject) ==
    IF (IF knowsObject THEN is_object_in_nursery(dst) ELSE is_address_in_nursery(dst))
    THEN UNCHANGED <<modbufs, packets>>
    ELSE IF Len(modbufs[m].regions) + 1 >= MODBUF_SIZE
         THEN flush_region_modbuf(m, Append(modbufs[m].regions, dst))
         ELSE /\ modbufs' = [modbufs EXCEPT ![m].regions = Append(@, dst)]
              /\ UNCHANGED packets

CopyRegion(m) ==
    /\ Running(m)
    /\ \E dst \in stack, target \in stack, knowsObject \in BOOLEAN :
         /\ cells' = [cells EXCEPT ![dst].field = target]
         /\ memory_region_copy_slow(m, dst, knowsObject)
    /\ UNCHANGED <<stack, writer, mill>>

\* The barrier runs before the VM stores into the object without one.  The
\* object is queued but stays unlogged.
object_probable_write(m) ==
    /\ Running(m)
    /\ \E src \in stack, target \in stack :
         /\ IF object_is_unlogged(src) THEN PushObject(m, src)
                                       ELSE UNCHANGED <<modbufs, packets>>
         /\ writer' = [writer EXCEPT ![m] = [at |-> "raw", src |-> src, target |-> target]]
    /\ UNCHANGED <<cells, stack, mill>>

StoreWithoutBarrier(m) ==
    /\ writer[m].at = "raw"
    /\ cells' = [cells EXCEPT ![writer[m].src].field = writer[m].target]
    /\ writer' = [writer EXCEPT ![m] = AtSafepoint]
    /\ UNCHANGED <<stack, modbufs, packets, mill, cycle>>

-----------------------------------------------------------------------------
(* The collection: stop and schedule, prepare, closure, release.           *)

\* The mutators stop and flush their barriers.  requires_full_heap_collection
\* decides between a nursery and a full-heap collection from the user's
\* request, the attempts made and the pages left (module AllocSlowPath).
StopAndSchedule ==
    /\ cycle.phase = "mutators" /\ ~cycle.panicked /\ cycle.collections < MaxCycles
    /\ \A m \in GenMutators : writer[m].at = "safepoint"
    /\ packets' = [objects |-> packets.objects \cup UNION {Range(modbufs[m].objects) : m \in GenMutators},
                   regions |-> packets.regions \cup UNION {Range(modbufs[m].regions) : m \in GenMutators}]
    /\ modbufs' = [m \in GenMutators |-> [objects |-> <<>>, regions |-> <<>>]]
    /\ \E is_full_heap \in BOOLEAN :
         cycle' = [cycle EXCEPT !.phase = "prepare", !.queue = stack,
                     !.operations = 0, !.collections = @ + 1, !.gc_full_heap = is_full_heap]
    /\ UNCHANGED <<cells, stack, writer, mill>>

\* ImmortalSpace::prepare and MarkState::on_block_reset: side marks are zeroed.
prepare_immortal(cell) == IF cell.space = "immortal" /\ ~HeaderMarks
                          THEN [cell EXCEPT !.mark = 0] ELSE cell

\* A major collection clears the marks and the log bits of the Immix space.
ClearedForMajor(cell) == IF cell.space = "immix"
                       THEN [cell EXCEPT !.mark = 0, !.unlog = 0] ELSE cell

flip(full) ==
    [alloc_nursery |-> mill.collect_nursery, collect_nursery |-> mill.alloc_nursery,
     from_space |-> IF full THEN mill.to_space ELSE mill.from_space,
     to_space |-> IF full THEN mill.from_space ELSE mill.to_space]

\* The large object space: its mark state flips in full-heap collections only.
prepare_los(full) == IF full THEN 1 - cycle.los_state ELSE cycle.los_state

\* GenCopy flips its semispaces in a full-heap collection: the mature objects
\* then lie in the from-space until they are in cycle.copied.
prepare_gencopy(cell) == prepare_immortal(cell)

prepare_genimmix(cell) == IF cycle.gc_full_heap THEN ClearedForMajor(prepare_immortal(cell))
                                                ELSE prepare_immortal(cell)

\* A nursery collection of the sticky plan prepares no common space but the
\* large object space, and no object of the Immix space.
prepare_sticky(cell) == IF cycle.gc_full_heap THEN ClearedForMajor(prepare_immortal(cell)) ELSE cell

Prepare ==
    /\ cycle.phase = "prepare"
    /\ cells' = [o \in GenObjects |->
          CASE cycle.plan = "gencopy" -> prepare_gencopy(cells[o])
            [] cycle.plan = "genimmix" -> prepare_genimmix(cells[o])
            [] cycle.plan = "sticky" -> prepare_sticky(cells[o])]
    /\ mill' = flip(cycle.gc_full_heap)
    /\ cycle' = [cycle EXCEPT !.phase = "closure", !.los_state = prepare_los(cycle.gc_full_heap)]
    /\ UNCHANGED <<stack, writer, modbufs, packets>>

FieldsOf(S) == {cells[o].field : o \in S} \ {NullRef}

\* Mistake: the objects of the modbuf stay logged after they were scanned.
ProcessModBufKeepsLogged ==
    /\ cycle.phase = "closure" /\ packets.objects # {}
    /\ packets' = [packets EXCEPT !.objects = {}]
    /\ cycle' = IF is_current_gc_nursery
                THEN [cycle EXCEPT !.queue = @ \cup FieldsOf(packets.objects)] ELSE cycle
    /\ UNCHANGED <<cells, stack, writer, modbufs, mill>>

ProcessModBuf ==
    /\ cycle.phase = "closure" /\ packets.objects # {}
    /\ packets' = [packets EXCEPT !.objects = {}]
    /\ IF is_current_gc_nursery
       THEN /\ cells' = [o \in GenObjects |-> IF o \in packets.objects
                                              THEN [cells[o] EXCEPT !.unlog = 1] ELSE cells[o]]
            /\ cycle' = [cycle EXCEPT !.queue = @ \cup FieldsOf(packets.objects)]
       ELSE UNCHANGED <<cells, cycle>>
    /\ UNCHANGED <<stack, writer, modbufs, mill>>

ProcessRegionModBuf ==
    /\ cycle.phase = "closure" /\ packets.regions # {}
    /\ packets' = [packets EXCEPT !.regions = {}]
    /\ cycle' = IF is_current_gc_nursery
                THEN [cycle EXCEPT !.queue = @ \cup FieldsOf(packets.regions)] ELSE cycle
    /\ UNCHANGED <<cells, stack, writer, modbufs, mill>>

\* The object is visited: its metadata becomes cell and its field is queued.
Visit(o, cell) ==
    /\ cells' = [cells EXCEPT ![o] = cell]
    /\ cycle' = [cycle EXCEPT !.queue = (@ \ {o}) \cup ({cell.field} \ {NullRef}),
                              !.copied = IF cell.space = "copyspace" THEN @ \cup {o} ELSE @]

\* The object was visited before, or is none of this collection's business.
Skip(o) == /\ cycle' = [cycle EXCEPT !.queue = @ \ {o}]
           /\ UNCHANGED cells

\* GCWorkerCopyContext::post_copy and the policy's own: a copy in a mature
\* space is unlogged, and marked if the space is an Immix one.
post_copy(cell) == [cell EXCEPT !.space = MatureSpace, !.unlog = 1,
                                !.mark = IF MatureSpace = "immix" THEN 1 ELSE 0]

trace_copyspace(o) ==
    IF o \in cycle.copied THEN Skip(o) ELSE Visit(o, post_copy(cells[o]))

\* attempt_mark and unlog_object_if_needed
trace_immix(o) ==
    IF cells[o].mark = 1 THEN Skip(o) ELSE Visit(o, [cells[o] EXCEPT !.mark = 1, !.unlog = 1])

trace_immortal(o) ==
    IF cells[o].mark = cycle.immortal_state THEN Skip(o)
    ELSE Visit(o, [cells[o] EXCEPT !.mark = cycle.immortal_state, !.unlog = 1])

is_in_nursery(o) == cells[o].young = 1

\* test_and_mark compares the nursery bit too in a nursery collection
test_and_mark(o) == \/ cells[o].mark # cycle.los_state
                    \/ is_current_gc_nursery /\ is_in_nursery(o)

\* TreadMill::copy
TreadMillCopy(o, inNursery) ==
    IF inNursery
    THEN [mill EXCEPT !.collect_nursery = @ \ {o}, !.to_space = @ \cup {o}]
    ELSE [mill EXCEPT !.from_space = @ \ {o}, !.to_space = @ \cup {o}]

trace_los(o) ==
    IF (cycle.gc_full_heap \/ is_in_nursery(o)) /\ test_and_mark(o)
    THEN /\ Visit(o, [cells[o] EXCEPT !.mark = cycle.los_state, !.young = 0, !.unlog = 1])
         /\ mill' = TreadMillCopy(o, is_in_nursery(o))
    ELSE Skip(o) /\ UNCHANGED mill

trace_object_nursery_gen(o) ==
    CASE cells[o].space = "nursery" -> trace_copyspace(o) /\ UNCHANGED mill
      [] cells[o].space = "los" -> trace_los(o)
      [] OTHER -> Skip(o) /\ UNCHANGED mill

trace_object_nursery_sticky(o) ==
    CASE cells[o].space = "immix" /\ is_object_in_nursery(o) -> trace_immix(o) /\ UNCHANGED mill
      [] cells[o].space = "los" -> trace_los(o)
      [] OTHER -> Skip(o) /\ UNCHANGED mill

\* The dispatch that derive(PlanTraceObject) generates for a full collection.
trace_object_full(o) ==
    CASE cells[o].space \in {"nursery", "copyspace"} -> trace_copyspace(o) /\ UNCHANGED mill
      [] cells[o].space = "immix" -> trace_immix(o) /\ UNCHANGED mill
      [] cells[o].space = "los" -> trace_los(o)
      [] cells[o].space = "immortal" -> trace_immortal(o) /\ UNCHANGED mill
      [] OTHER -> Skip(o) /\ UNCHANGED mill

ProcessSlot ==
    /\ cycle.phase = "closure" /\ cycle.queue # {}
    /\ LET o == Min(cycle.queue)
       IN  CASE cycle.gc_full_heap -> trace_object_full(o)
             [] is_current_gc_nursery /\ cycle.plan = "sticky" -> trace_object_nursery_sticky(o)
             [] is_current_gc_nursery /\ cycle.plan # "sticky" -> trace_object_nursery_gen(o)
    /\ UNCHANGED <<stack, writer, modbufs, packets>>

\* collect_nursery, and collect in a full-heap collection
sweep_large_pages == mill.collect_nursery \cup (IF cycle.gc_full_heap THEN mill.from_space ELSE {})

In(space) == {o \in GenObjects : cells[o].space = space}
UnmarkedImmix == {o \in In("immix") : cells[o].mark = 0}

\* The nursery is released whole, and so is the from-space.
release_gencopy == In("nursery") \cup (IF cycle.gc_full_heap THEN In("copyspace") \ cycle.copied ELSE {})

release_genimmix == In("nursery") \cup (IF cycle.gc_full_heap THEN UnmarkedImmix ELSE {})

release_sticky == UnmarkedImmix

Freed == CASE cycle.plan = "gencopy" -> release_gencopy
           [] cycle.plan = "genimmix" -> release_genimmix
           [] cycle.plan = "sticky" -> release_sticky

\* MarkState::on_global_release.  CommonGenPlan::release releases the common
\* spaces in every collection, the sticky plan in full-heap ones.
on_global_release == IF HeaderMarks /\ (cycle.gc_full_heap \/ cycle.plan # "sticky")
                     THEN unmarked_state ELSE cycle.immortal_state

ReleaseAndResume ==
    /\ cycle.phase = "closure" /\ cycle.queue = {}
    /\ packets = [objects |-> {}, regions |-> {}]
    /\ IF sweep_large_pages # {}
       THEN /\ cycle' = [cycle EXCEPT !.panicked = TRUE, !.phase = "mutators"]
            /\ UNCHANGED <<cells, mill>>
       ELSE /\ cells' = [o \in GenObjects |-> IF o \in Freed THEN NoCell ELSE cells[o]]
            /\ mill' = [mill EXCEPT !.collect_nursery = {},
                                    !.from_space = IF cycle.gc_full_heap THEN {} ELSE @]
            \* nothing reads gc_full_heap before the next collection sets it
            /\ cycle' = [cycle EXCEPT !.phase = "mutators", !.copied = {}, !.gc_full_heap = FALSE,
                                      !.immortal_state = on_global_release]
    /\ UNCHANGED <<stack, writer, modbufs, packets>>

GenNext ==
    \/ \E m \in GenMutators :
          \/ Allocate(m) \/ LoadOrForget(m) \/ StoreField(m)
          \/ object_reference_write_post(m) \/ log_object(m) \/ object_reference_write_slow(m)
          \/ CopyRegion(m) \/ object_probable_write(m) \/ StoreWithoutBarrier(m)
    \/ StopAndSchedule \/ Prepare \/ ProcessModBuf \/ ProcessRegionModBuf
    \/ ProcessSlot \/ ReleaseAndResume

GenSpec == GenInit /\ [][GenNext]_genVars

-----------------------------------------------------------------------------
\* The objects a mutator can get at: follow the field as often as there are objects.
ReachableCells ==
    LET held == stack \cup ({writer[m].src : m \in GenMutators} \cup {writer[m].target : m \in GenMutators})
        from[n \in 0..Cardinality(GenObjects)] ==
            IF n = 0 THEN held \ {NullRef} ELSE from[n - 1] \cup FieldsOf(from[n - 1])
    IN  from[Cardinality(GenObjects)]

\* While mutators run, no object they can reach was freed: a nursery collection
\* finds every young object through the stack and the modbufs of the barrier,
\* a full-heap one through marks that start out clear in every space.
ReachableObjectsSurvive ==
    cycle.phase = "mutators" => \A o \in ReachableCells : cells[o].space # "free"

\* sweep_large_pages (largeobjectspace.rs) releases the pages of a dead large
\* object; it never stops the collector.
LargeObjectsAreSwept == ~cycle.panicked
=============================================================================

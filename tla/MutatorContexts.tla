---------------------------- MODULE MutatorContexts ----------------------------
(***************************************************************************)
(* The thread-local allocation contexts of every plan, across pauses:      *)
(*   - the allocator mapping and the space mapping a Mutator is built from *)
(*     (plan/mutator_context.rs, plan/*/mutator.rs, util/alloc/            *)
(*     allocators.rs), binding, destroying and allocating;                 *)
(*   - the copy contexts of the GC workers (util/copy/mod.rs);             *)
(*   - the packets of a pause that touch them: StopMutators, Prepare,      *)
(*     PrepareMutator, PrepareCollector, ScanMultipleStacks, Release,      *)
(*     ReleaseMutator, ReleaseCollector (scheduler/gc_work.rs).            *)
(* A context holds one allocation buffer per allocator.  Each plan must    *)
(* take the buffers away in every pause that reclaims the memory under     *)
(* them, through three different hooks, and point the copying allocators   *)
(* at the right half of the heap.                                          *)
(***************************************************************************)
EXTENDS Integers, Sequences, FiniteSets, SequencesExt

CONSTANTS
    CtxMutators,     \* threads the VM binds a mutator to
    CtxWorkers,      \* GC workers
    CtxPlans,        \* the plans to check
    CtxFeatures,     \* sets of Cargo features: code_space, ro_space, nogc_multi_space
    CtxRequests,     \* the semantics the program allocates with
    MaxGCs           \* bound on the number of pauses

VARIABLES
    build,           \* the plan and the features of this build, and the half `hi`
    contexts,        \* mutator -> its allocators by selector
    copiers,         \* worker -> its copy allocators by selector
    freed,           \* space -> how many pauses reclaimed it
    paused,          \* the stage of the pause, and whether it is a full-heap one
    pending          \* the packets of the stage still to run, and the stacks scanned

ctxVars == <<build, contexts, copiers, freed, paused, pending>>

Semantics == {"Default", "Immortal", "Los", "Code", "ReadOnly", "LargeCode", "NonMoving"}

NoSelector == <<"None", 0>>
NoContext == <<>>
NoBuffer == -1

MaxAllocators ==
    [BumpPointer |-> 6, LargeObject |-> 2, Malloc |-> 1, Immix |-> 1,
     FreeList |-> 2, MarkCompact |-> 1]

-----------------------------------------------------------------------------
(* What each plan says of its mutators and workers.                        *)

\* PlanConstraints::default, and the defaults of the Plan trait.
DefaultConfig ==
    [own |-> <<>>,                       \* selectors and spaces of the plan's own
     default |-> NoSelector,             \* the allocator of Default
     common |-> TRUE,                    \* uses CommonPlan
     prepare |-> "none",                 \* prepare_func
     release |-> "none",                 \* release_func
     needs_prepare_mutator |-> FALSE,
     no_mutator_prepare_release |-> FALSE,
     no_worker_prepare |-> FALSE,
     fast_worker_release |-> FALSE,
     copy |-> <<>>,                      \* copy selectors and their spaces
     prepare_worker |-> FALSE]           \* rebinds copy[0] to the to-space

Bump(i) == <<"BumpPointer", i>>
Own(sel, space) == [DefaultConfig EXCEPT !.own = << <<sel, space>> >>, !.default = sel]

create_nogc_mutator ==
    [DefaultConfig EXCEPT
        !.own = << <<Bump(0), "nogc_space">>, <<Bump(1), "immortal">>, <<Bump(2), "los">> >>,
        !.default = Bump(0), !.common = FALSE, !.needs_prepare_mutator = TRUE]

create_ss_mutator ==
    [Own(Bump(0), "tospace") EXCEPT !.release = "rebind", !.prepare_worker = TRUE,
        !.copy = << <<"CopySpace", "copyspace0">> >>]

create_gencopy_mutator ==
    [Own(Bump(0), "nursery") EXCEPT !.release = "reset", !.prepare_worker = TRUE,
        !.copy = << <<"CopySpace", "tospace">> >>]

create_genimmix_mutator ==
    [Own(Bump(0), "nursery") EXCEPT !.release = "reset",
        !.copy = << <<"ImmixHybrid", "immix">> >>]

create_immix_mutator ==
    [Own(<<"Immix", 0>>, "immix") EXCEPT !.release = "reset",
        !.no_worker_prepare = TRUE, !.fast_worker_release = TRUE,
        !.copy = << <<"Immix", "immix">> >>]

create_stickyimmix_mutator ==
    [create_immix_mutator EXCEPT
        !.no_worker_prepare = FALSE, !.fast_worker_release = FALSE]

create_lxr_mutator ==
    [create_immix_mutator EXCEPT !.prepare = "reset", !.no_mutator_prepare_release = TRUE]

create_markcompact_mutator ==
    [Own(<<"MarkCompact", 0>>, "mc") EXCEPT !.release = "reset"]

create_ms_mutator ==
    [Own(<<"FreeList", 0>>, "ms") EXCEPT !.needs_prepare_mutator = TRUE]

create_pp_mutator == Own(<<"LargeObject", 0>>, "pageprotect")

\* create_mutator: the plan option selects the constructor.
create_mutator(plan) ==
    CASE plan = "NoGC"        -> create_nogc_mutator
      [] plan = "SemiSpace"   -> create_ss_mutator
      [] plan = "GenCopy"     -> create_gencopy_mutator
      [] plan = "GenImmix"    -> create_genimmix_mutator
      [] plan = "MarkSweep"   -> create_ms_mutator
      [] plan = "Immix"       -> create_immix_mutator
      [] plan = "PageProtect" -> create_pp_mutator
      [] plan = "MarkCompact" -> create_markcompact_mutator
      [] plan = "StickyImmix" -> create_stickyimmix_mutator
      [] plan = "LXR"         -> create_lxr_mutator

Config == create_mutator(build.plan)

-----------------------------------------------------------------------------
(* Building a mutator.                                                     *)

tospace == IF build.hi THEN "copyspace1" ELSE "copyspace0"
fromspace == IF build.hi THEN "copyspace0" ELSE "copyspace1"
Resolve(space) == IF space = "tospace" THEN tospace ELSE space

\* Allocators a plan reserves of one kind: the ones its own spaces use.
\* (NoGC passes the reservation of its multi-space build to the space
\* mapping whatever the features.)
ReservedAllocators(kind) == Cardinality({i \in 1..Len(Config.own) : Config.own[i][1][1] = kind})

\* The spaces of BasePlan and CommonPlan in the order both mappings use, each
\* with the semantics it serves and the kind of allocator it takes.
SharedSpaces ==
    (IF "code_space" \in build.features
     THEN << <<"Code", "BumpPointer", "code_space">>, <<"LargeCode", "BumpPointer", "code_lo_space">> >>
     ELSE <<>>)
    \o (IF "ro_space" \in build.features THEN << <<"ReadOnly", "BumpPointer", "ro_space">> >> ELSE <<>>)
    \o (IF Config.common
        THEN << <<"Immortal", "BumpPointer", "immortal">>, <<"Los", "LargeObject", "los">>,
                <<"NonMoving", "BumpPointer", "nonmoving">> >>
        ELSE <<>>)

\* The i-th shared space takes the next allocator of its kind.
NextSelector(i) ==
    LET kind == SharedSpaces[i][2]
    IN  <<kind, ReservedAllocators(kind)
                  + Cardinality({j \in 1..(i - 1) : SharedSpaces[j][2] = kind})>>

\* create_allocator_mapping.
create_allocator_mapping ==
    [s \in Semantics |->
        LET at == {i \in 1..Len(SharedSpaces) : SharedSpaces[i][1] = s}
        IN  IF at = {} THEN NoSelector ELSE NextSelector(CHOOSE i \in at : TRUE)]

\* create_space_mapping: the shared spaces first, then the plan's own.
\* Mistake: the plan's reservation is not skipped.
create_space_mappingFromZero ==
    [i \in 1..Len(SharedSpaces) |->
        <<LET n == NextSelector(i) IN <<n[1], n[2] - ReservedAllocators(n[1])>>,
          SharedSpaces[i][3]>>] \o Config.own
create_space_mapping ==
    [i \in 1..Len(SharedSpaces) |-> <<NextSelector(i), SharedSpaces[i][3]>>] \o Config.own

\* reserved.validate: no kind is declared more often than the arrays have room.
validate ==
    \A i \in 1..Len(create_space_mapping) :
        LET sel == create_space_mapping[i][1] IN sel[2] < MaxAllocators[sel[1]]

\* ALLOCATOR_MAPPING of NoGC: one allocator for everything, unless the build
\* has nogc_multi_space.
nogc_mapping ==
    IF "nogc_multi_space" \in build.features
    THEN [create_allocator_mapping EXCEPT !["Default"] = Bump(0), !["Immortal"] = Bump(1), !["Los"] = Bump(2)]
    ELSE [s \in Semantics |-> Bump(0)]

ALLOCATOR_MAPPING ==
    IF build.plan = "NoGC" THEN nogc_mapping
    ELSE [create_allocator_mapping EXCEPT !["Default"] = Config.default]

\* Allocators::new: one fresh allocator per entry of the space mapping; a later
\* entry for the same selector overwrites an earlier one.
Allocators ==
    LET entries == create_space_mapping
        LastEntry(sel) == CHOOSE i \in 1..Len(entries) :
                        /\ entries[i][1] = sel
                        /\ \A j \in (i + 1)..Len(entries) : entries[j][1] # sel
    IN  [sel \in {entries[i][1] : i \in 1..Len(entries)} |->
            [space |-> Resolve(entries[LastEntry(sel)][2]), buffer |-> NoBuffer]]

\* GCWorkerCopyContext::new.
GCWorkerCopyContext ==
    [sel \in {Config.copy[i][1] : i \in 1..Len(Config.copy)} |->
        [space |-> Resolve(Config.copy[1][2]), buffer |-> NoBuffer]]

-----------------------------------------------------------------------------
(* Mutator operations.                                                     *)

reset(allocator) == [allocator EXCEPT !.buffer = NoBuffer]
rebind(allocator, space) == [reset(allocator) EXCEPT !.space = space]

\* A buffer is named by how often its space had been reclaimed when the space
\* handed it out.
Refilled(allocator) == [allocator EXCEPT !.buffer = freed[allocator.space]]

\* Only bump-pointer, Immix and mark-compact allocators keep a buffer.
Buffered(sel) == sel[1] \in {"BumpPointer", "Immix", "MarkCompact"}

Bound == {m \in CtxMutators : contexts[m] # NoContext}

CtxRunning == paused.stage = "running"

bind_mutator(m) ==
    /\ CtxRunning
    /\ contexts[m] = NoContext
    /\ contexts' = [contexts EXCEPT ![m] = Allocators]
    /\ UNCHANGED <<build, copiers, freed, paused, pending>>

\* flush, then on_destroy of every allocator; only the free-list allocator has
\* something to give back (see MarkSweepBlocks).
destroy_mutator(m) ==
    /\ CtxRunning
    /\ contexts[m] # NoContext
    /\ contexts' = [contexts EXCEPT ![m] = NoContext]
    /\ UNCHANGED <<build, copiers, freed, paused, pending>>

\* Mutator::alloc: the allocator of the semantics allocates from its buffer,
\* or takes a new one from its space when it has none or it is used up.
MutatorAlloc(m, semantics) ==
    LET sel == ALLOCATOR_MAPPING[semantics]
    IN  /\ CtxRunning
        /\ contexts[m] # NoContext
        /\ sel # NoSelector
        /\ Buffered(sel)
        /\ contexts' = [contexts EXCEPT ![m] = [@ EXCEPT ![sel] = Refilled(@)]]
        /\ UNCHANGED <<build, copiers, freed, paused, pending>>

\* Mutator::flush: LXR also drops the bump pointers of its Immix allocator.
flush(ctx) ==
    IF build.plan = "LXR" THEN [ctx EXCEPT ![<<"Immix", 0>>] = reset(@)] ELSE ctx

\* prepare_func and release_func.
lxr_mutator_prepare(ctx) == [ctx EXCEPT ![<<"Immix", 0>>] = reset(@)]
MutatorPrepare(ctx) == IF Config.prepare = "reset" THEN lxr_mutator_prepare(ctx) ELSE ctx

ResetDefault(ctx) == [ctx EXCEPT ![ALLOCATOR_MAPPING["Default"]] = reset(@)]
\* Mistake: the allocator is reset but still allocates into the old half.
ss_mutator_releaseResets(ctx) == ResetDefault(ctx)
ss_mutator_release(ctx) == [ctx EXCEPT ![ALLOCATOR_MAPPING["Default"]] = rebind(@, tospace)]
MutatorRelease(ctx) ==
    CASE Config.release = "rebind" -> ss_mutator_release(ctx)
      [] Config.release = "reset"  -> ResetDefault(ctx)
      [] Config.release = "none"   -> ctx

-----------------------------------------------------------------------------
(* A pause.                                                                *)

Stage(s) == paused' = [paused EXCEPT !.stage = s]
Packets(ps) == pending' = [pending EXCEPT !.packets = ps]

\* chunks(max(len / n_workers / 2, 1)): the stacks each packet scans.
StackChunk == LET n == (Cardinality(Bound) \div Cardinality(CtxWorkers)) \div 2
              IN  IF n > 1 THEN n ELSE 1
StackPackets ==
    LET order == SetToSeq(Bound)
        size == Cardinality(Bound)
    IN  {<<"ScanMultipleStacks",
           {order[j] : j \in {k \in 1..size : (k - 1) \div StackChunk = i}}>> :
            i \in 0..((size + StackChunk - 1) \div StackChunk - 1)}

\* The trigger asks for a collection; NoGC's schedule_collection is unreachable.
ScheduleCollection(full) ==
    /\ CtxRunning
    /\ build.plan # "NoGC"
    /\ paused.number < MaxGCs
    /\ full \/ build.plan \in {"GenCopy", "GenImmix", "StickyImmix"}
    /\ paused' = [stage |-> "stopping", full |-> full, number |-> paused.number + 1]
    /\ pending' = [packets |-> {<<"StopMutators">>}, scanned |-> [m \in CtxMutators |-> 0]]
    /\ UNCHANGED <<build, contexts, copiers, freed>>

\* StopMutators: every mutator is flushed and prepared as it stops, and their
\* stacks are dealt out to packets.
StopMutators ==
    /\ paused.stage = "stopping"
    /\ contexts' = [m \in CtxMutators |->
            IF contexts[m] = NoContext THEN NoContext ELSE MutatorPrepare(flush(contexts[m]))]
    /\ Stage("prepare")
    /\ Packets({<<"Prepare">>} \cup StackPackets)
    /\ UNCHANGED <<build, copiers, freed>>

\* Plan::prepare of the copying plans flips the halves.
FlipsNow == build.plan = "SemiSpace" \/ (build.plan = "GenCopy" /\ paused.full)

Prepare ==
    /\ <<"Prepare">> \in pending.packets
    /\ build' = [build EXCEPT !.hi = IF FlipsNow THEN ~@ ELSE @]
    /\ Packets((pending.packets \ {<<"Prepare">>})
          \cup (IF Config.no_mutator_prepare_release \/ ~Config.needs_prepare_mutator THEN {}
                ELSE {<<"PrepareMutator", m>> : m \in Bound})
          \cup (IF Config.no_worker_prepare THEN {}
                ELSE {<<"PrepareCollector", w>> : w \in CtxWorkers}))
    /\ UNCHANGED <<contexts, copiers, freed, paused>>

PrepareMutator(m) ==
    /\ <<"PrepareMutator", m>> \in pending.packets
    /\ contexts' = [contexts EXCEPT ![m] = MutatorPrepare(@)]
    /\ Packets(pending.packets \ {<<"PrepareMutator", m>>})
    /\ UNCHANGED <<build, copiers, freed, paused>>

\* GCWorkerCopyContext::prepare: Immix contexts reset, copy-space ones do nothing.
CopyContextPrepare(ctx) ==
    [sel \in DOMAIN ctx |-> IF sel = "CopySpace" THEN ctx[sel] ELSE reset(ctx[sel])]
\* GCWorkerCopyContext::release: likewise.
CopyContextRelease(ctx) ==
    [sel \in DOMAIN ctx |-> IF sel = "CopySpace" THEN ctx[sel] ELSE reset(ctx[sel])]

\* Plan::prepare_worker of SemiSpace and GenCopy.
\* Mistake: nothing is rebound.
prepare_workerNothing(ctx) == ctx
prepare_worker(ctx) ==
    IF Config.prepare_worker THEN [ctx EXCEPT !["CopySpace"] = rebind(@, tospace)] ELSE ctx

PrepareCollector(w) ==
    /\ <<"PrepareCollector", w>> \in pending.packets
    /\ copiers' = [copiers EXCEPT ![w] = prepare_worker(CopyContextPrepare(@))]
    /\ Packets(pending.packets \ {<<"PrepareCollector", w>>})
    /\ UNCHANGED <<build, contexts, freed, paused>>

ScanMultipleStacks(p) ==
    /\ p \in pending.packets
    /\ p[1] = "ScanMultipleStacks"
    /\ pending' = [packets |-> pending.packets \ {p},
                   scanned |-> [m \in CtxMutators |-> pending.scanned[m] + (IF m \in p[2] THEN 1 ELSE 0)]]
    /\ UNCHANGED <<build, contexts, copiers, freed, paused>>

\* The closure opens when the prepare stage is drained.
OpenClosure ==
    /\ paused.stage = "prepare"
    /\ pending.packets = {}
    /\ Stage("closure")
    /\ UNCHANGED <<build, contexts, copiers, freed, pending>>

\* GCWorkerCopyContext::CopyAllocation.
CopyAllocation(w, sel) ==
    /\ paused.stage = "closure"
    /\ sel \in DOMAIN copiers[w]
    /\ copiers' = [copiers EXCEPT ![w] = [@ EXCEPT ![sel] = Refilled(@)]]
    /\ UNCHANGED <<build, contexts, freed, paused, pending>>

OpenRelease ==
    /\ paused.stage = "closure"
    /\ Stage("release")
    /\ Packets({<<"Release">>})
    /\ UNCHANGED <<build, contexts, copiers, freed>>

\* Plan::release: the spaces whose memory the plan reclaims.
Reclaimed ==
    CASE build.plan = "SemiSpace"   -> {fromspace}
      [] build.plan = "GenCopy"     -> {"nursery"} \cup (IF paused.full THEN {fromspace} ELSE {})
      [] build.plan = "GenImmix"    -> {"nursery"} \cup (IF paused.full THEN {"immix"} ELSE {})
      [] build.plan = "MarkCompact" -> {"mc"}
      [] build.plan \in {"Immix", "StickyImmix", "LXR"} -> {"immix"}
      [] OTHER -> {}

\* reset_workers.
reset_workers == [w \in CtxWorkers |-> CopyContextRelease(copiers[w])]

Release ==
    /\ <<"Release">> \in pending.packets
    /\ freed' = [s \in DOMAIN freed |-> IF s \in Reclaimed THEN freed[s] + 1 ELSE freed[s]]
    /\ copiers' = IF Config.fast_worker_release THEN reset_workers ELSE copiers
    /\ Packets((pending.packets \ {<<"Release">>})
          \cup (IF Config.no_mutator_prepare_release THEN {}
                ELSE {<<"ReleaseMutator", m>> : m \in Bound})
          \cup (IF Config.fast_worker_release THEN {}
                ELSE {<<"ReleaseCollector", w>> : w \in CtxWorkers}))
    /\ UNCHANGED <<build, contexts, paused>>

ReleaseMutator(m) ==
    /\ <<"ReleaseMutator", m>> \in pending.packets
    /\ contexts' = [contexts EXCEPT ![m] = MutatorRelease(@)]
    /\ Packets(pending.packets \ {<<"ReleaseMutator", m>>})
    /\ UNCHANGED <<build, copiers, freed, paused>>

ReleaseCollector(w) ==
    /\ <<"ReleaseCollector", w>> \in pending.packets
    /\ copiers' = [copiers EXCEPT ![w] = CopyContextRelease(@)]
    /\ Packets(pending.packets \ {<<"ReleaseCollector", w>>})
    /\ UNCHANGED <<build, contexts, freed, paused>>

ResumeContexts ==
    /\ paused.stage = "release"
    /\ pending.packets = {}
    /\ Stage("running")
    /\ UNCHANGED <<build, contexts, copiers, freed, pending>>

-----------------------------------------------------------------------------
CtxSpaces ==
    {"nogc_space", "immortal", "los", "nonmoving", "code_space", "code_lo_space", "ro_space",
     "copyspace0", "copyspace1", "nursery", "immix", "mc", "ms", "pageprotect"}

ContextsInit ==
    /\ build \in [plan : CtxPlans, features : CtxFeatures, hi : {FALSE}]
    /\ contexts = [m \in CtxMutators |-> NoContext]
    /\ copiers = [w \in CtxWorkers |-> GCWorkerCopyContext]
    /\ freed = [s \in CtxSpaces |-> 0]
    /\ paused = [stage |-> "running", full |-> TRUE, number |-> 0]
    /\ pending = [packets |-> {}, scanned |-> [m \in CtxMutators |-> 0]]

ContextsNext ==
    \/ \E m \in CtxMutators : bind_mutator(m) \/ destroy_mutator(m)
                              \/ PrepareMutator(m) \/ ReleaseMutator(m)
    \/ \E m \in CtxMutators, s \in CtxRequests : MutatorAlloc(m, s)
    \/ \E full \in BOOLEAN : ScheduleCollection(full)
    \/ StopMutators
    \/ Prepare
    \/ Release
    \/ \E w \in CtxWorkers : PrepareCollector(w) \/ ReleaseCollector(w)
    \/ \E w \in CtxWorkers, sel \in {"CopySpace", "Immix", "ImmixHybrid"} : CopyAllocation(w, sel)
    \/ \E p \in pending.packets : ScanMultipleStacks(p)
    \/ OpenClosure
    \/ OpenRelease
    \/ ResumeContexts

ContextsSpec == ContextsInit /\ [][ContextsNext]_ctxVars

-----------------------------------------------------------------------------
(* Properties.                                                             *)

\* The space the documentation of AllocationSemantics promises.
PromisedSpace(semantics) ==
    IF build.plan = "NoGC" /\ "nogc_multi_space" \notin build.features THEN "nogc_space"
    ELSE CASE semantics = "Default"   -> Resolve(Config.own[1][2])
           [] semantics = "Immortal"  -> "immortal"
           [] semantics = "Los"       -> "los"
           [] semantics = "NonMoving" -> "nonmoving"
           [] semantics = "Code"      -> "code_space"
           [] semantics = "LargeCode" -> "code_lo_space"
           [] semantics = "ReadOnly"  -> "ro_space"

\* A buffer is dangling once its space was reclaimed after it was handed out.
Fresh(allocator) == allocator.buffer \in {NoBuffer, freed[allocator.space]}

\* For every plan and feature set, through any sequence of binding, destroying,
\* allocating and pausing: while mutators run, each semantics a mutator has an
\* allocator for leads to an allocator that Allocators::new initialised, bound
\* to the space the semantics promises (after the flip: to the to-space), and
\* no allocator holds a buffer in memory that a pause has reclaimed; while the
\* closure runs, no worker copies into reclaimed memory or into the from-space
\* being evacuated, and every bound mutator's stack went to exactly one packet;
\* and the fixed arrays of allocators are never overrun.
AllocatorsUseLiveMemory ==
    /\ validate
    /\ CtxRunning => \A m \in Bound :
          /\ \A s \in Semantics : ALLOCATOR_MAPPING[s] # NoSelector =>
                /\ ALLOCATOR_MAPPING[s] \in DOMAIN contexts[m]
                /\ contexts[m][ALLOCATOR_MAPPING[s]].space = PromisedSpace(s)
          /\ \A sel \in DOMAIN contexts[m] : Fresh(contexts[m][sel])
    /\ paused.stage = "closure" =>
          /\ \A w \in CtxWorkers : \A sel \in DOMAIN copiers[w] :
                /\ Fresh(copiers[w][sel])
                /\ sel = "CopySpace" => copiers[w][sel].space = tospace
          /\ \A m \in CtxMutators : pending.scanned[m] = IF m \in Bound THEN 1 ELSE 0

=============================================================================

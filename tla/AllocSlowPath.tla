--------------------------- MODULE AllocSlowPath ---------------------------
(***************************************************************************)
(* The slow path of an allocation and everything that decides whether it   *)
(* returns memory, waits for a collection or reports that the heap is      *)
(* exhausted: Allocator::alloc_slow_inline (util/alloc/allocator.rs),      *)
(* Space::acquire (policy/space.rs), page accounting                       *)
(* (util/heap/accounting.rs, pageresource.rs), the two GC triggers         *)
(* (util/heap/gc_trigger.rs), the collection kind and the OutOfMemory      *)
(* flags (global_state.rs), the plans' collection_required and             *)
(* last_collection_was_exhaustive, and user requests (mmtk.rs).            *)
(*                                                                         *)
(* A page is the unit of memory.  A thread's live pages are what it still  *)
(* reaches; pages committed but not live are garbage.  How a pause         *)
(* collects is the subject of other modules: here it is the three steps    *)
(* that touch the state above, ScheduleCollection (while mutators run),    *)
(* StopMutators, and Release up to the end of the pause.                   *)
(*                                                                         *)
(* A setting fixes the plan ("full": every collection is exhaustive;       *)
(* "generational"; "lxr"), the trigger (dynamic is MemBalancerTrigger),    *)
(* stress (stress_factor is set), phys, the pages of address space the     *)
(* page resource can hand out, minHeap and maxHeap, the bounds of the heap *)
(* size (a fixed trigger uses maxHeap), and the bounds maxAllocs and       *)
(* maxUserGCs on slow-path allocations and user requests.                  *)
(***************************************************************************)
EXTENDS Integers, FiniteSets, FiniteSetsExt

CONSTANTS
    Threads,        \* mutator threads
    Settings,       \* the records described above
    Requests,       \* sizes in pages an allocation may ask for
    StressPages,    \* stress_factor, in pages
    YoungPages,     \* nursery or young allocation limit that triggers a collection
    MinNursery,     \* gc_trigger.get_min_nursery_pages()
    MaxAttempts     \* bound: max_collection_attempts saturates (only "> 1" is tested)

VARIABLES
    setting,        \* the record chosen at start-up
    \* GCTrigger policy
    current_heap_pages, pending_pages,
    \* PageAccounting of the space, summed over the plan
    reserved, committed,
    young,          \* pages committed since the last collection
    outOfVirtualSpace, \* VM_MAP.out_of_virtual_space
    \* GlobalState
    allocation_success, emergency_collection, max_collection_attempts,
    cur_collection_attempts, user_triggered_collection, allocation_bytes,
    \* plan and collector
    request_flag, gc, observed, gc_full_heap, next_gc_full_heap,
    \* mutator threads
    at, need, live, localEmergency, previous_result_zero, allocs, userGCs,
    \* history, for OutOfMemoryIsReal
    liveAtGC,       \* pages live at the end of the last collection
    hopeless        \* per thread: its last attempt could not have succeeded

triggerVars == <<current_heap_pages, pending_pages>>
pageVars    == <<reserved, committed, young, outOfVirtualSpace>>
stateVars   == <<allocation_success, emergency_collection, max_collection_attempts,
                 cur_collection_attempts, user_triggered_collection>>
gcVars      == <<request_flag, gc, observed, gc_full_heap, next_gc_full_heap>>
callVars    == <<need, localEmergency, previous_result_zero, allocs>>
historyVars == <<liveAtGC, hopeless>>
allocVars   == <<setting, triggerVars, pageVars, stateVars, allocation_bytes, gcVars,
                 at, live, userGCs, callVars, historyVars>>

Live == MapThenSumSet(LAMBDA t : live[t], Threads)
Lesser(a, b)  == IF a < b THEN a ELSE b
Clamp(n) == IF n < setting.minHeap THEN setting.minHeap ELSE Lesser(n, setting.maxHeap)

AllocInit ==
    /\ setting \in Settings
    /\ current_heap_pages = IF setting.dynamic THEN setting.minHeap ELSE setting.maxHeap
    /\ pending_pages = 0
    /\ reserved = 0 /\ committed = 0 /\ young = 0 /\ outOfVirtualSpace = FALSE
    /\ allocation_success = FALSE /\ emergency_collection = FALSE
    /\ max_collection_attempts = 0 /\ cur_collection_attempts = 0
    /\ user_triggered_collection = FALSE /\ allocation_bytes = 0
    /\ request_flag = FALSE /\ gc = "none" /\ observed = "none"
    /\ gc_full_heap = FALSE /\ next_gc_full_heap = FALSE
    /\ at = [t \in Threads |-> "running"]
    /\ need = [t \in Threads |-> 0] /\ live = [t \in Threads |-> 0]
    /\ localEmergency = [t \in Threads |-> FALSE]
    /\ previous_result_zero = [t \in Threads |-> FALSE]
    /\ allocs = 0 /\ userGCs = 0
    /\ liveAtGC = 0 /\ hopeless = [t \in Threads |-> FALSE]
----------------------------------------------------------------------------
(* Mutator threads.  They take steps unless they are stopped for a pause.    *)

MutatorsRun == gc # "paused"

Goto(t, label) == at' = [at EXCEPT ![t] = label]

(* alloc_slow_inline is entered; an allocator that may ask for any size      *)
(* first calls will_oom_on_acquire, which reports and returns null.          *)
alloc_slow_inline(t) ==
    /\ MutatorsRun /\ at[t] = "running" /\ allocs < setting.maxAllocs
    /\ allocs' = allocs + 1
    /\ \E pages \in Requests :
          IF pages > setting.maxHeap
          THEN UNCHANGED <<at, need, localEmergency, previous_result_zero>>
          ELSE /\ need' = [need EXCEPT ![t] = pages]
               /\ localEmergency' = [localEmergency EXCEPT ![t] = FALSE]
               /\ previous_result_zero' = [previous_result_zero EXCEPT ![t] = FALSE]
               /\ Goto(t, "reserve")
    /\ UNCHANGED <<setting, triggerVars, pageVars, stateVars, allocation_bytes, gcVars,
                   live, userGCs, historyVars>>

(* acquire: the pages are reserved before the poll, so that it counts them.  *)
reserve_pages(t) ==
    /\ MutatorsRun /\ at[t] = "reserve"
    /\ reserved' = reserved + need[t]
    /\ Goto(t, "poll")
    /\ UNCHANGED <<setting, triggerVars, committed, young, outOfVirtualSpace, stateVars,
                   allocation_bytes, gcVars, live, userGCs, callVars, historyVars>>

should_do_stress_gc == setting.stress /\ allocation_bytes > StressPages

(* Pages of the nursery, reserved ones included, and the pages to copy them  *)
(* to: Plan::get_collection_reserved_pages.                                  *)
NurseryPages == young + (reserved - committed)
get_collection_reserved_pages == IF setting.plan = "generational" THEN NurseryPages ELSE 0

is_heap_full == reserved + get_collection_reserved_pages > current_heap_pages

(* BasePlan::collection_required, the whole answer of most plans.            *)
BasePlanRequiresGC(space_full) ==
    space_full \/ should_do_stress_gc \/ is_heap_full \/ outOfVirtualSpace

(* CommonGenPlan::collection_required returns at once if the nursery is full, *)
(* and LXR::collection_required looks at the limits on young pages last.      *)
GenRequiresGC(space_full) == NurseryPages >= YoungPages \/ BasePlanRequiresGC(space_full)
LXRRequiresGC(space_full) == BasePlanRequiresGC(space_full) \/ young >= YoungPages

collection_required(space_full) ==
    CASE setting.plan = "full"         -> BasePlanRequiresGC(space_full)
      [] setting.plan = "generational" -> GenRequiresGC(space_full)
      [] setting.plan = "lxr"          -> LXRRequiresGC(space_full)

NurseryFull == setting.plan = "generational" /\ NurseryPages >= YoungPages

StressCounterReset ==
    allocation_bytes' = IF should_do_stress_gc /\ ~NurseryFull THEN 0 ELSE allocation_bytes

(* The threads in the slow path and what they ask for.                       *)
InSlowPath(t) == at[t] # "running"
Demand == MapThenSumSet(LAMBDA t : IF InSlowPath(t) THEN need[t] ELSE 0, Threads)
CopyFactor == IF setting.plan = "generational" THEN 2 ELSE 1
NotePressure(t) ==
    hopeless' = [hopeless EXCEPT ![t] =
                    \/ liveAtGC + CopyFactor * Demand > setting.maxHeap
                    \/ liveAtGC + Demand > setting.phys]

(* GCTrigger::poll(false) and GCRequester::request                           *)
poll(t) ==
    /\ MutatorsRun /\ at[t] = "poll"
    /\ IF collection_required(FALSE)
       THEN /\ request_flag' = TRUE
            /\ StressCounterReset
            /\ NotePressure(t)
            /\ Goto(t, "clear")
       ELSE Goto(t, "get") /\ UNCHANGED <<request_flag, allocation_bytes, hopeless>>
    /\ UNCHANGED <<setting, triggerVars, pageVars, stateVars, gc, observed, gc_full_heap,
                   next_gc_full_heap, live, userGCs, callVars, liveAtGC>>

(* pr.get_new_pages, and after a failure poll(true), which always triggers;   *)
(* a generational plan then wants a full-heap collection if the full space is *)
(* not the nursery.                                                           *)
get_new_pages(t) ==
    /\ MutatorsRun /\ at[t] = "get"
    /\ IF committed + need[t] <= setting.phys
       THEN /\ committed' = committed + need[t]
            /\ young' = young + need[t]
            /\ Goto(t, "allocated")
            /\ UNCHANGED <<outOfVirtualSpace, request_flag, allocation_bytes, hopeless,
                           next_gc_full_heap>>
       ELSE /\ outOfVirtualSpace' = TRUE
            /\ \E triggered_by_nursery \in BOOLEAN :
                  next_gc_full_heap' =
                     \/ next_gc_full_heap
                     \/ /\ setting.plan = "generational"
                        /\ ~NurseryFull /\ ~triggered_by_nursery
            /\ request_flag' = TRUE
            /\ StressCounterReset
            /\ NotePressure(t)
            /\ Goto(t, "clear")
            /\ UNCHANGED <<committed, young>>
    /\ UNCHANGED <<setting, triggerVars, reserved, stateVars, gc, observed, gc_full_heap,
                   live, userGCs, callVars, liveAtGC>>

\* Mistake: the default on_pending_allocation of the trait, which does nothing.
on_pending_allocationDefault(pages) == UNCHANGED pending_pages

(* MemBalancerTrigger adds the pages up; the fixed trigger ignores them.     *)
on_pending_allocation(pages) ==
    pending_pages' = IF setting.dynamic THEN pending_pages + pages ELSE pending_pages

\* Mistake: the reservation is not cleared before the thread blocks.
block_for_gcKeepsReservation(t) ==
    /\ MutatorsRun /\ at[t] = "clear"
    /\ on_pending_allocation(need[t])
    /\ Goto(t, "blocked")
    /\ UNCHANGED <<setting, current_heap_pages, pageVars, stateVars, allocation_bytes,
                   gcVars, live, userGCs, callVars, historyVars>>

(* clear_request, on_pending_allocation, block_for_gc                        *)
block_for_gc(t) ==
    /\ MutatorsRun /\ at[t] = "clear"
    /\ reserved' = reserved - need[t]
    /\ on_pending_allocation(need[t])
    /\ Goto(t, "blocked")
    /\ UNCHANGED <<setting, current_heap_pages, committed, young, outOfVirtualSpace,
                   stateVars, allocation_bytes, gcVars, live, userGCs, callVars, historyVars>>

(* alloc_slow_once returned an address.                                      *)
AllocationSucceeds(t) ==
    /\ MutatorsRun /\ at[t] = "allocated"
    /\ allocation_success' = TRUE
    /\ allocation_bytes' = IF setting.stress /\ ~previous_result_zero[t]
                           THEN allocation_bytes + need[t] ELSE allocation_bytes
    /\ live' = [live EXCEPT ![t] = @ + need[t]]
    /\ Goto(t, "running")
    /\ UNCHANGED <<setting, triggerVars, pageVars, emergency_collection,
                   max_collection_attempts, cur_collection_attempts,
                   user_triggered_collection, gcVars, userGCs, callVars, historyVars>>

is_emergency_collection == emergency_collection \/ outOfVirtualSpace

\* Mistake: the local variable alone decides, as the code's comment warns.
GivesUpOnLocalFlag(t) == localEmergency[t]

GivesUp(t) == localEmergency[t] /\ is_emergency_collection

(* alloc_slow_once returned null, after a collection: report OutOfMemory, or *)
(* remember whether the collection was an emergency one and try again.       *)
AllocationFails(t) ==
    /\ MutatorsRun /\ at[t] = "failed"
    /\ LET give_up == GivesUp(t)
       IN /\ allocation_success' = (allocation_success \/ give_up)
          /\ IF give_up /\ ~allocation_success
             THEN /\ Goto(t, "out_of_memory")
                  /\ UNCHANGED <<localEmergency, previous_result_zero>>
             ELSE /\ localEmergency' = [localEmergency EXCEPT ![t] = is_emergency_collection]
                  /\ previous_result_zero' = [previous_result_zero EXCEPT ![t] = TRUE]
                  /\ Goto(t, "reserve")
    /\ UNCHANGED <<setting, triggerVars, pageVars, emergency_collection,
                   max_collection_attempts, cur_collection_attempts,
                   user_triggered_collection, allocation_bytes, gcVars, live, userGCs,
                   need, allocs, historyVars>>

(* The out_of_memory upcall returns and the allocation returns null.         *)
OutOfMemoryReturns(t) ==
    /\ MutatorsRun /\ at[t] = "out_of_memory"
    /\ allocation_success' = FALSE
    /\ Goto(t, "running")
    /\ UNCHANGED <<setting, triggerVars, pageVars, emergency_collection,
                   max_collection_attempts, cur_collection_attempts,
                   user_triggered_collection, allocation_bytes, gcVars, live, userGCs,
                   callVars, historyVars>>

(* The program drops references to some of its pages.                        *)
Drop(t) ==
    /\ MutatorsRun /\ at[t] \in {"running", "out_of_memory"}
    /\ \E pages \in 0 .. live[t] - 1 : live' = [live EXCEPT ![t] = pages]
    /\ UNCHANGED <<setting, triggerVars, pageVars, stateVars, allocation_bytes, gcVars,
                   at, userGCs, callVars, historyVars>>

(* An application thread other than the allocating ones asks for a           *)
(* collection, exhaustive or not.                                            *)
handle_user_collection_request(exhaustive) ==
    /\ MutatorsRun /\ userGCs < setting.maxUserGCs
    /\ userGCs' = userGCs + 1
    /\ next_gc_full_heap' = (next_gc_full_heap \/ (exhaustive /\ setting.plan = "generational"))
    /\ user_triggered_collection' = TRUE
    /\ request_flag' = TRUE
    /\ UNCHANGED <<setting, triggerVars, pageVars, allocation_success, emergency_collection,
                   max_collection_attempts, cur_collection_attempts, allocation_bytes,
                   gc, observed, gc_full_heap, at, live, callVars, historyVars>>
----------------------------------------------------------------------------
(* The collection.                                                           *)

(* ScheduleCollection: set_collection_kind loads the flags mutators store... *)
ScheduleCollection ==
    /\ gc = "none" /\ request_flag
    /\ gc' = "scheduling"
    /\ observed' = IF user_triggered_collection THEN "user"
                   ELSE IF allocation_success THEN "success" ELSE "none"
    /\ UNCHANGED <<setting, triggerVars, pageVars, stateVars, allocation_bytes, request_flag,
                   gc_full_heap, next_gc_full_heap, at, live, userGCs, callVars, historyVars>>

(* LXR::schedule_collection: the selection of a kind of pause is commented   *)
(* out, every pause is a RefCount one.                                       *)
LXRPauses == {"RefCount"}

(* Plan::last_collection_was_exhaustive.  LXR asks whether the previous      *)
(* pause was Full or FullDefrag.                                             *)
last_collection_was_exhaustive ==
    CASE setting.plan = "full"         -> TRUE
      [] setting.plan = "generational" -> gc_full_heap
      [] setting.plan = "lxr"          -> LXRPauses \subseteq {"Full", "FullDefrag"}

can_heap_size_grow == setting.dynamic /\ current_heap_pages < setting.maxHeap

Emergency(attempts) ==
    last_collection_was_exhaustive /\ attempts > 1 /\ ~can_heap_size_grow

determine_collection_attempts ==
    IF observed = "success" THEN 1 ELSE Lesser(max_collection_attempts + 1, MaxAttempts)

(* notify_emergency_collection: a generational plan must collect everything. *)
notify_emergency_collection ==
    next_gc_full_heap' =
       (next_gc_full_heap \/ (setting.plan = "generational" /\ emergency_collection'))

requires_full_heap_collection == next_gc_full_heap' \/ cur_collection_attempts' > 1

(* ... and stores what follows from them; a generational plan then decides   *)
(* whether the collection is full-heap.                                      *)
set_collection_kind ==
    /\ gc = "scheduling"
    /\ allocation_success' = (allocation_success /\ observed # "success")
    /\ IF observed = "user"
       THEN cur_collection_attempts' = 1 /\ UNCHANGED max_collection_attempts
       ELSE /\ max_collection_attempts' = determine_collection_attempts
            /\ cur_collection_attempts' = max_collection_attempts'
    /\ emergency_collection' = Emergency(cur_collection_attempts')
    /\ notify_emergency_collection
    /\ gc_full_heap' = requires_full_heap_collection
    /\ gc' = "stopping"
    /\ UNCHANGED <<setting, triggerVars, pageVars, user_triggered_collection,
                   allocation_bytes, request_flag, observed, at, live, userGCs,
                   callVars, historyVars>>

(* StopMutators returns once every thread is at a safepoint; the request is  *)
(* cleared by notify_mutators_paused.                                        *)
StopMutators ==
    /\ gc = "stopping"
    /\ \A t \in Threads : at[t] \in {"running", "blocked", "out_of_memory"}
    /\ gc' = "paused"
    /\ request_flag' = FALSE
    /\ UNCHANGED <<setting, triggerVars, pageVars, stateVars, allocation_bytes, observed,
                   gc_full_heap, next_gc_full_heap, at, live, userGCs, callVars, historyVars>>

(* The square root that MemBalancerStats give: floating point, of times and  *)
(* pages seen during this and the previous collection; any number of pages.  *)
SquareRoots == {0, setting.maxHeap}

compute_new_heap_limit(used, e) == Clamp(used + e + pending_pages)

NurseryCollection == setting.plan = "generational" /\ ~gc_full_heap

(* MemBalancerTrigger::on_gc_end skips nursery collections, but forgets the  *)
(* pending pages "no matter we used it or not".                              *)
on_gc_end ==
    /\ IF setting.dynamic /\ ~NurseryCollection
       THEN \E e \in SquareRoots : current_heap_pages' = compute_new_heap_limit(reserved', e)
       ELSE UNCHANGED current_heap_pages
    /\ pending_pages' = 0

(* Garbage is freed; a nursery collection may keep some.                     *)
ReleasePages ==
    /\ \E kept \in IF NurseryCollection THEN 0 .. committed - Live ELSE {0} :
          committed' = Live + kept
    /\ reserved' = reserved - (committed - committed')
    /\ young' = 0
    /\ outOfVirtualSpace' = FALSE

should_next_gc_be_full_heap == current_heap_pages' - reserved' < MinNursery

reset_collection_trigger == user_triggered_collection' = FALSE

(* Release to the end of the pause.                                          *)
EndOfPause ==
    /\ gc = "paused"
    /\ ReleasePages
    /\ on_gc_end
    /\ next_gc_full_heap' = (setting.plan = "generational" /\ should_next_gc_be_full_heap)
    /\ reset_collection_trigger
    /\ gc' = "none"
    /\ at' = [t \in Threads |-> IF at[t] = "blocked" THEN "failed" ELSE at[t]]
    /\ liveAtGC' = Live
    /\ UNCHANGED <<setting, allocation_success, emergency_collection,
                   max_collection_attempts, cur_collection_attempts, allocation_bytes,
                   request_flag, observed, gc_full_heap, live, userGCs, callVars, hopeless>>
----------------------------------------------------------------------------
SlowPathStep(t) ==
    \/ reserve_pages(t) \/ poll(t) \/ get_new_pages(t) \/ block_for_gc(t)
    \/ AllocationSucceeds(t) \/ AllocationFails(t) \/ OutOfMemoryReturns(t)

CollectionStep == ScheduleCollection \/ set_collection_kind \/ StopMutators \/ EndOfPause

AllocNext ==
    \/ \E t \in Threads : alloc_slow_inline(t) \/ SlowPathStep(t) \/ Drop(t)
    \/ \E exhaustive \in BOOLEAN : handle_user_collection_request(exhaustive)
    \/ CollectionStep

(* Threads and GC workers are run by the operating system's fair scheduler;  *)
(* nothing makes the program call the allocator, drop data or ask for a GC.  *)
AllocFairness ==
    /\ \A t \in Threads : WF_allocVars(SlowPathStep(t))
    /\ WF_allocVars(CollectionStep)

AllocSpec == AllocInit /\ [][AllocNext]_allocVars /\ AllocFairness
----------------------------------------------------------------------------
(* The pages reserved are the pages committed plus those of the threads      *)
(* between reserve_pages and clear_request or commit: a reservation is never *)
(* leaked or cleared twice, whichever way a poll, a failed acquisition and a *)
(* collection interleave.                                                    *)
ReservationsAreExact ==
    reserved = committed
        + MapThenSumSet(LAMBDA t : IF at[t] \in {"poll", "get", "clear"} THEN need[t] ELSE 0,
                        Threads)

(* Collection::out_of_memory(HeapOutOfMemory) is called only while some      *)
(* thread's demand cannot be met: at that thread's last attempt, the pages   *)
(* live at the end of the last collection and the demands of all threads in  *)
(* the slow path (twice, where nursery pages need a page to be copied to)    *)
(* exceeded the maximum heap or the address space.  It is not                *)
(* called because the heap limit had not grown yet, because a nursery        *)
(* collection kept garbage, or because of a stress or user collection.       *)
OutOfMemoryUnderPressure ==
    [][\A t \in Threads :
          at[t] # "out_of_memory" /\ at'[t] = "out_of_memory"
             => \E u \in Threads : InSlowPath(u) /\ hopeless[u]]_allocVars

(* The thread that reports OutOfMemory is one whose demand could not be met. *)
(* alloc_slow_inline's comment says that reading the flag again prevents "a  *)
(* false OOM" and that the local variable records "whether last collection   *)
(* was an Emergency collection".  (It does not hold: the flag read may be    *)
(* that of a collection another thread has just had scheduled.)              *)
OutOfMemoryIsReal == \A t \in Threads : at[t] = "out_of_memory" => hopeless[t]

(* MemBalancerTrigger adds the pending pages to the heap, but not the pages  *)
(* a generational plan keeps free to copy them to: with nothing live, whose  *)
(* square root is 0, the heap stays too small for the demand.                *)
PendingPagesSuffice == ~(setting.dynamic /\ setting.plan = "generational")

(* Every allocation that enters the slow path returns, with memory or, in    *)
(* the doc of alloc_slow_inline, "in the case where the VM is out of memory" *)
(* with null after the out_of_memory upcall: no thread collects for ever.    *)
AllocationReturns ==
    \A t \in Threads : InSlowPath(t) /\ PendingPagesSuffice ~> ~InSlowPath(t)
=============================================================================

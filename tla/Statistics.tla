----------------------------- MODULE Statistics ------------------------------
(***************************************************************************)
(* Statistics of a harnessed run (util/statistics, util/analysis,          *)
(* scheduler/stat.rs, scheduler/work_counter.rs).                          *)
(*                                                                         *)
(* A mutator calls harness_begin, which runs a collection and then starts  *)
(* every counter, and later harness_end, which stops them and prints a     *)
(* report.  In between the phase number counts the changes between running *)
(* mutators (even) and pauses (odd): the VM reports the start of a pause   *)
(* once the mutators have stopped, the last worker ends it before they     *)
(* resume.  Every counter files its value under the phase that ends.       *)
(* Each worker keeps statistics of its own about the packets it runs,      *)
(* which harness_end merges.                                               *)
(*                                                                         *)
(* The clock is a number that passes while anything happens.  The packets  *)
(* of a collection are the analysis hook, which runs from the moment the   *)
(* collection is scheduled, the one that stops the mutators, and the one   *)
(* that prepares the plan.  truth is what an observer saw between          *)
(* harness_begin and harness_end.                                          *)
(***************************************************************************)
EXTENDS Integers, Sequences, FiniteSets, FiniteSetsExt, SequencesExt

CONSTANTS
  StatWorkers,
  AllocSizes,      \* sizes of objects, for the counters of size classes
  MaxClock, MaxCollectionsSt, MaxAllocsSt,
  MaxHarness,      \* times the harness is used
  StatDebug        \* the build checks debug_assert!

VARIABLES
  shared,          \* SharedStats and the gc count
  counters,        \* Stats::counters
  sizeClasses,     \* PerSizeClassObjectCounter: size class -> index in counters
  workerStat,      \* WorkerLocalStat, and the packet a worker runs
  world,           \* running mutators or pause, packets to run, the clock
  harness,         \* where the harness thread is, and its report
  truth            \* what happened since harness_begin

statVars == <<shared, counters, sizeClasses, workerStat, world, harness, truth>>

StatPackets == {"hook", "stop", "prepare"}
INFINITY == MaxClock + 1
NEG_INFINITY == -1
NoReport == [printed |-> FALSE]

-----------------------------------------------------------------------------
(* Counters.  A long counter measures the clock, an event counter counts.   *)

LongCounter ==
  [kind |-> "long", count |-> <<>>, value |-> 0, total |-> 0, running |-> FALSE]
EventCounter ==
  [kind |-> "event", count |-> <<>>, value |-> 0, total |-> 0, running |-> FALSE]

\* Counter::start; a long counter remembers the clock.
start(c) ==
  [c EXCEPT !.running = TRUE, !.value = IF c.kind = "long" THEN world.clock ELSE 0]

\* What a counter files when a phase ends.
Delta(c) == IF c.kind = "long" THEN world.clock - c.value ELSE c.value
Filed(c) == [c EXCEPT !.count = Append(@, Delta(c)), !.total = @ + Delta(c)]

\* The assertion that the value is filed under the phase that ends.
Misfiled(c, phase) == Len(c.count) # phase /\ (phase >= Len(c.count) \/ c.count[phase + 1] # Delta(c))

stop(c) == [Filed(c) EXCEPT !.running = FALSE]
StopFails(c, phase) == StatDebug /\ (~c.running \/ Misfiled(c, phase))

phase_change(c) ==
  IF ~c.running THEN c
  ELSE [Filed(c) EXCEPT !.value = IF c.kind = "long" THEN world.clock ELSE 0]
PhaseChangeFails(c, phase) == StatDebug /\ c.running /\ Misfiled(c, phase)

inc(c) == IF c.running THEN [c EXCEPT !.value = @ + 1] ELSE c

\* Counter::get_total, over the phases so far or every other one of them.
Phases == 0 .. shared.phase
SumOver(c, phases) == MapThenSumSet(LAMBDA p : c.count[p + 1], phases)
get_total(c) == IF c.kind = "long" THEN c.total ELSE SumOver(c, Phases)
get_total_of(c, other) == SumOver(c, {p \in Phases : p % 2 = IF other THEN 0 ELSE 1})

\* A total that reads a phase the counter has no value for panics.
TotalFails(c) == Len(c.count) < shared.phase + 1

Time == 1
MajorGC == 2
ObjNum == 3
GcNum == 4

-----------------------------------------------------------------------------
(* Stats                                                                    *)

AllCounters(Op(_)) == [i \in DOMAIN counters |-> Op(counters[i])]

\* A change of phase: every counter files its value under the phase that
\* ends, if stats are gathered.
Fails(Op(_, _)) == \E i \in DOMAIN counters : Op(counters[i], shared.phase)
ChangeFails == shared.gathering /\ Fails(PhaseChangeFails)
ChangePhase ==
  IF shared.gathering
  THEN counters' = AllCounters(phase_change)
  ELSE UNCHANGED counters
increment_phase(s) == IF s.gathering THEN [s EXCEPT !.phase = @ + 1] ELSE s

start_gc == ChangePhase /\ shared' = [increment_phase(shared) EXCEPT !.gcs = @ + 1]

\* Mistake: the end of a pause does not end its phase.
end_gcSamePhase == ChangePhase /\ UNCHANGED shared
end_gc == ChangePhase /\ shared' = increment_phase(shared)

\* Stats::start_all: counters created so far start, if they start implicitly
\* (all do).
start_all ==
  /\ shared' = [shared EXCEPT !.gathering = TRUE]
  /\ counters' = AllCounters(start)

stop_all_counters ==
  /\ counters' = AllCounters(stop)
  /\ shared' = [shared EXCEPT !.gathering = FALSE]

-----------------------------------------------------------------------------
(* Statistics of the workers                                                *)

\* WorkCounterBase
DefaultBase == [sum |-> 0, min |-> INFINITY, max |-> NEG_INFINITY]
merge(a, b) == [sum |-> a.sum + b.sum, min |-> Min({a.min, b.min}), max |-> Max({a.max, b.max})]
merge_val(a, v) == [sum |-> a.sum + v, min |-> Min({a.min, v}), max |-> Max({a.max, v})]

NoCounters == [t \in StatPackets |-> [made |-> FALSE, base |-> DefaultBase, from |-> 0]]
IdleWorker ==
  [enabled |-> FALSE, packet |-> "none", counts |-> [t \in StatPackets |-> 0], timers |-> NoCounters]

\* WorkerLocalStat::measure_work and WorkStat::end_of_work
measure_work(s, t) ==
  IF s.enabled
  THEN [s EXCEPT !.timers[t].made = TRUE, !.timers[t].from = world.clock]
  ELSE s
Elapsed(s, t) == world.clock - s.timers[t].from
end_of_work(s, t) ==
  IF ~s.enabled THEN s
  ELSE LET counted == [s EXCEPT !.counts[t] = @ + 1]
       IN IF s.timers[t].made
          THEN [counted EXCEPT !.timers[t].base = merge_val(@, Elapsed(s, t))]
          ELSE counted

\* GCWorkScheduler::enable_stat
enable_stat == workerStat' = [w \in StatWorkers |-> [workerStat[w] EXCEPT !.enabled = TRUE]]

\* SchedulerStat::merge over the workers, and harness_stat.  A minimum starts
\* from zero when its entry is made.
WorkCount(t) == MapThenSumSet(LAMBDA w : workerStat[w].counts[t], StatWorkers)
Fold(t) == FoldSet(LAMBDA w, acc : merge(acc, workerStat[w].timers[t].base), DefaultBase,
                   {w \in StatWorkers : workerStat[w].timers[t].made})
HarnessStat ==
  [t \in StatPackets |-> [count |-> WorkCount(t), time |-> Fold(t).sum,
                          min |-> Min({0, Fold(t).min}), max |-> Max({0, Fold(t).max})]]

-----------------------------------------------------------------------------
(* Observed                                                                 *)

Nothing == [other |-> 0, stw |-> 0, majors |-> 0, objects |-> 0, hooks |-> 0, pauses |-> 0,
            finished |-> [t \in StatPackets |-> 0], spent |-> [t \in StatPackets |-> 0],
            longest |-> [t \in StatPackets |-> 0]]
Saw(seen) == truth' = IF shared.gathering THEN seen ELSE truth

\* The program runs until a panic, or the end of its last harnessed part.
Alive == ~harness.failed /\ (harness.at # "outside" \/ harness.uses < MaxHarness)

Tick ==
  /\ Alive /\ world.clock < MaxClock
  /\ world' = [world EXCEPT !.clock = @ + 1]
  /\ Saw(IF world.stopped THEN [truth EXCEPT !.stw = @ + 1] ELSE [truth EXCEPT !.other = @ + 1])
  /\ UNCHANGED <<shared, counters, sizeClasses, workerStat, harness>>

-----------------------------------------------------------------------------
(* Mutators: the hooks of the analysis routines                             *)

\* PerSizeClassObjectCounter::size_class, smallest power of two not below n
size_class(n) == 2 ^ Min({k \in 0 .. n : 2 ^ k >= n})

\* Stats::new_event_counter, from alloc_hook: a class first met gets a counter,
\* which does not run before the next harness_begin.
ClassHook(cs, n) ==
  IF size_class(n) \in DOMAIN sizeClasses
  THEN [cs EXCEPT ![sizeClasses[size_class(n)]] = inc(@)]
  ELSE Append(cs, inc(EventCounter))

\* AnalysisManager::alloc_hook runs the routines in order.
alloc_hook(n) ==
  /\ Alive /\ ~world.stopped /\ world.allocs < MaxAllocsSt
  /\ world' = [world EXCEPT !.allocs = @ + 1]
  /\ counters' = ClassHook([counters EXCEPT ![ObjNum] = inc(@)], n)
  /\ sizeClasses' = IF size_class(n) \in DOMAIN sizeClasses THEN sizeClasses
                    ELSE [c \in DOMAIN sizeClasses \cup {size_class(n)} |->
                            IF c \in DOMAIN sizeClasses THEN sizeClasses[c] ELSE Len(counters) + 1]
  /\ Saw([truth EXCEPT !.objects = @ + 1])
  /\ UNCHANGED <<shared, workerStat, harness>>

\* A mutator asks for a collection; its first packets are scheduled.
RequestCollection ==
  /\ Alive /\ ~world.collecting /\ world.collections < MaxCollectionsSt
  /\ world' = [world EXCEPT !.collecting = TRUE, !.collections = @ + 1,
                            !.bucket = {"hook", "stop"}]
  /\ UNCHANGED <<shared, counters, sizeClasses, workerStat, harness, truth>>

-----------------------------------------------------------------------------
(* Workers: do_work_with_stat                                               *)

StartPacket(w, t) ==
  /\ Alive /\ workerStat[w].packet = "none" /\ t \in world.bucket
  /\ world' = [world EXCEPT !.bucket = @ \ {t}]
  /\ workerStat' = [workerStat EXCEPT ![w] = [measure_work(@, t) EXCEPT !.packet = t]]
  /\ UNCHANGED <<shared, counters, sizeClasses, harness, truth>>

\* The work is done; then its statistics are taken.
Finished(w, t) ==
  workerStat' = [workerStat EXCEPT ![w] = [end_of_work(@, t) EXCEPT !.packet = "none"]]
SawPacket(w, t, seen) ==
  LET s == workerStat[w]
      time == IF s.timers[t].made THEN Elapsed(s, t) ELSE 0
  IN IF s.enabled
     THEN [seen EXCEPT !.finished[t] = @ + 1, !.spent[t] = @ + time, !.longest[t] = Max({@, time})]
     ELSE seen

\* GcHookWork: GcCounter::gc_hook
FinishHook(w) ==
  /\ Alive /\ workerStat[w].packet = "hook"
  /\ counters' = [counters EXCEPT ![GcNum] = inc(@)]
  /\ Finished(w, "hook")
  /\ Saw(SawPacket(w, "hook", [truth EXCEPT !.hooks = @ + 1]))
  /\ UNCHANGED <<shared, sizeClasses, world, harness>>

\* StopMutators: the VM calls report_gc_start when all mutators have stopped.
FinishStop(w) ==
  /\ Alive /\ workerStat[w].packet = "stop"
  /\ start_gc
  /\ harness' = [harness EXCEPT !.failed = ChangeFails]
  /\ world' = [world EXCEPT !.stopped = TRUE, !.bucket = @ \cup {"prepare"}]
  /\ Finished(w, "stop")
  /\ Saw(SawPacket(w, "stop", [truth EXCEPT !.pauses = @ + 1]))
  /\ UNCHANGED <<sizeClasses>>

\* CommonGenPlan::prepare counts full-heap collections.
FinishPrepare(w, full) ==
  /\ Alive /\ workerStat[w].packet = "prepare"
  /\ counters' = IF full THEN [counters EXCEPT ![MajorGC] = inc(@)] ELSE counters
  /\ Finished(w, "prepare")
  /\ Saw(SawPacket(w, "prepare", [truth EXCEPT !.majors = @ + IF full THEN 1 ELSE 0]))
  /\ UNCHANGED <<shared, sizeClasses, world, harness>>

\* The last worker to park: MMTK::set_gc_status(NotInGC), then the mutators
\* resume and the harness thread, if it waits for this collection.
FinishCollection ==
  /\ Alive /\ world.stopped /\ world.bucket = {}
  /\ \A w \in StatWorkers : workerStat[w].packet = "none"
  /\ end_gc
  /\ harness' = [harness EXCEPT
       !.failed = ChangeFails,
       !.at = IF @ = "waiting" THEN "collected" ELSE @]
  /\ world' = [world EXCEPT !.stopped = FALSE, !.collecting = FALSE]
  /\ UNCHANGED <<sizeClasses, workerStat, truth>>

-----------------------------------------------------------------------------
(* The harness                                                              *)

\* MMTK::harness_begin first runs a collection ...
RequestHarness ==
  /\ Alive /\ harness.at = "outside" /\ harness.uses < MaxHarness /\ ~world.stopped
  /\ harness' = [harness EXCEPT !.at = "waiting", !.uses = @ + 1]
  /\ world' = IF world.collecting THEN world
              ELSE [world EXCEPT !.collecting = TRUE, !.bucket = {"hook", "stop"}]
  /\ UNCHANGED <<shared, counters, sizeClasses, workerStat, truth>>

\* ... and then starts the counters.  The thread is a mutator: the world is
\* not stopped.
BeginHarness ==
  /\ Alive /\ harness.at = "collected" /\ ~world.stopped
  /\ start_all
  /\ enable_stat
  /\ harness' = [harness EXCEPT !.at = "inside"]
  /\ truth' = Nothing
  /\ UNCHANGED <<sizeClasses, world>>

\* What print_stats prints.
Report(cs) ==
  [printed |-> TRUE, pauses |-> shared.phase \div 2,
   other |-> get_total_of(cs[Time], TRUE), stw |-> get_total_of(cs[Time], FALSE),
   total |-> get_total(cs[Time]), majors |-> get_total(cs[MajorGC]),
   objects |-> get_total(cs[ObjNum]), hooks |-> get_total(cs[GcNum]), work |-> HarnessStat]

\* MMTK::harness_end: stop_all, then print_stats.
EndHarness ==
  /\ Alive /\ harness.at = "inside" /\ ~world.stopped
  /\ stop_all_counters
  /\ LET failed == Fails(StopFails) \/ \E i \in DOMAIN counters : TotalFails(stop(counters[i]))
     IN harness' = [harness EXCEPT !.at = "outside", !.failed = failed,
                                   !.report = IF failed THEN NoReport ELSE Report(counters')]
  /\ UNCHANGED <<sizeClasses, workerStat, world, truth>>

StatInit ==
  /\ shared = [phase |-> 0, gathering |-> FALSE, gcs |-> 0]
  /\ counters = <<LongCounter, EventCounter, EventCounter, EventCounter>>
  /\ sizeClasses = <<>>
  /\ workerStat = [w \in StatWorkers |-> IdleWorker]
  /\ world = [stopped |-> FALSE, collecting |-> FALSE, bucket |-> {}, clock |-> 0,
              allocs |-> 0, collections |-> 0]
  /\ harness = [at |-> "outside", uses |-> 0, failed |-> FALSE, report |-> NoReport]
  /\ truth = Nothing

StatNext ==
  \/ Tick \/ RequestCollection \/ RequestHarness \/ BeginHarness \/ EndHarness \/ FinishCollection
  \/ \E n \in AllocSizes : alloc_hook(n)
  \/ \E w \in StatWorkers :
       \/ \E t \in StatPackets : StartPacket(w, t)
       \/ FinishHook(w) \/ FinishStop(w)
       \/ \E full \in BOOLEAN : FinishPrepare(w, full)

-----------------------------------------------------------------------------
(* Properties                                                               *)

\* What harness_end prints is what happened since harness_begin: the time
\* while mutators ran and in pauses, the pauses, full-heap collections,
\* objects and hooks counted once each whichever phase they fell in, and for
\* each kind of packet the packets finished and the time of those that were
\* measured, over all workers, whenever the collections came.
HarnessReportIsExact ==
  (harness.report.printed /\ harness.at = "outside") =>
    LET r == harness.report
    IN /\ r.other = truth.other /\ r.stw = truth.stw /\ r.total = truth.other + truth.stw
       /\ r.pauses = truth.pauses /\ r.majors = truth.majors
       /\ r.objects = truth.objects /\ r.hooks = truth.hooks
       /\ \A t \in StatPackets : /\ r.work[t].count = truth.finished[t] /\ r.work[t].time = truth.spent[t]
                                    /\ r.work[t].max = truth.longest[t]

=============================================================================

----------------------------- MODULE GCScheduler -----------------------------
(***************************************************************************)
(* The GC work scheduler: the worker threads, the monitor they park on,    *)
(* the goals, the work buckets, the requester mutators trigger a GC with,  *)
(* the mutators as the scheduler sees them, and stopping and respawning    *)
(* the workers around a fork (src/scheduler, src/plan/gc_requester.rs).    *)
(*                                                                         *)
(* A work packet is an element of Packets.  Two packets are special, the   *)
(* ScheduleCollection packet SC and the StopMutators packet SM; what the   *)
(* others do is abstracted to what they ask of the scheduler: add packets  *)
(* to buckets, to their local buffer, to a worker's designated queue or to *)
(* the postponed queue.                                                    *)
(*                                                                         *)
(* The critical sections of WorkerMonitor::sync are single actions.  Work  *)
(* queues and flags are read and written without that mutex, and each such *)
(* access that another thread can interfere with is an action of its own.  *)
(***************************************************************************)
EXTENDS Naturals, FiniteSets, WorkerGoals, WorkBuckets

CONSTANTS
    Workers,        \* the GC worker threads
    Mutators,       \* the mutator threads
    Packets,        \* the work packets
    SC, SM,         \* the ScheduleCollection and the StopMutators packet
    NoWorker,       \* not a worker
    LocalCap,       \* GCWorker::LOCALLY_CACHED_WORK_PACKETS
    MaxSpawn,       \* bound: packets made between the ends of two GCs
    MaxSpurious     \* bound: spurious wake-ups of condition-variable waits

ASSUME SchedulerAssumption ==
    /\ IsFiniteSet(Workers) /\ Workers # {}
    /\ NoWorker \notin Workers
    /\ SC \in Packets /\ SM \in Packets /\ SC # SM
    /\ LocalCap \in Nat /\ MaxSpawn \in Nat /\ MaxSpurious \in Nat

VARIABLES
    wpc,            \* where each worker is in its loop
    cursor,         \* the bucket a polling worker looks at next
    victims,        \* the workers a polling worker has yet to steal from
    packet,         \* where each packet is
    active,         \* the open buckets
    disabled,       \* the disabled buckets
    progress,       \* bucket_update_progress
    parked,         \* parker.parked_workers, and its copy WorkerMonitor::parked
    current,        \* goals.current
    requests,       \* goals.requests
    request_flag,   \* GCRequester::request_flag
    in_gc_pause,    \* GCWorkScheduler::in_gc_pause
    mpc,            \* where each mutator is
    group,          \* WorkerGroup::state
    spawned,        \* packets made since the last GC ended
    spurious        \* spurious wake-ups so far

polling == <<cursor, victims>>
buckets == <<active, disabled, progress>>
goals == <<current, requests>>
mutators == <<request_flag, in_gc_pause, mpc>>
bounds == <<spawned, spurious>>
vars == <<wpc, polling, packet, buckets, parked, goals, mutators, group, bounds>>
-----------------------------------------------------------------------------
(***************************************************************************)
(* Where things can be.                                                    *)
(***************************************************************************)
\* "own", "scan" and "steal" are the three parts of a poll; "begin" to
\* "notify" are the steps of the packet the worker executes.
WorkerStates == {"own", "scan", "steal", "park", "waiting", "woken",
                 "begin", "body", "check", "second", "notify",
                 "exiting", "exited"}

Executing == {"begin", "body", "check", "second", "notify"}

MutatorStates == {"running", "requesting", "flagged", "blocked", "stopped",
                  "forking", "forkwait"}

\* A packet is free (not made yet, or done), in a bucket's queue, in the
\* sentinel slot of a bucket, in a worker's local buffer or designated queue,
\* being executed, or postponed to the end of the GC.
Places == {"free", "bucket", "sentinel", "local", "designated", "exec",
           "postponed"}

At(place, w, s) == [at |-> place, by |-> w, stage |-> s]
Free == At("free", NoWorker, Unconstrained)
Postponed == At("postponed", NoWorker, Unconstrained)
InBucket(s) == At("bucket", NoWorker, s)

PacketStates ==
    [at : Places, by : Workers \cup {NoWorker}, stage : Stages]

WorkPackets == Packets \ {SC, SM}
FreePackets == {p \in WorkPackets : packet[p] = Free}

Bucket(s) == {p \in Packets : packet[p].at = "bucket" /\ packet[p].stage = s}
Local(w) == {p \in Packets : packet[p].at = "local" /\ packet[p].by = w}
Designated(w) ==
    {p \in Packets : packet[p].at = "designated" /\ packet[p].by = w}

Full == {s \in Stages : Bucket(s) # {}}
Sentinels ==
    {s \in Stages : \E p \in Packets :
        packet[p].at = "sentinel" /\ packet[p].stage = s}

\* Variant: the last parked worker does not look at the designated queues.
NoDesignatedWork == FALSE

\* `WorkerGroup::has_designated_work`
HasDesignatedWork == \E w \in Workers : Designated(w) # {}

\* s is not before the stage the pause is in.
NotBeforeOpen(s) == \A t \in active : t <= s

ParkedWorkers == {w \in Workers : wpc[w] \in {"waiting", "woken"}}
-----------------------------------------------------------------------------
(***************************************************************************)
(* The condition variable workers_have_anything_to_do.  A notified worker  *)
(* is "woken": it still counts as parked until it has the mutex again.     *)
(***************************************************************************)
Waiting == {w \in Workers : wpc[w] = "waiting"}

\* `notify_one` wakes some waiting worker, and nobody if nobody waits.
NotifyOne == IF Waiting = {} THEN {{}} ELSE {{v} : v \in Waiting}

\* Worker w moves to state pc and the workers in S are notified.
MoveAndNotify(w, pc, S) ==
    wpc' = [v \in Workers |-> IF v = w THEN pc
                              ELSE IF v \in S THEN "woken"
                              ELSE wpc[v]]

Move(w, pc) == wpc' = [wpc EXCEPT ![w] = pc]

\* A thread that is no worker notifies the workers in S.
NotifyWorkers(S) ==
    wpc' = [v \in Workers |-> IF v \in S THEN "woken" ELSE wpc[v]]

SpuriousWakeup(w) ==
    /\ wpc[w] = "waiting"
    /\ spurious < MaxSpurious
    /\ Move(w, "woken")
    /\ spurious' = spurious + 1
    /\ UNCHANGED <<polling, packet, buckets, parked, goals, mutators, group,
                   spawned>>
-----------------------------------------------------------------------------
(***************************************************************************)
(* Polling (GCWorker::poll and poll_schedulable_work_once).  A worker      *)
(* looks at its designated queue, its local buffer, the buckets in order,  *)
(* and the local buffers of the others, one after the other; other threads *)
(* add packets behind its back.  The worker polls a second time before it  *)
(* parks; a failed first poll is not observable and is left out.           *)
(***************************************************************************)
\* The worker takes packet p: SC and SM have steps of their own.
Take(w, p) ==
    Move(w, IF p \in {SC, SM} THEN "begin" ELSE "body")

Executed(w, p) == At("exec", w, packet[p].stage)

PollDesignated(w) ==
    /\ wpc[w] = "own"
    /\ \E p \in Designated(w) :
          /\ Take(w, p)
          /\ packet' = [packet EXCEPT ![p] = Executed(w, p)]
    /\ UNCHANGED <<polling, buckets, parked, goals, mutators, group, bounds>>

PollLocal(w) ==
    /\ wpc[w] = "own"
    /\ Designated(w) = {}
    /\ \E p \in Local(w) :
          /\ Take(w, p)
          /\ packet' = [packet EXCEPT ![p] = Executed(w, p)]
    /\ UNCHANGED <<polling, buckets, parked, goals, mutators, group, bounds>>

PollOwnEmpty(w) ==
    /\ wpc[w] = "own"
    /\ Designated(w) = {}
    /\ Local(w) = {}
    /\ Move(w, "scan")
    /\ cursor' = [cursor EXCEPT ![w] = Unconstrained]
    /\ UNCHANGED <<victims, packet, buckets, parked, goals, mutators, group,
                   bounds>>

\* `WorkBucket::poll`: steal_batch_and_pop takes one packet to execute and
\* moves some others to the local buffer.
PollBucket(w) ==
    /\ wpc[w] = "scan"
    /\ CanPoll(cursor[w], active, disabled, Full)
    /\ \E p \in Bucket(cursor[w]) :
       \E batch \in SUBSET (Bucket(cursor[w]) \ {p}) :
          /\ Take(w, p)
          /\ packet' = [q \in Packets |->
                IF q = p THEN Executed(w, p)
                ELSE IF q \in batch THEN At("local", w, packet[q].stage)
                ELSE packet[q]]
    /\ cursor' = [cursor EXCEPT ![w] = Unconstrained]
    /\ UNCHANGED <<victims, buckets, parked, goals, mutators, group, bounds>>

PollBucketEmpty(w) ==
    /\ wpc[w] = "scan"
    /\ ~CanPoll(cursor[w], active, disabled, Full)
    /\ IF cursor[w] < LastStage
       THEN /\ cursor' = [cursor EXCEPT ![w] = cursor[w] + 1]
            /\ UNCHANGED <<wpc, victims>>
       ELSE /\ Move(w, "steal")
            /\ cursor' = [cursor EXCEPT ![w] = Unconstrained]
            /\ victims' = [victims EXCEPT ![w] = Workers \ {w}]
    /\ UNCHANGED <<packet, buckets, parked, goals, mutators, group, bounds>>

Steal(w) ==
    /\ wpc[w] = "steal"
    /\ \E v \in victims[w] : \E p \in Local(v) :
          /\ Take(w, p)
          /\ packet' = [packet EXCEPT ![p] = Executed(w, p)]
    /\ victims' = [victims EXCEPT ![w] = {}]
    /\ UNCHANGED <<cursor, buckets, parked, goals, mutators, group, bounds>>

StealEmpty(w) ==
    /\ wpc[w] = "steal"
    /\ \E v \in victims[w] :
          /\ Local(v) = {}
          /\ victims' = [victims EXCEPT ![w] = @ \ {v}]
    /\ UNCHANGED <<wpc, cursor, packet, buckets, parked, goals, mutators,
                   group, bounds>>

\* Nothing was found anywhere: go and park.
PollFailed(w) ==
    /\ wpc[w] = "steal"
    /\ victims[w] = {}
    /\ Move(w, "park")
    /\ UNCHANGED <<polling, packet, buckets, parked, goals, mutators, group,
                   bounds>>
-----------------------------------------------------------------------------
(***************************************************************************)
(* What an executing packet asks of the scheduler.                         *)
(***************************************************************************)
\* The packets of a pause only make packets for the stage the pause is in or
\* a later one; nothing is ever added to the first pause bucket.
MayAddTo(s) ==
    /\ s \notin disabled
    /\ \/ s = Unconstrained
       \/ current = GoalGc /\ s >= SecondSTW /\ NotBeforeOpen(s)

\* `WorkBucket::add`: one worker is notified if the bucket is open.
AddToBucket(w, s) ==
    /\ wpc[w] = "body"
    /\ spawned < MaxSpawn
    /\ MayAddTo(s)
    /\ \E p \in FreePackets :
          packet' = [packet EXCEPT ![p] = InBucket(s)]
    /\ \E S \in IF s \in active THEN NotifyOne ELSE {{}} :
          MoveAndNotify(w, "body", S)
    /\ spawned' = spawned + 1
    /\ UNCHANGED <<polling, buckets, parked, goals, mutators, group, spurious>>

\* Variant: the local buffer also takes packets of buckets that are closed.
AddToLocalAnyBucket(w, s) ==
    /\ wpc[w] = "body"
    /\ spawned < MaxSpawn
    /\ MayAddTo(s)
    /\ Cardinality(Local(w)) < LocalCap
    /\ \E p \in FreePackets :
          packet' = [packet EXCEPT ![p] = At("local", w, s)]
    /\ spawned' = spawned + 1
    /\ UNCHANGED <<wpc, polling, buckets, parked, goals, mutators, group,
                   spurious>>

\* `GCWorker::add_work` keeps a packet of an open bucket in the local buffer.
AddToLocal(w, s) ==
    /\ wpc[w] = "body"
    /\ spawned < MaxSpawn
    /\ MayAddTo(s)
    /\ s \in active
    /\ Cardinality(Local(w)) < LocalCap
    /\ \E p \in FreePackets :
          packet' = [packet EXCEPT ![p] = At("local", w, s)]
    /\ spawned' = spawned + 1
    /\ UNCHANGED <<wpc, polling, buckets, parked, goals, mutators, group,
                   spurious>>

\* `Prepare` and `Release` push a packet to a worker's designated queue.
AddDesignated(w, v) ==
    /\ wpc[w] = "body"
    /\ spawned < MaxSpawn
    /\ \E s \in active, p \in FreePackets :
          /\ NotBeforeOpen(s) /\ s > SecondSTW
          /\ packet' = [packet EXCEPT ![p] = At("designated", v, s)]
    /\ spawned' = spawned + 1
    /\ UNCHANGED <<wpc, polling, buckets, parked, goals, mutators, group,
                   spurious>>

\* `GCWorkScheduler::postpone` and its variants.
Postpone(w) ==
    /\ wpc[w] = "body"
    /\ spawned < MaxSpawn
    /\ \E p \in FreePackets : packet' = [packet EXCEPT ![p] = Postponed]
    /\ spawned' = spawned + 1
    /\ UNCHANGED <<wpc, polling, buckets, parked, goals, mutators, group,
                   spurious>>

\* The packet is done.
FinishPacket(w) ==
    /\ wpc[w] = "body"
    /\ \E p \in Packets \ {SM} :
          /\ packet[p].at = "exec" /\ packet[p].by = w
          /\ packet' = [packet EXCEPT ![p] = Free]
    /\ Move(w, "own")
    /\ UNCHANGED <<polling, buckets, parked, goals, mutators, group, bounds>>
-----------------------------------------------------------------------------
\* Variant: the request flag is cleared as soon as the collection starts.
ScheduleCollectionClearingRequest(w) ==
    /\ wpc[w] = "begin"
    /\ packet[SC].at = "exec" /\ packet[SC].by = w
    /\ \E D \in SUBSET ({FirstSTW} \cup (3 .. LastStage)) : disabled' = D
    /\ packet' = [packet EXCEPT ![SM] = InBucket(Unconstrained)]
    /\ \E S \in NotifyOne : MoveAndNotify(w, "body", S)
    /\ request_flag' = FALSE
    /\ UNCHANGED <<polling, active, progress, parked, goals, in_gc_pause, mpc,
                   group, bounds>>

(***************************************************************************)
(* ScheduleCollection: the plan disables the buckets this GC does not use, *)
(* adds StopMutators to Unconstrained, and goes on to fill the closed      *)
(* buckets ("body") while another worker may already be stopping mutators. *)
(***************************************************************************)
ScheduleCollection(w) ==
    /\ wpc[w] = "begin"
    /\ packet[SC].at = "exec" /\ packet[SC].by = w
    /\ \E D \in SUBSET ({FirstSTW} \cup (3 .. LastStage)) : disabled' = D
    /\ packet' = [packet EXCEPT ![SM] = InBucket(Unconstrained)]
    /\ \E S \in NotifyOne : MoveAndNotify(w, "body", S)
    /\ UNCHANGED <<polling, active, progress, parked, goals, mutators, group,
                   bounds>>

\* `set_sentinel` on a bucket that is not open yet.
SetSentinel(w, s) ==
    /\ wpc[w] = "body"
    /\ packet[SC].at = "exec" /\ packet[SC].by = w
    /\ spawned < MaxSpawn
    /\ MayAddTo(s) /\ s \notin active /\ s \notin Sentinels
    /\ \E p \in FreePackets :
          packet' = [packet EXCEPT ![p] = At("sentinel", NoWorker, s)]
    /\ spawned' = spawned + 1
    /\ UNCHANGED <<wpc, polling, buckets, parked, goals, mutators, group,
                   spurious>>

\* Variant: the mutators that are about to request a GC are not waited for.
StopSomeMutators(w) ==
    /\ wpc[w] = "begin"
    /\ packet[SM].at = "exec" /\ packet[SM].by = w
    /\ mpc' = [m \in Mutators |->
                  IF mpc[m] = "running" THEN "stopped" ELSE mpc[m]]
    /\ in_gc_pause' = TRUE
    /\ Move(w, "body")
    /\ UNCHANGED <<polling, packet, buckets, parked, goals, request_flag,
                   group, bounds>>

(***************************************************************************)
(* StopMutators.  `stop_all_mutators` (external) returns when every        *)
(* mutator is at a safepoint or blocked.  Root packets are then added      *)
(* ("body"), and `notify_mutators_paused` opens the first pause bucket,    *)
(* and the second one too if nothing else is going on.                     *)
(***************************************************************************)
StopAllMutators(w) ==
    /\ wpc[w] = "begin"
    /\ packet[SM].at = "exec" /\ packet[SM].by = w
    /\ \A m \in Mutators : mpc[m] \in {"running", "blocked", "forkwait"}
    /\ mpc' = [m \in Mutators |->
                  IF mpc[m] = "running" THEN "stopped" ELSE mpc[m]]
    /\ in_gc_pause' = TRUE
    /\ Move(w, "body")
    /\ UNCHANGED <<polling, packet, buckets, parked, goals, request_flag,
                   group, bounds>>

\* Variant: `clear_request` is forgotten.
OpenFirstBucketOnly(w) ==
    /\ wpc[w] = "body"
    /\ packet[SM].at = "exec" /\ packet[SM].by = w
    /\ active' = active \cup {FirstSTW}
    /\ Move(w, "check")
    /\ UNCHANGED <<polling, packet, disabled, progress, parked, goals,
                   mutators, group, bounds>>

\* `notify_mutators_paused`: clear the request flag, open the first bucket.
OpenFirstBucket(w) ==
    /\ wpc[w] = "body"
    /\ packet[SM].at = "exec" /\ packet[SM].by = w
    /\ request_flag' = FALSE
    /\ active' = active \cup {FirstSTW}
    /\ Move(w, "check")
    /\ UNCHANGED <<polling, packet, disabled, progress, parked, goals,
                   in_gc_pause, mpc, group, bounds>>

\* The test before the second bucket is opened.  Whether concurrent marking
\* and lazy sweeping are over is left open.
CheckSecondBucket(w) ==
    /\ wpc[w] = "check"
    /\ \/ /\ IsEmpty(FirstSTW, disabled, Full)
          /\ parked + 1 = Cardinality(Workers)
          /\ Move(w, "second")
       \/ Move(w, "notify")
    /\ UNCHANGED <<polling, packet, buckets, parked, goals, mutators, group,
                   bounds>>

OpenSecondBucket(w) ==
    /\ wpc[w] = "second"
    /\ active' = active \cup {SecondSTW}
    /\ Move(w, "notify")
    /\ UNCHANGED <<polling, packet, disabled, progress, parked, goals,
                   mutators, group, bounds>>

\* Notify all workers; the StopMutators packet is done.
NotifyMutatorsPaused(w) ==
    /\ wpc[w] = "notify"
    /\ packet' = [packet EXCEPT ![SM] = Free]
    /\ MoveAndNotify(w, "own", Waiting)
    /\ UNCHANGED <<polling, buckets, parked, goals, mutators, group, bounds>>
-----------------------------------------------------------------------------
(***************************************************************************)
(* WorkerMonitor::park_and_wait and what the last parked worker does.      *)
(***************************************************************************)
\* Variant: `inc_parked_workers` compares the count before the increment.
AllButOneParked(w) == wpc[w] = "park" /\ parked + 2 >= Cardinality(Workers)

AllParkedWith(w) == wpc[w] = "park" /\ parked + 1 = Cardinality(Workers)

ParkNotLast(w) ==
    /\ wpc[w] = "park"
    /\ parked + 1 # Cardinality(Workers)
    /\ parked' = parked + 1
    /\ Move(w, "waiting")
    /\ UNCHANGED <<polling, packet, buckets, goals, mutators, group, bounds>>

\* Variant: the last worker is not counted when it parks.
WakeAllUncounted(w) ==
    MoveAndNotify(w, "own", Waiting) /\ parked' = parked - 1

\* `LastParkedResult::WakeAll` while the goal is a GC.
WakeAll(w) == MoveAndNotify(w, "own", Waiting) /\ UNCHANGED parked

\* `find_more_work_for_workers`: first, designated work.
FindDesignatedWork(w) ==
    /\ AllParkedWith(w)
    /\ current = GoalGc
    /\ HasDesignatedWork
    /\ WakeAll(w)
    /\ UNCHANGED <<polling, packet, buckets, goals, mutators, group, bounds>>

\* The packets with the sentinels of the buckets in S moved to the queues.
SentinelsQueued(S) ==
    [p \in Packets |->
        IF packet[p].at = "sentinel" /\ packet[p].stage \in S
        THEN InBucket(packet[p].stage) ELSE packet[p]]

\* Second, the sentinels of the open buckets.
ScheduleSentinels(w) ==
    /\ AllParkedWith(w)
    /\ current = GoalGc
    /\ ~HasDesignatedWork
    /\ SentinelsToSchedule(active, Sentinels) # {}
    /\ packet' = SentinelsQueued(SentinelsToSchedule(active, Sentinels))
    /\ WakeAll(w)
    /\ UNCHANGED <<polling, buckets, goals, mutators, group, bounds>>

\* What `update_buckets` opens in the current state.
Opened == BucketsToOpen(active, disabled, Full, Sentinels, progress)

\* Third, the next buckets; there is more work if one of them has a packet.
UpdateBuckets(w) ==
    /\ AllParkedWith(w)
    /\ current = GoalGc
    /\ ~HasDesignatedWork
    /\ SentinelsToSchedule(active, Sentinels) = {}
    /\ StoppedAt(Opened, Full, Sentinels) # {}
    /\ active' = active \cup Opened
    /\ progress' = NewProgress(Opened, Full, Sentinels)
    /\ packet' = SentinelsQueued(SentinelsOnOpen(Opened, Full, Sentinels))
    /\ WakeAll(w)
    /\ UNCHANGED <<polling, disabled, goals, mutators, group, bounds>>

\* Variant: only the last parked worker learns that it is to exit.
RespondToRequestsAlone(w, S, pk) ==
    LET goal == PollNextGoal(requests) IN
    /\ current' = goal
    /\ requests' = RequestsAfterPoll(requests)
    /\ \/ /\ goal = GoalGc
          /\ packet' = [pk EXCEPT ![SC] = InBucket(Unconstrained)]
          /\ MoveAndNotify(w, "own", S)
          /\ UNCHANGED parked
       \/ /\ goal = GoalStopForFork
          /\ packet' = pk
          /\ MoveAndNotify(w, "exiting", S)
          /\ UNCHANGED parked
       \/ /\ goal = NoGoal
          /\ packet' = pk
          /\ MoveAndNotify(w, "waiting", S)
          /\ parked' = parked + 1

\* `respond_to_requests`, by the last parked worker w, when the waiting
\* workers in S have been notified and the packets are in the places pk.
RespondToRequests(w, S, pk) ==
    LET goal == PollNextGoal(requests) IN
    /\ current' = goal
    /\ requests' = RequestsAfterPoll(requests)
    /\ \/ /\ goal = GoalGc
          /\ packet' = [pk EXCEPT ![SC] = InBucket(Unconstrained)]
          /\ MoveAndNotify(w, "own", S)
          /\ UNCHANGED parked
       \/ /\ goal = GoalStopForFork
          /\ packet' = pk
          /\ MoveAndNotify(w, "exiting", Waiting)
          /\ UNCHANGED parked
       \/ /\ goal = NoGoal
          /\ packet' = pk
          /\ MoveAndNotify(w, "waiting", S)
          /\ parked' = parked + 1

LastParkedIdle(w) ==
    /\ AllParkedWith(w)
    /\ current = NoGoal
    /\ RespondToRequests(w, {}, packet)
    /\ UNCHANGED <<polling, buckets, mutators, group, bounds>>

PostponedPackets == {p \in Packets : packet[p].at = "postponed"}

\* Variant: nobody is told of the postponed packets.
OnGCFinishedSilently(w) ==
    /\ AllParkedWith(w)
    /\ current = GoalGc
    /\ ~HasDesignatedWork
    /\ SentinelsToSchedule(active, Sentinels) = {}
    /\ StoppedAt(Opened, Full, Sentinels) = {}
    /\ active' = {Unconstrained}
    /\ disabled' = {}
    /\ progress' = 0
    /\ in_gc_pause' = FALSE
    /\ mpc' = [m \in Mutators |->
                  IF mpc[m] \in {"stopped", "blocked"} THEN "running"
                  ELSE mpc[m]]
    /\ spawned' = 0
    /\ RespondToRequests(
          w, {},
          [p \in Packets |-> IF p \in PostponedPackets
                             THEN InBucket(Unconstrained) ELSE packet[p]])
    /\ UNCHANGED <<polling, request_flag, group, spurious>>

\* `on_gc_finished`: nothing is left to do.  All buckets but Unconstrained
\* are closed and enabled, mutators resume, and the postponed packets become
\* available in Unconstrained, of which all workers are notified.
OnGCFinished(w) ==
    /\ AllParkedWith(w)
    /\ current = GoalGc
    /\ ~HasDesignatedWork
    /\ SentinelsToSchedule(active, Sentinels) = {}
    /\ StoppedAt(Opened, Full, Sentinels) = {}
    /\ active' = {Unconstrained}
    /\ disabled' = {}
    /\ progress' = 0
    /\ in_gc_pause' = FALSE
    /\ mpc' = [m \in Mutators |->
                  IF mpc[m] \in {"stopped", "blocked"} THEN "running"
                  ELSE mpc[m]]
    /\ spawned' = 0
    /\ RespondToRequests(
          w,
          IF PostponedPackets = {} THEN {} ELSE Waiting,
          [p \in Packets |-> IF p \in PostponedPackets
                             THEN InBucket(Unconstrained) ELSE packet[p]])
    /\ UNCHANGED <<polling, request_flag, group, spurious>>

\* Variant: the goal is not looked at after the wait.
UnparkAnyway(w) ==
    /\ wpc[w] = "woken"
    /\ parked' = parked - 1
    /\ Move(w, "own")
    /\ UNCHANGED <<polling, packet, buckets, goals, mutators, group, bounds>>

\* A woken worker has the mutex again and unparks; it exits if the goal is to
\* stop for a fork.
Unpark(w) ==
    /\ wpc[w] = "woken"
    /\ parked' = parked - 1
    /\ Move(w, IF current = GoalStopForFork THEN "exiting" ELSE "own")
    /\ UNCHANGED <<polling, packet, buckets, goals, mutators, group, bounds>>

\* `surrender_gc_worker`; the last worker clears the goal.
Surrender(w) ==
    /\ wpc[w] = "exiting"
    /\ Move(w, "exited")
    /\ current' = IF \A v \in Workers \ {w} : wpc[v] = "exited"
                  THEN NoGoal ELSE current
    /\ UNCHANGED <<polling, packet, buckets, parked, requests, mutators, group,
                   bounds>>
-----------------------------------------------------------------------------
(***************************************************************************)
(* Mutators.  GCRequester::request is a load, a swap and, for the mutator  *)
(* that set the flag, a request under the mutex; the mutator then blocks   *)
(* for the GC.  The VM does not allocate between prepare_to_fork and       *)
(* after_fork.                                                             *)
(***************************************************************************)
LoadRequestFlag(m) ==
    /\ mpc[m] = "running"
    /\ group = "Spawned"
    /\ mpc' = [mpc EXCEPT ![m] = IF request_flag THEN "blocked"
                                 ELSE "requesting"]
    /\ UNCHANGED <<wpc, polling, packet, buckets, parked, goals, request_flag,
                   in_gc_pause, group, bounds>>

SwapRequestFlag(m) ==
    /\ mpc[m] = "requesting"
    /\ mpc' = [mpc EXCEPT ![m] = IF request_flag THEN "blocked" ELSE "flagged"]
    /\ request_flag' = TRUE
    /\ UNCHANGED <<wpc, polling, packet, buckets, parked, goals, in_gc_pause,
                   group, bounds>>

\* Variant: nobody is notified of the request.
MakeRequestSilently(goal) ==
    /\ requests' = SetRequest(requests, goal)
    /\ NotifyWorkers({})

\* `WorkerMonitor::make_request`
MakeRequest(goal) ==
    /\ requests' = SetRequest(requests, goal)
    /\ \E S \in IF NewlyRequested(requests, goal) THEN NotifyOne ELSE {{}} :
          NotifyWorkers(S)

RequestGC(m) ==
    /\ mpc[m] = "flagged"
    /\ MakeRequest(GoalGc)
    /\ mpc' = [mpc EXCEPT ![m] = "blocked"]
    /\ UNCHANGED <<polling, packet, buckets, parked, current, request_flag,
                   in_gc_pause, group, bounds>>

\* A write barrier flushes a buffer: the packet goes to a bucket of the next
\* pause, or is postponed to its end.
FlushBarrier(m) ==
    /\ mpc[m] = "running"
    /\ spawned < MaxSpawn
    /\ \E p \in FreePackets :
          packet' \in {[packet EXCEPT ![p] = InBucket(SecondSTW)],
                       [packet EXCEPT ![p] = Postponed]}
    /\ spawned' = spawned + 1
    /\ UNCHANGED <<wpc, polling, buckets, parked, goals, mutators, group,
                   spurious>>

\* `stop_gc_threads_for_forking`: the surrender buffer is prepared before the
\* workers are asked to exit.
PrepareSurrenderBuffer(m) ==
    /\ mpc[m] = "running"
    /\ group = "Spawned"
    /\ \A n \in Mutators : mpc[n] \notin {"requesting", "flagged"}
    /\ group' = "Surrendered"
    /\ mpc' = [mpc EXCEPT ![m] = "forking"]
    /\ UNCHANGED <<wpc, polling, packet, buckets, parked, goals, request_flag,
                   in_gc_pause, bounds>>

RequestStopForFork(m) ==
    /\ mpc[m] = "forking"
    /\ MakeRequest(GoalStopForFork)
    /\ mpc' = [mpc EXCEPT ![m] = "forkwait"]
    /\ UNCHANGED <<polling, packet, buckets, parked, current, request_flag,
                   in_gc_pause, group, bounds>>

\* `after_fork`, once the native threads have exited.
Respawn(m) ==
    /\ mpc[m] = "forkwait"
    /\ \A w \in Workers : wpc[w] = "exited"
    /\ group' = "Spawned"
    /\ wpc' = [w \in Workers |-> "own"]
    /\ mpc' = [mpc EXCEPT ![m] = "running"]
    /\ UNCHANGED <<polling, packet, buckets, parked, goals, request_flag,
                   in_gc_pause, bounds>>
-----------------------------------------------------------------------------
(***************************************************************************)
(* The specification.  It starts after `initialize_collection`.            *)
(***************************************************************************)
Init ==
    /\ wpc = [w \in Workers |-> "own"]
    /\ cursor = [w \in Workers |-> Unconstrained]
    /\ victims = [w \in Workers |-> {}]
    /\ packet = [p \in Packets |-> Free]
    /\ active = {Unconstrained}
    /\ disabled = {}
    /\ progress = 0
    /\ parked = 0
    /\ current = NoGoal
    /\ requests = {}
    /\ request_flag = FALSE
    /\ in_gc_pause = FALSE
    /\ mpc = [m \in Mutators |-> "running"]
    /\ group = "Spawned"
    /\ spawned = 0
    /\ spurious = 0

Poll(w) ==
    \/ PollDesignated(w) \/ PollLocal(w) \/ PollOwnEmpty(w)
    \/ PollBucket(w) \/ PollBucketEmpty(w)
    \/ Steal(w) \/ StealEmpty(w) \/ PollFailed(w)

\* The steps a packet may take any number of times, or not at all.
Spawn(w) ==
    \/ \E s \in Stages : AddToBucket(w, s) \/ AddToLocal(w, s) \/ SetSentinel(w, s)
    \/ \E v \in Workers : AddDesignated(w, v)
    \/ Postpone(w)

Execute(w) ==
    \/ FinishPacket(w)
    \/ ScheduleCollection(w)
    \/ StopAllMutators(w) \/ OpenFirstBucket(w) \/ CheckSecondBucket(w)
    \/ OpenSecondBucket(w) \/ NotifyMutatorsPaused(w)

ParkAndWait(w) ==
    \/ ParkNotLast(w)
    \/ FindDesignatedWork(w) \/ ScheduleSentinels(w) \/ UpdateBuckets(w)
    \/ LastParkedIdle(w) \/ OnGCFinished(w)
    \/ Unpark(w) \/ Surrender(w)

WorkerStep(w) == Poll(w) \/ Execute(w) \/ ParkAndWait(w)

\* Once it has begun, a mutator finishes what it asks of the scheduler.
MutatorStep(m) ==
    \/ SwapRequestFlag(m) \/ RequestGC(m)
    \/ RequestStopForFork(m) \/ Respawn(m)

Next ==
    \/ \E w \in Workers : WorkerStep(w) \/ Spawn(w) \/ SpuriousWakeup(w)
    \/ \E m \in Mutators :
          \/ MutatorStep(m)
          \/ LoadRequestFlag(m) \/ FlushBarrier(m) \/ PrepareSurrenderBuffer(m)

Spec == Init /\ [][Next]_vars

\* Threads that can run do run: native threads are scheduled fairly, the
\* mutex is handed on, and a packet's do_work returns.  Nothing is assumed
\* of the packets made, of spurious wake-ups, or of when mutators ask for a
\* GC or a fork.
Fairness ==
    /\ \A w \in Workers : WF_vars(WorkerStep(w))
    /\ \A m \in Mutators : WF_vars(MutatorStep(m))

FairSpec == Spec /\ Fairness
-----------------------------------------------------------------------------
TypeOK ==
    /\ wpc \in [Workers -> WorkerStates]
    /\ cursor \in [Workers -> Stages]
    /\ victims \in [Workers -> SUBSET Workers]
    /\ packet \in [Packets -> PacketStates]
    /\ active \subseteq Stages
    /\ disabled \subseteq Stages
    /\ progress \in Stages
    /\ parked \in Nat
    /\ current \in Goals \cup {NoGoal}
    /\ requests \subseteq Goals
    /\ request_flag \in BOOLEAN
    /\ in_gc_pause \in BOOLEAN
    /\ mpc \in [Mutators -> MutatorStates]
    /\ group \in {"Spawned", "Surrendered"}
    /\ spawned \in Nat
    /\ spurious \in Nat

\* The packets of stage s that are still to be done.
Outstanding(s) ==
    {p \in Packets :
        /\ packet[p].stage = s
        /\ packet[p].at \in {"bucket", "sentinel", "local", "designated", "exec"}}

\* Packets run in the order of their stages: when a packet of a pause stage
\* runs, every packet of the earlier pause stages, designated packets and
\* sentinels included, is done (the claim of `notify_mutators_paused`,
\* scheduler.rs:951-957).
StagesInOrder ==
    \A p \in Packets : packet[p].at = "exec" =>
        \A s \in 1 .. (packet[p].stage - 1) : Outstanding(s) = {}

\* A bucket that the last parked worker opens is opened only when no packet,
\* not even of the Unconstrained bucket, is running or available
\* (`update_buckets`, scheduler.rs:446-452).
OpenedWhenQuiet ==
    [][\A s \in (active' \ active) \ {FirstSTW, SecondSTW} :
          \A p \in Packets :
             /\ packet[p].at \notin {"exec", "local", "designated"}
             /\ packet[p].at = "bucket" => packet[p].stage \notin active]_vars

\* Packets of a pause run only while no mutator runs.
PausePacketsWhilePaused ==
    \A p \in Packets : packet[p].at = "exec" /\ packet[p].stage # Unconstrained =>
        in_gc_pause /\ \A m \in Mutators : mpc[m] \in {"stopped", "blocked", "forkwait"}

\* A GC ends only when every packet that was made for it is done: nothing is
\* left in a bucket, open or not, in a sentinel slot, a local buffer or a
\* designated queue (the debug assertions of `on_gc_finished`).
GCEndsWhenDone ==
    [][current = GoalGc /\ current' # GoalGc =>
          \A p \in Packets : packet[p].at \in {"free", "postponed"}]_vars

\* The sentinel of a bucket becomes runnable only when everything before it is
\* done: the Unconstrained packets, the packets and sentinels of the earlier
\* stages, and the packets of its own stage (`maybe_schedule_sentinel`, as
\* `schedule_sentinels` and `update_buckets` call it).
SentinelsLast ==
    [][\A p \in Packets : packet[p].at = "sentinel" /\ packet'[p].at # "sentinel" =>
          \A q \in Packets :
             \/ packet[q].at \in {"free", "postponed"}
             \/ packet[q].stage > packet[p].stage
             \/ packet[q].at = "sentinel" /\ packet[q].stage = packet[p].stage]_vars

\* `poll` would find packet p.
Available(p) ==
    \/ packet[p].at \in {"local", "designated"}
    \/ /\ packet[p].at = "bucket"
       /\ packet[p].stage \in active /\ packet[p].stage \notin disabled

\* Workers sleep only if there is nothing to do: when every worker waits on
\* the condition variable and none has been notified, no packet is available
\* and no goal is requested (worker_monitor.rs:36-38).
SleepOnlyIfNothingToDo ==
    Waiting = Workers => requests = {} /\ \A p \in Packets : ~Available(p)

\* No GC is requested while one is in progress (the assertion of
\* `on_last_parked`, scheduler.rs:664-669).
NoRequestDuringGC == current = GoalGc => GoalGc \notin requests

\* Once the workers are asked to exit for a fork, each of them does so: none
\* polls or waits again (the panic of `on_last_parked`), and the buffer to
\* surrender to is there (the panic of `surrender_gc_worker`).
ForkStopsWorkers ==
    /\ current = GoalStopForFork =>
          \A w \in Workers : wpc[w] \in {"woken", "exiting", "exited"}
    /\ \A w \in Workers :
          wpc[w] \in {"exiting", "exited"} => group = "Surrendered"

\* What holds in every state of a pause, of a request and of a fork: the stages
\* run in order, with the mutators stopped, a GC is not requested twice, and a
\* fork finds the workers leaving (`on_last_parked`, `notify_mutators_paused`).
SchedulerSafety ==
    StagesInOrder /\ PausePacketsWhilePaused /\ NoRequestDuringGC /\ ForkStopsWorkers

\* What the steps of the last parked worker may never do: open a bucket while a
\* packet can run, schedule a sentinel early, or end a GC with packets left
\* (`update_buckets`, `schedule_sentinels`, `on_gc_finished`).
PauseProtocol == OpenedWhenQuiet /\ SentinelsLast /\ GCEndsWhenDone

\* Every mutator that blocks for a GC runs again.
BlockedMutatorsResume ==
    \A m \in Mutators : mpc[m] = "blocked" ~> mpc[m] = "running"

\* A mutator that wants to fork gets to do so.
ForkHappens ==
    \A m \in Mutators : mpc[m] = "forking" ~> mpc[m] = "running"

\* A request is served, for a collection and for a fork (`make_request`, and
\* `respond_to_requests` of the last parked worker).
RequestsAreServed == BlockedMutatorsResume /\ ForkHappens

\* Every packet that is available is executed.
AvailablePacketsRun ==
    \A p \in Packets : Available(p) ~> packet[p].at = "exec"
=============================================================================

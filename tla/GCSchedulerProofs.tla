-------------------------- MODULE GCSchedulerProofs --------------------------
(***************************************************************************)
(* Proofs about GCScheduler, for any number of workers, mutators, packets  *)
(* and stages: types, the number of parked workers, the conjuncts of       *)
(* SchedulerInv about goals, requests, stopped mutators and forking, and   *)
(* those about where packets go and what starts a collection.              *)
(***************************************************************************)
EXTENDS GCSchedulerInvariants, FiniteSetTheorems, TLAPS

\* A leaf is a first-order argument for Zenon unless it cites SMT.
USE ZenonT(60)

\* Buckets that update_buckets opens, and what it leaves in
\* bucket_update_progress, are buckets.
LEMMA BucketTypes ==
    ASSUME NEW A, NEW D, NEW F, NEW S, NEW n
    PROVE  /\ BucketsToOpen(A, D, F, S, n) \subseteq Stages
           /\ NewProgress(BucketsToOpen(A, D, F, S, n), F, S) \in Stages
  <1> DEFINE O == BucketsToOpen(A, D, F, S, n)
  <1>1. O \subseteq STWStages
    BY DEF BucketsToOpen
  <1>2. STWStages \subseteq Stages /\ 0 \in Stages
    BY LastStageAssumption, SMT DEF STWStages, Stages
  <1>3. StoppedAt(O, F, S) \subseteq O
    BY DEF StoppedAt
  <1>4. NewProgress(O, F, S) \in Stages
    BY <1>1, <1>2, <1>3 DEF NewProgress
  <1> QED
    BY <1>1, <1>2, <1>4

\* The parked workers can be counted, there being finitely many workers.
LEMMA ParkedFinite ==
    ASSUME ParkedWorkers \subseteq Workers
    PROVE  IsFiniteSet(ParkedWorkers) /\ Cardinality(ParkedWorkers) \in Nat
  BY SchedulerAssumption, FS_Subset, FS_CardinalityType

\* The state after `initialize_collection` is well typed.
LEMMA TypeInit == Init => TypeOK
  <1> HAVE Init
  <1>1. 0 \in Stages
    BY LastStageAssumption, SMT DEF Stages
  <1>2. packet \in [Packets -> PacketStates]
    BY <1>1 DEF Init, PacketStates, Places, Free, At, Unconstrained
  <1>3. /\ wpc \in [Workers -> WorkerStates]
        /\ cursor \in [Workers -> Stages]
        /\ victims \in [Workers -> SUBSET Workers]
        /\ mpc \in [Mutators -> MutatorStates]
    BY <1>1 DEF Init, WorkerStates, MutatorStates, Unconstrained
  <1>4. /\ active \subseteq Stages /\ disabled \subseteq Stages
        /\ progress \in Stages
        /\ parked \in Nat /\ spawned \in Nat /\ spurious \in Nat
        /\ current \in Goals \cup {NoGoal} /\ requests \subseteq Goals
        /\ request_flag \in BOOLEAN /\ in_gc_pause \in BOOLEAN
        /\ group \in {"Spawned", "Surrendered"}
    BY <1>1 DEF Init, Unconstrained, NoGoal
  <1> QED
    BY <1>2, <1>3, <1>4 DEF TypeOK

\* A poll step keeps the types.
LEMMA TypePoll ==
    ASSUME TypeOK, NEW w \in Workers, Poll(w)
    PROVE  TypeOK'
  <1> USE LastStageAssumption, SchedulerAssumption
          DEF TypeOK, WorkerStates, Stages, PacketStates, Places, At, Move,
              Take, Executed, polling, buckets, goals, mutators, bounds,
              Unconstrained
  <1>1. CASE PollDesignated(w)
    BY <1>1, SMT DEF PollDesignated, Designated
  <1>2. CASE PollLocal(w)
    BY <1>2, SMT DEF PollLocal, Local
  <1>3. CASE PollOwnEmpty(w)
    BY <1>3, SMT DEF PollOwnEmpty
  <1>4. CASE PollBucket(w)
    BY <1>4, SMT DEF PollBucket, Bucket
  <1>5. CASE PollBucketEmpty(w)
    BY <1>5, SMT DEF PollBucketEmpty
  <1>6. CASE Steal(w)
    BY <1>6, SMT DEF Steal, Local
  <1>7. CASE StealEmpty(w)
    BY <1>7, SMT DEF StealEmpty
  <1>8. CASE PollFailed(w)
    BY <1>8 DEF PollFailed
  <1> QED
    BY <1>1, <1>2, <1>3, <1>4, <1>5, <1>6, <1>7, <1>8 DEF Poll

\* `notify_one` only wakes workers that wait.
LEMMA NotifyOneWaiting ==
    ASSUME NEW S \in NotifyOne
    PROVE  S \subseteq Waiting
  BY DEF NotifyOne

\* Adding a packet keeps the types.
LEMMA TypeSpawn ==
    ASSUME TypeOK, NEW w \in Workers, Spawn(w)
    PROVE  TypeOK'
  <1> USE LastStageAssumption, SchedulerAssumption
          DEF TypeOK, WorkerStates, Stages, PacketStates, Places, At,
              FreePackets, WorkPackets, polling, buckets, goals, mutators,
              bounds, Unconstrained
  <1>1. ASSUME NEW s \in Stages, AddToBucket(w, s) PROVE TypeOK'
    BY <1>1, SMT DEF AddToBucket, InBucket, MoveAndNotify
  <1>2. ASSUME NEW s \in Stages, AddToLocal(w, s) PROVE TypeOK'
    BY <1>2, SMT DEF AddToLocal
  <1>3. ASSUME NEW s \in Stages, SetSentinel(w, s) PROVE TypeOK'
    BY <1>3, SMT DEF SetSentinel
  <1>4. ASSUME NEW v \in Workers, AddDesignated(w, v) PROVE TypeOK'
    BY <1>4, SMT DEF AddDesignated
  <1>5. CASE Postpone(w)
    BY <1>5, SMT DEF Postpone, Postponed
  <1> QED
    BY <1>1, <1>2, <1>3, <1>4, <1>5 DEF Spawn

\* The steps of the two packets that start a collection, and the end of
\* any packet, keep the types.
LEMMA TypeExecute ==
    ASSUME TypeOK, NEW w \in Workers, Execute(w)
    PROVE  TypeOK'
  <1> USE LastStageAssumption, SchedulerAssumption
          DEF TypeOK, WorkerStates, Stages, PacketStates, Places, At, Move,
              polling, buckets, goals, mutators, bounds, Unconstrained,
              FirstSTW, SecondSTW
  <1>1. CASE FinishPacket(w)
    BY <1>1, SMT DEF FinishPacket, Free
  <1>2. CASE ScheduleCollection(w)
    BY <1>2, SMT DEF ScheduleCollection, InBucket, MoveAndNotify
  <1>3. CASE StopAllMutators(w)
    BY <1>3 DEF StopAllMutators, MutatorStates
  <1>4. CASE OpenFirstBucket(w)
    <2>1. 1 \in Stages
      BY SMT
    <2>2. active' \subseteq Stages
      BY <1>4, <2>1 DEF OpenFirstBucket
    <2>3. request_flag' \in BOOLEAN
      BY <1>4 DEF OpenFirstBucket
    <2> QED
      BY <1>4, <2>2, <2>3 DEF OpenFirstBucket
  <1>5. CASE CheckSecondBucket(w)
    BY <1>5 DEF CheckSecondBucket
  <1>6. CASE OpenSecondBucket(w)
    BY <1>6, SMT DEF OpenSecondBucket
  <1>7. CASE NotifyMutatorsPaused(w)
    BY <1>7, SMT DEF NotifyMutatorsPaused, Free, MoveAndNotify
  <1> QED
    BY <1>1, <1>2, <1>3, <1>4, <1>5, <1>6, <1>7 DEF Execute

\* `poll_next_goal` returns a requested goal or none.
LEMMA GoalTypes ==
    ASSUME requests \subseteq Goals
    PROVE  /\ PollNextGoal(requests) \in requests \cup {NoGoal}
           /\ PollNextGoal(requests) = NoGoal <=> requests = {}
           /\ RequestsAfterPoll(requests) = requests \ {PollNextGoal(requests)}
           /\ GoalGc \in requests => PollNextGoal(requests) = GoalGc
  BY DEF PollNextGoal, RequestsAfterPoll, Goals, GoalGc, GoalStopForFork, NoGoal

\* What respond_to_requests does to the worker, the packets and the goals.
LEMMA TypeRespond ==
    ASSUME TypeOK, NEW w \in Workers, NEW S, NEW pk \in [Packets -> PacketStates],
           RespondToRequests(w, S, pk)
    PROVE  /\ wpc' \in [Workers -> WorkerStates]
           /\ packet' \in [Packets -> PacketStates]
           /\ parked' \in Nat
           /\ current' \in Goals \cup {NoGoal}
           /\ requests' \subseteq Goals
  <1>1. current' \in Goals \cup {NoGoal} /\ requests' \subseteq Goals
    BY GoalTypes DEF RespondToRequests, TypeOK
  <1>2. wpc' \in [Workers -> WorkerStates] /\ parked' \in Nat
    BY SMT DEF RespondToRequests, TypeOK, MoveAndNotify, WorkerStates
  <1>3. InBucket(Unconstrained) \in PacketStates
    BY LastStageAssumption, SMT
       DEF InBucket, At, PacketStates, Places, Unconstrained, Stages
  <1>4. packet' \in [Packets -> PacketStates]
    BY <1>3 DEF RespondToRequests
  <1> QED
    BY <1>1, <1>2, <1>4

\* The packets that are placed by the last parked worker.
LEMMA TypeSentinels ==
    ASSUME TypeOK, NEW S
    PROVE  SentinelsQueued(S) \in [Packets -> PacketStates]
  BY DEF TypeOK, SentinelsQueued, PacketStates, InBucket, At, Places

\* Parking, the work of the last parked worker, unparking and surrendering
\* keep the types.
LEMMA TypePark ==
    ASSUME TypeOK, ParkedCount, NEW w \in Workers, ParkAndWait(w)
    PROVE  TypeOK'
  <1> USE SchedulerAssumption
          DEF TypeOK, WorkerStates, Move, MoveAndNotify, polling, buckets,
              goals, mutators, bounds
  <1>1. CASE ParkNotLast(w)
    BY <1>1, SMT DEF ParkNotLast
  <1>2. CASE FindDesignatedWork(w)
    BY <1>2 DEF FindDesignatedWork, WakeAll
  <1>3. CASE ScheduleSentinels(w)
    BY <1>3, TypeSentinels DEF ScheduleSentinels, WakeAll
  <1>4. CASE UpdateBuckets(w)
    <2>1. Opened \subseteq Stages /\ NewProgress(Opened, Full, Sentinels) \in Stages
      BY BucketTypes DEF Opened
    <2> QED
      BY <1>4, <2>1, TypeSentinels DEF UpdateBuckets, WakeAll
  <1>5. CASE LastParkedIdle(w)
    <2>1. RespondToRequests(w, {}, packet)
      BY <1>5 DEF LastParkedIdle
    <2> QED
      BY <1>5, <2>1, TypeRespond DEF LastParkedIdle
  <1>6. CASE OnGCFinished(w)
    <2> DEFINE S == IF PostponedPackets = {} THEN {} ELSE Waiting
               pk == [p \in Packets |-> IF p \in PostponedPackets
                                        THEN InBucket(Unconstrained) ELSE packet[p]]
    <2>1. RespondToRequests(w, S, pk)
      BY <1>6 DEF OnGCFinished
    <2>2. 0 \in Stages
      BY LastStageAssumption, SMT DEF Stages
    <2>3. pk \in [Packets -> PacketStates]
      BY <2>2 DEF PacketStates, InBucket, At, Places, Unconstrained
    <2>4. /\ wpc' \in [Workers -> WorkerStates]
          /\ packet' \in [Packets -> PacketStates]
          /\ parked' \in Nat
          /\ current' \in Goals \cup {NoGoal}
          /\ requests' \subseteq Goals
      BY <2>1, <2>3, TypeRespond
    <2>5. mpc' \in [Mutators -> MutatorStates]
      BY <1>6 DEF OnGCFinished, MutatorStates
    <2>6. active' \subseteq Stages /\ disabled' \subseteq Stages /\ progress' \in Stages
      BY <1>6, <2>2 DEF OnGCFinished, Unconstrained
    <2> QED
      BY <1>6, <2>4, <2>5, <2>6 DEF OnGCFinished
  <1>7. CASE Unpark(w)
    <2>1. w \in ParkedWorkers
      BY <1>7 DEF Unpark, ParkedWorkers
    <2>2. parked # 0
      BY <2>1, FS_EmptySet, ParkedFinite DEF ParkedCount, ParkedWorkers
    <2> QED
      BY <1>7, <2>2, SMT DEF Unpark
  <1>8. CASE Surrender(w)
    BY <1>8 DEF Surrender
  <1> QED
    BY <1>1, <1>2, <1>3, <1>4, <1>5, <1>6, <1>7, <1>8 DEF ParkAndWait

\* The steps of mutator m.
Mutate(m) ==
    MutatorStep(m) \/ LoadRequestFlag(m) \/ FlushBarrier(m)
    \/ PrepareSurrenderBuffer(m)

\* What a mutator does keeps the types.
LEMMA TypeMutate ==
    ASSUME TypeOK, NEW m \in Mutators, Mutate(m)
    PROVE  TypeOK'
  <1> USE SchedulerAssumption
          DEF TypeOK, WorkerStates, MutatorStates, polling, buckets, goals,
              mutators, bounds
  <1>1. CASE LoadRequestFlag(m)
    BY <1>1 DEF LoadRequestFlag
  <1>2. CASE SwapRequestFlag(m)
    BY <1>2 DEF SwapRequestFlag
  <1>3. CASE RequestGC(m)
    BY <1>3 DEF RequestGC, MakeRequest, NotifyWorkers, SetRequest, Goals
  <1>4. CASE FlushBarrier(m)
    <2>1. 0 \in Stages /\ 2 \in Stages
      BY LastStageAssumption, SMT DEF Stages
    <2>2. InBucket(SecondSTW) \in PacketStates /\ Postponed \in PacketStates
      BY <2>1 DEF InBucket, Postponed, At, PacketStates, Places, SecondSTW,
                  Unconstrained
    <2>3. packet' \in [Packets -> PacketStates]
      BY <1>4, <2>2 DEF FlushBarrier
    <2>4. spawned' \in Nat
      BY <1>4, SMT DEF FlushBarrier
    <2> QED
      BY <1>4, <2>3, <2>4 DEF FlushBarrier
  <1>5. CASE PrepareSurrenderBuffer(m)
    BY <1>5 DEF PrepareSurrenderBuffer
  <1>6. CASE RequestStopForFork(m)
    BY <1>6 DEF RequestStopForFork, MakeRequest, NotifyWorkers, SetRequest, Goals
  <1>7. CASE Respawn(m)
    BY <1>7 DEF Respawn
  <1> QED
    BY <1>1, <1>2, <1>3, <1>4, <1>5, <1>6, <1>7 DEF Mutate, MutatorStep

\* Notifying workers does not change how many are parked.
LEMMA NotifyParked ==
    ASSUME TypeOK, NEW w \in Workers, NEW pc, NEW S \in SUBSET Waiting,
           w \notin ParkedWorkers, pc \notin {"waiting", "woken"},
           MoveAndNotify(w, pc, S)
    PROVE  ParkedWorkers' = ParkedWorkers
  BY DEF TypeOK, MoveAndNotify, ParkedWorkers, Waiting

\* The counter `parked_workers` follows the workers that park and unpark.
LEMMA ParkedStep ==
    ASSUME TypeOK, ParkedCount, [Next]_vars
    PROVE  ParkedCount'
  <1> USE DEF TypeOK, ParkedWorkers, polling, buckets, goals, mutators, bounds
  <1>1. SUFFICES ASSUME \/ parked' # parked
                        \/ ParkedWorkers' # ParkedWorkers
                 PROVE  ParkedCount'
    BY DEF ParkedCount
  <1>2. ASSUME NEW w \in Workers, Poll(w) PROVE FALSE
    BY <1>1, <1>2
       DEF Poll, PollDesignated, PollLocal, PollOwnEmpty, PollBucket,
           PollBucketEmpty, Steal, StealEmpty, PollFailed, Take, Move
  <1>3. ASSUME NEW w \in Workers, Spawn(w) PROVE FALSE
    <2>1. ASSUME NEW s \in Stages, AddToBucket(w, s) PROVE FALSE
      <3>1. PICK S \in SUBSET Waiting : MoveAndNotify(w, "body", S)
        BY <2>1, NotifyOneWaiting DEF AddToBucket
      <3>2. w \notin ParkedWorkers
        BY <2>1 DEF AddToBucket
      <3> QED
        BY <1>1, <2>1, <3>1, <3>2, NotifyParked DEF AddToBucket
    <2> QED
      BY <1>1, <1>3, <2>1
         DEF Spawn, AddToLocal, SetSentinel, AddDesignated, Postpone
  <1>4. ASSUME NEW w \in Workers, Execute(w) PROVE FALSE
    <2>1. CASE ScheduleCollection(w)
      <3>1. PICK S \in SUBSET Waiting : MoveAndNotify(w, "body", S)
        BY <2>1, NotifyOneWaiting DEF ScheduleCollection
      <3>2. w \notin ParkedWorkers
        BY <2>1 DEF ScheduleCollection
      <3> QED
        BY <1>1, <2>1, <3>1, <3>2, NotifyParked DEF ScheduleCollection
    <2>2. CASE NotifyMutatorsPaused(w)
      <3>1. w \notin ParkedWorkers
        BY <2>2 DEF NotifyMutatorsPaused
      <3> QED
        BY <1>1, <2>2, <3>1, NotifyParked DEF NotifyMutatorsPaused
    <2> QED
      BY <1>1, <1>4, <2>1, <2>2
         DEF Execute, FinishPacket, StopAllMutators, OpenFirstBucket,
             CheckSecondBucket, OpenSecondBucket, Move
  <1>5. ASSUME NEW w \in Workers, ParkAndWait(w) PROVE ParkedCount'
    <2>1. IsFiniteSet(ParkedWorkers) /\ Cardinality(ParkedWorkers) \in Nat
      BY ParkedFinite
    <2>2. ASSUME w \notin ParkedWorkers, parked' = parked + 1,
                 ParkedWorkers' = ParkedWorkers \cup {w}
          PROVE  ParkedCount'
      BY <2>1, <2>2, FS_AddElement DEF ParkedCount
    <2>3. CASE ParkNotLast(w)
      BY <2>2, <2>3 DEF ParkNotLast, Move
    <2>4. ASSUME wpc[w] = "park", WakeAll(w) PROVE FALSE
      BY <1>1, <2>4, NotifyParked DEF WakeAll
    <2>5. ASSUME wpc[w] = "park", NEW S \in SUBSET Waiting, NEW pk,
                 RespondToRequests(w, S, pk)
          PROVE  ParkedCount'
      <3>1. CASE MoveAndNotify(w, "waiting", S) /\ parked' = parked + 1
        <4>1. ParkedWorkers' = ParkedWorkers \cup {w}
          BY <2>5, <3>1 DEF MoveAndNotify, Waiting
        <4> QED
          BY <2>2, <2>5, <3>1, <4>1
      <3>2. CASE MoveAndNotify(w, "own", S) /\ UNCHANGED parked
        BY <1>1, <2>5, <3>2, NotifyParked
      <3>3. CASE MoveAndNotify(w, "exiting", Waiting) /\ UNCHANGED parked
        BY <1>1, <2>5, <3>3, NotifyParked
      <3> QED
        BY <2>5, <3>1, <3>2, <3>3 DEF RespondToRequests
    <2>6. CASE Unpark(w)
      <3>1. ParkedWorkers' = ParkedWorkers \ {w}
        BY <2>6 DEF Unpark, Move
      <3>2. w \in ParkedWorkers /\ parked' = parked - 1
        BY <2>6 DEF Unpark
      <3>3. Cardinality(ParkedWorkers \ {w}) = Cardinality(ParkedWorkers) - 1
        BY <2>1, <3>2, FS_RemoveElement
      <3> QED
        BY <3>1, <3>2, <3>3 DEF ParkedCount
    <2>7. CASE LastParkedIdle(w)
      BY <2>5, <2>7 DEF LastParkedIdle, AllParkedWith
    <2>8. CASE OnGCFinished(w)
      <3> DEFINE S == IF PostponedPackets = {} THEN {} ELSE Waiting
      <3>1. S \in SUBSET Waiting
        OBVIOUS
      <3>2. wpc[w] = "park" /\ \E pk : RespondToRequests(w, S, pk)
        BY <2>8 DEF OnGCFinished, AllParkedWith
      <3> QED
        BY <2>5, <3>1, <3>2
    <2> QED
      BY <1>1, <1>5, <2>3, <2>4, <2>6, <2>7, <2>8
         DEF ParkAndWait, FindDesignatedWork, ScheduleSentinels,
             UpdateBuckets, AllParkedWith, Surrender, Move
  <1>6. ASSUME NEW m \in Mutators, Mutate(m) PROVE FALSE
    <2>1. ASSUME NEW goal, MakeRequest(goal), UNCHANGED parked PROVE FALSE
      <3>1. PICK S \in SUBSET Waiting : NotifyWorkers(S)
        BY <2>1, NotifyOneWaiting DEF MakeRequest
      <3> QED
        BY <1>1, <2>1, <3>1 DEF NotifyWorkers, Waiting
    <2> QED
      BY <1>1, <1>6, <2>1
         DEF Mutate, MutatorStep, LoadRequestFlag, SwapRequestFlag, RequestGC,
             FlushBarrier, PrepareSurrenderBuffer, RequestStopForFork, Respawn
  <1>7. CASE UNCHANGED vars
    BY <1>1, <1>7 DEF vars
  <1>8. ASSUME NEW w \in Workers, SpuriousWakeup(w) PROVE FALSE
    BY <1>1, <1>8 DEF SpuriousWakeup, Move
  <1> QED
    BY <1>2, <1>3, <1>4, <1>5, <1>6, <1>7, <1>8 DEF Next, WorkerStep, Mutate

\* Every step keeps the types, and the count of the parked workers.
LEMMA TypeStep ==
    ASSUME TypeOK, ParkedCount, [Next]_vars
    PROVE  TypeOK' /\ ParkedCount'
  <1>1. ASSUME UNCHANGED vars PROVE TypeOK'
    BY <1>1 DEF vars, TypeOK, polling, buckets, goals, mutators, bounds
  <1>2. ASSUME NEW w \in Workers, SpuriousWakeup(w) PROVE TypeOK'
    BY <1>2, SMT DEF SpuriousWakeup, Move, TypeOK, WorkerStates, polling, buckets,
                goals, mutators, bounds
  <1>3. TypeOK'
    BY <1>1, <1>2, TypePoll, TypeSpawn, TypeExecute, TypePark, TypeMutate
       DEF Next, WorkerStep, Mutate
  <1> QED
    BY <1>3, ParkedStep

(***************************************************************************)
(* The scheduler's variables keep their types, and parked_workers is the   *)
(* number of parked workers (WorkerParker, worker_monitor.rs:51-88): it    *)
(* never underflows and never exceeds worker_count.                        *)
(***************************************************************************)
THEOREM TypeCorrect == Spec => [](TypeOK /\ ParkedCount)
  <1>1. Init => TypeOK /\ ParkedCount
    <2>1. ASSUME Init PROVE ParkedWorkers = {}
      BY <2>1 DEF Init, ParkedWorkers
    <2> QED
      BY <2>1, TypeInit, FS_EmptySet DEF Init, ParkedCount
  <1>2. TypeOK /\ ParkedCount /\ [Next]_vars => TypeOK' /\ ParkedCount'
    BY TypeStep
  <1> QED
    BY <1>1, <1>2, PTL DEF Spec
-----------------------------------------------------------------------------
(***************************************************************************)
(* What a step of each kind leaves alone.                                  *)
(***************************************************************************)
Polling == {"own", "scan", "steal"}

\* Every worker but w goes on as before, except that it may be notified.
OthersStay(w) ==
    \A v \in Workers \ {w} :
        \/ wpc'[v] = wpc[v]
        \/ wpc[v] = "waiting" /\ wpc'[v] = "woken"

\* A worker that polls or executes a packet neither parks nor leaves, and the
\* goals are none of its business.
LEMMA BusyFrame ==
    ASSUME TypeOK, NEW w \in Workers, Poll(w) \/ Spawn(w) \/ Execute(w)
    PROVE  /\ UNCHANGED <<parked, current, requests, group>>
           /\ wpc[w] \in Polling \cup Executing
           /\ wpc'[w] \in Polling \cup Executing \cup {"park"}
           /\ OthersStay(w)
           /\ \A m \in Mutators :
                 \/ mpc'[m] = mpc[m]
                 \/ mpc[m] = "running" /\ mpc'[m] = "stopped"
  <1> USE DEF TypeOK, Polling, Executing, OthersStay, polling, buckets, goals,
              mutators, bounds
  <1>1. CASE Poll(w)
    BY <1>1
       DEF Poll, PollDesignated, PollLocal, PollOwnEmpty, PollBucket,
           PollBucketEmpty, Steal, StealEmpty, PollFailed, Take, Move
  <1>2. CASE Spawn(w)
    <2>1. ASSUME NEW s \in Stages, AddToBucket(w, s)
          PROVE  wpc'[w] = "body" /\ OthersStay(w)
      <3>1. PICK S \in SUBSET Waiting : MoveAndNotify(w, "body", S)
        BY <2>1, NotifyOneWaiting DEF AddToBucket
      <3> QED
        BY <3>1 DEF MoveAndNotify, Waiting
    <2> QED
      BY <1>2, <2>1
         DEF Spawn, AddToBucket, AddToLocal, SetSentinel, AddDesignated, Postpone
  <1>3. CASE Execute(w)
    <2>1. CASE ScheduleCollection(w)
      <3>1. PICK S \in SUBSET Waiting : MoveAndNotify(w, "body", S)
        BY <2>1, NotifyOneWaiting DEF ScheduleCollection
      <3> QED
        BY <2>1, <3>1 DEF ScheduleCollection, MoveAndNotify, Waiting
    <2>2. CASE NotifyMutatorsPaused(w)
      BY <2>2 DEF NotifyMutatorsPaused, MoveAndNotify, Waiting
    <2> QED
      BY <1>3, <2>1, <2>2
         DEF Execute, FinishPacket, StopAllMutators, OpenFirstBucket,
             CheckSecondBucket, OpenSecondBucket, Move
  <1> QED
    BY <1>1, <1>2, <1>3

\* A mutator's step moves no worker, unless it respawns them all, opens no
\* bucket and changes no goal.
LEMMA MutateFrame ==
    ASSUME TypeOK, NEW m \in Mutators, Mutate(m)
    PROVE  /\ UNCHANGED <<polling, buckets, parked, current, in_gc_pause>>
           /\ ~Respawn(m) => OthersStay(NoWorker)
           /\ \A n \in Mutators \ {m} : mpc'[n] = mpc[n]
           /\ ~Quiet(m) \/ Respawn(m)
  <1> USE DEF TypeOK, OthersStay, Quiet, polling, buckets, goals, mutators,
              bounds
  <1>1. ASSUME NEW goal, MakeRequest(goal)
        PROVE  OthersStay(NoWorker)
    <2>1. PICK S \in SUBSET Waiting : NotifyWorkers(S)
      BY <1>1, NotifyOneWaiting DEF MakeRequest
    <2> QED
      BY <2>1 DEF NotifyWorkers, Waiting
  <1> QED
    BY <1>1
       DEF Mutate, MutatorStep, LoadRequestFlag, SwapRequestFlag, RequestGC,
           FlushBarrier, PrepareSurrenderBuffer, RequestStopForFork, Respawn

\* The last parked worker is right: all the others are parked.
LEMMA LastParked ==
    ASSUME TypeOK, ParkedCount, NEW w \in Workers, AllParkedWith(w)
    PROVE  \A v \in Workers \ {w} : wpc[v] \in {"waiting", "woken"}
  <1>1. ParkedWorkers \subseteq Workers \ {w}
    BY DEF ParkedWorkers, AllParkedWith
  <1>2. /\ IsFiniteSet(Workers \ {w})
        /\ Cardinality(Workers \ {w}) = Cardinality(Workers) - 1
        /\ Cardinality(Workers) \in Nat
    BY SchedulerAssumption, FS_RemoveElement, FS_CardinalityType
  <1>3. Cardinality(ParkedWorkers) = Cardinality(Workers \ {w})
    BY <1>2, SMT DEF ParkedCount, AllParkedWith, TypeOK
  <1>4. ParkedWorkers = Workers \ {w}
    BY <1>1, <1>2, <1>3, FS_Subset
  <1> QED
    BY <1>4 DEF ParkedWorkers

\* A worker that is not the last one to park leaves another one behind.
LEMMA NotLastParked ==
    ASSUME TypeOK, ParkedCount, NEW w \in Workers, ParkNotLast(w)
    PROVE  \E v \in Workers \ {w} : wpc[v] \notin {"waiting", "woken"}
  <1> SUFFICES ASSUME \A v \in Workers \ {w} : wpc[v] \in {"waiting", "woken"}
               PROVE  FALSE
    OBVIOUS
  <1>1. ParkedWorkers = Workers \ {w}
    BY DEF ParkedWorkers, ParkNotLast
  <1>2. /\ Cardinality(Workers \ {w}) = Cardinality(Workers) - 1
        /\ Cardinality(Workers) \in Nat
    BY SchedulerAssumption, FS_RemoveElement, FS_CardinalityType
  <1> QED
    BY <1>1, <1>2, SMT DEF ParkedCount, ParkNotLast, TypeOK
-----------------------------------------------------------------------------
(***************************************************************************)
(* The goals.                                                              *)
(***************************************************************************)
\* What respond_to_requests does once all the workers are parked.
LEMMA Responded ==
    ASSUME TypeOK, ParkedCount, NEW w \in Workers, AllParkedWith(w),
           NEW S \in SUBSET Waiting, NEW pk, RespondToRequests(w, S, pk)
    PROVE  /\ current' = PollNextGoal(requests)
           /\ requests' = requests \ {current'}
           /\ current' = NoGoal <=> requests = {}
           /\ current' \in requests \cup {NoGoal}
           /\ current' = GoalGc =>
                 wpc'[w] = "own" /\ packet' = [pk EXCEPT ![SC] = InBucket(Unconstrained)]
           /\ current' # GoalGc => packet' = pk
           /\ current' = GoalStopForFork =>
                 /\ wpc'[w] = "exiting"
                 /\ \A v \in Workers \ {w} : wpc'[v] = "woken"
           /\ current' = NoGoal => wpc'[w] = "waiting"
           /\ \A v \in Workers \ {w} : wpc'[v] \in {"waiting", "woken"}
           /\ OthersStay(w)
  <1>1. \A v \in Workers \ {w} : wpc[v] \in {"waiting", "woken"}
    BY LastParked
  <1>2. /\ current' = PollNextGoal(requests)
        /\ requests' = requests \ {current'}
        /\ current' = NoGoal <=> requests = {}
        /\ current' \in requests \cup {NoGoal}
    BY GoalTypes DEF RespondToRequests, TypeOK
  <1>3. current' \in {GoalGc, GoalStopForFork, NoGoal}
    BY <1>2 DEF TypeOK, Goals
  <1>4. CASE current' = GoalGc
    BY <1>1, <1>2, <1>4 DEF RespondToRequests, MoveAndNotify, OthersStay, Waiting,
                       TypeOK, GoalGc, GoalStopForFork, NoGoal
  <1>5. CASE current' = GoalStopForFork
    BY <1>1, <1>2, <1>5 DEF RespondToRequests, MoveAndNotify, OthersStay, Waiting,
                       TypeOK, GoalGc, GoalStopForFork, NoGoal
  <1>6. CASE current' = NoGoal
    BY <1>1, <1>2, <1>6 DEF RespondToRequests, MoveAndNotify, OthersStay, Waiting,
                       TypeOK, GoalGc, GoalStopForFork, NoGoal
  <1> QED
    BY <1>3, <1>4, <1>5, <1>6

\* Every step preserves ForkProtocol.
LEMMA ForkProtocolStep ==
    ASSUME SchedulerInv, TypeOK', [Next]_vars
    PROVE  ForkProtocol'
  <1> USE DEF SchedulerInv, ForkProtocol, Forking, Leaving, AllLeaving
  <1>1. ASSUME NEW w \in Workers, Poll(w) \/ Spawn(w) \/ Execute(w)
        PROVE  ForkProtocol'
    BY <1>1, BusyFrame, SMT DEF Polling, Executing, OthersStay
  <1>2. ASSUME NEW w \in Workers, ParkNotLast(w) PROVE ForkProtocol'
    BY <1>2 DEF ParkNotLast, Move, TypeOK, goals, mutators
  <1>3. ASSUME NEW w \in Workers, wpc[w] = "park", WakeAll(w),
               UNCHANGED <<goals, mutators, group>>
        PROVE  ForkProtocol'
    BY <1>3 DEF WakeAll, MoveAndNotify, Waiting, TypeOK, goals, mutators
  <1>4. ASSUME NEW w \in Workers, AllParkedWith(w), UNCHANGED group,
               NEW S \in SUBSET Waiting, NEW pk, RespondToRequests(w, S, pk),
               \A m \in Mutators : Forking(m)' <=> Forking(m),
               \A m \in Mutators : mpc'[m] = "forking" <=> mpc[m] = "forking"
        PROVE  ForkProtocol'
    <2>1. \A v \in Workers : ~Leaving(v)
      BY <1>4, LastParked DEF AllParkedWith
    <2>2. /\ current' = NoGoal <=> requests = {}
          /\ requests' = requests \ {current'}
          /\ current' \in requests \cup {NoGoal}
      BY <1>4, Responded
    <2>3. CASE current' # GoalStopForFork
      <3>1. \A v \in Workers : ~Leaving(v)'
        <4>1. current' \in {GoalGc, NoGoal}
          BY <2>3 DEF TypeOK, Goals
        <4>2. wpc'[w] \in {"own", "waiting"}
          BY <1>4, <4>1, Responded
        <4> QED
          BY <1>4, <4>2, Responded
      <3> QED
        BY <1>4, <2>2, <2>3, <3>1 DEF GoalStopForFork, NoGoal
    <2>4. CASE current' = GoalStopForFork
      <3>1. /\ wpc'[w] = "exiting"
            /\ \A v \in Workers \ {w} : wpc'[v] = "woken"
        BY <1>4, <2>4, Responded
      <3>2. GoalStopForFork \in requests /\ GoalStopForFork \notin requests'
        BY <2>2, <2>4 DEF GoalStopForFork, NoGoal
      <3> QED
        BY <1>4, <2>4, <3>1, <3>2
    <2> QED
      BY <2>3, <2>4
  <1>5. ASSUME NEW w \in Workers, LastParkedIdle(w) PROVE ForkProtocol'
    <2>1. AllParkedWith(w) /\ RespondToRequests(w, {}, packet)
      BY <1>5 DEF LastParkedIdle
    <2> QED
      BY <1>4, <1>5, <2>1 DEF LastParkedIdle, mutators
  <1>6. ASSUME NEW w \in Workers, OnGCFinished(w) PROVE ForkProtocol'
    <2> DEFINE S == IF PostponedPackets = {} THEN {} ELSE Waiting
    <2>1. AllParkedWith(w) /\ \E pk : RespondToRequests(w, S, pk)
      BY <1>6 DEF OnGCFinished
    <2>2. S \in SUBSET Waiting
      OBVIOUS
    <2>3. /\ \A m \in Mutators : Forking(m)' <=> Forking(m)
          /\ \A m \in Mutators : mpc'[m] = "forking" <=> mpc[m] = "forking"
          /\ UNCHANGED group
      BY <1>6 DEF OnGCFinished, TypeOK
    <2> HIDE DEF S
    <2> QED
      BY <1>4, <2>1, <2>2, <2>3
  <1>7. ASSUME NEW w \in Workers, Unpark(w) PROVE ForkProtocol'
    BY <1>7 DEF Unpark, Move, TypeOK, goals, mutators
  <1>8. ASSUME NEW w \in Workers, Surrender(w) PROVE ForkProtocol'
    BY <1>8 DEF Surrender, Move, TypeOK, mutators, NoGoal, GoalStopForFork
  <1>9. ASSUME NEW w \in Workers, SpuriousWakeup(w) PROVE ForkProtocol'
    BY <1>9 DEF SpuriousWakeup, Move, TypeOK, goals, mutators
  <1>10. ASSUME NEW m \in Mutators, PrepareSurrenderBuffer(m)
         PROVE  ForkProtocol'
    BY <1>10 DEF PrepareSurrenderBuffer, TypeOK, goals
  <1>11. ASSUME NEW m \in Mutators, RequestStopForFork(m) PROVE ForkProtocol'
    <2>1. OthersStay(NoWorker)
      BY <1>11, MutateFrame
         DEF Mutate, MutatorStep, RequestStopForFork, Respawn
    <2>2. /\ mpc[m] = "forking" /\ mpc' = [mpc EXCEPT ![m] = "forkwait"]
          /\ requests' = requests \cup {GoalStopForFork}
          /\ UNCHANGED <<current, group>>
      BY <1>11 DEF RequestStopForFork, MakeRequest, SetRequest
    <2> QED
      BY <2>1, <2>2, SchedulerAssumption DEF OthersStay, TypeOK
  <1>12. ASSUME NEW m \in Mutators, Respawn(m) PROVE ForkProtocol'
    <2>1. \A w \in Workers : wpc[w] = "exited" /\ wpc'[w] = "own"
      BY <1>12 DEF Respawn
    <2>2. /\ mpc[m] = "forkwait" /\ mpc' = [mpc EXCEPT ![m] = "running"]
          /\ UNCHANGED <<current, requests>>
      BY <1>12 DEF Respawn, goals
    <2>3. current # GoalStopForFork
      BY <2>1
    <2>4. GoalStopForFork \notin requests
      BY <2>1, SchedulerAssumption
    <2> QED
      BY <2>1, <2>2, <2>3, <2>4 DEF TypeOK
  <1>13. ASSUME NEW m \in Mutators,
                LoadRequestFlag(m) \/ SwapRequestFlag(m) \/ RequestGC(m) \/ FlushBarrier(m)
         PROVE  ForkProtocol'
    <2>1. OthersStay(NoWorker)
      BY <1>13, MutateFrame
         DEF Mutate, MutatorStep, LoadRequestFlag, SwapRequestFlag, RequestGC,
             FlushBarrier, Respawn
    <2>2. /\ \A n \in Mutators : Forking(n)' <=> Forking(n)
          /\ \A n \in Mutators : mpc'[n] = "forking" <=> mpc[n] = "forking"
          /\ UNCHANGED <<current, group>>
          /\ requests' \in {requests, requests \cup {GoalGc}}
      BY <1>13
         DEF LoadRequestFlag, SwapRequestFlag, RequestGC, FlushBarrier,
             MakeRequest, SetRequest, TypeOK, goals, mutators
    <2> QED
      BY <2>1, <2>2, SchedulerAssumption, SMT
         DEF OthersStay, GoalGc, GoalStopForFork
  <1>14. CASE UNCHANGED vars
    BY <1>14 DEF vars, goals, mutators
  <1> QED
    BY <1>1, <1>2, <1>3, <1>5, <1>6, <1>7, <1>8, <1>9, <1>10, <1>11, <1>12,
       <1>13, <1>14
       DEF Next, WorkerStep, ParkAndWait, MutatorStep, FindDesignatedWork,
           ScheduleSentinels, UpdateBuckets, AllParkedWith

\* What the last parked worker knows (the comment of worker_monitor.rs:197-202):
\* nothing is running, nothing is available, and if the goal is a GC the
\* mutators have been stopped for it.
LEMMA AtLastPark ==
    ASSUME SchedulerInv, NEW w \in Workers, AllParkedWith(w)
    PROVE  /\ \A p \in Packets : packet[p].at \notin {"exec", "local"}
           /\ \A p \in Packets :
                 packet[p].at = "bucket" => packet[p].stage \notin active
           /\ packet[SC].at = "free" /\ packet[SM].at = "free"
           /\ current \in {GoalGc, NoGoal}
           /\ current = GoalGc => FirstSTW \in active /\ in_gc_pause
           /\ ~Starting
  <1> USE DEF SchedulerInv
  <1>1. wpc[w] = "park" /\ \A v \in Workers \ {w} : wpc[v] \in {"waiting", "woken"}
    BY LastParked DEF AllParkedWith
  <1>2. \A p \in Packets : packet[p].at \notin {"exec", "local"}
    BY <1>1 DEF Ownership, Executing
  <1>3. \A p \in Packets : packet[p].at = "bucket" => packet[p].stage \notin active
    <2> SUFFICES ASSUME NEW p \in Packets, packet[p].at = "bucket",
                        packet[p].stage \in active
                 PROVE  FALSE
      OBVIOUS
    <2>1. packet[p].stage \notin disabled
      BY DEF Staging, PacketDone
    <2>2. ~AllParked /\ ~AllLeaving
      BY <1>1 DEF AllParked, AllLeaving
    <2>3. \A v \in Workers : ~WillSee(v, packet[p].stage)
      BY <1>1 DEF WillSee, Executing
    <2> QED
      BY <2>1, <2>2, <2>3 DEF Visibility
  <1>4. packet[SC].at = "free" /\ packet[SM].at = "free"
    BY <1>2, <1>3, SchedulerAssumption DEF Roles
  <1>5. ~Starting
    BY <1>4 DEF Starting
  <1>6. current = GoalGc => FirstSTW \in active
    BY <1>4, <1>5 DEF Phases
  <1>7. current = GoalGc => in_gc_pause
    BY <1>6, SMT DEF World, FirstSTW, Unconstrained
  <1>8. current # GoalStopForFork
    BY <1>1 DEF ForkProtocol, AllLeaving
  <1> QED
    BY <1>2, <1>3, <1>4, <1>5, <1>6, <1>7, <1>8 DEF TypeOK, Goals

\* A packet that stops the mutators belongs to a GC.
LEMMA StoppingIsGC ==
    ASSUME SchedulerInv, packet[SM].at = "exec"
    PROVE  current = GoalGc
  BY DEF SchedulerInv, Phases

\* The bucket opened by notify_mutators_paused, and the state it is opened in.
LEMMA OpeningFirst ==
    ASSUME SchedulerInv, NEW w \in Workers, OpenFirstBucket(w)
    PROVE  current = GoalGc /\ in_gc_pause /\ FirstSTW \notin active
  BY StoppingIsGC DEF OpenFirstBucket, SchedulerInv, Phases, StopDone

\* Past the first bucket, the worker that executes StopMutators is in a pause
\* whose first bucket is open.
LEMMA OpeningSecond ==
    ASSUME SchedulerInv, NEW w \in Workers, wpc[w] \in {"check", "second", "notify"}
    PROVE  /\ packet[SM].at = "exec" /\ packet[SM].by = w
           /\ current = GoalGc /\ in_gc_pause /\ FirstSTW \in active
  <1>1. packet[SM].at = "exec" /\ packet[SM].by = w
    BY DEF SchedulerInv, Roles
  <1>2. StopDone /\ wpc[packet[SM].by] # "body"
    BY <1>1 DEF StopDone
  <1> QED
    BY <1>1, <1>2, StoppingIsGC DEF SchedulerInv, Phases

\* Every step preserves World: buckets of a pause are open only in a pause.
LEMMA WorldStep ==
    ASSUME SchedulerInv, TypeOK', [Next]_vars
    PROVE  World'
  <1> USE DEF World, Quiet
  <1> World /\ TypeOK
    BY DEF SchedulerInv
  <1>1. ASSUME UNCHANGED <<active, in_gc_pause, current, mpc>> PROVE World'
    BY <1>1
  <1>2. ASSUME NEW w \in Workers, Poll(w) \/ Spawn(w) \/ FinishPacket(w)
                  \/ ScheduleCollection(w) \/ CheckSecondBucket(w)
                  \/ NotifyMutatorsPaused(w)
        PROVE  World'
    BY <1>1, <1>2
       DEF Poll, PollDesignated, PollLocal, PollOwnEmpty, PollBucket,
           PollBucketEmpty, Steal, StealEmpty, PollFailed, Spawn, AddToBucket,
           AddToLocal, SetSentinel, AddDesignated, Postpone, FinishPacket,
           ScheduleCollection, CheckSecondBucket, NotifyMutatorsPaused,
           polling, buckets, goals, mutators, bounds
  <1>3. ASSUME NEW w \in Workers, StopAllMutators(w) PROVE World'
    BY <1>3, StoppingIsGC DEF StopAllMutators, TypeOK, buckets, goals
  <1>4. ASSUME NEW w \in Workers, OpenFirstBucket(w) PROVE World'
    BY <1>4, OpeningFirst DEF OpenFirstBucket, goals
  <1>5. ASSUME NEW w \in Workers, OpenSecondBucket(w) PROVE World'
    BY <1>5, OpeningSecond DEF OpenSecondBucket, goals, mutators
  <1>6. ASSUME NEW w \in Workers, UpdateBuckets(w) PROVE World'
    BY <1>6, AtLastPark DEF UpdateBuckets, goals, mutators
  <1>7. ASSUME NEW w \in Workers, LastParkedIdle(w) PROVE World'
    <2>1. ~in_gc_pause
      BY <1>7 DEF LastParkedIdle, GoalGc, NoGoal
    <2> QED
      BY <1>7, <2>1 DEF LastParkedIdle, buckets, mutators
  <1>8. ASSUME NEW w \in Workers, OnGCFinished(w) PROVE World'
    BY <1>8 DEF OnGCFinished
  <1>9. ASSUME NEW w \in Workers, Surrender(w) PROVE World'
    <2>1. current # GoalGc
      BY <1>9 DEF Surrender, SchedulerInv, ForkProtocol, Leaving, GoalGc,
                  GoalStopForFork, NoGoal
    <2> QED
      BY <1>9, <2>1 DEF Surrender, buckets, mutators
  <1>10. ASSUME NEW w \in Workers,
                ParkNotLast(w) \/ FindDesignatedWork(w) \/ ScheduleSentinels(w)
                  \/ Unpark(w) \/ SpuriousWakeup(w)
         PROVE  World'
    BY <1>1, <1>10
       DEF ParkNotLast, FindDesignatedWork, ScheduleSentinels, Unpark,
           SpuriousWakeup, buckets, goals, mutators
  <1>11. ASSUME NEW m \in Mutators, Mutate(m) PROVE World'
    <2>1. ~in_gc_pause
      <3>1. CASE Respawn(m)
        <4>1. \E w \in Workers : Leaving(w)
          BY <3>1, SchedulerAssumption DEF Respawn, Leaving
        <4> QED
          BY <4>1 DEF SchedulerInv, ForkProtocol, GoalGc, GoalStopForFork, NoGoal
      <3>2. CASE ~Respawn(m)
        BY <1>11, <3>2, MutateFrame
      <3> QED
        BY <3>1, <3>2
    <2> QED
      BY <1>11, <2>1, MutateFrame DEF buckets
  <1>12. CASE UNCHANGED vars
    BY <1>1, <1>12 DEF vars, buckets, goals, mutators
  <1> QED
    BY <1>2, <1>3, <1>4, <1>5, <1>6, <1>7, <1>8, <1>9, <1>10, <1>11, <1>12
       DEF Next, WorkerStep, Execute, ParkAndWait, Mutate

\* Every step preserves RequestProtocol.
LEMMA RequestProtocolStep ==
    ASSUME SchedulerInv, TypeOK', [Next]_vars
    PROVE  RequestProtocol'
  <1> USE DEF RequestProtocol
  <1> RequestProtocol /\ TypeOK /\ World
    BY DEF SchedulerInv
  <1>1. ASSUME UNCHANGED <<request_flag, current, requests>>,
               FirstSTW \in active' <=> FirstSTW \in active,
               \A m \in Mutators : mpc'[m] = "flagged" <=> mpc[m] = "flagged"
        PROVE  RequestProtocol'
    BY <1>1
  <1>2. ASSUME NEW w \in Workers, Poll(w) \/ Spawn(w) \/ FinishPacket(w)
                  \/ ScheduleCollection(w) \/ StopAllMutators(w)
                  \/ CheckSecondBucket(w) \/ NotifyMutatorsPaused(w)
        PROVE  RequestProtocol'
    <2>1. UNCHANGED <<active, request_flag>>
      BY <1>2
         DEF Poll, PollDesignated, PollLocal, PollOwnEmpty, PollBucket,
             PollBucketEmpty, Steal, StealEmpty, PollFailed, Spawn, AddToBucket,
             AddToLocal, SetSentinel, AddDesignated, Postpone, FinishPacket,
             ScheduleCollection, StopAllMutators, CheckSecondBucket,
             NotifyMutatorsPaused, buckets, mutators
    <2>2. /\ UNCHANGED <<current, requests>>
          /\ \A m \in Mutators : mpc'[m] = "flagged" <=> mpc[m] = "flagged"
      BY <1>2, BusyFrame DEF Execute
    <2> QED
      BY <1>1, <2>1, <2>2
  <1>3. ASSUME NEW w \in Workers, OpenFirstBucket(w) PROVE RequestProtocol'
    BY <1>3, OpeningFirst DEF OpenFirstBucket, goals
  <1>4. ASSUME NEW w \in Workers, OpenSecondBucket(w) PROVE RequestProtocol'
    BY <1>1, <1>4, SMT DEF OpenSecondBucket, FirstSTW, SecondSTW, goals, mutators
  <1>5. ASSUME NEW w \in Workers, UpdateBuckets(w) PROVE RequestProtocol'
    BY <1>1, <1>5 DEF UpdateBuckets, Opened, BucketsToOpen, goals, mutators
  <1>6. ASSUME NEW w \in Workers, AllParkedWith(w), FirstSTW \notin active',
               UNCHANGED request_flag,
               NEW S \in SUBSET Waiting, NEW pk, RespondToRequests(w, S, pk),
               \A m \in Mutators : mpc'[m] = "flagged" <=> mpc[m] = "flagged"
        PROVE  RequestProtocol'
    <2>1. /\ requests' = requests \ {current'}
          /\ current' \in requests \cup {NoGoal}
      BY <1>6, Responded DEF SchedulerInv
    <2> QED
      BY <1>6, <2>1 DEF GoalGc, NoGoal
  <1>7. ASSUME NEW w \in Workers, LastParkedIdle(w) PROVE RequestProtocol'
    <2>1. AllParkedWith(w) /\ RespondToRequests(w, {}, packet)
      BY <1>7 DEF LastParkedIdle
    <2>2. FirstSTW \notin active
      BY <1>7, SMT DEF LastParkedIdle, SchedulerInv, Phases, GoalGc, NoGoal,
                  FirstSTW, Unconstrained
    <2> QED
      BY <1>6, <1>7, <2>1, <2>2 DEF LastParkedIdle, buckets, mutators
  <1>8. ASSUME NEW w \in Workers, OnGCFinished(w) PROVE RequestProtocol'
    <2> DEFINE S == IF PostponedPackets = {} THEN {} ELSE Waiting
    <2>1. AllParkedWith(w) /\ \E pk : RespondToRequests(w, S, pk)
      BY <1>8 DEF OnGCFinished
    <2>2. S \in SUBSET Waiting
      OBVIOUS
    <2>3. /\ \A m \in Mutators : mpc'[m] = "flagged" <=> mpc[m] = "flagged"
          /\ UNCHANGED request_flag
          /\ FirstSTW \notin active'
      BY <1>8, SMT DEF OnGCFinished, TypeOK, FirstSTW, Unconstrained
    <2> HIDE DEF S
    <2> QED
      BY <1>6, <2>1, <2>2, <2>3
  <1>9. ASSUME NEW w \in Workers, Surrender(w) PROVE RequestProtocol'
    BY <1>9 DEF Surrender, buckets, mutators, GoalGc, NoGoal
  <1>10. ASSUME NEW w \in Workers,
                ParkNotLast(w) \/ FindDesignatedWork(w) \/ ScheduleSentinels(w)
                  \/ Unpark(w) \/ SpuriousWakeup(w)
         PROVE  RequestProtocol'
    BY <1>1, <1>10
       DEF ParkNotLast, FindDesignatedWork, ScheduleSentinels, Unpark,
           SpuriousWakeup, buckets, goals, mutators
  <1>11. ASSUME NEW m \in Mutators, SwapRequestFlag(m) PROVE RequestProtocol'
    <2>1. FirstSTW \notin active
      BY <1>11, SMT DEF SwapRequestFlag, World, Quiet, FirstSTW, Unconstrained
    <2> QED
      BY <1>11, <2>1 DEF SwapRequestFlag, TypeOK, buckets, goals
  <1>12. ASSUME NEW m \in Mutators, RequestGC(m) PROVE RequestProtocol'
    <2>1. FirstSTW \notin active
      BY <1>12, SMT DEF RequestGC, World, Quiet, FirstSTW, Unconstrained
    <2> QED
      BY <1>12, <2>1 DEF RequestGC, MakeRequest, SetRequest, TypeOK, buckets
  <1>13. ASSUME NEW m \in Mutators, RequestStopForFork(m) PROVE RequestProtocol'
    BY <1>13 DEF RequestStopForFork, MakeRequest, SetRequest, TypeOK, buckets,
                 GoalGc, GoalStopForFork
  <1>14. ASSUME NEW m \in Mutators,
                LoadRequestFlag(m) \/ FlushBarrier(m)
                  \/ PrepareSurrenderBuffer(m) \/ Respawn(m)
         PROVE  RequestProtocol'
    BY <1>1, <1>14
       DEF LoadRequestFlag, FlushBarrier, PrepareSurrenderBuffer, Respawn,
           TypeOK, buckets, goals, mutators
  <1>15. CASE UNCHANGED vars
    BY <1>1, <1>15 DEF vars, buckets, goals, mutators
  <1> QED
    BY <1>2, <1>3, <1>4, <1>5, <1>7, <1>8, <1>9, <1>10, <1>11, <1>12, <1>13,
       <1>14, <1>15
       DEF Next, WorkerStep, Execute, ParkAndWait, MutatorStep

-----------------------------------------------------------------------------
(***************************************************************************)
(* Where packets go, their owners, and the packets that start a pause.     *)
(***************************************************************************)

\* The fields of a packet's place.
LEMMA AtFields ==
    \A place, w, s : /\ At(place, w, s).at = place
                     /\ At(place, w, s).by = w
                     /\ At(place, w, s).stage = s
  BY DEF At

\* A worker that finds a packet in a bucket executes it, and may take others
\* of that bucket along.
LEMMA TakenFromBucket ==
    ASSUME TypeOK, NEW w \in Workers, PollBucket(w)
    PROVE  /\ cursor[w] \in active /\ cursor[w] \notin disabled
           /\ \E p \in Packets :
                /\ packet[p].at = "bucket" /\ packet[p].stage = cursor[w]
                /\ packet'[p] = At("exec", w, packet[p].stage)
                /\ \A q \in Packets \ {p} :
                      \/ packet'[q] = packet[q]
                      \/ /\ packet[q].at = "bucket" /\ packet[q].stage = cursor[w]
                         /\ packet'[q] = At("local", w, packet[q].stage)
                /\ wpc'[w] = IF p \in {SC, SM} THEN "begin" ELSE "body"
           /\ \A v \in Workers \ {w} : wpc'[v] = wpc[v]
  <1>1. cursor[w] \in active /\ cursor[w] \notin disabled
    BY DEF PollBucket, CanPoll
  <1>2. PICK p \in Bucket(cursor[w]) :
           \E batch \in SUBSET (Bucket(cursor[w]) \ {p}) :
              /\ Take(w, p)
              /\ packet' = [q \in Packets |->
                    IF q = p THEN Executed(w, p)
                    ELSE IF q \in batch THEN At("local", w, packet[q].stage)
                    ELSE packet[q]]
    BY DEF PollBucket
  <1>3. p \in Packets /\ packet[p].at = "bucket" /\ packet[p].stage = cursor[w]
    BY <1>2 DEF Bucket
  <1>4. packet'[p] = At("exec", w, packet[p].stage)
    BY <1>2, <1>3 DEF Executed
  <1>5. \A q \in Packets \ {p} :
           \/ packet'[q] = packet[q]
           \/ /\ packet[q].at = "bucket" /\ packet[q].stage = cursor[w]
              /\ packet'[q] = At("local", w, packet[q].stage)
    BY <1>2, <1>3 DEF Bucket
  <1>6. /\ wpc'[w] = IF p \in {SC, SM} THEN "begin" ELSE "body"
        /\ \A v \in Workers \ {w} : wpc'[v] = wpc[v]
    BY <1>2 DEF Take, Move, TypeOK
  <1> QED
    BY <1>1, <1>3, <1>4, <1>5, <1>6

\* A worker that finds a packet in its own queues, or steals one, executes it.
LEMMA TakenFromWorker ==
    ASSUME TypeOK, NEW w \in Workers, PollDesignated(w) \/ PollLocal(w) \/ Steal(w)
    PROVE  /\ wpc[w] \in {"own", "steal"}
           /\ \E p \in Packets :
                /\ packet[p].at \in {"local", "designated"}
                /\ packet'[p] = At("exec", w, packet[p].stage)
                /\ \A q \in Packets \ {p} : packet'[q] = packet[q]
                /\ wpc'[w] = IF p \in {SC, SM} THEN "begin" ELSE "body"
           /\ \A v \in Workers \ {w} : wpc'[v] = wpc[v]
  <1>1. PICK p \in Packets :
           /\ packet[p].at \in {"local", "designated"}
           /\ wpc[w] \in {"own", "steal"}
           /\ Take(w, p)
           /\ packet' = [packet EXCEPT ![p] = Executed(w, p)]
    BY DEF PollDesignated, PollLocal, Steal, Designated, Local
  <1>2. /\ packet'[p] = At("exec", w, packet[p].stage)
        /\ \A q \in Packets \ {p} : packet'[q] = packet[q]
    BY <1>1 DEF TypeOK, Executed
  <1>3. /\ wpc'[w] = IF p \in {SC, SM} THEN "begin" ELSE "body"
        /\ \A v \in Workers \ {w} : wpc'[v] = wpc[v]
    BY <1>1 DEF Take, Move, TypeOK
  <1> QED
    BY <1>1, <1>2, <1>3

\* Where a packet that executes puts a new packet.
NewPlace(w, place) ==
    \/ place = Postponed
    \/ \E s \in Stages : MayAddTo(s) /\ place = InBucket(s)
    \/ \E s \in active : MayAddTo(s) /\ place = At("local", w, s)
    \/ \E s \in active, v \in Workers :
          NotBeforeOpen(s) /\ s > SecondSTW /\ place = At("designated", v, s)
    \/ \E s \in Stages \ active :
          /\ MayAddTo(s) /\ place = At("sentinel", NoWorker, s)
          /\ packet[SC].at = "exec" /\ packet[SC].by = w

\* A packet that executes makes one new packet at a time.
LEMMA Spawned ==
    ASSUME TypeOK, NEW w \in Workers, Spawn(w)
    PROVE  /\ \E p \in WorkPackets :
                 /\ packet[p] = Free /\ NewPlace(w, packet'[p])
                 /\ \A q \in Packets \ {p} : packet'[q] = packet[q]
           /\ wpc[w] = "body" /\ wpc'[w] = "body"
           /\ UNCHANGED <<cursor, buckets, mutators>>
  <1> USE DEF TypeOK, FreePackets, WorkPackets
  <1>1. ASSUME NEW p \in WorkPackets, NEW place, NewPlace(w, place),
               packet[p] = Free, packet' = [packet EXCEPT ![p] = place]
        PROVE  \E q \in WorkPackets :
                 /\ packet[q] = Free /\ NewPlace(w, packet'[q])
                 /\ \A r \in Packets \ {q} : packet'[r] = packet[r]
    <2>1. packet'[p] = place /\ \A r \in Packets \ {p} : packet'[r] = packet[r]
      BY <1>1
    <2> QED
      BY <1>1, <2>1
  <1> DEFINE Made == \E p \in WorkPackets : \E place :
                        /\ NewPlace(w, place) /\ packet[p] = Free
                        /\ packet' = [packet EXCEPT ![p] = place]
  <1>2. Made
    <2>1. ASSUME NEW s \in Stages, AddToBucket(w, s) \/ AddToLocal(w, s) \/ SetSentinel(w, s)
          PROVE  Made
      BY <2>1 DEF AddToBucket, AddToLocal, SetSentinel, NewPlace
    <2>2. ASSUME NEW v \in Workers, AddDesignated(w, v) PROVE Made
      BY <2>2 DEF AddDesignated, NewPlace
    <2>3. CASE Postpone(w)
      BY <2>3 DEF Postpone, NewPlace
    <2> QED
      BY <2>1, <2>2, <2>3 DEF Spawn
  <1>3. /\ wpc[w] = "body" /\ wpc'[w] = "body"
        /\ UNCHANGED <<cursor, buckets, mutators>>
    BY DEF Spawn, AddToBucket, AddToLocal, SetSentinel, AddDesignated, Postpone,
           MoveAndNotify, polling
  <1>4. \E p \in WorkPackets :
          /\ packet[p] = Free /\ NewPlace(w, packet'[p])
          /\ \A q \in Packets \ {p} : packet'[q] = packet[q]
    BY <1>1, <1>2
  <1> QED
    BY <1>3, <1>4

\* Every step preserves Ownership.
LEMMA OwnershipStep ==
    ASSUME SchedulerInv, TypeOK', [Next]_vars
    PROVE  Ownership'
  <1> Ownership /\ TypeOK
    BY DEF SchedulerInv
  \* No packet starts or stops being executed or local.
  <1>1. ASSUME OthersStay(NoWorker), UNCHANGED packet PROVE Ownership'
    BY <1>1, SchedulerAssumption, SMT DEF OthersStay, Ownership, Executing
  <1>2. ASSUME NEW w \in Workers, PollDesignated(w) \/ PollLocal(w) \/ Steal(w)
        PROVE  Ownership'
    <2>1. PICK p \in Packets :
             /\ packet[p].at \in {"local", "designated"}
             /\ packet'[p] = At("exec", w, packet[p].stage)
             /\ \A q \in Packets \ {p} : packet'[q] = packet[q]
             /\ wpc'[w] = IF p \in {SC, SM} THEN "begin" ELSE "body"
      BY <1>2, TakenFromWorker
    <2>2. packet'[p].at = "exec" /\ packet'[p].by = w
      BY <2>1, AtFields, SMT
    <2>3. /\ wpc[w] \in {"own", "steal"} /\ wpc'[w] \in {"begin", "body"}
          /\ \A v \in Workers \ {w} : wpc'[v] = wpc[v]
      BY <1>2, <2>1, TakenFromWorker
    <2> QED
      BY <2>1, <2>2, <2>3, SMT DEF Ownership, Executing
  <1>3. ASSUME NEW w \in Workers, PollBucket(w) PROVE Ownership'
    <2>1. PICK p \in Packets :
             /\ packet[p].at = "bucket" /\ packet[p].stage = cursor[w]
             /\ packet'[p] = At("exec", w, packet[p].stage)
             /\ \A q \in Packets \ {p} :
                   \/ packet'[q] = packet[q]
                   \/ /\ packet[q].at = "bucket" /\ packet[q].stage = cursor[w]
                      /\ packet'[q] = At("local", w, packet[q].stage)
             /\ wpc'[w] = IF p \in {SC, SM} THEN "begin" ELSE "body"
      BY <1>3, TakenFromBucket
    <2>2. /\ wpc[w] = "scan" /\ wpc'[w] \in {"begin", "body"}
          /\ \A v \in Workers \ {w} : wpc'[v] = wpc[v]
      BY <1>3, <2>1, TakenFromBucket DEF PollBucket
    <2>3. /\ packet'[p].at = "exec" /\ packet'[p].by = w
          /\ \A q \in Packets \ {p} :
                \/ packet'[q] = packet[q]
                \/ /\ packet[q].at = "bucket"
                   /\ packet'[q].at = "local" /\ packet'[q].by = w
      BY <2>1, AtFields, SMT
    <2> QED
      BY <2>1, <2>2, <2>3, SMT DEF Ownership, Executing
  <1>4. ASSUME NEW w \in Workers, PollOwnEmpty(w) PROVE Ownership'
    <2>1. /\ wpc[w] = "own" /\ wpc'[w] = "scan" /\ UNCHANGED packet
          /\ \A v \in Workers \ {w} : wpc'[v] = wpc[v]
      BY <1>4 DEF PollOwnEmpty, Move, TypeOK
    <2>2. \A p \in Packets : ~(packet[p].at = "local" /\ packet[p].by = w)
      BY <1>4 DEF PollOwnEmpty, Local
    <2> QED
      BY <2>1, <2>2, SMT DEF Ownership, Executing
  <1>5. ASSUME NEW w \in Workers, PollBucketEmpty(w) \/ StealEmpty(w) \/ PollFailed(w)
        PROVE  Ownership'
    <2>1. /\ wpc[w] \in {"scan", "steal"} /\ wpc'[w] \in {"scan", "steal", "park"}
          /\ UNCHANGED packet
          /\ \A v \in Workers \ {w} : wpc'[v] = wpc[v]
      BY <1>5 DEF PollBucketEmpty, StealEmpty, PollFailed, Move, TypeOK
    <2> QED
      BY <2>1, SMT DEF Ownership, Executing
  <1>6. ASSUME NEW w \in Workers, Spawn(w) PROVE Ownership'
    <2>1. PICK p \in WorkPackets :
             /\ packet[p] = Free /\ NewPlace(w, packet'[p])
             /\ \A q \in Packets \ {p} : packet'[q] = packet[q]
      BY <1>6, Spawned
    <2>2. p \in Packets /\ packet[p].at = "free"
      BY <2>1, AtFields, SMT DEF Free, WorkPackets
    <2>3. /\ packet'[p].at # "exec"
          /\ packet'[p].at \in {"local", "designated"} => packet'[p].by \in Workers
          /\ packet'[p].at = "local" => packet'[p].by = w
      BY <2>1, AtFields, SMT DEF NewPlace, Postponed, InBucket
    <2>4. wpc[w] = "body" /\ wpc'[w] = "body"
      BY <1>6, Spawned
    <2>5. \A v \in Workers \ {w} :
             \/ wpc'[v] = wpc[v]
             \/ wpc[v] = "waiting" /\ wpc'[v] = "woken"
      BY <1>6, BusyFrame DEF OthersStay
    <2> QED
      BY <2>1, <2>2, <2>3, <2>4, <2>5, SMT DEF Ownership, Executing
  <1>7. ASSUME NEW w \in Workers, FinishPacket(w) PROVE Ownership'
    <2>1. PICK p \in Packets :
             /\ packet[p].at = "exec" /\ packet[p].by = w
             /\ packet' = [packet EXCEPT ![p] = Free]
      BY <1>7 DEF FinishPacket
    <2>2. packet'[p].at = "free" /\ \A q \in Packets \ {p} : packet'[q] = packet[q]
      BY <2>1, AtFields, SMT DEF Free, TypeOK
    <2>3. wpc'[w] = "own" /\ \A v \in Workers \ {w} : wpc'[v] = wpc[v]
      BY <1>7 DEF FinishPacket, Move, TypeOK
    <2> QED
      BY <2>1, <2>2, <2>3, SMT DEF Ownership, Executing
  <1>8. ASSUME NEW w \in Workers, ScheduleCollection(w) PROVE Ownership'
    <2>1. packet[SM].at # "exec"
      BY <1>8 DEF ScheduleCollection, SchedulerInv, Phases, Starting
    <2>2. packet'[SM].at = "bucket" /\ \A q \in Packets \ {SM} : packet'[q] = packet[q]
      BY <1>8, SchedulerAssumption, AtFields, SMT DEF ScheduleCollection, InBucket, TypeOK
    <2>3. wpc[w] = "begin" /\ wpc'[w] = "body" /\ OthersStay(w)
      BY <1>8, BusyFrame DEF ScheduleCollection, MoveAndNotify, Execute
    <2> QED
      BY <2>1, <2>2, <2>3, SMT DEF OthersStay, Ownership, Executing
  <1>9. ASSUME NEW w \in Workers, StopAllMutators(w) \/ OpenFirstBucket(w)
                  \/ CheckSecondBucket(w) \/ OpenSecondBucket(w)
        PROVE  Ownership'
    <2>1. /\ wpc[w] \in Executing /\ wpc'[w] \in Executing /\ UNCHANGED packet
          /\ \A v \in Workers \ {w} : wpc'[v] = wpc[v]
      BY <1>9 DEF StopAllMutators, OpenFirstBucket, CheckSecondBucket,
                  OpenSecondBucket, Executing, Move, TypeOK
    <2> QED
      BY <2>1 DEF Ownership
  <1>10. ASSUME NEW w \in Workers, NotifyMutatorsPaused(w) PROVE Ownership'
    <2>1. packet[SM].at = "exec" /\ packet[SM].by = w
      BY <1>10, OpeningSecond DEF NotifyMutatorsPaused
    <2>2. packet'[SM].at = "free" /\ \A q \in Packets \ {SM} : packet'[q] = packet[q]
      BY <1>10, SchedulerAssumption, AtFields, SMT DEF NotifyMutatorsPaused, Free, TypeOK
    <2>3. wpc'[w] = "own" /\ OthersStay(w)
      BY <1>10, BusyFrame DEF NotifyMutatorsPaused, MoveAndNotify, Execute
    <2> QED
      BY <2>1, <2>2, <2>3, SchedulerAssumption, SMT DEF OthersStay, Ownership, Executing
  <1>11. ASSUME NEW w \in Workers, ParkNotLast(w) \/ Unpark(w) \/ Surrender(w)
                  \/ SpuriousWakeup(w)
         PROVE  Ownership'
    <2>1. /\ wpc[w] \in {"park", "waiting", "woken", "exiting"}
          /\ wpc'[w] \in {"waiting", "woken", "own", "exiting", "exited"}
          /\ UNCHANGED packet
          /\ \A v \in Workers \ {w} : wpc'[v] = wpc[v]
      BY <1>11 DEF ParkNotLast, Unpark, Surrender, SpuriousWakeup, Move, TypeOK
    <2> QED
      BY <2>1, SMT DEF Ownership, Executing
  \* The last parked worker: nothing is being executed or local.
  <1>12. ASSUME NEW w \in Workers, AllParkedWith(w),
                \A p \in Packets : packet'[p] = packet[p] \/ packet'[p].at = "bucket",
                \A v \in Workers : wpc'[v] \notin Executing
         PROVE  Ownership'
    BY <1>12, AtLastPark, SMT DEF Ownership
  <1>13. ASSUME NEW w \in Workers, FindDesignatedWork(w) \/ ScheduleSentinels(w)
                  \/ UpdateBuckets(w)
         PROVE  Ownership'
    <2>1. AllParkedWith(w) /\ WakeAll(w)
      BY <1>13 DEF FindDesignatedWork, ScheduleSentinels, UpdateBuckets
    <2>2. \A v \in Workers \ {w} : wpc[v] \in {"waiting", "woken"}
      BY <2>1, LastParked DEF SchedulerInv
    <2>3. \A v \in Workers : wpc'[v] \in {"own", "waiting", "woken"}
      BY <2>1, <2>2 DEF WakeAll, MoveAndNotify
    <2>4. \A p \in Packets : packet'[p] = packet[p] \/ packet'[p].at = "bucket"
      BY <1>13, SMT DEF FindDesignatedWork, ScheduleSentinels, UpdateBuckets,
                   SentinelsQueued, InBucket, At
    <2> QED
      BY <1>12, <2>1, <2>3, <2>4 DEF Executing
  <1>14. ASSUME NEW w \in Workers, AllParkedWith(w), NEW S \in SUBSET Waiting,
                NEW pk \in [Packets -> PacketStates], RespondToRequests(w, S, pk),
                \A p \in Packets : pk[p] = packet[p] \/ pk[p].at = "bucket"
         PROVE  Ownership'
    <2>1. \A v \in Workers : wpc'[v] \notin Executing
      <3>1. \A v \in Workers \ {w} : wpc'[v] \in {"waiting", "woken"}
        BY <1>14, Responded DEF SchedulerInv
      <3>2. wpc'[w] \in {"own", "exiting", "waiting"}
        <4>1. current' \in {GoalGc, GoalStopForFork, NoGoal}
          BY DEF TypeOK, Goals
        <4> QED
          BY <1>14, <4>1, Responded DEF SchedulerInv
      <3> QED
        BY <3>1, <3>2 DEF Executing
    <2>2. ParkedCount
      BY DEF SchedulerInv
    <2>3. packet' = pk \/ packet' = [pk EXCEPT ![SC] = InBucket(Unconstrained)]
      BY <1>14, <2>2, Responded
    <2>4. \A p \in Packets : packet'[p] = pk[p] \/ packet'[p].at = "bucket"
      BY <1>14, <2>3, SMT DEF InBucket, At
    <2> QED
      BY <1>12, <1>14, <2>1, <2>4
  <1>15. ASSUME NEW w \in Workers, LastParkedIdle(w) PROVE Ownership'
    <2>1. AllParkedWith(w) /\ RespondToRequests(w, {}, packet)
      BY <1>15 DEF LastParkedIdle
    <2> QED
      BY <1>14, <2>1 DEF TypeOK
  <1>16. ASSUME NEW w \in Workers, OnGCFinished(w) PROVE Ownership'
    <2> DEFINE S == IF PostponedPackets = {} THEN {} ELSE Waiting
               pk == [p \in Packets |-> IF p \in PostponedPackets
                                        THEN InBucket(Unconstrained) ELSE packet[p]]
    <2>1. AllParkedWith(w) /\ RespondToRequests(w, S, pk)
      BY <1>16 DEF OnGCFinished
    <2>2. S \in SUBSET Waiting
      OBVIOUS
    <2>3. InBucket(Unconstrained) \in PacketStates
      BY LastStageAssumption, SMT
         DEF InBucket, At, PacketStates, Places, Unconstrained, Stages
    <2>4. /\ pk \in [Packets -> PacketStates]
          /\ \A p \in Packets : pk[p] = packet[p] \/ pk[p].at = "bucket"
      BY <2>3 DEF InBucket, At, TypeOK
    <2> HIDE DEF S, pk
    <2> QED
      BY <1>14, <2>1, <2>2, <2>4
  <1>17. ASSUME NEW m \in Mutators, Respawn(m) PROVE Ownership'
    BY <1>17 DEF Respawn, Ownership, Executing
  <1>18. ASSUME NEW m \in Mutators, FlushBarrier(m) PROVE Ownership'
    <2>1. PICK p \in Packets :
             /\ packet[p] = Free
             /\ packet' \in {[packet EXCEPT ![p] = InBucket(SecondSTW)],
                             [packet EXCEPT ![p] = Postponed]}
      BY <1>18 DEF FlushBarrier, FreePackets, WorkPackets
    <2>2. /\ packet[p].at = "free" /\ packet'[p].at \in {"bucket", "postponed"}
          /\ \A q \in Packets \ {p} : packet'[q] = packet[q]
      BY <2>1, AtFields, SMT DEF Free, InBucket, Postponed, TypeOK
    <2>3. UNCHANGED wpc
      BY <1>18 DEF FlushBarrier
    <2> QED
      BY <2>1, <2>2, <2>3, SMT DEF Ownership, Executing
  <1>19. ASSUME NEW m \in Mutators, Mutate(m), ~Respawn(m), ~FlushBarrier(m)
         PROVE  Ownership'
    <2>1. UNCHANGED packet
      BY <1>19 DEF Mutate, MutatorStep, LoadRequestFlag, SwapRequestFlag,
                   RequestGC, PrepareSurrenderBuffer, RequestStopForFork
    <2> QED
      BY <1>1, <1>19, <2>1, MutateFrame
  <1>20. CASE UNCHANGED vars
    BY <1>20 DEF vars, Ownership
  <1> QED
    BY <1>2, <1>3, <1>4, <1>5, <1>6, <1>7, <1>8, <1>9, <1>10, <1>11, <1>13,
       <1>15, <1>16, <1>17, <1>18, <1>19, <1>20
       DEF Next, WorkerStep, Poll, Execute, ParkAndWait, Mutate
-----------------------------------------------------------------------------
(***************************************************************************)
(* The packets that start a collection.                                    *)
(***************************************************************************)
\* A worker other than w executes what it did before and is where it was.
LEMMA OthersExecute ==
    ASSUME NEW w, OthersStay(w)
    PROVE  \A v \in Workers \ {w} :
              /\ wpc[v] \in Executing \/ wpc'[v] \in Executing => wpc'[v] = wpc[v]
  BY DEF OthersStay, Executing

\* While the collection starts no packet but SC can be taken.
LEMMA StartingAlone ==
    ASSUME SchedulerInv, Starting, NEW p \in Packets \ {SC}
    PROVE  /\ packet[p].at \notin {"exec", "local", "designated", "sentinel"}
           /\ packet[p].at = "bucket" => packet[p].stage \notin active
  BY SMT DEF SchedulerInv, Phases, PacketDone, SecondSTW, Unconstrained

\* So no worker executes anything but SC.
LEMMA StartingIdle ==
    ASSUME SchedulerInv, Starting, NEW w \in Workers, wpc[w] \in Executing
    PROVE  packet[SC].at = "exec" /\ packet[SC].by = w /\ wpc[w] = "begin"
  <1>1. PICK p \in Packets : packet[p].at = "exec" /\ packet[p].by = w
    BY DEF SchedulerInv, Ownership
  <1>2. p = SC
    BY <1>1, StartingAlone
  <1> QED
    BY <1>1, <1>2 DEF Starting

\* How a step of the last parked worker on a GC moves packets.
LEMMA SentinelsMoved ==
    ASSUME TypeOK, NEW w \in Workers,
           FindDesignatedWork(w) \/ ScheduleSentinels(w) \/ UpdateBuckets(w)
    PROVE  \A p \in Packets :
              \/ packet'[p] = packet[p]
              \/ /\ packet[p].at = "sentinel"
                 /\ packet'[p] = At("bucket", NoWorker, packet[p].stage)
  BY DEF FindDesignatedWork, ScheduleSentinels, UpdateBuckets, SentinelsQueued,
         InBucket

\* How a write barrier flushes a buffer.
LEMMA Flushed ==
    ASSUME TypeOK, NEW m \in Mutators, FlushBarrier(m)
    PROVE  /\ \E p \in WorkPackets :
                 /\ packet[p] = Free
                 /\ packet'[p] \in {InBucket(SecondSTW), Postponed}
                 /\ \A q \in Packets \ {p} : packet'[q] = packet[q]
           /\ mpc[m] = "running" /\ UNCHANGED <<wpc, cursor, buckets, goals, mutators>>
  <1>1. PICK p \in FreePackets :
           packet' \in {[packet EXCEPT ![p] = InBucket(SecondSTW)],
                        [packet EXCEPT ![p] = Postponed]}
    BY DEF FlushBarrier
  <1>2. p \in WorkPackets /\ packet[p] = Free /\ p \in Packets
    BY DEF FreePackets, WorkPackets
  <1>3. /\ packet'[p] \in {InBucket(SecondSTW), Postponed}
        /\ \A q \in Packets \ {p} : packet'[q] = packet[q]
    BY <1>1, <1>2 DEF TypeOK
  <1>4. mpc[m] = "running" /\ UNCHANGED <<wpc, cursor, buckets, goals, mutators>>
    BY DEF FlushBarrier, polling
  <1> QED
    BY <1>2, <1>3, <1>4

\* The packets that mutators do not touch.
LEMMA MutatePackets ==
    ASSUME NEW m \in Mutators, Mutate(m), ~FlushBarrier(m)
    PROVE  UNCHANGED packet
  BY DEF Mutate, MutatorStep, LoadRequestFlag, SwapRequestFlag, RequestGC,
         PrepareSurrenderBuffer, RequestStopForFork, Respawn

\* What the end of a GC does to the packets; all of them turn out to be free
\* or postponed.
EndPackets ==
    [p \in Packets |-> IF p \in PostponedPackets
                       THEN InBucket(Unconstrained) ELSE packet[p]]

\* A request for a GC waits while mutators run, so there is none at the end
\* of a GC.
LEMMA EndOfGC ==
    ASSUME SchedulerInv, TypeOK', NEW w \in Workers, OnGCFinished(w)
    PROVE  /\ AllParkedWith(w) /\ current = GoalGc
           /\ current' \in {NoGoal, GoalStopForFork}
           /\ packet' = EndPackets
           /\ active' = {Unconstrained} /\ disabled' = {} /\ progress' = 0
           /\ wpc'[w] \in {"waiting", "exiting"}
           /\ \A v \in Workers \ {w} : wpc'[v] \in {"waiting", "woken"}
  <1> DEFINE S == IF PostponedPackets = {} THEN {} ELSE Waiting
  <1>1. /\ AllParkedWith(w) /\ current = GoalGc
        /\ RespondToRequests(w, S, EndPackets)
        /\ active' = {Unconstrained} /\ disabled' = {} /\ progress' = 0
    BY DEF OnGCFinished, EndPackets
  <1>2. S \in SUBSET Waiting
    OBVIOUS
  <1>3. GoalGc \notin requests
    BY <1>1, AtLastPark DEF SchedulerInv, RequestProtocol
  <1> HIDE DEF S
  <1>4. TypeOK /\ ParkedCount
    BY DEF SchedulerInv
  <1>5. current' \in requests \cup {NoGoal}
    BY <1>1, <1>2, <1>4, Responded
  <1>6. current' \in {NoGoal, GoalStopForFork}
    BY <1>3, <1>4, <1>5 DEF TypeOK, Goals
  <1>7. current' # GoalGc
    BY <1>6 DEF GoalGc, NoGoal, GoalStopForFork
  <1>8. packet' = EndPackets
    BY <1>1, <1>2, <1>4, <1>7, Responded
  <1>9. /\ wpc'[w] \in {"waiting", "exiting"}
        /\ \A v \in Workers \ {w} : wpc'[v] \in {"waiting", "woken"}
    BY <1>1, <1>2, <1>4, <1>6, Responded
  <1> QED
    BY <1>1, <1>6, <1>8, <1>9

\* What the last parked worker does when there is no goal.
LEMMA Idle ==
    ASSUME SchedulerInv, TypeOK', NEW w \in Workers, LastParkedIdle(w)
    PROVE  /\ AllParkedWith(w) /\ current = NoGoal
           /\ UNCHANGED <<polling, buckets, mutators, group>>
           /\ current' = GoalGc =>
                 /\ packet' = [packet EXCEPT ![SC] = InBucket(Unconstrained)]
                 /\ wpc'[w] = "own"
           /\ current' # GoalGc =>
                 /\ UNCHANGED packet
                 /\ wpc'[w] \in {"waiting", "exiting"}
           /\ \A v \in Workers \ {w} : wpc'[v] \in {"waiting", "woken"}
  <1>1. /\ AllParkedWith(w) /\ current = NoGoal
        /\ RespondToRequests(w, {}, packet)
        /\ UNCHANGED <<polling, buckets, mutators, group>>
    BY DEF LastParkedIdle
  <1>2. TypeOK /\ ParkedCount
    BY DEF SchedulerInv
  <1>3. current' \in {GoalGc, NoGoal, GoalStopForFork}
    BY DEF TypeOK, Goals
  <1>4. {} \in SUBSET Waiting
    OBVIOUS
  <1> QED
    BY <1>1, <1>2, <1>3, <1>4, Responded
-----------------------------------------------------------------------------
\* Every step preserves Roles.
LEMMA RolesStep ==
    ASSUME SchedulerInv, TypeOK', [Next]_vars
    PROVE  Roles'
  <1> TypeOK /\ Ownership /\ Roles
    BY DEF SchedulerInv
  <1> SC \in Packets /\ SM \in Packets /\ SC # SM
    BY SchedulerAssumption
  <1>1. ASSUME NEW w \in Workers, PollDesignated(w) \/ PollLocal(w) \/ Steal(w)
        PROVE  Roles'
    <2>1. PICK p \in Packets :
             /\ packet[p].at \in {"local", "designated"}
             /\ packet'[p] = At("exec", w, packet[p].stage)
             /\ \A q \in Packets \ {p} : packet'[q] = packet[q]
             /\ wpc'[w] = IF p \in {SC, SM} THEN "begin" ELSE "body"
      BY <1>1, TakenFromWorker
    <2>2. /\ packet'[p].at = "exec" /\ packet'[p].by = w
          /\ packet'[p].stage = packet[p].stage
      BY <2>1, AtFields, SMT
    <2>3. wpc[w] \in {"own", "steal"} /\ \A v \in Workers \ {w} : wpc'[v] = wpc[v]
      BY <1>1, TakenFromWorker
    <2>4. \A q \in Packets : packet[q].at = "exec" => packet[q].by \in Workers \ {w}
      BY <2>3 DEF Ownership, Executing
    <2>5. UNCHANGED <<active, disabled>>
      BY <1>1 DEF PollDesignated, PollLocal, Steal, buckets
    <2> QED
      BY <2>1, <2>2, <2>3, <2>4, <2>5, SMT DEF Roles
  <1>2. ASSUME NEW w \in Workers, PollBucket(w) PROVE Roles'
    <2>1. PICK p \in Packets :
             /\ packet[p].at = "bucket" /\ packet[p].stage = cursor[w]
             /\ packet'[p] = At("exec", w, packet[p].stage)
             /\ \A q \in Packets \ {p} :
                   \/ packet'[q] = packet[q]
                   \/ /\ packet[q].at = "bucket" /\ packet[q].stage = cursor[w]
                      /\ packet'[q] = At("local", w, packet[q].stage)
             /\ wpc'[w] = IF p \in {SC, SM} THEN "begin" ELSE "body"
      BY <1>2, TakenFromBucket
    <2>2. /\ packet'[p].at = "exec" /\ packet'[p].by = w
          /\ packet'[p].stage = packet[p].stage
          /\ \A q \in Packets \ {p} :
                \/ packet'[q] = packet[q]
                \/ /\ packet[q].at = "bucket" /\ packet'[q].at = "local"
                   /\ packet'[q].stage = packet[q].stage
      BY <2>1, AtFields, SMT
    <2>3. wpc[w] = "scan" /\ \A v \in Workers \ {w} : wpc'[v] = wpc[v]
      BY <1>2, TakenFromBucket DEF PollBucket
    <2>4. \A q \in Packets : packet[q].at = "exec" => packet[q].by \in Workers \ {w}
      BY <2>3 DEF Ownership, Executing
    <2>5. UNCHANGED <<active, disabled>>
      BY <1>2 DEF PollBucket, buckets
    <2>6. p # SC => packet'[SC] = packet[SC]
      <3> SUFFICES ASSUME p # SC, packet[SC].at = "bucket" PROVE FALSE
        BY <2>1
      <3>1. packet[p].stage \in active
        BY <1>2, <2>1, TakenFromBucket
      <3> QED
        BY <2>1, <3>1, StartingAlone DEF Starting
    <2> QED
      BY <2>1, <2>2, <2>3, <2>4, <2>5, <2>6, SMT DEF Roles
  <1>3. ASSUME NEW w \in Workers, wpc[w] \notin Executing, OthersStay(w),
               UNCHANGED <<packet, active, disabled>>,
               wpc'[w] \notin Executing
        PROVE  Roles'
    <2>1. \A v \in Workers : wpc[v] \in Executing \/ wpc'[v] \in Executing => wpc'[v] = wpc[v]
      BY <1>3, OthersExecute, SMT
    <2>2. \A q \in Packets : packet[q].at = "exec" => packet[q].by \in Workers
      BY DEF Ownership
    <2> QED
      BY <1>3, <2>1, <2>2 DEF Roles, Executing
  <1>4. ASSUME NEW w \in Workers, PollOwnEmpty(w) \/ PollBucketEmpty(w)
                  \/ StealEmpty(w) \/ PollFailed(w)
        PROVE  Roles'
    <2>1. OthersStay(w)
      BY <1>4, BusyFrame DEF Poll
    <2>2. /\ wpc[w] \notin Executing /\ wpc'[w] \notin Executing
          /\ UNCHANGED <<packet, active, disabled>>
      BY <1>4 DEF PollOwnEmpty, PollBucketEmpty, StealEmpty, PollFailed, Move,
                  TypeOK, Executing, buckets
    <2> QED
      BY <1>3, <2>1, <2>2
  <1>5. ASSUME NEW w \in Workers, Spawn(w) PROVE Roles'
    <2>1. PICK p \in WorkPackets :
             /\ packet[p] = Free /\ NewPlace(w, packet'[p])
             /\ \A q \in Packets \ {p} : packet'[q] = packet[q]
      BY <1>5, Spawned
    <2>2. p \in Packets \ {SC, SM} /\ packet'[p].at # "exec"
      BY <2>1, AtFields, SMT DEF NewPlace, Postponed, InBucket, WorkPackets
    <2>3. wpc[w] = "body" /\ wpc'[w] = "body" /\ UNCHANGED <<active, disabled>>
      BY <1>5, Spawned DEF buckets
    <2>4. \A v \in Workers : wpc[v] \in Executing \/ wpc'[v] \in Executing => wpc'[v] = wpc[v]
      BY <1>5, <2>3, BusyFrame, OthersExecute
    <2>5. \A q \in Packets : packet[q].at = "exec" => packet[q].by \in Workers
      BY DEF Ownership
    <2> QED
      BY <2>1, <2>2, <2>3, <2>4, <2>5, SMT DEF Roles, Executing
  <1>6. ASSUME NEW w \in Workers, FinishPacket(w) PROVE Roles'
    <2>1. PICK p \in Packets \ {SM} :
             /\ packet[p].at = "exec" /\ packet[p].by = w
             /\ packet' = [packet EXCEPT ![p] = Free]
      BY <1>6 DEF FinishPacket
    <2>2. /\ packet'[p].at = "free" /\ packet'[p].stage = Unconstrained
          /\ \A q \in Packets \ {p} : packet'[q] = packet[q]
      BY <2>1, AtFields, SMT DEF Free, TypeOK
    <2>3. /\ wpc'[w] = "own" /\ \A v \in Workers \ {w} : wpc'[v] = wpc[v]
          /\ UNCHANGED <<active, disabled>>
      BY <1>6 DEF FinishPacket, Move, TypeOK, buckets
    <2> QED
      BY <2>1, <2>2, <2>3, SMT DEF Roles, Ownership
  <1>7. ASSUME NEW w \in Workers, ScheduleCollection(w) PROVE Roles'
    <2>1. Starting
      BY <1>7 DEF ScheduleCollection, Starting
    <2>2. /\ packet'[SM].at = "bucket" /\ packet'[SM].stage = Unconstrained
          /\ \A q \in Packets \ {SM} : packet'[q] = packet[q]
      BY <1>7, AtFields, SMT DEF ScheduleCollection, InBucket, TypeOK
    <2>3. /\ Unconstrained \notin disabled' /\ SecondSTW \notin disabled'
          /\ UNCHANGED active
      BY <1>7, SMT DEF ScheduleCollection, Unconstrained, FirstSTW, SecondSTW
    <2>4. wpc'[w] = "body" /\ OthersStay(w)
      BY <1>7, BusyFrame DEF ScheduleCollection, MoveAndNotify, Execute
    <2>5. \A v \in Workers \ {w} : wpc[v] \notin Executing /\ wpc'[v] \notin Executing
      BY <1>7, <2>1, <2>4, StartingIdle, OthersExecute DEF ScheduleCollection
    <2>6. \A q \in Packets : packet[q].at = "exec" => packet[q].by \in Workers
      BY DEF Ownership
    <2>7. packet[SM].at = "free"
      BY <2>1 DEF SchedulerInv, Phases
    <2> QED
      BY <2>2, <2>3, <2>4, <2>5, <2>6, <2>7 DEF Roles, Executing
  <1>8. ASSUME NEW w \in Workers, StopAllMutators(w) \/ OpenFirstBucket(w)
                  \/ CheckSecondBucket(w) \/ OpenSecondBucket(w)
        PROVE  Roles'
    <2>1. packet[SM].at = "exec" /\ packet[SM].by = w
      BY <1>8, OpeningSecond DEF StopAllMutators, OpenFirstBucket,
                                 CheckSecondBucket, OpenSecondBucket
    <2>2. /\ wpc'[w] # "begin" /\ UNCHANGED <<packet, disabled>>
          /\ active \subseteq active'
          /\ \A v \in Workers \ {w} : wpc'[v] = wpc[v]
      BY <1>8 DEF StopAllMutators, OpenFirstBucket, CheckSecondBucket,
                  OpenSecondBucket, Move, TypeOK, buckets
    <2>3. \A q \in Packets : packet[q].at = "exec" => packet[q].by \in Workers
      BY DEF Ownership
    <2> QED
      BY <2>1, <2>2, <2>3 DEF Roles
  <1>9. ASSUME NEW w \in Workers, NotifyMutatorsPaused(w) PROVE Roles'
    <2>1. packet[SM].at = "exec" /\ packet[SM].by = w
      BY <1>9, OpeningSecond DEF NotifyMutatorsPaused
    <2>2. /\ packet'[SM].at = "free" /\ packet'[SM].stage = Unconstrained
          /\ \A q \in Packets \ {SM} : packet'[q] = packet[q]
      BY <1>9, AtFields, SMT DEF NotifyMutatorsPaused, Free, TypeOK
    <2>3. wpc'[w] = "own" /\ OthersStay(w) /\ UNCHANGED <<active, disabled>>
      BY <1>9, BusyFrame DEF NotifyMutatorsPaused, MoveAndNotify, Execute, buckets
    <2>4. \A v \in Workers \ {w} : wpc'[v] \in Executing => wpc'[v] = wpc[v]
      BY <2>3, OthersExecute
    <2>5. \A q \in Packets : packet[q].at = "exec" => packet[q].by \in Workers
      BY DEF Ownership
    <2> QED
      BY <2>1, <2>2, <2>3, <2>4, <2>5, SMT DEF Roles, Executing
  <1>10. ASSUME NEW w \in Workers, ParkNotLast(w) \/ Unpark(w) \/ Surrender(w)
                  \/ SpuriousWakeup(w)
         PROVE  Roles'
    BY <1>3, <1>10 DEF ParkNotLast, Unpark, Surrender, SpuriousWakeup, Move,
                       TypeOK, Executing, OthersStay, buckets
  \* The last parked worker: nothing is executed before or after its step.
  <1>11. ASSUME NEW w \in Workers, AllParkedWith(w),
                \A v \in Workers : wpc'[v] \notin Executing,
                \A p \in Packets : packet'[p].at # "exec",
                /\ packet'[SC].at \in {"free", "bucket"}
                /\ packet'[SC].stage = Unconstrained,
                packet'[SM] = packet[SM],
                Unconstrained \in active',
                disabled' = disabled \/ disabled' = {}
         PROVE  Roles'
    BY <1>11 DEF Roles, Executing
  <1>12. ASSUME NEW w \in Workers, FindDesignatedWork(w) \/ ScheduleSentinels(w)
                  \/ UpdateBuckets(w)
         PROVE  Roles'
    <2>1. /\ AllParkedWith(w) /\ WakeAll(w) /\ active \subseteq active'
          /\ UNCHANGED disabled
      BY <1>12 DEF FindDesignatedWork, ScheduleSentinels, UpdateBuckets, buckets
    <2>2. \A v \in Workers \ {w} : wpc[v] \in {"waiting", "woken"}
      BY <2>1, LastParked DEF SchedulerInv
    <2>3. \A v \in Workers : wpc'[v] \in {"own", "waiting", "woken"}
      BY <2>1, <2>2 DEF WakeAll, MoveAndNotify
    <2>4. /\ \A p \in Packets : packet[p].at # "exec"
          /\ packet[SC].at = "free" /\ packet[SM].at = "free"
      BY <2>1, AtLastPark
    <2>5. \A p \in Packets : \/ packet'[p] = packet[p]
                             \/ packet[p].at = "sentinel" /\ packet'[p].at = "bucket"
      BY <1>12, SentinelsMoved, AtFields, SMT
    <2>6. packet'[SC] = packet[SC] /\ packet'[SM] = packet[SM]
      BY <2>4, <2>5
    <2> QED
      BY <1>11, <2>1, <2>3, <2>4, <2>5, <2>6 DEF Roles, Executing
  <1>13. ASSUME NEW w \in Workers, LastParkedIdle(w) PROVE Roles'
    <2>1. /\ AllParkedWith(w)
          /\ packet' \in {packet, [packet EXCEPT ![SC] = InBucket(Unconstrained)]}
          /\ wpc'[w] \in {"own", "waiting", "exiting"}
          /\ \A v \in Workers \ {w} : wpc'[v] \in {"waiting", "woken"}
          /\ UNCHANGED <<active, disabled>>
      BY <1>13, Idle DEF buckets
    <2>2. /\ \A p \in Packets : packet[p].at # "exec"
          /\ packet[SC].at = "free" /\ packet[SC].stage = Unconstrained
      BY <2>1, AtLastPark DEF Roles
    <2>3. \A p \in Packets : \/ packet'[p] = packet[p]
                             \/ /\ p = SC /\ packet'[p].at = "bucket"
                                /\ packet'[p].stage = Unconstrained
      BY <2>1, AtFields, SMT DEF InBucket, TypeOK
    <2> QED
      BY <1>11, <2>1, <2>2, <2>3 DEF Roles, Executing
  <1>14. ASSUME NEW w \in Workers, OnGCFinished(w) PROVE Roles'
    <2>1. /\ AllParkedWith(w) /\ packet' = EndPackets
          /\ active' = {Unconstrained} /\ disabled' = {}
          /\ wpc'[w] \in {"waiting", "exiting"}
          /\ \A v \in Workers \ {w} : wpc'[v] \in {"waiting", "woken"}
      BY <1>14, EndOfGC
    <2>2. /\ \A p \in Packets : packet[p].at # "exec"
          /\ packet[SC].at = "free" /\ packet[SM].at = "free"
      BY <2>1, AtLastPark
    <2>3. \A p \in Packets : IF packet[p].at = "postponed"
                             THEN packet'[p].at = "bucket"
                             ELSE packet'[p] = packet[p]
      BY <2>1, AtFields, SMT DEF EndPackets, PostponedPackets, InBucket
    <2> QED
      BY <1>11, <2>1, <2>2, <2>3 DEF Roles, Executing
  <1>15. ASSUME NEW m \in Mutators, FlushBarrier(m) PROVE Roles'
    <2>1. PICK p \in WorkPackets :
             /\ packet[p] = Free
             /\ packet'[p] \in {InBucket(SecondSTW), Postponed}
             /\ \A q \in Packets \ {p} : packet'[q] = packet[q]
      BY <1>15, Flushed
    <2>2. p \in Packets \ {SC, SM} /\ packet'[p].at # "exec"
      BY <2>1, AtFields, SMT DEF Postponed, InBucket, WorkPackets
    <2>3. UNCHANGED <<wpc, active, disabled>>
      BY <1>15, Flushed DEF buckets
    <2> QED
      BY <2>1, <2>2, <2>3 DEF Roles
  <1>16. ASSUME NEW m \in Mutators, Mutate(m), ~FlushBarrier(m) PROVE Roles'
    <2>1. UNCHANGED <<packet, active, disabled>>
      BY <1>16, MutatePackets, MutateFrame DEF buckets
    <2>2. \A v \in Workers : wpc'[v] \in Executing => wpc'[v] = wpc[v]
      <3>1. CASE Respawn(m)
        BY <3>1 DEF Respawn, Executing
      <3>2. CASE ~Respawn(m)
        BY <1>16, <3>2, MutateFrame, OthersExecute, SchedulerAssumption
      <3> QED
        BY <3>1, <3>2
    <2>3. \A q \in Packets : packet[q].at = "exec" => packet[q].by \in Workers
      BY DEF Ownership
    <2> QED
      BY <2>1, <2>2, <2>3 DEF Roles, Executing
  <1>17. CASE UNCHANGED vars
    BY <1>17 DEF vars, buckets, Roles
  <1> QED
    BY <1>1, <1>2, <1>4, <1>5, <1>6, <1>7, <1>8, <1>9, <1>10, <1>12, <1>13,
       <1>14, <1>15, <1>16, <1>17
       DEF Next, WorkerStep, Poll, Execute, ParkAndWait, Mutate
-----------------------------------------------------------------------------
TakesPacket(w) == PollDesignated(w) \/ PollLocal(w) \/ PollBucket(w) \/ Steal(w)

\* Packet p is taken by w, perhaps with others of the same bucket.
TakenBy(w, p) ==
    /\ packet[p].at \in {"local", "designated", "bucket"}
    /\ packet[p].at = "bucket" => packet[p].stage \in active
    /\ packet'[p].at = "exec" /\ packet'[p].by = w
    /\ packet'[p].stage = packet[p].stage
    /\ wpc'[w] = IF p \in {SC, SM} THEN "begin" ELSE "body"
    /\ \A q \in Packets \ {p} :
          \/ packet'[q] = packet[q]
          \/ /\ packet[q].at = "bucket" /\ packet[q].stage \in active
             /\ packet'[q].at = "local" /\ packet'[q].stage = packet[q].stage

\* A worker whose poll succeeds executes the packet it found.
LEMMA Taken ==
    ASSUME SchedulerInv, NEW w \in Workers, TakesPacket(w)
    PROVE  /\ \E p \in Packets : TakenBy(w, p)
           /\ \A v \in Workers \ {w} : wpc'[v] = wpc[v]
           /\ \A q \in Packets :
                 packet[q].at = "exec" => packet[q].by \in Workers \ {w}
           /\ UNCHANGED <<current, buckets, in_gc_pause>>
  <1>1. TypeOK /\ Ownership
    BY DEF SchedulerInv
  <1>2. CASE PollBucket(w)
    <2>1. cursor[w] \in active
      BY <1>1, <1>2, TakenFromBucket
    <2>2. PICK p \in Packets :
             /\ packet[p].at = "bucket" /\ packet[p].stage = cursor[w]
             /\ packet'[p] = At("exec", w, packet[p].stage)
             /\ \A q \in Packets \ {p} :
                   \/ packet'[q] = packet[q]
                   \/ /\ packet[q].at = "bucket" /\ packet[q].stage = cursor[w]
                      /\ packet'[q] = At("local", w, packet[q].stage)
             /\ wpc'[w] = IF p \in {SC, SM} THEN "begin" ELSE "body"
      BY <1>1, <1>2, TakenFromBucket
    <2>3. TakenBy(w, p)
      BY <2>1, <2>2, AtFields, SMT DEF TakenBy
    <2>4. wpc[w] \notin Executing /\ UNCHANGED <<current, buckets, in_gc_pause>>
      BY <1>2 DEF PollBucket, Executing, goals, mutators
    <2> QED
      BY <1>1, <1>2, <2>3, <2>4, TakenFromBucket DEF Ownership
  <1>3. CASE ~PollBucket(w)
    <2>1. PollDesignated(w) \/ PollLocal(w) \/ Steal(w)
      BY <1>3 DEF TakesPacket
    <2>2. PICK p \in Packets :
             /\ packet[p].at \in {"local", "designated"}
             /\ packet'[p] = At("exec", w, packet[p].stage)
             /\ \A q \in Packets \ {p} : packet'[q] = packet[q]
             /\ wpc'[w] = IF p \in {SC, SM} THEN "begin" ELSE "body"
      BY <1>1, <2>1, TakenFromWorker
    <2>3. TakenBy(w, p)
      BY <2>2, AtFields, SMT DEF TakenBy
    <2>4. wpc[w] \notin Executing /\ UNCHANGED <<current, buckets, in_gc_pause>>
      BY <2>1 DEF PollDesignated, PollLocal, Steal, Executing, goals, mutators
    <2> QED
      BY <1>1, <2>1, <2>3, <2>4, TakenFromWorker DEF Ownership
  <1> QED
    BY <1>2, <1>3

\* A step that leaves the collection in its phase preserves Phases.
LEMMA PhasesKept ==
    ASSUME Phases,
           UNCHANGED <<current, buckets, in_gc_pause>>,
           packet'[SM].at = "free" <=> packet[SM].at = "free",
           packet[SC].at = "free" => packet'[SC].at = "free",
           Starting' <=> Starting, StopPending' <=> StopPending,
           StopDone' <=> StopDone,
           StopDone => (wpc'[packet'[SM].by] = "body" <=> wpc[packet[SM].by] = "body"),
           Starting => \A p \in Packets \ {SC} :
                          \/ packet'[p].at \in {"free", "postponed"}
                          \/ packet'[p].at = "bucket" /\ packet'[p].stage = SecondSTW
    PROVE  Phases'
  BY DEF Phases, PacketDone, buckets

\* Workers that do not execute a packet do not matter.
LEMMA PhasesIdle ==
    ASSUME SchedulerInv, UNCHANGED <<packet, current, buckets, in_gc_pause>>,
           \A v \in Workers : wpc[v] \in Executing \/ wpc'[v] \in Executing =>
                                 wpc'[v] = wpc[v]
    PROVE  Phases'
  <1>1. Ownership /\ Phases /\ SC \in Packets /\ SM \in Packets
    BY SchedulerAssumption DEF SchedulerInv
  <1>2. \A q \in Packets : packet[q].at = "exec" => wpc'[packet[q].by] = wpc[packet[q].by]
    BY <1>1 DEF Ownership
  <1>3. /\ Starting' <=> Starting
        /\ StopPending' <=> StopPending
        /\ StopDone' <=> StopDone
    BY <1>1, <1>2 DEF Starting, StopPending, StopDone
  <1>4. StopDone => wpc'[packet[SM].by] = wpc[packet[SM].by]
    BY <1>1, <1>2 DEF StopDone
  <1>5. Starting => \A p \in Packets \ {SC} :
                       \/ packet[p].at \in {"free", "postponed"}
                       \/ packet[p].at = "bucket" /\ packet[p].stage = SecondSTW
    BY <1>1 DEF Phases, PacketDone
  <1> QED
    BY <1>1, <1>3, <1>4, <1>5, PhasesKept

\* Every step preserves Phases.
LEMMA PhasesStep ==
    ASSUME SchedulerInv, TypeOK', [Next]_vars
    PROVE  Phases'
  <1> TypeOK /\ Ownership /\ Roles /\ Phases
    BY DEF SchedulerInv
  <1> SC \in Packets /\ SM \in Packets /\ SC # SM
    BY SchedulerAssumption
  <1>1. ASSUME NEW w \in Workers, TakesPacket(w) PROVE Phases'
    <2>1. PICK p \in Packets : TakenBy(w, p)
      BY <1>1, Taken
    <2>2. /\ \A v \in Workers \ {w} : wpc'[v] = wpc[v]
          /\ \A q \in Packets : packet[q].at = "exec" => packet[q].by \in Workers \ {w}
          /\ UNCHANGED <<current, buckets, in_gc_pause>>
      BY <1>1, Taken
    <2>3. Starting => p = SC
      BY <2>1, StartingAlone DEF TakenBy
    <2>4. \A q \in Packets \ {SC} : Starting => packet'[q] = packet[q]
      BY <2>1, <2>3, StartingAlone DEF TakenBy
    <2>5. Starting' <=> Starting
      <3>1. CASE p = SC
        BY <2>1, <3>1 DEF TakenBy, Starting, Roles
      <3>2. CASE p # SC
        BY <2>1, <2>2, <2>3, <3>2 DEF TakenBy, Starting, Roles
      <3> QED
        BY <3>1, <3>2
    <2>6. /\ StopPending' <=> StopPending
          /\ StopDone' <=> StopDone
          /\ StopDone => /\ packet'[SM].by = packet[SM].by
                         /\ wpc'[packet[SM].by] = wpc[packet[SM].by]
      <3>1. CASE p = SM
        BY <2>1, <3>1 DEF TakenBy, StopPending, StopDone, Roles
      <3>2. CASE p # SM
        BY <2>1, <2>2, <3>2 DEF TakenBy, StopPending, StopDone
      <3> QED
        BY <3>1, <3>2
    <2>7. /\ packet'[SM].at = "free" <=> packet[SM].at = "free"
          /\ packet[SC].at = "free" => packet'[SC].at = "free"
      BY <2>1 DEF TakenBy
    <2>8. Starting => \A q \in Packets \ {SC} :
                         \/ packet'[q].at \in {"free", "postponed"}
                         \/ packet'[q].at = "bucket" /\ packet'[q].stage = SecondSTW
      BY <2>4 DEF Phases, PacketDone
    <2> QED
      BY <2>2, <2>5, <2>6, <2>7, <2>8, PhasesKept
  <1>2. ASSUME NEW w \in Workers, PollOwnEmpty(w) \/ PollBucketEmpty(w)
                  \/ StealEmpty(w) \/ PollFailed(w) \/ ParkNotLast(w)
                  \/ Unpark(w) \/ SpuriousWakeup(w)
        PROVE  Phases'
    <2>1. /\ wpc[w] \notin Executing /\ wpc'[w] \notin Executing
          /\ UNCHANGED <<packet, current, buckets, in_gc_pause>>
          /\ \A v \in Workers \ {w} : wpc'[v] = wpc[v]
      BY <1>2 DEF PollOwnEmpty, PollBucketEmpty, StealEmpty, PollFailed,
                  ParkNotLast, Unpark, SpuriousWakeup, Move, TypeOK, Executing,
                  buckets, goals, mutators
    <2> QED
      BY <2>1, PhasesIdle
  <1>3. ASSUME NEW w \in Workers, Spawn(w) PROVE Phases'
    <2>1. PICK p \in WorkPackets :
             /\ packet[p] = Free /\ NewPlace(w, packet'[p])
             /\ \A q \in Packets \ {p} : packet'[q] = packet[q]
      BY <1>3, Spawned
    <2>2. packet'[SC] = packet[SC] /\ packet'[SM] = packet[SM]
      BY <2>1 DEF WorkPackets
    <2>3. /\ wpc[w] = "body" /\ wpc'[w] = "body"
          /\ UNCHANGED <<buckets, in_gc_pause>>
      BY <1>3, Spawned DEF mutators
    <2>4. \A v \in Workers : wpc[v] \in Executing => wpc'[v] = wpc[v]
      BY <1>3, <2>3, BusyFrame, OthersExecute
    <2>5. \A q \in Packets : packet[q].at = "exec" => wpc'[packet[q].by] = wpc[packet[q].by]
      BY <2>4 DEF Ownership
    <2>6. ~Starting
      BY <2>3, StartingIdle DEF Executing
    <2>7. /\ Starting' <=> Starting
          /\ StopPending' <=> StopPending
          /\ StopDone' <=> StopDone
      BY <2>2, <2>5 DEF Starting, StopPending, StopDone
    <2>8. StopDone => wpc'[packet[SM].by] = wpc[packet[SM].by]
      BY <2>5 DEF StopDone
    <2>9. UNCHANGED current
      BY <1>3, BusyFrame
    <2> QED
      BY <2>2, <2>3, <2>6, <2>7, <2>8, <2>9, PhasesKept
  <1>4. ASSUME NEW w \in Workers, FinishPacket(w) PROVE Phases'
    <2>1. PICK p \in Packets \ {SM} :
             /\ packet[p].at = "exec" /\ packet[p].by = w
             /\ packet' = [packet EXCEPT ![p] = Free]
      BY <1>4 DEF FinishPacket
    <2>2. packet'[p].at = "free" /\ \A q \in Packets \ {p} : packet'[q] = packet[q]
      BY <2>1, AtFields, SMT DEF Free, TypeOK
    <2>3. /\ wpc[w] = "body" /\ UNCHANGED <<current, buckets, in_gc_pause>>
          /\ \A v \in Workers \ {w} : wpc'[v] = wpc[v]
      BY <1>4 DEF FinishPacket, Move, TypeOK, goals, mutators
    <2>4. ~Starting
      BY <2>3, StartingIdle DEF Executing
    <2>5. \A q \in Packets \ {p} : packet[q].at = "exec" =>
             wpc'[packet[q].by] = wpc[packet[q].by]
      BY <2>1, <2>3 DEF Ownership
    <2>6. /\ ~Starting'
          /\ StopPending' <=> StopPending
          /\ StopDone' <=> StopDone
          /\ StopDone => wpc'[packet[SM].by] = wpc[packet[SM].by]
      BY <2>1, <2>2, <2>4, <2>5 DEF Starting, StopPending, StopDone
    <2>7. packet'[SM] = packet[SM] /\ (packet[SC].at = "free" => packet'[SC].at = "free")
      BY <2>1, <2>2
    <2> QED
      BY <2>3, <2>4, <2>6, <2>7, PhasesKept
  <1>5. ASSUME NEW w \in Workers, ScheduleCollection(w) PROVE Phases'
    <2>1. Starting
      BY <1>5 DEF ScheduleCollection, Starting
    <2>2. /\ packet'[SM].at = "bucket" /\ packet'[SC] = packet[SC]
          /\ packet[SC].at = "exec" /\ packet[SC].by = w
          /\ wpc'[w] = "body" /\ UNCHANGED <<current, in_gc_pause>>
      BY <1>5, AtFields, SMT
         DEF ScheduleCollection, InBucket, MoveAndNotify, TypeOK, goals, mutators
    <2>3. current = GoalGc /\ ~in_gc_pause
      BY <2>1, <2>2 DEF Phases
    <2>4. ~Starting' /\ ~StopDone' /\ packet'[SM].at # "free"
      BY <2>2 DEF Starting, StopDone
    <2> QED
      BY <2>2, <2>3, <2>4 DEF Phases
  <1>6. ASSUME NEW w \in Workers, StopAllMutators(w) PROVE Phases'
    <2>1. /\ packet[SM].at = "exec" /\ packet[SM].by = w /\ wpc[w] = "begin"
          /\ wpc'[w] = "body" /\ in_gc_pause'
          /\ UNCHANGED <<packet, buckets, current>>
          /\ \A v \in Workers \ {w} : wpc'[v] = wpc[v]
      BY <1>6 DEF StopAllMutators, Move, TypeOK, goals
    <2>2. ~in_gc_pause
      BY <2>1 DEF Phases, StopPending
    <2>3. FirstSTW \notin active
      BY <2>2, SMT DEF SchedulerInv, World, FirstSTW, Unconstrained
    <2>4. current = GoalGc
      BY <2>1, StoppingIsGC
    <2>5. packet[SC].at = "exec" => packet[SC].by \in Workers \ {w}
      BY <2>1 DEF Ownership
    <2>6. ~Starting
      BY <2>1 DEF Phases
    <2>7. ~Starting'
      BY <2>1, <2>5, <2>6 DEF Starting
    <2>8. ~StopPending'
      BY <2>1 DEF StopPending
    <2> QED
      BY <2>1, <2>3, <2>4, <2>7, <2>8 DEF Phases, buckets
  <1>7. ASSUME NEW w \in Workers, OpenFirstBucket(w) \/ CheckSecondBucket(w)
                  \/ OpenSecondBucket(w)
        PROVE  Phases'
    <2>1. packet[SM].at = "exec" /\ packet[SM].by = w
      BY <1>7, OpeningSecond DEF OpenFirstBucket, CheckSecondBucket, OpenSecondBucket
    <2>2. current = GoalGc /\ in_gc_pause
      BY <1>7, OpeningFirst, OpeningSecond
         DEF OpenFirstBucket, CheckSecondBucket, OpenSecondBucket
    <2>3. FirstSTW \in active'
      BY <1>7, OpeningSecond
         DEF OpenFirstBucket, CheckSecondBucket, OpenSecondBucket, buckets
    <2>4. /\ wpc'[w] \in {"check", "second", "notify"}
          /\ UNCHANGED <<packet, in_gc_pause, current>>
          /\ \A v \in Workers \ {w} : wpc'[v] = wpc[v]
      BY <1>7 DEF OpenFirstBucket, CheckSecondBucket, OpenSecondBucket, Move,
                  TypeOK, goals, mutators
    <2>5. packet[SC].at = "exec" => packet[SC].by \in Workers \ {w}
      BY <2>1 DEF Ownership
    <2>6. ~Starting /\ packet[SM].at # "free"
      BY <2>1 DEF Phases
    <2>7. ~Starting' /\ ~StopPending'
      BY <2>1, <2>4, <2>5, <2>6 DEF Starting, StopPending
    <2> QED
      BY <2>1, <2>2, <2>3, <2>4, <2>7 DEF Phases
  <1>8. ASSUME NEW w \in Workers, NotifyMutatorsPaused(w) PROVE Phases'
    <2>1. /\ packet[SM].at = "exec" /\ packet[SM].by = w
          /\ current = GoalGc /\ FirstSTW \in active
      BY <1>8, OpeningSecond DEF NotifyMutatorsPaused
    <2>2. /\ packet'[SM].at = "free" /\ packet'[SC] = packet[SC]
          /\ UNCHANGED <<current, buckets, in_gc_pause>>
      BY <1>8, AtFields DEF NotifyMutatorsPaused, Free, TypeOK, goals, mutators
    <2>3. wpc'[w] = "own" /\ OthersStay(w)
      BY <1>8, BusyFrame DEF NotifyMutatorsPaused, MoveAndNotify, Execute
    <2>4. packet[SC].at = "exec" => packet[SC].by \in Workers
      BY DEF Ownership
    <2>5. ~Starting
      BY <2>1 DEF Phases
    <2>6. ~Starting' /\ ~StopPending' /\ ~StopDone'
      BY <2>2, <2>3, <2>4, <2>5
         DEF Starting, StopPending, StopDone, OthersStay
    <2> QED
      BY <2>1, <2>2, <2>6 DEF Phases, buckets
  <1>9. ASSUME NEW w \in Workers, FindDesignatedWork(w) \/ ScheduleSentinels(w)
                  \/ UpdateBuckets(w)
        PROVE  Phases'
    <2>1. /\ AllParkedWith(w) /\ current = GoalGc /\ active \subseteq active'
          /\ UNCHANGED <<current, in_gc_pause>>
      BY <1>9 DEF FindDesignatedWork, ScheduleSentinels, UpdateBuckets, buckets,
                  goals, mutators
    <2>2. packet[SC].at = "free" /\ packet[SM].at = "free" /\ FirstSTW \in active
      BY <2>1, AtLastPark
    <2>3. packet'[SC].at = "free" /\ packet'[SM].at = "free"
      BY <1>9, <2>2, SentinelsMoved
    <2>4. ~Starting' /\ ~StopPending' /\ ~StopDone'
      BY <2>3 DEF Starting, StopPending, StopDone
    <2> QED
      BY <2>1, <2>2, <2>4 DEF Phases
  <1>10. ASSUME NEW w \in Workers, LastParkedIdle(w) PROVE Phases'
    <2>1. /\ AllParkedWith(w) /\ current = NoGoal /\ ~in_gc_pause
          /\ UNCHANGED <<buckets, in_gc_pause>>
      BY <1>10, Idle DEF mutators, SchedulerInv, World, GoalGc, NoGoal
    <2>2. /\ packet[SC].at = "free" /\ packet[SM].at = "free"
          /\ active = {Unconstrained} /\ disabled = {} /\ progress = 0
      BY <2>1 DEF Phases, GoalGc, NoGoal
    <2>3. CASE current' # GoalGc
      <3>1. UNCHANGED packet
        BY <1>10, <2>3, Idle
      <3>2. ~Starting' /\ ~StopPending' /\ ~StopDone'
        BY <2>2, <3>1 DEF Starting, StopPending, StopDone
      <3> QED
        BY <2>1, <2>2, <2>3, <3>1, <3>2 DEF Phases, buckets
    <2>4. CASE current' = GoalGc
      <3>1. packet' = [packet EXCEPT ![SC] = InBucket(Unconstrained)]
        BY <1>10, <2>4, Idle
      <3>2. packet'[SC].at = "bucket" /\ \A p \in Packets \ {SC} : packet'[p] = packet[p]
        BY <3>1, AtFields DEF InBucket, TypeOK
      <3>3. \A p \in Packets : \/ packet[p].at \in {"free", "postponed"}
                               \/ packet[p].at = "bucket" /\ packet[p].stage = SecondSTW
        <4> SUFFICES ASSUME NEW p \in Packets, packet[p].at \notin {"free", "postponed"},
                            ~(packet[p].at = "bucket" /\ packet[p].stage = SecondSTW)
                     PROVE  FALSE
          OBVIOUS
        <4>1. packet[p].at # "sentinel" /\ packet[p].stage = Unconstrained
          BY <2>1 DEF SchedulerInv, Staging, PacketDone, GoalGc, NoGoal
        <4>2. packet[p].at # "designated"
          BY <4>1 DEF SchedulerInv, Staging
        <4>3. packet[p].at \notin {"exec", "local", "bucket"}
          BY <2>1, <2>2, <4>1, AtLastPark
        <4>4. packet[p].at \in Places
          BY DEF TypeOK, PacketStates
        <4> QED
          BY <4>1, <4>2, <4>3, <4>4 DEF Places
      <3>4. Starting' /\ ~StopPending' /\ ~StopDone'
        BY <2>2, <3>2 DEF Starting, StopPending, StopDone
      <3>5. \A p \in Packets \ {SC} :
               \/ PacketDone(p)'
               \/ packet'[p].at = "bucket" /\ packet'[p].stage = SecondSTW
        BY <3>2, <3>3 DEF PacketDone
      <3> QED
        BY <2>1, <2>2, <2>4, <3>2, <3>4, <3>5 DEF Phases, buckets
    <2> QED
      BY <2>3, <2>4
  <1>11. ASSUME NEW w \in Workers, OnGCFinished(w) PROVE Phases'
    <2>1. /\ AllParkedWith(w) /\ packet' = EndPackets
          /\ current' \in {NoGoal, GoalStopForFork}
          /\ active' = {Unconstrained} /\ disabled' = {} /\ progress' = 0
      BY <1>11, EndOfGC
    <2>2. packet[SC].at = "free" /\ packet[SM].at = "free"
      BY <2>1, AtLastPark
    <2>3. packet'[SC].at = "free" /\ packet'[SM].at = "free"
      BY <2>1, <2>2 DEF EndPackets, PostponedPackets
    <2>4. ~Starting' /\ ~StopPending' /\ ~StopDone'
      BY <2>3 DEF Starting, StopPending, StopDone
    <2>5. current' # GoalGc
      BY <2>1 DEF GoalGc, NoGoal, GoalStopForFork
    <2> QED
      BY <2>1, <2>3, <2>4, <2>5 DEF Phases
  <1>12. ASSUME NEW w \in Workers, Surrender(w) PROVE Phases'
    <2>1. current # GoalGc /\ current' # GoalGc
      BY <1>12 DEF Surrender, SchedulerInv, ForkProtocol, Leaving, GoalGc,
                   GoalStopForFork, NoGoal
    <2>2. UNCHANGED <<packet, active, disabled, progress, in_gc_pause>>
      BY <1>12 DEF Surrender, buckets, mutators
    <2>3. packet[SC].at = "free" /\ packet[SM].at = "free"
      BY <2>1 DEF Phases
    <2>4. ~Starting' /\ ~StopPending' /\ ~StopDone'
      BY <2>2, <2>3 DEF Starting, StopPending, StopDone
    <2> QED
      BY <2>1, <2>2, <2>4 DEF Phases
  <1>13. ASSUME NEW m \in Mutators, FlushBarrier(m) PROVE Phases'
    <2>1. PICK p \in WorkPackets :
             /\ packet[p] = Free
             /\ packet'[p] \in {InBucket(SecondSTW), Postponed}
             /\ \A q \in Packets \ {p} : packet'[q] = packet[q]
      BY <1>13, Flushed
    <2>2. /\ packet'[SC] = packet[SC] /\ packet'[SM] = packet[SM]
          /\ UNCHANGED <<wpc, current, buckets, in_gc_pause>>
      BY <1>13, <2>1, Flushed DEF WorkPackets, goals, mutators
    <2>3. \/ packet'[p].at = "postponed"
          \/ packet'[p].at = "bucket" /\ packet'[p].stage = SecondSTW
      BY <2>1, AtFields, SMT DEF InBucket, Postponed
    <2>4. /\ Starting' <=> Starting
          /\ StopPending' <=> StopPending
          /\ StopDone' <=> StopDone
      BY <2>2 DEF Starting, StopPending, StopDone
    <2>5. Starting => \A q \in Packets \ {SC} :
                         \/ packet'[q].at \in {"free", "postponed"}
                         \/ packet'[q].at = "bucket" /\ packet'[q].stage = SecondSTW
      BY <2>1, <2>3 DEF Phases, PacketDone
    <2> QED
      BY <2>2, <2>4, <2>5, PhasesKept
  <1>14. ASSUME NEW m \in Mutators, Mutate(m), ~FlushBarrier(m) PROVE Phases'
    <2>1. UNCHANGED <<packet, current, buckets, in_gc_pause>>
      BY <1>14, MutatePackets, MutateFrame
    <2>2. \A v \in Workers : wpc[v] \in Executing \/ wpc'[v] \in Executing => wpc'[v] = wpc[v]
      <3>1. CASE Respawn(m)
        BY <3>1 DEF Respawn, Executing
      <3>2. CASE ~Respawn(m)
        BY <1>14, <3>2, MutateFrame, OthersExecute, SchedulerAssumption
      <3> QED
        BY <3>1, <3>2
    <2> QED
      BY <2>1, <2>2, PhasesIdle
  <1>15. CASE UNCHANGED vars
    BY <1>15, PhasesIdle DEF vars, goals, mutators
  <1> QED
    BY <1>1, <1>2, <1>3, <1>4, <1>5, <1>6, <1>7, <1>8, <1>9, <1>10, <1>11,
       <1>12, <1>13, <1>14, <1>15
       DEF Next, WorkerStep, Poll, TakesPacket, Execute, ParkAndWait, Mutate
=============================================================================

-------------------------- MODULE GCSchedulerSafety --------------------------
(***************************************************************************)
(* Proofs about GCScheduler, concluded: every step preserves the conjuncts *)
(* of SchedulerInv about stages and about what the workers can see, so     *)
(* SchedulerInv is an invariant; the safety properties follow from it, and *)
(* so does that the scheduler implements StagedPause: every action maps to *)
(* one step of it or to a stuttering step.  The last section is about the  *)
(* loop of update_buckets, which GCScheduler's actions take in one step.   *)
(***************************************************************************)
EXTENDS GCSchedulerProofs, GCSchedulerRefinement, UpdateBucketsLoop, NaturalsInduction

\* A leaf is a first-order argument for Zenon unless it cites SMT.
USE ZenonT(60)

\* What Staging asks of a packet in a given place.
WellStaged(place) ==
    \/ place.at \in {"free", "postponed"}
    \/ /\ place.stage # FirstSTW
       /\ place.stage \notin disabled
       /\ place.at \in {"exec", "local", "designated"} => place.stage \in active
       /\ place.at \in {"designated", "sentinel"} => place.stage # Unconstrained
       /\ place.stage # Unconstrained => NotBeforeOpen(place.stage)
       /\ \/ current = GoalGc
          \/ place.at # "sentinel" /\ place.stage = Unconstrained
          \/ place.at = "bucket" /\ place.stage = SecondSTW

\* Staging is a property of one packet at a time, and of the buckets.
LEMMA StagingOfPackets ==
    Staging <=> /\ \A p \in Packets : WellStaged(packet[p])
                /\ \A s \in STWStages : s <= progress => s \in active \cup disabled
                /\ active \cap disabled \subseteq {FirstSTW}
  <1>1. ASSUME Staging, NEW p \in Packets PROVE WellStaged(packet[p])
    BY <1>1 DEF Staging, WellStaged, PacketDone, NotBeforeOpen
  <1>2. ASSUME \A p \in Packets : WellStaged(packet[p]),
               \A s \in STWStages : s <= progress => s \in active \cup disabled,
               active \cap disabled \subseteq {FirstSTW}
        PROVE  Staging
    BY <1>2 DEF Staging, WellStaged, PacketDone, NotBeforeOpen
  <1> QED
    BY <1>1, <1>2 DEF Staging

\* A step that leaves the buckets alone and ends no GC preserves Staging if
\* it puts every packet it moves where the buckets allow.
LEMMA StagingKept ==
    ASSUME Staging, UNCHANGED buckets, current' # GoalGc => current # GoalGc,
           \A p \in Packets : packet'[p] = packet[p] \/ WellStaged(packet'[p])
    PROVE  Staging'
  <1>1. \A p \in Packets : WellStaged(packet'[p])
    BY StagingOfPackets
  <1>2. \A p \in Packets : WellStaged(packet[p])'
    BY <1>1 DEF WellStaged, NotBeforeOpen, buckets
  <1>3. /\ \A s \in STWStages : s <= progress' => s \in active' \cup disabled'
        /\ active' \cap disabled' \subseteq {FirstSTW}
    BY DEF Staging, buckets
  <1> QED
    BY <1>2, <1>3 DEF Staging, WellStaged, PacketDone, NotBeforeOpen

\* Where an executing packet puts a new packet is allowed.
LEMMA NewPlaceStaged ==
    ASSUME SchedulerInv, NEW w \in Workers, NEW place, NewPlace(w, place)
    PROVE  WellStaged(place)
  <1> active \subseteq Stages /\ disabled \subseteq Stages
    BY DEF SchedulerInv, TypeOK
  <1> Unconstrained \in active /\ active \cap disabled \subseteq {FirstSTW}
    BY DEF SchedulerInv, Roles, Staging
  <1>1. CASE place = Postponed
    BY <1>1, AtFields, SMT DEF Postponed, WellStaged
  <1>2. ASSUME NEW s \in Stages, MayAddTo(s),
               \/ place = InBucket(s)
               \/ place = At("local", w, s) /\ s \in active
               \/ place = At("sentinel", NoWorker, s) /\ s \notin active
        PROVE  WellStaged(place)
    BY <1>2, AtFields, SMT
       DEF InBucket, WellStaged, MayAddTo, FirstSTW, SecondSTW, Unconstrained
  <1>3. ASSUME NEW s \in active, NEW v \in Workers, NotBeforeOpen(s), s > SecondSTW,
               place = At("designated", v, s)
        PROVE  WellStaged(place)
    <2>1. s # FirstSTW /\ s # Unconstrained
      BY <1>3, SMT DEF Stages, FirstSTW, SecondSTW, Unconstrained
    <2>2. current = GoalGc
      BY <1>3, <2>1 DEF SchedulerInv, Phases
    <2> QED
      BY <1>3, <2>1, <2>2, AtFields, SMT DEF WellStaged
  <1> QED
    BY <1>1, <1>2, <1>3 DEF NewPlace

\* The packets a worker takes from an open bucket, or from a worker, belong
\* to an open bucket.
LEMMA TakenStaged ==
    ASSUME SchedulerInv, NEW p \in Packets, NEW place,
           \/ packet[p].at \in {"local", "designated"}
           \/ packet[p].at = "bucket" /\ packet[p].stage \in active,
           place.at \in {"exec", "local"}, place.stage = packet[p].stage
    PROVE  WellStaged(place)
  <1>1. WellStaged(packet[p])
    BY StagingOfPackets DEF SchedulerInv
  <1>2. packet[p].stage \in active
    BY DEF SchedulerInv, Staging
  <1>3. current # GoalGc => packet[p].stage = Unconstrained
    BY <1>2 DEF SchedulerInv, Phases
  <1> QED
    BY <1>1, <1>2, <1>3 DEF WellStaged

\* When the last parked worker finds no designated packet and no sentinel of
\* an open bucket, a packet that is not done is in a closed bucket.
LEMMA LeftBehind ==
    ASSUME SchedulerInv, NEW w \in Workers, AllParkedWith(w), ~HasDesignatedWork,
           SentinelsToSchedule(active, Sentinels) = {},
           NEW p \in Packets, ~PacketDone(p)
    PROVE  /\ packet[p].stage \in Stages \ (active \cup disabled)
           /\ packet[p].stage \in STWStages /\ packet[p].stage # FirstSTW
           /\ packet[p].stage \in Full \cup Sentinels
  <1>1. packet[p].at \in Places /\ packet[p].stage \in Stages
    BY DEF SchedulerInv, TypeOK, PacketStates
  <1>2. packet[p].at \notin {"exec", "local"}
    BY AtLastPark
  <1>3. packet[p].at # "designated"
    BY SMT DEF HasDesignatedWork, Designated, SchedulerInv, Ownership
  <1>4. packet[p].at \in {"bucket", "sentinel"}
    BY <1>1, <1>2, <1>3 DEF PacketDone, Places
  <1>5. packet[p].stage \in Full \cup Sentinels
    BY <1>1, <1>4 DEF Full, Bucket, Sentinels
  <1>6. packet[p].stage \notin active
    BY <1>1, <1>4, AtLastPark DEF SentinelsToSchedule, Sentinels
  <1>7. packet[p].stage \notin disabled /\ packet[p].stage # FirstSTW
    BY DEF SchedulerInv, Staging
  <1>8. packet[p].stage # Unconstrained
    BY <1>6 DEF SchedulerInv, Roles
  <1> QED
    BY <1>1, <1>5, <1>6, <1>7, <1>8, LastStageAssumption, SMT
       DEF Stages, STWStages, Unconstrained

\* A non-empty set of stages has a first one.
LEMMA FirstOf ==
    ASSUME NEW S \in SUBSET Stages, S # {}
    PROVE  \E s \in S : \A t \in S : s <= t
  <1>1. S \in SUBSET Nat
    BY LastStageAssumption, SMT DEF Stages
  <1> DEFINE R == {ss \in Nat \X Nat : ss[1] < ss[2]}
  <1>2. IsWellFoundedOn(R, Nat)
    BY NatLessThanWellFounded DEF OpToRel
  <1> HIDE DEF R
  <1>3. PICK s \in S : \A t \in S : <<t, s>> \notin R
    BY <1>1, <1>2, WFMin
  <1>4. ASSUME NEW t \in S PROVE s <= t
    <2>1. s \in Nat /\ t \in Nat /\ <<t, s>> \notin R
      BY <1>1, <1>3
    <2>2. t < s => <<t, s>> \in R
      BY <2>1 DEF R
    <2> QED
      BY <2>1, <2>2, SMT
  <1> QED
    BY <1>4

\* So `update_buckets` opens the first bucket that is left, unless every
\* packet is done.
LEMMA AllDone ==
    ASSUME SchedulerInv, NEW w \in Workers, AllParkedWith(w), current = GoalGc,
           ~HasDesignatedWork, SentinelsToSchedule(active, Sentinels) = {},
           StoppedAt(Opened, Full, Sentinels) = {}
    PROVE  \A p \in Packets : PacketDone(p)
  <1> DEFINE Left == {s \in Stages : \E p \in Packets : ~PacketDone(p) /\ packet[p].stage = s}
  <1> SUFFICES ASSUME Left # {} PROVE FALSE
    BY DEF SchedulerInv, TypeOK, PacketStates
  <1>1. PICK s \in Left : \A t \in Left : s <= t
    BY FirstOf
  <1>2. /\ s \in STWStages /\ s # FirstSTW /\ s \notin active /\ s \notin disabled
        /\ s \in Full \cup Sentinels
    BY <1>1, LeftBehind
  <1>3. Full \cup Sentinels \subseteq Left
    BY DEF Full, Bucket, Sentinels, PacketDone
  <1>4. s > progress
    BY <1>2, SMT DEF SchedulerInv, Staging, TypeOK, STWStages, Stages
  <1>5. ASSUME NEW j \in 1 .. (s - 1)
        PROVE  Passes(j, active, disabled, Full, Sentinels, progress)
    <2>1. j \in STWStages /\ j \in Stages /\ ~(s <= j)
      BY <1>2, LastStageAssumption, SMT DEF STWStages, Stages
    <2>2. j \notin Full /\ j \notin Sentinels
      BY <1>1, <1>3, <2>1
    <2>3. j > progress \/ j \in active \cup disabled
      BY <2>1, SMT DEF SchedulerInv, Staging, TypeOK, STWStages, Stages
    <2>4. FirstSTW \in active
      BY AtLastPark
    <2> QED
      BY <2>2, <2>3, <2>4 DEF Passes
  <1>6. s \in Opened
    BY <1>2, <1>4, <1>5 DEF Opened, BucketsToOpen
  <1> QED
    BY <1>2, <1>6 DEF StoppedAt
-----------------------------------------------------------------------------
\* Every step preserves Staging: packets stay out of the buckets behind the
\* one the pause has reached.
LEMMA StagingStep ==
    ASSUME SchedulerInv, TypeOK', [Next]_vars
    PROVE  Staging'
  <1> TypeOK /\ Ownership /\ Roles /\ Phases /\ Staging
    BY DEF SchedulerInv
  <1> SC \in Packets /\ SM \in Packets /\ SC # SM
    BY SchedulerAssumption
  <1> \A p \in Packets : WellStaged(packet[p])
    BY StagingOfPackets
  <1>1. ASSUME NEW w \in Workers, TakesPacket(w) PROVE Staging'
    <2>1. PICK p \in Packets : TakenBy(w, p)
      BY <1>1, Taken
    <2>2. UNCHANGED <<current, buckets>>
      BY <1>1, Taken
    <2>3. WellStaged(packet'[p])
      BY <2>1, TakenStaged DEF TakenBy
    <2>4. \A q \in Packets \ {p} : packet'[q] = packet[q] \/ WellStaged(packet'[q])
      BY <2>1, TakenStaged DEF TakenBy
    <2> QED
      BY <2>2, <2>3, <2>4, StagingKept
  <1>2. ASSUME UNCHANGED <<packet, buckets>>, current' # GoalGc => current # GoalGc
        PROVE  Staging'
    BY <1>2, StagingKept
  <1>3. ASSUME NEW w \in Workers, PollOwnEmpty(w) \/ PollBucketEmpty(w)
                  \/ StealEmpty(w) \/ PollFailed(w) \/ ParkNotLast(w)
                  \/ Unpark(w) \/ SpuriousWakeup(w) \/ FindDesignatedWork(w)
                  \/ StopAllMutators(w) \/ CheckSecondBucket(w)
        PROVE  Staging'
    BY <1>2, <1>3
       DEF PollOwnEmpty, PollBucketEmpty, StealEmpty, PollFailed, ParkNotLast,
           Unpark, SpuriousWakeup, FindDesignatedWork, StopAllMutators,
           CheckSecondBucket, goals
  <1>4. ASSUME NEW w \in Workers, Surrender(w) PROVE Staging'
    BY <1>2, <1>4 DEF Surrender, SchedulerInv, ForkProtocol, Leaving, GoalGc,
                      GoalStopForFork, NoGoal
  <1>5. ASSUME NEW w \in Workers, Spawn(w) PROVE Staging'
    <2>1. PICK p \in WorkPackets :
             /\ packet[p] = Free /\ NewPlace(w, packet'[p])
             /\ \A q \in Packets \ {p} : packet'[q] = packet[q]
      BY <1>5, Spawned
    <2>2. WellStaged(packet'[p])
      BY <2>1, NewPlaceStaged
    <2>3. UNCHANGED <<current, buckets>>
      BY <1>5, Spawned, BusyFrame
    <2> QED
      BY <2>1, <2>2, <2>3, StagingKept
  <1>6. ASSUME NEW w \in Workers, FinishPacket(w) \/ NotifyMutatorsPaused(w)
        PROVE  Staging'
    <2>1. PICK p \in Packets : packet' = [packet EXCEPT ![p] = Free]
      BY <1>6 DEF FinishPacket, NotifyMutatorsPaused
    <2>2. \A q \in Packets : packet'[q] = packet[q] \/ packet'[q].at = "free"
      BY <2>1, AtFields, SMT DEF Free, TypeOK
    <2>3. UNCHANGED <<current, buckets>>
      BY <1>6 DEF FinishPacket, NotifyMutatorsPaused, goals
    <2> QED
      BY <2>2, <2>3, StagingKept DEF WellStaged
  <1>7. ASSUME NEW w \in Workers, ScheduleCollection(w) PROVE Staging'
    <2>1. Starting
      BY <1>7 DEF ScheduleCollection, Starting
    <2>2. active = {Unconstrained} /\ progress = 0 /\ current = GoalGc
      BY <1>7, <2>1 DEF Phases, ScheduleCollection
    <2>3. /\ packet'[SM].at = "bucket" /\ packet'[SM].stage = Unconstrained
          /\ \A p \in Packets \ {SM} : packet'[p] = packet[p]
          /\ disabled' \subseteq {FirstSTW} \cup (3 .. LastStage)
          /\ UNCHANGED <<active, progress, current>>
      BY <1>7, AtFields, SMT DEF ScheduleCollection, InBucket, TypeOK, goals
    <2>4. Unconstrained \notin disabled' /\ SecondSTW \notin disabled'
      BY <2>3, SMT DEF Unconstrained, FirstSTW, SecondSTW
    <2>5. WellStaged(packet[SM])'
      BY <2>2, <2>3, <2>4, SMT DEF WellStaged, FirstSTW, Unconstrained
    <2>6. WellStaged(packet[SC])'
      BY <1>7, <2>2, <2>3, <2>4
         DEF ScheduleCollection, Roles, WellStaged, FirstSTW, Unconstrained
    <2>7. ASSUME NEW p \in Packets \ {SC, SM} PROVE WellStaged(packet[p])'
      <3>1. \/ packet'[p].at \in {"free", "postponed"}
            \/ packet'[p].at = "bucket" /\ packet'[p].stage = SecondSTW
        BY <2>1, <2>3, SMT DEF Phases, PacketDone
      <3> QED
        BY <2>2, <2>3, <2>4, <3>1
           DEF WellStaged, FirstSTW, SecondSTW, Unconstrained, NotBeforeOpen
    <2>8. active' \cap disabled' = {}
      BY <2>2, <2>3, <2>4
    <2>9. \A s \in STWStages : ~(s <= progress')
      BY <2>2, <2>3, LastStageAssumption, SMT DEF STWStages
    <2> QED
      BY <2>5, <2>6, <2>7, <2>8, <2>9
         DEF Staging, WellStaged, PacketDone, NotBeforeOpen
  <1>8. ASSUME NEW w \in Workers, NEW t \in {FirstSTW, SecondSTW},
               active' = active \cup {t}, UNCHANGED <<packet, disabled, progress, current>>,
               current = GoalGc
        PROVE  Staging'
    <2>1. \A p \in Packets : packet[p].stage \in Stages
      BY DEF TypeOK, PacketStates
    <2>2. \A p \in Packets : WellStaged(packet[p])'
      BY <1>8, <2>1, LastStageAssumption, SMT
         DEF WellStaged, NotBeforeOpen, FirstSTW, SecondSTW, Unconstrained, Stages
    <2>3. active' \cap disabled' \subseteq {FirstSTW}
      BY <1>8 DEF Staging, Roles
    <2>4. \A s \in STWStages : s <= progress' => s \in active' \cup disabled'
      BY <1>8 DEF Staging
    <2> QED
      BY <2>2, <2>3, <2>4 DEF Staging, WellStaged, PacketDone, NotBeforeOpen
  <1>9. ASSUME NEW w \in Workers, OpenFirstBucket(w) \/ OpenSecondBucket(w)
        PROVE  Staging'
    <2>1. current = GoalGc
      BY <1>9, OpeningFirst, OpeningSecond DEF OpenSecondBucket
    <2> QED
      BY <1>8, <1>9, <2>1 DEF OpenFirstBucket, OpenSecondBucket, goals
  <1>10. ASSUME NEW w \in Workers, ScheduleSentinels(w) PROVE Staging'
    <2>1. \A p \in Packets :
             \/ packet'[p] = packet[p]
             \/ /\ packet[p].at = "sentinel"
                /\ packet'[p].at = "bucket" /\ packet'[p].stage = packet[p].stage
      BY <1>10, SentinelsMoved, AtFields, SMT
    <2>2. UNCHANGED <<current, buckets>> /\ current = GoalGc
      BY <1>10 DEF ScheduleSentinels, goals
    <2>3. \A p \in Packets : packet'[p] = packet[p] \/ WellStaged(packet'[p])
      BY <2>1, <2>2 DEF WellStaged
    <2> QED
      BY <2>2, <2>3, StagingKept
  <1>11. ASSUME NEW w \in Workers, UpdateBuckets(w) PROVE Staging'
    <2> DEFINE Pass(j) == Passes(j, active, disabled, Full, Sentinels, progress)
    <2>1. /\ AllParkedWith(w) /\ current = GoalGc /\ ~HasDesignatedWork
          /\ SentinelsToSchedule(active, Sentinels) = {}
          /\ StoppedAt(Opened, Full, Sentinels) # {}
          /\ active' = active \cup Opened
          /\ progress' = NewProgress(Opened, Full, Sentinels)
          /\ UNCHANGED <<disabled, current>>
      BY <1>11 DEF UpdateBuckets, goals
    <2>2. \A p \in Packets :
             /\ packet'[p].stage = packet[p].stage
             /\ \/ packet'[p].at = packet[p].at
                \/ packet[p].at = "sentinel" /\ packet'[p].at = "bucket"
      BY <1>11, SentinelsMoved, AtFields, SMT
    <2>3. \A k \in Opened :
             /\ k \in STWStages /\ k > progress /\ k # FirstSTW
             /\ k \notin disabled /\ k \notin active
             /\ \A j \in 1 .. (k - 1) : Pass(j)
      BY DEF Opened, BucketsToOpen
    <2>4. ASSUME NEW p \in Packets, NEW t \in Opened, ~PacketDone(p)
          PROVE  t <= packet[p].stage
      <3>1. /\ packet[p].stage \in STWStages
            /\ packet[p].stage \notin disabled /\ packet[p].stage \notin active
            /\ packet[p].stage \in Full \cup Sentinels
        BY <2>1, <2>4, LeftBehind
      <3>2. ~Pass(packet[p].stage)
        BY <3>1 DEF Passes
      <3> QED
        BY <2>3, <3>1, <3>2, LastStageAssumption, SMT DEF STWStages
    <2>5. \A p \in Packets : WellStaged(packet[p])'
      BY <2>1, <2>2, <2>4 DEF WellStaged, NotBeforeOpen, PacketDone
    <2>6. active' \cap disabled' \subseteq {FirstSTW}
      BY <2>1, <2>3 DEF Staging
    <2>7. progress' \in Opened
      BY <2>1 DEF NewProgress, StoppedAt
    <2>8. ASSUME NEW s \in STWStages, s <= progress' PROVE s \in active' \cup disabled'
      <3>1. s \in 1 .. (progress' - 1) \/ s = progress'
        BY <2>3, <2>7, <2>8, LastStageAssumption, SMT DEF STWStages
      <3>2. CASE s = progress'
        BY <2>1, <2>7, <3>2
      <3>3. CASE s \in 1 .. (progress' - 1)
        <4>1. Pass(s) /\ \A j \in 1 .. (s - 1) : Pass(j)
          BY <2>3, <2>7, <3>3, LastStageAssumption, SMT DEF STWStages
        <4>2. CASE s \in active \cup disabled
          BY <2>1, <4>2
        <4>3. CASE s \notin active \cup disabled
          BY <2>1, <4>1, <4>3 DEF Passes, Opened, BucketsToOpen
        <4> QED
          BY <4>2, <4>3
      <3> QED
        BY <3>1, <3>2, <3>3
    <2> QED
      BY <2>5, <2>6, <2>8 DEF Staging, WellStaged, PacketDone, NotBeforeOpen
  <1>12. ASSUME NEW w \in Workers, LastParkedIdle(w) PROVE Staging'
    <2>1. UNCHANGED buckets /\ current # GoalGc
      BY <1>12, Idle DEF GoalGc, NoGoal
    <2>2. CASE current' # GoalGc
      BY <1>2, <1>12, <2>1, <2>2, Idle
    <2>3. CASE current' = GoalGc
      <3>1. packet' = [packet EXCEPT ![SC] = InBucket(Unconstrained)]
        BY <1>12, <2>3, Idle
      <3>2. /\ packet'[SC].at = "bucket" /\ packet'[SC].stage = Unconstrained
            /\ \A p \in Packets \ {SC} : packet'[p] = packet[p]
        BY <3>1, AtFields, SMT DEF InBucket, TypeOK
      <3>3. WellStaged(packet'[SC])
        BY <3>2, SMT DEF WellStaged, Roles, Unconstrained, FirstSTW
      <3> QED
        BY <2>1, <2>3, <3>2, <3>3, StagingKept
    <2> QED
      BY <2>2, <2>3
  <1>13. ASSUME NEW w \in Workers, OnGCFinished(w) PROVE Staging'
    <2>1. \A p \in Packets : PacketDone(p)
      BY <1>13, AllDone DEF OnGCFinished
    <2>2. /\ packet' = EndPackets /\ active' = {Unconstrained}
          /\ disabled' = {} /\ progress' = 0
      BY <1>13, EndOfGC
    <2>3. \A p \in Packets :
             \/ packet'[p].at = "free"
             \/ packet'[p].at = "bucket" /\ packet'[p].stage = Unconstrained
      BY <2>1, <2>2, AtFields, SMT
         DEF EndPackets, PostponedPackets, PacketDone, InBucket
    <2>4. \A p \in Packets : WellStaged(packet[p])'
      BY <2>2, <2>3, SMT DEF WellStaged, Unconstrained, FirstSTW
    <2>5. \A s \in STWStages : ~(s <= progress')
      BY <2>2, LastStageAssumption, SMT DEF STWStages
    <2> QED
      BY <2>2, <2>4, <2>5 DEF Staging, WellStaged, PacketDone, NotBeforeOpen
  <1>14. ASSUME NEW m \in Mutators, FlushBarrier(m) PROVE Staging'
    <2>1. PICK p \in WorkPackets :
             /\ packet[p] = Free
             /\ packet'[p] \in {InBucket(SecondSTW), Postponed}
             /\ \A q \in Packets \ {p} : packet'[q] = packet[q]
      BY <1>14, Flushed
    <2>2. mpc[m] = "running" /\ UNCHANGED <<current, buckets>>
      BY <1>14, Flushed DEF goals
    <2>3. active \subseteq {Unconstrained}
      BY <2>2 DEF SchedulerInv, World, Quiet
    <2>4. \/ packet'[p].at = "postponed"
          \/ packet'[p].at = "bucket" /\ packet'[p].stage = SecondSTW
      BY <2>1, AtFields, SMT DEF InBucket, Postponed
    <2>5. WellStaged(packet'[p])
      BY <2>3, <2>4, SMT
         DEF WellStaged, NotBeforeOpen, Roles, FirstSTW, SecondSTW, Unconstrained
    <2> QED
      BY <2>1, <2>2, <2>5, StagingKept
  <1>15. ASSUME NEW m \in Mutators, Mutate(m), ~FlushBarrier(m) PROVE Staging'
    BY <1>2, <1>15, MutatePackets, MutateFrame
  <1>16. CASE UNCHANGED vars
    BY <1>2, <1>16 DEF vars, goals
  <1> QED
    BY <1>1, <1>3, <1>4, <1>5, <1>6, <1>7, <1>9, <1>10, <1>11, <1>12, <1>13,
       <1>14, <1>15, <1>16
       DEF Next, WorkerStep, Poll, TakesPacket, Execute, ParkAndWait, Mutate
-----------------------------------------------------------------------------
\* A worker that executes a packet, or that starts to poll, will look at
\* every bucket.
LEMMA AwakeSees ==
    ASSUME NEW w \in Workers, wpc'[w] \in Executing \cup {"own"}
    PROVE  Visibility'
  BY DEF Visibility, WillSee

\* Workers that leave have seen the goal to stop, and so will the others.
LEMMA LeavingAll ==
    ASSUME ForkProtocol', NEW w \in Workers, wpc'[w] \in {"exiting", "exited"}
    PROVE  AllLeaving'
  BY DEF ForkProtocol, Leaving, AllLeaving

\* Every step preserves Visibility: whoever makes a packet available, or opens
\* its bucket, has not finished to look for work.
LEMMA VisibilityStep ==
    ASSUME SchedulerInv, TypeOK', ForkProtocol', [Next]_vars
    PROVE  Visibility'
  <1> TypeOK /\ Visibility
    BY DEF SchedulerInv
  <1>1. ASSUME NEW w \in Workers, wpc'[w] \in Executing \cup {"own"}
        PROVE  Visibility'
    BY <1>1, AwakeSees
  <1>2. ASSUME NEW w \in Workers, TakesPacket(w) PROVE Visibility'
    BY <1>1, <1>2, Taken DEF TakenBy, Executing
  <1>3. ASSUME NEW w \in Workers, PollOwnEmpty(w) PROVE Visibility'
    <2>1. wpc'[w] = "scan" /\ cursor'[w] = Unconstrained
      BY <1>3 DEF PollOwnEmpty, Move, TypeOK
    <2>2. \A p \in Packets : packet'[p].stage \in Stages
      BY DEF TypeOK, PacketStates
    <2>3. \A s \in Stages : Unconstrained <= s
      BY LastStageAssumption, SMT DEF Stages, Unconstrained
    <2>4. \A p \in Packets : WillSee(w, packet[p].stage)'
      BY <2>1, <2>2, <2>3 DEF WillSee
    <2> QED
      BY <2>4 DEF Visibility
  <1>4. ASSUME NEW w \in Workers, PollBucketEmpty(w) PROVE Visibility'
    <2>1. /\ wpc[w] = "scan" /\ cursor[w] \in Stages
          /\ ~CanPoll(cursor[w], active, disabled, Full)
          /\ UNCHANGED <<packet, active, disabled>>
          /\ \A v \in Workers \ {w} : wpc'[v] = wpc[v] /\ cursor'[v] = cursor[v]
      BY <1>4 DEF PollBucketEmpty, Move, TypeOK, buckets
    <2>2. cursor[w] < LastStage => wpc'[w] = "scan" /\ cursor'[w] = cursor[w] + 1
      BY <1>4 DEF PollBucketEmpty, TypeOK
    <2> SUFFICES ASSUME NEW p \in Packets, packet[p].at = "bucket",
                        packet[p].stage \in active, packet[p].stage \notin disabled
                 PROVE  \E v \in Workers : WillSee(v, packet[p].stage)'
      BY <2>1 DEF Visibility
    <2>3. packet[p].stage \in Stages /\ packet[p].stage # cursor[w]
      BY <2>1 DEF TypeOK, CanPoll, Full, Bucket
    <2>4. PICK v \in Workers : WillSee(v, packet[p].stage)
      BY <2>1 DEF Visibility, AllParked, AllLeaving
    <2>5. CASE v # w
      BY <2>1, <2>4, <2>5 DEF WillSee
    <2>6. CASE v = w
      <3>1. cursor[w] <= packet[p].stage
        BY <2>1, <2>4, <2>6 DEF WillSee, Executing
      <3>2. cursor[w] < LastStage /\ cursor[w] + 1 <= packet[p].stage
        BY <2>1, <2>3, <3>1, LastStageAssumption, SMT DEF Stages
      <3> QED
        BY <2>1, <2>2, <3>2 DEF WillSee
    <2> QED
      BY <2>5, <2>6
  <1>5. ASSUME NEW w \in Workers, StealEmpty(w) \/ PollFailed(w) \/ ParkNotLast(w)
                  \/ SpuriousWakeup(w)
        PROVE  Visibility'
    <2>1. /\ wpc[w] \in {"steal", "park", "waiting"}
          /\ wpc[w] = "waiting" => wpc'[w] = "woken"
          /\ UNCHANGED <<packet, active, disabled, cursor>>
          /\ \A v \in Workers \ {w} : wpc'[v] = wpc[v]
      BY <1>5 DEF StealEmpty, PollFailed, ParkNotLast, SpuriousWakeup, Move,
                  TypeOK, buckets, polling
    <2>2. \A s : (\E v \in Workers : WillSee(v, s)) => \E v \in Workers : WillSee(v, s)'
      BY <2>1 DEF WillSee, Executing
    <2>3. AllParked => AllParked'
      BY <2>1 DEF AllParked
    <2>4. ~AllLeaving
      BY <2>1 DEF AllLeaving
    <2> QED
      BY <2>1, <2>2, <2>3, <2>4 DEF Visibility
  <1>6. ASSUME NEW w \in Workers, Spawn(w) \/ FinishPacket(w) \/ ScheduleCollection(w)
                  \/ StopAllMutators(w) \/ OpenFirstBucket(w) \/ CheckSecondBucket(w)
                  \/ OpenSecondBucket(w) \/ NotifyMutatorsPaused(w)
                  \/ FindDesignatedWork(w) \/ ScheduleSentinels(w) \/ UpdateBuckets(w)
        PROVE  Visibility'
    <2>1. CASE Spawn(w)
      BY <1>1, <2>1, Spawned DEF Executing
    <2>2. CASE ~Spawn(w)
      BY <1>1, <1>6, <2>2
         DEF FinishPacket, ScheduleCollection, StopAllMutators, OpenFirstBucket,
             CheckSecondBucket, OpenSecondBucket, NotifyMutatorsPaused,
             FindDesignatedWork, ScheduleSentinels, UpdateBuckets, WakeAll,
             MoveAndNotify, Move, TypeOK, Executing
    <2> QED
      BY <2>1, <2>2
  <1>7. ASSUME NEW w \in Workers, LastParkedIdle(w) \/ OnGCFinished(w)
        PROVE  Visibility'
    <2>1. /\ wpc'[w] \in {"own", "waiting", "exiting"}
          /\ \A v \in Workers \ {w} : wpc'[v] \in {"waiting", "woken"}
      BY <1>7, Idle, EndOfGC
    <2>2. CASE wpc'[w] = "own"
      BY <1>1, <2>2
    <2>3. CASE wpc'[w] = "waiting"
      BY <2>1, <2>3 DEF Visibility, AllParked
    <2>4. CASE wpc'[w] = "exiting"
      BY <2>4, LeavingAll DEF Visibility
    <2> QED
      BY <2>1, <2>2, <2>3, <2>4
  <1>8. ASSUME NEW w \in Workers, Unpark(w) \/ Surrender(w) PROVE Visibility'
    <2>1. wpc'[w] \in {"own", "exiting", "exited"}
      BY <1>8 DEF Unpark, Surrender, Move, TypeOK
    <2> QED
      BY <1>1, <2>1, LeavingAll DEF Visibility
  <1>9. ASSUME NEW m \in Mutators, Respawn(m) PROVE Visibility'
    <2>1. PICK w \in Workers : TRUE
      BY SchedulerAssumption
    <2> QED
      BY <1>1, <1>9, <2>1 DEF Respawn
  <1>10. ASSUME OthersStay(NoWorker), UNCHANGED <<active, disabled, cursor>>,
                \A p \in Packets :
                   \/ packet'[p] = packet[p]
                   \/ packet'[p].at = "bucket" => packet'[p].stage \notin active
         PROVE  Visibility'
    <2>1. \A v \in Workers :
             \/ wpc'[v] = wpc[v]
             \/ wpc[v] = "waiting" /\ wpc'[v] = "woken"
      BY <1>10, SchedulerAssumption DEF OthersStay
    <2>2. \A s : (\E v \in Workers : WillSee(v, s)) => \E v \in Workers : WillSee(v, s)'
      BY <1>10, <2>1 DEF WillSee, Executing
    <2>3. (AllParked => AllParked') /\ (AllLeaving => AllLeaving')
      BY <2>1 DEF AllParked, AllLeaving
    <2> QED
      BY <1>10, <2>2, <2>3 DEF Visibility
  <1>11. ASSUME NEW m \in Mutators, FlushBarrier(m) PROVE Visibility'
    <2>1. PICK p \in WorkPackets :
             /\ packet'[p] \in {InBucket(SecondSTW), Postponed}
             /\ \A q \in Packets \ {p} : packet'[q] = packet[q]
      BY <1>11, Flushed
    <2>2. mpc[m] = "running" /\ UNCHANGED <<wpc, cursor, active, disabled>>
      BY <1>11, Flushed DEF buckets
    <2>3. SecondSTW \notin active
      BY <2>2, SMT DEF SchedulerInv, World, Quiet, SecondSTW, Unconstrained
    <2>4. packet'[p].at = "bucket" => packet'[p].stage \notin active
      BY <2>1, <2>3, AtFields, SMT DEF InBucket, Postponed
    <2>5. OthersStay(NoWorker)
      BY <2>2 DEF OthersStay
    <2> QED
      BY <1>10, <2>1, <2>2, <2>4, <2>5
  <1>12. ASSUME NEW m \in Mutators, Mutate(m), ~FlushBarrier(m), ~Respawn(m)
         PROVE  Visibility'
    BY <1>10, <1>12, MutatePackets, MutateFrame DEF buckets, polling
  <1>13. CASE UNCHANGED vars
    BY <1>10, <1>13 DEF vars, OthersStay, buckets, polling
  <1> QED
    BY <1>2, <1>3, <1>4, <1>5, <1>6, <1>7, <1>8, <1>9, <1>11, <1>12, <1>13
       DEF Next, WorkerStep, Poll, TakesPacket, Execute, ParkAndWait, Mutate
-----------------------------------------------------------------------------
\* The invariant holds when the workers have been spawned.
LEMMA InvInit == Init => SchedulerInv
  <1> HAVE Init
  <1>1. TypeOK
    BY TypeInit
  <1>2. ParkedCount
    <2>1. ParkedWorkers = {}
      BY DEF Init, ParkedWorkers
    <2> QED
      BY <2>1, FS_EmptySet DEF Init, ParkedCount
  <1>3. /\ \A p \in Packets : packet[p].at = "free" /\ packet[p].stage = Unconstrained
        /\ \A w \in Workers : wpc[w] = "own"
        /\ \A m \in Mutators : mpc[m] = "running"
    BY AtFields, SMT DEF Init, Free
  <1>4. Ownership /\ Visibility /\ World
    BY <1>3 DEF Init, Ownership, Visibility, World, Executing, NoGoal, GoalGc
  <1>5. ForkProtocol /\ RequestProtocol
    BY <1>3 DEF Init, ForkProtocol, RequestProtocol, Forking, Leaving, NoGoal,
                GoalGc, GoalStopForFork
  <1>6. Roles /\ Phases
    BY <1>3, SchedulerAssumption
       DEF Init, Roles, Phases, Starting, StopPending, StopDone, NoGoal, GoalGc,
           Unconstrained, SecondSTW
  <1>7. Staging
    BY <1>3, LastStageAssumption, SMT DEF Init, Staging, PacketDone, STWStages
  <1> QED
    BY <1>1, <1>2, <1>4, <1>5, <1>6, <1>7 DEF SchedulerInv

\* Every step preserves the invariant.
LEMMA InvStep ==
    ASSUME SchedulerInv, [Next]_vars
    PROVE  SchedulerInv'
  <1>1. TypeOK' /\ ParkedCount'
    BY TypeStep DEF SchedulerInv
  <1>2. Ownership' /\ World' /\ ForkProtocol' /\ RequestProtocol'
    BY <1>1, OwnershipStep, WorldStep, ForkProtocolStep, RequestProtocolStep
  <1>3. Roles' /\ Phases' /\ Staging'
    BY <1>1, RolesStep, PhasesStep, StagingStep
  <1>4. Visibility'
    BY <1>1, <1>2, VisibilityStep
  <1> QED
    BY <1>1, <1>2, <1>3, <1>4 DEF SchedulerInv

(***************************************************************************)
(* The inductive invariant: packets have one owner, pause buckets are open *)
(* only in a pause and in order, a wish for a GC or for a fork is in one   *)
(* place, and nobody overlooks an available packet.                        *)
(***************************************************************************)
THEOREM SchedulerInvariant == Spec => []SchedulerInv
  BY InvInit, InvStep, PTL DEF Spec
-----------------------------------------------------------------------------
\* When a packet of a stage of the pause runs, the packets of the earlier
\* stages are done (notify_mutators_paused and update_buckets,
\* scheduler.rs:452-513, 947-978).
THEOREM StagesInOrderThm == Spec => []StagesInOrder
  <1>1. SchedulerInv => StagesInOrder
    <2> HAVE SchedulerInv
    <2> SUFFICES ASSUME NEW p \in Packets, packet[p].at = "exec",
                        NEW s \in 1 .. (packet[p].stage - 1), Outstanding(s) # {}
                 PROVE  FALSE
      BY DEF StagesInOrder
    <2>1. packet[p].stage \in Stages /\ packet[p].stage \in active
      BY DEF SchedulerInv, TypeOK, PacketStates, Staging
    <2>2. PICK q \in Packets : packet[q].stage = s /\ ~PacketDone(q)
      BY DEF Outstanding, PacketDone
    <2>3. s > Unconstrained /\ s < packet[p].stage
      BY <2>1, LastStageAssumption, SMT DEF Stages, Unconstrained
    <2>4. Staging
      BY DEF SchedulerInv
    <2> QED
      BY <2>1, <2>2, <2>3, <2>4, LastStageAssumption, SMT
         DEF Staging, Stages, Unconstrained
  <1> QED
    BY <1>1, SchedulerInvariant, PTL

\* Packets of the pause run only while no mutator does (StopMutators,
\* gc_work.rs:219-276; resume_mutators, scheduler.rs:905).
THEOREM PausePacketsThm == Spec => []PausePacketsWhilePaused
  <1>1. SchedulerInv => PausePacketsWhilePaused
    BY DEF SchedulerInv, Staging, World, Quiet, PausePacketsWhilePaused
  <1> QED
    BY <1>1, SchedulerInvariant, PTL

\* The assertion of `on_last_parked` (scheduler.rs:664-669) never fails: no GC
\* is requested while one is in progress.
THEOREM NoRequestDuringGCThm == Spec => []NoRequestDuringGC
  <1>1. SchedulerInv => NoRequestDuringGC
    BY DEF SchedulerInv, RequestProtocol, NoRequestDuringGC
  <1> QED
    BY <1>1, SchedulerInvariant, PTL

\* Once StopForFork is the goal no worker polls or waits again (the panic of
\* `on_last_parked`, scheduler.rs:691-696), and workers surrender only to a
\* prepared buffer (worker.rs:467-481).
THEOREM ForkStopsWorkersThm == Spec => []ForkStopsWorkers
  <1>1. SchedulerInv => ForkStopsWorkers
    BY DEF SchedulerInv, TypeOK, ForkProtocol, AllLeaving, Leaving, ForkStopsWorkers
  <1> QED
    BY <1>1, SchedulerInvariant, PTL

\* The goal of a GC is reached only in `on_gc_finished`.
LEMMA OnlyTheEnd ==
    ASSUME SchedulerInv, [Next]_vars, current = GoalGc, current' # GoalGc
    PROVE  \E w \in Workers : OnGCFinished(w)
  <1>1. TypeOK
    BY DEF SchedulerInv
  <1>2. ASSUME NEW w \in Workers, Poll(w) \/ Spawn(w) \/ Execute(w) PROVE FALSE
    BY <1>1, <1>2, BusyFrame
  <1>3. ASSUME NEW w \in Workers, ParkAndWait(w), ~OnGCFinished(w) PROVE FALSE
    BY <1>3 DEF ParkAndWait, ParkNotLast, FindDesignatedWork, ScheduleSentinels,
                UpdateBuckets, LastParkedIdle, Unpark, Surrender, goals, GoalGc,
                NoGoal, SchedulerInv, ForkProtocol, Leaving, GoalStopForFork
  <1>4. ASSUME NEW m \in Mutators, Mutate(m) PROVE FALSE
    BY <1>1, <1>4, MutateFrame
  <1>5. ASSUME NEW w \in Workers, SpuriousWakeup(w) PROVE FALSE
    BY <1>5 DEF SpuriousWakeup, goals
  <1>6. CASE UNCHANGED vars
    BY <1>6 DEF vars, goals
  <1> QED
    BY <1>2, <1>3, <1>4, <1>5, <1>6 DEF Next, WorkerStep, Mutate

\* A GC ends only when all its packets are done (`on_gc_finished`,
\* scheduler.rs:828-910): none is lost in a bucket `update_buckets` passed.
THEOREM GCEndsWhenDoneThm == Spec => GCEndsWhenDone
  <1>1. SchedulerInv /\ [Next]_vars =>
           [current = GoalGc /\ current' # GoalGc =>
               \A p \in Packets : packet[p].at \in {"free", "postponed"}]_vars
    <2> SUFFICES ASSUME SchedulerInv, [Next]_vars, current = GoalGc, current' # GoalGc
                 PROVE  \A p \in Packets : packet[p].at \in {"free", "postponed"}
      OBVIOUS
    <2>1. PICK w \in Workers : OnGCFinished(w)
      BY OnlyTheEnd
    <2> QED
      BY <2>1, AllDone DEF OnGCFinished, PacketDone
  <1> QED
    BY <1>1, SchedulerInvariant, PTL DEF Spec, GCEndsWhenDone

\* Only `update_buckets` opens a bucket other than the first two.
LEMMA OnlyUpdateBuckets ==
    ASSUME SchedulerInv, [Next]_vars, NEW s \in (active' \ active) \ {FirstSTW, SecondSTW}
    PROVE  \E w \in Workers : UpdateBuckets(w)
  <1>1. TypeOK /\ Unconstrained \in active
    BY DEF SchedulerInv, Roles
  <1>2. ASSUME NEW w \in Workers, Poll(w) \/ Spawn(w) \/ Execute(w) PROVE FALSE
    BY <1>2 DEF Poll, PollDesignated, PollLocal, PollOwnEmpty, PollBucket,
                PollBucketEmpty, Steal, StealEmpty, PollFailed, Spawn, AddToBucket,
                AddToLocal, SetSentinel, AddDesignated, Postpone, Execute,
                FinishPacket, ScheduleCollection, StopAllMutators,
                OpenFirstBucket, CheckSecondBucket, OpenSecondBucket,
                NotifyMutatorsPaused, buckets
  <1>3. ASSUME NEW w \in Workers, ParkAndWait(w), ~UpdateBuckets(w) PROVE FALSE
    BY <1>1, <1>3
       DEF ParkAndWait, ParkNotLast, FindDesignatedWork, ScheduleSentinels,
           LastParkedIdle, OnGCFinished, Unpark, Surrender, buckets
  <1>4. ASSUME NEW m \in Mutators, Mutate(m) PROVE FALSE
    BY <1>1, <1>4, MutateFrame DEF buckets
  <1>5. ASSUME NEW w \in Workers, SpuriousWakeup(w) PROVE FALSE
    BY <1>5 DEF SpuriousWakeup, buckets
  <1>6. CASE UNCHANGED vars
    BY <1>6 DEF vars, buckets
  <1> QED
    BY <1>2, <1>3, <1>4, <1>5, <1>6 DEF Next, WorkerStep, Mutate

\* A bucket the last parked worker opens is opened when no packet runs or is
\* available (`update_buckets`, scheduler.rs:452-513).
THEOREM OpenedWhenQuietThm == Spec => OpenedWhenQuiet
  <1> DEFINE Q == \A s \in (active' \ active) \ {FirstSTW, SecondSTW} :
                     \A p \in Packets :
                        /\ packet[p].at \notin {"exec", "local", "designated"}
                        /\ packet[p].at = "bucket" => packet[p].stage \notin active
  <1>1. SchedulerInv /\ [Next]_vars => [Q]_vars
    <2> SUFFICES ASSUME SchedulerInv, [Next]_vars,
                        NEW s \in (active' \ active) \ {FirstSTW, SecondSTW},
                        NEW p \in Packets
                 PROVE  /\ packet[p].at \notin {"exec", "local", "designated"}
                        /\ packet[p].at = "bucket" => packet[p].stage \notin active
      OBVIOUS
    <2>1. PICK w \in Workers : UpdateBuckets(w)
      BY OnlyUpdateBuckets
    <2>2. AllParkedWith(w) /\ ~HasDesignatedWork
      BY <2>1 DEF UpdateBuckets
    <2>3. packet[p].at # "designated"
      BY <2>2, SMT DEF HasDesignatedWork, Designated, SchedulerInv, Ownership
    <2> QED
      BY <2>2, <2>3, AtLastPark
  <1> QED
    BY <1>1, SchedulerInvariant, PTL DEF Spec, OpenedWhenQuiet

\* Only the last parked worker takes a packet out of a sentinel slot, in
\* `schedule_sentinels` or in `update_buckets`.
LEMMA OnlyLastParkedSchedules ==
    ASSUME SchedulerInv, [Next]_vars, NEW p \in Packets,
           packet[p].at = "sentinel", packet'[p].at # "sentinel"
    PROVE  \E w \in Workers : ScheduleSentinels(w) \/ UpdateBuckets(w)
  <1>1. TypeOK /\ p # SC /\ p # SM /\ packet[p] # Free
    BY AtFields, SMT DEF SchedulerInv, Roles, Free
  <1>2. ASSUME NEW w \in Workers, Poll(w) PROVE FALSE
    BY <1>1, <1>2
       DEF Poll, PollDesignated, PollLocal, PollOwnEmpty, PollBucket,
           PollBucketEmpty, Steal, StealEmpty, PollFailed, Designated, Local,
           Bucket, TypeOK
  <1>3. ASSUME NEW w \in Workers, Spawn(w) PROVE FALSE
    BY <1>1, <1>3
       DEF Spawn, AddToBucket, AddToLocal, SetSentinel, AddDesignated, Postpone,
           FreePackets, TypeOK
  <1>4. ASSUME NEW w \in Workers, Execute(w) PROVE FALSE
    BY <1>1, <1>4
       DEF Execute, FinishPacket, ScheduleCollection, StopAllMutators,
           OpenFirstBucket, CheckSecondBucket, OpenSecondBucket,
           NotifyMutatorsPaused, TypeOK
  <1>5. ASSUME NEW w \in Workers, ParkNotLast(w) \/ FindDesignatedWork(w)
                                  \/ Unpark(w) \/ Surrender(w)
        PROVE  FALSE
    BY <1>5 DEF ParkNotLast, FindDesignatedWork, Unpark, Surrender
  <1>6. ASSUME NEW w \in Workers, LastParkedIdle(w) PROVE FALSE
    BY <1>1, <1>6 DEF LastParkedIdle, RespondToRequests, TypeOK
  <1>7. ASSUME NEW w \in Workers, OnGCFinished(w) PROVE FALSE
    BY <1>1, <1>7 DEF OnGCFinished, RespondToRequests, PostponedPackets, TypeOK
  <1>8. ASSUME NEW m \in Mutators, Mutate(m) PROVE FALSE
    BY <1>1, <1>8
       DEF Mutate, MutatorStep, SwapRequestFlag, RequestGC, RequestStopForFork,
           Respawn, LoadRequestFlag, FlushBarrier, PrepareSurrenderBuffer,
           FreePackets, TypeOK
  <1>9. ASSUME NEW w \in Workers, SpuriousWakeup(w) PROVE FALSE
    BY <1>9 DEF SpuriousWakeup
  <1>10. CASE UNCHANGED vars
    BY <1>10 DEF vars
  <1> QED
    BY <1>2, <1>3, <1>4, <1>5, <1>6, <1>7, <1>8, <1>9, <1>10
       DEF Next, WorkerStep, ParkAndWait, Mutate

\* A sentinel becomes runnable after everything that comes before it: the
\* packets of its own stage, and all of the earlier stages
\* (`maybe_schedule_sentinel`, work_bucket.rs:278-296).
THEOREM SentinelsLastThm == Spec => SentinelsLast
  <1> DEFINE Before(p, q) ==
                \/ packet[q].at \in {"free", "postponed"}
                \/ packet[q].stage > packet[p].stage
                \/ packet[q].at = "sentinel" /\ packet[q].stage = packet[p].stage
             Q == \A p \in Packets :
                     packet[p].at = "sentinel" /\ packet'[p].at # "sentinel" =>
                        \A q \in Packets : Before(p, q)
  <1>1. SchedulerInv /\ [Next]_vars => [Q]_vars
    <2> SUFFICES ASSUME SchedulerInv, [Next]_vars, NEW p \in Packets,
                        packet[p].at = "sentinel", packet'[p].at # "sentinel",
                        NEW q \in Packets, ~Before(p, q)
                 PROVE  FALSE
      OBVIOUS
    <2>1. PICK w \in Workers : ScheduleSentinels(w) \/ UpdateBuckets(w)
      BY OnlyLastParkedSchedules
    <2>2. AllParkedWith(w) /\ ~HasDesignatedWork
      BY <2>1 DEF ScheduleSentinels, UpdateBuckets
    <2>3. packet[q].at # "designated"
      BY <2>2, SMT DEF HasDesignatedWork, Designated, SchedulerInv, Ownership
    <2>4. /\ packet[q].at \notin {"exec", "local", "designated"}
          /\ packet[q].at = "bucket" => packet[q].stage \notin active
      BY <2>2, <2>3, AtLastPark
    <2>5. /\ packet[p].stage \in Stages /\ packet[q].stage \in Stages
          /\ packet[q].at \in Places
          /\ packet[q].stage <= packet[p].stage
      <3>1. packet[p].stage \in Stages /\ packet[q].stage \in Stages /\ packet[q].at \in Places
        BY DEF SchedulerInv, TypeOK, PacketStates
      <3> QED
        BY <3>1, SMT DEF Stages
    <2>6. packet[q].at \in {"bucket", "sentinel"} /\ ~PacketDone(q) /\ ~PacketDone(p)
      BY <2>4, <2>5 DEF Places, PacketDone
    <2>7. packet[q].stage # FirstSTW /\ packet[q].stage \notin disabled
      BY <2>6 DEF SchedulerInv, Staging
    <2>8. Unconstrained \in active
      BY DEF SchedulerInv, Roles
    <2>9. CASE ScheduleSentinels(w)
      <3>1. packet[p].stage \in active
        BY <2>9 DEF ScheduleSentinels, SentinelsQueued, SentinelsToSchedule, TypeOK, SchedulerInv
      <3>2. CASE packet[q].stage = Unconstrained
        BY <2>4, <2>6, <2>8, <3>2 DEF SchedulerInv, Staging
      <3>3. CASE packet[q].stage # Unconstrained
        <4>1. packet[p].stage <= packet[q].stage
          BY <2>6, <3>1, <3>3 DEF SchedulerInv, Staging
        <4>2. packet[q].stage = packet[p].stage
          BY <2>5, <4>1, SMT DEF Stages
        <4> QED
          BY <2>4, <2>6, <3>1, <4>2
      <3> QED
        BY <3>2, <3>3
    <2>10. CASE UpdateBuckets(w)
      <3> DEFINE s == packet[p].stage
                 j == packet[q].stage
      <3>1. s \in Opened /\ s \notin Full
        BY <2>10 DEF UpdateBuckets, SentinelsQueued, SentinelsOnOpen, TypeOK, SchedulerInv
      <3>2. packet[q].at = "bucket" => j \in Full
        BY <2>5 DEF Full, Bucket
      <3>3. packet[q].at = "sentinel" => j \in Sentinels /\ j \notin active
        BY <2>5, <2>10 DEF Sentinels, UpdateBuckets, SentinelsToSchedule
      <3>4. CASE j = s
        BY <2>6, <3>1, <3>2, <3>4
      <3>5. CASE j = Unconstrained
        BY <2>4, <2>6, <2>8, <3>5 DEF SchedulerInv, Staging
      <3>6. CASE j # s /\ j # Unconstrained
        <4>1. j \in 1 .. (s - 1)
          BY <2>5, <3>6, LastStageAssumption, SMT DEF Stages, Unconstrained
        <4>2. Passes(j, active, disabled, Full, Sentinels, progress)
          BY <3>1, <4>1 DEF Opened, BucketsToOpen
        <4> QED
          BY <2>6, <2>7, <3>2, <3>3, <4>2 DEF Passes
      <3> QED
        BY <3>4, <3>5, <3>6
    <2> QED
      BY <2>1, <2>9, <2>10
  <1> QED
    BY <1>1, SchedulerInvariant, PTL DEF Spec, SentinelsLast
-----------------------------------------------------------------------------
\* No packet is available when the last worker parks and there is no goal.
LEMMA NothingAvailable ==
    ASSUME SchedulerInv, NEW w \in Workers, AllParkedWith(w), current # GoalGc,
           NEW p \in Packets
    PROVE  ~Available(p)
  <1>1. packet[p].at # "designated"
    BY DEF SchedulerInv, Staging, Phases
  <1> QED
    BY <1>1, AtLastPark DEF Available

\* With two workers or more, every step preserves Wakefulness: the worker that
\* ends a GC makes the postponed packets available and wakes the others.
LEMMA WakefulnessStep ==
    ASSUME \E v, w \in Workers : v # w,
           SchedulerInv, SchedulerInv', Wakefulness, [Next]_vars
    PROVE  Wakefulness'
  <1> TypeOK /\ TypeOK' /\ ParkedCount
    BY DEF SchedulerInv
  <1>1. ASSUME NEW w \in Workers, wpc'[w] \notin {"waiting", "woken"} PROVE Wakefulness'
    BY <1>1 DEF Wakefulness, AllParked
  <1>2. ASSUME NEW w \in Workers, Poll(w) \/ Spawn(w) \/ Execute(w) PROVE Wakefulness'
    BY <1>1, <1>2, BusyFrame DEF Polling, Executing
  <1>3. ASSUME NEW w \in Workers, ParkNotLast(w) PROVE Wakefulness'
    <2>1. PICK v \in Workers \ {w} : wpc[v] \notin {"waiting", "woken"}
      BY <1>3, NotLastParked
    <2>2. wpc'[v] = wpc[v]
      BY <1>3, <2>1 DEF ParkNotLast, Move, TypeOK
    <2> QED
      BY <1>1, <2>1, <2>2
  <1>4. ASSUME NEW w \in Workers, FindDesignatedWork(w) \/ ScheduleSentinels(w)
                  \/ UpdateBuckets(w) \/ Unpark(w) \/ Surrender(w)
        PROVE  Wakefulness'
    BY <1>1, <1>4 DEF FindDesignatedWork, ScheduleSentinels, UpdateBuckets, Unpark,
                      Surrender, WakeAll, MoveAndNotify, Move, TypeOK
  <1>5. ASSUME NEW w \in Workers, LastParkedIdle(w) PROVE Wakefulness'
    <2>1. AllParkedWith(w) /\ current # GoalGc
      BY <1>5, Idle DEF GoalGc, NoGoal
    <2>2. CASE wpc'[w] # "waiting"
      BY <1>1, <1>5, <2>2, Idle
    <2>3. CASE wpc'[w] = "waiting"
      <3>1. UNCHANGED <<packet, active, disabled>>
        BY <1>5, <2>3, Idle DEF buckets
      <3>2. \A p \in Packets : ~Available(p)'
        BY <2>1, <3>1, NothingAvailable DEF Available
      <3>3. requests' = {}
        <4>1. RespondToRequests(w, {}, packet) /\ {} \in SUBSET Waiting
          BY <1>5 DEF LastParkedIdle
        <4>2. current' # GoalGc /\ current' # GoalStopForFork
          BY <2>1, <2>3, <4>1, Responded
        <4>3. current' = NoGoal
          BY <4>2 DEF TypeOK, Goals
        <4> QED
          BY <2>1, <4>1, <4>3, Responded
      <3> QED
        BY <3>2, <3>3 DEF Wakefulness
    <2> QED
      BY <2>2, <2>3
  <1>6. ASSUME NEW w \in Workers, OnGCFinished(w) PROVE Wakefulness'
    <2> DEFINE S == IF PostponedPackets = {} THEN {} ELSE Waiting
    <2>1. /\ AllParkedWith(w) /\ packet' = EndPackets
          /\ wpc'[w] \in {"waiting", "exiting"}
          /\ current' \in {NoGoal, GoalStopForFork}
      BY <1>6, EndOfGC
    <2>2. RespondToRequests(w, S, EndPackets)
      BY <1>6 DEF OnGCFinished, EndPackets
    <2>3. S \in SUBSET Waiting
      OBVIOUS
    <2>4. CASE wpc'[w] = "exiting"
      BY <1>1, <2>4
    <2>5. CASE wpc'[w] = "waiting"
      <3> HIDE DEF S
      <3>1. current' = NoGoal
        BY <2>1, <2>2, <2>3, <2>5, Responded
      <3>2. requests' = {}
        BY <2>1, <2>2, <2>3, <3>1, Responded
      <3>3. MoveAndNotify(w, "waiting", S)
        BY <2>2, <3>1 DEF RespondToRequests, NoGoal, GoalGc, GoalStopForFork
      <3>4. CASE PostponedPackets = {}
        <4>1. \A p \in Packets : packet[p].at = "free"
          BY <1>6, <3>4, AllDone DEF OnGCFinished, PostponedPackets, PacketDone
        <4>2. \A p \in Packets : packet'[p].at = "free"
          BY <2>1, <3>4, <4>1 DEF EndPackets
        <4> QED
          BY <3>2, <4>2 DEF Wakefulness, Available
      <3>5. CASE PostponedPackets # {}
        <4>1. PICK v \in Workers \ {w} : TRUE
          BY SMT
        <4>2. wpc[v] \in {"waiting", "woken"}
          BY <2>1, <4>1, LastParked
        <4>3. wpc'[v] = "woken"
          BY <3>3, <3>5, <4>1, <4>2 DEF S, MoveAndNotify, Waiting
        <4> QED
          BY <3>2, <4>1, <4>3 DEF Wakefulness
      <3> QED
        BY <3>4, <3>5
    <2> QED
      BY <2>1, <2>4, <2>5
  <1>7. ASSUME NEW w \in Workers, SpuriousWakeup(w) PROVE Wakefulness'
    BY <1>7 DEF SpuriousWakeup, Move, TypeOK, Wakefulness
  <1>8. ASSUME NEW m \in Mutators, Respawn(m) PROVE Wakefulness'
    BY <1>1, <1>8 DEF Respawn
  <1>9. ASSUME OthersStay(NoWorker), UNCHANGED <<active, disabled>>,
               \A p \in Packets :
                  \/ packet'[p] = packet[p]
                  \/ /\ packet'[p].at \in {"bucket", "postponed"}
                     /\ packet'[p].at = "bucket" => packet'[p].stage \notin active,
               requests' # {} => \E w \in Workers : wpc'[w] # "waiting"
        PROVE  Wakefulness'
    <2>1. \A v \in Workers : \/ wpc'[v] = wpc[v]
                             \/ wpc[v] = "waiting" /\ wpc'[v] = "woken"
      BY <1>9, SchedulerAssumption DEF OthersStay
    <2>2. AllParked' => AllParked
      BY <2>1 DEF AllParked
    <2>3. \A p \in Packets : Available(p)' => Available(p)
      BY <1>9 DEF Available
    <2> QED
      BY <1>9, <2>1, <2>2, <2>3 DEF Wakefulness
  <1>10. ASSUME NEW m \in Mutators, FlushBarrier(m) PROVE Wakefulness'
    <2>1. PICK p \in WorkPackets :
             /\ packet'[p] \in {InBucket(SecondSTW), Postponed}
             /\ \A q \in Packets \ {p} : packet'[q] = packet[q]
      BY <1>10, Flushed
    <2>2. mpc[m] = "running" /\ UNCHANGED <<wpc, active, disabled, requests>>
      BY <1>10, Flushed DEF buckets, goals
    <2>3. SecondSTW \notin active
      BY <2>2, SMT DEF SchedulerInv, World, Quiet, SecondSTW, Unconstrained
    <2>4. /\ packet'[p].at \in {"bucket", "postponed"}
          /\ packet'[p].at = "bucket" => packet'[p].stage \notin active
      BY <2>1, <2>3, AtFields, SMT DEF InBucket, Postponed
    <2> QED
      BY <1>9, <2>1, <2>2, <2>4 DEF OthersStay, Wakefulness
  <1>11. ASSUME NEW m \in Mutators, Mutate(m), ~FlushBarrier(m), ~Respawn(m)
         PROVE  Wakefulness'
    <2>1. /\ OthersStay(NoWorker) /\ UNCHANGED <<packet, active, disabled>>
      BY <1>11, MutatePackets, MutateFrame DEF buckets
    <2>2. \A v \in Workers : wpc[v] # "waiting" => wpc'[v] # "waiting"
      BY <2>1, SchedulerAssumption DEF OthersStay
    <2>3. CASE UNCHANGED requests
      BY <1>9, <2>1, <2>2, <2>3 DEF Wakefulness
    <2>4. ASSUME NEW goal, MakeRequest(goal) PROVE Wakefulness'
      <3>1. PICK S \in IF NewlyRequested(requests, goal) THEN NotifyOne ELSE {{}} :
               NotifyWorkers(S)
        BY <2>4 DEF MakeRequest
      <3>2. CASE ~NewlyRequested(requests, goal)
        BY <2>3, <2>4, <3>2 DEF MakeRequest, NewlyRequested, SetRequest
      <3>3. CASE NewlyRequested(requests, goal) /\ Waiting = {}
        BY <1>9, <2>1, <2>2, <3>3, SchedulerAssumption DEF Waiting
      <3>4. CASE NewlyRequested(requests, goal) /\ Waiting # {}
        <4>1. PICK v \in Waiting : S = {v}
          BY <3>1, <3>4 DEF NotifyOne
        <4>2. v \in Workers /\ wpc'[v] = "woken"
          BY <3>1, <4>1 DEF NotifyWorkers, Waiting
        <4> QED
          BY <1>9, <2>1, <4>2
      <3> QED
        BY <3>2, <3>3, <3>4
    <2> QED
      BY <1>11, <2>3, <2>4
         DEF Mutate, MutatorStep, LoadRequestFlag, SwapRequestFlag, RequestGC,
             PrepareSurrenderBuffer, RequestStopForFork, goals
  <1>12. CASE UNCHANGED vars
    BY <1>9, <1>12 DEF vars, OthersStay, buckets, goals, Wakefulness
  <1> QED
    BY <1>2, <1>3, <1>4, <1>5, <1>6, <1>7, <1>8, <1>10, <1>11, <1>12
       DEF Next, WorkerStep, ParkAndWait, Mutate

\* With two workers or more, workers sleep only when there is nothing to do
\* (the condition variable's contract, worker_monitor.rs:36-38, 183-225).
THEOREM SleepOnlyIfNothingToDoThm ==
    ASSUME \E v, w \in Workers : v # w
    PROVE  Spec => []SleepOnlyIfNothingToDo
  <1>1. Init => Wakefulness
    BY SchedulerAssumption DEF Init, Wakefulness, AllParked
  <1>2. SchedulerInv /\ SchedulerInv' /\ Wakefulness /\ [Next]_vars => Wakefulness'
    BY WakefulnessStep
  <1>3. Wakefulness => SleepOnlyIfNothingToDo
    BY SchedulerAssumption DEF Wakefulness, SleepOnlyIfNothingToDo, Waiting, AllParked
  <1> QED
    BY <1>1, <1>2, <1>3, SchedulerInvariant, PTL DEF Spec

\* The stages of a pause run in order and with the mutators stopped, a GC is
\* not requested twice, and a fork finds the workers leaving (on_last_parked,
\* notify_mutators_paused, request_schedule_collection, surrender_gc_worker).
THEOREM SchedulerSafetyThm == Spec => []SchedulerSafety
  <1>1. StagesInOrder /\ PausePacketsWhilePaused /\ NoRequestDuringGC /\ ForkStopsWorkers
        => SchedulerSafety
    BY DEF SchedulerSafety
  <1> QED
    BY <1>1, StagesInOrderThm, PausePacketsThm, NoRequestDuringGCThm, ForkStopsWorkersThm, PTL

\* No step opens a bucket while a packet can run, schedules a sentinel early,
\* or ends a GC with packets left (update_buckets, schedule_sentinels,
\* on_gc_finished).
THEOREM PauseProtocolThm == Spec => PauseProtocol
  BY OpenedWhenQuietThm, SentinelsLastThm, GCEndsWhenDoneThm DEF PauseProtocol

-----------------------------------------------------------------------------
(***************************************************************************)
(* The scheduler implements StagedPause.                                   *)
(***************************************************************************)

\* The abstract work: what is outstanding, for each stage of a pause.
WorkToDo == [s \in STWStages |-> Outstanding(s)]

\* A packet in this place counts as work of stage s.
Counts(place, s) ==
    /\ place.stage = s
    /\ place.at \in {"bucket", "sentinel", "local", "designated", "exec"}
-----------------------------------------------------------------------------
(***************************************************************************)
(* The stage of the pause.                                                 *)
(***************************************************************************)
\* A set of stages that is not empty has a last one, and only one.
LEMMA LastOf ==
    ASSUME NEW A \in SUBSET Stages, A # {},
           NEW c, c = CHOOSE s \in A : \A t \in A : t <= s
    PROVE  /\ c \in A /\ c \in Nat /\ \A t \in A : t <= c
           /\ \A s \in A : (\A t \in A : t <= s) => s = c
  <1> DEFINE S == {LastStage - s : s \in A}
  <1>0. \A s \in A : s \in Nat /\ LastStage - s \in Stages
    BY LastStageAssumption, SMT DEF Stages
  <1>1. S \in SUBSET Stages /\ S # {} /\ \A s \in A : s \in Nat
    BY <1>0
  <1>2. PICK d \in S : \A e \in S : d <= e
    BY <1>1, FirstOf
  <1>3. PICK s \in A : d = LastStage - s
    BY <1>2
  <1>4. \A t \in A : LastStage - s <= LastStage - t
    BY <1>2, <1>3
  <1>5. \A t \in A : t <= s
    BY <1>1, <1>4, LastStageAssumption, SMT
  <1>6. c \in A /\ \A t \in A : t <= c
    BY <1>5
  <1>7. ASSUME NEW u \in A, \A t \in A : t <= u PROVE u = c
    <2>1. u <= c /\ c <= u /\ u \in Nat /\ c \in Nat
      BY <1>1, <1>6, <1>7
    <2> QED
      BY <2>1, SMT
  <1> QED
    BY <1>1, <1>6, <1>7

\* The stage of the pause is the latest open bucket.
LEMMA StageIsLatest ==
    ASSUME SchedulerInv
    PROVE  /\ CurrentStage \in active /\ CurrentStage \in Nat
           /\ \A t \in active : t <= CurrentStage
           /\ \A s \in active : NotBeforeOpen(s) => s = CurrentStage
  <1>1. active \in SUBSET Stages /\ active # {}
    BY DEF SchedulerInv, TypeOK, Roles
  <1>2. CurrentStage = CHOOSE s \in active : \A t \in active : t <= s
    BY DEF CurrentStage, NotBeforeOpen
  <1> QED
    BY <1>1, <1>2, LastOf DEF NotBeforeOpen

\* The same of the stage after a step.
LEMMA NextStageIsLatest ==
    ASSUME SchedulerInv', NEW s \in active', \A t \in active' : t <= s
    PROVE  CurrentStage' = s
  <1>1. active' \in SUBSET Stages /\ active' # {}
    BY DEF SchedulerInv, TypeOK, Roles
  <1>2. CurrentStage' = CHOOSE u \in active' : \A t \in active' : t <= u
    BY DEF CurrentStage, NotBeforeOpen
  <1> QED
    BY <1>1, <1>2, LastOf
-----------------------------------------------------------------------------
(***************************************************************************)
(* The steps of StagedPause.                                               *)
(***************************************************************************)
\* The abstract work of a stage, packet by packet.
LEMMA WorkOf ==
    /\ \A s \in STWStages : WorkToDo[s] = {p \in Packets : Counts(packet[p], s)}
    /\ \A s \in STWStages : WorkToDo'[s] = {p \in Packets : Counts(packet'[p], s)}
  BY DEF WorkToDo, Outstanding, Counts

\* A packet that moves within its stage, or that is of no stage of a pause
\* before and after the step, leaves the abstract work alone.
LEMMA WorkKept ==
    ASSUME \A p \in Packets : \A s \in STWStages :
              Counts(packet'[p], s) <=> Counts(packet[p], s)
    PROVE  WorkToDo' = WorkToDo
  <1>1. \A s \in STWStages : Outstanding(s)' = Outstanding(s)
    BY DEF Outstanding, Counts
  <1> QED
    BY <1>1 DEF WorkToDo

\* A packet of the Unconstrained bucket is no work of a pause.
LEMMA NoWork ==
    ASSUME NEW place, place.stage = Unconstrained \/ place.at \in {"free", "postponed"},
           NEW s \in STWStages
    PROVE  ~Counts(place, s)
  BY LastStageAssumption, SMT DEF Counts, STWStages, Unconstrained

\* A step that leaves the collection, the pause, the open buckets and the
\* abstract work alone.
LEMMA Stutters ==
    ASSUME UNCHANGED <<active, in_gc_pause>>, current' = GoalGc <=> current = GoalGc,
           WorkToDo' = WorkToDo
    PROVE  UNCHANGED Pause!vars
  <1>1. CurrentStage' = CurrentStage
    BY DEF CurrentStage, NotBeforeOpen
  <1> QED
    BY <1>1 DEF Pause!vars, WorkToDo

\* A new packet for the stage the pause is in or a later one.
LEMMA Adds ==
    ASSUME SchedulerInv, UNCHANGED <<active, in_gc_pause, current>>,
           NEW p \in WorkPackets, NEW s \in STWStages, NotBeforeOpen(s),
           packet[p] = Free, Counts(packet'[p], s),
           \A q \in Packets \ {p} : packet'[q] = packet[q]
    PROVE  Pause!Next
  <1>1. s >= CurrentStage
    BY StageIsLatest, SMT DEF NotBeforeOpen, STWStages
  <1>2. p \in Packets /\ \A t \in STWStages : ~Counts(packet[p], t)
    BY AtFields, SMT DEF Free, Counts, WorkPackets
  <1>3. \A t \in STWStages : Counts(packet'[p], t) <=> t = s
    BY DEF Counts
  <1>4. \A t \in STWStages :
           WorkToDo'[t] = IF t = s THEN WorkToDo[t] \cup {p} ELSE WorkToDo[t]
    BY <1>2, <1>3, WorkOf
  <1>5. WorkToDo' = [WorkToDo EXCEPT ![s] = @ \cup {p}]
    BY <1>4 DEF WorkToDo
  <1>6. p \notin UNION {WorkToDo[t] : t \in STWStages}
    <2> \A t \in STWStages : p \notin WorkToDo[t]
      BY <1>2, WorkOf
    <2> QED
      OBVIOUS
  <1>7. CurrentStage' = CurrentStage
    BY DEF CurrentStage, NotBeforeOpen
  <1>8. Pause!Add(s, p)
    BY <1>1, <1>5, <1>6, <1>7 DEF Pause!Add, WorkToDo
  <1> QED
    BY <1>8 DEF Pause!Next

\* A packet of the stage the pause is in is done.
LEMMA Does ==
    ASSUME SchedulerInv, UNCHANGED <<active, in_gc_pause, current>>, in_gc_pause,
           NEW p \in WorkPackets, CurrentStage \in STWStages,
           Counts(packet[p], CurrentStage), packet'[p] = Free,
           \A q \in Packets \ {p} : packet'[q] = packet[q]
    PROVE  Pause!Next
  <1>1. p \in Packets /\ \A t \in STWStages : ~Counts(packet'[p], t)
    BY AtFields, SMT DEF Free, Counts, WorkPackets
  <1>2. \A t \in STWStages : Counts(packet[p], t) <=> t = CurrentStage
    BY DEF Counts
  <1>3. \A t \in STWStages :
           WorkToDo'[t] = IF t = CurrentStage THEN WorkToDo[t] \ {p} ELSE WorkToDo[t]
    BY <1>1, <1>2, WorkOf
  <1>4. WorkToDo' = [WorkToDo EXCEPT ![CurrentStage] = @ \ {p}]
    BY <1>3 DEF WorkToDo
  <1>5. p \in WorkToDo[CurrentStage]
    BY <1>1, WorkOf
  <1>6. CurrentStage' = CurrentStage
    BY DEF CurrentStage, NotBeforeOpen
  <1>7. Pause!Do(CurrentStage, p)
    BY <1>4, <1>5, <1>6 DEF Pause!Do, WorkToDo
  <1> QED
    BY <1>7 DEF Pause!Next

\* The pause enters stage x, which becomes the latest open bucket.
LEMMA Enters ==
    ASSUME SchedulerInv', UNCHANGED <<in_gc_pause, current>>, WorkToDo' = WorkToDo,
           in_gc_pause, NEW x \in STWStages, x > CurrentStage,
           x \in active', \A t \in active' : t <= x,
           \A p \in Packets, s \in STWStages : s < x => ~Counts(packet[p], s)
    PROVE  Pause!Next
  <1>1. CurrentStage' = x
    BY NextStageIsLatest
  <1>2. \A s \in STWStages : s < x => WorkToDo[s] = {}
    BY WorkOf
  <1>3. Pause!Enter(x)
    BY <1>1, <1>2 DEF Pause!Enter, Pause!DoneBefore, WorkToDo
  <1> QED
    BY <1>3 DEF Pause!Next
-----------------------------------------------------------------------------
\* The scheduler starts where StagedPause starts.
LEMMA RefinementInit == Init => Pause!Init
  <1> HAVE Init
  <1>1. SchedulerInv
    BY InvInit
  <1>2. CurrentStage = 0
    BY <1>1, StageIsLatest DEF Init, Unconstrained
  <1>3. \A s \in STWStages : Outstanding(s) = {}
    BY AtFields, SMT DEF Init, Free, Outstanding
  <1>4. WorkToDo = [s \in STWStages |-> {}]
    BY <1>3 DEF WorkToDo
  <1> QED
    BY <1>2, <1>4 DEF Init, Pause!Init, WorkToDo, NoGoal, GoalGc

\* Opening the first two buckets (`notify_mutators_paused`) enters a stage,
\* unless the pause is past the second one.
LEMMA OpeningRefines ==
    ASSUME SchedulerInv, SchedulerInv', NEW w \in Workers,
           OpenFirstBucket(w) \/ OpenSecondBucket(w)
    PROVE  [Pause!Next]_Pause!vars
  <1>1. UNCHANGED <<packet, in_gc_pause, current>> /\ WorkToDo' = WorkToDo
    BY WorkKept DEF OpenFirstBucket, OpenSecondBucket, goals, mutators
  <1>2. in_gc_pause
    BY OpeningFirst, OpeningSecond DEF OpenSecondBucket
  <1>3. \A p \in Packets : ~Counts(packet[p], FirstSTW)
    BY DEF SchedulerInv, Staging, PacketDone, Counts
  <1>4. CASE OpenFirstBucket(w)
    <2>1. active \subseteq {Unconstrained}
      BY <1>4, OpeningFirst DEF SchedulerInv, World
    <2>2. CurrentStage = Unconstrained
      BY <2>1, StageIsLatest
    <2>3. FirstSTW \in active' /\ \A t \in active' : t <= FirstSTW
      BY <1>4, <2>1, SMT DEF OpenFirstBucket, FirstSTW, Unconstrained
    <2>4. FirstSTW \in STWStages /\ FirstSTW > CurrentStage
      BY <2>2, LastStageAssumption, SMT DEF FirstSTW, STWStages, Unconstrained
    <2>5. \A s \in STWStages : ~(s < FirstSTW)
      BY LastStageAssumption, SMT DEF FirstSTW, STWStages
    <2> QED
      BY <1>1, <1>2, <2>3, <2>4, <2>5, Enters
  <1>5. CASE OpenSecondBucket(w)
    <2>1. active' = active \cup {SecondSTW}
      BY <1>5 DEF OpenSecondBucket
    <2>2. /\ CurrentStage \in active /\ CurrentStage \in Nat
          /\ \A t \in active : t <= CurrentStage /\ t \in Nat
      BY StageIsLatest, SMT DEF SchedulerInv, TypeOK, Stages
    <2>3. CASE CurrentStage >= SecondSTW
      <3>1. CurrentStage \in active' /\ \A t \in active' : t <= CurrentStage
        BY <2>1, <2>2, <2>3, SMT DEF SecondSTW
      <3>2. CurrentStage' = CurrentStage
        BY <3>1, NextStageIsLatest
      <3> QED
        BY <1>1, <3>2 DEF Pause!vars, WorkToDo
    <2>4. CASE ~(CurrentStage >= SecondSTW)
      <3>1. SecondSTW > CurrentStage /\ SecondSTW \in STWStages
        BY <2>2, <2>4, LastStageAssumption, SMT DEF SecondSTW, STWStages
      <3>2. SecondSTW \in active' /\ \A t \in active' : t <= SecondSTW
        BY <2>1, <2>2, <3>1, SMT DEF SecondSTW
      <3>3. \A s \in STWStages : s < SecondSTW => s = FirstSTW
        BY LastStageAssumption, SMT DEF SecondSTW, FirstSTW, STWStages
      <3> QED
        BY <1>1, <1>2, <1>3, <3>1, <3>2, <3>3, Enters
    <2> QED
      BY <2>3, <2>4
  <1> QED
    BY <1>4, <1>5

\* `update_buckets` enters the stage of the bucket it stopped at: the buckets
\* it passes have nothing to do, and no packet is left before them.
LEMMA UpdateRefines ==
    ASSUME SchedulerInv, SchedulerInv', NEW w \in Workers, UpdateBuckets(w)
    PROVE  Pause!Next
  <1>1. /\ AllParkedWith(w) /\ current = GoalGc /\ ~HasDesignatedWork
        /\ SentinelsToSchedule(active, Sentinels) = {}
        /\ StoppedAt(Opened, Full, Sentinels) # {}
        /\ active' = active \cup Opened
        /\ UNCHANGED <<current, in_gc_pause>>
    BY DEF UpdateBuckets, goals, mutators
  <1>2. TypeOK /\ Staging
    BY DEF SchedulerInv
  <1>3. \A p \in Packets : \A s \in STWStages :
           Counts(packet'[p], s) <=> Counts(packet[p], s)
    BY <1>2, SentinelsMoved, AtFields, SMT DEF Counts
  <1>4. in_gc_pause
    BY <1>1, AtLastPark
  <1>5. PICK x \in Opened : x \in Full \cup Sentinels
    BY <1>1 DEF StoppedAt
  <1>6. x \in STWStages /\ x \notin disabled /\ x \notin active
    BY <1>5 DEF Opened, BucketsToOpen
  <1>7. \A s \in 1 .. (x - 1) : Passes(s, active, disabled, Full, Sentinels, progress)
    BY <1>5 DEF Opened, BucketsToOpen
  <1>8. ASSUME NEW t \in Opened PROVE t <= x
    <2>1. ~Passes(x, active, disabled, Full, Sentinels, progress)
      BY <1>5, <1>6 DEF Passes
    <2>2. t \in STWStages /\ x \notin 1 .. (t - 1)
      BY <2>1 DEF Opened, BucketsToOpen
    <2> QED
      BY <1>6, <2>2, LastStageAssumption, SMT DEF STWStages
  <1>9. ASSUME NEW t \in active PROVE t <= x
    <2>1. PICK p \in Packets : packet[p].stage = x /\ ~PacketDone(p)
      BY <1>5 DEF Full, Bucket, Sentinels, PacketDone
    <2>2. x # Unconstrained
      BY <1>6, LastStageAssumption, SMT DEF STWStages, Unconstrained
    <2> QED
      BY <1>2, <2>1, <2>2 DEF Staging
  <1>10. x > CurrentStage
    <2>1. CurrentStage \in Nat /\ CurrentStage <= x /\ CurrentStage # x
      BY <1>6, <1>9, StageIsLatest
    <2> QED
      BY <1>6, <2>1, LastStageAssumption, SMT DEF STWStages
  <1>11. ASSUME NEW p \in Packets, NEW s \in STWStages, s < x, Counts(packet[p], s)
         PROVE  FALSE
    <2>1. s \in 1 .. (x - 1)
      BY <1>6, <1>11, LastStageAssumption, SMT DEF STWStages
    <2>2. ~PacketDone(p) /\ packet[p].stage = s
      BY <1>11 DEF Counts, PacketDone
    <2>3. s \notin active \cup disabled /\ s \in Full \cup Sentinels
      BY <1>1, <2>2, LeftBehind
    <2> QED
      BY <1>7, <2>1, <2>3 DEF Passes
  <1>12. x \in active' /\ \A t \in active' : t <= x
    BY <1>1, <1>5, <1>8, <1>9
  <1> QED
    BY <1>1, <1>3, <1>4, <1>6, <1>10, <1>11, <1>12, WorkKept, Enters

\* `on_gc_finished` resumes the mutators when nothing is left to do.
LEMMA EndRefines ==
    ASSUME SchedulerInv, SchedulerInv', NEW w \in Workers, OnGCFinished(w)
    PROVE  Pause!Next
  <1>1. TypeOK'
    BY DEF SchedulerInv
  <1>2. /\ AllParkedWith(w) /\ current = GoalGc /\ packet' = EndPackets
        /\ current' # GoalGc /\ active' = {Unconstrained}
    BY <1>1, EndOfGC DEF GoalGc, NoGoal, GoalStopForFork
  <1>3. in_gc_pause /\ in_gc_pause' = FALSE
    BY <1>2, AtLastPark DEF OnGCFinished
  <1>4. \A p \in Packets : PacketDone(p)
    BY AllDone DEF OnGCFinished
  <1>5. \A p \in Packets : \A s \in STWStages : ~Counts(packet[p], s)
    BY <1>4, NoWork DEF PacketDone
  <1>6. \A p \in Packets :
           packet'[p].stage = Unconstrained \/ packet'[p].at \in {"free", "postponed"}
    BY <1>2, <1>4, AtFields, SMT DEF EndPackets, PostponedPackets, PacketDone, InBucket
  <1>7. \A p \in Packets : \A s \in STWStages : ~Counts(packet'[p], s)
    BY <1>6, NoWork
  <1>8. WorkToDo' = WorkToDo
    BY <1>5, <1>7, WorkKept
  <1>9. \A s \in STWStages : WorkToDo[s] = {}
    BY <1>5, WorkOf
  <1>10. CurrentStage' = 0
    BY <1>2, NextStageIsLatest, SMT DEF Unconstrained
  <1>11. Pause!Resume
    BY <1>2, <1>3, <1>8, <1>9, <1>10 DEF Pause!Resume, WorkToDo
  <1> QED
    BY <1>11 DEF Pause!Next

\* Every step of the scheduler is a step of StagedPause or leaves it alone.
LEMMA RefinementStep ==
    ASSUME SchedulerInv, SchedulerInv', [Next]_vars
    PROVE  [Pause!Next]_Pause!vars
  <1> TypeOK /\ TypeOK' /\ Roles /\ Staging
    BY DEF SchedulerInv
  <1> SC \in Packets /\ SM \in Packets
    BY SchedulerAssumption
  <1>1. ASSUME UNCHANGED <<packet, active, in_gc_pause>>,
               current' = GoalGc <=> current = GoalGc
        PROVE  UNCHANGED Pause!vars
    BY <1>1, WorkKept, Stutters
  <1>2. ASSUME NEW w \in Workers, TakesPacket(w) PROVE UNCHANGED Pause!vars
    <2>1. PICK p \in Packets : TakenBy(w, p)
      BY <1>2, Taken
    <2>2. UNCHANGED <<current, buckets, in_gc_pause>>
      BY <1>2, Taken
    <2>3. \A q \in Packets : \A s \in STWStages :
             Counts(packet'[q], s) <=> Counts(packet[q], s)
      BY <2>1 DEF TakenBy, Counts
    <2> QED
      BY <2>2, <2>3, WorkKept, Stutters DEF buckets
  <1>3. ASSUME NEW w \in Workers, PollOwnEmpty(w) \/ PollBucketEmpty(w)
                  \/ StealEmpty(w) \/ PollFailed(w) \/ ParkNotLast(w)
                  \/ Unpark(w) \/ SpuriousWakeup(w) \/ FindDesignatedWork(w)
                  \/ CheckSecondBucket(w)
        PROVE  UNCHANGED Pause!vars
    BY <1>1, <1>3
       DEF PollOwnEmpty, PollBucketEmpty, StealEmpty, PollFailed, ParkNotLast,
           Unpark, SpuriousWakeup, FindDesignatedWork, CheckSecondBucket, goals,
           buckets, mutators
  <1>4. ASSUME NEW w \in Workers, Surrender(w) PROVE UNCHANGED Pause!vars
    <2>1. current # GoalGc /\ current' # GoalGc
      BY <1>4 DEF Surrender, SchedulerInv, ForkProtocol, Leaving, GoalGc,
                  GoalStopForFork, NoGoal
    <2> QED
      BY <1>1, <1>4, <2>1 DEF Surrender, buckets, mutators
  <1>5. ASSUME NEW p \in WorkPackets, packet[p] = Free, WellStaged(packet'[p]),
               \A q \in Packets \ {p} : packet'[q] = packet[q],
               UNCHANGED <<current, active, in_gc_pause>>
        PROVE  [Pause!Next]_Pause!vars
    <2>1. p \in Packets /\ packet'[p].stage \in Stages /\ packet'[p].at \in Places
      BY DEF WorkPackets, TypeOK, PacketStates
    <2>2. CASE packet'[p].stage = Unconstrained \/ packet'[p].at \in {"free", "postponed"}
      <3>1. packet[p].at = "free"
        BY <1>5, AtFields, SMT DEF Free
      <3>2. \A q \in Packets : \A s \in STWStages :
               Counts(packet'[q], s) <=> Counts(packet[q], s)
        BY <1>5, <2>1, <2>2, <3>1, NoWork
      <3> QED
        BY <1>5, <3>2, WorkKept, Stutters
    <2>3. CASE packet'[p].stage # Unconstrained /\ packet'[p].at \notin {"free", "postponed"}
      <3>1. packet'[p].stage \in STWStages
        BY <2>1, <2>3, LastStageAssumption, SMT DEF Stages, STWStages, Unconstrained
      <3>2. NotBeforeOpen(packet'[p].stage) /\ Counts(packet'[p], packet'[p].stage)
        BY <1>5, <2>1, <2>3 DEF WellStaged, Counts, Places
      <3> QED
        BY <1>5, <3>1, <3>2, Adds
    <2> QED
      BY <2>2, <2>3
  <1>6. ASSUME NEW w \in Workers, Spawn(w) PROVE [Pause!Next]_Pause!vars
    <2>1. PICK p \in WorkPackets :
             /\ packet[p] = Free /\ NewPlace(w, packet'[p])
             /\ \A q \in Packets \ {p} : packet'[q] = packet[q]
      BY <1>6, Spawned
    <2>2. WellStaged(packet'[p])
      BY <2>1, NewPlaceStaged
    <2>3. UNCHANGED <<current, active, in_gc_pause>>
      BY <1>6, Spawned, BusyFrame DEF buckets, mutators
    <2> QED
      BY <1>5, <2>1, <2>2, <2>3
  <1>7. ASSUME NEW p \in Packets, packet[p].stage = Unconstrained,
               packet'[p].stage = Unconstrained,
               \A q \in Packets \ {p} : packet'[q] = packet[q]
        PROVE  WorkToDo' = WorkToDo
    <2>1. \A q \in Packets : \A s \in STWStages :
             Counts(packet'[q], s) <=> Counts(packet[q], s)
      BY <1>7, NoWork
    <2> QED
      BY <2>1, WorkKept
  <1>8. ASSUME NEW w \in Workers, FinishPacket(w) PROVE [Pause!Next]_Pause!vars
    <2>1. PICK p \in Packets \ {SM} :
             packet[p].at = "exec" /\ packet' = [packet EXCEPT ![p] = Free]
      BY <1>8 DEF FinishPacket
    <2>2. packet'[p] = Free /\ \A q \in Packets \ {p} : packet'[q] = packet[q]
      BY <2>1 DEF TypeOK
    <2>3. UNCHANGED <<current, active, in_gc_pause>>
      BY <1>8 DEF FinishPacket, goals, buckets, mutators
    <2>4. CASE packet[p].stage = Unconstrained
      <3>1. packet'[p].stage = Unconstrained
        BY <2>2, AtFields, SMT DEF Free
      <3> QED
        BY <1>7, <2>2, <2>3, <2>4, <3>1, Stutters
    <2>5. CASE packet[p].stage # Unconstrained
      <3>1. packet[p].stage \in active /\ NotBeforeOpen(packet[p].stage)
        BY <2>1, <2>5 DEF Staging, PacketDone, NotBeforeOpen
      <3>2. packet[p].stage = CurrentStage
        BY <3>1, StageIsLatest
      <3>3. p \in WorkPackets /\ in_gc_pause
        BY <2>1, <2>5, <3>1 DEF WorkPackets, SchedulerInv, Roles, World
      <3>4. CurrentStage \in STWStages
        <4> CurrentStage \in Stages /\ CurrentStage # Unconstrained
          BY <2>5, <3>1, <3>2 DEF TypeOK
        <4> QED
          BY LastStageAssumption, SMT DEF Stages, STWStages, Unconstrained
      <3>5. Counts(packet[p], CurrentStage)
        BY <2>1, <3>2 DEF Counts
      <3> QED
        BY <2>2, <2>3, <3>3, <3>4, <3>5, Does
    <2> QED
      BY <2>4, <2>5
  <1>9. ASSUME NEW w \in Workers, ScheduleCollection(w) \/ NotifyMutatorsPaused(w)
        PROVE  UNCHANGED Pause!vars
    <2>1. packet' \in {[packet EXCEPT ![SM] = Free],
                       [packet EXCEPT ![SM] = InBucket(Unconstrained)]}
      BY <1>9 DEF ScheduleCollection, NotifyMutatorsPaused
    <2>2. packet'[SM].stage = Unconstrained
      BY <2>1, AtFields, SMT DEF TypeOK, Free, InBucket
    <2>3. \A q \in Packets \ {SM} : packet'[q] = packet[q]
      BY <2>1 DEF TypeOK
    <2>4. UNCHANGED <<current, active, in_gc_pause>>
      BY <1>9 DEF ScheduleCollection, NotifyMutatorsPaused, goals, buckets, mutators
    <2> QED
      BY <1>7, <2>2, <2>3, <2>4, Stutters DEF Roles
  <1>10. ASSUME NEW w \in Workers, StopAllMutators(w) PROVE Pause!Next
    <2>1. packet[SM].at = "exec" /\ wpc[packet[SM].by] = "begin"
      BY <1>10 DEF StopAllMutators
    <2>2. current = GoalGc /\ ~in_gc_pause
      BY <2>1, StoppingIsGC DEF SchedulerInv, Phases, StopPending
    <2>3. UNCHANGED <<packet, active, current>> /\ in_gc_pause' = TRUE
      BY <1>10 DEF StopAllMutators, goals, buckets
    <2>4. CurrentStage' = CurrentStage /\ WorkToDo' = WorkToDo
      BY <2>3, WorkKept DEF CurrentStage, NotBeforeOpen
    <2>5. Pause!Pause
      BY <2>2, <2>3, <2>4 DEF Pause!Pause, WorkToDo
    <2> QED
      BY <2>5 DEF Pause!Next
  <1>11. ASSUME NEW w \in Workers, ScheduleSentinels(w) PROVE UNCHANGED Pause!vars
    <2>1. \A p \in Packets : \A s \in STWStages :
             Counts(packet'[p], s) <=> Counts(packet[p], s)
      BY <1>11, SentinelsMoved, AtFields, SMT DEF Counts
    <2> QED
      BY <1>11, <2>1, WorkKept, Stutters DEF ScheduleSentinels, goals, buckets, mutators
  <1>12. ASSUME NEW w \in Workers, LastParkedIdle(w) PROVE [Pause!Next]_Pause!vars
    <2>1. UNCHANGED <<active, in_gc_pause>> /\ current # GoalGc
      BY <1>12, Idle DEF GoalGc, NoGoal, buckets, mutators
    <2>2. CASE current' # GoalGc
      BY <1>1, <1>12, <2>1, <2>2, Idle
    <2>3. CASE current' = GoalGc
      <3>1. packet' = [packet EXCEPT ![SC] = InBucket(Unconstrained)]
        BY <1>12, <2>3, Idle
      <3>2. packet'[SC].stage = Unconstrained /\ \A q \in Packets \ {SC} : packet'[q] = packet[q]
        BY <3>1, AtFields, SMT DEF InBucket, TypeOK
      <3>3. WorkToDo' = WorkToDo /\ CurrentStage' = CurrentStage
        BY <1>7, <2>1, <3>2 DEF Roles, CurrentStage, NotBeforeOpen
      <3>4. Pause!Start
        BY <2>1, <2>3, <3>3 DEF Pause!Start, WorkToDo
      <3> QED
        BY <3>4 DEF Pause!Next
    <2> QED
      BY <2>2, <2>3
  <1>13. ASSUME NEW m \in Mutators, FlushBarrier(m) PROVE [Pause!Next]_Pause!vars
    <2>1. PICK p \in WorkPackets :
             /\ packet[p] = Free
             /\ packet'[p] \in {InBucket(SecondSTW), Postponed}
             /\ \A q \in Packets \ {p} : packet'[q] = packet[q]
      BY <1>13, Flushed
    <2>2. mpc[m] = "running" /\ UNCHANGED <<current, active, in_gc_pause>>
      BY <1>13, Flushed DEF goals, buckets, mutators
    <2>3. active \subseteq {Unconstrained}
      BY <2>2 DEF SchedulerInv, World, Quiet
    <2>4. \/ packet'[p].at = "postponed"
          \/ packet'[p].at = "bucket" /\ packet'[p].stage = SecondSTW
      BY <2>1, AtFields, SMT DEF InBucket, Postponed
    <2>5. WellStaged(packet'[p])
      BY <2>3, <2>4, SMT
         DEF WellStaged, NotBeforeOpen, Roles, FirstSTW, SecondSTW, Unconstrained
    <2> QED
      BY <1>5, <2>1, <2>2, <2>5
  <1>14. ASSUME NEW m \in Mutators, Mutate(m), ~FlushBarrier(m)
         PROVE  UNCHANGED Pause!vars
    BY <1>1, <1>14, MutatePackets, MutateFrame DEF buckets
  <1>15. CASE UNCHANGED vars
    BY <1>1, <1>15 DEF vars, goals, buckets, mutators
  <1> QED
    BY <1>2, <1>3, <1>4, <1>6, <1>8, <1>9, <1>10, <1>11, <1>12, <1>13, <1>14,
       <1>15, OpeningRefines, UpdateRefines, EndRefines
       DEF Next, WorkerStep, Poll, TakesPacket, Execute, ParkAndWait, Mutate

(***************************************************************************)
(* Every behaviour of the scheduler is a behaviour of StagedPause: the     *)
(* collection pauses, goes through its stages in order with the work of a  *)
(* stage done before the next one is entered, and resumes the mutators     *)
(* (notify_mutators_paused, on_last_parked and update_buckets together).   *)
(***************************************************************************)
THEOREM RefinementThm == Spec => ImplementsStagedPause
  <1>1. SchedulerInv /\ SchedulerInv' /\ [Next]_vars => [Pause!Next]_Pause!vars
    BY RefinementStep
  <1> QED
    BY <1>1, RefinementInit, SchedulerInvariant, PTL
       DEF Spec, ImplementsStagedPause, Pause!Spec

-----------------------------------------------------------------------------
(* The loop of update_buckets computes what the operators of WorkBuckets   *)
(* say, for any number of stages.                                          *)

\* The buckets before the call, as far as the argument needs them.
BeforeOK ==
    /\ before.disabled \subseteq Stages
    /\ before.full \subseteq Stages
    /\ before.sentinels \subseteq Stages
    /\ before.progress \in Stages

\* The loop has not met a packet: it has opened the expected buckets below i,
\* which are empty ones.
Searching ==
    /\ ~new_packets
    /\ i \in before.progress + 1 .. LastStage + 1
    /\ full = before.full /\ sentinels = before.sentinels
    /\ activated = before.active \cup {j \in Expected : j < i}
    /\ \A j \in Expected : j < i => j \notin before.full \cup before.sentinels

\* The loop has met packets in the bucket x it opened last, which is the last
\* one expected to be opened.
Found(x) ==
    /\ x \in Expected /\ x \in before.full \cup before.sentinels
    /\ \A j \in Expected : j <= x /\ (j # x => j \notin before.full \cup before.sentinels)
    /\ activated = before.active \cup Expected
    /\ before.sentinels \ sentinels = {x} \ before.full
    /\ i = LastStage + 1
    /\ new_packets /\ buckets_updated
    /\ new_progress = x

\* The invariant of the loop, and what is left of it after the loop.
LoopInv ==
    /\ BeforeOK
    /\ buckets_updated \in BOOLEAN /\ new_packets \in BOOLEAN
    /\ Searching \/ \E x \in STWStages : Found(x)
    /\ returned => /\ i = LastStage + 1
                   /\ Searching => new_progress = 0

\* The loop's condition for a bucket agrees with the set of buckets to open,
\* as long as every bucket opened so far was empty (`can_open`, called by
\* `update`).
LEMMA CanOpenIsExpected ==
    ASSUME BeforeOK, Searching, i <= LastStage
    PROVE  (i \notin before.disabled /\ i \notin activated /\ CanOpen(i)) <=> i \in Expected
  <1> DEFINE P(j) == Passes(j, before.active, before.disabled, before.full,
                            before.sentinels, before.progress)
  <1>1. i \in STWStages /\ i > before.progress /\ i \in Nat /\ before.progress \in Nat
    BY LastStageAssumption, SMT DEF BeforeOK, Searching, Stages, STWStages
  <1>2. i \in activated <=> i \in before.active
    BY <1>1, SMT DEF Searching
  <1>3. \A j : j \in Expected <=>
           /\ j \in STWStages /\ j > before.progress /\ j # FirstSTW
           /\ j \notin before.disabled /\ j \notin before.active
           /\ \A k \in 1 .. (j - 1) : P(k)
    BY DEF Expected, BucketsToOpen
  <1>4. ASSUME CanOpen(i), NEW j \in 1 .. (i - 1) PROVE P(j)
    <2>1. j \in before.disabled \/ (j \in activated /\ j \notin before.full)
      BY <1>4 DEF CanOpen, IsDrained, IsEmpty, Searching
    <2>2. ASSUME j \in Expected, j < i PROVE P(j)
      <3>1. j > before.progress /\ j # FirstSTW /\ j \notin before.full
            /\ j \notin before.sentinels
        BY <1>3, <2>2 DEF Searching
      <3> QED
        BY <3>1 DEF Passes
    <2> QED
      BY <2>1, <2>2 DEF Passes, Searching
  <1>5. ASSUME i # FirstSTW, \A j \in 1 .. (i - 1) : P(j) PROVE CanOpen(i)
    <2> SUFFICES ASSUME NEW j \in 1 .. (i - 1), j \notin before.disabled
                 PROVE  j \in activated /\ j \notin before.full
      BY <1>5 DEF CanOpen, IsDrained, IsEmpty, Searching
    <2>1. P(j) /\ j \notin before.full
      BY <1>5 DEF Passes
    <2>2. CASE j \in before.active
      BY <2>1, <2>2 DEF Searching
    <2>3. CASE j \notin before.active
      <3>1. j > before.progress /\ j # FirstSTW
        BY <2>1, <2>3 DEF Passes
      <3>2. j \in STWStages /\ j < i /\ \A k \in 1 .. (j - 1) : k \in 1 .. (i - 1)
        BY <1>1, LastStageAssumption, SMT DEF STWStages
      <3>3. j \in Expected
        BY <1>3, <1>5, <2>3, <3>1, <3>2
      <3> QED
        BY <2>1, <3>2, <3>3 DEF Searching
    <2> QED
      BY <2>2, <2>3
  <1> QED
    BY <1>1, <1>2, <1>3, <1>4, <1>5 DEF CanOpen

\* A bucket that holds a packet or a sentinel when it is opened ends the loop:
\* no later bucket is to be opened.
LEMMA FoundIsLast ==
    ASSUME BeforeOK, NEW x \in Expected, x \in before.full \cup before.sentinels,
           NEW j \in Expected
    PROVE  j <= x
  <1>1. x \in Nat /\ j \in Nat /\ x >= 1 /\ x \notin before.disabled /\ x \notin before.active
    BY LastStageAssumption, SMT DEF Expected, BucketsToOpen, STWStages
  <1>2. ASSUME x < j PROVE FALSE
    <2>1. x \in 1 .. (j - 1)
      BY <1>1, <1>2, SMT
    <2> QED
      BY <1>1, <2>1 DEF Expected, BucketsToOpen, Passes
  <1> QED
    BY <1>1, <1>2, SMT

\* The loop starts with nothing opened.
LEMMA LoopInvInit == LoopInit => LoopInv
  <1> HAVE LoopInit
  <1>1. PICK n \in 1 .. LastStage, D \in SUBSET (STWStages \ {SecondSTW}) :
           before \in BucketStatesAt(n, D)
    BY SMT DEF LoopInit, BucketStates
  <1>2. n \in Nat /\ n <= LastStage
    BY LastStageAssumption, SMT
  <1>3. BeforeOK
    <2>1. /\ before.disabled = D
          /\ before.full \subseteq ((n + 1) .. LastStage) \ D
          /\ before.sentinels \subseteq ((n + 1) .. LastStage) \ D
          /\ before.progress \in {0} \cup ((2 .. n) \ D)
      BY <1>1 DEF BucketStatesAt
    <2>2. /\ D \subseteq Stages /\ {0} \cup ((2 .. n) \ D) \subseteq Stages
          /\ ((n + 1) .. LastStage) \ D \subseteq Stages
      BY <1>2, LastStageAssumption, SMT DEF Stages, STWStages
    <2> QED
      BY <2>1, <2>2 DEF BeforeOK
  <1>4. before.progress \in Nat /\ before.progress <= LastStage
    BY <1>3, LastStageAssumption, SMT DEF BeforeOK, Stages
  <1>5. \A j \in Expected : j \in Nat /\ ~(j < i)
    BY <1>4, LastStageAssumption, SMT DEF LoopInit, Expected, BucketsToOpen, STWStages
  <1>6. i \in before.progress + 1 .. LastStage + 1
    BY <1>4, LastStageAssumption, SMT DEF LoopInit
  <1>7. Searching
    BY <1>5, <1>6 DEF LoopInit, Searching
  <1> QED
    BY <1>3, <1>7 DEF LoopInit, LoopInv

\* Every step keeps the invariant of the loop.
LEMMA LoopInvStep == LoopInv /\ [LoopNext]_loopVars => LoopInv'
  <1> SUFFICES ASSUME LoopInv, [LoopNext]_loopVars PROVE LoopInv'
    OBVIOUS
  <1> BeforeOK
    BY DEF LoopInv
  <1> LastStage \in Nat /\ before.progress \in Nat
    BY LastStageAssumption, SMT DEF BeforeOK, Stages
  <1> \A j \in Expected : j \in Nat
    BY SMT DEF Expected, BucketsToOpen, STWStages
  <1>1. ASSUME Skip PROVE LoopInv'
    <2>1. before' = before /\ Expected' = Expected /\ i <= LastStage
      BY <1>1 DEF Skip, Expected
    <2>2. Searching /\ i \in before.progress + 1 .. LastStage + 1 /\ ~returned
      BY <2>1, SMT DEF LoopInv, Found, Searching
    <2>3. i \notin Expected
      BY <1>1, <2>1, <2>2, CanOpenIsExpected DEF Skip
    <2>4. \A j \in Expected : j < i' <=> j < i
      BY <1>1, <2>2, <2>3, SMT DEF Skip
    <2>5. i' \in before.progress + 1 .. LastStage + 1
      BY <1>1, <2>1, <2>2, SMT DEF Skip
    <2>6. Searching'
      BY <1>1, <2>1, <2>2, <2>4, <2>5 DEF Skip, Searching
    <2> QED
      BY <1>1, <2>1, <2>2, <2>6 DEF LoopInv, BeforeOK, Skip
  <1>2. ASSUME Open PROVE LoopInv'
    <2>1. before' = before /\ Expected' = Expected /\ i <= LastStage
      BY <1>2 DEF Open, Expected
    <2>2. Searching /\ i \in before.progress + 1 .. LastStage + 1 /\ ~returned
      BY <2>1, SMT DEF LoopInv, Found, Searching
    <2>3. i \in Expected
      BY <1>2, <2>1, <2>2, CanOpenIsExpected DEF Open
    <2>4. \A j \in Expected : j < i + 1 <=> j < i \/ j = i
      BY <2>2, SMT
    <2>5. i \in STWStages
      BY <2>3 DEF Expected, BucketsToOpen
    <2>6. CASE i \in full \/ i \in sentinels
      <3>1. \A j \in Expected : j <= i
        BY <2>2, <2>3, <2>6, FoundIsLast DEF Searching
      <3>2. \A j \in Expected : j = i \/ j < i
        BY <2>2, <3>1, SMT
      <3>3. activated' = before.active \cup Expected
        BY <1>2, <2>2, <2>3, <3>2 DEF Open, Searching
      <3>4. before.sentinels \ sentinels' = {i} \ before.full
        BY <1>2, <2>2, <2>6 DEF Open, Searching
      <3>5. /\ new_packets' /\ buckets_updated' /\ new_progress' = i
            /\ i' = LastStage + 1 /\ ~returned'
        BY <1>2, <2>2, <2>6 DEF Open
      <3>6. PICK x \in STWStages : x = i
        BY <2>5
      <3>7. \A j \in Expected : j # x => j \notin before.full \cup before.sentinels
        BY <2>2, <3>2, <3>6 DEF Searching
      <3>8. Found(x)'
        BY <2>1, <2>2, <2>3, <2>6, <3>1, <3>3, <3>4, <3>5, <3>6, <3>7 DEF Found, Searching
      <3> QED
        BY <2>1, <3>5, <3>8 DEF LoopInv, BeforeOK
    <2>7. CASE ~(i \in full \/ i \in sentinels)
      <3>1. /\ full' = full /\ sentinels' = sentinels /\ ~new_packets' /\ new_packets' \in BOOLEAN
            /\ buckets_updated' = TRUE /\ i' = i + 1 /\ activated' = activated \cup {i} /\ ~returned'
        BY <1>2, <2>2, <2>7 DEF Open
      <3>2. i' \in before.progress + 1 .. LastStage + 1
        BY <2>1, <2>2, <3>1, SMT
      <3>3. Searching'
        BY <2>1, <2>2, <2>3, <2>4, <2>7, <3>1, <3>2 DEF Searching
      <3> QED
        BY <2>1, <3>1, <3>3 DEF LoopInv, BeforeOK
    <2> QED
      BY <2>6, <2>7
  <1>3. ASSUME Return PROVE LoopInv'
    <2>1. before' = before /\ Expected' = Expected
      BY <1>3 DEF Return, Expected
    <2>2. CASE Searching
      <3>1. Searching'
        BY <1>3, <2>1, <2>2 DEF Return, Searching
      <3>2. new_progress' = 0
        BY <1>3, <2>2 DEF Return, Searching
      <3> QED
        BY <1>3, <2>1, <3>1, <3>2 DEF LoopInv, BeforeOK, Return
    <2>3. CASE \E x \in STWStages : Found(x)
      <3>1. PICK x \in STWStages : Found(x)
        BY <2>3
      <3>2. Found(x)' /\ ~Searching'
        BY <1>3, <2>1, <3>1 DEF Return, Found, Searching
      <3> QED
        BY <1>3, <2>1, <3>2 DEF LoopInv, BeforeOK, Return
    <2> QED
      BY <2>2, <2>3 DEF LoopInv
  <1>4. ASSUME UNCHANGED loopVars PROVE LoopInv'
    BY <1>4 DEF loopVars, LoopInv, BeforeOK, Searching, Found, Expected
  <1> QED
    BY <1>1, <1>2, <1>3, <1>4 DEF LoopNext

\* When update_buckets returns, the buckets, the sentinels, the progress and
\* the answer are the ones the operators of WorkBuckets name, which the
\* scheduler's specification uses in place of the loop (scheduler.rs:452-513).
THEOREM LoopMeetsOperatorsThm == LoopSpec => []LoopMeetsOperators
  <1>1. LoopInv => LoopMeetsOperators
    <2> SUFFICES ASSUME LoopInv, returned PROVE LoopMeetsOperators
      BY DEF LoopMeetsOperators
    <2> DEFINE Stop == StoppedAt(Expected, before.full, before.sentinels)
    <2> \A j \in Expected : j \in Nat
      BY SMT DEF Expected, BucketsToOpen, STWStages
    <2>1. CASE Searching
      <3>1. i = LastStage + 1 /\ new_progress = 0 /\ ~new_packets
        BY <2>1 DEF LoopInv, Searching
      <3>2. \A j \in Expected : j < i
        BY <3>1, LastStageAssumption, SMT DEF Expected, BucketsToOpen, STWStages
      <3>3. activated = before.active \cup Expected /\ sentinels = before.sentinels
        BY <2>1, <3>2 DEF Searching
      <3>4. Stop = {} /\ SentinelsOnOpen(Expected, before.full, before.sentinels) = {}
        BY <2>1, <3>2 DEF Searching, StoppedAt, SentinelsOnOpen
      <3> QED
        BY <3>1, <3>3, <3>4 DEF LoopMeetsOperators, NewProgress
    <2>2. ASSUME NEW x \in STWStages, Found(x) PROVE LoopMeetsOperators
      <3>1. Stop = {x}
        BY <2>2 DEF Found, StoppedAt
      <3>2. NewProgress(Expected, before.full, before.sentinels) = x
        BY <3>1 DEF NewProgress
      <3>3. SentinelsOnOpen(Expected, before.full, before.sentinels) = {x} \ before.full
        BY <2>2 DEF Found, SentinelsOnOpen
      <3> QED
        BY <2>2, <3>1, <3>2, <3>3 DEF Found, LoopMeetsOperators
    <2> QED
      BY <2>1, <2>2 DEF LoopInv
  <1> QED
    BY <1>1, LoopInvInit, LoopInvStep, PTL DEF LoopSpec
=============================================================================

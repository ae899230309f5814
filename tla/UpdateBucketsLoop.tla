-------------------------- MODULE UpdateBucketsLoop --------------------------
(***************************************************************************)
(* GCWorkScheduler::update_buckets as the loop it is, one step per         *)
(* iteration, from every state of the buckets in which the last parked     *)
(* worker may call it.  It is compared with the operators of WorkBuckets   *)
(* that the scheduler's specification uses in its place.                   *)
(***************************************************************************)
EXTENDS WorkBuckets

VARIABLES
    before,          \* the buckets when update_buckets is called
    activated, full, sentinels,  \* the buckets now
    i,               \* the loop's index
    buckets_updated, new_packets, new_progress,
    returned         \* the loop is over

loopVars == <<before, activated, full, sentinels, i, buckets_updated, new_packets,
              new_progress, returned>>

\* When the last worker parks during a GC, the first bucket is open, and so
\* are the enabled ones up to some bucket n; they are drained, have no
\* sentinel left, and the last progress is one of them.
BucketStatesAt(n, D) ==
    [active : {{Unconstrained, FirstSTW} \cup ((2 .. n) \ D)},
     disabled : {D},
     full : SUBSET (((n + 1) .. LastStage) \ D),
     sentinels : SUBSET (((n + 1) .. LastStage) \ D),
     progress : {0} \cup ((2 .. n) \ D)]

BucketStates ==
    UNION {BucketStatesAt(n, D) : n \in 1 .. LastStage, D \in SUBSET (STWStages \ {SecondSTW})}

LoopInit ==
    /\ before \in BucketStates
    /\ activated = before.active
    /\ full = before.full
    /\ sentinels = before.sentinels
    /\ i = before.progress + 1
    /\ buckets_updated = FALSE
    /\ new_packets = FALSE
    /\ new_progress = LastStage + 1
    /\ returned = FALSE

\* Variant: a disabled bucket is waited for.
CanOpenWhenDrained(s) ==
    /\ s # FirstSTW
    /\ \A j \in 1 .. (s - 1) : IsDrained(j, activated, before.disabled, full)

\* The condition `GCWorkScheduler::new` gives to bucket s.
CanOpen(s) ==
    /\ s # FirstSTW
    /\ \A j \in 1 .. (s - 1) :
          IsDrained(j, activated, before.disabled, full) \/ j \in before.disabled

Skip ==
    /\ i <= LastStage
    /\ i \in before.disabled \/ i \in activated \/ ~CanOpen(i)
    /\ i' = i + 1
    /\ UNCHANGED <<before, activated, full, sentinels, buckets_updated,
                   new_packets, new_progress, returned>>

\* `bucket.update` opens the bucket; if it is empty its sentinel is scheduled.
Open ==
    /\ i <= LastStage
    /\ ~(i \in before.disabled \/ i \in activated) /\ CanOpen(i)
    /\ activated' = activated \cup {i}
    /\ buckets_updated' = TRUE
    /\ IF i \in full
       THEN UNCHANGED <<full, sentinels>>
       ELSE /\ full' = full \cup ({i} \cap sentinels)
            /\ sentinels' = sentinels \ {i}
    /\ new_packets' = (i \in full \/ i \in sentinels)
    /\ IF new_packets'
       THEN /\ new_progress' = i
            /\ i' = LastStage + 1
       ELSE /\ i' = i + 1
            /\ UNCHANGED new_progress
    /\ UNCHANGED <<before, returned>>

Return ==
    /\ i = LastStage + 1
    /\ ~returned
    /\ returned' = TRUE
    /\ new_progress' = IF buckets_updated /\ new_packets THEN new_progress ELSE 0
    /\ UNCHANGED <<before, activated, full, sentinels, i, buckets_updated,
                   new_packets>>

LoopNext == Skip \/ Open \/ Return

LoopSpec == LoopInit /\ [][LoopNext]_loopVars

\* What the operators of WorkBuckets say the loop opens.
Expected ==
    BucketsToOpen(before.active, before.disabled, before.full,
                  before.sentinels, before.progress)

\* The loop opens the buckets BucketsToOpen names, moves the sentinels
\* SentinelsOnOpen names to their queues, leaves NewProgress in
\* bucket_update_progress and answers whether StoppedAt is not empty.
LoopMeetsOperators ==
    returned =>
        /\ activated = before.active \cup Expected
        /\ before.sentinels \ sentinels =
              SentinelsOnOpen(Expected, before.full, before.sentinels)
        /\ new_progress = NewProgress(Expected, before.full, before.sentinels)
        /\ (buckets_updated /\ new_packets) =
              (StoppedAt(Expected, before.full, before.sentinels) # {})
=============================================================================

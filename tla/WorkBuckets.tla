----------------------------- MODULE WorkBuckets -----------------------------
(***************************************************************************)
(* The work buckets of the scheduler (scheduler/work_bucket.rs and the     *)
(* bucket rules of scheduler/scheduler.rs).  A bucket is named by the      *)
(* index of its stage.  The operators take the part of the scheduler's     *)
(* state a rule reads: the set `active` of open buckets, the set           *)
(* `disabled`, the set `full` of buckets whose queues hold a packet, and   *)
(* the set `sentinels` of buckets whose sentinel slot is filled.           *)
(***************************************************************************)
EXTENDS Naturals

CONSTANT LastStage    \* the index of `WorkBucketStage::Final`

\* A pause has at least the two buckets `notify_mutators_paused` names and
\* one that only the last parked worker opens.
ASSUME LastStageAssumption == LastStage \in Nat /\ LastStage >= 3

Unconstrained == 0
FirstSTW == 1         \* `WorkBucketStage::first_stw_stage`
SecondSTW == 2        \* `WorkBucketStage::from_usize(2)`

Stages == 0 .. LastStage
STWStages == 1 .. LastStage

\* `WorkBucket::is_empty` is true of a disabled bucket, whatever it holds.
IsEmpty(s, disabled, full) == s \in disabled \/ s \notin full

\* `WorkBucket::is_drained`
IsDrained(s, active, disabled, full) ==
    s \in active /\ IsEmpty(s, disabled, full)

\* `WorkBucket::poll` finds a packet.
CanPoll(s, active, disabled, full) ==
    s \in active /\ s \notin disabled /\ s \in full

\* Variant: no sentinel of an open bucket is ever scheduled.
NoSentinelsToSchedule(active, sentinels) == {}

\* `schedule_sentinels`: the buckets whose sentinel is moved to the queue.
SentinelsToSchedule(active, sentinels) == active \cap sentinels

(***************************************************************************)
(* `update_buckets`.  The loop visits the closed, enabled buckets above    *)
(* `progress` in order.  It opens a bucket when every earlier pause bucket *)
(* is drained or disabled, and it stops at the first bucket it opens that  *)
(* has a packet or a sentinel.  A bucket the loop opens and passes is an   *)
(* empty one without a sentinel; the first pause bucket has no condition   *)
(* to open (`can_open` is None), so the loop never opens it.               *)
(***************************************************************************)
Passes(j, active, disabled, full, sentinels, progress) ==
    \/ j \in disabled
    \/ /\ j \notin full
       /\ \/ j \in active
          \/ j > progress /\ j # FirstSTW /\ j \notin sentinels

BucketsToOpen(active, disabled, full, sentinels, progress) ==
    {i \in STWStages :
        /\ i > progress
        /\ i # FirstSTW
        /\ i \notin disabled
        /\ i \notin active
        /\ \A j \in 1 .. (i - 1) :
              Passes(j, active, disabled, full, sentinels, progress)}

\* Variant: a bucket that has only a sentinel does not count.
StoppedAtPackets(opened, full, sentinels) == opened \cap full

\* The opened bucket the loop stopped at, as a set of at most one bucket.
StoppedAt(opened, full, sentinels) == opened \cap (full \cup sentinels)

\* Variant: the sentinel is scheduled beside the packets of the bucket.
SentinelsAtOnce(opened, full, sentinels) == opened \cap sentinels

\* A sentinel is scheduled only if the opened bucket has no packet yet.
SentinelsOnOpen(opened, full, sentinels) == (opened \cap sentinels) \ full

\* The value `update_buckets` leaves in `bucket_update_progress`.
NewProgress(opened, full, sentinels) ==
    IF StoppedAt(opened, full, sentinels) = {}
    THEN 0
    ELSE CHOOSE i \in StoppedAt(opened, full, sentinels) : TRUE
=============================================================================

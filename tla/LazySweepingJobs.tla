-------------------------- MODULE LazySweepingJobs --------------------------
(***************************************************************************)
(* The counters that tell when all decrements of a pause are done, so that *)
(* the mature blocks they emptied may be swept, and when all the sweeping  *)
(* is done.                                                                *)
(*                                                                         *)
(* Every ProcessDecs and SweepBlocksAfterDecs packet holds a               *)
(* LazySweepingJobsCounter, a pair of shared counters (Arc) that belongs   *)
(* to the epoch in which the packet was made.  Dropping the packet counts  *)
(* it off; the packet that brings a counter to zero runs the callback.  In *)
(* a build with lazy decrements the packets of a pause are postponed until *)
(* its end and run beside the mutators; otherwise they run in the pause.   *)
(***************************************************************************)
EXTENDS Naturals, FiniteSets, FiniteSetsExt, Bags, BagsExt

CONSTANTS
  JobWorkers,     \* GC worker threads
  MatureBlocks,   \* blocks the decrements may empty
  MaxEpochs,      \* bound on the pauses
  MaxDecPackets   \* bound on the ProcessDecs packets of an epoch

VARIABLES
  lazy,          \* LAZY_DECREMENTS, fixed by the build
  jobPhase,      \* "mutator", or the stage of the pause
  curr,          \* the epoch of curr_counter and curr_decs_counter; prev is curr - 1
  counter,       \* counter[e]: the packets of epoch e not yet dropped
  decsCounter,   \* decsCounter[e]: those of them that process decrements
  waiting,       \* dec packets in a closed bucket or in the postponed queue
  runnable,      \* bag of packets in an open bucket
  running,       \* running[w]: what worker w executes
  possiblyDead,  \* possibly_dead_mature_blocks
  logTable,      \* blocks whose log byte is set
  fromCycles,    \* blocks the cycle collector queued since the last sweep
  ended          \* ended[e]: how often each callback ran for epoch e

jobVars == <<lazy, jobPhase, curr, counter, decsCounter, waiting, runnable, running,
             possiblyDead, logTable, fromCycles, ended>>

Epochs == 0 .. MaxEpochs
Idle == [at |-> "idle"]
DecPacket(e) == [kind |-> "decs", epoch |-> e, blocks |-> {}]
SweepPacket(e, bin) == [kind |-> "sweep", epoch |-> e, blocks |-> bin]

\* gc_init: the first swap leaves prev_counter empty and curr_counter zero.
JobsInit ==
  /\ lazy \in BOOLEAN
  /\ jobPhase = "mutator"
  /\ curr = 1
  /\ counter = [e \in Epochs |-> 0]
  /\ decsCounter = [e \in Epochs |-> 0]
  /\ waiting = 0
  /\ runnable = EmptyBag
  /\ running = [w \in JobWorkers |-> Idle]
  /\ possiblyDead = {}
  /\ logTable = {}
  /\ fromCycles = {}
  /\ ended = [e \in Epochs |-> [decs |-> 0, lazy |-> 0]]

new_decs ==
  /\ counter' = [counter EXCEPT ![curr] = @ + 1]
  /\ decsCounter' = [decsCounter EXCEPT ![curr] = @ + 1]
  /\ waiting' = waiting + 1

\* A mutator's decrement buffer is full (flush_decs_and_satb).
flush_decs_and_satb ==
  /\ jobPhase = "mutator"
  /\ curr < MaxEpochs
  /\ waiting + 1 < MaxDecPackets
  /\ new_decs
  /\ UNCHANGED <<lazy, jobPhase, curr, runnable, running, possiblyDead, logTable,
                 fromCycles, ended>>

\* A pause starts: the roots of the previous pause make one more packet.
PauseStarts ==
  /\ jobPhase = "mutator"
  /\ curr < MaxEpochs
  /\ new_decs
  /\ jobPhase' = "stopped"
  /\ UNCHANGED <<lazy, curr, runnable, running, possiblyDead, logTable, fromCycles, ended>>

\* A stage opens only when every open bucket is drained and all workers are parked.
Drained == runnable = EmptyBag /\ \A w \in JobWorkers : running[w] = Idle

\* All the packets made since the last pause: taken from the prioritised queue
\* into the decrement bucket, or at the end of the pause to run concurrently.
DecPackets(n) == [p \in IF n = 0 THEN {} ELSE {DecPacket(curr)} |-> n]
process_lazy_decrement_packets == runnable' = DecPackets(waiting) /\ waiting' = 0
schedule_postponed_concurrent_packets == runnable' = DecPackets(waiting) /\ waiting' = 0

\* The decrement stage.  A lazy build runs the packets in the pause only if the
\* collection disabled lazy decrements (release_rc).
OpenDecStage ==
  /\ jobPhase = "stopped"
  /\ Drained
  /\ jobPhase' = "decs"
  /\ \/ process_lazy_decrement_packets
     \/ lazy /\ UNCHANGED <<runnable, waiting>>
  /\ UNCHANGED <<lazy, curr, counter, decsCounter, running, possiblyDead, logTable,
                 fromCycles, ended>>

\* block.log() succeeds once until the block is swept: those of blocks it does for.
log(blocks) == blocks \ logTable

add_to_possibly_dead_mature_blocks(blocks) ==
  /\ possiblyDead' = possiblyDead \cup log(blocks)
  /\ logTable' = logTable \cup blocks

\* The cycle collector's stage, after the sweeping of this pause.
CycleCollection ==
  /\ jobPhase = "decs"
  /\ Drained
  /\ jobPhase' = "cycles"
  /\ \E blocks \in SUBSET MatureBlocks :
       /\ add_to_possibly_dead_mature_blocks(blocks)
       /\ fromCycles' = fromCycles \cup log(blocks)
  /\ UNCHANGED <<lazy, curr, counter, decsCounter, waiting, runnable, running, ended>>

\* swap: new counters; postponed packets become runnable beside the mutators.
gc_pause_end ==
  /\ jobPhase = "cycles"
  /\ Drained
  /\ jobPhase' = "mutator"
  /\ curr' = curr + 1
  /\ schedule_postponed_concurrent_packets
  /\ UNCHANGED <<lazy, counter, decsCounter, running, possiblyDead, logTable, fromCycles, ended>>

-----------------------------------------------------------------------------
(* Workers                                                                  *)

Take(w) ==
  /\ running[w] = Idle
  /\ \E p \in BagToSet(runnable) :
       /\ runnable' = BagRemove(runnable, p)
       /\ running' = [running EXCEPT ![w] = [at |-> "work", packet |-> p]]
  /\ UNCHANGED <<lazy, jobPhase, curr, counter, decsCounter, waiting, possiblyDead, logTable,
                 fromCycles, ended>>

\* Mistake: the packet for the children does not count as decrements.
RunDecPacketPlainClone(w) ==
  /\ running[w].at = "work" /\ running[w].packet.kind = "decs"
  /\ \E blocks \in {{}} \cup {{b} : b \in MatureBlocks} : add_to_possibly_dead_mature_blocks(blocks)
  /\ LET e == running[w].packet.epoch
     IN \/ UNCHANGED <<counter, runnable>>
        \/ /\ decsCounter[e] < MaxDecPackets
           /\ counter' = [counter EXCEPT ![e] = @ + 1]
           /\ runnable' = BagAdd(runnable, DecPacket(e))
  /\ running' = [running EXCEPT ![w].at = "drop decs"]
  /\ UNCHANGED <<lazy, jobPhase, curr, decsCounter, waiting, fromCycles, ended>>

\* ProcessDecs: objects of some block may die, and their children may fill a
\* buffer that becomes another packet (clone_with_decs).
RunDecPacket(w) ==
  /\ running[w].at = "work" /\ running[w].packet.kind = "decs"
  /\ \E blocks \in {{}} \cup {{b} : b \in MatureBlocks} : add_to_possibly_dead_mature_blocks(blocks)
  /\ LET e == running[w].packet.epoch
     IN \/ UNCHANGED <<counter, decsCounter, runnable>>
        \/ /\ decsCounter[e] < MaxDecPackets
           /\ counter' = [counter EXCEPT ![e] = @ + 1]
           /\ decsCounter' = [decsCounter EXCEPT ![e] = @ + 1]
           /\ runnable' = BagAdd(runnable, DecPacket(e))
  /\ running' = [running EXCEPT ![w].at = "drop decs"]
  /\ UNCHANGED <<lazy, jobPhase, curr, waiting, fromCycles, ended>>

\* The bins the queue is dealt into: one per worker, of size / num_workers
\* rounded up; later bins may be empty.
Bins ==
  LET n == Cardinality(JobWorkers)
      cap == Cardinality(possiblyDead) \div n + IF Cardinality(possiblyDead) % n = 0 THEN 0 ELSE 1
  IN {f \in [1 .. n -> SUBSET possiblyDead] :
        /\ UNION {f[i] : i \in 1 .. n} = possiblyDead
        /\ \A i, j \in 1 .. n : i < j => f[i] \cap f[j] = {}
        /\ \A i \in 1 .. n : Cardinality(f[i])
             = Min({cap, Cardinality(possiblyDead \ UNION {f[j] : j \in 1 .. i - 1})})}

\* end_of_decs: a SweepBlocksAfterDecs packet per bin, each with a clone of the
\* counter (the clone handed to the callback is dropped on its return).
schedule_rc_block_sweeping_tasks(e) ==
  \E bins \in Bins :
    /\ runnable' = runnable (+) [p \in {SweepPacket(e, bins[i]) : i \in DOMAIN bins} |->
                                    Cardinality({i \in DOMAIN bins : bins[i] = p.blocks})]
    /\ counter' = [counter EXCEPT ![e] = @ + Cardinality(DOMAIN bins)]
    /\ possiblyDead' = {}
    /\ fromCycles' = {}

\* Drop of a packet with decrements: the first of its two counters.
DropDecs(w) ==
  LET e == running[w].packet.epoch
  IN /\ running[w].at = "drop decs"
     /\ decsCounter' = [decsCounter EXCEPT ![e] = @ - 1]
     /\ \/ /\ decsCounter[e] = 1
           /\ ended' = [ended EXCEPT ![e].decs = @ + 1]
           /\ schedule_rc_block_sweeping_tasks(e)
        \/ /\ decsCounter[e] # 1
           /\ UNCHANGED <<runnable, counter, possiblyDead, fromCycles, ended>>
     /\ running' = [running EXCEPT ![w].at = "drop"]
     /\ UNCHANGED <<lazy, jobPhase, curr, waiting, logTable>>

\* Mistake: the log byte of a swept block is left set.
SweepBlocksAfterDecsKeepsLog(w) ==
  /\ running[w].at = "work" /\ running[w].packet.kind = "sweep"
  /\ running' = [running EXCEPT ![w].at = "drop", ![w].packet.blocks = {}]
  /\ UNCHANGED <<lazy, jobPhase, curr, counter, decsCounter, waiting, runnable, possiblyDead,
                 logTable, fromCycles, ended>>

\* SweepBlocksAfterDecs: unlog, then sweep, every block of the bin.
SweepBlocksAfterDecs(w) ==
  /\ running[w].at = "work" /\ running[w].packet.kind = "sweep"
  /\ logTable' = logTable \ running[w].packet.blocks
  /\ running' = [running EXCEPT ![w].at = "drop", ![w].packet.blocks = {}]
  /\ UNCHANGED <<lazy, jobPhase, curr, counter, decsCounter, waiting, runnable, possiblyDead,
                 fromCycles, ended>>

\* Drop: the second counter.
DropJob(w) ==
  LET e == running[w].packet.epoch
  IN /\ running[w].at = "drop"
     /\ counter' = [counter EXCEPT ![e] = @ - 1]
     /\ ended' = [ended EXCEPT ![e].lazy = @ + IF counter[e] = 1 THEN 1 ELSE 0]
     /\ running' = [running EXCEPT ![w] = Idle]
     /\ UNCHANGED <<lazy, jobPhase, curr, decsCounter, waiting, runnable, possiblyDead,
                    logTable, fromCycles>>

JobStep(w) ==
  Take(w) \/ RunDecPacket(w) \/ DropDecs(w) \/ SweepBlocksAfterDecs(w) \/ DropJob(w)

JobsNext ==
  \/ flush_decs_and_satb \/ PauseStarts \/ OpenDecStage \/ CycleCollection \/ gc_pause_end
  \/ \E w \in JobWorkers : JobStep(w)

-----------------------------------------------------------------------------
LivePackets ==
  BagToSet(runnable) \cup {running[w].packet : w \in {v \in JobWorkers : running[v] # Idle}}

all_finished == counter[curr - 1] = 0

\* The two callbacks run once per epoch and in order: no block is swept while a
\* decrement of the same epoch is still to be applied, the end of sweeping is
\* reported once, after the last sweep; and all_finished(), which reads only
\* the previous epoch's counter, never answers true while a packet of any
\* earlier epoch is left (LazySweepingJobsCounter::drop, LazySweepingJobs).  A
\* block whose log byte is set is queued, or in the bin of a sweep that has not
\* run: otherwise it would never be queued, and so never be swept, again.
\* Without lazy decrements only blocks of the cycle collector, which runs after
\* the sweep, are left for the next pause.
SweepingFollowsDecs ==
  /\ \A p \in LivePackets : p.kind = "sweep" => decsCounter[p.epoch] = 0
  /\ \A e \in Epochs : /\ ended[e].decs =< 1 /\ ended[e].lazy =< ended[e].decs
                       /\ ended[e].lazy = 1 => counter[e] = 0
  /\ all_finished <=> \A p \in LivePackets : p.epoch >= curr
  /\ logTable = possiblyDead \cup UNION {p.blocks : p \in LivePackets}
  /\ jobPhase = "mutator" /\ ~lazy =>
       possiblyDead = fromCycles /\ \A e \in 1 .. curr - 1 : ended[e].lazy = 1

=============================================================================

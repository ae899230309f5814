------------------------ MODULE GCSchedulerInvariants ------------------------
(***************************************************************************)
(* The inductive invariant behind the safety properties of GCScheduler.    *)
(***************************************************************************)
EXTENDS GCScheduler

PacketDone(p) == packet[p].at \in {"free", "postponed"}

\* The counter counts: the monitor's rule "parked_workers = worker_count"
\* means that every worker is parked.
ParkedCount == parked = Cardinality(ParkedWorkers)

\* A worker executes one packet at a time, and its local buffer is empty
\* when it looks elsewhere for work.
Ownership ==
    /\ \A p \in Packets :
          packet[p].at \in {"exec", "local", "designated"} =>
              packet[p].by \in Workers
    /\ \A p \in Packets :
          packet[p].at = "exec" => wpc[packet[p].by] \in Executing
    /\ \A p, q \in Packets :
          /\ packet[p].at = "exec" /\ packet[q].at = "exec"
          /\ packet[p].by = packet[q].by
          => p = q
    /\ \A w \in Workers : wpc[w] \in Executing =>
          \E p \in Packets : packet[p].at = "exec" /\ packet[p].by = w
    /\ \A p \in Packets :
          packet[p].at = "local" => wpc[packet[p].by] \in Executing \cup {"own"}

\* Worker w has not yet looked at bucket s.
WillSee(w, s) ==
    \/ wpc[w] \in Executing \cup {"own"}
    \/ wpc[w] = "scan" /\ cursor[w] <= s

AllParked == \A w \in Workers : wpc[w] \in {"waiting", "woken"}
AllLeaving == \A w \in Workers : wpc[w] \in {"woken", "exiting", "exited"}

\* Some worker that is not parked will look at the bucket of every available
\* packet, unless all workers are parked already or leave for a fork.
Visibility ==
    \A p \in Packets :
        /\ packet[p].at = "bucket"
        /\ packet[p].stage \in active /\ packet[p].stage \notin disabled
        => \/ \E w \in Workers : WillSee(w, packet[p].stage)
           \/ AllParked
           \/ AllLeaving

Quiet(m) == mpc[m] \in {"stopped", "blocked", "forkwait"}

\* Buckets of the pause are open only while the mutators are stopped.
World ==
    /\ \A s \in active : s # Unconstrained => FirstSTW \in active /\ in_gc_pause
    /\ in_gc_pause => current = GoalGc /\ \A m \in Mutators : Quiet(m)

Forking(m) == mpc[m] \in {"forking", "forkwait"}
Leaving(w) == wpc[w] \in {"exiting", "exited"}

\* A wish to fork is in one place at a time: with the mutator, among the
\* requests, the current goal, or carried out.
ForkProtocol ==
    /\ group = "Spawned" =>
          /\ GoalStopForFork \notin requests
          /\ current # GoalStopForFork
          /\ \A m \in Mutators : ~Forking(m)
          /\ \A w \in Workers : ~Leaving(w)
    /\ \A m, n \in Mutators : Forking(m) /\ Forking(n) => m = n
    /\ (\E m \in Mutators : mpc[m] = "forking") =>
          /\ GoalStopForFork \notin requests
          /\ current # GoalStopForFork
          /\ \A w \in Workers : ~Leaving(w)
    /\ GoalStopForFork \in requests =>
          /\ current # GoalStopForFork
          /\ \A w \in Workers : ~Leaving(w)
    /\ current = GoalStopForFork =>
          /\ AllLeaving
          /\ \E w \in Workers : wpc[w] # "exited"
    /\ \A w \in Workers : Leaving(w) =>
          \/ current = GoalStopForFork
          \/ current = NoGoal /\ \A v \in Workers : wpc[v] = "exited"

\* A wish to collect is in one place at a time, and the flag is up until the
\* mutators have stopped.
RequestProtocol ==
    /\ GoalGc \in requests => request_flag
    /\ \A m \in Mutators : mpc[m] = "flagged" =>
          request_flag /\ GoalGc \notin requests
    /\ \A m, n \in Mutators : mpc[m] = "flagged" /\ mpc[n] = "flagged" => m = n
    /\ current = GoalGc /\ FirstSTW \notin active =>
          /\ request_flag
          /\ GoalGc \notin requests
          /\ \A m \in Mutators : mpc[m] # "flagged"
    /\ current = GoalGc /\ FirstSTW \in active => ~request_flag

\* The ScheduleCollection packet has not scheduled the collection yet.
Starting ==
    \/ packet[SC].at = "bucket"
    \/ packet[SC].at = "exec" /\ wpc[packet[SC].by] = "begin"

\* How far the StopMutators packet is.
StopPending ==
    \/ packet[SM].at \in {"bucket", "local"}
    \/ packet[SM].at = "exec" /\ wpc[packet[SM].by] = "begin"
StopDone == packet[SM].at = "exec" /\ wpc[packet[SM].by] # "begin"

\* The parts the two packets that start a collection may play.
Roles ==
    /\ Unconstrained \in active
    /\ Unconstrained \notin disabled /\ SecondSTW \notin disabled
    /\ packet[SC].stage = Unconstrained /\ packet[SM].stage = Unconstrained
    /\ packet[SC].at \in {"free", "bucket", "exec"}
    /\ packet[SM].at \in {"free", "bucket", "local", "exec"}
    /\ \A p \in Packets :
          packet[p].at = "exec" /\ wpc[packet[p].by] = "begin" => p \in {SC, SM}
    /\ \A w \in Workers : wpc[w] \in {"check", "second", "notify"} =>
          packet[SM].at = "exec" /\ packet[SM].by = w

\* A collection goes through its phases one after the other.
Phases ==
    /\ current # GoalGc =>
          /\ packet[SC].at = "free" /\ packet[SM].at = "free"
          /\ active = {Unconstrained} /\ disabled = {} /\ progress = 0
    /\ Starting =>
          /\ packet[SM].at = "free" /\ ~in_gc_pause
          /\ active = {Unconstrained} /\ disabled = {} /\ progress = 0
          /\ \A p \in Packets \ {SC} :
                \/ PacketDone(p)
                \/ packet[p].at = "bucket" /\ packet[p].stage = SecondSTW
    /\ StopPending => ~in_gc_pause
    /\ StopDone => in_gc_pause
    /\ StopDone /\ wpc[packet[SM].by] = "body" => FirstSTW \notin active
    /\ StopDone /\ wpc[packet[SM].by] # "body" => FirstSTW \in active
    /\ current = GoalGc /\ packet[SM].at = "free" /\ ~Starting =>
          FirstSTW \in active

\* Packets are only in the buckets the stage of the pause allows.
Staging ==
    /\ \A p \in Packets : ~PacketDone(p) => packet[p].stage # FirstSTW
    /\ \A p \in Packets : ~PacketDone(p) => packet[p].stage \notin disabled
    /\ \A p \in Packets : packet[p].at \in {"exec", "local", "designated"} =>
          packet[p].stage \in active
    /\ \A p \in Packets : packet[p].at \in {"designated", "sentinel"} =>
          packet[p].stage # Unconstrained
    /\ \A p \in Packets, t \in active :
          ~PacketDone(p) /\ packet[p].stage # Unconstrained =>
              t <= packet[p].stage
    /\ current # GoalGc =>
          \A p \in Packets :
              \/ PacketDone(p)
              \/ packet[p].at # "sentinel" /\ packet[p].stage = Unconstrained
              \/ packet[p].at = "bucket" /\ packet[p].stage = SecondSTW
    /\ \A s \in STWStages : s <= progress => s \in active \cup disabled
    /\ active \cap disabled \subseteq {FirstSTW}

\* The inductive invariant: parked counts the parked workers, a packet has
\* one owner, nobody overlooks an available packet (poll, park_and_wait),
\* pause buckets are open only while the mutators are stopped and in the
\* order of their stages (update_buckets), and a wish for a GC or for a
\* fork is in exactly one place (make_request, on_last_parked).
SchedulerInv ==
    /\ TypeOK
    /\ ParkedCount
    /\ Ownership
    /\ Visibility
    /\ World
    /\ ForkProtocol
    /\ RequestProtocol
    /\ Roles
    /\ Phases
    /\ Staging

\* With two workers or more somebody is awake for every available packet and
\* for every request.
Wakefulness ==
    /\ AllParked /\ (\E p \in Packets : Available(p)) =>
          \E w \in Workers : wpc[w] = "woken"
    /\ requests # {} => \E w \in Workers : wpc[w] # "waiting"
=============================================================================

---------------------------- MODULE FieldLogging ----------------------------
(***************************************************************************)
(* The slow path of LXR's field-logging write barrier, at the granularity  *)
(* of its metadata accesses.                                               *)
(*                                                                         *)
(* Every slot of a mature object has an unlog bit.  The first write to a   *)
(* slot in an epoch (the time between two pauses) has to enqueue the slot  *)
(* for an increment and the object the slot held when the epoch began for  *)
(* a decrement.  Several mutators may write slots of one object at the     *)
(* same time, so the barrier takes a lock bit, which covers a granule of   *)
(* slots, around its test of the unlog bit, its load and its logging.      *)
(* Eight unlog bits share a byte: when the granule of a lock bit is at     *)
(* least the heap covered by such a byte the bit is cleared by a plain     *)
(* load and store of the byte, otherwise by an atomic update.              *)
(***************************************************************************)
EXTENDS Integers, Sequences, FiniteSets

CONSTANTS
  Mutators,           \* the threads that run the barrier
  NumSlots,           \* slots 0 .. NumSlots-1, at consecutive addresses
  Referents,          \* the objects a slot may hold
  NullReference,      \* a slot that holds no object
  SlotsPerUnlogByte,  \* 8 in the build
  SlotsPerLockBit,    \* granule sizes in use: 2^LOG_BYTES_PER_RC_LOCK_BIT / slot size
  BUFFER_SIZE,        \* VectorQueue::CAPACITY
  MaxWrites           \* bound on the barrier calls of an epoch

\* Granules and the heap of an unlog byte are powers of two.
ASSUME LoggingAssumption ==
  /\ NumSlots \in Nat /\ SlotsPerUnlogByte \in Nat \ {0} /\ SlotsPerLockBit \subseteq Nat \ {0}
  /\ \A g \in SlotsPerLockBit : g >= SlotsPerUnlogByte => g % SlotsPerUnlogByte = 0
  /\ Referents # {} /\ NullReference \notin Referents
  /\ IsFiniteSet(Mutators) /\ BUFFER_SIZE \in Nat \ {0}

VARIABLES
  granule,   \* the lock granule this build was made with
  mem,       \* mem[s]: the contents of slot s
  unlogged,  \* the unlog bits: the slots whose bit is set
  locked,    \* the lock bits: the set of granules locked
  incs,      \* incs[m]: the local buffer of slots to increment
  decs,      \* decs[m]: the local buffer of objects to decrement
  packets,   \* how often each is in the flushed ProcessIncs and ProcessDecs packets
  step,      \* step[m]: where mutator m is in the barrier
  todo,      \* todo[m]: the slots the barrier call still has to log
  write,     \* write[m]: the stores that follow the barrier call
  loaded,    \* loaded[m]: the old target loaded under the lock
  unlogByte, \* unlogByte[m]: the byte a plain store read before writing it back
  before,    \* before[s]: what slot s held when the epoch began
  writes     \* barrier calls made in this epoch

loggingVars == <<granule, mem, unlogged, locked, incs, decs, packets, step,
                 todo, write, loaded, unlogByte, before, writes>>

Slots == 0 .. NumSlots - 1
Targets == Referents \cup {NullReference}
LockBit(s) == s \div granule
UnlogByteOf(s) == {t \in Slots : t \div SlotsPerUnlogByte = s \div SlotsPerUnlogByte}
NoPackets == [incs |-> [s \in Slots |-> 0], decs |-> [r \in Referents |-> 0]]

LoggingInit ==
  /\ granule \in SlotsPerLockBit
  /\ mem = [s \in Slots |-> IF s = 0 THEN NullReference ELSE CHOOSE r \in Referents : TRUE]
  /\ unlogged = Slots
  /\ locked = {}
  /\ incs = [m \in Mutators |-> <<>>]
  /\ decs = [m \in Mutators |-> <<>>]
  /\ packets = NoPackets
  /\ step = [m \in Mutators |-> "idle"]
  /\ todo = [m \in Mutators |-> <<>>]
  /\ write = [m \in Mutators |-> <<>>]
  /\ loaded = [m \in Mutators |-> NullReference]
  /\ unlogByte = [m \in Mutators |-> {}]
  /\ before = mem
  /\ writes = 0

-----------------------------------------------------------------------------
(* Entry points: FieldBarrier calls the semantics before the store.         *)

NoSlot == -1
Put(s, v) == [slot |-> s, from |-> NoSlot, value |-> v]
Copy(s, from) == [slot |-> s, from |-> from, value |-> NullReference]

CallBarrier(m, slots, stores) ==
  /\ step[m] = "idle"
  /\ writes < MaxWrites
  /\ writes' = writes + 1
  /\ step' = [step EXCEPT ![m] = "test"]
  /\ todo' = [todo EXCEPT ![m] = slots]
  /\ write' = [write EXCEPT ![m] = stores]
  /\ UNCHANGED <<granule, mem, unlogged, locked, incs, decs, packets, loaded, unlogByte, before>>

\* object_reference_write: one slot, one store.
object_reference_write(m) ==
  \E s \in Slots, v \in Targets : CallBarrier(m, <<s>>, <<Put(s, v)>>)

\* memory_region_copy: every slot of the destination is logged, then all are
\* copied; src and dst may overlap.
memory_region_copy(m) ==
  \E src \in Slots, dst \in Slots :
    /\ src + 1 \in Slots /\ dst + 1 \in Slots /\ src # dst
    /\ CallBarrier(m, <<dst, dst + 1>>, <<Copy(dst, src), Copy(dst + 1, src + 1)>>)

\* object_probable_write: every field of an object (here the upper half of the
\* slots) is logged, and some of them are then written without a barrier.
object_probable_write(m) ==
  LET first == NumSlots - NumSlots \div 2
      fields == [i \in 1 .. NumSlots \div 2 |-> first + i - 1]
  IN \E i \in DOMAIN fields, v \in Targets :
       CallBarrier(m, fields, <<Put(fields[i], v)>>)

-----------------------------------------------------------------------------
(* attempt_to_lock_slot_bailout_if_logged                                   *)

\* The next slot of the call, or the stores once every slot has been dealt with.
Advance(m) ==
  /\ todo' = [todo EXCEPT ![m] = Tail(@)]
  /\ step' = [step EXCEPT ![m] = IF Len(todo[m]) = 1 THEN "store" ELSE "test"]

BailoutIfLogged(m) ==
  /\ step[m] = "test"
  /\ \/ /\ Head(todo[m]) \notin unlogged
        /\ Advance(m)
     \/ /\ Head(todo[m]) \in unlogged
        /\ step' = [step EXCEPT ![m] = "lock"]
        /\ UNCHANGED todo
  /\ UNCHANGED <<granule, mem, unlogged, locked, incs, decs, packets, write, loaded,
                 unlogByte, before, writes>>

AttemptToLock(m) ==
  /\ step[m] = "lock"
  /\ \/ /\ LockBit(Head(todo[m])) \notin locked
        /\ locked' = locked \cup {LockBit(Head(todo[m]))}
        /\ step' = [step EXCEPT ![m] = "retest"]
     \/ /\ LockBit(Head(todo[m])) \in locked
        /\ step' = [step EXCEPT ![m] = "test"]
        /\ UNCHANGED locked
  /\ UNCHANGED <<granule, mem, unlogged, incs, decs, packets, todo, write, loaded,
                 unlogByte, before, writes>>

\* Mistake: the lock bit is not released.
unlock_slotForgotten(m) == UNCHANGED locked

unlock_slot(m) == locked' = locked \ {LockBit(Head(todo[m]))}

\* Mistake: the unlog bit is not tested again under the lock.
BailoutUnderLockNoRetest(m) ==
  /\ step[m] = "retest"
  /\ step' = [step EXCEPT ![m] = "load"]
  /\ UNCHANGED <<granule, mem, unlogged, locked, incs, decs, packets, todo, write, loaded,
                 unlogByte, before, writes>>

BailoutUnderLock(m) ==
  /\ step[m] = "retest"
  /\ \/ /\ Head(todo[m]) \notin unlogged
        /\ unlock_slot(m)
        /\ Advance(m)
     \/ /\ Head(todo[m]) \in unlogged
        /\ step' = [step EXCEPT ![m] = "load"]
        /\ UNCHANGED <<locked, todo>>
  /\ UNCHANGED <<granule, mem, unlogged, incs, decs, packets, write, loaded, unlogByte,
                 before, writes>>

-----------------------------------------------------------------------------
(* log_slot_and_get_old_target, log_and_unlock_slot, slow                   *)

LoadOldTarget(m) ==
  /\ step[m] = "load"
  /\ loaded' = [loaded EXCEPT ![m] = mem[Head(todo[m])]]
  /\ step' = [step EXCEPT ![m] = "log"]
  /\ UNCHANGED <<granule, mem, unlogged, locked, incs, decs, packets, todo, write,
                 unlogByte, before, writes>>

\* Mistake: the byte is stored plainly whatever the lock covers.
StoresPlainlyAlways == TRUE

\* The plain store is a load of the byte followed by a store of the byte.
StoresPlainly == granule >= SlotsPerUnlogByte

LogSlot(m) ==
  LET s == Head(todo[m])
  IN /\ \/ /\ step[m] = "log" /\ ~StoresPlainly
           /\ unlogged' = unlogged \ {s}
           /\ step' = [step EXCEPT ![m] = "unlock"]
           /\ UNCHANGED unlogByte
        \/ /\ step[m] = "log" /\ StoresPlainly
           /\ unlogByte' = [unlogByte EXCEPT ![m] = unlogged \cap UnlogByteOf(s)]
           /\ step' = [step EXCEPT ![m] = "write back"]
           /\ UNCHANGED unlogged
        \/ /\ step[m] = "write back"
           /\ unlogged' = (unlogged \ UnlogByteOf(s)) \cup (unlogByte[m] \ {s})
           /\ unlogByte' = [unlogByte EXCEPT ![m] = {}]
           /\ step' = [step EXCEPT ![m] = "unlock"]
     /\ UNCHANGED <<granule, mem, locked, incs, decs, packets, todo, write, loaded,
                    before, writes>>

Occurrences(q, x) == Cardinality({i \in DOMAIN q : q[i] = x})

\* A full local buffer is flushed into a work packet.
Fills(buffer) == Len(buffer) + 1 >= BUFFER_SIZE
Push(buffer, x) == IF Fills(buffer) THEN <<>> ELSE Append(buffer, x)
Flushed(buffer, x, y) == IF Fills(buffer) THEN Occurrences(Append(buffer, x), y) ELSE 0

slow(m, s, old) ==
  /\ incs' = [incs EXCEPT ![m] = Push(incs[m], s)]
  /\ \/ /\ old = NullReference
        /\ packets' = [incs |-> [t \in Slots |-> packets.incs[t] + Flushed(incs[m], s, t)],
                       decs |-> packets.decs]
        /\ UNCHANGED decs
     \/ /\ old # NullReference
        /\ packets' = [incs |-> [t \in Slots |-> packets.incs[t] + Flushed(incs[m], s, t)],
                       decs |-> [r \in Referents |-> packets.decs[r] + Flushed(decs[m], old, r)]]
        /\ decs' = [decs EXCEPT ![m] = Push(decs[m], old)]

UnlockAndEnqueue(m) ==
  /\ step[m] = "unlock"
  /\ unlock_slot(m)
  /\ slow(m, Head(todo[m]), loaded[m])
  /\ loaded' = [loaded EXCEPT ![m] = NullReference]
  /\ Advance(m)
  /\ UNCHANGED <<granule, mem, unlogged, write, unlogByte, before, writes>>

\* The store itself, done by the VM or by object_reference_write.
Store(m) ==
  /\ step[m] = "store"
  /\ LET w == Head(write[m])
     IN mem' = [mem EXCEPT ![w.slot] = IF w.from = NoSlot THEN w.value ELSE mem[w.from]]
  /\ write' = [write EXCEPT ![m] = Tail(@)]
  /\ step' = [step EXCEPT ![m] = IF Len(write[m]) = 1 THEN "idle" ELSE "store"]
  /\ UNCHANGED <<granule, unlogged, locked, incs, decs, packets, todo, loaded, unlogByte,
                 before, writes>>

-----------------------------------------------------------------------------
(* How often a slot or an object is in the buffers and the flushed packets.  *)
Buffered(buffers, x) ==
  {p \in Mutators \X (1 .. BUFFER_SIZE) :
     p[2] \in DOMAIN buffers[p[1]] /\ buffers[p[1]][p[2]] = x}
Enqueued(s) == packets.incs[s] + Cardinality(Buffered(incs, s))
Overwritten(r) == packets.decs[r] + Cardinality(Buffered(decs, r))

-----------------------------------------------------------------------------
(* A pause: no mutator is between its barrier call and its stores at a       *)
(* safepoint.  Every mutator's buffers are flushed, ProcessIncs sets the     *)
(* unlog bit of every enqueued slot again, and the decrements are applied.   *)
Pause ==
  /\ \A m \in Mutators : step[m] = "idle"
  /\ writes > 0
  /\ unlogged' = unlogged \cup {s \in Slots : Enqueued(s) > 0}
  /\ incs' = [m \in Mutators |-> <<>>]
  /\ decs' = [m \in Mutators |-> <<>>]
  /\ packets' = NoPackets
  /\ before' = mem
  /\ writes' = 0
  /\ UNCHANGED <<granule, mem, locked, step, todo, write, loaded, unlogByte>>

BarrierStep(m) ==
  \/ BailoutIfLogged(m) \/ AttemptToLock(m) \/ BailoutUnderLock(m) \/ LoadOldTarget(m)
  \/ LogSlot(m) \/ UnlockAndEnqueue(m) \/ Store(m)

LoggingNext ==
  \/ \E m \in Mutators : \/ object_reference_write(m) \/ memory_region_copy(m)
                         \/ object_probable_write(m) \/ BarrierStep(m)
  \/ Pause

LoggingSpec == LoggingInit /\ [][LoggingNext]_loggingVars

\* A thread inside the barrier keeps running.
LoggingFairness == \A m \in Mutators : WF_loggingVars(BarrierStep(m))

-----------------------------------------------------------------------------
LoggingTypeOK ==
  /\ granule \in SlotsPerLockBit
  /\ mem \in [Slots -> Targets] /\ before \in [Slots -> Targets]
  /\ unlogged \subseteq Slots
  /\ locked \subseteq {LockBit(s) : s \in Slots}
  /\ incs \in [Mutators -> Seq(Slots)] /\ decs \in [Mutators -> Seq(Referents)]
  /\ step \in [Mutators -> {"idle", "test", "lock", "retest", "load", "log", "write back",
                            "unlock", "store"}]
  /\ writes \in 0 .. MaxWrites

\* The thread has set the lock bit of its slot and not cleared it yet.
InsideLock(m) == step[m] \in {"retest", "load", "log", "write back", "unlock"}

\* A lock bit is held by one thread; the slot that a thread logs under it has
\* not been logged in this epoch, and the old target it takes for the
\* decrement is what the slot held when the epoch began; a slot that was
\* written has been logged, even if a neighbour's bit was cleared by a plain
\* store of the whole byte (attempt_to_lock_slot_bailout_if_logged,
\* log_and_unlock_slot, log_slot_and_get_old_target).
LoggedUnderLock ==
  /\ \A m, n \in Mutators :
       /\ InsideLock(m) /\ InsideLock(n)
       /\ LockBit(Head(todo[m])) = LockBit(Head(todo[n]))
       => m = n
  /\ \A m \in Mutators :
       /\ step[m] \in {"load", "log", "write back"} => Head(todo[m]) \in unlogged
       /\ step[m] = "unlock" => Head(todo[m]) \notin unlogged
       /\ step[m] \in {"log", "write back", "unlock"} => loaded[m] = before[Head(todo[m])]
  /\ \A s \in unlogged : mem[s] = before[s]

\* At a safepoint the buffers hold exactly what reference counting needs: a
\* slot that changed in this epoch is enqueued, no slot is enqueued twice
\* whichever mutators raced on it, and the decrements are the objects the
\* enqueued slots held when the epoch began (what log_slot_and_get_old_target
\* promises the pause).  Between safepoints LoggedUnderLock holds.
LogIsExact ==
  /\ LoggedUnderLock
  /\ (\A m \in Mutators : step[m] = "idle") =>
       /\ \A s \in Slots : Enqueued(s) =< 1 /\ (mem[s] # before[s] => Enqueued(s) = 1)
       /\ \A r \in Referents :
            Overwritten(r) = Cardinality({s \in Slots : Enqueued(s) = 1 /\ before[s] = r})

\* A thread that enters the barrier leaves it: spinning on a lock bit shared
\* with other slots cannot go on for ever, because every slot is logged at most
\* once before the next pause.
BarrierTerminates == \A m \in Mutators : (step[m] # "idle") ~> (step[m] = "idle")

=============================================================================

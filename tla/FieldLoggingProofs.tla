------------------------- MODULE FieldLoggingProofs -------------------------
(***************************************************************************)
(* The lock bits of the field-logging barrier do their work for any number *)
(* of mutators and slots: one thread at a time logs a slot, takes the      *)
(* reference the slot held when the epoch began, and enqueues both once.   *)
(***************************************************************************)
EXTENDS FieldLogging, FiniteSetTheorems, SequenceTheorems, TLAPS

USE ZenonT(60)

Busy == {"test", "lock", "retest", "load", "log", "write back", "unlock"}
Stores == [slot : Slots, from : Slots \cup {NoSlot}, value : Targets]

Buffers(T) == {B \in [Mutators -> Seq(T)] : \A m \in Mutators : Len(B[m]) < BUFFER_SIZE}

LogTypes ==
  /\ granule \in SlotsPerLockBit
  /\ mem \in [Slots -> Targets] /\ before \in [Slots -> Targets] /\ unlogged \subseteq Slots
  /\ step \in [Mutators -> Busy \cup {"idle", "store"}]
  /\ todo \in [Mutators -> Seq(Slots)] /\ write \in [Mutators -> Seq(Stores)]
  /\ loaded \in [Mutators -> Targets] /\ unlogByte \in [Mutators -> SUBSET Slots]
  /\ incs \in Buffers(Slots) /\ decs \in Buffers(Referents)
  /\ packets \in [incs : [Slots -> Nat], decs : [Referents -> Nat]]
  /\ \A m \in Mutators :
       /\ step[m] \in Busy => todo[m] # <<>> /\ write[m] # <<>>
       /\ step[m] = "store" => todo[m] = <<>> /\ write[m] # <<>>

Locks ==
  /\ \A m \in Mutators : InsideLock(m) => LockBit(Head(todo[m])) \in locked
  /\ \A m, n \in Mutators : InsideLock(m) /\ InsideLock(n) /\ m # n
                              => LockBit(Head(todo[m])) # LockBit(Head(todo[n]))

Elements(q) == {q[i] : i \in DOMAIN q}
StoredSlots(q) == {q[i].slot : i \in DOMAIN q}

\* What a thread knows of its slot at each step of the barrier, and that the
\* slots it is going to store to are logged or still to be logged.
Logging(m) ==
  /\ step[m] \in {"load", "log", "write back"} => Head(todo[m]) \in unlogged
  /\ step[m] = "unlock" => Head(todo[m]) \notin unlogged
  /\ step[m] \in {"log", "write back", "unlock"} => loaded[m] = before[Head(todo[m])]
  /\ step[m] = "write back" =>
       StoresPlainly /\ unlogByte[m] = unlogged \cap UnlogByteOf(Head(todo[m]))
  /\ step[m] # "idle" => StoredSlots(write[m]) \cap unlogged \subseteq Elements(todo[m])

\* The slots logged in this epoch whose thread has not enqueued them yet, and
\* those that have been enqueued.
Pending == {s \in Slots : \E m \in Mutators : step[m] = "unlock" /\ Head(todo[m]) = s}
Logged == Slots \ (unlogged \cup Pending)
LoggedWith(r) == {s \in Logged : before[s] = r}

\* What is buffered and flushed, at any moment.
Counts ==
  /\ \A s \in Slots : Enqueued(s) = IF s \in Logged THEN 1 ELSE 0
  /\ \A r \in Referents : Overwritten(r) = Cardinality(LoggedWith(r))

\* The inductive invariant.
LogInv ==
  /\ LogTypes /\ Locks /\ Counts
  /\ \A m \in Mutators : Logging(m)
  /\ \A s \in unlogged : mem[s] = before[s]

-----------------------------------------------------------------------------
(***************************************************************************)
(* Sequences and granules.                                                 *)
(***************************************************************************)
\* A sequence is its head and its tail.
LEMMA HeadAndTail ==
    ASSUME NEW S, NEW q \in Seq(S), q # <<>>
    PROVE  /\ Head(q) \in S /\ Tail(q) \in Seq(S) /\ (Len(q) = 1 <=> Tail(q) = <<>>)
           /\ Head(q) = q[1] /\ 1 \in DOMAIN q
           /\ \A i \in DOMAIN q : i = 1 \/ \E j \in DOMAIN Tail(q) : Tail(q)[j] = q[i]
           /\ \A j \in DOMAIN Tail(q) : \E i \in DOMAIN q : Tail(q)[j] = q[i]
  <1>1. /\ Head(q) \in S /\ Tail(q) \in Seq(S) /\ Len(Tail(q)) = Len(q) - 1
        /\ \A i \in 1 .. Len(Tail(q)) : Tail(q)[i] = q[i + 1]
    BY HeadTailProperties
  <1>2. Len(q) \in Nat /\ DOMAIN q = 1 .. Len(q) /\ Len(q) # 0
    BY LenProperties, EmptySeq
  <1>3. Len(Tail(q)) \in Nat /\ DOMAIN Tail(q) = 1 .. Len(Tail(q)) /\ (Tail(q) = <<>> <=> Len(Tail(q)) = 0)
    BY <1>1, LenProperties, EmptySeq
  <1>4. Head(q) = q[1]
    BY SMT
  <1>5. Len(q) = 1 <=> Len(Tail(q)) = 0
    BY <1>1, <1>2, SMT
  <1>6. ASSUME NEW i \in DOMAIN q, i # 1 PROVE \E j \in DOMAIN Tail(q) : Tail(q)[j] = q[i]
    <2>1. PICK j \in DOMAIN Tail(q) : j + 1 = i
      <3>1. i - 1 \in DOMAIN Tail(q) /\ (i - 1) + 1 = i
        BY <1>1, <1>2, <1>3, <1>6, SMT
      <3> QED
        BY <3>1
    <2> QED
      BY <1>1, <1>3, <2>1
  <1>7. ASSUME NEW j \in DOMAIN Tail(q) PROVE \E i \in DOMAIN q : Tail(q)[j] = q[i]
    <2>1. j + 1 \in DOMAIN q
      BY <1>1, <1>2, <1>3, SMT
    <2> QED
      BY <1>1, <1>3, <2>1
  <1>8. 1 \in DOMAIN q
    BY <1>2, SMT
  <1> QED
    BY <1>1, <1>3, <1>4, <1>5, <1>6, <1>7, <1>8

\* Its elements are those of the tail, and the head.
LEMMA HeadAndTailElements ==
    ASSUME NEW S, NEW q \in Seq(S), q # <<>>
    PROVE  Elements(q) = {Head(q)} \cup Elements(Tail(q))
  <1>1. /\ Head(q) = q[1] /\ 1 \in DOMAIN q
        /\ \A i \in DOMAIN q : i = 1 \/ \E j \in DOMAIN Tail(q) : Tail(q)[j] = q[i]
        /\ \A j \in DOMAIN Tail(q) : \E i \in DOMAIN q : Tail(q)[j] = q[i]
    BY HeadAndTail
  <1>2. ASSUME NEW x \in Elements(q) PROVE x \in {Head(q)} \cup Elements(Tail(q))
    <2>1. PICK i \in DOMAIN q : x = q[i]
      BY DEF Elements
    <2> QED
      BY <1>1, <2>1 DEF Elements
  <1>3. ASSUME NEW x \in {Head(q)} \cup Elements(Tail(q)) PROVE x \in Elements(q)
    <2>1. CASE x = Head(q)
      BY <1>1, <2>1 DEF Elements
    <2>2. CASE x \in Elements(Tail(q))
      <3>1. PICK j \in DOMAIN Tail(q) : x = Tail(q)[j]
        BY <2>2 DEF Elements
      <3> QED
        BY <1>1, <3>1 DEF Elements
    <2> QED
      BY <1>3, <2>1, <2>2
  <1> QED
    BY <1>2, <1>3

\* What remains of the stores after one of them.
LEMMA TailStores ==
    ASSUME NEW q \in Seq(Stores), q # <<>>
    PROVE  Head(q).slot \in StoredSlots(q) /\ StoredSlots(Tail(q)) \subseteq StoredSlots(q)
  <1>1. /\ Head(q) = q[1] /\ 1 \in DOMAIN q
        /\ \A j \in DOMAIN Tail(q) : \E i \in DOMAIN q : Tail(q)[j] = q[i]
    BY HeadAndTail
  <1> QED
    BY <1>1 DEF StoredSlots

\* The quotient is the number of whole pieces.
LEMMA Quotient ==
    ASSUME NEW x \in Nat, NEW g \in Nat \ {0}, NEW p \in Nat, p * g <= x, x < p * g + g
    PROVE  x \div g = p
  BY SMT

\* The slots of an unlog byte are in one lock granule if the granule is at
\* least as large, being a multiple.
LEMMA SameByteSameLock ==
    ASSUME granule \in SlotsPerLockBit, StoresPlainly, NEW s \in Slots, NEW t \in UnlogByteOf(s)
    PROVE  LockBit(s) = LockBit(t)
  <1> DEFINE b == SlotsPerUnlogByte
  <1>1. b \in Nat \ {0} /\ granule \in Nat \ {0} /\ granule % b = 0 /\ s \in Nat /\ t \in Nat
    BY LoggingAssumption, SMT DEF StoresPlainly, Slots, UnlogByteOf
  <1>2. PICK g \in Nat \ {0} : g = granule
    BY <1>1
  <1> HIDE DEF b
  <1>3. PICK k \in Nat \ {0} : g = k * b
    <2>1. g \div b \in Nat /\ g = (g \div b) * b
      BY <1>1, <1>2, SMT
    <2>2. g \div b # 0
      BY <2>1, <1>1, SMT
    <2> QED
      BY <2>1, <2>2
  <1>4. PICK q \in Nat : q = s \div b /\ q = t \div b
    BY <1>1, SMT DEF UnlogByteOf, b
  <1>5. q * b <= s /\ s < q * b + b /\ q * b <= t /\ t < q * b + b
    BY <1>1, <1>4, SMT
  <1>6. PICK p \in Nat : p = q \div k
    BY SMT
  <1>7. p * k <= q /\ q <= p * k + k - 1
    BY <1>6, SMT
  <1>8. p * g <= q * b /\ q * b + b <= p * g + g
    <2>1. (p * k) * b <= q * b
      BY <1>1, <1>7, SMT
    <2>2. (q + 1) * b <= (p * k + k) * b
      BY <1>1, <1>7, SMT
    <2>3. (p * k) * b = p * g /\ (p * k + k) * b = p * g + g /\ (q + 1) * b = q * b + b
      BY <1>1, <1>3, SMT
    <2> QED
      BY <2>1, <2>2, <2>3
  <1>9. PICK x \in Nat, y \in Nat, u \in Nat : x = p * g /\ y = q * b /\ u = b
    BY <1>1, SMT
  <1>10. x <= y /\ y + u <= x + g /\ y <= s /\ s < y + u /\ y <= t /\ t < y + u
    BY <1>5, <1>8, <1>9
  <1>11. x <= s /\ s < x + g /\ x <= t /\ t < x + g
    BY <1>1, <1>10, SMT
  <1>12. s \div g = p /\ t \div g = p
    BY <1>1, <1>9, <1>11, Quotient
  <1> QED
    BY <1>2, <1>12 DEF LockBit

-----------------------------------------------------------------------------
(***************************************************************************)
(* Counting what is in the buffers.                                        *)
(***************************************************************************)
Places(q, x) == {i \in DOMAIN q : q[i] = x}

\* The places of a sequence are finite in number.
LEMMA OccurrencesFinite ==
    ASSUME NEW T, NEW q \in Seq(T), NEW y
    PROVE  /\ IsFiniteSet(Places(q, y)) /\ Occurrences(q, y) = Cardinality(Places(q, y))
           /\ Occurrences(q, y) \in Nat
  <1>1. Len(q) \in Nat /\ DOMAIN q = 1 .. Len(q)
    BY LenProperties
  <1>2. IsFiniteSet(Places(q, y))
    <2>1. IsFiniteSet(1 .. Len(q))
      <3>1. 1 \in Int /\ Len(q) \in Int
        BY <1>1, SMT
      <3> QED
        BY <3>1, FS_Interval
    <2>2. Places(q, y) \in SUBSET (1 .. Len(q))
      BY <1>1 DEF Places
    <2> QED
      BY <2>1, <2>2, FS_Subset
  <1>3. Cardinality(Places(q, y)) \in Nat
    BY <1>2, FS_CardinalityType
  <1> QED
    BY <1>2, <1>3 DEF Occurrences, Places

\* There is one more after an append.
LEMMA OccurrencesAppend ==
    ASSUME NEW T, NEW q \in Seq(T), NEW x \in T, NEW y
    PROVE  Occurrences(Append(q, x), y) = Occurrences(q, y) + (IF x = y THEN 1 ELSE 0)
  <1> DEFINE a == Append(q, x)
             n == Len(q)
  <1>1. n \in Nat /\ DOMAIN q = 1 .. n
    BY LenProperties
  <1>2. /\ a \in Seq(T) /\ Len(a) = n + 1 /\ \A i \in 1 .. n : a[i] = q[i]
        /\ a[n + 1] = x
    BY SMT
  <1>3. DOMAIN a = 1 .. (n + 1)
    BY <1>2, LenProperties
  <1>4. 1 .. (n + 1) = (1 .. n) \cup {n + 1} /\ n + 1 \notin 1 .. n
    BY <1>1, SMT
  <1>5. IsFiniteSet(Places(q, y))
    BY OccurrencesFinite
  <1> HIDE DEF a, n
  <1>6. Places(a, y) = Places(q, y) \cup (IF x = y THEN {n + 1} ELSE {})
    <2>1. \A i \in DOMAIN a : i \in Places(a, y) <=> a[i] = y
      BY DEF Places
    <2>2. \A i \in 1 .. n : i \in Places(q, y) <=> q[i] = y
      BY <1>1 DEF Places
    <2>3. Places(a, y) \subseteq DOMAIN a /\ Places(q, y) \subseteq 1 .. n
      BY <1>1 DEF Places
    <2>4. n + 1 \in Places(a, y) <=> x = y
      BY <1>2, <1>3, <1>4, <2>1
    <2>5. \A i \in 1 .. n : i \in Places(a, y) <=> i \in Places(q, y)
      BY <1>2, <1>3, <1>4, <2>1, <2>2
    <2> QED
      BY <1>3, <1>4, <2>3, <2>4, <2>5
  <1>7. n + 1 \notin Places(q, y)
    BY <1>1, <1>4 DEF Places
  <1>8. Cardinality(Places(a, y)) = Cardinality(Places(q, y)) + (IF x = y THEN 1 ELSE 0)
    <2>1. Cardinality(Places(q, y)) \in Nat
      BY <1>5, FS_CardinalityType
    <2>2. CASE x = y
      BY <1>5, <1>6, <1>7, <2>2, FS_AddElement
    <2>3. CASE x # y
      <3>1. Places(a, y) = Places(q, y)
        BY <1>6, <2>3
      <3> QED
        BY <2>1, <2>3, <3>1, SMT
    <2> QED
      BY <2>2, <2>3
  <1> QED
    BY <1>8 DEF Occurrences, Places, a

\* The empty sequence has none.
LEMMA OccurrencesEmpty == ASSUME NEW y PROVE Occurrences(<<>>, y) = 0
  <1>1. {i \in DOMAIN <<>> : (<<>>)[i] = y} = {}
    BY SMT
  <1> QED
    BY <1>1, FS_EmptySet DEF Occurrences

Elsewhere(B, m, x) == {p \in Buffered(B, x) : p[1] # m}

\* What is buffered is what this mutator and what the others have buffered.
LEMMA BufferedSplit ==
    ASSUME NEW T, NEW B \in Buffers(T), NEW m \in Mutators, NEW x
    PROVE  /\ IsFiniteSet(Buffered(B, x)) /\ Cardinality(Buffered(B, x)) \in Nat
           /\ Cardinality(Elsewhere(B, m, x)) \in Nat
           /\ Cardinality(Buffered(B, x)) = Cardinality(Elsewhere(B, m, x)) + Occurrences(B[m], x)
  <1> DEFINE mine == {m} \X Places(B[m], x)
  <1>1. B[m] \in Seq(T) /\ Len(B[m]) < BUFFER_SIZE
    BY DEF Buffers
  <1>2. Len(B[m]) \in Nat /\ DOMAIN B[m] = 1 .. Len(B[m])
    BY <1>1, LenProperties
  <1>3. DOMAIN B[m] \subseteq 1 .. BUFFER_SIZE
    BY <1>1, <1>2, LoggingAssumption, SMT
  <1>4. IsFiniteSet(Buffered(B, x))
    <2>1. IsFiniteSet(1 .. BUFFER_SIZE)
      <3>1. 1 \in Int /\ BUFFER_SIZE \in Int
        BY LoggingAssumption, SMT
      <3> QED
        BY <3>1, FS_Interval
    <2>2. IsFiniteSet(Mutators \X (1 .. BUFFER_SIZE))
      BY <2>1, LoggingAssumption, FS_Product
    <2>3. Buffered(B, x) \in SUBSET (Mutators \X (1 .. BUFFER_SIZE))
      BY DEF Buffered
    <2> QED
      BY <2>2, <2>3, FS_Subset
  <1>5. IsFiniteSet(Elsewhere(B, m, x))
    <2>1. Elsewhere(B, m, x) \in SUBSET Buffered(B, x)
      BY DEF Elsewhere
    <2> QED
      BY <1>4, <2>1, FS_Subset
  <1>7. /\ IsFiniteSet(Places(B[m], x)) /\ Occurrences(B[m], x) = Cardinality(Places(B[m], x))
        /\ Occurrences(B[m], x) \in Nat
    BY <1>1, OccurrencesFinite
  <1>8. IsFiniteSet(mine) /\ Cardinality(mine) = Occurrences(B[m], x)
    <2>1. IsFiniteSet({m}) /\ Cardinality({m}) = 1
      BY FS_Singleton
    <2>2. IsFiniteSet(mine) /\ Cardinality(mine) = Cardinality({m}) * Cardinality(Places(B[m], x))
      BY <1>7, <2>1, FS_Product
    <2> QED
      BY <1>7, <2>1, <2>2, SMT
  <1>9. Buffered(B, x) = Elsewhere(B, m, x) \cup mine /\ Elsewhere(B, m, x) \cap mine = {}
    <2>1. \A p \in Mutators \X (1 .. BUFFER_SIZE) : p = <<p[1], p[2]>>
      BY SMT
    <2>2. ASSUME NEW p \in Buffered(B, x), p[1] = m PROVE p \in mine
      BY <2>1, <2>2 DEF Buffered, Places
    <2>3. mine \subseteq Buffered(B, x) /\ \A p \in mine : p[1] = m
      BY <1>3 DEF Buffered, Places
    <2> HIDE DEF mine
    <2> QED
      BY <2>2, <2>3 DEF Elsewhere
  <1>10. /\ Cardinality(Buffered(B, x))
              = Cardinality(Elsewhere(B, m, x)) + Cardinality(mine) - Cardinality(Elsewhere(B, m, x) \cap mine)
    BY <1>5, <1>8, <1>9, FS_Union
  <1>11. Cardinality(Elsewhere(B, m, x)) \in Nat /\ Cardinality(Buffered(B, x)) \in Nat
    BY <1>4, <1>5, FS_CardinalityType
  <1>12. Cardinality(Elsewhere(B, m, x) \cap mine) = 0
    BY <1>9, FS_EmptySet
  <1> HIDE DEF mine
  <1>13. Cardinality(Buffered(B, x)) = Cardinality(Elsewhere(B, m, x)) + Occurrences(B[m], x)
    BY <1>7, <1>8, <1>10, <1>11, <1>12, SMT
  <1> QED
    BY <1>4, <1>11, <1>13

Hit(x, y) == IF x = y THEN 1 ELSE 0
Pushed(B, m, x) == [B EXCEPT ![m] = Push(B[m], x)]

\* A push adds one to what is buffered and flushed, and leaves room.
LEMMA PushCounts ==
    ASSUME NEW T, NEW B \in Buffers(T), NEW m \in Mutators, NEW x \in T, NEW y
    PROVE  /\ Pushed(B, m, x) \in Buffers(T)
           /\ Flushed(B[m], x, y) \in Nat /\ Cardinality(Buffered(B, y)) \in Nat
           /\ Flushed(B[m], x, y) + Cardinality(Buffered(Pushed(B, m, x), y))
                = Cardinality(Buffered(B, y)) + Hit(x, y)
  <1> DEFINE C == Pushed(B, m, x)
             q == Push(B[m], x)
             a == Append(B[m], x)
  <1>1. B[m] \in Seq(T) /\ Len(B[m]) < BUFFER_SIZE /\ B \in [Mutators -> Seq(T)]
    BY DEF Buffers
  <1>2. a \in Seq(T) /\ Len(a) = Len(B[m]) + 1 /\ Len(B[m]) \in Nat
    BY <1>1, AppendProperties, LenProperties
  <1>3. q \in Seq(T) /\ Len(q) < BUFFER_SIZE
    <2>1. <<>> \in Seq(T) /\ Len(<<>>) < BUFFER_SIZE
      BY LoggingAssumption, SMT
    <2>2. ~Fills(B[m]) => Len(a) < BUFFER_SIZE
      BY <1>2, LoggingAssumption, SMT DEF Fills
    <2> QED
      BY <1>2, <2>1, <2>2 DEF Push
  <1>4. C[m] = q /\ \A n \in Mutators \ {m} : C[n] = B[n]
    BY <1>1 DEF Pushed
  <1> HIDE DEF q
  <1>5. C \in [Mutators -> Seq(T)]
    BY <1>1, <1>3 DEF q, Pushed
  <1> HIDE DEF C
  <1>6. C \in Buffers(T)
    BY <1>3, <1>4, <1>5 DEF Buffers
  <1>7. Elsewhere(C, m, y) = Elsewhere(B, m, y)
    <2>1. \A p \in Mutators \X (1 .. BUFFER_SIZE) : p[1] \in Mutators
      BY SMT
    <2> QED
      BY <1>4, <2>1 DEF Elsewhere, Buffered
  <1>8. PICK e \in Nat, b \in Nat, c \in Nat, o \in Nat, d \in Nat :
          /\ e = Cardinality(Elsewhere(B, m, y)) /\ b = Cardinality(Buffered(B, y))
          /\ c = Cardinality(Buffered(C, y)) /\ o = Occurrences(B[m], y) /\ d = Occurrences(q, y)
    <2>1. Cardinality(Elsewhere(B, m, y)) \in Nat /\ Cardinality(Buffered(B, y)) \in Nat
      BY BufferedSplit
    <2>2. Cardinality(Buffered(C, y)) \in Nat
      BY <1>6, BufferedSplit
    <2>3. Occurrences(B[m], y) \in Nat /\ Occurrences(q, y) \in Nat
      BY <1>1, <1>3, OccurrencesFinite
    <2> QED
      BY <2>1, <2>2, <2>3
  <1>9. b = e + o /\ c = e + d
    <2>1. Cardinality(Buffered(B, y)) = Cardinality(Elsewhere(B, m, y)) + Occurrences(B[m], y)
      BY BufferedSplit
    <2>2. Cardinality(Buffered(C, y)) = Cardinality(Elsewhere(C, m, y)) + Occurrences(C[m], y)
      BY <1>6, BufferedSplit
    <2> QED
      BY <1>4, <1>7, <1>8, <2>1, <2>2
  <1>10. PICK i \in {0, 1} : i = Hit(x, y)
    BY DEF Hit
  <1>11. Occurrences(a, y) = o + i
    <2>1. PICK p \in Seq(T) : p = B[m]
      BY <1>1
    <2>2. Occurrences(Append(p, x), y) = Occurrences(p, y) + (IF x = y THEN 1 ELSE 0)
      BY OccurrencesAppend
    <2> QED
      BY <1>8, <1>10, <2>1, <2>2 DEF Hit
  <1>12. CASE Fills(B[m])
    <2>1. q = <<>> /\ Flushed(B[m], x, y) = o + i
      BY <1>11, <1>12 DEF q, Push, Flushed
    <2>2. d = 0
      BY <1>8, <2>1, OccurrencesEmpty
    <2>3. o + i \in Nat /\ (o + i) + c = b + i
      BY <1>9, <2>2, SMT
    <2> QED
      BY <1>6, <1>8, <1>10, <2>1, <2>3 DEF C
  <1>13. CASE ~Fills(B[m])
    <2>1. q = a /\ Flushed(B[m], x, y) = 0
      BY <1>13 DEF q, Push, Flushed
    <2>2. d = o + i
      BY <1>8, <1>11, <2>1
    <2>3. 0 \in Nat /\ 0 + c = b + i
      BY <1>9, <2>2, SMT
    <2> QED
      BY <1>6, <1>8, <1>10, <2>1, <2>3 DEF C
  <1> QED
    BY <1>12, <1>13

-----------------------------------------------------------------------------
(***************************************************************************)
(* Steps of one mutator.                                                   *)
(***************************************************************************)
\* What the type invariant says of one mutator.
LEMMA MutatorTypes ==
    ASSUME LogInv, NEW m \in Mutators
    PROVE  /\ step[m] \in Busy \cup {"idle", "store"} /\ todo[m] \in Seq(Slots)
           /\ write[m] \in Seq(Stores) /\ loaded[m] \in Targets /\ unlogByte[m] \subseteq Slots
           /\ step[m] \in Busy => /\ todo[m] # <<>> /\ write[m] # <<>> /\ Head(todo[m]) \in Slots
  <1>1. /\ step[m] \in Busy \cup {"idle", "store"} /\ todo[m] \in Seq(Slots)
        /\ write[m] \in Seq(Stores) /\ loaded[m] \in Targets /\ unlogByte[m] \subseteq Slots
        /\ step[m] \in Busy => /\ todo[m] # <<>> /\ write[m] # <<>>
    BY DEF LogInv, LogTypes
  <1> QED
    BY <1>1, HeadAndTail

\* A step of m that leaves n's state alone, and logs m's slot at most, under
\* m's lock, keeps what is known of n.
LEMMA OtherMutator ==
    ASSUME LogInv, NEW m \in Mutators, NEW n \in Mutators \ {m},
           step'[n] = step[n], todo'[n] = todo[n], write'[n] = write[n],
           loaded'[n] = loaded[n], unlogByte'[n] = unlogByte[n],
           UNCHANGED <<granule, before>>,
           \/ unlogged' = unlogged
           \/ InsideLock(m) /\ unlogged' = unlogged \ {Head(todo[m])}
    PROVE  Logging(n)'
  <1>1. Logging(n)
    BY DEF LogInv
  <1>2. CASE unlogged' = unlogged
    BY <1>1, <1>2 DEF Logging, StoresPlainly, UnlogByteOf
  <1>3. CASE InsideLock(m) /\ unlogged' = unlogged \ {Head(todo[m])}
    <2>1. InsideLock(n) => LockBit(Head(todo[n])) # LockBit(Head(todo[m]))
      BY <1>3 DEF LogInv, Locks
    <2>2. InsideLock(n) => Head(todo[n]) # Head(todo[m])
      BY <2>1
    <2>3. step[n] = "write back" => Head(todo[m]) \notin UnlogByteOf(Head(todo[n]))
      <3> SUFFICES ASSUME step[n] = "write back", Head(todo[m]) \in UnlogByteOf(Head(todo[n]))
                   PROVE  FALSE
        OBVIOUS
      <3>1. StoresPlainly /\ InsideLock(n)
        BY <1>1 DEF Logging, InsideLock
      <3>2. Head(todo[n]) \in Slots
        BY MutatorTypes DEF Busy
      <3>3. LockBit(Head(todo[n])) = LockBit(Head(todo[m]))
        BY <3>1, <3>2, SameByteSameLock DEF LogInv, LogTypes
      <3> QED
        BY <2>1, <3>1, <3>3
    <2>4. step[n] = "write back" =>
            unlogged' \cap UnlogByteOf(Head(todo[n])) = unlogged \cap UnlogByteOf(Head(todo[n]))
      BY <1>3, <2>3
    <2>5. step[n] \in {"load", "log", "write back"} => Head(todo[n]) \in unlogged'
      BY <1>1, <1>3, <2>2 DEF Logging, InsideLock
    <2>6. step[n] = "unlock" => Head(todo[n]) \notin unlogged'
      BY <1>1, <1>3 DEF Logging
    <2>7. step[n] # "idle" => StoredSlots(write[n]) \cap unlogged' \subseteq Elements(todo[n])
      BY <1>1, <1>3 DEF Logging
    <2> QED
      BY <1>1, <2>4, <2>5, <2>6, <2>7 DEF Logging, StoresPlainly, UnlogByteOf
  <1> QED
    BY <1>2, <1>3

\* Lock bits stay exclusive: a mutator that newly holds one found it clear, and
\* one that stops holding one clears no other.
LEMMA LocksStep ==
    ASSUME LogInv, NEW m \in Mutators, UNCHANGED granule,
           \A n \in Mutators \ {m} : step'[n] = step[n] /\ todo'[n] = todo[n],
           \/ locked \subseteq locked'
           \/ InsideLock(m) /\ locked' = locked \ {LockBit(Head(todo[m]))},
           InsideLock(m)' =>
             /\ LockBit(Head(todo[m]))' \in locked'
             /\ \/ InsideLock(m) /\ LockBit(Head(todo[m]))' = LockBit(Head(todo[m]))
                \/ LockBit(Head(todo[m]))' \notin locked
    PROVE  Locks'
  <1>1. \A n \in Mutators \ {m} : /\ InsideLock(n)' <=> InsideLock(n)
                                  /\ LockBit(Head(todo[n]))' = LockBit(Head(todo[n]))
    BY DEF InsideLock, LockBit
  <1>2. ASSUME NEW n \in Mutators, InsideLock(n)' PROVE LockBit(Head(todo[n]))' \in locked'
    <2>1. CASE n = m
      BY <1>2, <2>1
    <2>2. CASE n # m
      <3>1. InsideLock(n) /\ LockBit(Head(todo[n])) \in locked
        BY <1>1, <1>2, <2>2 DEF LogInv, Locks
      <3>2. InsideLock(m) => LockBit(Head(todo[n])) # LockBit(Head(todo[m]))
        BY <2>2, <3>1 DEF LogInv, Locks
      <3> QED
        BY <1>1, <2>2, <3>1, <3>2
    <2> QED
      BY <2>1, <2>2
  <1>3. ASSUME NEW n \in Mutators \ {m}, InsideLock(n)', InsideLock(m)'
        PROVE  LockBit(Head(todo[n]))' # LockBit(Head(todo[m]))'
    <2>1. InsideLock(n) /\ LockBit(Head(todo[n])) \in locked
      BY <1>1, <1>3 DEF LogInv, Locks
    <2>2. InsideLock(m) => LockBit(Head(todo[n])) # LockBit(Head(todo[m]))
      BY <2>1 DEF LogInv, Locks
    <2> QED
      BY <1>1, <1>3, <2>1, <2>2
  <1>4. ASSUME NEW n \in Mutators \ {m}, NEW o \in Mutators \ {m}, InsideLock(n)', InsideLock(o)', n # o
        PROVE  LockBit(Head(todo[n]))' # LockBit(Head(todo[o]))'
    <2>1. InsideLock(n) /\ InsideLock(o)
      BY <1>1, <1>4
    <2>2. LockBit(Head(todo[n])) # LockBit(Head(todo[o]))
      BY <1>4, <2>1 DEF LogInv, Locks
    <2> QED
      BY <1>1, <2>2
  <1> QED
    BY <1>2, <1>3, <1>4 DEF Locks

\* What is enqueued stays exact while the slots that are logged and enqueued
\* are the same.
LEMMA CountsKept ==
    ASSUME LogInv, UNCHANGED <<incs, decs, packets, before>>, Logged' = Logged
    PROVE  Counts'
  <1>1. \A s : Enqueued(s)' = Enqueued(s)
    BY DEF Enqueued, Buffered
  <1>2. \A r : Overwritten(r)' = Overwritten(r)
    BY DEF Overwritten, Buffered
  <1>3. \A r : LoggedWith(r)' = LoggedWith(r)
    BY DEF LoggedWith
  <1> QED
    BY <1>1, <1>2, <1>3 DEF LogInv, Counts

\* A step of one mutator keeps the invariant if it does for the mutator itself.
LEMMA MutatorStep ==
    ASSUME LogInv, NEW m \in Mutators, UNCHANGED <<granule, before>>,
           \A n \in Mutators \ {m} :
             /\ step'[n] = step[n] /\ todo'[n] = todo[n] /\ write'[n] = write[n]
             /\ loaded'[n] = loaded[n] /\ unlogByte'[n] = unlogByte[n],
           \/ unlogged' = unlogged
           \/ InsideLock(m) /\ unlogged' = unlogged \ {Head(todo[m])},
           \/ locked \subseteq locked'
           \/ InsideLock(m) /\ locked' = locked \ {LockBit(Head(todo[m]))},
           InsideLock(m)' =>
             /\ LockBit(Head(todo[m]))' \in locked'
             /\ \/ InsideLock(m) /\ LockBit(Head(todo[m]))' = LockBit(Head(todo[m]))
                \/ LockBit(Head(todo[m]))' \notin locked,
           LogTypes', Counts', Logging(m)', \A s \in unlogged' : mem'[s] = before'[s]
    PROVE  LogInv'
  <1>1. ASSUME NEW n \in Mutators, n # m PROVE Logging(n)'
    <2>1. /\ step'[n] = step[n] /\ todo'[n] = todo[n] /\ write'[n] = write[n]
          /\ loaded'[n] = loaded[n] /\ unlogByte'[n] = unlogByte[n]
      BY <1>1
    <2> QED
      BY <1>1, <2>1, OtherMutator
  <1>2. Locks'
    BY LocksStep
  <1> QED
    BY <1>1, <1>2 DEF LogInv

\* Steps at which no slot is logged or enqueued.
LEMMA ControlStep ==
    ASSUME LogInv, NEW m \in Mutators,
           UNCHANGED <<granule, before, unlogged, incs, decs, packets>>,
           \A n \in Mutators \ {m} :
             /\ step'[n] = step[n] /\ todo'[n] = todo[n] /\ write'[n] = write[n]
             /\ loaded'[n] = loaded[n] /\ unlogByte'[n] = unlogByte[n],
           step[m] # "unlock", step'[m] # "unlock",
           \/ locked \subseteq locked'
           \/ InsideLock(m) /\ locked' = locked \ {LockBit(Head(todo[m]))},
           InsideLock(m)' =>
             /\ LockBit(Head(todo[m]))' \in locked'
             /\ \/ InsideLock(m) /\ LockBit(Head(todo[m]))' = LockBit(Head(todo[m]))
                \/ LockBit(Head(todo[m]))' \notin locked,
           LogTypes', Logging(m)', \A s \in unlogged : mem'[s] = before[s]
    PROVE  LogInv'
  <1>1. Pending' = Pending
    BY DEF Pending
  <1>2. Logged' = Logged
    BY <1>1 DEF Logged
  <1>3. Counts'
    BY <1>2, CountsKept
  <1> QED
    BY <1>3, MutatorStep

\* A call enters the barrier with a slot to log for each of its stores.
LEMMA CallBarrierStep ==
    ASSUME LogInv, NEW m \in Mutators, NEW slots \in Seq(Slots), NEW stores \in Seq(Stores),
           slots # <<>>, stores # <<>>, StoredSlots(stores) \subseteq Elements(slots),
           CallBarrier(m, slots, stores)
    PROVE  LogInv'
  <1>1. /\ step \in [Mutators -> Busy \cup {"idle", "store"}] /\ todo \in [Mutators -> Seq(Slots)]
        /\ write \in [Mutators -> Seq(Stores)]
    BY DEF LogInv, LogTypes
  <1>2. /\ step[m] = "idle" /\ step' = [step EXCEPT ![m] = "test"]
        /\ todo' = [todo EXCEPT ![m] = slots] /\ write' = [write EXCEPT ![m] = stores]
        /\ UNCHANGED <<granule, mem, unlogged, locked, incs, decs, packets, loaded, unlogByte, before>>
    BY DEF CallBarrier
  <1>3. /\ step'[m] = "test" /\ todo'[m] = slots /\ write'[m] = stores
        /\ \A n \in Mutators \ {m} : /\ step'[n] = step[n] /\ todo'[n] = todo[n] /\ write'[n] = write[n]
                                     /\ loaded'[n] = loaded[n] /\ unlogByte'[n] = unlogByte[n]
    BY <1>1, <1>2
  <1>4. /\ step' \in [Mutators -> Busy \cup {"idle", "store"}] /\ todo' \in [Mutators -> Seq(Slots)]
        /\ write' \in [Mutators -> Seq(Stores)]
    BY <1>1, <1>2 DEF Busy
  <1>5. LogTypes'
    <2>1. \A n \in Mutators : /\ step'[n] \in Busy => todo'[n] # <<>> /\ write'[n] # <<>>
                              /\ step'[n] = "store" => todo'[n] = <<>> /\ write'[n] # <<>>
      BY <1>3 DEF LogInv, LogTypes
    <2> QED
      BY <1>2, <1>4, <2>1 DEF LogInv, LogTypes
  <1>6. Logging(m)'
    BY <1>2, <1>3 DEF Logging
  <1>7. ~InsideLock(m)'
    BY <1>3 DEF InsideLock
  <1> QED
    BY <1>2, <1>3, <1>5, <1>6, <1>7, ControlStep DEF LogInv

\* object_reference_write
LEMMA ReferenceWriteStep ==
    ASSUME LogInv, NEW m \in Mutators, object_reference_write(m)
    PROVE  LogInv'
  <1>1. PICK s \in Slots, v \in Targets : CallBarrier(m, <<s>>, <<Put(s, v)>>)
    BY DEF object_reference_write
  <1>2. Put(s, v) \in Stores /\ Put(s, v).slot = s
    BY DEF Put, Stores
  <1>3. /\ <<s>> \in Seq(Slots) /\ <<s>> # <<>> /\ <<Put(s, v)>> \in Seq(Stores) /\ <<Put(s, v)>> # <<>>
        /\ DOMAIN <<s>> = {1} /\ <<s>>[1] = s /\ DOMAIN <<Put(s, v)>> = {1} /\ <<Put(s, v)>>[1] = Put(s, v)
    BY <1>2, SMT
  <1>4. StoredSlots(<<Put(s, v)>>) \subseteq Elements(<<s>>)
    BY <1>2, <1>3 DEF StoredSlots, Elements
  <1> QED
    BY <1>1, <1>3, <1>4, CallBarrierStep

\* memory_region_copy
LEMMA RegionCopyStep ==
    ASSUME LogInv, NEW m \in Mutators, memory_region_copy(m)
    PROVE  LogInv'
  <1>1. PICK src \in Slots, dst \in Slots :
          /\ src + 1 \in Slots /\ dst + 1 \in Slots
          /\ CallBarrier(m, <<dst, dst + 1>>, <<Copy(dst, src), Copy(dst + 1, src + 1)>>)
    BY DEF memory_region_copy
  <1>2. PICK e \in Slots, f \in Slots : e = dst + 1 /\ f = src + 1
    BY <1>1
  <1> DEFINE a == Copy(dst, src)
             b == Copy(e, f)
             slots == <<dst, e>>
             stores == <<a, b>>
  <1>3. a \in Stores /\ a.slot = dst /\ b \in Stores /\ b.slot = e
    BY DEF Copy, Stores, Targets
  <1> HIDE DEF a, b
  <1>4. /\ slots \in Seq(Slots) /\ slots # <<>> /\ stores \in Seq(Stores) /\ stores # <<>>
        /\ DOMAIN slots = {1, 2} /\ slots[1] = dst /\ slots[2] = e
        /\ DOMAIN stores = {1, 2} /\ stores[1] = a /\ stores[2] = b
    BY <1>3, SMT
  <1> HIDE DEF slots, stores
  <1>5. StoredSlots(stores) \subseteq Elements(slots)
    BY <1>3, <1>4 DEF StoredSlots, Elements
  <1>6. CallBarrier(m, slots, stores)
    BY <1>1, <1>2 DEF slots, stores, a, b
  <1> QED
    BY <1>4, <1>5, <1>6, CallBarrierStep

\* object_probable_write
LEMMA ProbableWriteStep ==
    ASSUME LogInv, NEW m \in Mutators, object_probable_write(m)
    PROVE  LogInv'
  <1> DEFINE half == NumSlots \div 2
             fields == [i \in 1 .. half |-> NumSlots - half + i - 1]
  <1>1. PICK i \in 1 .. half, v \in Targets : CallBarrier(m, fields, <<Put(fields[i], v)>>)
    BY DEF object_probable_write
  <1>2. half \in Nat /\ half <= NumSlots /\ NumSlots \in Nat
    BY LoggingAssumption, SMT
  <1> HIDE DEF half
  <1>3. \A j \in 1 .. half : NumSlots - half + j - 1 \in Slots
    BY <1>2, SMT DEF Slots
  <1>4. fields \in [1 .. half -> Slots] /\ fields[i] \in Slots /\ DOMAIN fields = 1 .. half
    BY <1>3
  <1>5. fields \in Seq(Slots)
    BY <1>2, <1>4, SMT
  <1> HIDE DEF fields
  <1>6. fields # <<>>
    <2>1. DOMAIN <<>> = {}
      BY SMT
    <2> QED
      BY <1>4, <2>1
  <1>7. PICK s \in Slots : s = fields[i]
    BY <1>4
  <1>8. Put(s, v) \in Stores /\ Put(s, v).slot = s
    BY DEF Put, Stores
  <1>9. /\ <<Put(s, v)>> \in Seq(Stores) /\ <<Put(s, v)>> # <<>>
        /\ DOMAIN <<Put(s, v)>> = {1} /\ <<Put(s, v)>>[1] = Put(s, v)
    BY <1>8, SMT
  <1>10. StoredSlots(<<Put(s, v)>>) \subseteq Elements(fields)
    BY <1>4, <1>7, <1>8, <1>9 DEF StoredSlots, Elements
  <1> QED
    BY <1>1, <1>5, <1>6, <1>7, <1>9, <1>10, CallBarrierStep

-----------------------------------------------------------------------------
(***************************************************************************)
(* Steps inside the barrier.                                               *)
(***************************************************************************)
\* A slot that is logged is done with: the call goes on to its next one.
LEMMA AdvanceStep ==
    ASSUME LogInv, NEW m \in Mutators, step[m] \in Busy, Advance(m), Head(todo[m]) \notin unlogged
    PROVE  /\ step' \in [Mutators -> Busy \cup {"idle", "store"}] /\ todo' \in [Mutators -> Seq(Slots)]
           /\ step'[m] \in {"store", "test"}
           /\ step'[m] = "store" <=> todo'[m] = <<>>
           /\ \A n \in Mutators \ {m} : step'[n] = step[n] /\ todo'[n] = todo[n]
           /\ StoredSlots(write[m]) \cap unlogged \subseteq Elements(todo'[m])
  <1>1. /\ step \in [Mutators -> Busy \cup {"idle", "store"}] /\ todo \in [Mutators -> Seq(Slots)]
        /\ todo[m] \in Seq(Slots) /\ todo[m] # <<>> /\ step[m] # "idle"
    BY MutatorTypes DEF LogInv, LogTypes, Busy
  <1>2. Tail(todo[m]) \in Seq(Slots) /\ (Len(todo[m]) = 1 <=> Tail(todo[m]) = <<>>)
    BY <1>1, HeadAndTail
  <1>3. /\ todo' = [todo EXCEPT ![m] = Tail(todo[m])]
        /\ step' = [step EXCEPT ![m] = IF Len(todo[m]) = 1 THEN "store" ELSE "test"]
    BY DEF Advance
  <1>4. todo'[m] = Tail(todo[m]) /\ step'[m] = IF Len(todo[m]) = 1 THEN "store" ELSE "test"
    BY <1>1, <1>3
  <1>5. Elements(todo[m]) = {Head(todo[m])} \cup Elements(Tail(todo[m]))
    BY <1>1, HeadAndTailElements
  <1>6. StoredSlots(write[m]) \cap unlogged \subseteq Elements(todo[m])
    BY <1>1 DEF LogInv, Logging
  <1>7. \A n \in Mutators \ {m} : step'[n] = step[n] /\ todo'[n] = todo[n]
    BY <1>1, <1>3
  <1>8. step' \in [Mutators -> Busy \cup {"idle", "store"}]
    BY <1>1, <1>3 DEF Busy
  <1>9. todo' \in [Mutators -> Seq(Slots)]
    BY <1>1, <1>2, <1>3
  <1>10. StoredSlots(write[m]) \cap unlogged \subseteq Elements(todo'[m])
    BY <1>4, <1>5, <1>6
  <1>11. step'[m] \in {"store", "test"} /\ (step'[m] = "store" <=> todo'[m] = <<>>)
    BY <1>2, <1>4
  <1> QED
    BY <1>7, <1>8, <1>9, <1>10, <1>11

\* The types after a step to the next slot.
LEMMA AdvanceTypes ==
    ASSUME LogInv, NEW m \in Mutators, step[m] \in Busy, Advance(m), Head(todo[m]) \notin unlogged,
           UNCHANGED <<granule, mem, unlogged, write, unlogByte, before>>,
           loaded' \in [Mutators -> Targets], incs' \in Buffers(Slots), decs' \in Buffers(Referents),
           packets' \in [incs : [Slots -> Nat], decs : [Referents -> Nat]]
    PROVE  LogTypes' /\ Logging(m)' /\ ~InsideLock(m)'
  <1>1. /\ step' \in [Mutators -> Busy \cup {"idle", "store"}] /\ todo' \in [Mutators -> Seq(Slots)]
        /\ step'[m] \in {"store", "test"}
        /\ step'[m] = "store" <=> todo'[m] = <<>>
        /\ \A n \in Mutators \ {m} : step'[n] = step[n] /\ todo'[n] = todo[n]
        /\ StoredSlots(write[m]) \cap unlogged \subseteq Elements(todo'[m])
    BY AdvanceStep
  <1>2. write[m] # <<>>
    BY MutatorTypes
  <1>3. \A n \in Mutators : /\ step'[n] \in Busy => todo'[n] # <<>> /\ write'[n] # <<>>
                            /\ step'[n] = "store" => todo'[n] = <<>> /\ write'[n] # <<>>
    <2>1. ASSUME NEW n \in Mutators, n # m
          PROVE  /\ step'[n] \in Busy => todo'[n] # <<>> /\ write'[n] # <<>>
                 /\ step'[n] = "store" => todo'[n] = <<>> /\ write'[n] # <<>>
      BY <1>1, <2>1 DEF LogInv, LogTypes
    <2>2. /\ step'[m] \in Busy => todo'[m] # <<>> /\ write'[m] # <<>>
          /\ step'[m] = "store" => todo'[m] = <<>> /\ write'[m] # <<>>
      BY <1>1, <1>2 DEF Busy
    <2> QED
      BY <2>1, <2>2
  <1>4. LogTypes'
    BY <1>1, <1>3 DEF LogInv, LogTypes
  <1>5. Logging(m)' /\ ~InsideLock(m)'
    BY <1>1 DEF Logging, InsideLock
  <1> QED
    BY <1>4, <1>5

\* A step on a slot keeps the types when it only moves on.
LEMMA MoveTypes ==
    ASSUME LogInv, NEW m \in Mutators, step[m] \in Busy, NEW to \in Busy,
           step' = [step EXCEPT ![m] = to],
           UNCHANGED <<granule, mem, before, incs, decs, packets, todo, write>>,
           unlogged' \subseteq Slots, loaded' \in [Mutators -> Targets],
           unlogByte' \in [Mutators -> SUBSET Slots]
    PROVE  LogTypes' /\ step'[m] = to /\ \A n \in Mutators \ {m} : step'[n] = step[n]
  <1>1. step \in [Mutators -> Busy \cup {"idle", "store"}]
    BY DEF LogInv, LogTypes
  <1>2. step'[m] = to /\ \A n \in Mutators \ {m} : step'[n] = step[n]
    BY <1>1
  <1>3. step' \in [Mutators -> Busy \cup {"idle", "store"}]
    BY <1>1
  <1>4. "store" \notin Busy
    BY DEF Busy
  <1>5. \A n \in Mutators : /\ step'[n] \in Busy => todo'[n] # <<>> /\ write'[n] # <<>>
                            /\ step'[n] = "store" => todo'[n] = <<>> /\ write'[n] # <<>>
    <2>1. ASSUME NEW n \in Mutators, n # m
          PROVE  /\ step'[n] \in Busy => todo'[n] # <<>> /\ write'[n] # <<>>
                 /\ step'[n] = "store" => todo'[n] = <<>> /\ write'[n] # <<>>
      BY <1>2, <2>1 DEF LogInv, LogTypes
    <2>2. todo[m] # <<>> /\ write[m] # <<>>
      BY MutatorTypes
    <2> QED
      BY <1>2, <1>4, <2>1, <2>2
  <1> QED
    BY <1>2, <1>3, <1>5 DEF LogInv, LogTypes

\* attempt_to_lock_slot_bailout_if_logged: the first test of the unlog bit.
LEMMA BailoutIfLoggedStep ==
    ASSUME LogInv, NEW m \in Mutators, BailoutIfLogged(m)
    PROVE  LogInv'
  <1>1. /\ step[m] = "test" /\ step[m] \in Busy
        /\ UNCHANGED <<granule, mem, unlogged, locked, incs, decs, packets, write, loaded,
                       unlogByte, before>>
    BY DEF BailoutIfLogged, Busy
  <1>2. /\ loaded' \in [Mutators -> Targets] /\ incs' \in Buffers(Slots) /\ decs' \in Buffers(Referents)
        /\ packets' \in [incs : [Slots -> Nat], decs : [Referents -> Nat]]
        /\ unlogged' \subseteq Slots /\ unlogByte' \in [Mutators -> SUBSET Slots]
        /\ \A s \in unlogged : mem'[s] = before[s]
    BY <1>1 DEF LogInv, LogTypes
  <1>3. CASE Head(todo[m]) \notin unlogged /\ Advance(m)
    <2>1. LogTypes' /\ Logging(m)' /\ ~InsideLock(m)'
      BY <1>1, <1>2, <1>3, AdvanceTypes
    <2>2. /\ step'[m] \in {"store", "test"}
          /\ \A n \in Mutators \ {m} : step'[n] = step[n] /\ todo'[n] = todo[n]
      BY <1>1, <1>3, AdvanceStep
    <2> QED
      BY <1>1, <1>2, <2>1, <2>2, ControlStep
  <1>4. CASE step' = [step EXCEPT ![m] = "lock"] /\ UNCHANGED todo
    <2>1. LogTypes' /\ step'[m] = "lock" /\ \A n \in Mutators \ {m} : step'[n] = step[n]
      <3>1. "lock" \in Busy
        BY DEF Busy
      <3> QED
        BY <1>1, <1>2, <1>4, <3>1, MoveTypes
    <2>2. Logging(m)' /\ ~InsideLock(m)'
      BY <1>1, <1>4, <2>1 DEF LogInv, Logging, InsideLock
    <2> QED
      BY <1>1, <1>2, <1>4, <2>1, <2>2, ControlStep
  <1> QED
    BY <1>3, <1>4 DEF BailoutIfLogged

\* attempt_to_lock_slot_bailout_if_logged: the compare-and-exchange of the lock bit.
LEMMA AttemptToLockStep ==
    ASSUME LogInv, NEW m \in Mutators, AttemptToLock(m)
    PROVE  LogInv'
  <1>1. /\ step[m] = "lock" /\ step[m] \in Busy
        /\ UNCHANGED <<granule, mem, unlogged, incs, decs, packets, todo, write, loaded,
                       unlogByte, before>>
    BY DEF AttemptToLock, Busy
  <1>2. /\ loaded' \in [Mutators -> Targets] /\ unlogged' \subseteq Slots
        /\ unlogByte' \in [Mutators -> SUBSET Slots] /\ \A s \in unlogged : mem'[s] = before[s]
    BY <1>1 DEF LogInv, LogTypes
  <1>3. "retest" \in Busy /\ "test" \in Busy
    BY DEF Busy
  <1>4. CASE /\ LockBit(Head(todo[m])) \notin locked
             /\ locked' = locked \cup {LockBit(Head(todo[m]))}
             /\ step' = [step EXCEPT ![m] = "retest"]
    <2>1. LogTypes' /\ step'[m] = "retest" /\ \A n \in Mutators \ {m} : step'[n] = step[n]
      BY <1>1, <1>2, <1>3, <1>4, MoveTypes
    <2>2. Logging(m)'
      BY <1>1, <2>1 DEF LogInv, Logging
    <2>3. LockBit(Head(todo[m]))' = LockBit(Head(todo[m]))
      BY <1>1 DEF LockBit
    <2> QED
      BY <1>1, <1>2, <1>4, <2>1, <2>2, <2>3, ControlStep
  <1>5. CASE step' = [step EXCEPT ![m] = "test"] /\ UNCHANGED locked
    <2>1. LogTypes' /\ step'[m] = "test" /\ \A n \in Mutators \ {m} : step'[n] = step[n]
      BY <1>1, <1>2, <1>3, <1>5, MoveTypes
    <2>2. Logging(m)' /\ ~InsideLock(m)'
      BY <1>1, <2>1 DEF LogInv, Logging, InsideLock
    <2> QED
      BY <1>1, <1>2, <1>5, <2>1, <2>2, ControlStep
  <1> QED
    BY <1>4, <1>5 DEF AttemptToLock

\* attempt_to_lock_slot_bailout_if_logged: the test again, under the lock.
LEMMA BailoutUnderLockStep ==
    ASSUME LogInv, NEW m \in Mutators, BailoutUnderLock(m)
    PROVE  LogInv'
  <1>1. /\ step[m] = "retest" /\ step[m] \in Busy /\ InsideLock(m)
        /\ UNCHANGED <<granule, mem, unlogged, incs, decs, packets, write, loaded,
                       unlogByte, before>>
    BY DEF BailoutUnderLock, Busy, InsideLock
  <1>2. /\ loaded' \in [Mutators -> Targets] /\ incs' \in Buffers(Slots) /\ decs' \in Buffers(Referents)
        /\ packets' \in [incs : [Slots -> Nat], decs : [Referents -> Nat]]
        /\ unlogged' \subseteq Slots /\ unlogByte' \in [Mutators -> SUBSET Slots]
        /\ \A s \in unlogged : mem'[s] = before[s]
    BY <1>1 DEF LogInv, LogTypes
  <1>3. CASE Head(todo[m]) \notin unlogged /\ unlock_slot(m) /\ Advance(m)
    <2>1. LogTypes' /\ Logging(m)' /\ ~InsideLock(m)'
      BY <1>1, <1>2, <1>3, AdvanceTypes
    <2>2. /\ step'[m] \in {"store", "test"}
          /\ \A n \in Mutators \ {m} : step'[n] = step[n] /\ todo'[n] = todo[n]
      BY <1>1, <1>3, AdvanceStep
    <2>3. locked' = locked \ {LockBit(Head(todo[m]))}
      BY <1>3 DEF unlock_slot
    <2> QED
      BY <1>1, <1>2, <2>1, <2>2, <2>3, ControlStep
  <1>4. CASE Head(todo[m]) \in unlogged /\ step' = [step EXCEPT ![m] = "load"] /\ UNCHANGED <<locked, todo>>
    <2>1. LogTypes' /\ step'[m] = "load" /\ \A n \in Mutators \ {m} : step'[n] = step[n]
      <3>1. "load" \in Busy
        BY DEF Busy
      <3> QED
        BY <1>1, <1>2, <1>4, <3>1, MoveTypes
    <2>2. Logging(m)'
      BY <1>1, <1>4, <2>1 DEF LogInv, Logging
    <2>3. LockBit(Head(todo[m]))' = LockBit(Head(todo[m])) /\ LockBit(Head(todo[m])) \in locked
      BY <1>1, <1>4 DEF LockBit, LogInv, Locks
    <2> QED
      BY <1>1, <1>2, <1>4, <2>1, <2>2, <2>3, ControlStep
  <1> QED
    BY <1>3, <1>4 DEF BailoutUnderLock

\* log_slot_and_get_old_target: the load of the old target.
LEMMA LoadOldTargetStep ==
    ASSUME LogInv, NEW m \in Mutators, LoadOldTarget(m)
    PROVE  LogInv'
  <1>1. /\ step[m] = "load" /\ step[m] \in Busy /\ InsideLock(m)
        /\ step' = [step EXCEPT ![m] = "log"]
        /\ loaded' = [loaded EXCEPT ![m] = mem[Head(todo[m])]]
        /\ UNCHANGED <<granule, mem, unlogged, locked, incs, decs, packets, todo, write,
                       unlogByte, before>>
    BY DEF LoadOldTarget, Busy, InsideLock
  <1>2. Head(todo[m]) \in Slots /\ Head(todo[m]) \in unlogged /\ mem[Head(todo[m])] = before[Head(todo[m])]
    BY <1>1, MutatorTypes DEF LogInv, Logging
  <1>3. /\ mem \in [Slots -> Targets] /\ loaded \in [Mutators -> Targets]
        /\ unlogged' \subseteq Slots /\ unlogByte' \in [Mutators -> SUBSET Slots]
        /\ \A s \in unlogged : mem'[s] = before[s]
    BY <1>1 DEF LogInv, LogTypes
  <1>4. /\ loaded' \in [Mutators -> Targets] /\ loaded'[m] = before[Head(todo[m])]
        /\ \A n \in Mutators \ {m} : loaded'[n] = loaded[n]
    <2>1. PICK t \in Targets : t = mem[Head(todo[m])] /\ t = before[Head(todo[m])]
      BY <1>2, <1>3
    <2> QED
      BY <1>1, <1>3, <2>1
  <1>5. LogTypes' /\ step'[m] = "log" /\ \A n \in Mutators \ {m} : step'[n] = step[n]
    <2>1. "log" \in Busy
      BY DEF Busy
    <2> QED
      BY <1>1, <1>3, <1>4, <2>1, MoveTypes
  <1>6. Logging(m)'
    BY <1>1, <1>2, <1>4, <1>5 DEF LogInv, Logging
  <1>7. LockBit(Head(todo[m]))' = LockBit(Head(todo[m])) /\ LockBit(Head(todo[m])) \in locked
    BY <1>1 DEF LockBit, LogInv, Locks
  <1> QED
    BY <1>1, <1>3, <1>4, <1>5, <1>6, <1>7, ControlStep

\* The unlog bit of the slot is cleared, and no other bit.
LEMMA ClearStep ==
    ASSUME LogInv, NEW m \in Mutators, step[m] \in {"log", "write back"},
           step' = [step EXCEPT ![m] = "unlock"], unlogged' = unlogged \ {Head(todo[m])},
           unlogByte' \in [Mutators -> SUBSET Slots],
           \A n \in Mutators \ {m} : unlogByte'[n] = unlogByte[n],
           UNCHANGED <<granule, mem, locked, incs, decs, packets, todo, write, loaded, before>>
    PROVE  LogInv'
  <1>1. /\ step[m] \in Busy /\ InsideLock(m) /\ "unlock" \in Busy /\ step[m] # "unlock"
        /\ step[m] # "idle"
    BY DEF Busy, InsideLock
  <1>2. /\ Head(todo[m]) \in Slots /\ Head(todo[m]) \in unlogged
        /\ loaded[m] = before[Head(todo[m])]
        /\ StoredSlots(write[m]) \cap unlogged \subseteq Elements(todo[m])
    BY <1>1, MutatorTypes DEF LogInv, Logging
  <1>3. unlogged' \subseteq Slots /\ loaded' \in [Mutators -> Targets]
    BY DEF LogInv, LogTypes
  <1>4. LogTypes' /\ step'[m] = "unlock" /\ \A n \in Mutators \ {m} : step'[n] = step[n]
    BY <1>1, <1>3, MoveTypes
  <1>5. Logging(m)'
    BY <1>1, <1>2, <1>4 DEF Logging
  <1>6. LockBit(Head(todo[m]))' = LockBit(Head(todo[m])) /\ LockBit(Head(todo[m])) \in locked
    BY <1>1 DEF LockBit, LogInv, Locks
  <1>7. Pending' = Pending \cup {Head(todo[m])}
    <2>1. ASSUME NEW s \in Pending' PROVE s \in Pending \cup {Head(todo[m])}
      BY <1>4 DEF Pending
    <2>2. ASSUME NEW s \in Pending PROVE s \in Pending'
      BY <1>1, <1>4 DEF Pending
    <2>3. Head(todo[m]) \in Pending'
      BY <1>2, <1>4 DEF Pending
    <2> QED
      BY <2>1, <2>2, <2>3
  <1>8. Logged' = Logged
    BY <1>2, <1>7 DEF Logged
  <1>9. Counts'
    BY <1>8, CountsKept
  <1>10. \A s \in unlogged' : mem'[s] = before'[s]
    BY DEF LogInv
  <1> QED
    BY <1>1, <1>4, <1>5, <1>6, <1>9, <1>10, MutatorStep

\* log_and_unlock_slot: the unlog bit, by an atomic update or by a load and a
\* store of its byte.
LEMMA LogSlotStep ==
    ASSUME LogInv, NEW m \in Mutators, LogSlot(m)
    PROVE  LogInv'
  <1> DEFINE s == Head(todo[m])
  <1>1. /\ step[m] \in {"log", "write back"} /\ step[m] \in Busy /\ InsideLock(m)
        /\ UNCHANGED <<granule, mem, locked, incs, decs, packets, todo, write, loaded, before>>
    BY DEF LogSlot, Busy, InsideLock
  <1>2. s \in Slots /\ s \in unlogged
    BY <1>1, MutatorTypes DEF LogInv, Logging
  <1>3. unlogByte \in [Mutators -> SUBSET Slots] /\ unlogged \subseteq Slots
    BY DEF LogInv, LogTypes
  <1> HIDE DEF s
  <1>4. CASE unlogged' = unlogged \ {s} /\ step' = [step EXCEPT ![m] = "unlock"] /\ UNCHANGED unlogByte
    BY <1>1, <1>3, <1>4, ClearStep DEF s
  <1>5. CASE /\ step[m] = "log" /\ StoresPlainly
             /\ unlogByte' = [unlogByte EXCEPT ![m] = unlogged \cap UnlogByteOf(s)]
             /\ step' = [step EXCEPT ![m] = "write back"]
             /\ UNCHANGED unlogged
    <2>1. /\ unlogByte' \in [Mutators -> SUBSET Slots] /\ unlogByte'[m] = unlogged \cap UnlogByteOf(s)
          /\ \A n \in Mutators \ {m} : unlogByte'[n] = unlogByte[n]
      <3>1. PICK b \in SUBSET Slots : b = unlogged \cap UnlogByteOf(s)
        BY <1>3
      <3> QED
        BY <1>3, <1>5, <3>1
    <2>2. loaded' \in [Mutators -> Targets] /\ \A t \in unlogged : mem'[t] = before[t]
      BY <1>1 DEF LogInv, LogTypes
    <2>3. LogTypes' /\ step'[m] = "write back" /\ \A n \in Mutators \ {m} : step'[n] = step[n]
      <3>1. "write back" \in Busy
        BY DEF Busy
      <3> QED
        BY <1>1, <1>3, <1>5, <2>1, <2>2, <3>1, MoveTypes
    <2>4. Logging(m)'
      <3>1. /\ loaded[m] = before[s] /\ StoredSlots(write[m]) \cap unlogged \subseteq Elements(todo[m])
        BY <1>5 DEF LogInv, Logging, s
      <3>2. StoresPlainly' /\ UnlogByteOf(s)' = UnlogByteOf(s) /\ s' = s
        BY <1>1, <1>5 DEF StoresPlainly, UnlogByteOf, s
      <3> QED
        BY <1>1, <1>2, <1>5, <2>1, <2>3, <3>1, <3>2 DEF Logging, s
    <2>5. LockBit(Head(todo[m]))' = LockBit(Head(todo[m])) /\ LockBit(Head(todo[m])) \in locked
      BY <1>1 DEF LockBit, LogInv, Locks
    <2> QED
      BY <1>1, <1>5, <2>1, <2>2, <2>3, <2>4, <2>5, ControlStep
  <1>6. CASE /\ step[m] = "write back"
             /\ unlogged' = (unlogged \ UnlogByteOf(s)) \cup (unlogByte[m] \ {s})
             /\ unlogByte' = [unlogByte EXCEPT ![m] = {}]
             /\ step' = [step EXCEPT ![m] = "unlock"]
    <2>1. unlogByte[m] = unlogged \cap UnlogByteOf(s)
      BY <1>6 DEF LogInv, Logging, s
    <2>2. s \in UnlogByteOf(s)
      BY <1>2 DEF UnlogByteOf
    <2>3. unlogged' = unlogged \ {s}
      BY <1>6, <2>1, <2>2
    <2>4. unlogByte' \in [Mutators -> SUBSET Slots] /\ \A n \in Mutators \ {m} : unlogByte'[n] = unlogByte[n]
      BY <1>3, <1>6
    <2> QED
      BY <1>1, <1>6, <2>3, <2>4, ClearStep DEF s
  <1> QED
    BY <1>4, <1>5, <1>6 DEF LogSlot, s

\* VectorQueue: a push of the slot and of its old target, which may flush
\* either buffer, adds one to each count.
LEMMA SlowCounts ==
    ASSUME LogInv, NEW m \in Mutators, NEW s \in Slots, NEW old \in Targets, slow(m, s, old)
    PROVE  /\ incs' \in Buffers(Slots) /\ decs' \in Buffers(Referents)
           /\ packets' \in [incs : [Slots -> Nat], decs : [Referents -> Nat]]
           /\ \A t \in Slots : Enqueued(t)' = Enqueued(t) + Hit(s, t)
           /\ \A r \in Referents : Overwritten(r)' = Overwritten(r) + Hit(old, r)
  <1>1. incs \in Buffers(Slots) /\ decs \in Buffers(Referents)
    BY DEF LogInv, LogTypes
  <1>2. packets.incs \in [Slots -> Nat] /\ packets.decs \in [Referents -> Nat]
    BY DEF LogInv, LogTypes
  <1>3. /\ incs' = [incs EXCEPT ![m] = Push(incs[m], s)]
        /\ packets'.incs = [t \in Slots |-> packets.incs[t] + Flushed(incs[m], s, t)]
    <2> DEFINE I == [t \in Slots |-> packets.incs[t] + Flushed(incs[m], s, t)]
               D == [r \in Referents |-> packets.decs[r] + Flushed(decs[m], old, r)]
    <2>1. /\ incs' = [incs EXCEPT ![m] = Push(incs[m], s)]
          /\ \/ packets' = [incs |-> I, decs |-> packets.decs]
             \/ packets' = [incs |-> I, decs |-> D]
      BY DEF slow
    <2> HIDE DEF I, D
    <2>2. CASE packets' = [incs |-> I, decs |-> packets.decs]
      BY <2>1, <2>2 DEF I
    <2>3. CASE packets' = [incs |-> I, decs |-> D]
      BY <2>1, <2>3 DEF I
    <2> QED
      BY <2>1, <2>2, <2>3
  <1>4. ASSUME NEW t \in Slots
        PROVE  /\ incs' \in Buffers(Slots) /\ packets'.incs[t] \in Nat
               /\ Enqueued(t)' = Enqueued(t) + Hit(s, t)
    <2>1. /\ incs' \in Buffers(Slots)
          /\ Flushed(incs[m], s, t) \in Nat /\ Cardinality(Buffered(incs, t)) \in Nat
          /\ Flushed(incs[m], s, t) + Cardinality(Buffered(incs', t))
               = Cardinality(Buffered(incs, t)) + Hit(s, t)
      <3>1. incs' = Pushed(incs, m, s)
        BY <1>3 DEF Pushed
      <3>2. s \in Slots /\ incs \in Buffers(Slots)
        BY <1>1
      <3>3. /\ Pushed(incs, m, s) \in Buffers(Slots)
            /\ Flushed(incs[m], s, t) \in Nat /\ Cardinality(Buffered(incs, t)) \in Nat
            /\ Flushed(incs[m], s, t) + Cardinality(Buffered(Pushed(incs, m, s), t))
                 = Cardinality(Buffered(incs, t)) + Hit(s, t)
        BY <3>2, PushCounts, SMT
      <3> QED
        BY <3>1, <3>3
    <2>2. Cardinality(Buffered(incs', t)) \in Nat
      BY <2>1, BufferedSplit
    <2>3. packets'.incs[t] = packets.incs[t] + Flushed(incs[m], s, t) /\ packets.incs[t] \in Nat
      BY <1>2, <1>3
    <2>4. PICK p \in Nat, f \in Nat, b \in Nat, c \in Nat, i \in {0, 1} :
            /\ p = packets.incs[t] /\ f = Flushed(incs[m], s, t) /\ b = Cardinality(Buffered(incs, t))
            /\ c = Cardinality(Buffered(incs', t)) /\ i = Hit(s, t)
      <3>1. Hit(s, t) \in {0, 1}
        BY DEF Hit
      <3> QED
        BY <2>1, <2>2, <2>3, <3>1
    <2>5. f + c = b + i /\ packets'.incs[t] = p + f
      BY <2>1, <2>3, <2>4
    <2>6. p + f \in Nat /\ (p + f) + c = (p + b) + i
      BY <2>5, SMT
    <2>7. Enqueued(t)' = (p + f) + c /\ Enqueued(t) = p + b
      BY <2>4, <2>5 DEF Enqueued
    <2> QED
      BY <2>1, <2>4, <2>5, <2>6, <2>7
  <1>5. packets'.incs \in [Slots -> Nat] /\ incs' \in Buffers(Slots)
    <2>1. \A t \in Slots : packets.incs[t] + Flushed(incs[m], s, t) \in Nat
      BY <1>3, <1>4
    <2> QED
      BY <1>3, <1>4, <2>1
  <1>6. CASE old = NullReference
    <2>1. decs' = decs /\ packets'.decs = packets.decs
      <3> DEFINE I == [t \in Slots |-> packets.incs[t] + Flushed(incs[m], s, t)]
      <3>1. decs' = decs /\ packets' = [incs |-> I, decs |-> packets.decs]
        BY <1>6 DEF slow
      <3> HIDE DEF I
      <3> QED
        BY <3>1
    <2>2. \A r \in Referents : r # old
      BY <1>6, LoggingAssumption
    <2>3. \A r \in Referents : Overwritten(r)' = Overwritten(r)
      BY <2>1 DEF Overwritten
    <2>4. ASSUME NEW r \in Referents PROVE Overwritten(r) + 0 = Overwritten(r)
      <3>1. packets.decs[r] \in Nat /\ Cardinality(Buffered(decs, r)) \in Nat
        BY <1>1, <1>2, BufferedSplit
      <3> QED
        BY <3>1, SMT DEF Overwritten
    <2>5. packets' \in [incs : [Slots -> Nat], decs : [Referents -> Nat]]
      BY <1>2, <1>5, <1>6, <2>1 DEF slow
    <2> QED
      BY <1>1, <1>4, <1>5, <2>1, <2>2, <2>3, <2>4, <2>5 DEF Hit
  <1>7. CASE old # NullReference
    <2>1. /\ old \in Referents /\ decs' = [decs EXCEPT ![m] = Push(decs[m], old)]
          /\ packets'.decs = [r \in Referents |-> packets.decs[r] + Flushed(decs[m], old, r)]
      <3> DEFINE I == [t \in Slots |-> packets.incs[t] + Flushed(incs[m], s, t)]
                 D == [r \in Referents |-> packets.decs[r] + Flushed(decs[m], old, r)]
      <3>1. /\ decs' = [decs EXCEPT ![m] = Push(decs[m], old)]
            /\ packets' = [incs |-> I, decs |-> D]
        BY <1>7 DEF slow
      <3> HIDE DEF I, D
      <3>2. packets'.decs = D
        BY <3>1
      <3> QED
        BY <1>7, <3>1, <3>2 DEF D, Targets
    <2>2. ASSUME NEW r \in Referents
          PROVE  /\ decs' \in Buffers(Referents) /\ packets'.decs[r] \in Nat
                 /\ Overwritten(r)' = Overwritten(r) + Hit(old, r)
      <3>1. /\ decs' \in Buffers(Referents)
            /\ Flushed(decs[m], old, r) \in Nat /\ Cardinality(Buffered(decs, r)) \in Nat
            /\ Flushed(decs[m], old, r) + Cardinality(Buffered(decs', r))
                 = Cardinality(Buffered(decs, r)) + Hit(old, r)
        <4>1. decs' = Pushed(decs, m, old)
          BY <2>1 DEF Pushed
        <4>2. old \in Referents /\ decs \in Buffers(Referents)
          BY <1>1, <2>1
        <4>3. /\ Pushed(decs, m, old) \in Buffers(Referents)
              /\ Flushed(decs[m], old, r) \in Nat /\ Cardinality(Buffered(decs, r)) \in Nat
              /\ Flushed(decs[m], old, r) + Cardinality(Buffered(Pushed(decs, m, old), r))
                   = Cardinality(Buffered(decs, r)) + Hit(old, r)
          BY <4>2, PushCounts, SMT
        <4> QED
          BY <4>1, <4>3
      <3>2. Cardinality(Buffered(decs', r)) \in Nat
        BY <3>1, BufferedSplit
      <3>3. packets'.decs[r] = packets.decs[r] + Flushed(decs[m], old, r) /\ packets.decs[r] \in Nat
        BY <1>2, <2>1
      <3>4. PICK p \in Nat, f \in Nat, b \in Nat, c \in Nat, i \in {0, 1} :
              /\ p = packets.decs[r] /\ f = Flushed(decs[m], old, r) /\ b = Cardinality(Buffered(decs, r))
              /\ c = Cardinality(Buffered(decs', r)) /\ i = Hit(old, r)
        <4>1. Hit(old, r) \in {0, 1}
          BY DEF Hit
        <4> QED
          BY <3>1, <3>2, <3>3, <4>1
      <3>5. f + c = b + i /\ packets'.decs[r] = p + f
        BY <3>1, <3>3, <3>4
      <3>6. p + f \in Nat /\ (p + f) + c = (p + b) + i
        BY <3>5, SMT
      <3>7. Overwritten(r)' = (p + f) + c /\ Overwritten(r) = p + b
        BY <3>4, <3>5 DEF Overwritten
      <3> QED
        BY <3>1, <3>4, <3>5, <3>6, <3>7
    <2>3. packets'.decs \in [Referents -> Nat] /\ decs' \in Buffers(Referents)
      <3>1. \A r \in Referents : packets.decs[r] + Flushed(decs[m], old, r) \in Nat
        BY <2>1, <2>2
      <3> QED
        BY <2>1, <2>2, <3>1
    <2>4. packets' \in [incs : [Slots -> Nat], decs : [Referents -> Nat]]
      BY <1>5, <1>7, <2>3 DEF slow
    <2> QED
      BY <1>4, <1>5, <2>2, <2>3, <2>4
  <1> QED
    BY <1>6, <1>7

\* The slots logged in an epoch are finite in number.
LEMMA LoggedFinite ==
    ASSUME NEW r PROVE IsFiniteSet(LoggedWith(r)) /\ Cardinality(LoggedWith(r)) \in Nat
  <1>1. IsFiniteSet(Slots)
    <2>1. 0 \in Int /\ NumSlots - 1 \in Int
      BY LoggingAssumption, SMT
    <2> QED
      BY <2>1, FS_Interval DEF Slots
  <1>2. LoggedWith(r) \in SUBSET Slots
    BY DEF LoggedWith, Logged
  <1>3. IsFiniteSet(LoggedWith(r))
    BY <1>1, <1>2, FS_Subset
  <1> QED
    BY <1>3, FS_CardinalityType

\* slow: the slot and its old target are enqueued once the lock is released.
LEMMA UnlockAndEnqueueStep ==
    ASSUME LogInv, NEW m \in Mutators, UnlockAndEnqueue(m)
    PROVE  LogInv'
  <1>1. /\ step[m] = "unlock" /\ step[m] \in Busy /\ InsideLock(m)
        /\ locked' = locked \ {LockBit(Head(todo[m]))} /\ slow(m, Head(todo[m]), loaded[m])
        /\ loaded' = [loaded EXCEPT ![m] = NullReference] /\ Advance(m)
        /\ UNCHANGED <<granule, mem, unlogged, write, unlogByte, before>>
    BY DEF UnlockAndEnqueue, unlock_slot, Busy, InsideLock
  <1>2. PICK s \in Slots : s = Head(todo[m])
    BY <1>1, MutatorTypes
  <1>3. s \notin unlogged /\ loaded[m] = before[s] /\ loaded[m] \in Targets
    BY <1>1, <1>2, MutatorTypes DEF LogInv, Logging
  <1>4. loaded \in [Mutators -> Targets] /\ NullReference \in Targets /\ \A t \in unlogged : mem[t] = before[t]
    BY DEF LogInv, LogTypes, Targets
  <1>5. loaded' \in [Mutators -> Targets] /\ \A n \in Mutators \ {m} : loaded'[n] = loaded[n]
    BY <1>1, <1>4
  <1>6. /\ incs' \in Buffers(Slots) /\ decs' \in Buffers(Referents)
        /\ packets' \in [incs : [Slots -> Nat], decs : [Referents -> Nat]]
        /\ \A t \in Slots : Enqueued(t)' = Enqueued(t) + Hit(s, t)
        /\ \A r \in Referents : Overwritten(r)' = Overwritten(r) + Hit(before[s], r)
    <2>1. slow(m, s, loaded[m])
      BY <1>1, <1>2
    <2>2. PICK old \in Targets : old = loaded[m]
      BY <1>3
    <2> QED
      BY <1>3, <2>1, <2>2, SlowCounts
  <1>7. LogTypes' /\ Logging(m)' /\ ~InsideLock(m)'
    BY <1>1, <1>2, <1>3, <1>5, <1>6, AdvanceTypes
  <1>8. /\ step'[m] \in {"store", "test"}
        /\ \A n \in Mutators \ {m} : step'[n] = step[n] /\ todo'[n] = todo[n]
    BY <1>1, <1>2, <1>3, AdvanceStep
  <1>9. s \in Pending /\ Pending' = Pending \ {s}
    <2>1. s \in Pending
      BY <1>1, <1>2 DEF Pending
    <2>2. ASSUME NEW n \in Mutators \ {m}, step[n] = "unlock" PROVE Head(todo[n]) # s
      <3>1. InsideLock(n)
        BY <2>2 DEF InsideLock
      <3>2. LockBit(Head(todo[n])) # LockBit(Head(todo[m]))
        BY <1>1, <3>1 DEF LogInv, Locks
      <3> QED
        BY <1>2, <3>2
    <2>3. ASSUME NEW t \in Pending' PROVE t \in Pending \ {s}
      <3>1. PICK n \in Mutators : step'[n] = "unlock" /\ Head(todo'[n]) = t
        BY DEF Pending
      <3>2. n # m /\ t \in Slots
        BY <1>8, <3>1 DEF Pending
      <3> QED
        BY <1>8, <2>2, <3>1, <3>2 DEF Pending
    <2>4. ASSUME NEW t \in Pending, t # s PROVE t \in Pending'
      <3>1. PICK n \in Mutators : step[n] = "unlock" /\ Head(todo[n]) = t
        BY DEF Pending
      <3>2. n # m /\ t \in Slots
        BY <1>2, <2>4, <3>1 DEF Pending
      <3> QED
        BY <1>8, <3>1, <3>2 DEF Pending
    <2> QED
      BY <2>1, <2>3, <2>4
  <1>10. s \notin Logged /\ Logged' = Logged \cup {s}
    BY <1>1, <1>3, <1>9 DEF Logged
  <1>11. ASSUME NEW t \in Slots PROVE Enqueued(t)' = IF t \in Logged' THEN 1 ELSE 0
    <2>1. Enqueued(t) = IF t \in Logged THEN 1 ELSE 0
      BY DEF LogInv, Counts
    <2>2. CASE t = s
      <3>1. Enqueued(t) = 0 /\ Hit(s, t) = 1 /\ t \in Logged'
        BY <1>10, <2>1, <2>2 DEF Hit
      <3> QED
        BY <1>6, <3>1, SMT
    <2>3. CASE t # s
      <3>1. Hit(s, t) = 0 /\ (t \in Logged' <=> t \in Logged)
        BY <1>10, <2>3 DEF Hit
      <3>2. Enqueued(t) + 0 = Enqueued(t)
        BY <2>1, SMT
      <3> QED
        BY <1>6, <2>1, <3>1, <3>2
    <2> QED
      BY <2>2, <2>3
  <1>12. ASSUME NEW r \in Referents PROVE Overwritten(r)' = Cardinality(LoggedWith(r)')
    <2>1. Overwritten(r) = Cardinality(LoggedWith(r)) /\ Cardinality(LoggedWith(r)) \in Nat
      BY LoggedFinite DEF LogInv, Counts
    <2>2. CASE before[s] = r
      <3>1. LoggedWith(r)' = LoggedWith(r) \cup {s} /\ s \notin LoggedWith(r)
        BY <1>1, <1>10, <2>2 DEF LoggedWith
      <3>2. IsFiniteSet(LoggedWith(r))
        BY LoggedFinite
      <3>3. Cardinality(LoggedWith(r)') = Cardinality(LoggedWith(r)) + 1
        BY <3>1, <3>2, FS_AddElement
      <3>4. Hit(before[s], r) = 1
        BY <2>2 DEF Hit
      <3> QED
        BY <1>6, <2>1, <3>3, <3>4
    <2>3. CASE before[s] # r
      <3>1. LoggedWith(r)' = LoggedWith(r)
        BY <1>1, <1>10, <2>3 DEF LoggedWith
      <3>2. Hit(before[s], r) = 0 /\ Overwritten(r) + 0 = Overwritten(r)
        <4>1. Hit(before[s], r) = 0
          BY <2>3 DEF Hit
        <4>2. Overwritten(r) + 0 = Overwritten(r)
          BY <2>1, SMT
        <4> QED
          BY <4>1, <4>2
      <3> QED
        BY <1>6, <2>1, <3>1, <3>2
    <2> QED
      BY <2>2, <2>3
  <1>13. Counts'
    BY <1>11, <1>12 DEF Counts
  <1> QED
    BY <1>1, <1>4, <1>5, <1>7, <1>8, <1>13, MutatorStep

\* The store follows the barrier: its slot has been logged.
LEMMA StoreStep ==
    ASSUME LogInv, NEW m \in Mutators, Store(m)
    PROVE  LogInv'
  <1> DEFINE w == Head(write[m])
             v == IF w.from = NoSlot THEN w.value ELSE mem[w.from]
  <1>1. /\ step[m] = "store" /\ mem' = [mem EXCEPT ![w.slot] = v]
        /\ write' = [write EXCEPT ![m] = Tail(write[m])]
        /\ step' = [step EXCEPT ![m] = IF Len(write[m]) = 1 THEN "idle" ELSE "store"]
        /\ UNCHANGED <<granule, unlogged, locked, incs, decs, packets, todo, loaded, unlogByte, before>>
    BY DEF Store
  <1>2. /\ step \in [Mutators -> Busy \cup {"idle", "store"}] /\ write \in [Mutators -> Seq(Stores)]
        /\ mem \in [Slots -> Targets] /\ write[m] \in Seq(Stores) /\ write[m] # <<>> /\ todo[m] = <<>>
    BY <1>1 DEF LogInv, LogTypes
  <1>3. w \in Stores /\ Tail(write[m]) \in Seq(Stores) /\ (Len(write[m]) = 1 <=> Tail(write[m]) = <<>>)
    BY <1>2, HeadAndTail
  <1>4. w.slot \in StoredSlots(write[m]) /\ StoredSlots(Tail(write[m])) \subseteq StoredSlots(write[m])
    BY <1>2, TailStores
  <1> HIDE DEF w
  <1>5. w.slot \in Slots /\ v \in Targets
    <2>1. w.slot \in Slots /\ w.from \in Slots \cup {NoSlot} /\ w.value \in Targets
      BY <1>3 DEF Stores
    <2> QED
      BY <1>2, <2>1
  <1> HIDE DEF v
  <1>6. StoredSlots(write[m]) \cap unlogged = {}
    <2>1. Elements(<<>>) = {}
      <3>1. DOMAIN <<>> = {}
        BY SMT
      <3> QED
        BY <3>1 DEF Elements
    <2> QED
      BY <1>1, <1>2, <2>1 DEF LogInv, Logging
  <1>7. mem' \in [Slots -> Targets] /\ \A s \in unlogged : mem'[s] = before[s]
    <2>1. mem' \in [Slots -> Targets]
      BY <1>1, <1>2, <1>5
    <2>2. ASSUME NEW s \in unlogged PROVE mem'[s] = before[s]
      <3>1. s # w.slot /\ s \in Slots /\ mem[s] = before[s]
        BY <1>4, <1>6 DEF LogInv, LogTypes
      <3> QED
        BY <1>1, <1>2, <3>1
    <2> QED
      BY <2>1, <2>2
  <1>8. /\ step'[m] = (IF Len(write[m]) = 1 THEN "idle" ELSE "store") /\ write'[m] = Tail(write[m])
        /\ \A n \in Mutators \ {m} : step'[n] = step[n] /\ write'[n] = write[n]
    BY <1>1, <1>2
  <1>9. write' \in [Mutators -> Seq(Stores)] /\ step' \in [Mutators -> Busy \cup {"idle", "store"}]
    BY <1>1, <1>2, <1>3
  <1>10. LogTypes'
    <2>1. \A n \in Mutators : /\ step'[n] \in Busy => todo'[n] # <<>> /\ write'[n] # <<>>
                              /\ step'[n] = "store" => todo'[n] = <<>> /\ write'[n] # <<>>
      <3>1. ASSUME NEW n \in Mutators, n # m
            PROVE  /\ step'[n] \in Busy => todo'[n] # <<>> /\ write'[n] # <<>>
                   /\ step'[n] = "store" => todo'[n] = <<>> /\ write'[n] # <<>>
        BY <1>1, <1>8, <3>1 DEF LogInv, LogTypes
      <3>2. "idle" \notin Busy /\ "store" \notin Busy
        BY DEF Busy
      <3>3. step'[m] \notin Busy /\ (step'[m] = "store" => todo'[m] = <<>> /\ write'[m] # <<>>)
        BY <1>1, <1>2, <1>3, <1>8, <3>2
      <3> QED
        BY <3>1, <3>3
    <2> QED
      BY <1>1, <1>7, <1>9, <2>1 DEF LogInv, LogTypes
  <1>11. step'[m] \in {"idle", "store"}
    BY <1>8
  <1>12. Logging(m)' /\ ~InsideLock(m)'
    BY <1>1, <1>4, <1>6, <1>8, <1>11 DEF Logging, InsideLock
  <1> QED
    BY <1>1, <1>7, <1>8, <1>10, <1>11, <1>12, ControlStep

-----------------------------------------------------------------------------
(***************************************************************************)
(* Epochs begin with nothing logged.                                       *)
(***************************************************************************)
\* Empty buffers hold nothing.
LEMMA EmptyBuffers ==
    ASSUME NEW T, NEW x
    PROVE  /\ [m \in Mutators |-> <<>>] \in Buffers(T)
           /\ Cardinality(Buffered([m \in Mutators |-> <<>>], x)) = 0
  <1>1. <<>> \in Seq(T) /\ Len(<<>>) < BUFFER_SIZE /\ DOMAIN <<>> = {}
    BY LoggingAssumption, SMT
  <1>2. PICK B : B = [m \in Mutators |-> <<>>]
    OBVIOUS
  <1>3. B \in [Mutators -> Seq(T)] /\ \A m \in Mutators : B[m] = <<>>
    BY <1>1, <1>2
  <1>4. B \in Buffers(T)
    BY <1>1, <1>3 DEF Buffers
  <1>5. Buffered(B, x) = {}
    <2>1. \A p \in Mutators \X (1 .. BUFFER_SIZE) : p[1] \in Mutators
      BY SMT
    <2> QED
      BY <1>1, <1>3, <2>1 DEF Buffered
  <1> QED
    BY <1>2, <1>4, <1>5, FS_EmptySet

\* With nothing buffered or flushed, and every slot unlogged, the counts agree.
LEMMA NothingCounted ==
    ASSUME incs = [m \in Mutators |-> <<>>], decs = [m \in Mutators |-> <<>>], packets = NoPackets,
           unlogged = Slots
    PROVE  /\ Counts /\ incs \in Buffers(Slots) /\ decs \in Buffers(Referents)
           /\ packets \in [incs : [Slots -> Nat], decs : [Referents -> Nat]]
  <1>1. incs \in Buffers(Slots) /\ decs \in Buffers(Referents)
    BY EmptyBuffers
  <1>2. \A x : Cardinality(Buffered(incs, x)) = 0 /\ Cardinality(Buffered(decs, x)) = 0
    BY EmptyBuffers
  <1>3. 0 \in Nat /\ 0 + 0 = 0
    BY SMT
  <1>4. packets.incs = [s \in Slots |-> 0] /\ packets.decs = [r \in Referents |-> 0]
    BY DEF NoPackets
  <1>5. packets \in [incs : [Slots -> Nat], decs : [Referents -> Nat]]
    BY <1>3 DEF NoPackets
  <1>6. \A s \in Slots : Enqueued(s) = 0
    BY <1>2, <1>3, <1>4 DEF Enqueued
  <1>7. \A r \in Referents : Overwritten(r) = 0
    BY <1>2, <1>3, <1>4 DEF Overwritten
  <1>8. Logged = {} /\ \A r : LoggedWith(r) = {}
    BY DEF Logged, LoggedWith
  <1>9. Counts
    BY <1>6, <1>7, <1>8, FS_EmptySet DEF Counts
  <1> QED
    BY <1>1, <1>5, <1>9

\* The start.
LEMMA LogInit == ASSUME LoggingInit PROVE LogInv
  <1>1. /\ Counts /\ incs \in Buffers(Slots) /\ decs \in Buffers(Referents)
        /\ packets \in [incs : [Slots -> Nat], decs : [Referents -> Nat]]
    BY NothingCounted DEF LoggingInit
  <1>2. (CHOOSE r \in Referents : TRUE) \in Referents
    BY LoggingAssumption
  <1>3. mem \in [Slots -> Targets] /\ before = mem
    BY <1>2 DEF LoggingInit, Targets
  <1>4. \A m \in Mutators : step[m] = "idle" /\ "idle" \notin Busy
    BY DEF LoggingInit, Busy
  <1>5. /\ step \in [Mutators -> Busy \cup {"idle", "store"}]
        /\ todo \in [Mutators -> Seq(Slots)] /\ write \in [Mutators -> Seq(Stores)]
        /\ loaded \in [Mutators -> Targets] /\ unlogByte \in [Mutators -> SUBSET Slots]
    <2>1. <<>> \in Seq(Slots) /\ <<>> \in Seq(Stores)
      BY SMT
    <2> QED
      BY <2>1 DEF LoggingInit, Targets
  <1>6. LogTypes
    BY <1>1, <1>3, <1>4, <1>5 DEF LogTypes, LoggingInit
  <1>7. \A m \in Mutators : ~InsideLock(m) /\ Logging(m)
    BY <1>4 DEF InsideLock, Logging
  <1> QED
    BY <1>1, <1>3, <1>6, <1>7 DEF LogInv, Locks

\* A pause: what is enqueued is what was logged, so every slot is unlogged again.
LEMMA PauseStep == ASSUME LogInv, Pause PROVE LogInv'
  <1>1. /\ \A m \in Mutators : step[m] = "idle"
        /\ unlogged' = unlogged \cup {s \in Slots : Enqueued(s) > 0}
        /\ incs' = [m \in Mutators |-> <<>>] /\ decs' = [m \in Mutators |-> <<>>]
        /\ packets' = NoPackets /\ before' = mem
        /\ UNCHANGED <<granule, mem, locked, step, todo, write, loaded, unlogByte>>
    BY DEF Pause
  <1>2. \A s \in Slots : s \in unlogged \/ Enqueued(s) > 0
    <2>1. Pending = {}
      BY <1>1 DEF Pending
    <2>2. ASSUME NEW s \in Slots \ unlogged PROVE Enqueued(s) > 0
      <3>1. Enqueued(s) = 1
        BY <2>1 DEF LogInv, Counts, Logged
      <3> QED
        BY <3>1, SMT
    <2> QED
      BY <2>2
  <1>3. unlogged' = Slots
    BY <1>1, <1>2 DEF LogInv, LogTypes
  <1>4. /\ Counts' /\ incs' \in Buffers(Slots) /\ decs' \in Buffers(Referents)
        /\ packets' \in [incs : [Slots -> Nat], decs : [Referents -> Nat]]
    <2>1. incs' \in Buffers(Slots) /\ decs' \in Buffers(Referents)
      BY <1>1, EmptyBuffers
    <2>2. \A x : Cardinality(Buffered(incs', x)) = 0 /\ Cardinality(Buffered(decs', x)) = 0
      BY <1>1, EmptyBuffers
    <2>3. 0 \in Nat /\ 0 + 0 = 0
      BY SMT
    <2>4. packets'.incs = [s \in Slots |-> 0] /\ packets'.decs = [r \in Referents |-> 0]
      BY <1>1 DEF NoPackets
    <2>5. packets' \in [incs : [Slots -> Nat], decs : [Referents -> Nat]]
      BY <1>1, <2>3 DEF NoPackets
    <2>6. \A s \in Slots : Enqueued(s)' = 0
      BY <2>2, <2>3, <2>4 DEF Enqueued
    <2>7. \A r \in Referents : Overwritten(r)' = 0
      BY <2>2, <2>3, <2>4 DEF Overwritten
    <2>8. Logged' = {} /\ \A r : LoggedWith(r)' = {}
      BY <1>3 DEF Logged, LoggedWith
    <2>9. Counts'
      BY <2>6, <2>7, <2>8, FS_EmptySet DEF Counts
    <2> QED
      BY <2>1, <2>5, <2>9
  <1>5. LogTypes'
    BY <1>1, <1>3, <1>4 DEF LogInv, LogTypes
  <1>6. \A m \in Mutators : ~InsideLock(m)' /\ Logging(m)'
    BY <1>1 DEF InsideLock, Logging
  <1> QED
    BY <1>1, <1>4, <1>5, <1>6 DEF LogInv, Locks

-----------------------------------------------------------------------------
(***************************************************************************)
(* The theorem.                                                            *)
(***************************************************************************)
\* Every step of the barrier, and every pause, keeps the invariant.
LEMMA LogStep == ASSUME LogInv, [LoggingNext]_loggingVars PROVE LogInv'
  <1>1. CASE UNCHANGED loggingVars
    <2>1. /\ LogTypes' /\ Locks'
      BY <1>1 DEF LogInv, LogTypes, Locks, InsideLock, LockBit, loggingVars
    <2>2. Logged' = Logged
      BY <1>1 DEF Logged, Pending, loggingVars
    <2>3. Counts'
      BY <1>1, <2>2, CountsKept DEF loggingVars
    <2>4. \A m \in Mutators : Logging(m)'
      BY <1>1 DEF LogInv, Logging, StoresPlainly, UnlogByteOf, loggingVars
    <2>5. \A s \in unlogged' : mem'[s] = before'[s]
      BY <1>1 DEF LogInv, loggingVars
    <2> QED
      BY <2>1, <2>3, <2>4, <2>5 DEF LogInv
  <1>2. CASE Pause
    BY <1>2, PauseStep
  <1>3. ASSUME NEW m \in Mutators,
               \/ object_reference_write(m) \/ memory_region_copy(m)
               \/ object_probable_write(m) \/ BarrierStep(m)
        PROVE  LogInv'
    <2>1. CASE object_reference_write(m) \/ memory_region_copy(m) \/ object_probable_write(m)
      BY <2>1, ReferenceWriteStep, RegionCopyStep, ProbableWriteStep
    <2>2. CASE BarrierStep(m)
      BY <2>2, BailoutIfLoggedStep, AttemptToLockStep, BailoutUnderLockStep, LoadOldTargetStep,
         LogSlotStep, UnlockAndEnqueueStep, StoreStep DEF BarrierStep
    <2> QED
      BY <1>3, <2>1, <2>2
  <1> QED
    BY <1>1, <1>2, <1>3 DEF LoggingNext

\* The invariant says what the pause relies on.
LEMMA LogInvExact == ASSUME LogInv PROVE LogIsExact
  <1>1. LoggedUnderLock
    BY DEF LogInv, LoggedUnderLock, Locks, Logging
  <1>2. ASSUME \A m \in Mutators : step[m] = "idle", NEW s \in Slots
        PROVE  Enqueued(s) =< 1 /\ (mem[s] # before[s] => Enqueued(s) = 1)
    <2>1. Pending = {}
      BY <1>2 DEF Pending
    <2>2. Enqueued(s) = IF s \in Logged THEN 1 ELSE 0
      BY DEF LogInv, Counts
    <2>3. mem[s] # before[s] => s \in Logged
      BY <2>1 DEF LogInv, Logged
    <2>4. Enqueued(s) =< 1
      BY <2>2, SMT
    <2> QED
      BY <2>2, <2>3, <2>4
  <1>3. ASSUME NEW r \in Referents
        PROVE  Overwritten(r) = Cardinality({s \in Slots : Enqueued(s) = 1 /\ before[s] = r})
    <2>1. \A s \in Slots : Enqueued(s) = 1 <=> s \in Logged
      <3>1. \A s \in Slots : Enqueued(s) = IF s \in Logged THEN 1 ELSE 0
        BY DEF LogInv, Counts
      <3> QED
        BY <3>1, SMT
    <2>2. LoggedWith(r) = {s \in Slots : Enqueued(s) = 1 /\ before[s] = r}
      BY <2>1 DEF LoggedWith, Logged
    <2> QED
      BY <2>2 DEF LogInv, Counts
  <1> QED
    BY <1>1, <1>2, <1>3 DEF LogIsExact

\* At every safepoint the increment buffers hold each slot that was written in
\* the epoch exactly once, whichever mutators raced on it, and the decrement
\* buffers hold, with multiplicity, the objects these slots held when the epoch
\* began, for any number of mutators and slots and every lock granule
\* (attempt_to_lock_slot_bailout_if_logged, log_and_unlock_slot, slow).
THEOREM LogIsExactThm == LoggingSpec => []LogIsExact
  <1>1. LoggingInit => LogInv
    BY LogInit
  <1>2. LogInv /\ [LoggingNext]_loggingVars => LogInv'
    BY LogStep
  <1>3. LogInv => LogIsExact
    BY LogInvExact
  <1> QED
    BY <1>1, <1>2, <1>3, PTL DEF LoggingSpec
=============================================================================

-------------------------- MODULE LXRRefCountProofs --------------------------
(***************************************************************************)
(* Deferred reference counting with trial deletion is exact and safe, for   *)
(* any heap, any number of roots and workers, and any limits of the counts: *)
(* release, the decrements and the cycle collector keep the invariant, and  *)
(* the theorems follow from it.                                             *)
(***************************************************************************)
EXTENDS LXRRefCountIncProofs

\* A leaf is a first-order argument for Zenon unless it cites SMT.
USE ZenonT(60)

\* release: the swept nursery had no counts, and every root was incremented.
LEMMA ReleaseStep ==
  ASSUME LXRInvariant, release
  PROVE  LXRInvariant'
<1>1. /\ phase = "incs" /\ phase' = "decs" /\ incs = {} /\ young' = {}
      /\ prevRoots' = currRoots /\ currRoots' = prevRoots
      /\ rc' = rc /\ strong' = strong /\ incs' = incs /\ unlogged' = unlogged
      /\ roots' = roots /\ fields' = fields /\ ops' = ops /\ decs' = decs
      /\ cands' = cands /\ buffer' = buffer /\ pushing' = pushing /\ lost' = lost
      /\ pauses' = pauses /\ colour' = colour /\ cursor' = cursor /\ stk' = stk /\ blk' = blk
  BY DEF release, ccVars
<1>2. \A x \in Objects : (Counted(x) <=> rc[x] > 0) /\ (Tracked(x) <=> rc[x] > 0) /\ x \in Black
  BY <1>1, CalmColours DEF LXRInvariant, Collector
<1>3. /\ ColourInv' /\ SearchInv'
      /\ \A x \in Objects : (Counted(x)' <=> rc[x] > 0) /\ (Tracked(x)' <=> rc[x] > 0) /\ x \in Black'
  BY <1>1, CalmKeeps DEF Collector
<1>4. TypeOK'
  BY <1>1 DEF LXRInvariant, TypeOK
<1>5. PhasesInv'
  BY <1>1 DEF LXRInvariant, PhasesInv, Collector
<1>6. PushInv'
  <2>1. cands = <<>> /\ buffer = <<>> /\ \A w \in Workers : pushing[w] = NoPush
    BY <1>1 DEF LXRInvariant, PhasesInv
  <2>2. NoPush.len = 0 /\ 0 <= Len(<<>>) /\ Len(<<>>) <= Len(<<>>)
    BY SMTT(30) DEF NoPush
  <2> QED
    BY <1>1, <2>1, <2>2 DEF PushInv
<1>7. LogInv'
  <2>1. \A s \in Slots : Tracked(s[1])' => s \in unlogged'
    BY <1>1, <1>2, <1>3, Pairs DEF LXRInvariant, LogInv
  <2> QED
    BY <1>1, <2>1 DEF LogInv
<1>8. CountsAreExact'
  <2>1. ASSUME NEW x \in Objects PROVE Holding(x)' = Holding(x)
    <3>1. \A s \in Slots : (Counted(s[1])' <=> Counted(s[1])) /\ (Pending(s[1], s[2])' <=> Pending(s[1], s[2]))
      BY <1>1, <1>2, <1>3, Pairs DEF Pending
    <3> QED
      BY <1>1, <3>1 DEF Holding
  <2>2. \A x \in Objects : decs'[x] + currRoots'[x] + prevRoots'[x] = decs[x] + currRoots[x] + prevRoots[x]
    <3> TAKE x \in Objects
    <3>1. decs[x] \in Nat /\ currRoots[x] \in Nat /\ prevRoots[x] \in Nat
      BY HeldHasCount DEF LXRInvariant
    <3>2. decs[x] + prevRoots[x] + currRoots[x] = decs[x] + currRoots[x] + prevRoots[x]
      BY <3>1, SMTT(30)
    <3> QED
      BY <1>1, <3>2
  <2> QED
    BY <1>1, <1>4, <2>1, <2>2, SameHolding DEF LXRInvariant
<1>9. RootInv'
  <2>1. \A r \in RootSlots : roots[r] # Null => currRoots[roots[r]] > 0
    BY <1>1 DEF LXRInvariant, RootInv
  <2> QED
    BY <1>1, <2>1 DEF RootInv
<1>10. StrongInv'
  <2>1. ~lost => \A x \in Objects : (rc[x] > 0) <=> (strong[x] > 0)
    BY <1>1, <1>2 DEF LXRInvariant, StrongInv
  <2>2. ~(0 > 0)
    BY SMTT(30)
  <2> QED
    BY <1>1, <1>3, <2>1, <2>2 DEF StrongInv, Black
<1> QED
  BY <1>3, <1>4, <1>5, <1>6, <1>7, <1>8, <1>9, <1>10 DEF LXRInvariant

\* While decrements are processed, nothing is queued for an increment: what a
\* count counts is the slots of the objects with a count.  Roots, logs and
\* colours stay as they are.
LEMMA DecsKeeps ==
  ASSUME LXRInvariant, phase = "decs", phase' = phase,
         UNCHANGED <<heapVars, incs, currRoots, prevRoots, ccVars>>,
         \A x \in Objects : rc'[x] > 0 => rc[x] > 0
  PROVE  /\ PhasesInv' /\ LogInv' /\ RootInv' /\ ColourInv' /\ SearchInv'
         /\ \A x \in Objects : /\ Counted(x)' <=> rc'[x] > 0
                               /\ Counted(x) <=> rc[x] > 0
                               /\ x \in Black /\ x \in Black'
         /\ \A x \in Objects :
              /\ Holding(x) = {s \in Slots : rc[s[1]] > 0 /\ fields[s[1]][s[2]] = x}
              /\ Holding(x)' = {s \in Slots : rc'[s[1]] > 0 /\ fields[s[1]][s[2]] = x}
<1>1. /\ roots' = roots /\ fields' = fields /\ young' = young /\ unlogged' = unlogged
      /\ incs' = incs /\ currRoots' = currRoots /\ prevRoots' = prevRoots
      /\ colour' = colour /\ cursor' = cursor /\ stk' = stk /\ blk' = blk
  BY DEF heapVars, ccVars
<1>2. incs = {} /\ young = {}
  BY DEF LXRInvariant, PhasesInv
<1>3. \A x \in Objects : (Counted(x) <=> rc[x] > 0) /\ (Tracked(x) <=> rc[x] > 0) /\ x \in Black
  BY <1>1, CalmColours DEF LXRInvariant, Collector
<1>4. /\ ColourInv' /\ SearchInv'
      /\ \A x \in Objects : (Counted(x)' <=> rc'[x] > 0) /\ (Tracked(x)' <=> rc'[x] > 0) /\ x \in Black'
  BY <1>1, CalmKeeps DEF Collector
<1>5. PhasesInv'
  BY <1>1, <1>2 DEF LXRInvariant, PhasesInv, Collector
<1>6. LogInv'
  <2>1. \A s \in Slots : Tracked(s[1])' => s \in unlogged'
    BY <1>1, <1>2, <1>3, <1>4, Pairs DEF LXRInvariant, LogInv
  <2> QED
    BY <1>1, <1>2, <2>1 DEF LogInv
<1>7. RootInv'
  BY <1>1 DEF LXRInvariant, RootInv
<1>8. \A x \in Objects :
         /\ Holding(x) = {s \in Slots : rc[s[1]] > 0 /\ fields[s[1]][s[2]] = x}
         /\ Holding(x)' = {s \in Slots : rc'[s[1]] > 0 /\ fields[s[1]][s[2]] = x}
  <2> TAKE x \in Objects
  <2>1. \A s \in Slots : /\ ~Pending(s[1], s[2]) /\ ~Pending(s[1], s[2])'
                         /\ Counted(s[1]) <=> rc[s[1]] > 0
                         /\ Counted(s[1])' <=> rc'[s[1]] > 0
    BY <1>1, <1>2, <1>3, <1>4, Pairs DEF Pending
  <2> QED
    BY <1>1, <2>1 DEF Holding
<1> QED
  BY <1>3, <1>4, <1>5, <1>6, <1>7, <1>8

\* A decrement only ever finds its object counted: one that is skipped finds it
\* stuck.
LEMMA StuckDecStep ==
  ASSUME LXRInvariant, NEW w \in Workers, NEW o \in Objects, process_decs(w, o),
         is_dead_or_stuck(o)
  PROVE  LXRInvariant'
<1>1. /\ phase = "decs" /\ phase' = phase /\ decs[o] > 0
      /\ UNCHANGED <<heapVars, incs, currRoots, prevRoots, ccVars>>
      /\ rc' = rc /\ strong' = strong /\ pushing' = pushing
      /\ cands' = cands /\ buffer' = buffer /\ lost' = lost /\ pauses' = pauses
      /\ decs' = [decs EXCEPT ![o] = @ - 1]
  BY DEF process_decs
<1>2. /\ PhasesInv' /\ LogInv' /\ RootInv' /\ ColourInv' /\ SearchInv'
      /\ \A x \in Objects : (Counted(x)' <=> rc'[x] > 0) /\ (Counted(x) <=> rc[x] > 0)
                            /\ x \in Black /\ x \in Black'
      /\ \A x \in Objects :
           /\ Holding(x) = {s \in Slots : rc[s[1]] > 0 /\ fields[s[1]][s[2]] = x}
           /\ Holding(x)' = {s \in Slots : rc'[s[1]] > 0 /\ fields[s[1]][s[2]] = x}
  BY <1>1, DecsKeeps
<1>3. TypeOK /\ rc[o] = MAX_REF_COUNT
  <2>1. TypeOK /\ (rc[o] = 0 => decs[o] = 0)
    BY HeldHasCount DEF LXRInvariant
  <2>2. ~(0 > 0)
    BY SMTT(30)
  <2> QED
    BY <1>1, <2>1, <2>2 DEF is_dead_or_stuck
<1>4. /\ roots' = roots /\ fields' = fields /\ young' = young /\ unlogged' = unlogged /\ ops' = ops
      /\ incs' = incs /\ currRoots' = currRoots /\ prevRoots' = prevRoots
      /\ colour' = colour /\ cursor' = cursor /\ stk' = stk /\ blk' = blk
  BY <1>1 DEF heapVars, ccVars
<1>5. TypeOK'
  <2>1. decs \in [Objects -> Nat] /\ decs[o] \in Nat
    BY <1>3 DEF TypeOK
  <2>2. decs[o] - 1 \in Nat
    BY <1>1, <2>1, SMTT(30)
  <2>3. decs' \in [Objects -> Nat]
    BY <1>1, <2>1, <2>2
  <2> QED
    BY <1>1, <1>3, <1>4, <2>3 DEF TypeOK
<1>6. PushInv'
  BY <1>1 DEF LXRInvariant, PushInv
<1>7. CountsAreExact'
  <2>1. ASSUME NEW x \in Objects, rc'[x] # MAX_REF_COUNT
        PROVE  rc'[x] = Cardinality(Holding(x)') + decs'[x] + currRoots'[x] + prevRoots'[x]
    <3>1. Holding(x)' = Holding(x)
      BY <1>1, <1>2
    <3>2. x # o /\ Exact(x)
      BY <1>1, <1>3, <2>1, HeldHasCount DEF LXRInvariant
    <3>3. decs'[x] = decs[x]
      BY <1>1, <1>3, <3>2 DEF TypeOK
    <3> QED
      BY <1>1, <1>4, <3>1, <3>2, <3>3 DEF Exact
  <2> QED
    BY <2>1, ExactNext
<1>8. StrongInv'
  <2>1. ~lost => /\ \A x \in Objects : strong[x] > 0 => rc[x] > 0
                 /\ \A x \in Objects : rc[x] > 0 /\ strong[x] = 0 =>
                       x \in Range(cands) \/ \E v \in Workers : pushing[v].obj = x
    BY <1>1, <1>2 DEF LXRInvariant, StrongInv
  <2> QED
    BY <1>1, <1>2, <2>1 DEF StrongInv, Black
<1> QED
  BY <1>2, <1>5, <1>6, <1>7, <1>8 DEF LXRInvariant

\* The last decrement of o: its slots stop counting, and its targets that are
\* counted and not stuck wait for a decrement each.
LEMMA LastDecStep ==
  ASSUME LXRInvariant, NEW w \in Workers, NEW o \in Objects, process_decs(w, o),
         rc[o] = 1, ~is_dead_or_stuck(o)
  PROVE  LXRInvariant'
<1> DEFINE owed(x) == IF is_dead_or_stuck(x) THEN 0 ELSE EdgesTo(o, x)
           pending == [decs EXCEPT ![o] = @ - 1]
<1>1. /\ phase = "decs" /\ phase' = phase /\ decs[o] > 0
      /\ UNCHANGED <<heapVars, incs, currRoots, prevRoots, ccVars>>
      /\ pushing' = pushing /\ cands' = cands /\ buffer' = buffer /\ lost' = lost /\ pauses' = pauses
      /\ rc' = [rc EXCEPT ![o] = 0] /\ strong' = [strong EXCEPT ![o] = 0]
      /\ decs' = [x \in Objects |-> pending[x] + owed(x)]
  <2>1. ~(1 > 1)
    BY SMTT(30)
  <2> QED
    BY <2>1 DEF process_decs, process_dead_object
<1>2. TypeOK /\ \A x \in Objects : rc[x] \in 0..MAX_REF_COUNT /\ decs[x] \in Nat
  BY DEF LXRInvariant, TypeOK
<1>3. /\ \A x \in Objects : rc'[x] = IF x = o THEN 0 ELSE rc[x]
      /\ \A x \in Objects : strong'[x] = IF x = o THEN 0 ELSE strong[x]
      /\ \A x \in Objects : pending[x] = IF x = o THEN decs[x] - 1 ELSE decs[x]
  <2>1. /\ rc \in [Objects -> 0..MAX_REF_COUNT] /\ strong \in [Objects -> 0..MAX_STRONG_REF_COUNT]
        /\ decs \in [Objects -> Nat]
    BY <1>2 DEF TypeOK
  <2> QED
    BY <1>1, <2>1
<1> HIDE DEF pending
<1>4. ~(0 > 0) /\ 1 > 0 /\ 0 \in Nat
  BY SMTT(30)
<1>5. \A x \in Objects : rc'[x] > 0 => rc[x] > 0
  BY <1>3, <1>4
<1>6. /\ PhasesInv' /\ LogInv' /\ RootInv' /\ ColourInv' /\ SearchInv'
      /\ \A x \in Objects : (Counted(x)' <=> rc'[x] > 0) /\ (Counted(x) <=> rc[x] > 0)
                            /\ x \in Black /\ x \in Black'
      /\ \A x \in Objects :
           /\ Holding(x) = {s \in Slots : rc[s[1]] > 0 /\ fields[s[1]][s[2]] = x}
           /\ Holding(x)' = {s \in Slots : rc'[s[1]] > 0 /\ fields[s[1]][s[2]] = x}
  BY <1>1, <1>5, DecsKeeps
<1>7. /\ roots' = roots /\ fields' = fields /\ young' = young /\ unlogged' = unlogged /\ ops' = ops
      /\ incs' = incs /\ currRoots' = currRoots /\ prevRoots' = prevRoots
      /\ colour' = colour /\ cursor' = cursor /\ stk' = stk /\ blk' = blk
  BY <1>1 DEF heapVars, ccVars
<1>8. \A x \in Objects : EdgesTo(o, x) \in Nat /\ owed(x) \in Nat /\ pending[x] \in Nat
                         /\ decs'[x] = pending[x] + owed(x)
  <2> TAKE x \in Objects
  <2>1. EdgesTo(o, x) \in Nat /\ owed(x) \in Nat
    BY <1>4, CountEdges
  <2>2. pending[x] \in Nat
    BY <1>1, <1>2, <1>3, SMTT(30)
  <2> QED
    BY <1>1, <2>1, <2>2
<1> HIDE DEF owed
<1>9. TypeOK'
  <2>1. decs' \in [Objects -> Nat]
    <3>1. \A x \in Objects : pending[x] + owed(x) \in Nat
      <4> TAKE x \in Objects
      <4>1. pending[x] \in Nat /\ owed(x) \in Nat
        BY <1>8
      <4> QED
        BY <4>1, SMTT(30)
    <3> QED
      BY <1>1, <3>1
  <2>2. rc' \in [Objects -> 0..MAX_REF_COUNT] /\ strong' \in [Objects -> 0..MAX_STRONG_REF_COUNT]
    <3>1. 0 \in 0..MAX_REF_COUNT /\ 0 \in 0..MAX_STRONG_REF_COUNT
      BY CountAssumption, SMTT(30)
    <3>2. /\ rc \in [Objects -> 0..MAX_REF_COUNT] /\ strong \in [Objects -> 0..MAX_STRONG_REF_COUNT]
      BY <1>2 DEF TypeOK
    <3> QED
      BY <1>1, <3>1, <3>2
  <2> QED
    BY <1>1, <1>2, <1>7, <2>1, <2>2 DEF TypeOK
<1>10. PushInv'
  BY <1>1 DEF LXRInvariant, PushInv
<1>11. CountsAreExact'
  <2>1. ASSUME NEW x \in Objects, rc'[x] # MAX_REF_COUNT
        PROVE  rc'[x] = Cardinality(Holding(x)') + decs'[x] + currRoots'[x] + prevRoots'[x]
    <3> DEFINE A == Holding(x)'
               B == Holding(x)
    <3>1. B = A \cup SlotsOf(o, x) /\ A \cap SlotsOf(o, x) = {} /\ A \in SUBSET Slots
      <4>1. \A s \in Slots : s[1] \in Objects
        BY Pairs
      <4>2. /\ B = {s \in Slots : rc[s[1]] > 0 /\ fields[s[1]][s[2]] = x}
            /\ A = {s \in Slots : rc'[s[1]] > 0 /\ fields[s[1]][s[2]] = x}
        BY <1>6
      <4> HIDE DEF A, B
      <4>3. \A s \in Slots : (rc[s[1]] > 0) <=> (rc'[s[1]] > 0 \/ s[1] = o)
        BY <1>3, <1>4, <4>1
      <4>4. \A s \in Slots : s[1] = o => ~(rc'[s[1]] > 0)
        BY <1>3, <1>4, <4>1
      <4> QED
        BY <4>2, <4>3, <4>4 DEF SlotsOf
    <3>2. Cardinality(B) = Cardinality(A) + EdgesTo(o, x)
      <4> HIDE DEF A, B
      <4> QED
        BY <3>1, GainSlots
    <3>3. /\ Cardinality(B) \in Nat /\ rc[x] \in Nat /\ decs[x] \in Nat
          /\ currRoots[x] \in Nat /\ prevRoots[x] \in Nat
          /\ rc[x] # MAX_REF_COUNT => rc[x] = Cardinality(B) + decs[x] + currRoots[x] + prevRoots[x]
      BY HeldHasCount DEF LXRInvariant, Exact
    <3>4. Cardinality(A) \in Nat /\ EdgesTo(o, x) \in Nat
      BY <1>8, <3>1, CountSlots
    <3>5. owed(x) = IF rc[x] \in {0, MAX_REF_COUNT} THEN 0 ELSE EdgesTo(o, x)
      BY DEF owed, is_dead_or_stuck
    <3>6. rc[o] # MAX_REF_COUNT
      BY DEF is_dead_or_stuck
    <3> DEFINE a == Cardinality(A)
               b == Cardinality(B)
               e == EdgesTo(o, x)
    <3> HIDE DEF a, b, e
    <3>7. a \in Nat /\ b \in Nat /\ e \in Nat /\ b = a + e
          /\ (rc[x] # MAX_REF_COUNT => rc[x] = b + decs[x] + currRoots[x] + prevRoots[x])
          /\ owed(x) = IF rc[x] \in {0, MAX_REF_COUNT} THEN 0 ELSE e
      BY <3>2, <3>3, <3>4, <3>5 DEF a, b, e
    <3>8. CASE x = o
      <4>1. rc'[x] = 0 /\ decs'[x] = decs[x] - 1 + owed(x) /\ rc[x] = 1
        BY <1>3, <1>8, <3>8
      <4>2. rc'[x] = a + decs'[x] + currRoots[x] + prevRoots[x]
        BY <1>1, <3>3, <3>6, <3>7, <3>8, <4>1, SMTT(30)
      <4> QED
        BY <1>7, <4>2 DEF a
    <3>9. CASE x # o
      <4>1. rc'[x] = rc[x] /\ decs'[x] = decs[x] + owed(x)
        BY <1>3, <1>8, <3>9
      <4>2. rc'[x] = a + decs'[x] + currRoots[x] + prevRoots[x]
        BY <2>1, <3>3, <3>7, <4>1, SMTT(30)
      <4> QED
        BY <1>7, <4>2 DEF a
    <3> QED
      BY <3>8, <3>9
  <2> QED
    BY <2>1, ExactNext
<1>12. StrongInv'
  <2>1. ~lost => /\ \A x \in Objects : strong[x] > 0 => rc[x] > 0
                 /\ \A x \in Objects : rc[x] > 0 /\ strong[x] = 0 =>
                       x \in Range(cands) \/ \E v \in Workers : pushing[v].obj = x
    BY <1>1, <1>6 DEF LXRInvariant, StrongInv
  <2>2. ~lost => /\ \A x \in Objects : strong'[x] > 0 => rc'[x] > 0
                 /\ \A x \in Objects : rc'[x] > 0 /\ strong'[x] = 0 =>
                       x \in Range(cands) \/ \E v \in Workers : pushing[v].obj = x
    BY <1>3, <1>4, <2>1
  <2> QED
    BY <1>1, <1>6, <2>2 DEF StrongInv, Black
<1> QED
  BY <1>6, <1>9, <1>10, <1>11, <1>12 DEF LXRInvariant

\* A decrement that leaves o counted; when it takes the last strong count, o is
\* being pushed onto the candidates.
LEMMA DecStep ==
  ASSUME LXRInvariant, NEW w \in Workers, NEW o \in Objects, process_decs(w, o),
         rc[o] > 1, ~is_dead_or_stuck(o)
  PROVE  LXRInvariant'
<1>1. /\ phase = "decs" /\ phase' = phase /\ decs[o] > 0 /\ pushing[w] = NoPush
      /\ UNCHANGED <<heapVars, incs, currRoots, prevRoots, ccVars>>
      /\ cands' = cands /\ buffer' = buffer /\ lost' = lost /\ pauses' = pauses
      /\ rc' = [rc EXCEPT ![o] = @ - 1] /\ strong' = [strong EXCEPT ![o] = strong_rc_dec(@)]
      /\ decs' = [decs EXCEPT ![o] = @ - 1]
      /\ pushing' = IF strong[o] = 1
                    THEN [pushing EXCEPT ![w] = [obj |-> o, len |-> Len(cands)]] ELSE pushing
  <2>1. ~(1 > 1)
    BY SMTT(30)
  <2> QED
    BY <2>1 DEF process_decs, BeginPush
<1>2. /\ TypeOK /\ rc \in [Objects -> 0..MAX_REF_COUNT]
      /\ strong \in [Objects -> 0..MAX_STRONG_REF_COUNT] /\ decs \in [Objects -> Nat]
      /\ pushing \in [Workers -> [obj : Objects \cup {Null}, len : Nat]]
      /\ cands \in Seq(Objects)
  BY DEF LXRInvariant, TypeOK
<1>3. /\ \A x \in Objects : rc'[x] = IF x = o THEN rc[x] - 1 ELSE rc[x]
      /\ \A x \in Objects : strong'[x] = IF x = o THEN strong_rc_dec(strong[x]) ELSE strong[x]
      /\ \A x \in Objects : decs'[x] = IF x = o THEN decs[x] - 1 ELSE decs[x]
  BY <1>1, <1>2
<1>4. /\ rc[o] - 1 \in 0..MAX_REF_COUNT /\ rc[o] - 1 > 0 /\ rc[o] > 0
      /\ decs[o] - 1 \in Nat /\ rc[o] # MAX_REF_COUNT
  <2>1. rc[o] \in 0..MAX_REF_COUNT /\ decs[o] \in Nat /\ rc[o] # MAX_REF_COUNT
    BY <1>2 DEF is_dead_or_stuck
  <2> QED
    BY <1>1, <2>1, CountAssumption, SMTT(30)
<1>5. \A x \in Objects : rc'[x] > 0 <=> rc[x] > 0
  BY <1>3, <1>4
<1>6. /\ PhasesInv' /\ LogInv' /\ RootInv' /\ ColourInv' /\ SearchInv'
      /\ \A x \in Objects : (Counted(x)' <=> rc'[x] > 0) /\ (Counted(x) <=> rc[x] > 0)
                            /\ x \in Black /\ x \in Black'
      /\ \A x \in Objects :
           /\ Holding(x) = {s \in Slots : rc[s[1]] > 0 /\ fields[s[1]][s[2]] = x}
           /\ Holding(x)' = {s \in Slots : rc'[s[1]] > 0 /\ fields[s[1]][s[2]] = x}
  BY <1>1, <1>5, DecsKeeps
<1>7. /\ roots' = roots /\ fields' = fields /\ young' = young /\ unlogged' = unlogged /\ ops' = ops
      /\ incs' = incs /\ currRoots' = currRoots /\ prevRoots' = prevRoots
      /\ colour' = colour /\ cursor' = cursor /\ stk' = stk /\ blk' = blk
  BY <1>1 DEF heapVars, ccVars
<1>8. Len(cands) \in Nat
  BY <1>2, SMTT(30)
<1>9. /\ \A v \in Workers : v # w => pushing'[v] = pushing[v]
      /\ strong[o] = 1 => pushing'[w] = [obj |-> o, len |-> Len(cands)]
      /\ strong[o] # 1 => pushing' = pushing
  BY <1>1, <1>2
<1>10. TypeOK'
  <2>1. rc' \in [Objects -> 0..MAX_REF_COUNT] /\ decs' \in [Objects -> Nat]
    BY <1>1, <1>2, <1>4
  <2>2. strong' \in [Objects -> 0..MAX_STRONG_REF_COUNT]
    <3>1. strong[o] \in 0..MAX_STRONG_REF_COUNT /\ 0 \in Nat
      BY <1>2, SMTT(30)
    <3>2. strong_rc_dec(strong[o]) \in 0..MAX_STRONG_REF_COUNT
      BY <3>1, StrongSteps
    <3> QED
      BY <1>1, <1>2, <3>2
  <2>3. pushing' \in [Workers -> [obj : Objects \cup {Null}, len : Nat]]
    <3>1. [obj |-> o, len |-> Len(cands)] \in [obj : Objects \cup {Null}, len : Nat]
      BY <1>8
    <3> QED
      BY <1>1, <1>2, <3>1
  <2> QED
    BY <1>1, <1>2, <1>7, <2>1, <2>2, <2>3 DEF TypeOK
<1>11. PushInv'
  <2>0. /\ Len(cands) <= Len(buffer)
        /\ \A v \in Workers :
              pushing[v] # NoPush => pushing[v].obj \in Objects /\ pushing[v].len <= Len(buffer)
        /\ ~lost => buffer = cands /\ \A v \in Workers : pushing[v].len <= Len(cands)
    BY <1>1 DEF LXRInvariant, PushInv
  <2>1. [obj |-> o, len |-> Len(cands)].obj = o /\ [obj |-> o, len |-> Len(cands)].len = Len(cands)
    OBVIOUS
  <2>2. Len(cands) <= Len(cands)
    BY <1>8, SMTT(30)
  <2>3. ASSUME NEW v \in Workers
        PROVE  pushing'[v] = pushing[v] \/ (pushing'[v].obj = o /\ pushing'[v].len = Len(cands))
    BY <1>9, <2>1
  <2>4. \A v \in Workers :
           pushing'[v] # NoPush => pushing'[v].obj \in Objects /\ pushing'[v].len <= Len(buffer)
    BY <2>0, <2>3
  <2>5. ~lost => buffer = cands /\ \A v \in Workers : pushing'[v].len <= Len(cands)
    BY <2>0, <2>2, <2>3
  <2> QED
    BY <1>1, <2>0, <2>4, <2>5 DEF PushInv
<1>12. CountsAreExact'
  <2>1. ASSUME NEW x \in Objects, rc'[x] # MAX_REF_COUNT
        PROVE  rc'[x] = Cardinality(Holding(x)') + decs'[x] + currRoots'[x] + prevRoots'[x]
    <3>1. Holding(x)' = Holding(x)
      <4>1. \A s \in Slots : rc'[s[1]] > 0 <=> rc[s[1]] > 0
        BY <1>5, Pairs
      <4> QED
        BY <1>6, <4>1
    <3>2. /\ Cardinality(Holding(x)) \in Nat /\ rc[x] \in Nat /\ decs[x] \in Nat
          /\ currRoots[x] \in Nat /\ prevRoots[x] \in Nat
          /\ rc[x] # MAX_REF_COUNT =>
                rc[x] = Cardinality(Holding(x)) + decs[x] + currRoots[x] + prevRoots[x]
      BY HeldHasCount DEF LXRInvariant, Exact
    <3>3. rc[x] # MAX_REF_COUNT
      BY <1>3, <1>4, <2>1
    <3> DEFINE a == Cardinality(Holding(x))
    <3> HIDE DEF a
    <3>4. a \in Nat /\ rc[x] = a + decs[x] + currRoots[x] + prevRoots[x]
      BY <3>2, <3>3 DEF a
    <3>5. rc'[x] = a + decs'[x] + currRoots[x] + prevRoots[x]
      BY <1>3, <3>2, <3>4, SMTT(30)
    <3> QED
      BY <1>7, <3>1, <3>5 DEF a
  <2> QED
    BY <2>1, ExactNext
<1>13. StrongInv'
  <2>1. ~lost => /\ \A x \in Objects : strong[x] > 0 => rc[x] > 0
                 /\ \A x \in Objects : rc[x] > 0 /\ strong[x] = 0 =>
                       x \in Range(cands) \/ \E v \in Workers : pushing[v].obj = x
    BY <1>1, <1>6 DEF LXRInvariant, StrongInv
  <2>2. ~lost => \A x \in Objects : strong'[x] > 0 => rc'[x] > 0
    BY <1>3, <1>4, <2>1
  <2>3. NoPush.obj = Null /\ [obj |-> o, len |-> Len(cands)].obj = o
    BY DEF NoPush
  <2>4. ASSUME NEW x \in Objects, \E v \in Workers : pushing[v].obj = x
        PROVE  \E v \in Workers : pushing'[v].obj = x
    <3>1. PICK v \in Workers : pushing[v].obj = x
      BY <2>4
    <3>2. v # w
      BY <1>1, <2>3, <3>1, CountAssumption
    <3> QED
      BY <1>9, <3>1, <3>2
  <2>5. ASSUME ~lost, NEW x \in Objects, rc'[x] > 0, strong'[x] = 0
        PROVE  x \in Range(cands) \/ \E v \in Workers : pushing'[v].obj = x
    <3>1. CASE x = o /\ strong[o] = 1
      BY <1>9, <2>3, <3>1
    <3>2. CASE ~(x = o /\ strong[o] = 1)
      <4>1. strong[x] = 0
        <5>1. strong[x] \in 0..MAX_STRONG_REF_COUNT /\ 0 \in Nat
          BY <1>2, SMTT(30)
        <5>2. strong_rc_dec(strong[x]) = 0 => strong[x] = 0 \/ strong[x] = 1
          BY <5>1, StrongSteps
        <5> QED
          BY <1>3, <2>5, <3>2, <5>2
      <4> QED
        BY <1>5, <2>1, <2>4, <2>5, <4>1
    <3> QED
      BY <3>1, <3>2
  <2> QED
    BY <1>1, <1>6, <2>2, <2>5 DEF StrongInv, Black
<1> QED
  BY <1>6, <1>10, <1>11, <1>12, <1>13 DEF LXRInvariant

\* A push that ends writes at the length it read; as long as none was lost,
\* that is the end of the candidates.
LEMMA FinishPushStep ==
  ASSUME LXRInvariant, NEW w \in Workers, FinishPush(w)
  PROVE  LXRInvariant'
<1> DEFINE p == pushing[w]
           written == IF p.len < Len(buffer) THEN [buffer EXCEPT ![p.len + 1] = p.obj]
                      ELSE Append(buffer, p.obj)
<1>1. /\ p # NoPush /\ buffer' = written /\ cands' = SubSeq(written, 1, p.len + 1)
      /\ lost' = (lost \/ p.len < Len(cands)) /\ pushing' = [pushing EXCEPT ![w] = NoPush]
      /\ UNCHANGED <<heapVars, incs, currRoots, prevRoots, ccVars>>
      /\ decs' = decs /\ rc' = rc /\ strong' = strong /\ phase' = phase /\ pauses' = pauses
  BY DEF FinishPush, bufVars
<1>2. phase = "decs"
  BY <1>1 DEF LXRInvariant, PhasesInv
<1>3. /\ TypeOK /\ buffer \in Seq(Objects) /\ cands \in Seq(Objects)
      /\ pushing \in [Workers -> [obj : Objects \cup {Null}, len : Nat]] /\ p.len \in Nat
      /\ Len(buffer) \in Nat /\ Len(cands) \in Nat
  <2>1. /\ TypeOK /\ buffer \in Seq(Objects) /\ cands \in Seq(Objects)
        /\ pushing \in [Workers -> [obj : Objects \cup {Null}, len : Nat]]
    BY DEF LXRInvariant, TypeOK
  <2>2. p \in [obj : Objects \cup {Null}, len : Nat]
    BY <2>1
  <2> QED
    BY <2>1, <2>2, SMTT(30)
<1>4. /\ p.obj \in Objects /\ p.len <= Len(buffer) /\ Len(cands) <= Len(buffer)
      /\ \A v \in Workers :
            pushing[v] # NoPush => pushing[v].obj \in Objects /\ pushing[v].len <= Len(buffer)
      /\ ~lost => buffer = cands /\ \A v \in Workers : pushing[v].len <= Len(cands)
  BY <1>1, <1>2 DEF LXRInvariant, PushInv
<1>5. /\ buffer' \in Seq(Objects) /\ p.len + 1 <= Len(buffer') /\ Len(buffer) <= Len(buffer')
      /\ cands' \in Seq(Objects) /\ Len(cands') = p.len + 1
      /\ p.len = Len(buffer) => buffer' = Append(buffer, p.obj) /\ cands' = buffer'
  <2>1. /\ written \in Seq(Objects) /\ p.len + 1 <= Len(written) /\ Len(buffer) <= Len(written)
        /\ SubSeq(written, 1, p.len + 1) \in Seq(Objects)
        /\ Len(SubSeq(written, 1, p.len + 1)) = p.len + 1
        /\ p.len = Len(buffer) => /\ written = Append(buffer, p.obj)
                                  /\ SubSeq(written, 1, p.len + 1) = written
    <3>1. written = Written(buffer, p.len, p.obj)
      BY DEF Written
    <3>2. buffer \in Seq(Objects) /\ p.len \in Nat /\ p.len <= Len(buffer) /\ p.obj \in Objects
      BY <1>3, <1>4
    <3> DEFINE n == p.len
               x == p.obj
    <3> HIDE DEF p, written
    <3>3. n \in Nat /\ n <= Len(buffer) /\ x \in Objects
      BY <3>2
    <3> HIDE DEF n, x
    <3>4. /\ Written(buffer, n, x) \in Seq(Objects) /\ n + 1 <= Len(Written(buffer, n, x))
          /\ Len(buffer) <= Len(Written(buffer, n, x))
          /\ SubSeq(Written(buffer, n, x), 1, n + 1) \in Seq(Objects)
          /\ Len(SubSeq(Written(buffer, n, x), 1, n + 1)) = n + 1
          /\ n = Len(buffer) => /\ Written(buffer, n, x) = Append(buffer, x)
                                /\ SubSeq(Written(buffer, n, x), 1, n + 1) = Written(buffer, n, x)
      BY <3>2, <3>3, WritePush
    <3> QED
      BY <3>1, <3>4 DEF n, x
  <2> HIDE DEF p, written
  <2> QED
    BY <1>1, <2>1
<1> HIDE DEF written
<1>6. /\ PhasesInv' /\ LogInv' /\ RootInv' /\ ColourInv' /\ SearchInv'
      /\ \A x \in Objects : (Counted(x)' <=> rc'[x] > 0) /\ (Counted(x) <=> rc[x] > 0)
                            /\ x \in Black /\ x \in Black'
      /\ \A x \in Objects :
           /\ Holding(x) = {s \in Slots : rc[s[1]] > 0 /\ fields[s[1]][s[2]] = x}
           /\ Holding(x)' = {s \in Slots : rc'[s[1]] > 0 /\ fields[s[1]][s[2]] = x}
  BY <1>1, <1>2, DecsKeeps
<1>7. /\ roots' = roots /\ fields' = fields /\ young' = young /\ unlogged' = unlogged /\ ops' = ops
      /\ incs' = incs /\ currRoots' = currRoots /\ prevRoots' = prevRoots
      /\ colour' = colour /\ cursor' = cursor /\ stk' = stk /\ blk' = blk
  BY <1>1 DEF heapVars, ccVars
<1>8. NoPush \in [obj : Objects \cup {Null}, len : Nat] /\ NoPush.len = 0 /\ NoPush.obj = Null
  BY SMTT(30) DEF NoPush
<1>9. /\ \A v \in Workers : v # w => pushing'[v] = pushing[v]
      /\ pushing'[w] = NoPush
  BY <1>1, <1>3
<1>10. TypeOK'
  <2>1. pushing' \in [Workers -> [obj : Objects \cup {Null}, len : Nat]]
    BY <1>1, <1>3, <1>8
  <2>2. lost' \in BOOLEAN
    BY <1>1
  <2> QED
    BY <1>1, <1>3, <1>5, <1>7, <2>1, <2>2 DEF TypeOK
<1>11. ~lost' => /\ ~lost /\ p.len = Len(buffer) /\ buffer = cands
                 /\ cands' = Append(cands, p.obj) /\ buffer' = cands'
  <2> HAVE ~lost'
  <2>1. ~lost /\ ~(p.len < Len(cands))
    BY <1>1
  <2>2. buffer = cands /\ p.len <= Len(cands)
    BY <1>4, <2>1
  <2>3. p.len = Len(cands)
    <3> HIDE DEF p
    <3> QED
      BY <1>3, <2>1, <2>2, SMTT(30)
  <2> QED
    BY <1>5, <2>1, <2>2, <2>3
<1> HIDE DEF p
<1>12. PushInv'
  <2>1. Len(cands') <= Len(buffer')
    BY <1>5
  <2>2. Len(buffer') \in Nat /\ Len(cands') \in Nat
    BY <1>5, SMTT(30)
  <2>3. ASSUME NEW v \in Workers, pushing'[v] # NoPush
        PROVE  pushing'[v].obj \in Objects /\ pushing'[v].len <= Len(buffer')
    <3>1. pushing'[v] = pushing[v] /\ pushing[v].obj \in Objects /\ pushing[v].len <= Len(buffer)
      BY <1>4, <1>9, <2>3
    <3>2. pushing[v].len \in Nat
      BY <1>3, SMTT(30)
    <3>3. pushing[v].len <= Len(buffer')
      BY <1>3, <1>5, <2>2, <3>1, <3>2, SMTT(30)
    <3> QED
      BY <3>1, <3>3
  <2>4. ASSUME ~lost', NEW v \in Workers PROVE pushing'[v].len <= Len(cands')
    <3>1. CASE v = w
      <4>1. 0 <= Len(cands')
        BY <2>2, SMTT(30)
      <4> QED
        BY <1>8, <1>9, <3>1, <4>1
    <3>2. CASE v # w
      <4>1. pushing'[v] = pushing[v] /\ pushing[v].len <= Len(cands) /\ Len(cands) <= Len(cands')
        BY <1>4, <1>5, <1>9, <1>11, <2>4, <3>2
      <4>2. pushing[v].len \in Nat
        BY <1>3, SMTT(30)
      <4>3. pushing[v].len <= Len(cands')
        BY <1>3, <2>2, <4>1, <4>2, SMTT(30)
      <4> QED
        BY <4>1, <4>3
    <3> QED
      BY <3>1, <3>2
  <2> QED
    BY <1>11, <2>1, <2>3, <2>4 DEF PushInv
<1>13. CountsAreExact'
  <2>1. \A x \in Objects : Holding(x)' = Holding(x)
    BY <1>1, <1>6
  <2>2. \A x \in Objects : decs'[x] + currRoots'[x] + prevRoots'[x] = decs[x] + currRoots[x] + prevRoots[x]
    BY <1>1, <1>7
  <2> QED
    BY <1>1, <1>3, <1>10, <2>1, <2>2, SameHolding DEF LXRInvariant
<1>14. StrongInv'
  <2>1. ~lost => /\ \A x \in Objects : strong[x] > 0 => rc[x] > 0
                 /\ \A x \in Objects : rc[x] > 0 /\ strong[x] = 0 =>
                       x \in Range(cands) \/ \E v \in Workers : pushing[v].obj = x
    BY <1>2, <1>6 DEF LXRInvariant, StrongInv
  <2>2. ~lost' => Range(cands') = Range(cands) \cup {p.obj}
    <3> DEFINE x == p.obj
    <3>1. Range(Append(cands, x)) = Range(cands) \cup {x}
      <4>1. cands \in Seq(Objects) /\ x \in Objects
        BY <1>3, <1>4
      <4> HIDE DEF x
      <4> QED
        BY <4>1, RangeOfAppend
    <3> QED
      BY <1>11, <3>1
  <2>3. ASSUME ~lost', NEW x \in Objects, rc[x] > 0, strong[x] = 0
        PROVE  x \in Range(cands') \/ \E v \in Workers : pushing'[v].obj = x
    <3>1. CASE x \in Range(cands)
      BY <2>2, <2>3, <3>1
    <3>2. CASE \E v \in Workers : pushing[v].obj = x
      <4>1. PICK v \in Workers : pushing[v].obj = x
        BY <3>2
      <4>2. CASE v = w
        BY <2>2, <2>3, <4>1, <4>2 DEF p
      <4>3. CASE v # w
        BY <1>9, <4>1, <4>3
      <4> QED
        BY <4>2, <4>3
    <3> QED
      BY <1>11, <2>1, <2>3, <3>1, <3>2
  <2> QED
    BY <1>1, <1>2, <1>6, <1>11, <2>1, <2>3 DEF StrongInv, Black
<1> QED
  BY <1>6, <1>10, <1>12, <1>13, <1>14 DEF LXRInvariant

-----------------------------------------------------------------------------
(* The cycle collection.                                                   *)

\* The candidates before and after the cursor.
LEMMA CursorSets ==
  ASSUME cands \in Seq(Objects), cursor \in 1..(Len(cands) + 1)
  PROVE  /\ cursor = 1 => Visited = {} /\ Unvisited = Range(cands)
         /\ cursor > Len(cands) => Visited = Range(cands) /\ Unvisited = {}
         /\ cursor <= Len(cands) => cands[cursor] \in Range(cands) /\ cands[cursor] \in Objects
         /\ Visited \subseteq Objects /\ Unvisited \subseteq Objects /\ Range(cands) \subseteq Objects
<1>1. Len(cands) \in Nat /\ cursor \in Nat
  BY SMTT(30)
<1>2. Range(cands) = {cands[i] : i \in 1..Len(cands)} /\ Range(cands) \subseteq Objects
  BY SeqRange
<1>3. cursor = 1 => 1..(cursor - 1) = {} /\ cursor..Len(cands) = 1..Len(cands)
  BY <1>1, SMTT(30)
<1>4. cursor > Len(cands) => 1..(cursor - 1) = 1..Len(cands) /\ cursor..Len(cands) = {}
  BY <1>1, SMTT(30)
<1>5. /\ \A i \in 1..(cursor - 1) : i \in 1..Len(cands)
      /\ \A i \in cursor..Len(cands) : i \in 1..Len(cands)
      /\ cursor <= Len(cands) => cursor \in 1..Len(cands)
  BY <1>1, SMTT(30)
<1>6. cursor = 1 => Visited = {} /\ Unvisited = Range(cands)
  BY <1>2, <1>3 DEF Visited, Unvisited
<1>7. cursor > Len(cands) => Visited = Range(cands) /\ Unvisited = {}
  BY <1>2, <1>4 DEF Visited, Unvisited
<1>8. Visited \subseteq Range(cands) /\ Unvisited \subseteq Range(cands)
  BY <1>2, <1>5 DEF Visited, Unvisited
<1> QED
  BY <1>2, <1>5, <1>6, <1>7, <1>8

\* The cursor moves past a candidate.
LEMMA CursorMoves ==
  ASSUME cands \in Seq(Objects), cursor \in 1..(Len(cands) + 1), cursor <= Len(cands),
         cands' = cands, cursor' = cursor + 1
  PROVE  /\ cursor' \in 1..(Len(cands') + 1)
         /\ Visited' = Visited \cup {cands[cursor]}
         /\ Unvisited = Unvisited' \cup {cands[cursor]}
<1>1. Len(cands) \in Nat /\ cursor \in Nat
  BY SMTT(30)
<1>2. cursor + 1 \in 1..(Len(cands) + 1)
  BY <1>1, SMTT(30)
<1>3. 1..((cursor + 1) - 1) = (1..(cursor - 1)) \cup {cursor}
  BY <1>1, SMTT(30)
<1>4. cursor..Len(cands) = ((cursor + 1)..Len(cands)) \cup {cursor}
  BY <1>1, SMTT(30)
<1>5. Visited' = Visited \cup {cands[cursor]}
  BY <1>3 DEF Visited
<1>6. Unvisited = Unvisited' \cup {cands[cursor]}
  BY <1>4 DEF Unvisited
<1> QED
  BY <1>2, <1>5, <1>6

\* What a counted object refers to is counted, once no increment waits.
LEMMA TargetsHaveCounts ==
  ASSUME TypeOK, CountsAreExact, incs = {}, NEW o \in Objects, Counted(o), NEW x \in Targets(o)
  PROVE  rc[x] > 0
<1>1. x \in Objects /\ \E f \in Fields : fields[o][f] = x
  BY DEF Targets
<1>2. PICK f \in Fields : fields[o][f] = x
  BY <1>1
<1>3. <<o, f>> \in Slots /\ <<o, f>>[1] = o /\ <<o, f>>[2] = f
  BY Pairs
<1>4. <<o, f>> \in Holding(x)
  BY <1>2, <1>3 DEF Holding, Pending
<1>5. rc[x] \in Nat /\ rc[x] # 0
  BY <1>1, <1>4, HeldHasCount
<1> QED
  BY <1>5, SMTT(30)

\* A step of the collector leaves the heap, the logs and the roots alone, and
\* a count then counts the slots of counted objects.
LEMMA CollectKeeps ==
  ASSUME LXRInvariant, phase \in Collector, phase' \in Collector, Collecting,
         \A x \in Objects : Tracked(x)' => Tracked(x),
         phase' # "scan" => blk' = <<>>, cursor' \in 1..(Len(cands') + 1)
  PROVE  /\ PhasesInv' /\ PushInv' /\ LogInv' /\ RootInv'
         /\ \A x \in Objects :
              /\ Holding(x) = {s \in Slots : Counted(s[1]) /\ fields[s[1]][s[2]] = x}
              /\ Holding(x)' = {s \in Slots : Counted(s[1])' /\ fields[s[1]][s[2]] = x}
<1>1. /\ roots' = roots /\ fields' = fields /\ young' = young /\ unlogged' = unlogged
      /\ incs' = incs /\ decs' = decs /\ currRoots' = currRoots /\ prevRoots' = prevRoots
      /\ buffer' = buffer /\ pushing' = pushing /\ lost' = lost
  BY DEF Collecting, heapVars, bufVars
<1>2. phase \notin {"mutator", "incs", "decs"} /\ phase' \notin {"mutator", "incs", "decs"}
  BY DEF Collector
<1>3. /\ incs = {} /\ young = {} /\ buffer = <<>> /\ \A w \in Workers : pushing[w] = NoPush
      /\ \A o \in Objects : decs[o] = 0
  BY <1>2 DEF LXRInvariant, PhasesInv
<1>4. PhasesInv'
  BY <1>1, <1>2, <1>3 DEF PhasesInv
<1>5. PushInv'
  BY <1>1, <1>2, <1>3 DEF PushInv
<1>6. LogInv'
  <2>1. \A s \in Slots : Tracked(s[1])' => s \in unlogged
    BY <1>3, Pairs DEF LXRInvariant, LogInv
  <2> QED
    BY <1>1, <1>2, <1>3, <2>1 DEF LogInv
<1>7. RootInv'
  BY <1>1, <1>2 DEF LXRInvariant, RootInv
<1>8. ASSUME NEW x \in Objects
      PROVE  /\ Holding(x) = {s \in Slots : Counted(s[1]) /\ fields[s[1]][s[2]] = x}
             /\ Holding(x)' = {s \in Slots : Counted(s[1])' /\ fields[s[1]][s[2]] = x}
  <2>1. \A s \in Slots : ~Pending(s[1], s[2]) /\ ~Pending(s[1], s[2])'
    BY <1>1, <1>3 DEF Pending
  <2> QED
    BY <1>1, <2>1 DEF Holding
<1> QED
  BY <1>4, <1>5, <1>6, <1>7, <1>8

\* Counts stay exact in a step of the collector that counts the same slots.
LEMMA SameCounted ==
  ASSUME LXRInvariant, phase \in Collector, phase' \in Collector, Collecting, TypeOK', rc' = rc,
         \A x \in Objects : (Tracked(x)' => Tracked(x)) /\ (Counted(x)' <=> Counted(x)),
         phase' # "scan" => blk' = <<>>, cursor' \in 1..(Len(cands') + 1)
  PROVE  /\ PhasesInv' /\ PushInv' /\ LogInv' /\ RootInv' /\ CountsAreExact'
<1>1. /\ PhasesInv' /\ PushInv' /\ LogInv' /\ RootInv'
      /\ \A x \in Objects :
           /\ Holding(x) = {s \in Slots : Counted(s[1]) /\ fields[s[1]][s[2]] = x}
           /\ Holding(x)' = {s \in Slots : Counted(s[1])' /\ fields[s[1]][s[2]] = x}
  BY CollectKeeps
<1>2. \A s \in Slots : Counted(s[1])' <=> Counted(s[1])
  BY Pairs
<1>3. \A x \in Objects : Holding(x)' = Holding(x)
  BY <1>1, <1>2
<1>4. decs' = decs /\ currRoots' = currRoots /\ prevRoots' = prevRoots
  BY DEF Collecting, bufVars
<1> QED
  BY <1>1, <1>3, <1>4, SameHolding DEF LXRInvariant

\* The decrements are done, and marking begins from the first candidate.
LEMMA DecsDoneStep ==
  ASSUME LXRInvariant, DecsDone
  PROVE  LXRInvariant'
<1>1. /\ phase = "decs" /\ phase' = "mark" /\ cursor' = 1 /\ buffer' = <<>>
      /\ \A o \in Objects : decs[o] = 0
      /\ \A w \in Workers : pushing[w] = NoPush
      /\ roots' = roots /\ fields' = fields /\ young' = young /\ unlogged' = unlogged /\ ops' = ops
      /\ incs' = incs /\ decs' = decs /\ currRoots' = currRoots /\ prevRoots' = prevRoots
      /\ rc' = rc /\ strong' = strong /\ cands' = cands /\ pushing' = pushing /\ lost' = lost
      /\ pauses' = pauses /\ colour' = colour /\ stk' = stk /\ blk' = blk
  BY DEF DecsDone, heapVars, bufVars
<1>2. /\ \A x \in Objects : /\ colour[x] = BLACK_OUT_OF_STACK /\ is_black(x) /\ ~in_stack(x)
                            /\ x \notin Grey /\ x \notin White /\ x \in Black
                            /\ Counted(x) <=> rc[x] > 0
                            /\ Tracked(x) <=> rc[x] > 0
      /\ stk = <<>> /\ blk = <<>>
  BY <1>1, CalmColours DEF LXRInvariant, Collector
<1>3. Range(<<>>) = {}
  BY RangeOfOne
<1>4. \A x \in Objects : /\ is_black(x)' /\ ~in_stack(x)' /\ x \in Black' /\ x \notin White'
                         /\ x \notin Grey' /\ (Counted(x)' <=> rc[x] > 0) /\ (Tracked(x)' <=> rc[x] > 0)
  BY <1>1, <1>2, <1>3 DEF is_black, in_stack, Black, White, Grey, Counted, Tracked
<1>5. TypeOK'
  <2>1. 1 \in Nat /\ <<>> \in Seq(Objects)
    BY SMTT(30)
  <2> QED
    BY <1>1, <2>1 DEF LXRInvariant, TypeOK
<1>6. incs = {} /\ young = {}
  BY <1>1 DEF LXRInvariant, PhasesInv
<1>7. cands \in Seq(Objects) /\ cursor' \in 1..(Len(cands') + 1)
  <2>1. cands \in Seq(Objects)
    BY DEF LXRInvariant, TypeOK
  <2>2. 1 \in 1..(Len(cands) + 1)
    BY <2>1, SMTT(30)
  <2> QED
    BY <1>1, <2>1, <2>2
<1>8. PhasesInv'
  BY <1>1, <1>2, <1>6, <1>7 DEF PhasesInv, Collector
<1>9. PushInv'
  BY <1>1 DEF PushInv
<1>10. LogInv'
  <2>1. \A s \in Slots : Tracked(s[1])' => s \in unlogged
    BY <1>2, <1>4, <1>6, Pairs DEF LXRInvariant, LogInv
  <2> QED
    BY <1>1, <1>6, <2>1 DEF LogInv
<1>11. CountsAreExact'
  <2>1. ASSUME NEW x \in Objects PROVE Holding(x)' = Holding(x)
    <3>1. \A s \in Slots : (Counted(s[1])' <=> Counted(s[1])) /\ (Pending(s[1], s[2])' <=> Pending(s[1], s[2]))
      BY <1>1, <1>2, <1>4, Pairs DEF Pending
    <3> QED
      BY <1>1, <3>1 DEF Holding
  <2> QED
    BY <1>1, <1>5, <2>1, SameHolding DEF LXRInvariant
<1>12. RootInv'
  BY <1>1 DEF LXRInvariant, RootInv
<1>13. ColourInv'
  <2>1. \A x \in White' : FALSE
    BY <1>4 DEF White
  <2>2. Range(blk') = {}
    BY <1>1, <1>2, <1>3
  <2> QED
    BY <1>1, <1>2, <1>4, <2>1, <2>2 DEF ColourInv
<1>14. SearchInv'
  <2>1. Grey' = {} /\ Range(stk') = {}
    BY <1>1, <1>2, <1>3, <1>4 DEF Grey
  <2> QED
    BY <1>1, <2>1 DEF SearchInv, Reaches
<1>15. StrongInv'
  <2>1. ~lost => /\ \A x \in Objects : strong[x] > 0 => rc[x] > 0
                 /\ \A x \in Objects : rc[x] > 0 /\ strong[x] = 0 =>
                       x \in Range(cands) \/ \E v \in Workers : pushing[v].obj = x
    BY <1>1, <1>2 DEF LXRInvariant, StrongInv
  <2>2. NoPush.obj = Null
    BY DEF NoPush
  <2>3. Unvisited' = Range(cands)
    <3>1. cands' \in Seq(Objects) /\ Len(cands) \in Nat
      BY <1>1, <1>7, SMTT(30)
    <3>2. Range(cands) = {cands[i] : i \in 1..Len(cands)}
      BY <1>7, SeqRange
    <3> QED
      BY <1>1, <3>2 DEF Unvisited
  <2>4. ~lost => \A x \in Objects : rc[x] > 0 /\ strong[x] = 0 => x \in Unvisited'
    BY <1>1, <2>1, <2>2, <2>3, CountAssumption
  <2> QED
    BY <1>1, <1>4, <2>1, <2>4 DEF StrongInv, Black
<1> QED
  BY <1>5, <1>8, <1>9, <1>10, <1>11, <1>12, <1>13, <1>14, <1>15 DEF LXRInvariant

\* A candidate is taken for marking, or dropped because it is marked or dead.
LEMMA MarkCandidateStep ==
  ASSUME LXRInvariant, MarkCandidate
  PROVE  LXRInvariant'
<1> DEFINE c == cands[cursor]
<1>1. /\ phase = "mark" /\ phase' = phase /\ stk = <<>> /\ cursor <= Len(cands) /\ Collecting
      /\ rc' = rc /\ strong' = strong /\ colour' = colour /\ blk' = blk
  BY DEF MarkCandidate
<1>2. \/ should_mark(c) /\ stk' = <<c>> /\ cursor' = cursor + 1 /\ cands' = cands
      \/ /\ ~should_mark(c) /\ cands' = Pop([cands EXCEPT ![cursor] = Top(cands)])
         /\ stk' = stk /\ cursor' = cursor
  BY DEF MarkCandidate
<1>3. /\ roots' = roots /\ fields' = fields /\ young' = young /\ unlogged' = unlogged /\ ops' = ops
      /\ incs' = incs /\ decs' = decs /\ currRoots' = currRoots /\ prevRoots' = prevRoots
      /\ buffer' = buffer /\ pushing' = pushing /\ lost' = lost /\ pauses' = pauses
  BY <1>1 DEF Collecting, heapVars, bufVars
<1>4. /\ cands \in Seq(Objects) /\ cursor \in 1..(Len(cands) + 1) /\ Len(cands) \in Nat /\ cursor \in Nat
      /\ cursor \in 1..Len(cands) /\ blk = <<>>
  <2>1. cands \in Seq(Objects) /\ cursor \in 1..(Len(cands) + 1) /\ blk = <<>>
    BY <1>1 DEF LXRInvariant, TypeOK, PhasesInv, Collector
  <2> QED
    BY <1>1, <2>1, SMTT(30)
<1>5. c \in Objects
  BY <1>1, <1>4, CursorSets
<1>6. Range(<<>>) = {} /\ Range(<<c>>) = {c} /\ <<c>> \in Seq(Objects)
  BY <1>5, RangeOfOne
<1>7. colour[c] \in {BLACK_OUT_OF_STACK, GREY}
  BY <1>1, <1>5 DEF LXRInvariant, ColourInv
<1> HIDE DEF c
<1>8. /\ \A x \in Objects : (Counted(x)' <=> Counted(x)) /\ (Tracked(x)' <=> Tracked(x))
      /\ Grey' = Grey /\ White' = White /\ Black' = Black
      /\ \A x \in Objects : (is_black(x)' <=> is_black(x)) /\ (in_stack(x)' <=> in_stack(x))
      /\ \A x : Targets(x)' = Targets(x)
  <2>1. \A x \in Objects : (is_black(x)' <=> is_black(x)) /\ (in_stack(x)' <=> in_stack(x))
    BY <1>1 DEF is_black, in_stack
  <2>2. \A x \in Objects : Counted(x)' <=> Counted(x)
    <3>1. \A x \in Objects : rc[x] > 0 \/ x \in Range(stk') <=> rc[x] > 0 \/ x \in Range(stk)
      BY <1>1, <1>2, <1>6 DEF should_mark
    <3> QED
      BY <1>1, <2>1, <3>1 DEF Counted
  <2> QED
    BY <1>1, <1>3, <2>1, <2>2 DEF Tracked, Grey, White, Black, Targets
<1>9. /\ TypeOK' /\ cursor' \in 1..(Len(cands') + 1)
      /\ should_mark(c) => /\ Visited' = Visited \cup {c} /\ Unvisited = Unvisited' \cup {c}
                           /\ Range(stk') = {c}
      /\ ~should_mark(c) => /\ Visited' = Visited /\ \A x \in Unvisited : x = c \/ x \in Unvisited'
                            /\ Range(stk') = {}
  <2>1. CASE should_mark(c)
    <3>1. stk' = <<c>> /\ cursor' = cursor + 1 /\ cands' = cands
      BY <1>2, <2>1
    <3>2. /\ cursor' \in 1..(Len(cands') + 1) /\ Visited' = Visited \cup {c}
          /\ Unvisited = Unvisited' \cup {c}
      BY <1>1, <1>4, <3>1, CursorMoves DEF c
    <3>3. cursor' \in Nat
      BY <1>4, <3>1, SMTT(30)
    <3>4. TypeOK'
      BY <1>1, <1>3, <1>6, <3>1, <3>3 DEF LXRInvariant, TypeOK
    <3> QED
      BY <1>6, <2>1, <3>1, <3>2, <3>4
  <2>2. CASE ~should_mark(c)
    <3>1. stk' = stk /\ cursor' = cursor /\ cands' = Pop([cands EXCEPT ![cursor] = Top(cands)])
      BY <1>2, <2>2
    <3>2. /\ cands' \in Seq(Objects) /\ Len(cands') = Len(cands) - 1
          /\ \A j \in 1..(cursor - 1) : cands'[j] = cands[j]
          /\ \A j \in cursor..Len(cands) :
                cands[j] = cands[cursor] \/ \E k \in cursor..Len(cands') : cands'[k] = cands[j]
      <4>1. cands' \in Seq(Objects) /\ Swapped(cands, cursor, cands')
        BY <1>4, <3>1, SwapRemove
      <4> QED
        BY <4>1 DEF Swapped
    <3>3. cursor' \in 1..(Len(cands') + 1)
      BY <1>4, <3>1, <3>2, SMTT(30)
    <3>4. Visited' = Visited
      BY <3>1, <3>2 DEF Visited
    <3>5. \A x \in Unvisited : x = c \/ x \in Unvisited'
      BY <3>1, <3>2 DEF Unvisited, c
    <3>6. TypeOK'
      BY <1>1, <1>3, <3>1, <3>2 DEF LXRInvariant, TypeOK
    <3> QED
      BY <1>1, <1>6, <2>2, <3>1, <3>3, <3>4, <3>5, <3>6
  <2> QED
    BY <2>1, <2>2
<1>10. PhasesInv' /\ PushInv' /\ LogInv' /\ RootInv' /\ CountsAreExact'
  BY <1>1, <1>4, <1>8, <1>9, SameCounted DEF Collector
<1>11. ColourInv'
  <2>1. /\ \A o \in Objects : colour[o] \in {BLACK_OUT_OF_STACK, GREY}
        /\ \A o \in Objects : in_stack(o) => o \in Range(blk)
        /\ \A o \in Range(blk) : rc[o] > 0
        /\ \A o \in White : rc[o] = 0 \/ o \in Range(blk)
        /\ \A o \in Objects : ~is_black(o) => \A x \in Targets(o) : Tracked(x)
    BY <1>1 DEF LXRInvariant, ColourInv
  <2>2. \A o \in Objects : ~is_black(o)' => \A x \in Targets(o)' : Tracked(x)'
    BY <1>8, <2>1 DEF Targets
  <2> QED
    BY <1>1, <1>8, <2>1, <2>2 DEF ColourInv
<1>12. SearchInv'
  <2>1. Reaches(Visited, Grey, Objects, Grey \cup Range(stk))
    BY <1>1 DEF LXRInvariant, SearchInv
  <2>2. ASSUME NEW U \in SUBSET Objects, Visited' \subseteq U, Closed(U, Grey, Objects)
        PROVE  Grey \cup Range(stk') \subseteq U
    <3>1. Visited \subseteq U
      BY <1>9, <2>2
    <3>2. Grey \subseteq U
      BY <2>1, <2>2, <3>1 DEF Reaches
    <3> QED
      BY <1>9, <2>2, <3>2
  <2>3. \A U \in SUBSET Objects : Closed(U, Grey, Objects)' <=> Closed(U, Grey, Objects)
    BY <1>8 DEF Closed
  <2>4. Reaches(Visited, Grey, Objects, Grey \cup Range(stk))'
    BY <1>8, <2>2, <2>3 DEF Reaches
  <2> QED
    BY <1>1, <2>4 DEF SearchInv
<1>13. StrongInv'
  <2>1. ~lost => /\ \A x \in Black : strong[x] > 0 => Counted(x)
                 /\ \A x \in Black : rc[x] > 0 /\ strong[x] = 0 => x \in Unvisited \cup Range(stk)
    BY <1>1 DEF LXRInvariant, StrongInv
  <2>2. Range(stk) = {}
    BY <1>1, <1>6
  <2>3. ASSUME ~lost, NEW x \in Black, rc[x] > 0, strong[x] = 0
        PROVE  x \in Unvisited' \cup Range(stk')
    <3>1. x \in Unvisited
      BY <2>1, <2>2, <2>3
    <3>2. CASE should_mark(c)
      BY <1>9, <3>1, <3>2
    <3>3. CASE ~should_mark(c)
      <4>1. x # c
        <5>1. x \in Objects /\ is_black(x)
          BY <2>3 DEF Black
        <5>2. ~(GREY <= BLACK_IN_STACK)
          BY SMTT(30) DEF GREY, BLACK_IN_STACK
        <5> QED
          BY <2>3, <3>3, <5>1, <5>2 DEF should_mark, is_black
      <4> QED
        BY <1>9, <3>1, <3>3, <4>1
    <3> QED
      BY <3>2, <3>3
  <2>4. Black \subseteq Objects
    BY DEF Black
  <2> QED
    BY <1>1, <1>3, <1>8, <2>1, <2>3, <2>4 DEF StrongInv
<1> QED
  BY <1>9, <1>10, <1>11, <1>12, <1>13 DEF LXRInvariant

\* mark on an object that is grey already only pops it.
LEMMA MarkPopStep ==
  ASSUME LXRInvariant, mark, colour[Top(stk)] # BLACK_OUT_OF_STACK
  PROVE  LXRInvariant'
<1> DEFINE curr == Top(stk)
<1>1. /\ phase = "mark" /\ phase' = phase /\ stk # <<>> /\ Collecting /\ stk' = Pop(stk)
      /\ rc' = rc /\ strong' = strong /\ colour' = colour /\ blk' = blk
      /\ cands' = cands /\ cursor' = cursor
  BY DEF mark
<1>2. /\ fields' = fields /\ roots' = roots /\ young' = young /\ unlogged' = unlogged /\ ops' = ops
      /\ incs' = incs /\ decs' = decs /\ currRoots' = currRoots /\ prevRoots' = prevRoots
      /\ buffer' = buffer /\ pushing' = pushing /\ lost' = lost /\ pauses' = pauses
  BY <1>1 DEF Collecting, heapVars, bufVars
<1>3. /\ stk \in Seq(Objects) /\ cursor \in 1..(Len(cands) + 1) /\ blk = <<>>
  BY <1>1 DEF LXRInvariant, TypeOK, PhasesInv, Collector
<1>4. /\ curr \in Objects /\ stk' \in Seq(Objects) /\ Range(stk) = Range(stk') \cup {curr}
  BY <1>1, <1>3, PopStack
<1>5. ~is_black(curr)
  <2>1. colour[curr] = GREY
    BY <1>1, <1>4 DEF LXRInvariant, ColourInv
  <2>2. ~(GREY <= BLACK_IN_STACK)
    BY SMTT(30) DEF GREY, BLACK_IN_STACK
  <2> QED
    BY <2>1, <2>2 DEF is_black
<1> HIDE DEF curr
<1>6. /\ \A x \in Objects : (Counted(x)' <=> Counted(x)) /\ (Tracked(x)' <=> Tracked(x))
      /\ Grey' = Grey /\ White' = White /\ Black' = Black
      /\ \A x \in Objects : (is_black(x)' <=> is_black(x)) /\ (in_stack(x)' <=> in_stack(x))
      /\ \A x : Targets(x)' = Targets(x)
  <2>1. \A x \in Objects : (is_black(x)' <=> is_black(x)) /\ (in_stack(x)' <=> in_stack(x))
    BY <1>1 DEF is_black, in_stack
  <2>2. \A x \in Objects : Counted(x)' <=> Counted(x)
    BY <1>1, <1>4, <1>5, <2>1 DEF Counted
  <2> QED
    BY <1>1, <1>2, <2>1, <2>2 DEF Tracked, Grey, White, Black, Targets
<1>7. TypeOK'
  BY <1>1, <1>2, <1>4 DEF LXRInvariant, TypeOK
<1>8. PhasesInv' /\ PushInv' /\ LogInv' /\ RootInv' /\ CountsAreExact'
  BY <1>1, <1>3, <1>6, <1>7, SameCounted DEF Collector
<1>9. ColourInv'
  <2>1. \A o \in Objects : ~is_black(o) => \A x \in Targets(o) : Tracked(x)
    BY <1>1 DEF LXRInvariant, ColourInv
  <2>2. \A o \in Objects : ~is_black(o)' => \A x \in Targets(o)' : Tracked(x)'
    BY <1>6, <2>1 DEF Targets
  <2> QED
    BY <1>1, <1>6, <2>2 DEF LXRInvariant, ColourInv
<1>10. SearchInv'
  <2>1. Reaches(Visited, Grey, Objects, Grey \cup Range(stk))
    BY <1>1 DEF LXRInvariant, SearchInv
  <2>2. Visited' = Visited
    BY <1>1 DEF Visited
  <2>3. \A U \in SUBSET Objects : Closed(U, Grey, Objects)' <=> Closed(U, Grey, Objects)
    BY <1>6 DEF Closed
  <2>4. Reaches(Visited, Grey, Objects, Grey \cup Range(stk))'
    BY <1>4, <1>6, <2>1, <2>2, <2>3 DEF Reaches
  <2> QED
    BY <1>1, <2>4 DEF SearchInv
<1>11. StrongInv'
  <2>1. ~lost => /\ \A x \in Black : strong[x] > 0 => Counted(x)
                 /\ \A x \in Black : rc[x] > 0 /\ strong[x] = 0 => x \in Unvisited \cup Range(stk)
    BY <1>1 DEF LXRInvariant, StrongInv
  <2>2. Unvisited' = Unvisited /\ curr \notin Black /\ Black \subseteq Objects
    BY <1>1, <1>5 DEF Unvisited, Black
  <2>3. ~lost => /\ \A x \in Black : strong[x] > 0 => Counted(x)'
                 /\ \A x \in Black : rc[x] > 0 /\ strong[x] = 0 => x \in Unvisited' \cup Range(stk')
    BY <1>4, <1>6, <2>1, <2>2
  <2> QED
    BY <1>1, <1>2, <1>6, <2>3 DEF StrongInv
<1> QED
  BY <1>7, <1>8, <1>9, <1>10, <1>11 DEF LXRInvariant

\* mark greys a black object and takes back the counts of its slots; what it
\* takes to zero is on the stack, so its own slots still count.
LEMMA MarkStep ==
  ASSUME LXRInvariant, mark, colour[Top(stk)] = BLACK_OUT_OF_STACK
  PROVE  LXRInvariant'
<1> DEFINE rest == Pop(stk)
<1>0. PICK curr \in Objects : curr = Top(stk)
  <2>1. stk # <<>> /\ stk \in Seq(Objects)
    BY DEF mark, LXRInvariant, TypeOK
  <2> QED
    BY <2>1, PopStack
<1>1. /\ phase = "mark" /\ phase' = phase /\ stk # <<>> /\ Collecting /\ stk' = rest \o Children(curr)
      /\ colour' = [colour EXCEPT ![curr] = GREY]
      /\ rc' = [x \in Objects |-> decBy(rc[x], EdgesTo(curr, x))]
      /\ strong' = strong /\ blk' = blk /\ cands' = cands /\ cursor' = cursor
  BY <1>0 DEF mark
<1>2. /\ fields' = fields /\ roots' = roots /\ young' = young /\ unlogged' = unlogged /\ ops' = ops
      /\ incs' = incs /\ decs' = decs /\ currRoots' = currRoots /\ prevRoots' = prevRoots
      /\ buffer' = buffer /\ pushing' = pushing /\ lost' = lost /\ pauses' = pauses
  BY <1>1 DEF Collecting, heapVars, bufVars
<1>3. /\ TypeOK /\ stk \in Seq(Objects) /\ cursor \in 1..(Len(cands) + 1) /\ blk = <<>> /\ incs = {}
      /\ fields \in [Objects -> [Fields -> Objects \cup {Null}]]
      /\ rc \in [Objects -> 0..MAX_REF_COUNT] /\ colour \in [Objects -> BLACK_OUT_OF_STACK..WHITE]
  BY <1>1 DEF LXRInvariant, TypeOK, PhasesInv, Collector
<1>4. curr \in Objects /\ rest \in Seq(Objects) /\ Range(stk) = Range(rest) \cup {curr}
  BY <1>0, <1>1, <1>3, PopStack
<1>5. stk' \in Seq(Objects) /\ Range(stk') = Range(rest) \cup Targets(curr)
  <2>1. Children(curr) \in Seq(Objects) /\ Range(Children(curr)) = Targets(curr)
    BY <1>3, <1>4, RangeOfChildren
  <2> DEFINE kids == Children(curr)
  <2>2. kids \in Seq(Objects) /\ Range(kids) = Targets(curr) /\ stk' = rest \o kids
    BY <1>1, <2>1
  <2> HIDE DEF rest, kids
  <2>3. rest \o kids \in Seq(Objects) /\ Range(rest \o kids) = Range(rest) \cup Range(kids)
    <3>1. rest \in Seq(Objects) /\ kids \in Seq(Objects)
      BY <1>4, <2>2
    <3> QED
      BY <3>1, RangeOfConcat
  <2> QED
    BY <2>2, <2>3
<1>6. colour[curr] = BLACK_OUT_OF_STACK
  BY <1>0
<1> HIDE DEF rest
<1>7. /\ BLACK_OUT_OF_STACK <= BLACK_IN_STACK /\ ~(GREY <= BLACK_IN_STACK)
      /\ GREY \in BLACK_OUT_OF_STACK..WHITE /\ GREY # BLACK_IN_STACK /\ GREY # WHITE
  BY SMTT(30) DEF GREY, BLACK_IN_STACK, BLACK_OUT_OF_STACK, WHITE
<1>8. /\ \A x \in Objects : colour'[x] = IF x = curr THEN GREY ELSE colour[x]
      /\ \A x \in Objects : is_black(x)' <=> is_black(x) /\ x # curr
      /\ \A x \in Objects : in_stack(x)' => in_stack(x)
      /\ is_black(curr) /\ Counted(curr) /\ ~Counted(curr)'
  <2>1. \A x \in Objects : colour'[x] = IF x = curr THEN GREY ELSE colour[x]
    BY <1>1, <1>3
  <2>2. \A x \in Objects : is_black(x)' <=> is_black(x) /\ x # curr
    BY <1>6, <1>7, <2>1 DEF is_black
  <2>3. \A x \in Objects : in_stack(x)' => in_stack(x)
    BY <1>7, <2>1 DEF in_stack
  <2>4. is_black(curr) /\ Counted(curr) /\ ~Counted(curr)'
    BY <1>1, <1>4, <1>6, <1>7, <2>2 DEF is_black, Counted
  <2> QED
    BY <2>1, <2>2, <2>3, <2>4
<1>9. \A x \in Targets(curr) : rc[x] > 0
  BY <1>3, <1>4, <1>8, TargetsHaveCounts DEF LXRInvariant
<1>10. ASSUME NEW x \in Objects
       PROVE  /\ EdgesTo(curr, x) \in Nat /\ rc[x] \in 0..MAX_REF_COUNT
              /\ rc'[x] = decBy(rc[x], EdgesTo(curr, x)) /\ rc'[x] \in 0..MAX_REF_COUNT
              /\ x \notin Targets(curr) => rc'[x] = rc[x]
              /\ rc'[x] > 0 => rc[x] > 0
  <2>1. EdgesTo(curr, x) \in Nat /\ (EdgesTo(curr, x) = 0 <=> x \notin Targets(curr))
    BY <1>4, CountEdges
  <2>2. rc[x] \in 0..MAX_REF_COUNT /\ rc'[x] = decBy(rc[x], EdgesTo(curr, x))
    BY <1>1, <1>3
  <2>3. /\ decBy(rc[x], EdgesTo(curr, x)) \in 0..MAX_REF_COUNT /\ decBy(rc[x], 0) = rc[x]
        /\ decBy(rc[x], EdgesTo(curr, x)) > 0 => rc[x] > 0
    BY <2>1, <2>2, CountSteps
  <2> QED
    BY <2>1, <2>2, <2>3
<1>11. \A x \in Objects : x # curr => (Counted(x)' <=> Counted(x))
  <2> TAKE x \in Objects
  <2> HAVE x # curr
  <2>1. CASE x \in Targets(curr)
    <3>1. rc[x] > 0 /\ x \in Range(stk')
      BY <1>5, <1>9, <2>1
    <3> QED
      BY <1>1, <1>8, <3>1 DEF Counted
  <2>2. CASE x \notin Targets(curr)
    <3>1. rc'[x] = rc[x] /\ (x \in Range(stk') <=> x \in Range(stk))
      BY <1>4, <1>5, <1>10, <2>2
    <3> QED
      BY <1>1, <1>8, <3>1 DEF Counted
  <2> QED
    BY <2>1, <2>2
<1>12. \A x \in Objects : Tracked(x)' <=> Tracked(x)
  BY <1>8, <1>11 DEF Tracked
<1>13. TypeOK'
  <2>1. rc' \in [Objects -> 0..MAX_REF_COUNT]
    BY <1>1, <1>10
  <2>2. colour' \in [Objects -> BLACK_OUT_OF_STACK..WHITE]
    BY <1>1, <1>3, <1>7
  <2> QED
    BY <1>1, <1>2, <1>3, <1>5, <2>1, <2>2 DEF TypeOK
<1>14. /\ PhasesInv' /\ PushInv' /\ LogInv' /\ RootInv'
       /\ \A x \in Objects :
            /\ Holding(x) = {s \in Slots : Counted(s[1]) /\ fields[s[1]][s[2]] = x}
            /\ Holding(x)' = {s \in Slots : Counted(s[1])' /\ fields[s[1]][s[2]] = x}
  BY <1>1, <1>3, <1>12, CollectKeeps DEF Collector
<1>15. CountsAreExact'
  <2>1. ASSUME NEW x \in Objects, rc'[x] # MAX_REF_COUNT
        PROVE  rc'[x] = Cardinality(Holding(x)') + decs'[x] + currRoots'[x] + prevRoots'[x]
    <3> DEFINE A == Holding(x)'
               B == Holding(x)
    <3>1. B = A \cup SlotsOf(curr, x) /\ A \cap SlotsOf(curr, x) = {} /\ A \in SUBSET Slots
      <4>1. \A s \in Slots : s[1] \in Objects
        BY Pairs
      <4>2. /\ B = {s \in Slots : Counted(s[1]) /\ fields[s[1]][s[2]] = x}
            /\ A = {s \in Slots : Counted(s[1])' /\ fields[s[1]][s[2]] = x}
        BY <1>14
      <4> HIDE DEF A, B
      <4>3. \A s \in Slots : Counted(s[1]) <=> Counted(s[1])' \/ s[1] = curr
        BY <1>8, <1>11, <4>1
      <4>4. \A s \in Slots : s[1] = curr => ~Counted(s[1])'
        BY <1>8, <4>1
      <4> QED
        BY <4>2, <4>3, <4>4 DEF SlotsOf
    <3>2. Cardinality(B) = Cardinality(A) + EdgesTo(curr, x)
      <4> HIDE DEF A, B
      <4> QED
        BY <1>4, <3>1, GainSlots
    <3>3. /\ Cardinality(B) \in Nat /\ rc[x] \in Nat /\ decs[x] \in Nat
          /\ currRoots[x] \in Nat /\ prevRoots[x] \in Nat
          /\ rc[x] # MAX_REF_COUNT => rc[x] = Cardinality(B) + decs[x] + currRoots[x] + prevRoots[x]
      BY HeldHasCount DEF LXRInvariant, Exact
    <3>4. Cardinality(A) \in Nat /\ EdgesTo(curr, x) \in Nat
      BY <1>10, <3>1, CountSlots
    <3>5. /\ rc[x] # MAX_REF_COUNT
          /\ EdgesTo(curr, x) <= rc[x] => rc'[x] = rc[x] - EdgesTo(curr, x)
      BY <1>10, <2>1, CountSteps
    <3> DEFINE a == Cardinality(A)
               b == Cardinality(B)
               e == EdgesTo(curr, x)
    <3> HIDE DEF a, b, e
    <3>6. a \in Nat /\ b \in Nat /\ e \in Nat /\ b = a + e
          /\ rc[x] = b + decs[x] + currRoots[x] + prevRoots[x] /\ (e <= rc[x] => rc'[x] = rc[x] - e)
      BY <3>2, <3>3, <3>4, <3>5 DEF a, b, e
    <3>7. rc'[x] = a + decs[x] + currRoots[x] + prevRoots[x]
      BY <3>3, <3>6, SMTT(30)
    <3> QED
      BY <1>2, <3>7 DEF a
  <2> QED
    BY <2>1, ExactNext
<1>16. \A x : Targets(x)' = Targets(x)
  BY <1>2 DEF Targets
<1>17. \A x : x \in Grey' <=> x \in Grey \/ x = curr
  BY <1>4, <1>8 DEF Grey
<1>18. ColourInv'
  <2>1. /\ \A o \in Objects : colour[o] \in {BLACK_OUT_OF_STACK, GREY}
        /\ \A o \in Objects : in_stack(o) => o \in Range(blk)
        /\ \A o \in Objects : ~is_black(o) => \A x \in Targets(o) : Tracked(x)
    BY <1>1 DEF LXRInvariant, ColourInv
  <2>2. \A o \in Objects : colour'[o] \in {BLACK_OUT_OF_STACK, GREY}
    BY <1>8, <2>1
  <2>3. White' = {}
    <3>1. BLACK_OUT_OF_STACK # WHITE
      BY SMTT(30) DEF BLACK_OUT_OF_STACK, WHITE
    <3> QED
      BY <1>7, <2>2, <3>1 DEF White
  <2>4. Range(blk') = {} /\ Range(blk) = {}
    BY <1>1, <1>3, RangeOfOne
  <2>5. ASSUME NEW o \in Objects, ~is_black(o)', NEW x \in Targets(o) PROVE Tracked(x)'
    <3>1. x \in Objects
      BY DEF Targets
    <3>2. CASE o = curr
      <4>1. x \in Range(stk')
        BY <1>5, <2>5, <3>2
      <4> QED
        BY <1>1, <4>1 DEF Tracked, Counted
    <3>3. CASE o # curr
      BY <1>8, <1>12, <2>1, <2>5, <3>1, <3>3
    <3> QED
      BY <3>2, <3>3
  <2>6. \A o \in Objects : ~is_black(o)' => \A x \in Targets(o)' : Tracked(x)'
    BY <1>16, <2>5
  <2> QED
    BY <1>1, <1>8, <2>1, <2>2, <2>3, <2>4, <2>6 DEF ColourInv
<1>19. SearchInv'
  <2>1. Reaches(Visited, Grey, Objects, Grey \cup Range(stk))
    BY <1>1 DEF LXRInvariant, SearchInv
  <2>2. Visited' = Visited
    BY <1>1 DEF Visited
  <2>3. ASSUME NEW U \in SUBSET Objects, Visited \subseteq U, Closed(U, Grey, Objects)'
        PROVE  Grey' \cup Range(stk') \subseteq U
    <3>1. \A o \in U : o \in Grey' => Targets(o) \cap Objects \subseteq U
      BY <1>16, <2>3 DEF Closed
    <3>2. Closed(U, Grey, Objects)
      BY <1>17, <3>1 DEF Closed
    <3>3. Grey \cup Range(stk) \subseteq U
      BY <2>1, <2>3, <3>2 DEF Reaches
    <3>4. curr \in U /\ Targets(curr) \cap Objects = Targets(curr)
      BY <1>4, <3>3 DEF Targets
    <3>5. Targets(curr) \subseteq U
      BY <1>17, <3>1, <3>4
    <3> QED
      BY <1>4, <1>5, <1>17, <3>3, <3>4, <3>5
  <2>4. Reaches(Visited, Grey, Objects, Grey \cup Range(stk))'
    BY <2>2, <2>3 DEF Reaches
  <2> QED
    BY <1>1, <2>4 DEF SearchInv
<1>20. StrongInv'
  <2>1. ~lost => /\ \A x \in Black : strong[x] > 0 => Counted(x)
                 /\ \A x \in Black : rc[x] > 0 /\ strong[x] = 0 => x \in Unvisited \cup Range(stk)
    BY <1>1 DEF LXRInvariant, StrongInv
  <2>2. Unvisited' = Unvisited
    BY <1>1 DEF Unvisited
  <2>3. \A x \in Black' : x \in Black /\ x # curr /\ x \in Objects
    BY <1>8 DEF Black
  <2>4. ~lost => \A x \in Black' : strong[x] > 0 => Counted(x)'
    BY <1>11, <2>1, <2>3
  <2>5. ASSUME ~lost, NEW x \in Black', rc'[x] > 0, strong[x] = 0
        PROVE  x \in Unvisited' \cup Range(stk')
    BY <1>4, <1>5, <1>10, <2>1, <2>2, <2>3, <2>5
  <2> QED
    BY <1>1, <1>2, <2>4, <2>5 DEF StrongInv
<1> QED
  BY <1>13, <1>14, <1>15, <1>18, <1>19, <1>20 DEF LXRInvariant

\* A step of scan or collect_whites that changes neither a count nor what is
\* black keeps all but the colours and the search.
LEMMA SameBlack ==
  ASSUME LXRInvariant, phase \in {"scan", "collect"}, phase' = phase, Collecting, TypeOK',
         rc' = rc, strong' = strong, \A x \in Objects : is_black(x)' <=> is_black(x),
         phase' # "scan" => blk' = <<>>, cursor' \in 1..(Len(cands') + 1)
  PROVE  /\ PhasesInv' /\ PushInv' /\ LogInv' /\ RootInv' /\ CountsAreExact' /\ StrongInv'
         /\ \A x : Targets(x)' = Targets(x)
         /\ phase' # "collect" => \A o \in Objects : ~is_black(o)' => \A x \in Targets(o)' : Tracked(x)'
<1>1. fields' = fields /\ lost' = lost
  BY DEF Collecting, heapVars
<1>2. phase # "mark" /\ phase # "decs" /\ phase \in Collector
  BY DEF Collector
<1>3. \A x \in Objects : (Counted(x)' <=> Counted(x)) /\ (Tracked(x)' <=> Tracked(x))
  BY <1>2 DEF Counted, Tracked
<1>4. \A x : Targets(x)' = Targets(x)
  BY <1>1 DEF Targets
<1>5. PhasesInv' /\ PushInv' /\ LogInv' /\ RootInv' /\ CountsAreExact'
  BY <1>2, <1>3, SameCounted
<1>6. StrongInv'
  <2>1. Black' = Black /\ Black \subseteq Objects
    BY DEF Black
  <2> QED
    BY <1>1, <1>2, <1>3, <2>1 DEF LXRInvariant, StrongInv
<1>7. phase' # "collect" => \A o \in Objects : ~is_black(o)' => \A x \in Targets(o)' : Tracked(x)'
  <2>1. phase # "collect" => \A o \in Objects : ~is_black(o) => \A x \in Targets(o) : Tracked(x)
    BY DEF LXRInvariant, ColourInv
  <2>2. \A o : Targets(o) \subseteq Objects
    BY DEF Targets
  <2> QED
    BY <1>3, <1>4, <2>1, <2>2
<1> QED
  BY <1>4, <1>5, <1>6, <1>7

\* The next candidate is pushed for scan or collect_whites.
LEMMA NextCandidateStep ==
  ASSUME LXRInvariant, NextCandidate
  PROVE  LXRInvariant'
<1>1. /\ phase \in {"scan", "collect"} /\ phase' = phase /\ stk = <<>> /\ blk = <<>>
      /\ cursor <= Len(cands) /\ stk' = <<cands[cursor]>> /\ cursor' = cursor + 1 /\ Collecting
      /\ rc' = rc /\ strong' = strong /\ colour' = colour /\ blk' = blk /\ cands' = cands
  BY DEF NextCandidate
<1>2. /\ fields' = fields /\ roots' = roots /\ young' = young /\ unlogged' = unlogged /\ ops' = ops
      /\ incs' = incs /\ decs' = decs /\ currRoots' = currRoots /\ prevRoots' = prevRoots
      /\ buffer' = buffer /\ pushing' = pushing /\ lost' = lost /\ pauses' = pauses
  BY <1>1 DEF Collecting, heapVars, bufVars
<1>3. cands \in Seq(Objects) /\ cursor \in 1..(Len(cands) + 1) /\ cursor \in Nat
  BY <1>1 DEF LXRInvariant, TypeOK, PhasesInv, Collector
<1>4. PICK c \in Objects : c = cands[cursor] /\ c \in Range(cands)
  BY <1>1, <1>3, CursorSets
<1>5. cursor' \in 1..(Len(cands') + 1) /\ Unvisited = Unvisited' \cup {c}
  BY <1>1, <1>3, <1>4, CursorMoves
<1>6. stk' = <<c>> /\ Range(stk') = {c} /\ stk' \in Seq(Objects) /\ Range(stk) = {} /\ Range(blk) = {}
  BY <1>1, <1>4, RangeOfOne
<1>7. TypeOK'
  <2>1. cursor' \in Nat
    BY <1>1, <1>3, SMTT(30)
  <2> QED
    BY <1>1, <1>2, <1>6, <2>1 DEF LXRInvariant, TypeOK
<1>8. \A x \in Objects : (is_black(x)' <=> is_black(x)) /\ (in_stack(x)' <=> in_stack(x))
  BY <1>1 DEF is_black, in_stack
<1>9. /\ PhasesInv' /\ PushInv' /\ LogInv' /\ RootInv' /\ CountsAreExact' /\ StrongInv'
      /\ \A x : Targets(x)' = Targets(x)
      /\ phase' # "collect" => \A o \in Objects : ~is_black(o)' => \A x \in Targets(o)' : Tracked(x)'
  BY <1>1, <1>5, <1>7, <1>8, SameBlack
<1>10. Grey' = Grey /\ White' = White
  BY <1>1 DEF Grey, White
<1>11. ColourInv'
  BY <1>1, <1>8, <1>9, <1>10 DEF LXRInvariant, ColourInv
<1>12. SearchInv'
  <2>1. CASE phase = "scan"
    <3>1. /\ Reaches(Range(stk) \cup Range(blk) \cup Unvisited, Grey, Grey, Grey)
          /\ Reaches(Range(cands) \cup Range(blk), White, Grey \cup White,
                     White \cup (Range(stk) \cap Grey))
      BY <2>1 DEF LXRInvariant, SearchInv
    <3>2. ASSUME NEW U \in SUBSET Objects, (Range(stk) \cup Range(blk) \cup Unvisited)' \subseteq U,
                 \A o \in U : o \in Grey => Targets(o) \cap Grey \subseteq U
          PROVE  Grey \subseteq U
      <4>1. Range(stk) \cup Range(blk) \cup Unvisited \subseteq U
        BY <1>1, <1>5, <1>6, <3>2
      <4> QED
        BY <3>1, <3>2, <4>1 DEF Reaches, Closed
    <3>3. Reaches(Range(stk) \cup Range(blk) \cup Unvisited, Grey, Grey, Grey)'
      BY <1>9, <1>10, <3>2 DEF Reaches, Closed
    <3>4. ASSUME NEW U \in SUBSET Objects, (Range(cands) \cup Range(blk))' \subseteq U,
                 \A o \in U : o \in White => Targets(o) \cap (Grey \cup White) \subseteq U
          PROVE  White \cup (Range(stk') \cap Grey) \subseteq U
      <4>1. Range(cands) \cup Range(blk) \subseteq U
        BY <1>1, <3>4
      <4>2. White \subseteq U
        BY <3>1, <3>4, <4>1 DEF Reaches, Closed
      <4> QED
        BY <1>4, <1>6, <4>1, <4>2
    <3>5. Reaches(Range(cands) \cup Range(blk), White, Grey \cup White,
                  White \cup (Range(stk) \cap Grey))'
      BY <1>9, <1>10, <3>4 DEF Reaches, Closed
    <3> QED
      BY <1>1, <2>1, <3>3, <3>5 DEF SearchInv
  <2>2. CASE phase = "collect"
    <3>1. Reaches(Range(stk) \cup Unvisited, White, White, White)
      BY <2>2 DEF LXRInvariant, SearchInv
    <3>2. Range(stk') \cup Unvisited' = Range(stk) \cup Unvisited
      BY <1>5, <1>6
    <3>3. Reaches(Range(stk) \cup Unvisited, White, White, White)'
      BY <1>9, <1>10, <3>1, <3>2 DEF Reaches, Closed
    <3> QED
      BY <1>1, <2>2, <3>3 DEF SearchInv
  <2> QED
    BY <1>1, <2>1, <2>2
<1> QED
  BY <1>7, <1>9, <1>11, <1>12 DEF LXRInvariant

\* scan pops an object: a grey one with a count left is given to scan_black, a
\* grey one without becomes white and pushes its children.
LEMMA ScanStep ==
  ASSUME LXRInvariant, scan
  PROVE  LXRInvariant'
<1> DEFINE rest == Pop(stk)
<1>0. PICK curr \in Objects : curr = Top(stk)
  <2>1. stk # <<>> /\ stk \in Seq(Objects)
    BY DEF scan, LXRInvariant, TypeOK
  <2> QED
    BY <2>1, PopStack
<1> DEFINE grey == colour[curr] = GREY
<1>1. /\ phase = "scan" /\ phase' = phase /\ stk # <<>> /\ blk = <<>> /\ Collecting
      /\ blk' = (IF grey /\ rc[curr] > 0 THEN <<curr>> ELSE <<>>)
      /\ grey /\ rc[curr] = 0 => /\ colour' = [colour EXCEPT ![curr] = WHITE]
                                 /\ stk' = rest \o Children(curr)
      /\ ~(grey /\ rc[curr] = 0) => stk' = rest /\ colour' = colour
      /\ rc' = rc /\ strong' = strong /\ cands' = cands /\ cursor' = cursor
  BY <1>0 DEF scan
<1>2. /\ fields' = fields /\ roots' = roots /\ young' = young /\ unlogged' = unlogged /\ ops' = ops
      /\ incs' = incs /\ decs' = decs /\ currRoots' = currRoots /\ prevRoots' = prevRoots
      /\ buffer' = buffer /\ pushing' = pushing /\ lost' = lost /\ pauses' = pauses
  BY <1>1 DEF Collecting, heapVars, bufVars
<1>3. /\ TypeOK /\ stk \in Seq(Objects) /\ cursor \in 1..(Len(cands) + 1)
      /\ fields \in [Objects -> [Fields -> Objects \cup {Null}]]
      /\ rc \in [Objects -> 0..MAX_REF_COUNT] /\ colour \in [Objects -> BLACK_OUT_OF_STACK..WHITE]
  BY <1>1 DEF LXRInvariant, TypeOK, PhasesInv, Collector
<1>4. rest \in Seq(Objects) /\ Range(stk) = Range(rest) \cup {curr}
  BY <1>0, <1>1, <1>3, PopStack
<1>5. /\ stk' \in Seq(Objects)
      /\ Range(stk') = Range(rest) \cup (IF grey /\ rc[curr] = 0 THEN Targets(curr) ELSE {})
  <2>1. Children(curr) \in Seq(Objects) /\ Range(Children(curr)) = Targets(curr)
    BY <1>3, RangeOfChildren
  <2> DEFINE kids == Children(curr)
  <2>2. kids \in Seq(Objects) /\ Range(kids) = Targets(curr)
        /\ (grey /\ rc[curr] = 0 => stk' = rest \o kids) /\ (~(grey /\ rc[curr] = 0) => stk' = rest)
    BY <1>1, <2>1
  <2> HIDE DEF rest, kids, grey
  <2>3. rest \o kids \in Seq(Objects) /\ Range(rest \o kids) = Range(rest) \cup Range(kids)
    <3>1. rest \in Seq(Objects) /\ kids \in Seq(Objects)
      BY <1>4, <2>2
    <3> QED
      BY <3>1, RangeOfConcat
  <2> QED
    BY <1>4, <2>2, <2>3
<1> HIDE DEF rest
<1>6. /\ ~(GREY <= BLACK_IN_STACK) /\ ~(WHITE <= BLACK_IN_STACK) /\ GREY # WHITE
      /\ WHITE \in BLACK_OUT_OF_STACK..WHITE /\ GREY # BLACK_IN_STACK /\ WHITE # BLACK_IN_STACK
  BY SMTT(30) DEF GREY, BLACK_IN_STACK, BLACK_OUT_OF_STACK, WHITE
<1>7. \A x \in Objects : colour'[x] = IF x = curr /\ grey /\ rc[curr] = 0 THEN WHITE ELSE colour[x]
  BY <1>1, <1>3
<1>8. /\ \A x \in Objects : (is_black(x)' <=> is_black(x)) /\ (in_stack(x)' <=> in_stack(x))
      /\ \A x : x \in Grey' <=> x \in Grey /\ ~(x = curr /\ rc[curr] = 0)
      /\ \A x : x \in White' <=> x \in White \/ (x = curr /\ grey /\ rc[curr] = 0)
      /\ grey <=> curr \in Grey
  <2>1. \A x \in Objects : (is_black(x)' <=> is_black(x)) /\ (in_stack(x)' <=> in_stack(x))
    BY <1>6, <1>7 DEF is_black, in_stack
  <2>2. \A x : x \in Grey' <=> x \in Grey /\ ~(x = curr /\ rc[curr] = 0)
    BY <1>6, <1>7 DEF Grey
  <2>3. \A x : x \in White' <=> x \in White \/ (x = curr /\ grey /\ rc[curr] = 0)
    BY <1>6, <1>7 DEF White
  <2> QED
    BY <2>1, <2>2, <2>3 DEF Grey
<1> HIDE DEF grey
<1>9. /\ blk' \in Seq(Objects) /\ Range(blk) = {}
      /\ Range(blk') = IF grey /\ rc[curr] > 0 THEN {curr} ELSE {}
  BY <1>1, RangeOfOne
<1>10. TypeOK'
  <2>1. colour' \in [Objects -> BLACK_OUT_OF_STACK..WHITE]
    BY <1>1, <1>3, <1>6
  <2> QED
    BY <1>1, <1>2, <1>3, <1>5, <1>9, <2>1 DEF TypeOK
<1>11. /\ PhasesInv' /\ PushInv' /\ LogInv' /\ RootInv' /\ CountsAreExact' /\ StrongInv'
       /\ \A x : Targets(x)' = Targets(x)
       /\ phase' # "collect" => \A o \in Objects : ~is_black(o)' => \A x \in Targets(o)' : Tracked(x)'
  <2>1. phase' # "scan" => blk' = <<>>
    BY <1>1
  <2>2. cursor' \in 1..(Len(cands') + 1)
    BY <1>1, <1>3
  <2>3. \A x \in Objects : is_black(x)' <=> is_black(x)
    BY <1>8
  <2> QED
    BY <1>1, <1>10, <2>1, <2>2, <2>3, SameBlack
<1>12. ColourInv'
  <2>1. /\ \A o \in Objects : in_stack(o) => o \in Range(blk)
        /\ \A o \in White : rc[o] = 0 \/ o \in Range(blk)
    BY DEF LXRInvariant, ColourInv
  <2>2. \A o \in Range(blk') : rc[o] > 0
    BY <1>9
  <2>3. \A o \in White' : rc[o] = 0 \/ o \in Range(blk')
    BY <1>8, <1>9, <2>1
  <2>4. \A o \in Objects : in_stack(o)' => o \in Range(blk')
    BY <1>8, <1>9, <2>1
  <2> QED
    BY <1>1, <1>11, <2>2, <2>3, <2>4 DEF ColourInv
<1>13. /\ Reaches(Range(stk) \cup Range(blk) \cup Unvisited, Grey, Grey, Grey)
       /\ Reaches(Range(cands) \cup Range(blk), White, Grey \cup White,
                  White \cup (Range(stk) \cap Grey))
  BY <1>1 DEF LXRInvariant, SearchInv
<1>14. Unvisited' = Unvisited /\ rc[curr] \in Nat
  BY <1>1, <1>3, HeldHasCount DEF Unvisited, LXRInvariant
<1>15. rc[curr] > 0 \/ rc[curr] = 0
  BY <1>14, SMTT(30)
<1>16. Reaches(Range(stk) \cup Range(blk) \cup Unvisited, Grey, Grey, Grey)'
  <2>1. ASSUME NEW U \in SUBSET Objects, (Range(stk) \cup Range(blk) \cup Unvisited)' \subseteq U,
               \A o \in U : o \in Grey' => Targets(o) \cap Grey' \subseteq U
        PROVE  Grey' \subseteq U
    <3> DEFINE V == U \cup {curr}
    <3>1. V \in SUBSET Objects /\ Range(stk) \cup Range(blk) \cup Unvisited \subseteq V
      BY <1>4, <1>5, <1>9, <1>14, <2>1
    <3>2. ASSUME NEW o \in V, o \in Grey PROVE Targets(o) \cap Grey \subseteq V
      <4>1. CASE o = curr /\ rc[curr] = 0
        BY <1>5, <1>8, <2>1, <3>2, <4>1
      <4>2. CASE ~(o = curr /\ rc[curr] = 0)
        <5>1. o \in Grey'
          BY <1>8, <3>2, <4>2
        <5>2. o \in U
          BY <1>8, <1>9, <1>15, <2>1, <3>2, <4>2
        <5>3. Targets(o) \cap Grey' \subseteq U
          BY <2>1, <5>1, <5>2
        <5> QED
          BY <1>8, <5>3
      <4> QED
        BY <4>1, <4>2
    <3>3. Grey \subseteq V
      <4> HIDE DEF V
      <4> QED
        BY <1>13, <3>1, <3>2 DEF Reaches, Closed
    <3>4. curr \in Grey' => curr \in U
      BY <1>8, <1>9, <1>15, <2>1
    <3> QED
      BY <1>8, <3>3, <3>4
  <2> QED
    BY <1>11, <2>1 DEF Reaches, Closed
<1>17. Reaches(Range(cands) \cup Range(blk), White, Grey \cup White,
               White \cup (Range(stk) \cap Grey))'
  <2>1. ASSUME NEW U \in SUBSET Objects, (Range(cands) \cup Range(blk))' \subseteq U,
               \A o \in U : o \in White' => Targets(o) \cap (Grey \cup White)' \subseteq U
        PROVE  (White \cup (Range(stk) \cap Grey))' \subseteq U
    <3>1. \A x : x \in (Grey \cup White)' <=> x \in Grey \cup White
      <4> SUFFICES ASSUME NEW x
                   PROVE  x \in Grey' \/ x \in White' <=> x \in Grey \/ x \in White
        OBVIOUS
      <4>1. CASE x = curr /\ rc[curr] = 0
        BY <1>8, <4>1
      <4>2. CASE ~(x = curr /\ rc[curr] = 0)
        BY <1>8, <4>2
      <4> QED
        BY <4>1, <4>2
    <3>2. Range(cands) \cup Range(blk) \subseteq U
      BY <1>1, <1>9, <2>1
    <3>3. \A o \in U : o \in White' => Targets(o) \cap (Grey \cup White) \subseteq U
      BY <2>1, <3>1
    <3>4. \A o \in U : o \in White => Targets(o) \cap (Grey \cup White) \subseteq U
      BY <1>8, <3>3
    <3>5. White \cup (Range(stk) \cap Grey) \subseteq U
      BY <1>13, <3>2, <3>4 DEF Reaches, Closed
    <3>6. grey => curr \in U
      BY <1>4, <1>8, <3>5
    <3>7. White' \subseteq U
      <4>1. \A x \in White' : x \in White \/ (x = curr /\ grey)
        BY <1>8
      <4> QED
        BY <3>5, <3>6, <4>1
    <3>8. Range(stk') \cap Grey' \subseteq U
      <4>1. grey /\ rc[curr] = 0 => Targets(curr) \cap (Grey \cup White) \subseteq U
        BY <1>8, <3>3, <3>6
      <4> QED
        BY <1>4, <1>5, <1>8, <3>5, <4>1
    <3> QED
      BY <3>7, <3>8
  <2> QED
    BY <1>11, <2>1 DEF Reaches, Closed
<1>18. SearchInv'
  BY <1>1, <1>16, <1>17 DEF SearchInv
<1> QED
  BY <1>10, <1>11, <1>12, <1>18 DEF LXRInvariant

\* collect_whites frees a white object, which has no count, and pushes its
\* children.
LEMMA CollectStep ==
  ASSUME LXRInvariant, collect_whites
  PROVE  LXRInvariant'
<1> DEFINE rest == Pop(stk)
<1>0. PICK curr \in Objects : curr = Top(stk)
  <2>1. stk # <<>> /\ stk \in Seq(Objects)
    BY DEF collect_whites, LXRInvariant, TypeOK
  <2> QED
    BY <2>1, PopStack
<1> DEFINE white == colour[curr] = WHITE
<1>1. /\ phase = "collect" /\ phase' = phase /\ stk # <<>> /\ Collecting
      /\ white => /\ colour' = [colour EXCEPT ![curr] = BLACK_OUT_OF_STACK]
                  /\ strong' = [strong EXCEPT ![curr] = 0]
                  /\ stk' = rest \o Children(curr)
      /\ ~white => stk' = rest /\ colour' = colour /\ strong' = strong
      /\ rc' = rc /\ cands' = cands /\ cursor' = cursor /\ blk' = blk
  BY <1>0 DEF collect_whites
<1>2. /\ fields' = fields /\ roots' = roots /\ young' = young /\ unlogged' = unlogged /\ ops' = ops
      /\ incs' = incs /\ decs' = decs /\ currRoots' = currRoots /\ prevRoots' = prevRoots
      /\ buffer' = buffer /\ pushing' = pushing /\ lost' = lost /\ pauses' = pauses
  BY <1>1 DEF Collecting, heapVars, bufVars
<1>3. /\ TypeOK /\ stk \in Seq(Objects) /\ cursor \in 1..(Len(cands) + 1) /\ blk = <<>>
      /\ fields \in [Objects -> [Fields -> Objects \cup {Null}]]
      /\ strong \in [Objects -> 0..MAX_STRONG_REF_COUNT]
      /\ colour \in [Objects -> BLACK_OUT_OF_STACK..WHITE]
  BY <1>1 DEF LXRInvariant, TypeOK, PhasesInv, Collector
<1>4. rest \in Seq(Objects) /\ Range(stk) = Range(rest) \cup {curr}
  BY <1>0, <1>1, <1>3, PopStack
<1>5. /\ stk' \in Seq(Objects)
      /\ Range(stk') = Range(rest) \cup (IF white THEN Targets(curr) ELSE {})
  <2>1. Children(curr) \in Seq(Objects) /\ Range(Children(curr)) = Targets(curr)
    BY <1>3, RangeOfChildren
  <2> DEFINE kids == Children(curr)
  <2>2. kids \in Seq(Objects) /\ Range(kids) = Targets(curr)
        /\ (white => stk' = rest \o kids) /\ (~white => stk' = rest)
    BY <1>1, <2>1
  <2> HIDE DEF rest, kids, white
  <2>3. rest \o kids \in Seq(Objects) /\ Range(rest \o kids) = Range(rest) \cup Range(kids)
    <3>1. rest \in Seq(Objects) /\ kids \in Seq(Objects)
      BY <1>4, <2>2
    <3> QED
      BY <3>1, RangeOfConcat
  <2> QED
    BY <1>4, <2>2, <2>3
<1> HIDE DEF rest
<1>6. /\ BLACK_OUT_OF_STACK <= BLACK_IN_STACK /\ ~(WHITE <= BLACK_IN_STACK)
      /\ BLACK_OUT_OF_STACK # WHITE /\ BLACK_OUT_OF_STACK # GREY
      /\ BLACK_OUT_OF_STACK # BLACK_IN_STACK
      /\ BLACK_OUT_OF_STACK \in BLACK_OUT_OF_STACK..WHITE
      /\ ~(0 > 0) /\ 0 \in 0..MAX_STRONG_REF_COUNT
  BY CountAssumption, SMTT(30) DEF GREY, BLACK_IN_STACK, BLACK_OUT_OF_STACK, WHITE
<1>7. /\ \A x \in Objects : colour'[x] = IF x = curr /\ white THEN BLACK_OUT_OF_STACK ELSE colour[x]
      /\ \A x \in Objects : strong'[x] = IF x = curr /\ white THEN 0 ELSE strong[x]
  BY <1>1, <1>3
<1>8. /\ Grey = {} /\ \A o \in White : rc[o] = 0
      /\ \A o \in Objects : ~in_stack(o)
  <2>1. Range(blk) = {}
    BY <1>3, RangeOfOne
  <2> QED
    BY <1>1, <2>1 DEF LXRInvariant, ColourInv
<1>9. /\ \A x \in Objects : is_black(x)' <=> is_black(x) \/ (x = curr /\ white)
      /\ \A x \in Objects : ~in_stack(x)'
      /\ Grey' = {}
      /\ \A x : x \in White' <=> x \in White /\ x # curr
      /\ white <=> curr \in White
      /\ white => rc[curr] = 0 /\ ~is_black(curr)
  <2>1. \A x \in Objects : is_black(x)' <=> is_black(x) \/ (x = curr /\ white)
    BY <1>6, <1>7 DEF is_black
  <2>2. \A x \in Objects : ~in_stack(x)'
    BY <1>6, <1>7, <1>8 DEF in_stack
  <2>3. Grey' = {}
    BY <1>6, <1>7, <1>8 DEF Grey
  <2>4. \A x : x \in White' <=> x \in White /\ x # curr
    BY <1>6, <1>7 DEF White
  <2>5. white => rc[curr] = 0 /\ ~is_black(curr)
    BY <1>6, <1>8 DEF White, is_black
  <2> QED
    BY <2>1, <2>2, <2>3, <2>4, <2>5 DEF White
<1> HIDE DEF white
<1>10. TypeOK'
  <2>1. colour' \in [Objects -> BLACK_OUT_OF_STACK..WHITE]
    BY <1>1, <1>3, <1>6
  <2>2. strong' \in [Objects -> 0..MAX_STRONG_REF_COUNT]
    BY <1>1, <1>3, <1>6
  <2> QED
    BY <1>1, <1>2, <1>3, <1>5, <2>1, <2>2 DEF TypeOK
<1>11. \A x \in Objects : (Counted(x)' <=> Counted(x)) /\ (Tracked(x)' => Tracked(x))
  <2> TAKE x \in Objects
  <2>1. CASE x = curr /\ white
    BY <1>1, <1>6, <1>9, <2>1 DEF Counted, Tracked
  <2>2. CASE ~(x = curr /\ white)
    <3>1. is_black(x)' <=> is_black(x)
      BY <1>9, <2>2
    <3> QED
      BY <1>1, <3>1 DEF Counted, Tracked
  <2> QED
    BY <2>1, <2>2
<1>12. PhasesInv' /\ PushInv' /\ LogInv' /\ RootInv' /\ CountsAreExact'
  <2>1. phase' # "scan" => blk' = <<>>
    BY <1>1, <1>3
  <2>2. cursor' \in 1..(Len(cands') + 1)
    BY <1>1, <1>3
  <2> QED
    BY <1>1, <1>10, <1>11, <2>1, <2>2, SameCounted DEF Collector
<1>13. ColourInv'
  <2>1. Range(blk') = {}
    BY <1>1, <1>3, RangeOfOne
  <2> QED
    BY <1>1, <1>8, <1>9, <2>1 DEF ColourInv
<1>14. SearchInv'
  <2>1. Reaches(Range(stk) \cup Unvisited, White, White, White)
    BY <1>1 DEF LXRInvariant, SearchInv
  <2>2. Unvisited' = Unvisited /\ \A x : Targets(x)' = Targets(x)
    BY <1>1, <1>2 DEF Unvisited, Targets
  <2>3. ASSUME NEW U \in SUBSET Objects, (Range(stk) \cup Unvisited)' \subseteq U,
               \A o \in U : o \in White' => Targets(o) \cap White' \subseteq U
        PROVE  White' \subseteq U
    <3> DEFINE V == U \cup {curr}
    <3>1. V \in SUBSET Objects /\ Range(stk) \cup Unvisited \subseteq V
      BY <1>4, <1>5, <2>2, <2>3
    <3>2. ASSUME NEW o \in V, o \in White PROVE Targets(o) \cap White \subseteq V
      <4>1. CASE o = curr
        BY <1>5, <1>9, <2>3, <3>2, <4>1
      <4>2. CASE o # curr
        <5>1. Targets(o) \cap White' \subseteq U
          BY <1>9, <2>3, <3>2, <4>2
        <5> QED
          BY <1>9, <5>1
      <4> QED
        BY <4>1, <4>2
    <3>3. White \subseteq V
      <4> HIDE DEF V
      <4> QED
        BY <2>1, <3>1, <3>2 DEF Reaches, Closed
    <3> QED
      BY <1>9, <3>3
  <2>4. Reaches(Range(stk) \cup Unvisited, White, White, White)'
    BY <2>2, <2>3 DEF Reaches, Closed
  <2> QED
    BY <1>1, <2>4 DEF SearchInv
<1>15. StrongInv'
  <2>1. ~lost => \A x \in Black : (rc[x] > 0) <=> (strong[x] > 0)
    BY <1>1 DEF LXRInvariant, StrongInv
  <2>2. ASSUME ~lost, NEW x \in Black' PROVE (rc[x] > 0) <=> (strong'[x] > 0)
    <3>1. x \in Objects /\ (x \in Black \/ (x = curr /\ white))
      BY <1>9, <2>2 DEF Black
    <3>2. CASE x = curr /\ white
      BY <1>6, <1>7, <1>9, <3>2
    <3>3. CASE ~(x = curr /\ white)
      BY <1>7, <2>1, <2>2, <3>1, <3>3
    <3> QED
      BY <3>2, <3>3
  <2>3. \A x \in Black' : x \in Objects /\ is_black(x)'
    BY DEF Black
  <2>4. ~lost => \A x \in Black' : strong'[x] > 0 => Counted(x)'
    BY <1>1, <2>2, <2>3 DEF Counted
  <2> QED
    BY <1>1, <1>2, <2>2, <2>4 DEF StrongInv
<1> QED
  BY <1>10, <1>12, <1>13, <1>14, <1>15 DEF LXRInvariant

\* scan_black pops an object it has blackened.
LEMMA BlackPopStep ==
  ASSUME LXRInvariant, scan_black, is_black(Top(blk))
  PROVE  LXRInvariant'
<1> DEFINE rest == Pop(blk)
<1>0. PICK curr \in Objects : curr = Top(blk)
  <2>1. blk # <<>> /\ blk \in Seq(Objects)
    BY DEF scan_black, LXRInvariant, TypeOK
  <2> QED
    BY <2>1, PopStack
<1>1. /\ phase = "scan" /\ phase' = phase /\ blk # <<>> /\ Collecting /\ is_black(curr)
      /\ colour' = [colour EXCEPT ![curr] = BLACK_OUT_OF_STACK] /\ blk' = rest
      /\ rc' = rc /\ strong' = strong /\ cands' = cands /\ cursor' = cursor /\ stk' = stk
  BY <1>0 DEF scan_black
<1>2. /\ fields' = fields /\ roots' = roots /\ young' = young /\ unlogged' = unlogged /\ ops' = ops
      /\ incs' = incs /\ decs' = decs /\ currRoots' = currRoots /\ prevRoots' = prevRoots
      /\ buffer' = buffer /\ pushing' = pushing /\ lost' = lost /\ pauses' = pauses
  BY <1>1 DEF Collecting, heapVars, bufVars
<1>3. /\ TypeOK /\ blk \in Seq(Objects) /\ cursor \in 1..(Len(cands) + 1)
      /\ colour \in [Objects -> BLACK_OUT_OF_STACK..WHITE]
  BY <1>1 DEF LXRInvariant, TypeOK, PhasesInv, Collector
<1>4. blk' \in Seq(Objects) /\ Range(blk) = Range(blk') \cup {curr}
  BY <1>0, <1>1, <1>3, PopStack
<1> HIDE DEF rest
<1>5. /\ BLACK_OUT_OF_STACK <= BLACK_IN_STACK /\ ~(WHITE <= BLACK_IN_STACK) /\ ~(GREY <= BLACK_IN_STACK)
      /\ BLACK_OUT_OF_STACK # BLACK_IN_STACK /\ BLACK_OUT_OF_STACK \in BLACK_OUT_OF_STACK..WHITE
      /\ BLACK_OUT_OF_STACK # GREY /\ BLACK_OUT_OF_STACK # WHITE
  BY SMTT(30) DEF GREY, BLACK_IN_STACK, BLACK_OUT_OF_STACK, WHITE
<1>6. \A x \in Objects : colour'[x] = IF x = curr THEN BLACK_OUT_OF_STACK ELSE colour[x]
  BY <1>1, <1>3
<1>7. /\ \A x \in Objects : is_black(x)' <=> is_black(x)
      /\ \A x \in Objects : in_stack(x)' => in_stack(x) /\ x # curr
      /\ Grey' = Grey /\ White' = White /\ curr \notin Grey /\ curr \notin White
  <2>1. \A x \in Objects : is_black(x)' <=> is_black(x)
    BY <1>1, <1>5, <1>6 DEF is_black
  <2>2. \A x \in Objects : in_stack(x)' => in_stack(x) /\ x # curr
    BY <1>5, <1>6 DEF in_stack
  <2>3. curr \notin Grey /\ curr \notin White
    BY <1>1, <1>5 DEF Grey, White, is_black
  <2>4. Grey' = Grey /\ White' = White
    BY <1>5, <1>6, <2>3 DEF Grey, White
  <2> QED
    BY <2>1, <2>2, <2>3, <2>4
<1>8. TypeOK'
  <2>1. colour' \in [Objects -> BLACK_OUT_OF_STACK..WHITE]
    BY <1>1, <1>3, <1>5
  <2> QED
    BY <1>1, <1>2, <1>3, <1>4, <2>1 DEF TypeOK
<1>9. /\ PhasesInv' /\ PushInv' /\ LogInv' /\ RootInv' /\ CountsAreExact' /\ StrongInv'
      /\ \A x : Targets(x)' = Targets(x)
      /\ phase' # "collect" => \A o \in Objects : ~is_black(o)' => \A x \in Targets(o)' : Tracked(x)'
  <2>1. phase' # "scan" => blk' = <<>>
    BY <1>1
  <2>2. cursor' \in 1..(Len(cands') + 1)
    BY <1>1, <1>3
  <2> QED
    BY <1>1, <1>7, <1>8, <2>1, <2>2, SameBlack
<1>10. ColourInv'
  <2>1. /\ \A o \in Objects : in_stack(o) => o \in Range(blk)
        /\ \A o \in Range(blk) : rc[o] > 0
        /\ \A o \in White : rc[o] = 0 \/ o \in Range(blk)
    BY DEF LXRInvariant, ColourInv
  <2>2. /\ \A o \in Objects : in_stack(o)' => o \in Range(blk')
        /\ \A o \in Range(blk') : rc[o] > 0
        /\ \A o \in White : rc[o] = 0 \/ o \in Range(blk')
    BY <1>4, <1>7, <2>1
  <2> QED
    BY <1>1, <1>7, <1>9, <2>2 DEF ColourInv
<1>11. SearchInv'
  <2>1. /\ Reaches(Range(stk) \cup Range(blk) \cup Unvisited, Grey, Grey, Grey)
        /\ Reaches(Range(cands) \cup Range(blk), White, Grey \cup White,
                   White \cup (Range(stk) \cap Grey))
    BY <1>1 DEF LXRInvariant, SearchInv
  <2>2. Unvisited' = Unvisited
    BY <1>1 DEF Unvisited
  <2>3. ASSUME NEW U \in SUBSET Objects, (Range(stk) \cup Range(blk) \cup Unvisited)' \subseteq U,
               \A o \in U : o \in Grey => Targets(o) \cap Grey \subseteq U
        PROVE  Grey \subseteq U
    <3> DEFINE V == U \cup {curr}
    <3>1. V \in SUBSET Objects /\ Range(stk) \cup Range(blk) \cup Unvisited \subseteq V
      BY <1>1, <1>4, <2>2, <2>3
    <3>2. \A o \in V : o \in Grey => Targets(o) \cap Grey \subseteq V
      BY <1>7, <2>3
    <3> HIDE DEF V
    <3>3. Grey \subseteq V
      BY <2>1, <3>1, <3>2 DEF Reaches, Closed
    <3> QED
      BY <1>7, <3>3 DEF V
  <2>4. Reaches(Range(stk) \cup Range(blk) \cup Unvisited, Grey, Grey, Grey)'
    BY <1>7, <1>9, <2>3 DEF Reaches, Closed
  <2>5. ASSUME NEW U \in SUBSET Objects, (Range(cands) \cup Range(blk))' \subseteq U,
               \A o \in U : o \in White => Targets(o) \cap (Grey \cup White) \subseteq U
        PROVE  White \cup (Range(stk') \cap Grey) \subseteq U
    <3> DEFINE V == U \cup {curr}
    <3>1. V \in SUBSET Objects /\ Range(cands) \cup Range(blk) \subseteq V
      BY <1>1, <1>4, <2>5
    <3>2. \A o \in V : o \in White => Targets(o) \cap (Grey \cup White) \subseteq V
      BY <1>7, <2>5
    <3> HIDE DEF V
    <3>3. White \cup (Range(stk) \cap Grey) \subseteq V
      BY <2>1, <3>1, <3>2 DEF Reaches, Closed
    <3> QED
      BY <1>1, <1>7, <3>3 DEF V
  <2>6. Reaches(Range(cands) \cup Range(blk), White, Grey \cup White,
                White \cup (Range(stk) \cap Grey))'
    BY <1>7, <1>9, <2>5 DEF Reaches, Closed
  <2> QED
    BY <1>1, <2>4, <2>6 DEF SearchInv
<1> QED
  BY <1>8, <1>9, <1>10, <1>11 DEF LXRInvariant

\* scan_black blackens an object with a count and gives back the counts of its
\* slots: they count again.
LEMMA BlackenStep ==
  ASSUME LXRInvariant, scan_black, ~is_black(Top(blk))
  PROVE  LXRInvariant'
<1>0. PICK curr \in Objects : curr = Top(blk) /\ curr \in Range(blk)
  <2>1. blk # <<>> /\ blk \in Seq(Objects)
    BY DEF scan_black, LXRInvariant, TypeOK
  <2> QED
    BY <2>1, PopStack
<1> DEFINE forward == {x \in Objects : ~in_stack(x) /\ x # curr}
           base == [strong EXCEPT ![curr] = Lesser(rc[curr], MAX_STRONG_REF_COUNT)]
<1>1. /\ phase = "scan" /\ phase' = phase /\ blk # <<>> /\ Collecting /\ ~is_black(curr)
      /\ colour' = [colour EXCEPT ![curr] = BLACK_IN_STACK]
      /\ blk' = blk \o Filter(Children(curr), forward)
      /\ rc' = [x \in Objects |-> incBy(rc[x], EdgesTo(curr, x))]
      /\ strong' = [x \in Objects |->
                      IF x \in forward
                      THEN Lesser(base[x] + EdgesTo(curr, x), MAX_STRONG_REF_COUNT)
                      ELSE base[x]]
      /\ cands' = cands /\ cursor' = cursor /\ stk' = stk
  BY <1>0 DEF scan_black
<1>2. /\ fields' = fields /\ roots' = roots /\ young' = young /\ unlogged' = unlogged /\ ops' = ops
      /\ incs' = incs /\ decs' = decs /\ currRoots' = currRoots /\ prevRoots' = prevRoots
      /\ buffer' = buffer /\ pushing' = pushing /\ lost' = lost /\ pauses' = pauses
  BY <1>1 DEF Collecting, heapVars, bufVars
<1>3. /\ TypeOK /\ blk \in Seq(Objects) /\ cursor \in 1..(Len(cands) + 1)
      /\ fields \in [Objects -> [Fields -> Objects \cup {Null}]]
      /\ rc \in [Objects -> 0..MAX_REF_COUNT] /\ strong \in [Objects -> 0..MAX_STRONG_REF_COUNT]
      /\ colour \in [Objects -> BLACK_OUT_OF_STACK..WHITE]
  BY <1>1 DEF LXRInvariant, TypeOK, PhasesInv, Collector
<1>4. blk' \in Seq(Objects) /\ Range(blk') = Range(blk) \cup (Targets(curr) \cap forward)
  <2> DEFINE kids == Filter(Children(curr), forward)
  <2>1. kids \in Seq(Objects) /\ Range(kids) = Targets(curr) \cap forward
    <3> HIDE DEF forward
    <3> QED
      BY <1>3, RangeOfChildren
  <2>2. blk' = blk \o kids
    BY <1>1
  <2> HIDE DEF kids
  <2>3. blk \o kids \in Seq(Objects) /\ Range(blk \o kids) = Range(blk) \cup Range(kids)
    <3>1. blk \in Seq(Objects) /\ kids \in Seq(Objects)
      BY <1>3, <2>1
    <3> QED
      BY <3>1, RangeOfConcat
  <2> QED
    BY <2>1, <2>2, <2>3
<1>5. /\ ~(WHITE <= BLACK_IN_STACK) /\ ~(GREY <= BLACK_IN_STACK) /\ BLACK_IN_STACK <= BLACK_IN_STACK
      /\ BLACK_IN_STACK # GREY /\ BLACK_IN_STACK # WHITE
      /\ BLACK_IN_STACK \in BLACK_OUT_OF_STACK..WHITE /\ ~(0 > 0)
  BY SMTT(30) DEF GREY, BLACK_IN_STACK, BLACK_OUT_OF_STACK, WHITE
<1>6. \A x \in Objects : colour'[x] = IF x = curr THEN BLACK_IN_STACK ELSE colour[x]
  BY <1>1, <1>3
<1>7. /\ \A x \in Objects : is_black(x)' <=> is_black(x) \/ x = curr
      /\ \A x \in Objects : in_stack(x)' => in_stack(x) \/ x = curr
      /\ \A x : x \in Grey' <=> x \in Grey /\ x # curr
      /\ \A x : x \in White' <=> x \in White /\ x # curr
      /\ \A x \in Grey \cup White : x \in Objects /\ ~in_stack(x)
  <2>1. \A x \in Objects : is_black(x)' <=> is_black(x) \/ x = curr
    BY <1>5, <1>6 DEF is_black
  <2>2. \A x \in Objects : in_stack(x)' => in_stack(x) \/ x = curr
    BY <1>6 DEF in_stack
  <2>3. \A x : x \in Grey' <=> x \in Grey /\ x # curr
    BY <1>5, <1>6 DEF Grey
  <2>4. \A x : x \in White' <=> x \in White /\ x # curr
    BY <1>5, <1>6 DEF White
  <2>5. \A x \in Grey \cup White : x \in Objects /\ ~in_stack(x)
    BY <1>5 DEF Grey, White, in_stack
  <2> QED
    BY <2>1, <2>2, <2>3, <2>4, <2>5
<1>8. \A x \in Grey \cup White : x # curr => x \in forward
  BY <1>7
<1>9. /\ \A o \in Objects : in_stack(o) => o \in Range(blk)
      /\ \A o \in Range(blk) : rc[o] > 0
      /\ \A o \in White : rc[o] = 0 \/ o \in Range(blk)
      /\ \A o \in Objects : ~is_black(o) => \A x \in Targets(o) : Tracked(x)
  BY <1>1 DEF LXRInvariant, ColourInv
<1>10. rc[curr] > 0 /\ \A x \in Targets(curr) : is_black(x) => rc[x] > 0
  <2>1. \A x \in Targets(curr) : Tracked(x)
    BY <1>1, <1>9
  <2> QED
    BY <1>0, <1>1, <1>9, <2>1 DEF Tracked, Counted
<1>11. ASSUME NEW x \in Objects
       PROVE  /\ EdgesTo(curr, x) \in Nat /\ rc[x] \in 0..MAX_REF_COUNT
              /\ rc'[x] = incBy(rc[x], EdgesTo(curr, x)) /\ rc'[x] \in 0..MAX_REF_COUNT
              /\ x \notin Targets(curr) => rc'[x] = rc[x] /\ EdgesTo(curr, x) = 0
              /\ (rc[x] > 0 \/ x \in Targets(curr)) => rc'[x] > 0
  <2>1. EdgesTo(curr, x) \in Nat /\ (EdgesTo(curr, x) = 0 <=> x \notin Targets(curr))
    BY CountEdges
  <2>2. rc[x] \in 0..MAX_REF_COUNT /\ rc'[x] = incBy(rc[x], EdgesTo(curr, x))
    BY <1>1, <1>3
  <2>3. /\ incBy(rc[x], EdgesTo(curr, x)) \in 0..MAX_REF_COUNT /\ incBy(rc[x], 0) = rc[x]
        /\ rc[x] > 0 \/ EdgesTo(curr, x) > 0 => incBy(rc[x], EdgesTo(curr, x)) > 0
    BY <2>1, <2>2, CountSteps
  <2>4. EdgesTo(curr, x) # 0 => EdgesTo(curr, x) > 0
    BY <2>1, SMTT(30)
  <2> QED
    BY <2>1, <2>2, <2>3, <2>4
<1>12. /\ \A x \in Objects : x # curr => (Counted(x)' <=> Counted(x))
       /\ ~Counted(curr) /\ Counted(curr)'
  <2>1. ASSUME NEW x \in Objects, x # curr PROVE Counted(x)' <=> Counted(x)
    <3>1. CASE x \in Targets(curr)
      BY <1>1, <1>7, <1>10, <1>11, <2>1, <3>1 DEF Counted
    <3>2. CASE x \notin Targets(curr)
      <4>1. rc'[x] = rc[x]
        BY <1>11, <3>2
      <4> QED
        BY <1>1, <1>7, <2>1, <4>1 DEF Counted
    <3> QED
      BY <3>1, <3>2
  <2>2. ~Counted(curr)
    BY <1>1 DEF Counted
  <2>3. Counted(curr)'
    BY <1>1, <1>7, <1>10, <1>11 DEF Counted
  <2> QED
    BY <2>1, <2>2, <2>3
<1>13. \A x \in Objects : Tracked(x)' <=> Tracked(x)
  <2> TAKE x \in Objects
  <2>1. CASE x = curr
    BY <1>1, <1>12, <2>1 DEF Tracked
  <2>2. CASE x # curr
    BY <1>7, <1>12, <2>2 DEF Tracked
  <2> QED
    BY <2>1, <2>2
<1>14. ASSUME NEW x \in Objects
       PROVE  /\ strong'[x] \in 0..MAX_STRONG_REF_COUNT /\ strong'[curr] > 0
              /\ x # curr /\ strong[x] > 0 => strong'[x] > 0
              /\ x # curr /\ x \notin Targets(curr) => strong'[x] = strong[x]
  <2> DEFINE s == Lesser(rc[curr], MAX_STRONG_REF_COUNT)
             e == EdgesTo(curr, x)
  <2>1. rc[curr] \in Nat /\ strong[x] \in 0..MAX_STRONG_REF_COUNT /\ e \in Nat
    <3>1. rc[curr] \in 0..MAX_REF_COUNT
      BY <1>3
    <3>2. rc[curr] \in Nat
      BY <3>1, CountAssumption, SMTT(30)
    <3> QED
      BY <1>3, <1>11, <3>2
  <2>2. s \in 0..MAX_STRONG_REF_COUNT /\ s > 0
    BY <1>10, <2>1, StrongSteps
  <2>3. base \in [Objects -> 0..MAX_STRONG_REF_COUNT] /\ base[curr] = s
    BY <1>3, <2>2
  <2>4. x # curr => base[x] = strong[x]
    BY <1>3
  <2>5. strong'[x] = IF x \in forward THEN Lesser(base[x] + e, MAX_STRONG_REF_COUNT) ELSE base[x]
    BY <1>1
  <2>6. strong'[curr] = base[curr]
    BY <1>1
  <2>7. x \notin Targets(curr) => e = 0
    BY <1>11
  <2> HIDE DEF s, e, base, forward
  <2>8. base[x] \in 0..MAX_STRONG_REF_COUNT
    BY <2>3
  <2>9. /\ Lesser(base[x] + e, MAX_STRONG_REF_COUNT) \in 0..MAX_STRONG_REF_COUNT
        /\ Lesser(base[x] + 0, MAX_STRONG_REF_COUNT) = base[x]
        /\ Lesser(base[x] + e, MAX_STRONG_REF_COUNT) > 0 <=> (base[x] > 0 \/ e > 0)
    BY <2>1, <2>8, StrongSteps
  <2> QED
    BY <2>2, <2>3, <2>4, <2>5, <2>6, <2>7, <2>8, <2>9
<1>15. TypeOK'
  <2>1. rc' \in [Objects -> 0..MAX_REF_COUNT]
    BY <1>1, <1>11
  <2>2. strong' \in [Objects -> 0..MAX_STRONG_REF_COUNT]
    BY <1>1, <1>14
  <2>3. colour' \in [Objects -> BLACK_OUT_OF_STACK..WHITE]
    BY <1>1, <1>3, <1>5
  <2> QED
    BY <1>1, <1>2, <1>3, <1>4, <2>1, <2>2, <2>3 DEF TypeOK
<1>16. /\ PhasesInv' /\ PushInv' /\ LogInv' /\ RootInv'
       /\ \A x \in Objects :
            /\ Holding(x) = {s \in Slots : Counted(s[1]) /\ fields[s[1]][s[2]] = x}
            /\ Holding(x)' = {s \in Slots : Counted(s[1])' /\ fields[s[1]][s[2]] = x}
  BY <1>1, <1>3, <1>13, CollectKeeps DEF Collector
<1>17. CountsAreExact'
  <2>1. ASSUME NEW x \in Objects, rc'[x] # MAX_REF_COUNT
        PROVE  rc'[x] = Cardinality(Holding(x)') + decs'[x] + currRoots'[x] + prevRoots'[x]
    <3> DEFINE A == Holding(x)'
               B == Holding(x)
    <3>1. A = B \cup SlotsOf(curr, x) /\ B \cap SlotsOf(curr, x) = {} /\ B \in SUBSET Slots
      <4>1. \A s \in Slots : s[1] \in Objects
        BY Pairs
      <4>2. /\ B = {s \in Slots : Counted(s[1]) /\ fields[s[1]][s[2]] = x}
            /\ A = {s \in Slots : Counted(s[1])' /\ fields[s[1]][s[2]] = x}
        BY <1>16
      <4> HIDE DEF A, B
      <4>3. \A s \in Slots : Counted(s[1])' <=> Counted(s[1]) \/ s[1] = curr
        BY <1>12, <4>1
      <4>4. \A s \in Slots : s[1] = curr => ~Counted(s[1])
        BY <1>12, <4>1
      <4> QED
        BY <4>2, <4>3, <4>4 DEF SlotsOf
    <3>2. Cardinality(A) = Cardinality(B) + EdgesTo(curr, x)
      <4> HIDE DEF A, B
      <4> QED
        BY <1>0, <3>1, GainSlots
    <3>3. /\ Cardinality(B) \in Nat /\ rc[x] \in Nat /\ decs[x] \in Nat
          /\ currRoots[x] \in Nat /\ prevRoots[x] \in Nat
          /\ rc[x] # MAX_REF_COUNT => rc[x] = Cardinality(B) + decs[x] + currRoots[x] + prevRoots[x]
      BY HeldHasCount DEF LXRInvariant, Exact
    <3>4. rc[x] # MAX_REF_COUNT /\ rc'[x] = rc[x] + EdgesTo(curr, x) /\ EdgesTo(curr, x) \in Nat
      BY <1>11, <2>1, CountSteps
    <3> DEFINE a == Cardinality(A)
               b == Cardinality(B)
               e == EdgesTo(curr, x)
    <3> HIDE DEF a, b, e
    <3>5. b \in Nat /\ e \in Nat /\ a = b + e
          /\ rc[x] = b + decs[x] + currRoots[x] + prevRoots[x] /\ rc'[x] = rc[x] + e
      BY <3>2, <3>3, <3>4 DEF a, b, e
    <3>6. rc'[x] = a + decs[x] + currRoots[x] + prevRoots[x]
      BY <3>3, <3>5, SMTT(30)
    <3> QED
      BY <1>2, <3>6 DEF a
  <2> QED
    BY <2>1, ExactNext
<1>18. \A x : Targets(x)' = Targets(x) /\ Targets(x) \subseteq Objects
  BY <1>2 DEF Targets
<1> HIDE DEF forward, base
<1>19. ColourInv'
  <2>1. \A o \in Objects : in_stack(o)' => o \in Range(blk')
    BY <1>0, <1>4, <1>7, <1>9
  <2>2. ASSUME NEW o \in Range(blk') PROVE rc'[o] > 0
    <3>1. (o \in Range(blk) \/ o \in Targets(curr)) /\ o \in Objects
      <4>1. Range(blk) \subseteq Objects
        BY <1>3, RangeOfConcat, SMTT(30) DEF Range
      <4> QED
        BY <1>4, <1>18, <2>2, <4>1
    <3> QED
      BY <1>9, <1>11, <3>1
  <2>3. ASSUME NEW o \in White' PROVE rc'[o] = 0 \/ o \in Range(blk')
    <3>1. o \in White /\ o # curr /\ o \in Objects /\ o \in forward
      BY <1>7, <1>8, <2>3
    <3> QED
      BY <1>4, <1>9, <1>11, <3>1
  <2>4. ASSUME NEW o \in Objects, ~is_black(o)', NEW x \in Targets(o) PROVE Tracked(x)'
    BY <1>7, <1>9, <1>13, <1>18, <2>4
  <2> QED
    BY <1>1, <1>18, <2>1, <2>2, <2>3, <2>4 DEF ColourInv
<1>20. SearchInv'
  <2>1. /\ Reaches(Range(stk) \cup Range(blk) \cup Unvisited, Grey, Grey, Grey)
        /\ Reaches(Range(cands) \cup Range(blk), White, Grey \cup White,
                   White \cup (Range(stk) \cap Grey))
    BY <1>1 DEF LXRInvariant, SearchInv
  <2>2. Unvisited' = Unvisited
    BY <1>1 DEF Unvisited
  <2>3. ASSUME NEW U \in SUBSET Objects, (Range(stk) \cup Range(blk) \cup Unvisited)' \subseteq U,
               \A o \in U : o \in Grey' => Targets(o) \cap Grey' \subseteq U
        PROVE  Grey' \subseteq U
    <3>1. Range(stk) \cup Range(blk) \cup Unvisited \subseteq U
      BY <1>1, <1>4, <2>2, <2>3
    <3>2. ASSUME NEW o \in U, o \in Grey, NEW x \in Targets(o), x \in Grey PROVE x \in U
      <4>1. CASE o = curr \/ x = curr
        BY <1>0, <1>4, <1>8, <2>3, <3>1, <3>2, <4>1
      <4>2. CASE o # curr /\ x # curr
        BY <1>7, <2>3, <3>2, <4>2
      <4> QED
        BY <4>1, <4>2
    <3>3. Closed(U, Grey, Grey)
      BY <3>2 DEF Closed
    <3>4. Grey \subseteq U
      BY <2>1, <3>1, <3>3 DEF Reaches
    <3> QED
      BY <1>7, <3>4
  <2>4. Reaches(Range(stk) \cup Range(blk) \cup Unvisited, Grey, Grey, Grey)'
    BY <1>18, <2>3 DEF Reaches, Closed
  <2>5. ASSUME NEW U \in SUBSET Objects, (Range(cands) \cup Range(blk))' \subseteq U,
               \A o \in U : o \in White' => Targets(o) \cap (Grey' \cup White') \subseteq U
        PROVE  White' \cup (Range(stk') \cap Grey') \subseteq U
    <3>1. Range(cands) \cup Range(blk) \subseteq U
      BY <1>1, <1>4, <2>5
    <3>2. ASSUME NEW o \in U, o \in White, NEW x \in Targets(o), x \in Grey \cup White PROVE x \in U
      <4>1. CASE o = curr \/ x = curr
        BY <1>0, <1>4, <1>8, <2>5, <3>1, <3>2, <4>1
      <4>2. CASE o # curr /\ x # curr
        BY <1>7, <2>5, <3>2, <4>2
      <4> QED
        BY <4>1, <4>2
    <3>3. Closed(U, White, Grey \cup White)
      BY <3>2 DEF Closed
    <3>4. White \cup (Range(stk) \cap Grey) \subseteq U
      BY <2>1, <3>1, <3>3 DEF Reaches
    <3> QED
      BY <1>1, <1>7, <3>4
  <2>6. Reaches(Range(cands) \cup Range(blk), White, Grey \cup White,
                White \cup (Range(stk) \cap Grey))'
    BY <1>18, <2>5 DEF Reaches, Closed
  <2> QED
    BY <1>1, <2>4, <2>6 DEF SearchInv
<1>21. StrongInv'
  <2>1. ~lost => \A x \in Black : (rc[x] > 0) <=> (strong[x] > 0)
    BY <1>1 DEF LXRInvariant, StrongInv
  <2>2. ASSUME ~lost, NEW x \in Black' PROVE (rc'[x] > 0) <=> (strong'[x] > 0)
    <3>1. x \in Objects /\ (x \in Black \/ x = curr) /\ (x \in Black => is_black(x))
      BY <1>7, <2>2 DEF Black
    <3>2. CASE x = curr
      BY <1>10, <1>11, <1>14, <3>2
    <3>3. CASE x # curr /\ x \in Targets(curr)
      BY <1>10, <1>11, <1>14, <2>1, <2>2, <3>1, <3>3
    <3>4. CASE x # curr /\ x \notin Targets(curr)
      <4>1. rc'[x] = rc[x] /\ strong'[x] = strong[x]
        BY <1>11, <1>14, <3>1, <3>4
      <4> QED
        BY <2>1, <2>2, <3>1, <3>4, <4>1
    <3> QED
      BY <3>2, <3>3, <3>4
  <2>3. ~lost => \A x \in Black' : strong'[x] > 0 => Counted(x)'
    BY <2>2 DEF Black, Counted
  <2> QED
    BY <1>1, <1>2, <2>2, <2>3 DEF StrongInv
<1> QED
  BY <1>15, <1>16, <1>17, <1>19, <1>20, <1>21 DEF LXRInvariant

\* LoopDone after the marking: what is grey is reached from the candidates left,
\* and no black object lost its strong count unnoticed.
LEMMA MarkDoneStep ==
  ASSUME LXRInvariant, LoopDone, phase = "mark"
  PROVE  LXRInvariant'
<1>1. /\ phase' = "scan" /\ stk = <<>> /\ blk = <<>> /\ cursor > Len(cands)
      /\ cands' = cands /\ cursor' = 1 /\ rc' = rc /\ strong' = strong /\ colour' = colour
      /\ stk' = stk /\ blk' = blk /\ Collecting
  BY DEF LoopDone
<1>2. /\ fields' = fields /\ roots' = roots /\ young' = young /\ unlogged' = unlogged /\ ops' = ops
      /\ incs' = incs /\ decs' = decs /\ currRoots' = currRoots /\ prevRoots' = prevRoots
      /\ buffer' = buffer /\ pushing' = pushing /\ lost' = lost /\ pauses' = pauses
  BY <1>1 DEF Collecting, heapVars, bufVars
<1>3. TypeOK /\ cands \in Seq(Objects) /\ cursor \in 1..(Len(cands) + 1) /\ Len(cands) \in Nat
  <2>1. TypeOK /\ cands \in Seq(Objects) /\ cursor \in 1..(Len(cands) + 1)
    BY DEF LXRInvariant, TypeOK, PhasesInv, Collector
  <2>2. Len(cands) \in Nat
    BY <2>1, SMTT(30)
  <2> QED
    BY <2>1, <2>2
<1>4. TypeOK' /\ cursor' \in 1..(Len(cands') + 1)
  <2>1. cursor' \in Nat /\ cursor' \in 1..(Len(cands') + 1)
    BY <1>1, <1>3, SMTT(30)
  <2> QED
    BY <1>1, <1>2, <1>3, <2>1 DEF TypeOK
<1>5. Range(stk) = {} /\ Range(blk) = {}
  BY <1>1, RangeOfOne
<1>6. /\ \A x \in Objects : is_black(x)' <=> is_black(x)
      /\ \A x \in Objects : in_stack(x)' <=> in_stack(x)
      /\ \A x : Targets(x)' = Targets(x)
      /\ Grey' = Grey /\ White' = White /\ Black' = Black
  BY <1>1, <1>2 DEF is_black, in_stack, Targets, Grey, White, Black
<1>7. \A x \in Objects : (Counted(x)' <=> Counted(x)) /\ (Tracked(x)' <=> Tracked(x))
  BY <1>1, <1>5, <1>6 DEF Counted, Tracked
<1>8. PhasesInv' /\ PushInv' /\ LogInv' /\ RootInv' /\ CountsAreExact'
  <2>1. phase \in Collector /\ phase' \in Collector
    BY <1>1 DEF Collector
  <2> QED
    BY <1>1, <1>4, <1>7, <2>1, SameCounted
<1>9. White = {}
  <2>1. BLACK_OUT_OF_STACK # WHITE /\ GREY # WHITE
    BY SMTT(30) DEF BLACK_OUT_OF_STACK, WHITE, GREY
  <2> QED
    BY <2>1 DEF LXRInvariant, ColourInv, White
<1>10. ColourInv'
  <2>1. \A o \in Objects : in_stack(o)' => o \in Range(blk')
    BY <1>1, <1>6 DEF LXRInvariant, ColourInv
  <2>2. \A o \in Objects : ~is_black(o)' => \A x \in Targets(o)' : Tracked(x)'
    <3>1. \A o \in Objects : ~is_black(o) => \A x \in Targets(o) : Tracked(x) /\ x \in Objects
      BY DEF LXRInvariant, ColourInv, Targets
    <3> QED
      BY <1>6, <1>7, <3>1
  <2> QED
    BY <1>1, <1>5, <1>6, <1>9, <2>1, <2>2 DEF ColourInv
<1>11. Visited = Range(cands) /\ Unvisited = {} /\ Unvisited' = Range(cands)
  <2>1. cands' \in Seq(Objects) /\ cursor' \in 1..(Len(cands') + 1) /\ cursor' = 1
    BY <1>1, <1>3, <1>4
  <2>2. \A c \in Seq(Objects) : {c[i] : i \in 1..Len(c)} = Range(c)
    BY SMTT(30) DEF Range
  <2>3. Unvisited' = Range(cands)
    BY <1>1, <1>3, <2>2 DEF Unvisited
  <2> QED
    BY <1>1, <1>3, <2>3, CursorSets
<1>12. SearchInv'
  <2>1. Reaches(Range(cands), Grey, Objects, Grey)
    BY <1>5, <1>11 DEF LXRInvariant, SearchInv
  <2>2. ASSUME NEW U \in SUBSET Objects, Range(cands) \subseteq U,
               \A o \in U : o \in Grey => Targets(o) \cap Grey \subseteq U
        PROVE  Grey \subseteq U
    <3> DEFINE V == U \cup (Objects \ Grey)
    <3>1. V \in SUBSET Objects /\ Range(cands) \subseteq V
      BY <2>2
    <3>2. \A o \in V : o \in Grey => Targets(o) \cap Objects \subseteq V
      BY <2>2
    <3> HIDE DEF V
    <3>3. Grey \subseteq V
      BY <2>1, <3>1, <3>2 DEF Reaches, Closed
    <3> QED
      BY <3>3 DEF V
  <2>3. Reaches(Range(stk) \cup Range(blk) \cup Unvisited, Grey, Grey, Grey)'
    BY <1>1, <1>5, <1>6, <1>11, <2>2 DEF Reaches, Closed
  <2>4. Reaches(Range(cands) \cup Range(blk), White, Grey \cup White,
                White \cup (Range(stk) \cap Grey))'
    BY <1>1, <1>5, <1>6, <1>9 DEF Reaches, Closed
  <2> QED
    BY <1>1, <2>3, <2>4 DEF SearchInv
<1>13. StrongInv'
  <2>1. ~lost => /\ \A o \in Black : strong[o] > 0 => Counted(o)
                 /\ \A o \in Black : ~(rc[o] > 0 /\ strong[o] = 0)
    BY <1>5, <1>11 DEF LXRInvariant, StrongInv
  <2>2. ASSUME NEW o \in Black PROVE /\ o \in Objects /\ (strong[o] # 0 => strong[o] > 0)
                                     /\ Counted(o) => rc[o] > 0
    <3>1. o \in Objects /\ (Counted(o) => rc[o] > 0)
      BY <1>5 DEF Black, Counted
    <3>2. strong[o] \in 0..MAX_STRONG_REF_COUNT
      BY <1>3, <3>1 DEF TypeOK
    <3>3. strong[o] # 0 => strong[o] > 0
      BY <3>2, SMTT(30)
    <3> QED
      BY <3>1, <3>3
  <2>3. ~lost => \A o \in Black : (rc[o] > 0) <=> (strong[o] > 0)
    BY <2>1, <2>2
  <2>4. ~lost => \A o \in Black : strong[o] > 0 => Counted(o)'
    BY <1>7, <2>1, <2>2
  <2> QED
    BY <1>1, <1>2, <1>6, <2>3, <2>4 DEF StrongInv
<1> QED
  BY <1>4, <1>8, <1>10, <1>12, <1>13 DEF LXRInvariant

\* LoopDone after the scan: nothing is grey any more, and what is white is
\* reached from the candidates.
LEMMA ScanDoneStep ==
  ASSUME LXRInvariant, LoopDone, phase = "scan"
  PROVE  LXRInvariant'
<1>1. /\ phase' = "collect" /\ stk = <<>> /\ blk = <<>> /\ cursor > Len(cands)
      /\ cands' = cands /\ cursor' = 1 /\ rc' = rc /\ strong' = strong /\ colour' = colour
      /\ stk' = stk /\ blk' = blk /\ Collecting
  BY DEF LoopDone
<1>2. /\ fields' = fields /\ roots' = roots /\ young' = young /\ unlogged' = unlogged /\ ops' = ops
      /\ incs' = incs /\ decs' = decs /\ currRoots' = currRoots /\ prevRoots' = prevRoots
      /\ buffer' = buffer /\ pushing' = pushing /\ lost' = lost /\ pauses' = pauses
  BY <1>1 DEF Collecting, heapVars, bufVars
<1>3. TypeOK /\ cands \in Seq(Objects) /\ cursor \in 1..(Len(cands) + 1)
  BY DEF LXRInvariant, TypeOK, PhasesInv, Collector
<1>4. TypeOK' /\ cursor' \in 1..(Len(cands') + 1)
  <2>1. cursor' \in Nat /\ cursor' \in 1..(Len(cands') + 1)
    BY <1>1, <1>3, SMTT(30)
  <2> QED
    BY <1>1, <1>2, <1>3, <2>1 DEF TypeOK
<1>5. Range(stk) = {} /\ Range(blk) = {}
  BY <1>1, RangeOfOne
<1>6. /\ \A x \in Objects : is_black(x)' <=> is_black(x)
      /\ \A x \in Objects : in_stack(x)' <=> in_stack(x)
      /\ \A x : Targets(x)' = Targets(x)
      /\ Grey' = Grey /\ White' = White /\ Black' = Black
  BY <1>1, <1>2 DEF is_black, in_stack, Targets, Grey, White, Black
<1>7. \A x \in Objects : (Counted(x)' <=> Counted(x)) /\ (Tracked(x)' <=> Tracked(x))
  BY <1>1, <1>5, <1>6 DEF Counted, Tracked
<1>8. PhasesInv' /\ PushInv' /\ LogInv' /\ RootInv' /\ CountsAreExact'
  <2>1. phase \in Collector /\ phase' \in Collector
    BY <1>1 DEF Collector
  <2> QED
    BY <1>1, <1>4, <1>7, <2>1, SameCounted
<1>9. Unvisited = {} /\ Unvisited' = Range(cands)
  <2>1. \A c \in Seq(Objects) : {c[i] : i \in 1..Len(c)} = Range(c)
    BY SMTT(30) DEF Range
  <2>2. Unvisited' = Range(cands)
    BY <1>1, <1>3, <2>1 DEF Unvisited
  <2> QED
    BY <1>1, <1>3, <2>2, CursorSets
<1>10. Grey = {}
  <2>1. Reaches({}, Grey, Grey, Grey)
    BY <1>5, <1>9 DEF LXRInvariant, SearchInv
  <2>2. Closed({}, Grey, Grey) /\ {} \in SUBSET Objects /\ {} \subseteq {}
    BY DEF Closed
  <2>3. Grey \subseteq {}
    BY <2>1, <2>2 DEF Reaches
  <2> QED
    BY <2>3
<1>11. ColourInv'
  <2>1. /\ \A o \in Objects : in_stack(o) => o \in Range(blk)
        /\ \A o \in White : rc[o] = 0 \/ o \in Range(blk)
    BY DEF LXRInvariant, ColourInv
  <2> QED
    BY <1>1, <1>5, <1>6, <1>10, <2>1 DEF ColourInv
<1>12. SearchInv'
  <2>1. Reaches(Range(cands), White, White, White)
    BY <1>5, <1>10 DEF LXRInvariant, SearchInv
  <2>2. Range(stk') \cup Unvisited' = Range(cands)
    BY <1>1, <1>5, <1>9
  <2>3. Reaches(Range(stk) \cup Unvisited, White, White, White)'
    BY <1>6, <2>1, <2>2 DEF Reaches, Closed
  <2> QED
    BY <1>1, <2>3 DEF SearchInv
<1>13. StrongInv'
  <2>1. ~lost => /\ \A o \in Black : (rc[o] > 0) <=> (strong[o] > 0)
                 /\ \A o \in Black : strong[o] > 0 => Counted(o)
    BY DEF LXRInvariant, StrongInv
  <2>2. ~lost => \A o \in Black : strong[o] > 0 => Counted(o)'
    BY <1>7, <2>1 DEF Black
  <2> QED
    BY <1>1, <1>2, <1>6, <2>1, <2>2 DEF StrongInv
<1> QED
  BY <1>4, <1>8, <1>11, <1>12, <1>13 DEF LXRInvariant

\* LoopDone after collect_whites: no object is white, grey or on the stack of
\* scan_black, so every object is black and the pause is over.
LEMMA CollectDoneStep ==
  ASSUME LXRInvariant, LoopDone, phase = "collect"
  PROVE  LXRInvariant'
<1>1. /\ phase' = "mutator" /\ stk = <<>> /\ blk = <<>> /\ cursor > Len(cands)
      /\ cands' = <<>> /\ cursor' = 1 /\ rc' = rc /\ strong' = strong /\ colour' = colour
      /\ stk' = stk /\ blk' = blk /\ Collecting
  BY DEF LoopDone
<1>2. /\ fields' = fields /\ roots' = roots /\ young' = young /\ unlogged' = unlogged /\ ops' = ops
      /\ incs' = incs /\ decs' = decs /\ currRoots' = currRoots /\ prevRoots' = prevRoots
      /\ buffer' = buffer /\ pushing' = pushing /\ lost' = lost /\ pauses' = pauses
  BY <1>1 DEF Collecting, heapVars, bufVars
<1>3. /\ TypeOK /\ cands \in Seq(Objects) /\ cursor \in 1..(Len(cands) + 1)
      /\ colour \in [Objects -> BLACK_OUT_OF_STACK..WHITE] /\ incs = {} /\ young = {}
      /\ buffer = <<>> /\ (\A w \in Workers : pushing[w] = NoPush) /\ CountsAreExact
  BY DEF LXRInvariant, TypeOK, PhasesInv, Collector
<1>4. TypeOK'
  <2>1. cursor' \in Nat /\ cands' \in Seq(Objects)
    BY <1>1, SMTT(30)
  <2> QED
    BY <1>1, <1>2, <1>3, <2>1 DEF TypeOK
<1>5. Range(stk) = {} /\ Range(blk) = {} /\ Unvisited = {}
  BY <1>1, <1>3, RangeOfOne, CursorSets
<1>6. White = {}
  <2>1. Reaches({}, White, White, White)
    BY <1>5 DEF LXRInvariant, SearchInv
  <2>2. Closed({}, White, White) /\ {} \in SUBSET Objects /\ {} \subseteq {}
    BY DEF Closed
  <2>3. White \subseteq {}
    BY <2>1, <2>2 DEF Reaches
  <2> QED
    BY <2>3
<1>7. \A o \in Objects : colour[o] = BLACK_OUT_OF_STACK
  <2>1. Grey = {} /\ \A o \in Objects : ~in_stack(o)
    BY <1>5 DEF LXRInvariant, ColourInv
  <2>2. ASSUME NEW o \in Objects PROVE colour[o] = BLACK_OUT_OF_STACK
    <3>1. colour[o] # GREY /\ colour[o] # WHITE /\ colour[o] # BLACK_IN_STACK
      BY <1>6, <2>1 DEF Grey, White, in_stack
    <3>2. colour[o] \in BLACK_OUT_OF_STACK..WHITE
      BY <1>3
    <3> QED
      BY <3>1, <3>2, SMTT(30) DEF BLACK_OUT_OF_STACK, BLACK_IN_STACK, GREY, WHITE
  <2> QED
    BY <2>2
<1>8. /\ \A x \in Objects : is_black(x) /\ is_black(x)' /\ ~in_stack(x)'
      /\ Black = Objects /\ Black' = Objects /\ White' = {} /\ Grey' = {}
      /\ \A x : Targets(x)' = Targets(x) /\ Targets(x) \subseteq Objects
  <2>1. /\ BLACK_OUT_OF_STACK <= BLACK_IN_STACK /\ BLACK_OUT_OF_STACK # BLACK_IN_STACK
        /\ BLACK_OUT_OF_STACK # WHITE /\ BLACK_OUT_OF_STACK # GREY
    BY SMTT(30) DEF BLACK_OUT_OF_STACK, BLACK_IN_STACK, GREY, WHITE
  <2>2. \A x \in Objects : is_black(x) /\ is_black(x)' /\ ~in_stack(x)'
    BY <1>1, <1>7, <2>1 DEF is_black, in_stack
  <2>3. White' = {} /\ Grey' = {}
    BY <1>1, <1>7, <2>1 DEF White, Grey
  <2> QED
    BY <1>2, <2>2, <2>3 DEF Black, Targets
<1>9. \A x \in Objects : (Counted(x)' <=> Counted(x)) /\ (Counted(x) <=> rc[x] > 0)
                         /\ (Tracked(x)' <=> Tracked(x))
  <2>1. phase # "mark" /\ phase' # "mark"
    BY <1>1
  <2> QED
    BY <1>1, <1>8, <2>1 DEF Counted, Tracked
<1>10. PhasesInv'
  BY <1>1, <1>2, <1>3, <1>7 DEF PhasesInv, Collector
<1>11. PushInv'
  BY <1>1, <1>2, <1>3 DEF PushInv
<1>12. LogInv'
  <2>1. /\ \A s \in Slots : Tracked(s[1]) => s \in unlogged
        /\ \A s \in Slots : s[1] \in Objects
    BY <1>3, Pairs DEF LXRInvariant, LogInv
  <2> QED
    BY <1>2, <1>3, <1>9, <2>1 DEF LogInv
<1>13. CountsAreExact'
  <2>1. \A s \in Slots : Counted(s[1])' <=> Counted(s[1])
    BY <1>9, Pairs
  <2>2. \A o, f : Pending(o, f)' <=> Pending(o, f)
    BY <1>2 DEF Pending
  <2>3. \A x \in Objects : Holding(x)' = Holding(x)
    BY <1>2, <2>1, <2>2 DEF Holding
  <2>4. \A x \in Objects : decs'[x] + currRoots'[x] + prevRoots'[x]
                             = decs[x] + currRoots[x] + prevRoots[x]
    BY <1>2
  <2> QED
    BY <1>1, <1>3, <1>4, <2>3, <2>4, SameHolding
<1>14. RootInv'
  <2>1. Held' = {o \in Objects : rc[o] > 0}
    BY <1>1, <1>2, <1>3 DEF Held
  <2>2. ASSUME NEW r \in RootSlots PROVE roots[r] \in Held' \cup {Null}
    <3>1. roots[r] \in Objects \cup {Null}
      BY <1>3 DEF TypeOK
    <3>2. CASE roots[r] # Null
      <4>1. roots[r] \in Objects /\ prevRoots[roots[r]] > 0
        BY <3>1, <3>2 DEF LXRInvariant, RootInv
      <4>2. ~(0 > 0)
        BY SMTT(30)
      <4>3. rc[roots[r]] # 0 /\ rc[roots[r]] \in Nat
        BY <1>3, <4>1, <4>2, HeldHasCount
      <4>4. rc[roots[r]] > 0
        BY <4>3, SMTT(30)
      <4> QED
        BY <2>1, <4>1, <4>4
    <3> QED
      BY <3>2
  <2>3. ASSUME NEW o \in Held' PROVE Targets(o)' \subseteq Held'
    <3>1. o \in Objects /\ Counted(o)
      BY <1>9, <2>1, <2>3
    <3>2. \A x \in Targets(o) : rc[x] > 0
      BY <1>3, <3>1, TargetsHaveCounts
    <3> QED
      BY <1>8, <2>1, <3>2
  <2> QED
    BY <1>1, <1>2, <2>2, <2>3 DEF RootInv
<1>15. ColourInv'
  BY <1>1, <1>5, <1>8 DEF ColourInv
<1>16. SearchInv'
  BY <1>1 DEF SearchInv
<1>17. StrongInv'
  <2>1. ~lost => /\ \A o \in Objects : (rc[o] > 0) <=> (strong[o] > 0)
                 /\ \A o \in Objects : strong[o] > 0 => Counted(o)
    BY <1>8 DEF LXRInvariant, StrongInv
  <2>2. ~lost => \A o \in Objects : strong[o] > 0 => Counted(o)'
    BY <1>9, <2>1
  <2> QED
    BY <1>1, <1>2, <1>8, <2>1, <2>2 DEF StrongInv
<1> QED
  BY <1>4, <1>10, <1>11, <1>12, <1>13, <1>14, <1>15, <1>16, <1>17 DEF LXRInvariant

-----------------------------------------------------------------------------
(* The invariant, and what it says of the plan.                              *)

\* A step that changes nothing keeps the invariant.
LEMMA StutterStep ==
  ASSUME LXRInvariant, UNCHANGED vars
  PROVE  LXRInvariant'
<1>1. /\ roots' = roots /\ fields' = fields /\ rc' = rc /\ strong' = strong /\ colour' = colour
      /\ young' = young /\ unlogged' = unlogged /\ incs' = incs /\ decs' = decs
      /\ currRoots' = currRoots /\ prevRoots' = prevRoots /\ cands' = cands /\ buffer' = buffer
      /\ pushing' = pushing /\ lost' = lost /\ phase' = phase /\ cursor' = cursor
      /\ stk' = stk /\ blk' = blk /\ ops' = ops /\ pauses' = pauses
  BY DEF vars, heapVars, bufVars, ccVars
<1>2. /\ \A o : is_black(o)' <=> is_black(o)
      /\ \A o : in_stack(o)' <=> in_stack(o)
      /\ \A o : Targets(o)' = Targets(o)
      /\ \A o, f : Pending(o, f)' <=> Pending(o, f)
  BY <1>1 DEF is_black, in_stack, Targets, Pending
<1>3. /\ \A o : Counted(o)' <=> Counted(o)
      /\ \A o : Tracked(o)' <=> Tracked(o)
      /\ Grey' = Grey /\ White' = White /\ Black' = Black /\ Held' = Held
      /\ Visited' = Visited /\ Unvisited' = Unvisited /\ Stuck' = Stuck
  BY <1>1, <1>2 DEF Counted, Tracked, Grey, White, Black, Held, Visited, Unvisited, Stuck
<1>4. TypeOK'
  BY <1>1 DEF LXRInvariant, TypeOK
<1>5. PhasesInv' /\ PushInv'
  BY <1>1 DEF LXRInvariant, PhasesInv, PushInv
<1>6. LogInv'
  BY <1>1, <1>3 DEF LXRInvariant, LogInv
<1>7. CountsAreExact'
  BY <1>1, <1>2, <1>3 DEF LXRInvariant, CountsAreExact
<1>8. RootInv'
  BY <1>1, <1>2, <1>3 DEF LXRInvariant, RootInv
<1>9. ColourInv'
  BY <1>1, <1>2, <1>3 DEF LXRInvariant, ColourInv
<1>10. SearchInv'
  BY <1>1, <1>2, <1>3 DEF LXRInvariant, SearchInv, Reaches, Closed
<1>11. StrongInv'
  BY <1>1, <1>3 DEF LXRInvariant, StrongInv
<1> QED
  BY <1>4, <1>5, <1>6, <1>7, <1>8, <1>9, <1>10, <1>11 DEF LXRInvariant

\* The mutator's operations, behind the field-logging barrier, keep it.
LEMMA MutatorLXR ==
  ASSUME LXRInvariant, MutatorStep
  PROVE  LXRInvariant'
<1>1. CASE \E r \in RootSlots, o \in Objects : Alloc(r, o)
  BY <1>1, AllocStep
<1>2. CASE \E r \in RootSlots, f \in Fields, target \in Objects \cup {Null} :
             ObjectReferenceWrite(r, f, target)
  BY <1>2, WriteStep
<1>3. CASE \E r, q \in RootSlots, f \in Fields : LoadRoot(r, q, f)
  <2>1. PICK r \in RootSlots, q \in RootSlots, f \in Fields : LoadRoot(r, q, f)
    BY <1>3
  <2>2. /\ Mutate /\ roots[q] # Null /\ roots' = [roots EXCEPT ![r] = fields[roots[q]][f]]
        /\ UNCHANGED <<fields, young, unlogged, incs, decs>>
    BY <2>1 DEF LoadRoot
  <2> QED
    BY <2>2, RootStep
<1>4. CASE \E r \in RootSlots : DropRoot(r)
  <2>1. PICK r \in RootSlots : DropRoot(r)
    BY <1>4
  <2>2. /\ Mutate /\ roots' = [roots EXCEPT ![r] = Null]
        /\ UNCHANGED <<fields, young, unlogged, incs, decs>>
    BY <2>1 DEF DropRoot
  <2> QED
    BY <2>2, RootStep
<1> QED
  BY <1>1, <1>2, <1>3, <1>4 DEF MutatorStep

\* Every increment packet keeps it, in whatever order the slots are handled.
LEMMA ProcessIncsLXR ==
  ASSUME LXRInvariant, ProcessIncs
  PROVE  LXRInvariant'
<1>1. PICK p \in incs : process_slot(p[1], p[2])
  BY DEF ProcessIncs, process_incs
<1> DEFINE kind == p[1]
           slot == p[2]
<1>2. process_slot(kind, slot) /\ phase = "incs" /\ <<kind, slot>> \in incs
  BY <1>1 DEF process_slot
<1> HIDE DEF kind, slot
<1>3. Load(slot) \in Objects \cup {Null}
  <2>1. Load(slot) \in Held \cup {Null}
    BY <1>2, QueuedSlot
  <2> QED
    BY <2>1 DEF Held
<1>4. CASE Load(slot) = Null
  BY <1>2, <1>4, NullIncStep
<1>5. CASE Load(slot) \in Objects
  BY <1>2, <1>5, IncStep
<1> QED
  BY <1>3, <1>4, <1>5

\* Every decrement packet keeps it, the two halves of a candidate's push included.
LEMMA ProcessDecsLXR ==
  ASSUME LXRInvariant, ProcessDecs
  PROVE  LXRInvariant'
<1>1. PICK w \in Workers : (\E o \in Objects : process_decs(w, o)) \/ FinishPush(w)
  BY DEF ProcessDecs
<1>2. CASE FinishPush(w)
  BY <1>2, FinishPushStep
<1>3. CASE \E o \in Objects : process_decs(w, o)
  <2>1. PICK o \in Objects : process_decs(w, o)
    BY <1>3
  <2>2. is_dead_or_stuck(o) \/ (rc[o] = 1 /\ ~is_dead_or_stuck(o))
          \/ (rc[o] > 1 /\ ~is_dead_or_stuck(o))
    BY <2>1 DEF process_decs
  <2> QED
    BY <2>1, <2>2, StuckDecStep, LastDecStep, DecStep
<1> QED
  BY <1>1, <1>2, <1>3

\* Every step of the trial-deletion collector keeps it.
LEMMA CycleCollectorLXR ==
  ASSUME LXRInvariant, CycleCollector
  PROVE  LXRInvariant'
<1>1. CASE mark
  BY <1>1, MarkPopStep, MarkStep
<1>2. CASE scan_black
  BY <1>2, BlackPopStep, BlackenStep
<1>3. CASE LoopDone
  <2>1. phase \in {"mark", "scan", "collect"}
    BY <1>3 DEF LoopDone
  <2> QED
    BY <1>3, <2>1, MarkDoneStep, ScanDoneStep, CollectDoneStep
<1>4. CASE MarkCandidate
  BY <1>4, MarkCandidateStep
<1>5. CASE NextCandidate
  BY <1>5, NextCandidateStep
<1>6. CASE scan
  BY <1>6, ScanStep
<1>7. CASE collect_whites
  BY <1>7, CollectStep
<1> QED
  BY <1>1, <1>2, <1>3, <1>4, <1>5, <1>6, <1>7 DEF CycleCollector

\* The invariant holds at every step of every pause, for any heap, any number
\* of fields, roots and workers, and any width of the two counts.
THEOREM LXRInvariantThm == Spec => []LXRInvariant
<1>1. Init => LXRInvariant
  BY InitLXR
<1>2. LXRInvariant /\ [Next]_vars => LXRInvariant'
  <2> SUFFICES ASSUME LXRInvariant, [Next]_vars
               PROVE  LXRInvariant'
    OBVIOUS
  <2>1. CASE UNCHANGED vars
    BY <2>1, StutterStep
  <2>2. CASE MutatorStep
    BY <2>2, MutatorLXR
  <2>3. CASE schedule_rc_collection
    BY <2>3, ScheduleStep
  <2>4. CASE ProcessIncs
    BY <2>4, ProcessIncsLXR
  <2>5. CASE release
    BY <2>5, ReleaseStep
  <2>6. CASE ProcessDecs
    BY <2>6, ProcessDecsLXR
  <2>7. CASE DecsDone
    BY <2>7, DecsDoneStep
  <2>8. CASE CycleCollector
    BY <2>8, CycleCollectorLXR
  <2>9. CASE Done
    BY <2>1, <2>9 DEF Done
  <2> QED
    BY <2>1, <2>2, <2>3, <2>4, <2>5, <2>6, <2>7, <2>8, <2>9 DEF Next, GCStep
<1> QED
  BY <1>1, <1>2, PTL DEF Spec

\* A count that is not stuck is, at every step of ProcessIncs, ProcessDecs and
\* CycleCollector, the number of counted slots that hold the object plus the
\* decrements still owed to it.
THEOREM CountsAreExactThm == Spec => []CountsAreExact
<1>1. LXRInvariant => CountsAreExact
  BY DEF LXRInvariant
<1> QED
  BY <1>1, LXRInvariantThm, PTL

\* Between pauses every object is black again, and an object has a count exactly
\* when it has a strong one, unless a racing push lost a candidate.
THEOREM CollectorLeavesNoTraceThm == Spec => []CollectorLeavesNoTrace
<1>1. LXRInvariant => CollectorLeavesNoTrace
  <2> SUFFICES ASSUME LXRInvariant, phase = "mutator"
               PROVE  /\ \A o \in Objects : colour[o] = BLACK_OUT_OF_STACK
                      /\ ~lost => \A o \in Objects : (rc[o] > 0) <=> (strong[o] > 0)
    BY DEF CollectorLeavesNoTrace
  <2>1. phase \notin Collector /\ PhasesInv
    BY DEF Collector, LXRInvariant
  <2>2. \A o \in Objects : colour[o] = BLACK_OUT_OF_STACK /\ o \in Black
    BY <2>1, CalmColours
  <2> QED
    BY <2>2 DEF LXRInvariant, StrongInv
<1> QED
  BY <1>1, LXRInvariantThm, PTL

\* What the mutator can reach is young or counted when a pause starts and while
\* it applies increments and decrements, and is never white when collect_whites
\* frees what is: no step of the plan reclaims a reachable object.
THEOREM LiveObjectsAreHeldThm == Spec => []LiveObjectsAreHeld
<1>1. LXRInvariant => LiveObjectsAreHeld
  <2> SUFFICES ASSUME LXRInvariant
               PROVE  LiveObjectsAreHeld
    OBVIOUS
  <2>1. /\ TypeOK /\ CountsAreExact /\ PhasesInv /\ RootInv /\ ColourInv
        /\ RootObjects \in SUBSET Objects
    <3>1. TypeOK /\ CountsAreExact /\ PhasesInv /\ RootInv /\ ColourInv
      BY DEF LXRInvariant
    <3>2. roots \in [RootSlots -> Objects \cup {Null}]
      BY <3>1 DEF TypeOK
    <3>3. RootObjects \in SUBSET Objects
      BY <3>2 DEF RootObjects
    <3> QED
      BY <3>1, <3>3
  <2>2. \A o : Targets(o) \subseteq Objects
    BY DEF Targets
  <2>3. CASE phase \in {"mutator", "incs"}
    <3>1. RootObjects \subseteq Held /\ \A o \in Held : Targets(o) \subseteq Held
      BY <2>1, <2>3 DEF RootInv, RootObjects
    <3>2. Live \subseteq Held
      BY <2>1, <3>1, ReachableStays DEF Live
    <3> QED
      BY <2>3, <3>2 DEF LiveObjectsAreHeld, Held
  <2>4. CASE phase \notin {"mutator", "incs"}
    <3> DEFINE U == {o \in Objects : rc[o] > 0}
    <3>1. incs = {} /\ RootObjects \subseteq U
      <4>1. incs = {} /\ \A r \in RootSlots : roots[r] # Null => prevRoots[roots[r]] > 0
        BY <2>1, <2>4 DEF PhasesInv, RootInv
      <4>2. ASSUME NEW x \in RootObjects PROVE x \in Objects /\ rc[x] > 0
        <5>1. x \in Objects /\ prevRoots[x] > 0
          BY <2>1, <4>1, <4>2 DEF RootObjects
        <5>2. ~(0 > 0)
          BY SMTT(30)
        <5>3. rc[x] # 0 /\ rc[x] \in Nat
          BY <2>1, <5>1, <5>2, HeldHasCount
        <5>4. rc[x] > 0
          BY <5>3, SMTT(30)
        <5> QED
          BY <5>1, <5>4
      <4> QED
        BY <4>1, <4>2
    <3>2. ASSUME \A o \in U : is_black(o) PROVE Live \subseteq U
      <4>1. ASSUME NEW o \in U PROVE Targets(o) \subseteq U
        <5>1. o \in Objects /\ Counted(o)
          BY <3>2, <4>1 DEF Counted
        <5>2. \A x \in Targets(o) : rc[x] > 0
          BY <2>1, <3>1, <5>1, TargetsHaveCounts
        <5> QED
          BY <2>2, <5>2
      <4> HIDE DEF U
      <4> QED
        BY <2>1, <3>1, <4>1, ReachableStays DEF Live
    <3>3. CASE phase = "decs"
      <4>1. \A o \in U : is_black(o)
        BY <2>1, <3>3, CalmColours DEF Collector
      <4>2. Live \subseteq U
        BY <3>2, <4>1
      <4> QED
        BY <3>3, <4>2 DEF LiveObjectsAreHeld
    <3>4. CASE phase = "collect"
      <4>1. Range(blk) = {}
        BY <2>1, <3>4, RangeOfOne DEF PhasesInv
      <4>2. ASSUME NEW o \in U PROVE is_black(o) /\ colour[o] # WHITE
        <5>1. o \in Objects /\ rc[o] > 0 /\ colour[o] \in BLACK_OUT_OF_STACK..WHITE
          BY <2>1, <4>2 DEF TypeOK
        <5>2. rc[o] # 0
          BY <5>1, SMTT(30)
        <5>3. colour[o] # GREY /\ colour[o] # WHITE
          BY <2>1, <3>4, <4>1, <5>1, <5>2 DEF ColourInv, Grey, White
        <5>4. colour[o] <= BLACK_IN_STACK
          BY <5>1, <5>3, SMTT(30) DEF BLACK_OUT_OF_STACK, BLACK_IN_STACK, GREY, WHITE
        <5> QED
          BY <5>3, <5>4 DEF is_black
      <4>3. Live \subseteq U
        BY <3>2, <4>2
      <4> QED
        BY <3>4, <4>2, <4>3 DEF LiveObjectsAreHeld
    <3>5. CASE phase \notin {"decs", "collect"}
      BY <2>4, <3>5 DEF LiveObjectsAreHeld
    <3> QED
      BY <3>3, <3>4, <3>5
  <2> QED
    BY <2>3, <2>4
<1> QED
  BY <1>1, LXRInvariantThm, PTL

=============================================================================

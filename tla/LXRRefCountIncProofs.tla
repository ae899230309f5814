------------------------ MODULE LXRRefCountIncProofs ------------------------
(***************************************************************************)
(* The mutator, the start of a pause and its increments keep the invariant  *)
(* of deferred reference counting: the lemmas about the counts and about    *)
(* the sequences of the model, then one lemma per action.                   *)
(***************************************************************************)
EXTENDS LXRInvariants, FiniteSetTheorems, TLAPS

\* A leaf is a first-order argument for Zenon unless it cites SMT.
USE ZenonT(60)

\* The slots counted in the count of o, those of c that refer to x, and the
\* equation CountsAreExact asks of every object that is not stuck.
Holding(o) == {s \in Slots : /\ Counted(s[1]) /\ ~Pending(s[1], s[2])
                            /\ fields[s[1]][s[2]] = o}
SlotsOf(c, x) == {s \in Slots : s[1] = c /\ fields[c][s[2]] = x}
Exact(o) == rc[o] = Cardinality(Holding(o)) + decs[o] + currRoots[o] + prevRoots[o]

-----------------------------------------------------------------------------
(* Sequences.                                                              *)

\* Induction up to n: the loops of Filter and ReachableFrom.
LEMMA IntervalInduction ==
  ASSUME NEW n \in Nat, NEW good, 0 \in good,
         \A k \in 1..n : k - 1 \in good => k \in good
  PROVE  \A k \in 0..n : k \in good
<1> DEFINE bad == {k \in 0..n : k \notin good}
           R == {ss \in Nat \X Nat : ss[1] < ss[2]}
<1> SUFFICES ASSUME bad # {} PROVE FALSE
  OBVIOUS
<1>1. IsWellFoundedOn(R, Nat)
  BY NatLessThanWellFounded, SMTT(30) DEF OpToRel
<1>2. \A x, y \in Nat : x < y => <<x, y>> \in R
  BY SMTT(30)
<1>3. bad \subseteq Nat
  BY SMTT(30)
<1>4. PICK x \in bad : \A y \in bad : <<y, x>> \notin R
  <2> HIDE DEF R, bad
  <2> QED
    BY <1>1, <1>3, WFMin
<1> HIDE DEF R
<1>5. x \in 0..n /\ x \notin good /\ x # 0
  BY <1>4
<1>6. x - 1 \in 0..n /\ x - 1 < x /\ x - 1 \in Nat /\ x \in Nat /\ x \in 1..n
  BY <1>5, SMTT(30)
<1>7. x - 1 \in good
  BY <1>2, <1>4, <1>6
<1> QED
  BY <1>5, <1>6, <1>7

\* What a sequence holds.
LEMMA SeqRange ==
  ASSUME NEW S, NEW s \in Seq(S)
  PROVE  Range(s) = {s[i] : i \in 1..Len(s)} /\ Range(s) \subseteq S
  BY SMTT(30) DEF Range

\* The empty stack, and a stack of one object.
LEMMA RangeOfOne ==
  /\ Range(<<>>) = {}
  /\ \A S : <<>> \in Seq(S)
  /\ \A S : \A x \in S : <<x>> \in Seq(S) /\ Range(<<x>>) = {x}
<1>1. \A S : <<>> \in Seq(S) /\ Len(<<>>) = 0
  BY SMTT(30)
<1>2. 1..0 = {} /\ 1..1 = {1}
  BY SMTT(30)
<1>3. Range(<<>>) = {}
  BY <1>1, <1>2, SeqRange
<1>4. ASSUME NEW S, NEW x \in S PROVE <<x>> \in Seq(S) /\ Range(<<x>>) = {x}
  <2>1. <<x>> \in Seq(S) /\ Len(<<x>>) = 1 /\ <<x>>[1] = x
    BY SMTT(30)
  <2>2. Range(<<x>>) = {<<x>>[i] : i \in 1..1}
    BY <2>1, SeqRange
  <2> QED
    BY <2>1, <2>2, <1>2
<1> QED
  BY <1>1, <1>3, <1>4

\* Pushing one element.
LEMMA RangeOfAppend ==
  ASSUME NEW S, NEW q \in Seq(S), NEW x \in S
  PROVE  Append(q, x) \in Seq(S) /\ Range(Append(q, x)) = Range(q) \cup {x}
<1>1. /\ Append(q, x) \in Seq(S) /\ Len(Append(q, x)) = Len(q) + 1 /\ Len(q) \in Nat
      /\ \A i \in 1..Len(q) : Append(q, x)[i] = q[i]
      /\ Append(q, x)[Len(q) + 1] = x
  BY SMTT(30)
<1>2. 1..Len(q)+1 = 1..Len(q) \cup {Len(q) + 1}
  BY <1>1, SMTT(30)
<1> DEFINE t == Append(q, x)
           n == Len(q)
<1>3. Range(q) = {q[i] : i \in 1..n}
  BY SeqRange
<1>4. Range(t) = {t[i] : i \in 1..n + 1}
  <2> HIDE DEF t
  <2>1. t \in Seq(S) /\ Len(t) = n + 1
    BY <1>1 DEF t
  <2> QED
    BY <2>1, SeqRange
<1>5. Range(t) = Range(q) \cup {x}
  <2>1. 1..n+1 = 1..n \cup {n + 1} /\ (\A i \in 1..n : t[i] = q[i]) /\ t[n + 1] = x
    BY <1>1, <1>2
  <2> HIDE DEF t, n
  <2>2. {t[i] : i \in 1..n+1} = {t[i] : i \in 1..n} \cup {t[n + 1]}
    BY <2>1
  <2>3. {t[i] : i \in 1..n} = {q[i] : i \in 1..n}
    BY <2>1
  <2> QED
    BY <1>3, <1>4, <2>1, <2>2, <2>3
<1> QED
  BY <1>1, <1>5

\* Pushing the children of an object.
LEMMA RangeOfConcat ==
  ASSUME NEW S, NEW s \in Seq(S), NEW t \in Seq(S)
  PROVE  s \o t \in Seq(S) /\ Range(s \o t) = Range(s) \cup Range(t)
<1> DEFINE u == s \o t
           m == Len(s)
           n == Len(t)
<1>1. /\ u \in Seq(S) /\ Len(u) = m + n /\ m \in Nat /\ n \in Nat
      /\ \A i \in 1..m : u[i] = s[i] /\ i \in 1..m+n
      /\ \A i \in 1..n : u[m + i] = t[i] /\ m + i \in 1..m+n
      /\ \A i \in 1..m+n : i \notin 1..m => i - m \in 1..n /\ u[i] = t[i - m]
  BY SMTT(30)
<1>2. Range(s) = {s[i] : i \in 1..m} /\ Range(t) = {t[i] : i \in 1..n}
  BY SeqRange
<1> HIDE DEF u, m, n
<1>3. Range(u) = {u[i] : i \in 1..m+n}
  BY <1>1, SeqRange
<1>4. Range(s) \cup Range(t) \subseteq Range(u)
  BY <1>1, <1>2, <1>3
<1>5. Range(u) \subseteq Range(s) \cup Range(t)
  BY <1>1, <1>2, <1>3
<1> QED
  BY <1>1, <1>4, <1>5 DEF u

\* Pop and Top: the stacks of mark, scan, scan_black and collect_whites.
LEMMA PopStack ==
  ASSUME NEW S, NEW s \in Seq(S), s # <<>>
  PROVE  /\ Top(s) \in S /\ Pop(s) \in Seq(S)
         /\ Range(s) = Range(Pop(s)) \cup {Top(s)}
<1> DEFINE n == Len(s)
           t == SubSeq(s, 1, n - 1)
<1>1. n \in Nat \ {0} /\ s \in [1..n -> S]
  BY SMTT(30)
<1>2. /\ n \in 1..n /\ n - 1 \in Int /\ 1 \in Int /\ 1..n = (1..n-1) \cup {n}
      /\ \A i \in 1..n-1 : s[i] \in S
      /\ (n - 1) - 1 + 1 = n - 1 /\ (1 <= n - 1 \/ n - 1 = 0)
      /\ \A i \in 1..n-1 : 1 + i - 1 = i
  BY <1>1, SMTT(30)
<1>3. t \in Seq(S) /\ Len(t) = n - 1 /\ \A i \in 1..n-1 : t[i] = s[i]
  <2>1. /\ t \in Seq(S)
        /\ Len(t) = (IF 1 <= n - 1 THEN (n - 1) - 1 + 1 ELSE 0)
        /\ \A i \in 1..((n - 1) - 1 + 1) : t[i] = s[1 + i - 1]
    <3> DEFINE k == n - 1
    <3> SUFFICES /\ SubSeq(s, 1, k) \in Seq(S)
                 /\ Len(SubSeq(s, 1, k)) = (IF 1 <= k THEN k - 1 + 1 ELSE 0)
                 /\ \A i \in 1..(k - 1 + 1) : SubSeq(s, 1, k)[i] = s[1 + i - 1]
      OBVIOUS
    <3>1. k \in Int /\ \A i \in 1..k : s[i] \in S
      BY <1>2
    <3> HIDE DEF k
    <3> QED
      BY <1>2, <3>1, SMTT(30)
  <2> QED
    BY <1>2, <2>1
<1>4. Range(s) = {s[i] : i \in 1..n}
  BY SeqRange
<1> HIDE DEF t, n
<1>5. Range(t) = {t[i] : i \in 1..n-1}
  BY <1>3, SeqRange
<1>6. Range(s) = Range(t) \cup {s[n]}
  <2>1. 1..n = (1..n-1) \cup {n} /\ \A i \in 1..n-1 : t[i] = s[i]
    BY <1>2, <1>3
  <2> QED
    BY <1>4, <1>5, <2>1
<1>7. s[n] \in S
  BY <1>1, <1>2
<1> QED
  BY <1>3, <1>6, <1>7 DEF t, n, Top, Pop
\* Filter keeps the elements of kept, and nothing else.
LEMMA RangeOfFilter ==
  ASSUME NEW S, NEW s \in Seq(S), NEW kept
  PROVE  /\ Filter(s, kept) \in Seq(S)
         /\ Range(Filter(s, kept)) = Range(s) \cap kept
<1> DEFINE n == Len(s)
           Grow(x, i) == IF s[i] \in kept THEN Append(x, s[i]) ELSE x
           Fun(g, k) == g = [i \in 0..k |-> IF i = 0 THEN <<>> ELSE Grow(g[i - 1], i)]
           F == CHOOSE g : Fun(g, n)
<1>1. /\ n \in Nat /\ n \in 0..n /\ 0 \in 0..n
      /\ \A i \in 1..n : s[i] \in S /\ i # 0 /\ i \in 0..n /\ i - 1 \in 0..n /\ i \in Nat
  BY SMTT(30)
<1>2. Filter(s, kept) = F[n]
  BY DEF Filter
<1>3. \E g : Fun(g, n)
  <2> DEFINE good == {k \in 0..n : \E g : Fun(g, k)}
  <2> HIDE DEF Grow
  <2>1. 0 \in good
    <3> DEFINE g0 == [i \in 0..0 |-> <<>>]
    <3>1. \A i \in 0..0 : i = 0
      BY SMTT(30)
    <3>2. g0 = [i \in 0..0 |-> IF i = 0 THEN <<>> ELSE Grow(g0[i - 1], i)]
      BY <3>1
    <3> QED
      BY <3>2, <1>1
  <2>2. ASSUME NEW k \in 1..n, k - 1 \in good PROVE k \in good
    <3>1. PICK g : Fun(g, k - 1)
      BY <2>2
    <3> DEFINE h == [i \in 0..k |-> IF i = 0 THEN <<>> ELSE Grow(g[i - 1], i)]
    <3>2. k \in Nat /\ \A i \in 0..k : (i # 0 => i - 1 \in 0..k-1) /\ (i \in 0..k-1 => i \in 0..k)
      BY <1>1, SMTT(30)
    <3>3. \A i \in 0..k-1 : h[i] = g[i]
      <4> TAKE i \in 0..k-1
      <4>1. i \in 0..k
        BY <1>1, SMTT(30)
      <4> QED
        BY <3>1, <4>1
    <3>4. \A i \in 0..k : h[i] = IF i = 0 THEN <<>> ELSE Grow(h[i - 1], i)
      BY <3>2, <3>3
    <3>5. Fun(h, k)
      BY <3>4
    <3> QED
      BY <3>5, <1>1
  <2>3. \A k \in 0..n : k \in good
    <3> HIDE DEF good, n
    <3> QED
      BY <1>1, <2>1, <2>2, IntervalInduction
  <2> QED
    BY <2>3, <1>1
<1>4. Fun(F, n)
  BY <1>3
<1>5. F[0] = <<>> /\ \A i \in 1..n : F[i] = Grow(F[i-1], i)
  <2> HIDE DEF F, Grow
  <2> QED
    BY <1>1, <1>4
<1> HIDE DEF F, n
<1> DEFINE Good(i) == F[i] \in Seq(S) /\ Range(F[i]) = {s[j] : j \in 1..i} \cap kept
           good == {k \in 0..n : Good(k)}
<1>6. 0 \in good
  <2>1. 1..0 = {}
    BY SMTT(30)
  <2> QED
    BY <1>1, <1>5, <2>1, RangeOfOne
<1>7. ASSUME NEW k \in 1..n, k - 1 \in good PROVE k \in good
  <2> DEFINE q == F[k-1]
  <2>1. q \in Seq(S) /\ Range(q) = {s[j] : j \in 1..k-1} \cap kept
    BY <1>7
  <2>2. F[k] = Grow(q, k) /\ s[k] \in S
    BY <1>1, <1>5
  <2>3. 1..k = 1..k-1 \cup {k}
    BY <1>1, SMTT(30)
  <2>4. {s[j] : j \in 1..k} = {s[j] : j \in 1..k-1} \cup {s[k]}
    BY <2>3
  <2> HIDE DEF q
  <2>5. Good(k)
    <3>1. CASE s[k] \in kept
      <4>1. Append(q, s[k]) \in Seq(S) /\ Range(Append(q, s[k])) = Range(q) \cup {s[k]}
        <5> DEFINE x == s[k]
        <5>1. x \in S
          BY <2>2
        <5> HIDE DEF x
        <5>2. Append(q, x) \in Seq(S) /\ Range(Append(q, x)) = Range(q) \cup {x}
          BY <2>1, <5>1, RangeOfAppend, SMTT(30)
        <5> QED
          BY <5>2 DEF x
      <4> QED
        BY <4>1, <2>1, <2>2, <2>4, <3>1
    <3>2. CASE s[k] \notin kept
      BY <2>1, <2>2, <2>4, <3>2
    <3> QED
      BY <3>1, <3>2
  <2> QED
    BY <2>5, <1>1
<1>8. \A k \in 0..n : k \in good
  <2> HIDE DEF good
  <2> QED
    BY <1>1, <1>6, <1>7, IntervalInduction
<1>9. Range(s) = {s[j] : j \in 1..n}
  BY SeqRange DEF n
<1> QED
  BY <1>1, <1>2, <1>8, <1>9
\* The children of an object are the objects its fields refer to.
LEMMA RangeOfChildren ==
  ASSUME NEW o \in Objects, fields \in [Objects -> [Fields -> Objects \cup {Null}]]
  PROVE  /\ Children(o) \in Seq(Objects) /\ Range(Children(o)) = Targets(o)
         /\ \A kept : /\ Filter(Children(o), kept) \in Seq(Objects)
                     /\ Range(Filter(Children(o), kept)) = Targets(o) \cap kept
<1> DEFINE s == fields[o]
<1>1. s \in Seq(Objects \cup {Null}) /\ Len(s) = NumFields
  <2>1. NumFields \in Nat /\ s \in [1..NumFields -> Objects \cup {Null}]
    BY CountAssumption DEF Fields
  <2> HIDE DEF s
  <2> QED
    BY <2>1, SMTT(30)
<1>2. Range(s) = {s[i] : i \in 1..NumFields}
  BY <1>1, SeqRange
<1>3. Children(o) \in Seq(Objects \cup {Null}) /\ Range(Children(o)) = Range(s) \cap Objects
  BY <1>1, RangeOfFilter DEF Children
<1>4. Children(o) \in Seq(Objects)
  <2> DEFINE c == Children(o)
  <2>1. c \in Seq(Objects \cup {Null}) /\ Range(c) \subseteq Objects
    BY <1>3
  <2> HIDE DEF c
  <2>2. Range(c) = {c[i] : i \in 1..Len(c)}
    BY <2>1, SeqRange
  <2>3. \A i \in 1..Len(c) : c[i] \in Objects
    BY <2>1, <2>2
  <2>4. c \in Seq(Objects)
    BY <2>1, <2>3, SMTT(30)
  <2> QED
    BY <2>4 DEF c
<1>5. Range(Children(o)) = Targets(o)
  BY <1>2, <1>3 DEF Targets, Fields
<1>6. ASSUME NEW kept
      PROVE  /\ Filter(Children(o), kept) \in Seq(Objects)
             /\ Range(Filter(Children(o), kept)) = Targets(o) \cap kept
  <2> DEFINE c == Children(o)
  <2>1. c \in Seq(Objects) /\ Range(c) = Targets(o)
    BY <1>4, <1>5
  <2> HIDE DEF c
  <2>2. Filter(c, kept) \in Seq(Objects) /\ Range(Filter(c, kept)) = Range(c) \cap kept
    BY <2>1, RangeOfFilter
  <2> QED
    BY <2>1, <2>2 DEF c
<1> QED
  BY <1>4, <1>5, <1>6

\* t is s after swap_remove of the element at i: what precedes i stays, and
\* what follows it loses nothing else.
Swapped(s, i, t) ==
  /\ Len(t) = Len(s) - 1
  /\ \A j \in 1..(i - 1) : t[j] = s[j]
  /\ \A j \in i..Len(s) : s[j] = s[i] \/ \E k \in i..Len(t) : t[k] = s[j]

\* swap_remove does that.
LEMMA SwapRemove ==
  ASSUME NEW S, NEW s \in Seq(S), NEW i \in 1..Len(s)
  PROVE  /\ Pop([s EXCEPT ![i] = Top(s)]) \in Seq(S)
         /\ Swapped(s, i, Pop([s EXCEPT ![i] = Top(s)]))
<1> DEFINE t == Pop([s EXCEPT ![i] = Top(s)])
           n == Len(s)
           e == s[n]
           u == [s EXCEPT ![i] = e]
<1>1. n \in Nat /\ i \in 1..n /\ n \in 1..n /\ e \in S
  BY SMTT(30)
<1>2. u \in Seq(S) /\ Len(u) = n /\ \A j \in 1..n : u[j] = IF j = i THEN e ELSE s[j]
  <2> HIDE DEF e
  <2> QED
    BY <1>1, SMTT(30)
<1>3. t = SubSeq(u, 1, n - 1)
  BY <1>2 DEF Top, Pop
<1> HIDE DEF u, t
<1>4. t \in Seq(S) /\ Len(t) = n - 1 /\ \A j \in 1..n-1 : t[j] = u[j]
  <2>1. /\ n - 1 \in Int /\ 1 \in Int /\ (n - 1) - 1 + 1 = n - 1 /\ (1 <= n - 1 \/ n - 1 = 0)
        /\ \A j \in 1..n-1 : 1 + j - 1 = j /\ u[j] \in S
    BY <1>1, <1>2, SMTT(30)
  <2> DEFINE k == n - 1
  <2>2. /\ SubSeq(u, 1, k) \in Seq(S)
        /\ Len(SubSeq(u, 1, k)) = (IF 1 <= k THEN k - 1 + 1 ELSE 0)
        /\ \A j \in 1..(k - 1 + 1) : SubSeq(u, 1, k)[j] = u[1 + j - 1]
    <3>1. k \in Int /\ 1 \in Int /\ \A j \in 1..k : u[j] \in S
      BY <2>1
    <3> HIDE DEF k, n
    <3> QED
      BY <3>1, SMTT(30)
  <2> QED
    BY <1>3, <2>1, <2>2
<1> HIDE DEF n
<1>5. \A j \in 1..(i - 1) : j \in 1..n-1 /\ j \in 1..n /\ j # i
  BY <1>1, SMTT(30)
<1>6. ASSUME NEW j \in i..n, s[j] # s[i] PROVE \E k \in i..Len(t) : t[k] = s[j]
  <2>1. CASE j = n
    <3>1. i # n
      BY <1>6, <2>1
    <3>2. i \in i..n-1 /\ i \in 1..n-1 /\ i \in 1..n
      BY <1>1, <3>1, SMTT(30)
    <3> QED
      BY <1>2, <1>4, <2>1, <3>2
  <2>2. CASE j # n
    <3>1. j \in i..n-1 /\ j \in 1..n-1 /\ j \in 1..n /\ j # i
      BY <1>1, <1>6, <2>2, SMTT(30)
    <3> QED
      BY <1>2, <1>4, <3>1
  <2> QED
    BY <2>1, <2>2
<1>7. Swapped(s, i, t)
  BY <1>2, <1>4, <1>5, <1>6 DEF n, Swapped
<1> QED
  BY <1>4, <1>7 DEF t

\* The end of Vec::push, at the length n read when it began.
Written(b, n, x) == IF n < Len(b) THEN [b EXCEPT ![n + 1] = x] ELSE Append(b, x)

\* What it leaves: a longer or equally long memory, and a vector one longer
\* than the length read.
LEMMA WritePush ==
  ASSUME NEW S, NEW b \in Seq(S), NEW n \in Nat, n <= Len(b), NEW x \in S
  PROVE  /\ Written(b, n, x) \in Seq(S) /\ n + 1 <= Len(Written(b, n, x))
         /\ Len(b) <= Len(Written(b, n, x))
         /\ SubSeq(Written(b, n, x), 1, n + 1) \in Seq(S)
         /\ Len(SubSeq(Written(b, n, x), 1, n + 1)) = n + 1
         /\ n = Len(b) => /\ Written(b, n, x) = Append(b, x)
                          /\ SubSeq(Written(b, n, x), 1, n + 1) = Written(b, n, x)
<1> DEFINE w == Written(b, n, x)
<1>0. w = IF n < Len(b) THEN [b EXCEPT ![n + 1] = x] ELSE Append(b, x)
  BY DEF Written
<1> HIDE DEF w
<1>1. w \in Seq(S) /\ n + 1 <= Len(w) /\ Len(b) <= Len(w) /\ Len(w) \in Nat
  <2>1. CASE n < Len(b)
    BY <1>0, <2>1, SMTT(30)
  <2>2. CASE ~(n < Len(b))
    BY <1>0, <2>2, SMTT(30)
  <2> QED
    BY <2>1, <2>2
<1>2. SubSeq(w, 1, n + 1) \in Seq(S) /\ Len(SubSeq(w, 1, n + 1)) = n + 1
  BY <1>1, SMTT(30)
<1>3. n = Len(b) => w = Append(b, x) /\ Len(w) = n + 1
  BY <1>0, SMTT(30)
<1>4. n = Len(b) => SubSeq(w, 1, n + 1) = w
  BY <1>1, <1>3, SMTT(30)
<1> QED
  BY <1>1, <1>2, <1>3, <1>4 DEF w

-----------------------------------------------------------------------------
(* Counting slots.                                                         *)

\* There are finitely many slots.
LEMMA FiniteSlots == IsFiniteSet(Fields) /\ IsFiniteSet(Slots)
<1>1. IsFiniteSet(Fields)
  <2>1. 1 \in Int /\ NumFields \in Int
    BY CountAssumption, SMTT(30)
  <2> QED
    BY <2>1, FS_Interval DEF Fields
<1> QED
  BY <1>1, CountAssumption, FS_Product DEF Slots

\* EdgesTo counts the slots of c that refer to x.
LEMMA CountEdges ==
  ASSUME NEW c \in Objects, NEW x \in Objects
  PROVE  /\ IsFiniteSet(SlotsOf(c, x))
         /\ EdgesTo(c, x) \in Nat
         /\ Cardinality(SlotsOf(c, x)) = EdgesTo(c, x)
         /\ EdgesTo(c, x) = 0 <=> x \notin Targets(c)
<1> DEFINE F == {f \in Fields : fields[c][f] = x}
<1>1. IsFiniteSet(F) /\ Cardinality(F) \in Nat
  <2>1. F \in SUBSET Fields
    OBVIOUS
  <2> HIDE DEF F
  <2> QED
    BY <2>1, FiniteSlots, FS_Subset, FS_CardinalityType
<1>2. SlotsOf(c, x) = {c} \X F
  BY DEF SlotsOf, Slots
<1>3. EdgesTo(c, x) = Cardinality(F)
  BY DEF EdgesTo
<1>4. F = {} <=> x \notin Targets(c)
  BY DEF Targets
<1> HIDE DEF F
<1>5. IsFiniteSet({c}) /\ Cardinality({c}) = 1
  BY FS_Singleton
<1>6. /\ IsFiniteSet({c} \X F)
      /\ Cardinality({c} \X F) = Cardinality({c}) * Cardinality(F)
  BY <1>1, <1>5, FS_Product
<1>7. Cardinality({c}) * Cardinality(F) = Cardinality(F)
  BY <1>1, <1>5, SMTT(30)
<1>8. Cardinality(F) = 0 <=> F = {}
  BY <1>1, FS_EmptySet
<1> QED
  BY <1>1, <1>2, <1>3, <1>4, <1>6, <1>7, <1>8

\* Sets of slots are finite, and disjoint ones add up.
LEMMA CountSlots ==
  ASSUME NEW A \in SUBSET Slots
  PROVE  /\ IsFiniteSet(A) /\ Cardinality(A) \in Nat /\ (Cardinality(A) = 0 <=> A = {})
         /\ \A B \in SUBSET Slots :
                A \cap B = {} => Cardinality(A \cup B) = Cardinality(A) + Cardinality(B)
<1>1. IsFiniteSet(A) /\ Cardinality(A) \in Nat
  BY FiniteSlots, FS_Subset, FS_CardinalityType
<1>2. Cardinality(A) = 0 <=> A = {}
  BY <1>1, FS_EmptySet
<1>3. ASSUME NEW B \in SUBSET Slots, A \cap B = {}
      PROVE  Cardinality(A \cup B) = Cardinality(A) + Cardinality(B)
  <2>1. IsFiniteSet(B) /\ Cardinality(B) \in Nat
    BY FiniteSlots, FS_Subset, FS_CardinalityType
  <2>2. Cardinality(A \cup B) = Cardinality(A) + Cardinality(B) - Cardinality(A \cap B)
    BY <1>1, <2>1, FS_Union
  <2>3. Cardinality(A \cap B) = 0
    BY <1>3, FS_EmptySet
  <2> QED
    BY <1>1, <2>1, <2>2, <2>3, SMTT(30)
<1> QED
  BY <1>1, <1>2, <1>3

\* A set of slots that gains the slots of c that refer to x gains EdgesTo(c, x).
LEMMA GainSlots ==
  ASSUME NEW c \in Objects, NEW x \in Objects, NEW A \in SUBSET Slots, NEW B,
         B = A \cup SlotsOf(c, x), A \cap SlotsOf(c, x) = {}
  PROVE  Cardinality(B) = Cardinality(A) + EdgesTo(c, x)
<1> DEFINE E == SlotsOf(c, x)
<1>1. E \in SUBSET Slots /\ Cardinality(E) = EdgesTo(c, x)
  BY CountEdges DEF SlotsOf
<1>2. B = A \cup E /\ A \cap E = {}
  OBVIOUS
<1> HIDE DEF E
<1>3. Cardinality(A \cup E) = Cardinality(A) + Cardinality(E)
  BY <1>1, <1>2, CountSlots
<1> QED
  BY <1>1, <1>2, <1>3

\* A set of slots that gains one slot gains one.
LEMMA GainSlot ==
  ASSUME NEW s \in Slots, NEW A \in SUBSET Slots, s \notin A
  PROVE  Cardinality(A \cup {s}) = Cardinality(A) + 1
  BY CountSlots, FS_AddElement

\* An object referred to by a counted slot has a count; an exact zero is owed
\* nothing and held by nothing.
LEMMA HeldHasCount ==
  ASSUME TypeOK, CountsAreExact, NEW x \in Objects
  PROVE  /\ Holding(x) \in SUBSET Slots /\ Cardinality(Holding(x)) \in Nat
         /\ Cardinality(Holding(x)) = 0 <=> Holding(x) = {}
         /\ rc[x] \in Nat /\ decs[x] \in Nat /\ currRoots[x] \in Nat /\ prevRoots[x] \in Nat
         /\ rc[x] # MAX_REF_COUNT => Exact(x)
         /\ rc[x] = 0 => /\ Holding(x) = {} /\ decs[x] = 0
                         /\ currRoots[x] = 0 /\ prevRoots[x] = 0
<1>1. Holding(x) \in SUBSET Slots
  BY DEF Holding
<1>2. Cardinality(Holding(x)) \in Nat /\ (Cardinality(Holding(x)) = 0 <=> Holding(x) = {})
  BY <1>1, CountSlots
<1>3. /\ rc[x] \in 0..MAX_REF_COUNT
      /\ decs[x] \in Nat /\ currRoots[x] \in Nat /\ prevRoots[x] \in Nat
  BY DEF TypeOK
<1>4. rc[x] # MAX_REF_COUNT => Exact(x)
  BY DEF CountsAreExact, Stuck, Exact, Holding
<1>5. rc[x] \in Nat /\ (rc[x] = 0 => rc[x] # MAX_REF_COUNT)
  BY <1>3, CountAssumption, SMTT(30)
<1>6. rc[x] = 0 => /\ Cardinality(Holding(x)) = 0 /\ decs[x] = 0
                   /\ currRoots[x] = 0 /\ prevRoots[x] = 0
  <2> DEFINE h == Cardinality(Holding(x))
             d == decs[x]
             p == currRoots[x]
             q == prevRoots[x]
  <2>1. rc[x] = 0 => 0 = h + d + p + q
    BY <1>4, <1>5 DEF Exact
  <2>2. h \in Nat /\ d \in Nat /\ p \in Nat /\ q \in Nat
    BY <1>2, <1>3
  <2> HIDE DEF h, d, p, q
  <2>3. rc[x] = 0 => h = 0 /\ d = 0 /\ p = 0 /\ q = 0
    BY <2>1, <2>2, SMTT(30)
  <2> QED
    BY <2>3 DEF h, d, p, q
<1> QED
  BY <1>1, <1>2, <1>3, <1>4, <1>5, <1>6

-----------------------------------------------------------------------------
(* Reachability.                                                           *)

\* What is reachable from a set stays in any set that holds it and follows
\* the fields.
LEMMA ReachableStays ==
  ASSUME NEW set \in SUBSET Objects, NEW U, set \subseteq U,
         \A o \in U \cap Objects : Targets(o) \subseteq U
  PROVE  ReachableFrom(set) \subseteq U
<1> DEFINE n == Cardinality(Objects)
           Step(X) == X \cup {x \in Objects : \E o \in X, f \in Fields : fields[o][f] = x}
           Fun(g, k) == g = [i \in 0..k |-> IF i = 0 THEN set ELSE Step(g[i - 1])]
           W == CHOOSE g : Fun(g, n)
<1>1. n \in Nat
  BY CountAssumption, FS_CardinalityType
<1>2. ReachableFrom(set) = W[n]
  BY DEF ReachableFrom
<1> HIDE DEF n
<1>3. /\ n \in 0..n /\ 0 \in 0..n
      /\ \A i \in 1..n : i # 0 /\ i \in 0..n /\ i - 1 \in 0..n /\ i \in Nat
  BY <1>1, SMTT(30)
<1>4. \E g : Fun(g, n)
  <2> DEFINE good == {k \in 0..n : \E g : Fun(g, k)}
  <2> HIDE DEF Step
  <2>1. 0 \in good
    <3> DEFINE g0 == [i \in 0..0 |-> set]
    <3>1. \A i \in 0..0 : i = 0
      BY SMTT(30)
    <3>2. g0 = [i \in 0..0 |-> IF i = 0 THEN set ELSE Step(g0[i - 1])]
      BY <3>1
    <3> QED
      BY <3>2, <1>3
  <2>2. ASSUME NEW k \in 1..n, k - 1 \in good PROVE k \in good
    <3>1. PICK g : Fun(g, k - 1)
      BY <2>2
    <3> DEFINE h == [i \in 0..k |-> IF i = 0 THEN set ELSE Step(g[i - 1])]
    <3>2. k \in Nat /\ \A i \in 0..k : (i # 0 => i - 1 \in 0..k-1) /\ (i \in 0..k-1 => i \in 0..k)
      BY <1>3, SMTT(30)
    <3>3. \A i \in 0..k-1 : h[i] = g[i]
      <4> TAKE i \in 0..k-1
      <4>1. i \in 0..k
        BY <1>3, SMTT(30)
      <4> QED
        BY <3>1, <4>1
    <3>4. \A i \in 0..k : h[i] = IF i = 0 THEN set ELSE Step(h[i - 1])
      BY <3>2, <3>3
    <3>5. Fun(h, k)
      BY <3>4
    <3> QED
      BY <3>5, <1>3
  <2>3. \A k \in 0..n : k \in good
    <3> HIDE DEF good
    <3> QED
      BY <1>1, <2>1, <2>2, IntervalInduction
  <2> QED
    BY <2>3, <1>3
<1>5. Fun(W, n)
  BY <1>4
<1>6. W[0] = set /\ \A i \in 1..n : W[i] = Step(W[i-1])
  <2> HIDE DEF W, Step
  <2> QED
    BY <1>3, <1>5
<1> HIDE DEF W
<1> DEFINE good == {k \in 0..n : W[k] \subseteq U \cap Objects}
<1>7. 0 \in good
  BY <1>3, <1>6
<1>8. ASSUME NEW k \in 1..n, k - 1 \in good PROVE k \in good
  <2> DEFINE X == W[k - 1]
  <2>1. X \subseteq U \cap Objects /\ W[k] = Step(X)
    BY <1>6, <1>8
  <2> HIDE DEF X
  <2>2. Step(X) \subseteq U \cap Objects
    BY <2>1 DEF Targets
  <2> QED
    BY <1>3, <2>1, <2>2
<1>9. \A k \in 0..n : k \in good
  <2> HIDE DEF good
  <2> QED
    BY <1>1, <1>7, <1>8, IntervalInduction
<1> QED
  BY <1>2, <1>3, <1>9

-----------------------------------------------------------------------------
(* The counters.                                                           *)

\* Reference counts stay within their limit, and what inc, incBy and decBy do
\* to a count that does not get stuck.
LEMMA CountSteps ==
  ASSUME NEW c \in 0..MAX_REF_COUNT, NEW n \in Nat
  PROVE  /\ inc(c) \in 0..MAX_REF_COUNT /\ inc(c) > 0
         /\ inc(c) # MAX_REF_COUNT => c # MAX_REF_COUNT /\ inc(c) = c + 1
         /\ incBy(c, n) \in 0..MAX_REF_COUNT /\ incBy(c, 0) = c
         /\ c > 0 \/ n > 0 => incBy(c, n) > 0
         /\ incBy(c, n) # MAX_REF_COUNT => c # MAX_REF_COUNT /\ incBy(c, n) = c + n
         /\ decBy(c, n) \in 0..MAX_REF_COUNT /\ decBy(c, 0) = c
         /\ decBy(c, n) > 0 => c > 0
         /\ decBy(c, n) # MAX_REF_COUNT => c # MAX_REF_COUNT /\ (n <= c => decBy(c, n) = c - n)
  BY CountAssumption, SMTT(30) DEF inc, incBy, decBy, Lesser

\* Strong counts stay within theirs.
LEMMA StrongSteps ==
  ASSUME NEW s \in 0..MAX_STRONG_REF_COUNT, NEW n \in Nat, NEW c \in Nat
  PROVE  /\ strong_rc_inc(s) \in 0..MAX_STRONG_REF_COUNT /\ strong_rc_inc(s) > 0
         /\ strong_rc_dec(s) \in 0..MAX_STRONG_REF_COUNT
         /\ strong_rc_dec(s) > 0 => s > 0
         /\ strong_rc_dec(s) = 0 => s = 0 \/ s = 1
         /\ Lesser(s + n, MAX_STRONG_REF_COUNT) \in 0..MAX_STRONG_REF_COUNT
         /\ Lesser(s + 0, MAX_STRONG_REF_COUNT) = s
         /\ Lesser(s + n, MAX_STRONG_REF_COUNT) > 0 <=> (s > 0 \/ n > 0)
         /\ Lesser(c, MAX_STRONG_REF_COUNT) \in 0..MAX_STRONG_REF_COUNT
         /\ c > 0 => Lesser(c, MAX_STRONG_REF_COUNT) > 0
  BY CountAssumption, SMTT(30) DEF strong_rc_inc, strong_rc_dec, Lesser

-----------------------------------------------------------------------------
(* The initial state.                                                      *)

\* The invariant holds of the empty heap.
LEMMA InitLXR == Init => LXRInvariant
<1> SUFFICES ASSUME Init PROVE LXRInvariant
  OBVIOUS
<1> USE DEF Init
<1>0. /\ MAX_REF_COUNT \in Nat /\ MAX_STRONG_REF_COUNT \in Nat /\ MAX_REF_COUNT # 0
      /\ 0 \in Nat /\ 0 \in 0..MAX_REF_COUNT /\ 0 \in 0..MAX_STRONG_REF_COUNT /\ 0 \in 0..3
      /\ 0 \in 0..MaxOps /\ 0 \in 0..MaxPauses /\ 1 \in Nat /\ ~(0 > 0) /\ 0 <= 0
      /\ 0 + 0 + 0 + 0 = 0 /\ 0 <= 1 /\ 0 # 2 /\ 0 # 3 /\ 0 # 1
  BY CountAssumption, SMTT(30)
<1>1. TypeOK
  <2>1. <<>> \in Seq(Objects)
    BY RangeOfOne
  <2>2. NoPush \in [obj : Objects \cup {Null}, len : Nat]
    BY <1>0 DEF NoPush
  <2>3. BLACK_OUT_OF_STACK \in BLACK_OUT_OF_STACK..WHITE
    BY <1>0 DEF BLACK_OUT_OF_STACK, WHITE
  <2> QED
    BY <1>0, <2>1, <2>2, <2>3 DEF TypeOK
<1>2. PhasesInv
  BY DEF PhasesInv, Collector
<1>3. PushInv
  BY DEF PushInv
<1>4. \A o \in Objects : is_black(o) /\ ~Counted(o) /\ ~in_stack(o) /\ colour[o] # GREY /\ colour[o] # WHITE
  BY <1>0 DEF is_black, Counted, in_stack, BLACK_OUT_OF_STACK, BLACK_IN_STACK, GREY, WHITE
<1>5. LogInv
  BY <1>4 DEF LogInv, Tracked, Slots
<1>6. CountsAreExact
  <2>1. ASSUME NEW o \in Objects
        PROVE  rc[o] = Cardinality(Holding(o)) + decs[o] + currRoots[o] + prevRoots[o]
    <3>1. Holding(o) = {}
      BY <1>4 DEF Holding, Slots
    <3>2. Cardinality({}) = 0
      BY FS_EmptySet
    <3> QED
      BY <1>0, <3>1, <3>2
  <2> QED
    BY <2>1 DEF CountsAreExact, Holding
<1>7. RootInv
  <2>1. \A o \in Objects : o \notin Held
    BY <1>0 DEF Held
  <2> QED
    BY <2>1 DEF RootInv, Held
<1>8. ColourInv
  BY <1>4, RangeOfOne DEF ColourInv, White
<1>9. SearchInv
  BY DEF SearchInv
<1>10. StrongInv
  BY <1>0 DEF StrongInv, Black
<1> QED
  BY <1>1, <1>2, <1>3, <1>5, <1>6, <1>7, <1>8, <1>9, <1>10 DEF LXRInvariant

-----------------------------------------------------------------------------
(* The mutator.                                                            *)

\* A slot is an object and a field; a queued increment a kind and a slot.
LEMMA Pairs ==
  /\ \A s \in Slots : s[1] \in Objects /\ s[2] \in Fields /\ s = <<s[1], s[2]>>
  /\ \A o \in Objects, f \in Fields : <<o, f>> \in Slots
  /\ \A p \in ({"MATURE", "NURSERY"} \X Slots) \cup ({"ROOT"} \X RootSlots) :
        p = <<p[1], p[2]>> /\ p[1] \in {"MATURE", "NURSERY", "ROOT"}
        /\ (p[1] # "ROOT" => p[2] \in Slots) /\ (p[1] = "ROOT" => p[2] \in RootSlots)
  /\ \A r \in RootSlots : r \notin Slots
<1>1. \A r \in RootSlots : r \notin Slots
  BY CountAssumption DEF Slots, Fields
<1>2. \A p \in ({"MATURE", "NURSERY"} \X Slots) \cup ({"ROOT"} \X RootSlots) :
        p = <<p[1], p[2]>> /\ p[1] \in {"MATURE", "NURSERY", "ROOT"}
        /\ (p[1] # "ROOT" => p[2] \in Slots) /\ (p[1] = "ROOT" => p[2] \in RootSlots)
  BY SMTT(30)
<1> QED
  BY <1>1, <1>2, SMTT(30) DEF Slots

\* Outside the cycle collection every object is black, and the counted objects
\* are those with a count.
LEMMA CalmColours ==
  ASSUME PhasesInv, phase \notin Collector
  PROVE  /\ \A o \in Objects : /\ colour[o] = BLACK_OUT_OF_STACK /\ is_black(o) /\ ~in_stack(o)
                               /\ o \notin Grey /\ o \notin White /\ o \in Black
                               /\ Counted(o) <=> rc[o] > 0
                               /\ Tracked(o) <=> rc[o] > 0
         /\ phase # "mark" /\ stk = <<>> /\ blk = <<>>
<1>1. \A o \in Objects : colour[o] = 0
  BY DEF PhasesInv, BLACK_OUT_OF_STACK
<1>2. 0 <= 1 /\ 0 # 1 /\ 0 # 2 /\ 0 # 3
  BY SMTT(30)
<1>3. \A o \in Objects : is_black(o) /\ ~in_stack(o)
  BY <1>1, <1>2 DEF is_black, in_stack, BLACK_IN_STACK
<1>4. phase # "mark" /\ phase # "scan"
  BY DEF Collector
<1>5. stk = <<>> /\ blk = <<>>
  BY <1>4 DEF PhasesInv
<1> QED
  BY <1>1, <1>2, <1>3, <1>4, <1>5
  DEF Counted, Tracked, Grey, White, Black, GREY, WHITE, BLACK_OUT_OF_STACK

\* Outside the cycle collection colours and stacks stay as they are.
LEMMA CalmKeeps ==
  ASSUME LXRInvariant, phase \notin Collector, phase' \notin Collector,
         colour' = colour, stk' = stk, blk' = blk
  PROVE  /\ ColourInv' /\ SearchInv'
         /\ \A o \in Objects : /\ Counted(o)' <=> rc'[o] > 0
                               /\ Tracked(o)' <=> rc'[o] > 0
                               /\ o \in Black'
<1>1. /\ \A o \in Objects : is_black(o) /\ ~in_stack(o) /\ o \notin White
      /\ stk = <<>> /\ blk = <<>>
  BY CalmColours DEF LXRInvariant
<1>2. phase' # "mark" /\ phase' # "scan" /\ phase' # "collect"
  BY DEF Collector
<1>3. \A o \in Objects : /\ is_black(o)' /\ ~in_stack(o)' /\ (Counted(o)' <=> rc'[o] > 0)
                         /\ (Tracked(o)' <=> rc'[o] > 0)
  BY <1>1, <1>2 DEF is_black, in_stack, Counted, Tracked
<1>4. ColourInv'
  <2>1. \A o \in Objects : o \notin White'
    BY <1>1 DEF White
  <2>2. Range(blk') = {}
    BY <1>1, RangeOfOne
  <2> QED
    BY <1>2, <1>3, <2>1, <2>2 DEF ColourInv, White
<1>5. SearchInv'
  BY <1>2 DEF SearchInv
<1> QED
  BY <1>3, <1>4, <1>5 DEF Black

\* The mutator leaves the state of the collector alone.
LEMMA MutateKeeps ==
  ASSUME LXRInvariant, Mutate
  PROVE  /\ PhasesInv' /\ PushInv' /\ ColourInv' /\ SearchInv' /\ StrongInv'
         /\ \A o \in Objects : /\ Counted(o)' <=> rc[o] > 0
                               /\ Tracked(o)' <=> rc[o] > 0
<1>1. /\ phase = "mutator" /\ phase' = phase /\ rc' = rc /\ strong' = strong
      /\ cands' = cands /\ buffer' = buffer /\ pushing' = pushing /\ lost' = lost
      /\ colour' = colour /\ cursor' = cursor /\ stk' = stk /\ blk' = blk
  BY DEF Mutate, ccVars
<1>2. /\ ColourInv' /\ SearchInv'
      /\ \A o \in Objects : /\ (Counted(o)' <=> rc[o] > 0) /\ (Tracked(o)' <=> rc[o] > 0)
                            /\ o \in Black'
  BY <1>1, CalmKeeps DEF Collector
<1>3. PhasesInv'
  BY <1>1 DEF LXRInvariant, PhasesInv, Collector
<1>4. PushInv'
  BY <1>1 DEF LXRInvariant, PushInv
<1>5. StrongInv'
  <2>1. ~lost => \A o \in Objects : (rc[o] > 0) <=> (strong[o] > 0)
    BY <1>1, CalmColours DEF LXRInvariant, StrongInv, Collector
  <2> QED
    BY <1>1, <1>2, <2>1 DEF StrongInv, Black
<1> QED
  BY <1>2, <1>3, <1>4, <1>5

\* Exact counts, object by object.
LEMMA ExactNext ==
  ASSUME \A x \in Objects :
            rc'[x] # MAX_REF_COUNT =>
              rc'[x] = Cardinality(Holding(x)') + decs'[x] + currRoots'[x] + prevRoots'[x]
  PROVE  CountsAreExact'
  BY DEF CountsAreExact, Holding, Stuck

\* Counts stay exact when neither they, nor what they count, change.
LEMMA SameHolding ==
  ASSUME TypeOK, TypeOK', CountsAreExact, rc' = rc,
         \A x \in Objects : /\ Holding(x)' = Holding(x)
                            /\ decs'[x] + currRoots'[x] + prevRoots'[x]
                                 = decs[x] + currRoots[x] + prevRoots[x]
  PROVE  CountsAreExact'
<1> SUFFICES ASSUME NEW x \in Objects, rc[x] # MAX_REF_COUNT
             PROVE  rc[x] = Cardinality(Holding(x)) + decs'[x] + currRoots'[x] + prevRoots'[x]
  BY ExactNext
<1> DEFINE h == Cardinality(Holding(x))
<1>1. h \in Nat /\ rc[x] = h + decs[x] + currRoots[x] + prevRoots[x]
  BY HeldHasCount DEF Exact
<1>2. /\ decs[x] \in Nat /\ currRoots[x] \in Nat /\ prevRoots[x] \in Nat
      /\ decs'[x] \in Nat /\ currRoots'[x] \in Nat /\ prevRoots'[x] \in Nat
  BY DEF TypeOK
<1> HIDE DEF h
<1>3. rc[x] = h + decs'[x] + currRoots'[x] + prevRoots'[x]
  BY <1>1, <1>2, SMTT(30)
<1> QED
  BY <1>3 DEF h

\* Allocation takes memory with no count: no counted slot is in it.
LEMMA AllocStep ==
  ASSUME LXRInvariant, NEW r \in RootSlots, NEW o \in Objects, Alloc(r, o)
  PROVE  LXRInvariant'
<1>1. /\ Mutate /\ phase = "mutator" /\ phase' = phase /\ rc' = rc /\ rc[o] = 0 /\ o \notin young
      /\ currRoots' = currRoots /\ prevRoots' = prevRoots /\ decs' = decs /\ incs' = incs
      /\ young' = young \cup {o} /\ unlogged' = {s \in unlogged : s[1] # o}
      /\ fields' = [fields EXCEPT ![o] = [f \in Fields |-> Null]]
      /\ roots' = [roots EXCEPT ![r] = o]
  BY DEF Alloc, Mutate
<1>2. /\ PhasesInv' /\ PushInv' /\ ColourInv' /\ SearchInv' /\ StrongInv'
      /\ \A x \in Objects : (Counted(x)' <=> rc[x] > 0) /\ (Tracked(x)' <=> rc[x] > 0)
  BY <1>1, MutateKeeps
<1>3. \A x \in Objects : (Counted(x) <=> rc[x] > 0) /\ (Tracked(x) <=> rc[x] > 0)
  BY <1>1, CalmColours DEF LXRInvariant, Collector
<1>4. ~(0 > 0) /\ ops + 1 \in 0..MaxOps
  <2>1. ops \in 0..MaxOps /\ ops < MaxOps
    BY <1>1 DEF Mutate, LXRInvariant, TypeOK
  <2> QED
    BY <2>1, CountAssumption, SMTT(30)
<1>5. TypeOK'
  BY <1>1, <1>4 DEF LXRInvariant, TypeOK, Mutate, ccVars
<1>6. LogInv'
  <2>1. \A s \in Slots : Tracked(s[1])' => s \in unlogged' \/ <<"MATURE", s>> \in incs'
    <3> TAKE s \in Slots
    <3> HAVE Tracked(s[1])'
    <3>1. rc[s[1]] > 0 /\ s[1] # o /\ s[1] \in Objects
      BY <1>1, <1>2, <1>4 DEF Slots
    <3>2. s \in unlogged \/ <<"MATURE", s>> \in incs
      BY <1>3, <3>1 DEF LXRInvariant, LogInv
    <3> QED
      BY <1>1, <3>1, <3>2
  <2>2. \A p \in incs : p[1] = "MATURE"
    BY <1>1 DEF LXRInvariant, LogInv
  <2>3. \A s \in Slots : <<"NURSERY", s>> \notin incs
    <3> TAKE s \in Slots
    <3>1. <<"NURSERY", s>>[1] = "NURSERY"
      OBVIOUS
    <3> QED
      BY <2>2, <3>1
  <2>4. \A s \in Slots : <<"MATURE", s>> \in incs => s \notin unlogged /\ rc[s[1]] > 0
    BY DEF LXRInvariant, LogInv
  <2>5. \A x \in young' : rc[x] = 0 /\ \A f \in Fields : <<x, f>> \notin unlogged'
    BY <1>1 DEF LXRInvariant, LogInv
  <2> QED
    BY <1>1, <2>1, <2>2, <2>3, <2>4, <2>5 DEF LogInv
<1>7. CountsAreExact'
  <2>1. ASSUME NEW x \in Objects PROVE Holding(x)' = Holding(x)
    <3>1. \A s \in Slots : Counted(s[1]) \/ Counted(s[1])' => fields'[s[1]] = fields[s[1]]
      <4> TAKE s \in Slots
      <4> HAVE Counted(s[1]) \/ Counted(s[1])'
      <4>1. s[1] \in Objects /\ s[1] # o
        BY <1>1, <1>2, <1>3, <1>4 DEF Slots
      <4> QED
        BY <1>1, <4>1 DEF LXRInvariant, TypeOK
    <3>2. \A s \in Slots : Counted(s[1]) <=> Counted(s[1])'
      BY <1>2, <1>3 DEF Slots
    <3> QED
      BY <1>1, <3>1, <3>2 DEF Holding, Pending
  <2> QED
    BY <1>1, <1>5, <2>1, SameHolding DEF LXRInvariant
<1>8. RootInv'
  <2>1. \A x \in Objects : x \in Held' <=> x \in Held \/ x = o
    BY <1>1 DEF Held
  <2>2. Targets(o)' = {}
    BY <1>1, CountAssumption DEF Targets, LXRInvariant, TypeOK
  <2>3. \A x \in Objects : x # o => Targets(x)' = Targets(x)
    BY <1>1 DEF Targets, LXRInvariant, TypeOK
  <2>4. /\ \A q \in RootSlots : roots[q] \in Held \cup {Null}
        /\ \A x \in Held : Targets(x) \subseteq Held
    BY <1>1 DEF LXRInvariant, RootInv
  <2>5. \A q \in RootSlots : roots'[q] \in Held' \cup {Null}
    <3> TAKE q \in RootSlots
    <3>1. roots'[q] = IF q = r THEN o ELSE roots[q]
      BY <1>1 DEF LXRInvariant, TypeOK
    <3> QED
      BY <2>1, <2>4, <3>1 DEF Held
  <2>6. \A x \in Held' : Targets(x)' \subseteq Held'
    <3> TAKE x \in Held'
    <3>1. x \in Objects
      BY DEF Held
    <3>2. CASE x = o
      BY <2>2, <3>2
    <3>3. CASE x # o
      <4>1. Targets(x)' \subseteq Held
        BY <2>1, <2>3, <2>4, <3>1, <3>3
      <4> QED
        BY <2>1, <4>1 DEF Held
    <3> QED
      BY <3>2, <3>3
  <2> QED
    BY <1>1, <2>5, <2>6 DEF RootInv
<1> QED
  BY <1>2, <1>5, <1>6, <1>7, <1>8 DEF LXRInvariant

\* A root moves or is dropped: the mutator only finds what is held.
LEMMA RootStep ==
  ASSUME LXRInvariant, Mutate, NEW r \in RootSlots, NEW x,
         x = Null \/ (\E q \in RootSlots, f \in Fields : roots[q] # Null /\ x = fields[roots[q]][f]),
         roots' = [roots EXCEPT ![r] = x],
         UNCHANGED <<fields, young, unlogged, incs, decs>>
  PROVE  LXRInvariant'
<1>1. /\ phase = "mutator" /\ phase' = phase /\ rc' = rc
      /\ currRoots' = currRoots /\ prevRoots' = prevRoots /\ decs' = decs /\ incs' = incs
      /\ young' = young /\ unlogged' = unlogged /\ fields' = fields
  BY DEF Mutate
<1>2. /\ PhasesInv' /\ PushInv' /\ ColourInv' /\ SearchInv' /\ StrongInv'
      /\ \A y \in Objects : (Counted(y)' <=> rc[y] > 0) /\ (Tracked(y)' <=> rc[y] > 0)
  BY <1>1, MutateKeeps
<1>3. \A y \in Objects : (Counted(y) <=> rc[y] > 0) /\ (Tracked(y) <=> rc[y] > 0)
  BY <1>1, CalmColours DEF LXRInvariant, Collector
<1>4. ops + 1 \in 0..MaxOps
  <2>1. ops \in 0..MaxOps /\ ops < MaxOps
    BY <1>1 DEF Mutate, LXRInvariant, TypeOK
  <2> QED
    BY <2>1, CountAssumption, SMTT(30)
<1>5. /\ \A q \in RootSlots : roots[q] \in Held \cup {Null}
      /\ \A y \in Held : Targets(y) \subseteq Held
  BY <1>1 DEF LXRInvariant, RootInv
<1>6. x \in Held \cup {Null}
  <2>1. CASE x = Null
    BY <2>1
  <2>2. ASSUME NEW q \in RootSlots, NEW f \in Fields, roots[q] # Null, x = fields[roots[q]][f]
        PROVE  x \in Held \cup {Null}
    <3>1. roots[q] \in Held /\ roots[q] \in Objects
      BY <1>5, <2>2 DEF Held
    <3>2. x \in Objects \cup {Null}
      <4>1. fields[roots[q]] \in [Fields -> Objects \cup {Null}]
        BY <3>1 DEF LXRInvariant, TypeOK
      <4> QED
        BY <2>2, <4>1
    <3>3. x \in Objects => x \in Targets(roots[q])
      BY <2>2 DEF Targets
    <3> QED
      BY <1>5, <3>1, <3>2, <3>3
  <2> QED
    BY <2>1, <2>2
<1>7. TypeOK'
  <2>1. x \in Objects \cup {Null}
    BY <1>6 DEF Held
  <2> QED
    BY <1>1, <1>4, <2>1 DEF LXRInvariant, TypeOK, Mutate, ccVars
<1>8. LogInv'
  <2>1. \A y \in Objects : Tracked(y)' <=> Tracked(y)
    BY <1>2, <1>3
  <2>2. \A s \in Slots : s[1] \in Objects
    BY DEF Slots
  <2> QED
    BY <1>1, <2>1, <2>2 DEF LXRInvariant, LogInv
<1>9. CountsAreExact'
  <2>1. \A s \in Slots : Counted(s[1]) <=> Counted(s[1])'
    BY <1>2, <1>3 DEF Slots
  <2>2. ASSUME NEW y \in Objects PROVE Holding(y)' = Holding(y)
    BY <1>1, <2>1 DEF Holding, Pending
  <2> QED
    BY <1>1, <1>7, <2>2, SameHolding DEF LXRInvariant
<1>10. RootInv'
  <2>1. Held' = Held /\ \A y : Targets(y)' = Targets(y)
    BY <1>1 DEF Held, Targets
  <2>2. \A q \in RootSlots : roots'[q] \in Held \cup {Null}
    BY <1>5, <1>6 DEF LXRInvariant, TypeOK
  <2> QED
    BY <1>1, <1>5, <2>1, <2>2 DEF RootInv
<1> QED
  BY <1>2, <1>7, <1>8, <1>9, <1>10 DEF LXRInvariant

\* The write barrier: the first write to an unlogged field of a counted object
\* logs it, which turns what the old value counted into a decrement owed to it.
LEMMA WriteStep ==
  ASSUME LXRInvariant, NEW r \in RootSlots, NEW f \in Fields, NEW target \in Objects \cup {Null},
         ObjectReferenceWrite(r, f, target)
  PROVE  LXRInvariant'
<1> DEFINE src == roots[r]
           slot == <<src, f>>
           old == fields[src][f]
<1>1. /\ Mutate /\ phase = "mutator" /\ phase' = phase /\ rc' = rc
      /\ currRoots' = currRoots /\ prevRoots' = prevRoots /\ young' = young /\ roots' = roots
      /\ src # Null
      /\ target \in {roots[q] : q \in RootSlots} \cup {Null}
      /\ fields' = [fields EXCEPT ![src][f] = target]
      /\ enqueue_node(slot)
  BY DEF ObjectReferenceWrite, Mutate
<1>2. /\ PhasesInv' /\ PushInv' /\ ColourInv' /\ SearchInv' /\ StrongInv'
      /\ \A x \in Objects : (Counted(x)' <=> rc[x] > 0) /\ (Tracked(x)' <=> rc[x] > 0)
  BY <1>1, MutateKeeps
<1>3. \A x \in Objects : (Counted(x) <=> rc[x] > 0) /\ (Tracked(x) <=> rc[x] > 0)
  BY <1>1, CalmColours DEF LXRInvariant, Collector
<1>4. ops + 1 \in 0..MaxOps
  <2>1. ops \in 0..MaxOps /\ ops < MaxOps
    BY <1>1 DEF Mutate, LXRInvariant, TypeOK
  <2> QED
    BY <2>1, CountAssumption, SMTT(30)
<1>5. /\ \A q \in RootSlots : roots[q] \in Held \cup {Null}
      /\ \A y \in Held : Targets(y) \subseteq Held
  BY <1>1 DEF LXRInvariant, RootInv
<1>6. src \in Objects /\ src \in Held /\ slot \in Slots
  BY <1>1, <1>5 DEF Held, Slots
<1>7. /\ old \in Objects \cup {Null}
      /\ fields' \in [Objects -> [Fields -> Objects \cup {Null}]]
      /\ \A s \in Slots : fields'[s[1]][s[2]] = IF s = slot THEN target ELSE fields[s[1]][s[2]]
  <2>1. fields \in [Objects -> [Fields -> Objects \cup {Null}]]
    BY DEF LXRInvariant, TypeOK
  <2>2. old \in Objects \cup {Null}
    <3>1. fields[src] \in [Fields -> Objects \cup {Null}]
      BY <1>6, <2>1
    <3> QED
      BY <3>1
  <2>3. \A x \in Objects, g \in Fields :
           fields'[x][g] = IF x = src /\ g = f THEN target ELSE fields[x][g]
    BY <1>1, <1>6, <2>1
  <2>4. \A s \in Slots : s[1] \in Objects /\ s[2] \in Fields /\ s = <<s[1], s[2]>>
    BY Pairs
  <2>5. \A s \in Slots : s = slot <=> s[1] = src /\ s[2] = f
    BY <2>4, SMTT(30)
  <2>6. fields' \in [Objects -> [Fields -> Objects \cup {Null}]]
    BY <1>1, <1>6, <2>1
  <2> HIDE DEF slot
  <2> QED
    BY <2>2, <2>3, <2>4, <2>5, <2>6
<1>8. slot \in unlogged => rc[src] > 0 /\ Counted(src) /\ ~Pending(src, f)
  <2> HAVE slot \in unlogged
  <2>1. src \notin young
    BY DEF LXRInvariant, LogInv
  <2>2. rc[src] > 0
    BY <1>6, <2>1 DEF Held
  <2>3. ASSUME NEW p \in incs, p[2] = slot PROVE FALSE
    <3>1. p[1] = "MATURE"
      BY <1>1 DEF LXRInvariant, LogInv
    <3>2. p \in (({"MATURE", "NURSERY"} \X Slots) \cup ({"ROOT"} \X RootSlots))
      BY DEF LXRInvariant, TypeOK
    <3>3. p = <<p[1], p[2]>>
      BY <3>2, Pairs
    <3>4. <<"MATURE", slot>> \in incs
      BY <2>3, <3>1, <3>3
    <3> QED
      BY <1>6, <3>4 DEF LXRInvariant, LogInv
  <2>4. ~Pending(src, f)
    BY <2>3 DEF Pending
  <2>5. Counted(src)
    BY <1>3, <1>6, <2>2
  <2> QED
    BY <2>2, <2>4, <2>5
<1>9. /\ slot \in unlogged =>
            /\ unlogged' = unlogged \ {slot} /\ incs' = incs \cup {<<"MATURE", slot>>}
            /\ decs' = IF old = Null THEN decs ELSE Plus(decs, old)
      /\ slot \notin unlogged => unlogged' = unlogged /\ incs' = incs /\ decs' = decs
  <2>1. Load(slot) = old
    BY <1>6 DEF Load
  <2> QED
    BY <1>1, <2>1 DEF enqueue_node, slow
<1>10. decs' \in [Objects -> Nat] /\ \A x \in Objects :
          decs'[x] = IF slot \in unlogged /\ x = old THEN decs[x] + 1 ELSE decs[x]
  <2>1. decs \in [Objects -> Nat] /\ \A n \in Nat : n + 1 \in Nat
    BY SMTT(30) DEF LXRInvariant, TypeOK
  <2>2. CASE slot \in unlogged /\ old # Null
    <3>1. decs' = [decs EXCEPT ![old] = decs[old] + 1] /\ old \in Objects
      BY <1>7, <1>9, <2>2 DEF Plus
    <3> QED
      BY <2>1, <2>2, <3>1
  <2>3. CASE ~(slot \in unlogged /\ old # Null)
    <3>1. decs' = decs /\ \A x \in Objects : ~(slot \in unlogged /\ x = old)
      BY <1>9, <2>3, CountAssumption
    <3> QED
      BY <2>1, <3>1
  <2> QED
    BY <2>2, <2>3
<1>11. TypeOK'
  <2>1. unlogged' \subseteq Slots
    BY <1>9 DEF LXRInvariant, TypeOK
  <2>2. incs' \subseteq ({"MATURE", "NURSERY"} \X Slots) \cup ({"ROOT"} \X RootSlots)
    <3>1. <<"MATURE", slot>> \in {"MATURE", "NURSERY"} \X Slots
      BY <1>6
    <3> QED
      BY <1>9, <3>1 DEF LXRInvariant, TypeOK
  <2> QED
    BY <1>1, <1>4, <1>7, <1>10, <2>1, <2>2 DEF LXRInvariant, TypeOK, Mutate, ccVars
<1>12. LogInv'
  <2>1. \A s \in Slots : s[1] \in Objects /\ (<<"MATURE", s>> = <<"MATURE", slot>> <=> s = slot)
    BY DEF Slots
  <2>2. \A s \in Slots : <<"NURSERY", s>> # <<"MATURE", slot>>
    OBVIOUS
  <2>3. \A p \in incs' : p[1] = "MATURE"
    <3>1. \A p \in incs : p[1] = "MATURE"
      BY <1>1 DEF LXRInvariant, LogInv
    <3>2. incs' \subseteq incs \cup {<<"MATURE", slot>>} /\ <<"MATURE", slot>>[1] = "MATURE"
      BY <1>9
    <3> QED
      BY <3>1, <3>2
  <2>4. \A s \in Slots : <<"NURSERY", s>> \notin incs'
    <3> TAKE s \in Slots
    <3>1. <<"NURSERY", s>>[1] = "NURSERY"
      OBVIOUS
    <3> QED
      BY <2>3, <3>1
  <2>5. \A s \in Slots : <<"MATURE", s>> \in incs' => s \notin unlogged' /\ rc[s[1]] > 0
    <3> TAKE s \in Slots
    <3> HAVE <<"MATURE", s>> \in incs'
    <3>1. CASE s = slot /\ slot \in unlogged
      BY <1>8, <1>9, <3>1
    <3>2. CASE ~(s = slot /\ slot \in unlogged)
      <4>1. <<"MATURE", s>> \in incs
        BY <1>9, <2>1, <3>2
      <4> QED
        BY <1>9, <4>1 DEF LXRInvariant, LogInv
    <3> QED
      BY <3>1, <3>2
  <2>6. \A s \in Slots : Tracked(s[1])' => s \in unlogged' \/ <<"MATURE", s>> \in incs'
    <3> TAKE s \in Slots
    <3> HAVE Tracked(s[1])'
    <3>1. s \in unlogged \/ <<"MATURE", s>> \in incs
      BY <1>2, <1>3, <2>1 DEF LXRInvariant, LogInv
    <3> QED
      BY <1>9, <2>1, <3>1
  <2>7. \A o \in young : rc[o] = 0 /\ \A g \in Fields : <<o, g>> \notin unlogged'
    BY <1>9 DEF LXRInvariant, LogInv
  <2> QED
    BY <1>1, <2>3, <2>4, <2>5, <2>6, <2>7 DEF LogInv
<1>13. ASSUME NEW x \in Objects
       PROVE  Holding(x)' = IF slot \in unlogged /\ x = old THEN Holding(x) \ {slot} ELSE Holding(x)
  <2>1. \A s \in Slots : s # slot =>
           /\ Counted(s[1])' <=> Counted(s[1])
           /\ fields'[s[1]][s[2]] = fields[s[1]][s[2]]
           /\ Pending(s[1], s[2])' <=> Pending(s[1], s[2])
    <3> TAKE s \in Slots
    <3> HAVE s # slot
    <3>1. s[1] \in Objects /\ s = <<s[1], s[2]>>
      BY Pairs
    <3>2. Counted(s[1])' <=> Counted(s[1])
      BY <1>2, <1>3, <3>1
    <3>3. <<"MATURE", slot>>[2] # <<s[1], s[2]>>
      BY <3>1
    <3>4. Pending(s[1], s[2])' <=> Pending(s[1], s[2])
      BY <1>9, <3>3 DEF Pending
    <3> QED
      BY <1>7, <3>2, <3>4
  <2>2. slot \notin Holding(x)'
    <3>1. CASE slot \in unlogged
      <4>1. <<"MATURE", slot>> \in incs' /\ <<"MATURE", slot>>[2] = <<src, f>>
        BY <1>9, <3>1
      <4> QED
        BY <4>1 DEF Holding, Pending
    <3>2. CASE slot \notin unlogged /\ rc[src] > 0
      <4>1. <<"MATURE", slot>> \in incs
        BY <1>3, <1>6, <3>2 DEF LXRInvariant, LogInv
      <4>2. <<"MATURE", slot>> \in incs' /\ <<"MATURE", slot>>[2] = <<src, f>>
        BY <1>9, <3>2, <4>1
      <4> QED
        BY <4>2 DEF Holding, Pending
    <3>3. CASE ~(rc[src] > 0)
      BY <1>2, <1>6, <3>3 DEF Holding
    <3> QED
      BY <3>1, <3>2, <3>3
  <2>3. slot \in Holding(x) <=> slot \in unlogged /\ x = old
    <3>1. CASE slot \in unlogged
      BY <1>6, <1>8, <3>1 DEF Holding
    <3>2. CASE slot \notin unlogged /\ rc[src] > 0
      <4>1. <<"MATURE", slot>> \in incs /\ <<"MATURE", slot>>[2] = <<src, f>>
        BY <1>3, <1>6, <3>2 DEF LXRInvariant, LogInv
      <4> QED
        BY <3>2, <4>1 DEF Holding, Pending
    <3>3. CASE slot \notin unlogged /\ ~(rc[src] > 0)
      BY <1>3, <1>6, <3>3 DEF Holding
    <3> QED
      BY <3>1, <3>2, <3>3
  <2>4. \A s \in Slots : s # slot => (s \in Holding(x)' <=> s \in Holding(x))
    <3> TAKE s \in Slots
    <3> HAVE s # slot
    <3> QED
      BY <2>1 DEF Holding
  <2>5. Holding(x)' \subseteq Slots /\ Holding(x) \subseteq Slots
    BY DEF Holding
  <2> DEFINE B == Holding(x)'
             A == Holding(x)
  <2>6. /\ slot \notin B /\ (slot \in A <=> slot \in unlogged /\ x = old)
        /\ (\A s \in Slots : s # slot => (s \in B <=> s \in A)) /\ A \subseteq Slots /\ B \subseteq Slots
    BY <2>2, <2>3, <2>4, <2>5
  <2> SUFFICES B = IF slot \in unlogged /\ x = old THEN A \ {slot} ELSE A
    OBVIOUS
  <2> HIDE DEF slot, old, A, B
  <2>7. CASE slot \in unlogged /\ x = old
    <3>1. B = A \ {slot}
      BY <2>6
    <3> QED
      BY <2>7, <3>1
  <2>8. CASE ~(slot \in unlogged /\ x = old)
    <3>1. slot \notin A
      BY <2>6, <2>8
    <3>2. \A s : s \in B <=> s \in A
      BY <2>6, <3>1
    <3> QED
      BY <2>8, <3>2
  <2> QED
    BY <2>7, <2>8
<1>14. CountsAreExact'
  <2> SUFFICES ASSUME NEW x \in Objects, rc[x] # MAX_REF_COUNT
               PROVE  rc[x] = Cardinality(Holding(x)') + decs'[x] + currRoots[x] + prevRoots[x]
    BY <1>1, ExactNext
  <2> DEFINE h == Cardinality(Holding(x))
             k == Cardinality(Holding(x)')
  <2>1. /\ h \in Nat /\ decs[x] \in Nat /\ currRoots[x] \in Nat /\ prevRoots[x] \in Nat
        /\ rc[x] = h + decs[x] + currRoots[x] + prevRoots[x] /\ Holding(x) \in SUBSET Slots
    BY HeldHasCount DEF Exact, LXRInvariant
  <2>2. CASE slot \in unlogged /\ x = old
    <3>1. slot \in Holding(x)
      BY <1>6, <1>8, <2>2 DEF Holding
    <3>2. k = h - 1
      <4> DEFINE A == Holding(x)
      <4>1. Holding(x)' = A \ {slot} /\ A \in SUBSET Slots /\ slot \in A
        BY <1>13, <2>1, <2>2, <3>1
      <4> HIDE DEF A, slot
      <4>2. IsFiniteSet(A)
        BY <4>1, CountSlots
      <4>3. Cardinality(A \ {slot}) = Cardinality(A) - 1
        BY <4>1, <4>2, FS_RemoveElement
      <4> QED
        BY <4>1, <4>3 DEF A
    <3>3. decs'[x] = decs[x] + 1
      BY <1>10, <2>2
    <3> HIDE DEF h, k
    <3>4. rc[x] = k + decs'[x] + currRoots[x] + prevRoots[x]
      BY <2>1, <3>2, <3>3, SMTT(30)
    <3> QED
      BY <3>4 DEF k
  <2>3. CASE ~(slot \in unlogged /\ x = old)
    <3>1. Holding(x)' = Holding(x) /\ decs'[x] = decs[x]
      BY <1>10, <1>13, <2>3
    <3> QED
      BY <2>1, <3>1
  <2> QED
    BY <2>2, <2>3
<1>15. RootInv'
  <2>1. Held' = Held
    BY <1>1 DEF Held
  <2>2. target \in Held \cup {Null}
    BY <1>1, <1>5
  <2>3. \A x \in Held : Targets(x)' \subseteq Held
    <3> TAKE x \in Held
    <3>1. ASSUME NEW g \in Fields, fields'[x][g] \in Objects PROVE fields'[x][g] \in Held
      <4>1. x \in Objects /\ <<x, g>> \in Slots
        BY DEF Held, Slots
      <4>2. fields'[x][g] = IF <<x, g>> = slot THEN target ELSE fields[x][g]
        BY <1>7, <4>1
      <4>3. CASE <<x, g>> = slot
        BY <2>2, <3>1, <4>2, <4>3, CountAssumption
      <4>4. CASE <<x, g>> # slot
        <5>1. fields'[x][g] \in Targets(x)
          BY <3>1, <4>2, <4>4 DEF Targets
        <5> QED
          BY <1>5, <5>1
      <4> QED
        BY <4>3, <4>4
    <3> QED
      BY <3>1 DEF Targets
  <2> QED
    BY <1>1, <1>5, <2>1, <2>3 DEF RootInv
<1> QED
  BY <1>2, <1>11, <1>12, <1>14, <1>15 DEF LXRInvariant

-----------------------------------------------------------------------------
(* The increments.                                                         *)

\* A pause begins: root decrements are queued, and the root slots.
LEMMA ScheduleStep ==
  ASSUME LXRInvariant, schedule_rc_collection
  PROVE  LXRInvariant'
<1>1. /\ phase = "mutator" /\ phase' = "incs" /\ rc' = rc /\ strong' = strong
      /\ fields' = fields /\ roots' = roots /\ young' = young /\ unlogged' = unlogged /\ ops' = ops
      /\ colour' = colour /\ stk' = stk /\ blk' = blk /\ cursor' = cursor
      /\ currRoots' = currRoots /\ cands' = cands /\ buffer' = buffer /\ pushing' = pushing
      /\ lost' = lost /\ incs' = incs \cup RootIncs /\ pauses' = pauses + 1
      /\ decs' = [o \in Objects |-> decs[o] + prevRoots[o]]
      /\ prevRoots' = [o \in Objects |-> 0]
  BY DEF schedule_rc_collection, heapVars, ccVars, process_prev_roots
<1>2. \A o \in Objects : (Counted(o) <=> rc[o] > 0) /\ (Tracked(o) <=> rc[o] > 0) /\ o \in Black
  BY <1>1, CalmColours DEF LXRInvariant, Collector
<1>3. /\ ColourInv' /\ SearchInv'
      /\ \A o \in Objects : /\ (Counted(o)' <=> rc[o] > 0) /\ (Tracked(o)' <=> rc[o] > 0)
                            /\ o \in Black'
  BY <1>1, CalmKeeps DEF Collector
<1>4. TypeOK'
  <2>1. pauses + 1 \in 0..MaxPauses
    <3>1. pauses \in 0..MaxPauses /\ pauses < MaxPauses
      BY DEF schedule_rc_collection, LXRInvariant, TypeOK
    <3> QED
      BY <3>1, CountAssumption, SMTT(30)
  <2>2. decs' \in [Objects -> Nat] /\ prevRoots' \in [Objects -> Nat]
    <3>1. \A o \in Objects : decs[o] + prevRoots[o] \in Nat
      <4> TAKE o \in Objects
      <4>1. decs[o] \in Nat /\ prevRoots[o] \in Nat
        BY DEF LXRInvariant, TypeOK
      <4> QED
        BY <4>1, SMTT(30)
    <3>2. 0 \in Nat
      BY SMTT(30)
    <3> QED
      BY <1>1, <3>1, <3>2
  <2>3. incs' \subseteq ({"MATURE", "NURSERY"} \X Slots) \cup ({"ROOT"} \X RootSlots)
    <3>1. RootIncs \subseteq {"ROOT"} \X RootSlots
      BY SMTT(30) DEF RootIncs
    <3> QED
      BY <1>1, <3>1 DEF LXRInvariant, TypeOK
  <2> QED
    BY <1>1, <2>1, <2>2, <2>3 DEF LXRInvariant, TypeOK
<1>5. PhasesInv'
  BY <1>1 DEF LXRInvariant, PhasesInv, Collector
<1>6. PushInv'
  BY <1>1 DEF LXRInvariant, PushInv
<1>7. \A k \in {"MATURE", "NURSERY"} : \A s : <<k, s>> \in incs' <=> <<k, s>> \in incs
  <2>1. \A k \in {"MATURE", "NURSERY"} : \A s : <<k, s>> \notin RootIncs
    <3> TAKE k \in {"MATURE", "NURSERY"}
    <3> TAKE s
    <3>1. \A r \in RootSlots : <<k, s>> # <<"ROOT", r>>
      OBVIOUS
    <3> QED
      BY <3>1 DEF RootIncs
  <2> QED
    BY <1>1, <2>1
<1>8. LogInv'
  <2>1. \A s \in Slots : Tracked(s[1])' <=> Tracked(s[1])
    BY <1>2, <1>3, Pairs
  <2> QED
    BY <1>1, <1>7, <2>1 DEF LXRInvariant, LogInv
<1>9. CountsAreExact'
  <2>1. ASSUME NEW x \in Objects PROVE Holding(x)' = Holding(x)
    <3>1. \A s \in Slots : Counted(s[1])' <=> Counted(s[1])
      BY <1>2, <1>3, Pairs
    <3>2. ASSUME NEW s \in Slots PROVE Pending(s[1], s[2])' <=> Pending(s[1], s[2])
      <4>1. s = <<s[1], s[2]>>
        BY Pairs
      <4>2. \A p \in RootIncs : p[2] # s
        BY Pairs DEF RootIncs
      <4> QED
        BY <1>1, <4>1, <4>2 DEF Pending
    <3> QED
      BY <1>1, <3>1, <3>2 DEF Holding
  <2>2. ASSUME NEW x \in Objects
        PROVE  decs'[x] + currRoots'[x] + prevRoots'[x] = decs[x] + currRoots[x] + prevRoots[x]
    <3>1. /\ decs'[x] = decs[x] + prevRoots[x] /\ prevRoots'[x] = 0 /\ currRoots'[x] = currRoots[x]
          /\ decs[x] \in Nat /\ currRoots[x] \in Nat /\ prevRoots[x] \in Nat
      BY <1>1 DEF LXRInvariant, TypeOK
    <3> QED
      BY <3>1, SMTT(30)
  <2> QED
    BY <1>1, <1>4, <2>1, <2>2, SameHolding DEF LXRInvariant
<1>10. RootInv'
  <2>1. Held' = Held /\ \A y : Targets(y)' = Targets(y)
    BY <1>1 DEF Held, Targets
  <2>2. \A r \in RootSlots : <<"ROOT", r>> \in incs'
    BY <1>1 DEF RootIncs
  <2> QED
    BY <1>1, <2>1, <2>2 DEF LXRInvariant, RootInv
<1>11. StrongInv'
  <2>1. ~lost => \A o \in Objects : (rc[o] > 0) <=> (strong[o] > 0)
    BY <1>1, <1>2 DEF LXRInvariant, StrongInv
  <2> QED
    BY <1>1, <1>3, <2>1 DEF StrongInv, Black
<1> QED
  BY <1>3, <1>4, <1>5, <1>6, <1>8, <1>9, <1>10, <1>11 DEF LXRInvariant

\* A queued slot other than a root belongs to a counted object and is queued
\* once; what it holds is held.
LEMMA QueuedSlot ==
  ASSUME LXRInvariant, phase = "incs", NEW kind, NEW slot, <<kind, slot>> \in incs
  PROVE  /\ kind \in {"MATURE", "NURSERY", "ROOT"}
         /\ kind = "ROOT" => slot \in RootSlots /\ slot \notin Slots /\ Load(slot) = roots[slot]
         /\ kind # "ROOT" => /\ slot \in Slots /\ rc[slot[1]] > 0
                             /\ Load(slot) = fields[slot[1]][slot[2]]
                             /\ \A p \in incs : p[2] = slot => p = <<kind, slot>>
         /\ Load(slot) \in Held \cup {Null}
<1>1. \A p \in incs :
         p = <<p[1], p[2]>> /\ p[1] \in {"MATURE", "NURSERY", "ROOT"}
         /\ (p[1] # "ROOT" => p[2] \in Slots) /\ (p[1] = "ROOT" => p[2] \in RootSlots)
  BY Pairs DEF LXRInvariant, TypeOK
<1>2. <<kind, slot>>[1] = kind /\ <<kind, slot>>[2] = slot
  OBVIOUS
<1>3. /\ kind \in {"MATURE", "NURSERY", "ROOT"}
      /\ kind # "ROOT" => slot \in Slots
      /\ kind = "ROOT" => slot \in RootSlots
  BY <1>1, <1>2
<1>4. /\ \A r \in RootSlots : roots[r] \in Held \cup {Null}
      /\ \A o \in Held : Targets(o) \subseteq Held
  BY DEF LXRInvariant, RootInv
<1>5. CASE kind = "ROOT"
  BY <1>3, <1>4, <1>5, Pairs DEF Load
<1>6. CASE kind # "ROOT"
  <2>1. slot \in Slots /\ Load(slot) = fields[slot[1]][slot[2]]
    BY <1>3, <1>6 DEF Load
  <2>2. rc[slot[1]] > 0
    BY <1>3, <1>6, <2>1 DEF LXRInvariant, LogInv
  <2>3. ASSUME NEW p \in incs, p[2] = slot PROVE p = <<kind, slot>>
    <3>1. p[1] # "ROOT"
      BY <1>1, <2>1, <2>3, Pairs
    <3>2. p[1] \in {"MATURE", "NURSERY"} /\ <<p[1], slot>> \in incs /\ p = <<p[1], slot>>
      BY <1>1, <2>3, <3>1
    <3>3. p[1] = kind
      BY <1>3, <1>6, <2>1, <3>2 DEF LXRInvariant, LogInv
    <3> QED
      BY <3>2, <3>3
  <2>4. Load(slot) \in Held \cup {Null}
    <3>1. slot[1] \in Objects /\ slot[2] \in Fields
      BY <2>1, Pairs
    <3>2. slot[1] \in Held /\ fields[slot[1]] \in [Fields -> Objects \cup {Null}]
      BY <2>2, <3>1 DEF Held, LXRInvariant, TypeOK
    <3>3. fields[slot[1]][slot[2]] \in Objects \cup {Null}
      BY <3>1, <3>2
    <3>4. fields[slot[1]][slot[2]] \in Objects => fields[slot[1]][slot[2]] \in Targets(slot[1])
      BY <3>1 DEF Targets
    <3> QED
      BY <1>4, <2>1, <3>2, <3>3, <3>4
  <2> QED
    BY <1>3, <1>6, <2>1, <2>2, <2>3, <2>4
<1> QED
  BY <1>3, <1>5, <1>6

\* A queued slot that holds no object is only unlogged.
LEMMA NullIncStep ==
  ASSUME LXRInvariant, NEW kind, NEW slot, process_slot(kind, slot), Load(slot) = Null
  PROVE  LXRInvariant'
<1>1. /\ phase = "incs" /\ phase' = phase /\ <<kind, slot>> \in incs
      /\ incs' = incs \ {<<kind, slot>>} /\ unlogged' = unlogged \cup Unlogs(kind, slot)
      /\ rc' = rc /\ strong' = strong /\ young' = young /\ currRoots' = currRoots
      /\ roots' = roots /\ fields' = fields /\ ops' = ops /\ decs' = decs /\ prevRoots' = prevRoots
      /\ cands' = cands /\ buffer' = buffer /\ pushing' = pushing /\ lost' = lost
      /\ pauses' = pauses /\ colour' = colour /\ cursor' = cursor /\ stk' = stk /\ blk' = blk
  BY DEF process_slot, ccVars
<1>2. \A o \in Objects : (Counted(o) <=> rc[o] > 0) /\ (Tracked(o) <=> rc[o] > 0) /\ o \in Black
  BY <1>1, CalmColours DEF LXRInvariant, Collector
<1>3. /\ ColourInv' /\ SearchInv'
      /\ \A o \in Objects : (Counted(o)' <=> rc[o] > 0) /\ (Tracked(o)' <=> rc[o] > 0) /\ o \in Black'
  BY <1>1, CalmKeeps DEF Collector
<1>4. /\ kind \in {"MATURE", "NURSERY", "ROOT"}
      /\ kind = "ROOT" => slot \in RootSlots /\ slot \notin Slots /\ roots[slot] = Null
      /\ kind # "ROOT" => /\ slot \in Slots /\ rc[slot[1]] > 0 /\ fields[slot[1]][slot[2]] = Null
                          /\ \A p \in incs : p[2] = slot => p = <<kind, slot>>
  <2>1. /\ kind \in {"MATURE", "NURSERY", "ROOT"}
        /\ kind = "ROOT" => slot \in RootSlots /\ slot \notin Slots /\ Load(slot) = roots[slot]
        /\ kind # "ROOT" => /\ slot \in Slots /\ rc[slot[1]] > 0
                            /\ Load(slot) = fields[slot[1]][slot[2]]
                            /\ \A p \in incs : p[2] = slot => p = <<kind, slot>>
    BY <1>1, QueuedSlot
  <2> QED
    BY <2>1
<1>5. \A s : s \in unlogged' <=> s \in unlogged \/ (kind = "MATURE" /\ s = slot)
  BY <1>1 DEF Unlogs
<1>6. TypeOK'
  <2>1. unlogged' \subseteq Slots
    <3>1. unlogged \subseteq Slots
      BY DEF LXRInvariant, TypeOK
    <3>2. kind = "MATURE" => slot \in Slots
      BY <1>4
    <3> QED
      BY <1>5, <3>1, <3>2
  <2> QED
    BY <1>1, <2>1 DEF LXRInvariant, TypeOK
<1>7. PhasesInv'
  BY <1>1 DEF LXRInvariant, PhasesInv, Collector
<1>8. PushInv'
  BY <1>1 DEF LXRInvariant, PushInv
<1>9. LogInv'
  <2>1. \A s \in Slots : <<"MATURE", s>> \in incs' => s \notin unlogged' /\ rc[s[1]] > 0
    <3> TAKE s \in Slots
    <3> HAVE <<"MATURE", s>> \in incs'
    <3>1. <<"MATURE", s>> \in incs /\ ~(kind = "MATURE" /\ s = slot)
      BY <1>1
    <3>2. s \notin unlogged /\ rc[s[1]] > 0
      BY <3>1 DEF LXRInvariant, LogInv
    <3> QED
      BY <1>5, <3>1, <3>2
  <2>2. \A s \in Slots : <<"NURSERY", s>> \in incs' => s \in unlogged' /\ rc[s[1]] > 0
    BY <1>1, <1>5 DEF LXRInvariant, LogInv
  <2>3. \A s \in Slots : Tracked(s[1])' => s \in unlogged' \/ <<"MATURE", s>> \in incs'
    <3> TAKE s \in Slots
    <3> HAVE Tracked(s[1])'
    <3>1. s \in unlogged \/ <<"MATURE", s>> \in incs
      BY <1>2, <1>3, Pairs DEF LXRInvariant, LogInv
    <3>2. <<"MATURE", s>> = <<kind, slot>> => kind = "MATURE" /\ s = slot
      OBVIOUS
    <3> QED
      BY <1>1, <1>5, <3>1, <3>2
  <2>4. \A o \in young : rc[o] = 0 /\ \A f \in Fields : <<o, f>> \notin unlogged'
    <3> TAKE o \in young
    <3>1. rc[o] = 0 /\ \A f \in Fields : <<o, f>> \notin unlogged
      BY DEF LXRInvariant, LogInv
    <3>2. ~(0 > 0)
      BY SMTT(30)
    <3>3. ASSUME NEW f \in Fields, kind = "MATURE", <<o, f>> = slot PROVE FALSE
      <4>1. slot[1] = o
        BY <3>3
      <4> QED
        BY <1>4, <3>1, <3>2, <3>3, <4>1
    <3>4. \A f \in Fields : <<o, f>> \notin unlogged'
      <4> TAKE f \in Fields
      <4>1. <<o, f>> \notin unlogged /\ ~(kind = "MATURE" /\ <<o, f>> = slot)
        BY <3>1, <3>3
      <4> QED
        BY <1>5, <4>1
    <3> QED
      BY <3>1, <3>4
  <2> QED
    BY <1>1, <2>1, <2>2, <2>3, <2>4 DEF LogInv
<1>10. CountsAreExact'
  <2>1. ASSUME NEW x \in Objects PROVE Holding(x)' = Holding(x)
    <3>1. ASSUME NEW s \in Slots, fields[s[1]][s[2]] = x
          PROVE  Pending(s[1], s[2])' <=> Pending(s[1], s[2])
      <4>1. s = <<s[1], s[2]>>
        BY Pairs
      <4>2. s # slot
        BY <1>4, <3>1, CountAssumption
      <4>3. <<kind, slot>>[2] # s
        BY <4>2
      <4> QED
        BY <1>1, <4>1, <4>3 DEF Pending
    <3>2. \A s \in Slots : Counted(s[1])' <=> Counted(s[1])
      BY <1>2, <1>3, Pairs
    <3> QED
      BY <1>1, <3>1, <3>2 DEF Holding
  <2> QED
    BY <1>1, <1>6, <2>1, SameHolding DEF LXRInvariant
<1>11. RootInv'
  <2>1. Held' = Held /\ \A y : Targets(y)' = Targets(y)
    BY <1>1 DEF Held, Targets
  <2>2. \A r \in RootSlots : roots[r] # Null => <<"ROOT", r>> \in incs' \/ currRoots[roots[r]] > 0
    <3> TAKE r \in RootSlots
    <3> HAVE roots[r] # Null
    <3>1. <<"ROOT", r>> # <<kind, slot>>
      <4>1. <<"ROOT", r>> = <<kind, slot>> => kind = "ROOT" /\ r = slot
        OBVIOUS
      <4> QED
        BY <1>4, <4>1
    <3> QED
      BY <1>1, <3>1 DEF LXRInvariant, RootInv
  <2> QED
    BY <1>1, <2>1, <2>2 DEF LXRInvariant, RootInv
<1>12. StrongInv'
  <2>1. ~lost => \A o \in Objects : (rc[o] > 0) <=> (strong[o] > 0)
    BY <1>1, <1>2 DEF LXRInvariant, StrongInv
  <2> QED
    BY <1>1, <1>3, <2>1 DEF StrongInv, Black
<1> QED
  BY <1>3, <1>6, <1>7, <1>8, <1>9, <1>10, <1>11, <1>12 DEF LXRInvariant

\* The count of x after an increment of o, before promotion.
IncOf(o, x) == IF x = o THEN inc(rc[x]) ELSE rc[x]

\* The tables and the queue after an increment of o from slot: o gains one and,
\* when it is its first, every counted target of o gains the edges from o, the
\* slots of o with other targets are queued, and all its slots are unlogged.
IncTables(kind, slot, o) ==
  /\ \A x \in Objects :
       /\ IncOf(o, x) \in 0..MAX_REF_COUNT
       /\ rc'[x] = IF rc[o] = 0 /\ IncOf(o, x) # 0 THEN incBy(IncOf(o, x), EdgesTo(o, x)) ELSE IncOf(o, x)
       /\ strong'[x] = IF x = o /\ (rc[o] = 0 \/ kind = "ROOT")
                       THEN strong_rc_inc(strong[x]) ELSE strong[x]
       /\ currRoots'[x] = IF x = o /\ kind = "ROOT" THEN currRoots[x] + 1 ELSE currRoots[x]
       /\ rc'[x] > 0 <=> rc[x] > 0 \/ x = o
  /\ rc' \in [Objects -> 0..MAX_REF_COUNT] /\ strong' \in [Objects -> 0..MAX_STRONG_REF_COUNT]
  /\ currRoots' \in [Objects -> Nat]
  /\ \A x : x \in young' <=> x \in young /\ x # o
  /\ \A s : s \in unlogged' <=> (s \in unlogged \/ (kind = "MATURE" /\ s = slot)
                                 \/ (rc[o] = 0 /\ s \in Slots /\ s[1] = o))
IncQueue(kind, slot, o) ==
  /\ \A p \in incs' : \/ p \in incs /\ p # <<kind, slot>>
                      \/ \E f \in Fields : p = <<"NURSERY", <<o, f>>>> /\ rc[o] = 0
  /\ \A p \in incs : p # <<kind, slot>> => p \in incs'
  /\ \A f \in Fields : rc[o] = 0 /\ fields[o][f] \in Objects =>
       (<<"NURSERY", <<o, f>>>> \in incs' <=>
          \/ IncOf(o, fields[o][f]) = 0
          \/ <<"NURSERY", <<o, f>>>> \in incs /\ <<"NURSERY", <<o, f>>>> # <<kind, slot>>)

\* process_slot on a slot that holds o does that.
LEMMA IncCounts ==
  ASSUME LXRInvariant, NEW kind, NEW slot, NEW o \in Objects,
         process_slot(kind, slot), o = Load(slot)
  PROVE  IncTables(kind, slot, o) /\ IncQueue(kind, slot, o)
<1> DEFINE n(x) == IncOf(o, x)
           done == process_inc_and_evacuate(kind, o)
           after == done.promotion
           counts == [rc EXCEPT ![o] = inc(@)]
<1>0. o # Null
  BY CountAssumption
<1>1. /\ incs' = (incs \ {<<kind, slot>>}) \cup after.new_incs
      /\ unlogged' = unlogged \cup Unlogs(kind, slot) \cup after.unlog
      /\ rc' = after.counts /\ strong' = done.strong /\ young' = young \ after.promoted
      /\ currRoots' = IF kind = "ROOT" THEN Plus(currRoots, o) ELSE currRoots
  <2> HIDE DEF done
  <2> USE DEF done
  <2> QED
    BY <1>0 DEF process_slot
<1>2. /\ done.strong = IF rc[o] = 0 \/ kind = "ROOT"
                       THEN [strong EXCEPT ![o] = strong_rc_inc(@)] ELSE strong
      /\ rc[o] = 0 =>
           /\ after.counts = [x \in Objects |->
                 IF counts[x] = 0 THEN 0 ELSE incBy(counts[x], EdgesTo(o, x))]
           /\ after.new_incs = {<<"NURSERY", <<o, f>>>> :
                 f \in {g \in Fields : fields[o][g] # Null /\ counts[fields[o][g]] = 0}}
           /\ after.unlog = {o} \X Fields /\ after.promoted = {o}
      /\ rc[o] # 0 => /\ after.counts = counts /\ after.new_incs = {}
                      /\ after.unlog = {} /\ after.promoted = {}
  <2>1. /\ counts = [rc EXCEPT ![o] = inc(@)] /\ done = process_inc_and_evacuate(kind, o)
        /\ after = done.promotion
    OBVIOUS
  <2> HIDE DEF done, after, counts
  <2>2. CASE rc[o] = 0
    <3>1. after = promote(o, counts)
      BY <2>1, <2>2 DEF process_inc_and_evacuate, IsFirstInc
    <3>2. done.strong = [strong EXCEPT ![o] = strong_rc_inc(@)]
      BY <2>1, <2>2 DEF process_inc_and_evacuate, IsFirstInc
    <3>3. after.counts = [x \in Objects |->
             IF counts[x] = 0 THEN 0 ELSE incBy(counts[x], EdgesTo(o, x))]
      BY <3>1, SMTT(30) DEF promote, scan_nursery_object
    <3>4. after.new_incs = {<<"NURSERY", <<o, f>>>> :
             f \in {g \in Fields : fields[o][g] # Null /\ counts[fields[o][g]] = 0}}
      BY <3>1, SMTT(30) DEF promote, scan_nursery_object
    <3>5. after.unlog = {o} \X Fields /\ after.promoted = {o}
      BY <3>1, SMTT(30) DEF promote
    <3> QED
      BY <2>2, <3>2, <3>3, <3>4, <3>5
  <2>3. CASE rc[o] # 0
    <3>1. after = NotPromoted(counts)
      BY <2>1, <2>3 DEF process_inc_and_evacuate, IsFirstInc
    <3>2. done.strong = IF kind = "ROOT" THEN [strong EXCEPT ![o] = strong_rc_inc(@)] ELSE strong
      BY <2>1, <2>3 DEF process_inc_and_evacuate, IsFirstInc
    <3>3. after.counts = counts /\ after.new_incs = {} /\ after.unlog = {} /\ after.promoted = {}
      BY <3>1, SMTT(30) DEF NotPromoted
    <3> QED
      BY <2>3, <3>2, <3>3
  <2> QED
    BY <2>2, <2>3
<1>3. /\ rc \in [Objects -> 0..MAX_REF_COUNT] /\ strong \in [Objects -> 0..MAX_STRONG_REF_COUNT]
      /\ currRoots \in [Objects -> Nat]
      /\ fields[o] \in [Fields -> Objects \cup {Null}]
  BY DEF LXRInvariant, TypeOK
<1> HIDE DEF done, after
<1>4. \A x \in Objects : counts[x] = n(x)
  BY <1>3 DEF IncOf
<1>5. ASSUME NEW x \in Objects PROVE n(x) \in 0..MAX_REF_COUNT /\ (n(x) > 0 <=> rc[x] > 0 \/ x = o)
  <2>1. rc[x] \in 0..MAX_REF_COUNT /\ 0 \in Nat
    BY <1>3, SMTT(30)
  <2>2. inc(rc[x]) \in 0..MAX_REF_COUNT /\ inc(rc[x]) > 0
    BY <2>1, CountSteps
  <2> QED
    BY <2>1, <2>2 DEF IncOf
<1>6. ASSUME NEW x \in Objects
      PROVE  rc'[x] = IF rc[o] = 0 /\ n(x) # 0 THEN incBy(n(x), EdgesTo(o, x)) ELSE n(x)
  <2> HIDE DEF n, counts
  <2>1. CASE rc[o] = 0
    <3>1. rc'[x] = IF counts[x] = 0 THEN 0 ELSE incBy(counts[x], EdgesTo(o, x))
      BY <1>1, <1>2, <2>1
    <3> QED
      BY <1>4, <2>1, <3>1
  <2>2. CASE rc[o] # 0
    BY <1>1, <1>2, <1>4, <2>2
  <2> QED
    BY <2>1, <2>2
<1> HIDE DEF counts, n
<1>7. ASSUME NEW x \in Objects
      PROVE rc'[x] \in 0..MAX_REF_COUNT /\ (rc'[x] > 0 <=> rc[x] > 0 \/ x = o)
  <2>1. n(x) \in 0..MAX_REF_COUNT /\ EdgesTo(o, x) \in Nat
    BY <1>5, CountEdges
  <2>2. /\ incBy(n(x), EdgesTo(o, x)) \in 0..MAX_REF_COUNT
        /\ n(x) > 0 => incBy(n(x), EdgesTo(o, x)) > 0
    <3> DEFINE c == n(x)
               e == EdgesTo(o, x)
    <3>1. c \in 0..MAX_REF_COUNT /\ e \in Nat
      BY <2>1
    <3> HIDE DEF c, e
    <3>2. incBy(c, e) \in 0..MAX_REF_COUNT /\ (c > 0 => incBy(c, e) > 0)
      BY <3>1, CountSteps
    <3> QED
      BY <3>2 DEF c, e
  <2>3. n(x) # 0 => n(x) > 0
    BY <2>1, CountAssumption, SMTT(30)
  <2> QED
    BY <1>5, <1>6, <2>1, <2>2, <2>3
<1>8. rc' \in [Objects -> 0..MAX_REF_COUNT]
  <2>1. CASE rc[o] = 0
    <3> DEFINE e(x) == IF counts[x] = 0 THEN 0 ELSE incBy(counts[x], EdgesTo(o, x))
    <3>1. rc' = [x \in Objects |-> e(x)]
      BY <1>1, <1>2, <2>1
    <3> HIDE DEF e
    <3>2. \A x \in Objects : rc'[x] = e(x)
      BY <3>1
    <3> QED
      BY <1>7, <3>1, <3>2
  <2>2. CASE rc[o] # 0
    <3>1. rc' = [rc EXCEPT ![o] = inc(rc[o])]
      BY <1>1, <1>2, <2>2 DEF counts
    <3>2. rc' = [x \in Objects |-> rc'[x]]
      BY <1>3, <3>1
    <3> QED
      BY <1>7, <3>2
  <2> QED
    BY <2>1, <2>2
<1>9. /\ strong' \in [Objects -> 0..MAX_STRONG_REF_COUNT]
       /\ \A x \in Objects : strong'[x] = IF x = o /\ (rc[o] = 0 \/ kind = "ROOT")
                                          THEN strong_rc_inc(strong[x]) ELSE strong[x]
  <2>1. strong_rc_inc(strong[o]) \in 0..MAX_STRONG_REF_COUNT
    <3>1. strong[o] \in 0..MAX_STRONG_REF_COUNT /\ 0 \in Nat
      BY <1>3, SMTT(30)
    <3> QED
      BY <3>1, StrongSteps
  <2>2. CASE rc[o] = 0 \/ kind = "ROOT"
    <3>1. strong' = [strong EXCEPT ![o] = strong_rc_inc(strong[o])]
      BY <1>1, <1>2, <2>2
    <3> QED
      BY <1>3, <2>1, <2>2, <3>1
  <2>3. CASE ~(rc[o] = 0 \/ kind = "ROOT")
    <3>1. strong' = strong
      BY <1>1, <1>2, <2>3
    <3> QED
      BY <1>3, <2>3, <3>1
  <2> QED
    BY <2>2, <2>3
<1>10. /\ currRoots' \in [Objects -> Nat]
       /\ \A x \in Objects :
            currRoots'[x] = IF x = o /\ kind = "ROOT" THEN currRoots[x] + 1 ELSE currRoots[x]
  <2>1. currRoots[o] + 1 \in Nat
    <3>1. currRoots[o] \in Nat
      BY <1>3
    <3> QED
      BY <3>1, SMTT(30)
  <2>2. CASE kind = "ROOT"
    <3>1. currRoots' = [currRoots EXCEPT ![o] = currRoots[o] + 1]
      BY <1>1, <2>2 DEF Plus
    <3> QED
      BY <1>3, <2>1, <2>2, <3>1
  <2>3. CASE kind # "ROOT"
    BY <1>1, <1>3, <2>3
  <2> QED
    BY <2>2, <2>3
<1>11. \A x : x \in young' <=> x \in young /\ x # o
  <2>1. CASE rc[o] = 0
    BY <1>1, <1>2, <2>1
  <2>2. CASE rc[o] # 0
    <3>1. o \notin young
      BY <2>2 DEF LXRInvariant, LogInv
    <3> QED
      BY <1>1, <1>2, <2>2, <3>1
  <2> QED
    BY <2>1, <2>2
<1>12. \A s : s \in unlogged' <=> \/ s \in unlogged
                                  \/ kind = "MATURE" /\ s = slot
                                  \/ rc[o] = 0 /\ s \in Slots /\ s[1] = o
  <2>1. \A s : s \in Unlogs(kind, slot) <=> kind = "MATURE" /\ s = slot
    BY DEF Unlogs
  <2>2. \A s : s \in {o} \X Fields <=> s \in Slots /\ s[1] = o
    BY SMTT(30) DEF Slots
  <2>3. \A s : s \in after.unlog <=> rc[o] = 0 /\ s \in Slots /\ s[1] = o
    BY <1>2, <2>2
  <2>4. \A s : s \in unlogged' <=> s \in unlogged \/ s \in Unlogs(kind, slot) \/ s \in after.unlog
    BY <1>1
  <2> TAKE s
  <2> QED
    BY <2>1, <2>3, <2>4
<1>13. \A p : p \in after.new_incs <=>
          \E f \in Fields : /\ p = <<"NURSERY", <<o, f>>>> /\ rc[o] = 0
                            /\ fields[o][f] # Null /\ counts[fields[o][f]] = 0
  <2> TAKE p
  <2> DEFINE good == {g \in Fields : fields[o][g] # Null /\ counts[fields[o][g]] = 0}
  <2>1. CASE rc[o] = 0
    <3>1. after.new_incs = {<<"NURSERY", <<o, f>>>> : f \in good}
      BY <1>2, <2>1
    <3>2. p \in after.new_incs <=> \E f \in good : p = <<"NURSERY", <<o, f>>>>
      <4> HIDE DEF good
      <4> QED
        BY <3>1
    <3> QED
      BY <2>1, <3>2
  <2>2. CASE rc[o] # 0
    BY <1>2, <2>2
  <2> QED
    BY <2>1, <2>2
<1>14. /\ \A p \in incs' : \/ p \in incs /\ p # <<kind, slot>>
                           \/ \E f \in Fields : p = <<"NURSERY", <<o, f>>>> /\ rc[o] = 0
       /\ \A p \in incs : p # <<kind, slot>> => p \in incs'
  BY <1>1, <1>13
<1>15. ASSUME NEW f \in Fields, rc[o] = 0, fields[o][f] \in Objects
       PROVE  <<"NURSERY", <<o, f>>>> \in incs' <=>
                 \/ n(fields[o][f]) = 0
                 \/ <<"NURSERY", <<o, f>>>> \in incs /\ <<"NURSERY", <<o, f>>>> # <<kind, slot>>
  <2>1. \A g \in Fields : <<"NURSERY", <<o, f>>>> = <<"NURSERY", <<o, g>>>> => f = g
    OBVIOUS
  <2>2. fields[o][f] # Null /\ counts[fields[o][f]] = n(fields[o][f])
    BY <1>4, <1>15, CountAssumption
  <2>3. <<"NURSERY", <<o, f>>>> \in after.new_incs <=> n(fields[o][f]) = 0
    BY <1>13, <1>15, <2>1, <2>2
  <2> QED
    BY <1>1, <2>3
<1> HIDE DEF done, after, counts
<1>16. IncTables(kind, slot, o)
  BY <1>5, <1>6, <1>7, <1>8, <1>9, <1>10, <1>11, <1>12 DEF IncTables, n
<1>17. IncQueue(kind, slot, o)
  BY <1>14, <1>15 DEF IncQueue, n
<1> QED
  BY <1>16, <1>17

\* The counted slots that refer to x after an increment of o from slot: the
\* slot itself, unless it is a root, and on a first increment the slots of o
\* with counted targets.
IncHolds(kind, slot, o, x) ==
  /\ Holding(x)' = (Holding(x) \cup (IF kind # "ROOT" /\ x = o THEN {slot} ELSE {}))
                     \cup (IF rc[o] = 0 /\ IncOf(o, x) # 0 THEN SlotsOf(o, x) ELSE {})
  /\ kind # "ROOT" => slot \in Slots /\ slot \notin Holding(x)
  /\ rc[o] = 0 => /\ Holding(x) \cap SlotsOf(o, x) = {}
                  /\ kind # "ROOT" => slot \notin SlotsOf(o, x)

\* process_slot on a slot that holds o counts these slots.
LEMMA IncHolding ==
  ASSUME LXRInvariant, NEW kind, NEW slot, NEW o \in Objects,
         process_slot(kind, slot), o = Load(slot), NEW x \in Objects,
         \A y \in Objects : (Counted(y)' <=> rc'[y] > 0) /\ (Counted(y) <=> rc[y] > 0)
  PROVE  IncHolds(kind, slot, o, x)
<1>1. phase = "incs" /\ <<kind, slot>> \in incs /\ fields' = fields
  BY DEF process_slot
<1>2. /\ kind \in {"MATURE", "NURSERY", "ROOT"}
      /\ kind = "ROOT" => slot \in RootSlots /\ slot \notin Slots
      /\ kind # "ROOT" => /\ slot \in Slots /\ rc[slot[1]] > 0
                          /\ o = fields[slot[1]][slot[2]]
                          /\ \A p \in incs : p[2] = slot => p = <<kind, slot>>
  <2>1. /\ kind \in {"MATURE", "NURSERY", "ROOT"}
        /\ kind = "ROOT" => slot \in RootSlots /\ slot \notin Slots
        /\ kind # "ROOT" => /\ slot \in Slots /\ rc[slot[1]] > 0
                            /\ Load(slot) = fields[slot[1]][slot[2]]
                            /\ \A p \in incs : p[2] = slot => p = <<kind, slot>>
    BY <1>1, QueuedSlot
  <2> QED
    BY <2>1
<1>3. /\ \A y \in Objects : rc'[y] > 0 <=> rc[y] > 0 \/ y = o
      /\ \A p \in incs' : \/ p \in incs /\ p # <<kind, slot>>
                          \/ \E f \in Fields : p = <<"NURSERY", <<o, f>>>> /\ rc[o] = 0
      /\ \A p \in incs : p # <<kind, slot>> => p \in incs'
      /\ \A f \in Fields : rc[o] = 0 /\ fields[o][f] \in Objects =>
           (<<"NURSERY", <<o, f>>>> \in incs' <=>
              \/ IncOf(o, fields[o][f]) = 0
              \/ <<"NURSERY", <<o, f>>>> \in incs /\ <<"NURSERY", <<o, f>>>> # <<kind, slot>>)
  <2>1. IncTables(kind, slot, o) /\ IncQueue(kind, slot, o)
    BY IncCounts
  <2>2. \A y \in Objects : rc'[y] > 0 <=> rc[y] > 0 \/ y = o
    BY <2>1 DEF IncTables
  <2> QED
    BY <2>1, <2>2 DEF IncQueue
<1>4. ~(0 > 0) /\ <<kind, slot>>[2] = slot
  BY SMTT(30)
<1>5. \A p \in incs : p[2] \in Slots => rc[p[2][1]] > 0
  <2> TAKE p \in incs
  <2> HAVE p[2] \in Slots
  <2>1. p = <<p[1], p[2]>> /\ p[1] \in {"MATURE", "NURSERY", "ROOT"}
        /\ (p[1] = "ROOT" => p[2] \in RootSlots)
    BY Pairs DEF LXRInvariant, TypeOK
  <2>2. p[1] \in {"MATURE", "NURSERY"}
    BY <2>1, Pairs
  <2>3. <<p[1], p[2]>> \in incs
    BY <2>1
  <2> QED
    BY <2>2, <2>3 DEF LXRInvariant, LogInv
<1>6. kind # "ROOT" => slot \in Slots /\ slot \notin Holding(x)
  <2> HAVE kind # "ROOT"
  <2>1. slot \in Slots /\ slot = <<slot[1], slot[2]>>
    BY <1>2, Pairs
  <2>2. Pending(slot[1], slot[2])
    BY <1>1, <1>4, <2>1 DEF Pending
  <2> QED
    BY <2>1, <2>2 DEF Holding
<1>7. rc[o] = 0 => /\ Holding(x) \cap SlotsOf(o, x) = {}
                   /\ kind # "ROOT" => slot \notin SlotsOf(o, x)
  <2> HAVE rc[o] = 0
  <2>1. ~Counted(o)
    BY <1>4
  <2>2. Holding(x) \cap SlotsOf(o, x) = {}
    BY <2>1 DEF Holding, SlotsOf
  <2>3. kind # "ROOT" => slot[1] # o
    BY <1>2, <1>4
  <2> QED
    BY <2>2, <2>3 DEF SlotsOf
<1>8. ASSUME NEW s \in Slots, s[1] = o, rc[o] = 0
      PROVE  /\ s \notin Holding(x) /\ (kind # "ROOT" => s # slot)
             /\ s \in Holding(x)' <=> s \in SlotsOf(o, x) /\ IncOf(o, x) # 0
  <2>1. s \notin Holding(x)
    BY <1>4, <1>8 DEF Holding
  <2>2. kind # "ROOT" => s # slot
    BY <1>2, <1>4, <1>8
  <2>3. Counted(o)'
    BY <1>3
  <2>4. CASE fields[s[1]][s[2]] = x
    <3> DEFINE p == <<"NURSERY", s>>
    <3>1. s = <<o, s[2]>> /\ s[2] \in Fields
      BY <1>8, Pairs
    <3>2. \A q \in incs : q[2] # s
      BY <1>4, <1>5, <1>8
    <3>3. p[2] = s
      OBVIOUS
    <3>4. p \in incs' <=> IncOf(o, x) = 0
      <4>1. p = <<"NURSERY", <<o, s[2]>>>> /\ fields[o][s[2]] = x
        BY <1>8, <2>4, <3>1
      <4>2. <<"NURSERY", <<o, s[2]>>>> \notin incs
        BY <3>2, <3>3, <4>1
      <4> HIDE DEF p
      <4> QED
        BY <1>3, <1>8, <3>1, <4>1, <4>2
    <3>5. \A q \in incs' : q[2] = s => q = p
      <4> TAKE q \in incs'
      <4> HAVE q[2] = s
      <4>1. PICK f \in Fields : q = <<"NURSERY", <<o, f>>>>
        BY <1>3, <3>2
      <4>2. <<"NURSERY", <<o, f>>>>[2] = <<o, f>>
        OBVIOUS
      <4> QED
        BY <4>1, <4>2
    <3> HIDE DEF p
    <3>6. Pending(s[1], s[2])' <=> IncOf(o, x) = 0
      <4>1. s = <<s[1], s[2]>>
        BY Pairs
      <4> QED
        BY <3>3, <3>4, <3>5, <4>1 DEF Pending
    <3>7. s \in Holding(x)' <=> IncOf(o, x) # 0
      <4>1. Counted(s[1])' /\ fields'[s[1]][s[2]] = x
        BY <1>1, <1>8, <2>3, <2>4
      <4> QED
        BY <3>6, <4>1 DEF Holding
    <3>8. s \in SlotsOf(o, x)
      BY <1>8, <2>4 DEF SlotsOf
    <3> QED
      BY <2>1, <2>2, <3>7, <3>8
  <2>5. CASE fields[s[1]][s[2]] # x
    <3>1. s \notin Holding(x)' /\ s \notin SlotsOf(o, x)
      BY <1>1, <1>8, <2>5 DEF Holding, SlotsOf
    <3> QED
      BY <2>1, <2>2, <3>1
  <2> QED
    BY <2>4, <2>5
<1>9. ASSUME NEW s \in Slots, ~(s[1] = o /\ rc[o] = 0)
      PROVE  /\ rc[o] = 0 => s \notin SlotsOf(o, x)
             /\ s \in Holding(x)' <=> s \in Holding(x) \/ (kind # "ROOT" /\ s = slot /\ x = o)
  <2>1. rc[o] = 0 => s \notin SlotsOf(o, x)
    BY <1>9 DEF SlotsOf
  <2>2. s[1] \in Objects /\ s = <<s[1], s[2]>>
    BY Pairs
  <2>3. Counted(s[1])' <=> Counted(s[1])
    <3>1. rc[o] \in Nat
      BY HeldHasCount DEF LXRInvariant
    <3>2. rc[o] # 0 => rc[o] > 0
      BY <3>1, SMTT(30)
    <3> QED
      BY <1>3, <1>9, <2>2, <3>2
  <2>4. \A f \in Fields : rc[o] = 0 => <<"NURSERY", <<o, f>>>>[2] # s
    <3> TAKE f \in Fields
    <3>1. <<"NURSERY", <<o, f>>>>[2] = <<o, f>> /\ <<o, f>>[1] = o
      OBVIOUS
    <3> QED
      BY <1>9, <3>1
  <2>5. CASE kind # "ROOT" /\ s = slot
    <3>1. s \notin Holding(x)
      BY <1>6, <2>5
    <3>2. ~Pending(s[1], s[2])'
      <4>1. \A p \in incs' : p[2] # s
        <5> TAKE p \in incs'
        <5>1. CASE p \in incs /\ p # <<kind, slot>>
          BY <1>2, <2>5, <5>1
        <5>2. CASE \E f \in Fields : p = <<"NURSERY", <<o, f>>>> /\ rc[o] = 0
          BY <2>4, <5>2
        <5> QED
          BY <1>3, <5>1, <5>2
      <4> QED
        BY <2>2, <4>1 DEF Pending
    <3>3. Counted(s[1]) /\ fields[s[1]][s[2]] = o
      BY <1>2, <2>2, <2>5
    <3> QED
      BY <1>1, <2>1, <2>3, <2>5, <3>1, <3>2, <3>3 DEF Holding
  <2>6. CASE ~(kind # "ROOT" /\ s = slot)
    <3>1. slot # s
      BY <1>2, <2>6
    <3>2. Pending(s[1], s[2])' <=> Pending(s[1], s[2])
      <4>1. \A p : p[2] = s => (p \in incs' <=> p \in incs)
        <5> SUFFICES ASSUME NEW p, p[2] = s PROVE p \in incs' <=> p \in incs
          OBVIOUS
        <5>1. p # <<kind, slot>>
          BY <1>4, <3>1
        <5>2. p \in incs' => p \in incs
          BY <1>3, <2>4
        <5>3. p \in incs => p \in incs'
          BY <1>3, <5>1
        <5> QED
          BY <5>2, <5>3
      <4> QED
        BY <2>2, <4>1 DEF Pending
    <3>3. s \in Holding(x)' <=> s \in Holding(x)
      BY <1>1, <2>3, <3>2 DEF Holding
    <3> QED
      BY <2>1, <2>6, <3>3
  <2> QED
    BY <2>5, <2>6
<1>10. Holding(x)' = (Holding(x) \cup (IF kind # "ROOT" /\ x = o THEN {slot} ELSE {}))
                       \cup (IF rc[o] = 0 /\ IncOf(o, x) # 0 THEN SlotsOf(o, x) ELSE {})
  <2> DEFINE B == Holding(x)'
             A == Holding(x)
             E == SlotsOf(o, x)
             C == IF kind # "ROOT" /\ x = o THEN {slot} ELSE {}
             D == IF rc[o] = 0 /\ IncOf(o, x) # 0 THEN E ELSE {}
  <2>1. B \subseteq Slots /\ A \subseteq Slots /\ E \subseteq Slots
    BY DEF Holding, SlotsOf
  <2>2. C \subseteq Slots /\ \A s : s \in C <=> kind # "ROOT" /\ x = o /\ s = slot
    BY <1>2
  <2>3. D \subseteq Slots /\ \A s : s \in D <=> rc[o] = 0 /\ IncOf(o, x) # 0 /\ s \in E
    BY <2>1
  <2>4. \A s \in Slots : s[1] = o /\ rc[o] = 0 =>
           s \notin A /\ (kind # "ROOT" => s # slot) /\ (s \in B <=> s \in E /\ IncOf(o, x) # 0)
    BY <1>8
  <2>5. \A s \in Slots : ~(s[1] = o /\ rc[o] = 0) =>
           (rc[o] = 0 => s \notin E) /\ (s \in B <=> s \in A \/ (kind # "ROOT" /\ s = slot /\ x = o))
    BY <1>9
  <2> SUFFICES B = (A \cup C) \cup D
    OBVIOUS
  <2> HIDE DEF A, B, C, D, E
  <2>6. \A s \in Slots : s \in B <=> s \in A \/ s \in C \/ s \in D
    BY <2>2, <2>3, <2>4, <2>5
  <2> QED
    BY <2>1, <2>2, <2>3, <2>6
<1> QED
  BY <1>6, <1>7, <1>10 DEF IncHolds

\* An increment of o from a queued slot keeps the invariant.
LEMMA IncStep ==
  ASSUME LXRInvariant, NEW kind, NEW slot, NEW o \in Objects,
         process_slot(kind, slot), o = Load(slot)
  PROVE  LXRInvariant'
<1>1. /\ phase = "incs" /\ phase' = phase /\ <<kind, slot>> \in incs
      /\ roots' = roots /\ fields' = fields /\ ops' = ops /\ decs' = decs /\ prevRoots' = prevRoots
      /\ cands' = cands /\ buffer' = buffer /\ pushing' = pushing /\ lost' = lost
      /\ pauses' = pauses /\ colour' = colour /\ cursor' = cursor /\ stk' = stk /\ blk' = blk
  BY DEF process_slot, ccVars
<1>2. IncTables(kind, slot, o) /\ IncQueue(kind, slot, o)
  BY IncCounts
<1>3. \A x \in Objects : (Counted(x) <=> rc[x] > 0) /\ (Tracked(x) <=> rc[x] > 0) /\ x \in Black
  BY <1>1, CalmColours DEF LXRInvariant, Collector
<1>4. /\ ColourInv' /\ SearchInv'
      /\ \A x \in Objects : (Counted(x)' <=> rc'[x] > 0) /\ (Tracked(x)' <=> rc'[x] > 0) /\ x \in Black'
  BY <1>1, CalmKeeps DEF Collector
<1>5. /\ kind \in {"MATURE", "NURSERY", "ROOT"}
      /\ kind = "ROOT" => slot \in RootSlots /\ slot \notin Slots /\ roots[slot] = o
      /\ kind # "ROOT" => slot \in Slots /\ rc[slot[1]] > 0
      /\ o \in Held
  <2>1. /\ kind \in {"MATURE", "NURSERY", "ROOT"}
        /\ kind = "ROOT" => slot \in RootSlots /\ slot \notin Slots /\ Load(slot) = roots[slot]
        /\ kind # "ROOT" => /\ slot \in Slots /\ rc[slot[1]] > 0
                            /\ Load(slot) = fields[slot[1]][slot[2]]
                            /\ \A p \in incs : p[2] = slot => p = <<kind, slot>>
    BY <1>1, QueuedSlot
  <2>2. Load(slot) \in Held \cup {Null}
    BY <1>1, QueuedSlot
  <2> QED
    BY <2>1, <2>2, CountAssumption
<1>6. \A x \in Objects : rc'[x] > 0 <=> rc[x] > 0 \/ x = o
  BY <1>2 DEF IncTables
<1>7. \A s : s \in unlogged' <=> (s \in unlogged \/ (kind = "MATURE" /\ s = slot)
                                   \/ (rc[o] = 0 /\ s \in Slots /\ s[1] = o))
  BY <1>2 DEF IncTables
<1>8. /\ \A p \in incs' : \/ p \in incs /\ p # <<kind, slot>>
                          \/ \E f \in Fields : p = <<"NURSERY", <<o, f>>>> /\ rc[o] = 0
      /\ \A p \in incs : p # <<kind, slot>> => p \in incs'
  BY <1>2 DEF IncQueue
<1>9. TypeOK'
  <2>1. /\ rc' \in [Objects -> 0..MAX_REF_COUNT] /\ strong' \in [Objects -> 0..MAX_STRONG_REF_COUNT]
        /\ currRoots' \in [Objects -> Nat]
    BY <1>2 DEF IncTables
  <2>2. young' \subseteq Objects
    <3>1. \A x : x \in young' => x \in young
      BY <1>2 DEF IncTables
    <3> QED
      BY <3>1 DEF LXRInvariant, TypeOK
  <2>3. unlogged' \subseteq Slots
    <3>1. unlogged \subseteq Slots
      BY DEF LXRInvariant, TypeOK
    <3>2. kind = "MATURE" => slot \in Slots
      BY <1>5
    <3> QED
      BY <1>7, <3>1, <3>2
  <2>4. incs' \subseteq ({"MATURE", "NURSERY"} \X Slots) \cup ({"ROOT"} \X RootSlots)
    <3>1. \A f \in Fields : <<"NURSERY", <<o, f>>>> \in {"MATURE", "NURSERY"} \X Slots
      <4> TAKE f \in Fields
      <4>1. <<o, f>> \in Slots
        BY Pairs
      <4> QED
        BY <4>1, SMTT(30)
    <3>2. incs \subseteq ({"MATURE", "NURSERY"} \X Slots) \cup ({"ROOT"} \X RootSlots)
      BY DEF LXRInvariant, TypeOK
    <3> DEFINE Kinds == ({"MATURE", "NURSERY"} \X Slots) \cup ({"ROOT"} \X RootSlots)
    <3>3. incs \subseteq Kinds /\ \A f \in Fields : <<"NURSERY", <<o, f>>>> \in Kinds
      BY <3>1, <3>2
    <3> HIDE DEF Kinds
    <3>4. incs' \subseteq Kinds
      BY <1>8, <3>3
    <3> QED
      BY <3>4 DEF Kinds
  <2> QED
    BY <1>1, <2>1, <2>2, <2>3, <2>4 DEF LXRInvariant, TypeOK
<1>10. PhasesInv'
  BY <1>1 DEF LXRInvariant, PhasesInv, Collector
<1>11. PushInv'
  BY <1>1 DEF LXRInvariant, PushInv
<1>12. LogInv'
  <2>0. ~(0 > 0)
    BY SMTT(30)
  <2>1. \A s \in Slots : <<"MATURE", s>> \in incs' => s \notin unlogged' /\ rc'[s[1]] > 0
    <3> TAKE s \in Slots
    <3> HAVE <<"MATURE", s>> \in incs'
    <3>1. \A f \in Fields : <<"MATURE", s>> # <<"NURSERY", <<o, f>>>>
      OBVIOUS
    <3>2. <<"MATURE", s>> \in incs /\ <<"MATURE", s>> # <<kind, slot>>
      BY <1>8, <3>1
    <3>3. s \notin unlogged /\ rc[s[1]] > 0 /\ s[1] \in Objects
      BY <3>2, Pairs DEF LXRInvariant, LogInv
    <3>4. ~(kind = "MATURE" /\ s = slot)
      BY <3>2
    <3>5. ~(rc[o] = 0 /\ s[1] = o)
      BY <2>0, <3>3
    <3> QED
      BY <1>6, <1>7, <3>3, <3>4, <3>5
  <2>2. \A s \in Slots : <<"NURSERY", s>> \in incs' => s \in unlogged' /\ rc'[s[1]] > 0
    <3> TAKE s \in Slots
    <3> HAVE <<"NURSERY", s>> \in incs'
    <3>1. s[1] \in Objects
      BY Pairs
    <3>2. CASE <<"NURSERY", s>> \in incs
      BY <1>6, <1>7, <3>1, <3>2 DEF LXRInvariant, LogInv
    <3>3. CASE \E f \in Fields : <<"NURSERY", s>> = <<"NURSERY", <<o, f>>>> /\ rc[o] = 0
      <4>1. PICK f \in Fields : <<"NURSERY", s>> = <<"NURSERY", <<o, f>>>> /\ rc[o] = 0
        BY <3>3
      <4>2. s = <<o, f>> /\ <<o, f>>[1] = o
        BY <4>1
      <4>3. s[1] = o /\ rc[o] = 0
        BY <4>1, <4>2
      <4> QED
        BY <1>6, <1>7, <4>3
    <3> QED
      BY <1>8, <3>2, <3>3
  <2>3. \A s \in Slots : Tracked(s[1])' => s \in unlogged' \/ <<"MATURE", s>> \in incs'
    <3> TAKE s \in Slots
    <3> HAVE Tracked(s[1])'
    <3>0. s[1] \in Objects
      BY Pairs
    <3>1. rc[s[1]] > 0 \/ s[1] = o
      BY <1>4, <1>6, <3>0
    <3>2. CASE rc[s[1]] > 0
      <4>1. s \in unlogged \/ <<"MATURE", s>> \in incs
        BY <1>3, <3>0, <3>2 DEF LXRInvariant, LogInv
      <4>2. <<"MATURE", s>> = <<kind, slot>> => kind = "MATURE" /\ s = slot
        OBVIOUS
      <4> QED
        BY <1>7, <1>8, <4>1, <4>2
    <3>3. CASE ~(rc[s[1]] > 0)
      <4>1. rc[o] \in Nat
        BY HeldHasCount DEF LXRInvariant
      <4>2. s[1] = o
        BY <3>1, <3>3
      <4>3. rc[o] = 0
        BY <3>3, <4>1, <4>2, SMTT(30)
      <4> QED
        BY <1>7, <4>2, <4>3
    <3> QED
      BY <3>2, <3>3
  <2>4. \A x \in young' : rc'[x] = 0 /\ \A f \in Fields : <<x, f>> \notin unlogged'
    <3> TAKE x \in young'
    <3>1. x \in young /\ x # o
      BY <1>2 DEF IncTables
    <3>2. x \in Objects
      BY <3>1 DEF LXRInvariant, TypeOK
    <3>3. rc[x] = 0 /\ \A f \in Fields : <<x, f>> \notin unlogged
      BY <3>1 DEF LXRInvariant, LogInv
    <3>4. rc'[x] = 0
      <4>1. rc'[x] \in 0..MAX_REF_COUNT
        BY <1>9, <3>2 DEF TypeOK
      <4>2. ~(rc'[x] > 0)
        BY <1>6, <2>0, <3>1, <3>2, <3>3
      <4> QED
        BY <4>1, <4>2, SMTT(30)
    <3>5. ASSUME NEW f \in Fields PROVE <<x, f>> \notin unlogged'
      <4>1. <<x, f>>[1] = x
        OBVIOUS
      <4>2. ~(kind = "MATURE" /\ <<x, f>> = slot)
        BY <1>5, <2>0, <3>3, <4>1
      <4> QED
        BY <1>7, <3>1, <3>3, <4>1, <4>2
    <3> QED
      BY <3>4, <3>5
  <2> QED
    BY <1>1, <2>1, <2>2, <2>3, <2>4 DEF LogInv
<1>13. CountsAreExact'
  <2>1. ASSUME NEW x \in Objects, rc'[x] # MAX_REF_COUNT
        PROVE  rc'[x] = Cardinality(Holding(x)') + decs'[x] + currRoots'[x] + prevRoots'[x]
    <3> DEFINE A == Holding(x)
               B == Holding(x)'
               n == IncOf(o, x)
               e == EdgesTo(o, x)
    <3>1. /\ B = (A \cup (IF kind # "ROOT" /\ x = o THEN {slot} ELSE {}))
                   \cup (IF rc[o] = 0 /\ n # 0 THEN SlotsOf(o, x) ELSE {})
          /\ kind # "ROOT" => slot \in Slots /\ slot \notin A
          /\ rc[o] = 0 => /\ A \cap SlotsOf(o, x) = {}
                          /\ kind # "ROOT" => slot \notin SlotsOf(o, x)
      <4>1. \A y \in Objects : (Counted(y)' <=> rc'[y] > 0) /\ (Counted(y) <=> rc[y] > 0)
        BY <1>3, <1>4
      <4>2. IncHolds(kind, slot, o, x)
        BY <4>1, IncHolding
      <4> QED
        BY <4>2 DEF IncHolds
    <3>2. /\ A \in SUBSET Slots /\ Cardinality(A) \in Nat /\ rc[x] \in Nat /\ decs[x] \in Nat
          /\ currRoots[x] \in Nat /\ prevRoots[x] \in Nat /\ (rc[x] # MAX_REF_COUNT => Exact(x))
      BY HeldHasCount DEF LXRInvariant
    <3>3. /\ n \in 0..MAX_REF_COUNT /\ e \in Nat /\ rc[x] \in 0..MAX_REF_COUNT
          /\ rc'[x] = IF rc[o] = 0 /\ n # 0 THEN incBy(n, e) ELSE n
          /\ currRoots'[x] = IF x = o /\ kind = "ROOT" THEN currRoots[x] + 1 ELSE currRoots[x]
      <4>1. rc[x] \in 0..MAX_REF_COUNT
        BY DEF LXRInvariant, TypeOK
      <4> QED
        BY <1>2, <4>1, CountEdges DEF IncTables
    <3>4. n # MAX_REF_COUNT /\ rc'[x] = IF rc[o] = 0 /\ n # 0 THEN n + e ELSE n
      BY <2>1, <3>3, CountSteps
    <3>5. rc[x] # MAX_REF_COUNT /\ n = IF x = o THEN rc[x] + 1 ELSE rc[x]
      <4>1. 0 \in Nat
        BY SMTT(30)
      <4> QED
        BY <3>3, <3>4, <4>1, CountSteps DEF IncOf
    <3>6. Exact(x)
      BY <3>2, <3>5
    <3> DEFINE AC == A \cup (IF kind # "ROOT" /\ x = o THEN {slot} ELSE {})
    <3>7. AC \in SUBSET Slots
          /\ Cardinality(AC) = IF kind # "ROOT" /\ x = o THEN Cardinality(A) + 1 ELSE Cardinality(A)
      <4> HIDE DEF A
      <4>1. CASE kind # "ROOT" /\ x = o
        BY <3>1, <3>2, <4>1, GainSlot
      <4>2. CASE ~(kind # "ROOT" /\ x = o)
        <5>1. AC = A
          BY <4>2
        <5> QED
          BY <3>2, <4>2, <5>1
      <4> QED
        BY <4>1, <4>2
    <3>8. Cardinality(B) = IF rc[o] = 0 /\ n # 0 THEN Cardinality(AC) + e ELSE Cardinality(AC)
      <4>0. B = AC \cup (IF rc[o] = 0 /\ n # 0 THEN SlotsOf(o, x) ELSE {})
        BY <3>1
      <4>1. rc[o] = 0 => AC \cap SlotsOf(o, x) = {}
        <5> HIDE DEF A
        <5> QED
          BY <3>1
      <4> HIDE DEF AC, B, n
      <4>2. CASE rc[o] = 0 /\ n # 0
        <5>1. B = AC \cup SlotsOf(o, x) /\ AC \cap SlotsOf(o, x) = {}
          BY <4>0, <4>1, <4>2
        <5>2. Cardinality(B) = Cardinality(AC) + EdgesTo(o, x)
          BY <3>7, <5>1, GainSlots
        <5> QED
          BY <4>2, <5>2
      <4>3. CASE ~(rc[o] = 0 /\ n # 0)
        <5>1. B = AC
          BY <4>0, <4>3
        <5> QED
          BY <4>3, <5>1
      <4> QED
        BY <4>2, <4>3
    <3>9. rc[x] = Cardinality(A) + decs[x] + currRoots[x] + prevRoots[x]
      BY <3>6 DEF Exact
    <3> DEFINE a == Cardinality(A)
               ac == Cardinality(AC)
               b == Cardinality(B)
    <3> HIDE DEF a, ac, b, n, e
    <3>10. a \in Nat /\ rc[x] = a + decs[x] + currRoots[x] + prevRoots[x]
           /\ ac = (IF kind # "ROOT" /\ x = o THEN a + 1 ELSE a)
           /\ b = (IF rc[o] = 0 /\ n # 0 THEN ac + e ELSE ac)
      BY <3>2, <3>7, <3>8, <3>9 DEF a, ac, b
    <3>11. rc'[x] = b + decs[x] + currRoots'[x] + prevRoots[x]
      BY <3>2, <3>3, <3>4, <3>5, <3>10, SMTT(30)
    <3> QED
      BY <1>1, <3>11 DEF b
  <2> QED
    BY <2>1, ExactNext
<1>14. RootInv'
  <2>1. Held' = Held
    <3>1. \A x : x \in young' <=> x \in young /\ x # o
      BY <1>2 DEF IncTables
    <3>2. \A x \in Objects : (x \in young' \/ rc'[x] > 0) <=> (x \in young \/ rc[x] > 0)
      BY <1>5, <1>6, <3>1 DEF Held
    <3> QED
      BY <3>2 DEF Held
  <2>2. \A y : Targets(y)' = Targets(y)
    BY <1>1 DEF Targets
  <2>3. /\ \A r \in RootSlots : roots[r] \in Held \cup {Null}
        /\ \A y \in Held : Targets(y) \subseteq Held
        /\ \A r \in RootSlots : roots[r] # Null => <<"ROOT", r>> \in incs \/ currRoots[roots[r]] > 0
    BY <1>1 DEF LXRInvariant, RootInv
  <2>4. \A r \in RootSlots : roots[r] # Null => <<"ROOT", r>> \in incs' \/ currRoots'[roots[r]] > 0
    <3> TAKE r \in RootSlots
    <3> HAVE roots[r] # Null
    <3>1. roots[r] \in Objects
      BY <2>3 DEF Held
    <3> DEFINE x == roots[r]
    <3>2. /\ currRoots[x] \in Nat
          /\ currRoots'[x] = IF x = o /\ kind = "ROOT" THEN currRoots[x] + 1 ELSE currRoots[x]
      BY <1>2, <3>1, HeldHasCount DEF IncTables, LXRInvariant
    <3>3. CASE <<"ROOT", r>> = <<kind, slot>>
      <4>1. kind = "ROOT" /\ r = slot
        BY <3>3
      <4>2. x = o
        BY <1>5, <4>1
      <4> HIDE DEF x
      <4>3. currRoots'[x] > 0
        BY <3>2, <4>1, <4>2, SMTT(30)
      <4> QED
        BY <4>3 DEF x
    <3>4. CASE <<"ROOT", r>> # <<kind, slot>>
      <4>1. <<"ROOT", r>> \in incs => <<"ROOT", r>> \in incs'
        BY <1>8, <3>4
      <4> HIDE DEF x
      <4>2. currRoots[x] > 0 => currRoots'[x] > 0
        BY <3>2, SMTT(30)
      <4> USE DEF x
      <4> QED
        BY <2>3, <4>1, <4>2
    <3> QED
      BY <3>3, <3>4
  <2> QED
    BY <1>1, <2>1, <2>2, <2>3, <2>4 DEF RootInv
<1>15. StrongInv'
  <2>1. ~lost => \A x \in Objects : (rc[x] > 0) <=> (strong[x] > 0)
    BY <1>1, <1>3 DEF LXRInvariant, StrongInv
  <2>2. ASSUME ~lost, NEW x \in Objects PROVE (rc'[x] > 0) <=> (strong'[x] > 0)
    <3>1. strong'[x] = IF x = o /\ (rc[o] = 0 \/ kind = "ROOT") THEN strong_rc_inc(strong[x]) ELSE strong[x]
      BY <1>2 DEF IncTables
    <3>2. strong_rc_inc(strong[x]) > 0
      <4>1. strong[x] \in 0..MAX_STRONG_REF_COUNT /\ 0 \in Nat
        BY SMTT(30) DEF LXRInvariant, TypeOK
      <4> QED
        BY <4>1, StrongSteps
    <3>3. CASE x # o
      BY <1>6, <2>1, <2>2, <3>1, <3>3
    <3>4. CASE x = o /\ (rc[o] = 0 \/ kind = "ROOT")
      BY <1>6, <3>1, <3>2, <3>4
    <3>5. CASE x = o /\ ~(rc[o] = 0 \/ kind = "ROOT")
      <4>1. rc[o] \in Nat
        BY HeldHasCount DEF LXRInvariant
      <4>2. rc[o] # 0 => rc[o] > 0
        BY <4>1, SMTT(30)
      <4> QED
        BY <1>6, <2>1, <2>2, <3>1, <3>5, <4>2
    <3> QED
      BY <3>3, <3>4, <3>5
  <2> QED
    BY <1>1, <1>4, <2>2 DEF StrongInv, Black
<1> QED
  BY <1>4, <1>9, <1>10, <1>11, <1>12, <1>13, <1>14, <1>15 DEF LXRInvariant

=============================================================================

---------------------------- MODULE LXRInvariants ----------------------------
(***************************************************************************)
(* The inductive invariant of LXRRefCount: what holds at every step of the  *)
(* mutator and of a pause, and is enough to show that the counts are exact, *)
(* that live objects are held and that the collector leaves no trace.       *)
(***************************************************************************)
EXTENDS LXRRefCount

\* The objects of each colour of OBJ_COLOR_TABLE.
Grey == {o \in Objects : colour[o] = GREY}
White == {o \in Objects : colour[o] = WHITE}
Black == {o \in Objects : is_black(o)}

\* What the fields of o refer to.
Targets(o) == {x \in Objects : \E f \in Fields : fields[o][f] = x}

\* Objects that have had their first increment and are not dead: their fields
\* are counted now, or were until mark took the counts back.
Tracked(o) == Counted(o) \/ ~is_black(o)

\* Memory in use: what the allocator may not hand out.
Held == {o \in Objects : o \in young \/ rc[o] > 0}

\* The candidates a loop of CycleCollector::do_work has passed, and the others.
Visited == {cands[i] : i \in 1..(cursor - 1)}
Unvisited == {cands[i] : i \in cursor..Len(cands)}

\* Every set that holds start, and the targets in `to` of its members in
\* `from`, holds goal too: goal is reached from start along those edges.
Closed(U, from, to) == \A o \in U \cap from : Targets(o) \cap to \subseteq U
Reaches(start, from, to, goal) ==
    \A U \in SUBSET Objects : start \subseteq U /\ Closed(U, from, to) => goal \subseteq U

Collector == {"mark", "scan", "collect"}

\* The state a stage leaves to the next: ProcessIncs has no packet left when
\* Release runs, ProcessDecs none when CycleCollector runs, and the collector's
\* stacks, colours and candidates are clean outside of it.
PhasesInv ==
    /\ phase \notin Collector =>
          stk = <<>> /\ \A o \in Objects : colour[o] = BLACK_OUT_OF_STACK
    /\ phase # "scan" => blk = <<>>
    /\ phase \in {"mutator", "incs"} => cands = <<>>
    /\ phase # "decs" => buffer = <<>>
    /\ phase # "decs" => \A w \in Workers : pushing[w] = NoPush
    /\ phase \notin {"mutator", "incs"} => incs = {} /\ young = {}
    /\ phase \in Collector => \A o \in Objects : decs[o] = 0
    /\ phase \in Collector => cursor \in 1..(Len(cands) + 1)

\* The unsynchronised pushes of process_decs: a length that was read is within
\* the memory written so far, and as long as no push was lost that memory is
\* exactly the candidates.
PushInv ==
    /\ phase = "decs" => Len(cands) <= Len(buffer)
    /\ \A w \in Workers :
          pushing[w] # NoPush => pushing[w].obj \in Objects /\ pushing[w].len <= Len(buffer)
    /\ phase = "decs" /\ ~lost =>
          buffer = cands /\ \A w \in Workers : pushing[w].len <= Len(cands)

\* The unlog bits: a slot of a counted object is unlogged or waits, once, for
\* the increment its barrier queued; a slot queued by scan_nursery_object is
\* unlogged; no slot of a young object is.
LogInv ==
    /\ \A s \in Slots : <<"MATURE", s>> \in incs => s \notin unlogged /\ rc[s[1]] > 0
    /\ \A s \in Slots : <<"NURSERY", s>> \in incs => s \in unlogged /\ rc[s[1]] > 0
    /\ phase = "mutator" => \A p \in incs : p[1] = "MATURE"
    /\ \A s \in Slots : Tracked(s[1]) => s \in unlogged \/ <<"MATURE", s>> \in incs
    /\ \A o \in young : rc[o] = 0 /\ \A f \in Fields : <<o, f>> \notin unlogged

\* The roots: memory in use refers to memory in use while the mutator runs, and
\* from the increments on every root has its own count in curr_roots, which
\* release makes prev_roots.
RootInv ==
    /\ phase \in {"mutator", "incs"} =>
          /\ \A r \in RootSlots : roots[r] \in Held \cup {Null}
          /\ \A o \in Held : Targets(o) \subseteq Held
    /\ phase = "incs" =>
          \A r \in RootSlots :
              roots[r] # Null => <<"ROOT", r>> \in incs \/ currRoots[roots[r]] > 0
    /\ phase \notin {"mutator", "incs"} =>
          \A r \in RootSlots : roots[r] # Null => prevRoots[roots[r]] > 0

\* The colours: mark greys, scan leaves no grey, only scan_black's stack is
\* black in stack, white objects have no count unless scan_black is about to
\* restore them, and what a grey or white object refers to is tracked.
ColourInv ==
    /\ phase = "mark" => \A o \in Objects : colour[o] \in {BLACK_OUT_OF_STACK, GREY}
    /\ phase = "collect" => Grey = {}
    /\ \A o \in Objects : in_stack(o) => o \in Range(blk)
    /\ \A o \in Range(blk) : rc[o] > 0
    /\ \A o \in White : rc[o] = 0 \/ o \in Range(blk)
    /\ phase # "collect" => \A o \in Objects : ~is_black(o) => \A x \in Targets(o) : Tracked(x)

\* The depth-first searches miss nothing: what mark greyed comes from the
\* candidates kept, what scan has yet to turn is reached from its stacks and
\* the candidates left, and so is what collect_whites has yet to free.
SearchInv ==
    /\ phase = "mark" => Reaches(Visited, Grey, Objects, Grey \cup Range(stk))
    /\ phase = "scan" =>
          /\ Reaches(Range(stk) \cup Range(blk) \cup Unvisited, Grey, Grey, Grey)
          /\ Reaches(Range(cands) \cup Range(blk), White, Grey \cup White,
                     White \cup (Range(stk) \cap Grey))
    /\ phase = "collect" => Reaches(Range(stk) \cup Unvisited, White, White, White)

\* The strong counts, as long as no push was lost: outside of the decrements
\* and of mark, a black object has one exactly when it has a count; there, an
\* object that has lost it is a candidate, is being pushed, or is on the stack
\* of mark.
StrongInv ==
    ~lost =>
      /\ phase \notin {"decs", "mark"} =>
            \A o \in Black : (rc[o] > 0) <=> (strong[o] > 0)
      /\ \A o \in Black : strong[o] > 0 => Counted(o)
      /\ phase = "decs" =>
            \A o \in Objects : rc[o] > 0 /\ strong[o] = 0 =>
                o \in Range(cands) \/ \E w \in Workers : pushing[w].obj = o
      /\ phase = "mark" =>
            \A o \in Black : rc[o] > 0 /\ strong[o] = 0 => o \in Unvisited \cup Range(stk)

LXRInvariant ==
    /\ TypeOK /\ PhasesInv /\ PushInv /\ LogInv /\ CountsAreExact
    /\ RootInv /\ ColourInv /\ SearchInv /\ StrongInv
=============================================================================

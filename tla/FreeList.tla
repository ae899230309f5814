------------------------------ MODULE FreeList -------------------------------
(***************************************************************************)
(* The generic free list of contiguous units (util/freelist.rs).           *)
(*                                                                         *)
(* A table has two words per unit.  The low word holds the free flag, the  *)
(* uncoalescable flag and the previous link; the high word holds the multi *)
(* flag and, depending on where the unit is in its lump, the next link or  *)
(* the size of the lump.  Several lists with heads -1, -2, ... share the   *)
(* table.  A link to any head is stored as a value above MAX_UNITS and     *)
(* read back as the head of the list asking, so links to heads are kept as *)
(* negative numbers here.                                                  *)
(*                                                                         *)
(* Every operation is a function from a table to a table; those of a list  *)
(* take its head.                                                          *)
(***************************************************************************)
EXTENDS Integers, FiniteSets, TLC

FAILURE == -1

\* One entry of the table; nextLink doubles as the size field.
Entry(prev, next) ==
  [freeBit |-> FALSE, uncoBit |-> FALSE, prevLink |-> prev, multiBit |-> FALSE, nextLink |-> next]

get_size(t, u) == IF t[u].multiBit THEN t[u + 1].nextLink ELSE 1
get_right(t, u) == u + get_size(t, u)
get_left(t, u) == IF t[u - 1].multiBit THEN u - t[u - 1].nextLink ELSE u - 1
get_next(t, h, u) == IF t[u].nextLink < 0 THEN h ELSE t[u].nextLink
get_prev(t, h, u) == IF t[u].prevLink < 0 THEN h ELSE t[u].prevLink
is_free(t, u) == t[u].freeBit
is_coalescable(t, u) == ~t[u].uncoBit

set_next(t, u, n) == [t EXCEPT ![u] = [@ EXCEPT !.nextLink = n]]
set_prev(t, u, p) == [t EXCEPT ![u] = [@ EXCEPT !.prevLink = p]]
set_uncoalescable(t, u) == [t EXCEPT ![u] = [@ EXCEPT !.uncoBit = TRUE]]
clear_uncoalescable(t, u) == [t EXCEPT ![u] = [@ EXCEPT !.uncoBit = FALSE]]
set_sentinel(t, u) ==
  [t EXCEPT ![u] = Entry(u, u)]

\* The second and the last unit of a lump hold its size.
set_size(t, u, size) ==
  LET sized(e) == [e EXCEPT !.multiBit = TRUE, !.nextLink = size]
  IN IF size > 1
     THEN [t EXCEPT ![u] = [@ EXCEPT !.multiBit = TRUE],
                    ![u + 1] = sized(@), ![u + size - 1] = sized(@)]
     ELSE [t EXCEPT ![u] = [@ EXCEPT !.multiBit = FALSE]]

\* The last unit of a lump repeats the flag of the first.
set_free(t, u, b) ==
  [t EXCEPT ![u] = [@ EXCEPT !.freeBit = b],
            ![get_right(t, u) - 1] = [@ EXCEPT !.freeBit = b]]

add_to_free(t, h, u) ==
  LET a == set_free(t, u, TRUE)
      next == get_next(a, h, h)
  IN set_prev(set_prev(set_next(set_next(a, u, next), h, u), u, h), next, u)

remove_from_free(t, h, u) ==
  LET next == get_next(t, h, u)
      prev == get_prev(t, h, u)
  IN set_prev(set_next(t, prev, next), next, prev)

split(t, h, u, size) ==
  add_to_free(set_size(set_size(t, u, size), u + size, get_size(t, u) - size), h, u + size)

\* __alloc: take the first units of a free lump of sufficient size.
alloc_lump(t, h, size, u) ==
  LET a == IF get_size(t, u) > size THEN split(t, h, u, size) ELSE t
  IN set_free(remove_from_free(a, h, u), u, FALSE)

\* The first lump of the list of at least the given size, or the head.
RECURSIVE FirstFit(_, _, _, _)
FirstFit(t, h, size, u) ==
  LET next == get_next(t, h, u)
  IN IF next = h \/ get_size(t, next) >= size THEN next ELSE FirstFit(t, h, size, next)

\* An allocation returns the table and the first unit.
alloc_first_fit(t, h, size) ==
  LET u == FirstFit(t, h, size, h)
  IN IF u = h THEN [table |-> t, unit |-> FAILURE]
     ELSE [table |-> alloc_lump(t, h, size, u), unit |-> u]

alloc_from_unit(t, h, size, u) ==
  IF is_free(t, u) /\ get_size(t, u) >= size THEN alloc_lump(t, h, size, u) ELSE t

coalesce(t, h, start, end) ==
  LET a == IF is_free(t, end) THEN remove_from_free(t, h, end) ELSE t
      b == IF is_free(a, start) THEN remove_from_free(a, h, start) ELSE a
  IN set_size(b, start, end - start + get_size(b, end))

\* free also returns the size of the lump it leaves (return_coalesced_size).
free(t, h, u) ==
  LET left == get_left(t, u)
      right == get_right(t, u)
      start == IF is_coalescable(t, u) /\ is_free(t, left) THEN left ELSE u
      end == IF is_coalescable(t, right) /\ is_free(t, right) THEN right ELSE u
      a == IF start # end THEN coalesce(t, h, start, end) ELSE t
  IN [table |-> add_to_free(a, h, start), size |-> get_size(a, start)]

RECURSIVE EmptyTable(_, _)
EmptyTable(first, last) ==
  IF first = last THEN last :> Entry(0, 0)
  ELSE (first :> Entry(0, 0)) @@ EmptyTable(first + 1, last)

RECURSIVE Sentinels(_, _)
Sentinels(t, i) == IF i = 0 THEN t ELSE Sentinels(set_sentinel(t, -i), i - 1)

\* Lumps of a grain each, from the end of the heap to its start.
RECURSIVE AddGrains(_, _, _, _, _)
AddGrains(t, h, start, grain, u) ==
  IF u < start THEN t
  ELSE AddGrains(add_to_free(set_size(t, u, grain), h, u), h, start, grain, u - grain)

initialize_heap(heads, units, grain) ==
  LET a == set_sentinel(Sentinels(EmptyTable(-heads, units), heads), units)
      rest == units % grain
      b == IF rest > 0 THEN add_to_free(set_size(a, units - rest, rest), -1, units - rest) ELSE a
  IN AddGrains(b, -1, 0, grain, units - rest - grain)

-----------------------------------------------------------------------------
(* What a table stands for                                                  *)

\* First units of the lumps of 0 .. units - 1, left to right.
RECURSIVE LumpsFrom(_, _, _)
LumpsFrom(t, units, u) == IF u >= units THEN {} ELSE {u} \cup LumpsFrom(t, units, get_right(t, u))
Lumps(t, units) == LumpsFrom(t, units, 0)

\* The lumps linked from a head; n bounds the walk.
RECURSIVE LinkedFrom(_, _, _, _)
LinkedFrom(t, h, u, n) ==
  LET next == get_next(t, h, u)
  IN IF next = h \/ n = 0 THEN {} ELSE {next} \cup LinkedFrom(t, h, next, n - 1)
Linked(t, h, units) == LinkedFrom(t, h, h, units + 1)

\* A table is consistent: the lumps tile the units, both ends of a lump give
\* its size and flag, the lists link exactly the free lumps, each in one list
\* and both ways, and no two free neighbours are left uncoalesced.
ConsistentTable(t, heads, units) ==
  LET lumps == Lumps(t, units)
      freeLumps == {u \in lumps : is_free(t, u)}
      linked == [h \in heads |-> Linked(t, h, units)]
  IN /\ \A u \in lumps : /\ get_right(t, u) =< units
                         /\ get_left(t, get_right(t, u)) = u
                         /\ t[get_right(t, u) - 1].freeBit = t[u].freeBit
     /\ UNION {linked[h] : h \in heads} = freeLumps
     /\ \A h, g \in heads : h # g => linked[h] \cap linked[g] = {}
     /\ \A h \in heads : \A u \in linked[h] \cup {h} :
          get_prev(t, h, get_next(t, h, u)) = u
     /\ \A u \in freeLumps : get_right(t, u) \in freeLumps => t[get_right(t, u)].uncoBit

=============================================================================

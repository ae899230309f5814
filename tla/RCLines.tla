------------------------------- MODULE RCLines -------------------------------
(* Holes of a block of the reference-counting Immix space (LXR): which lines  *)
(* the counts of the objects in it keep, and the search for free lines.       *)
(* A count is kept per granule; an object counts at its first granule, and a  *)
(* promoted object larger than a line also gives a count to the first granule *)
(* of each line it straddles, but not of the line its end falls in.  The      *)
(* actions that allocate, promote and free the objects are UnlogTable's.      *)
EXTENDS Integers, FiniteSets, FiniteSetsExt

CONSTANTS
  RCLineCount,     \* Block::LINES
  LineGranules,    \* granules in a line
  PromotedSizes,   \* sizes of promoted objects, in granules
  MinReuseLines    \* the values of min_reuse_lines looked at

VARIABLES
  rc,          \* RC_TABLE for the block: granule -> 0 or 1
  straddles,   \* RC_STRADDLE_LINES: the lines marked
  residents    \* the objects of the block, as intervals of granules

rcLineVars == <<rc, straddles, residents>>

RCLine == 0..(RCLineCount - 1)
Granule == 0..(RCLineCount * LineGranules - 1)
LineOf(g) == g \div LineGranules
FirstGranule(l) == l * LineGranules

RCLinesInit ==
  /\ rc = [g \in Granule |-> 0]
  /\ straddles = {}
  /\ residents = {}

-------------------------------------------------------------------------------
\* Lines mark_straddle_object_with_size and unmark_straddle_object walk.
StraddledLines(o) ==
  IF o.size <= LineGranules THEN {}
  ELSE (LineOf(o.at) + 1)..(LineOf(o.at + o.size) - 1)

\* An object is promoted: its count and the lines it straddles.
promote_with_size(o) ==
  LET marked == {o.at} \cup {FirstGranule(l) : l \in StraddledLines(o)}
  IN  /\ residents' = residents \cup {o}
      /\ rc' = [g \in Granule |-> IF g \in marked THEN 1 ELSE rc[g]]
      /\ straddles' = straddles \cup StraddledLines(o)

\* Mistake: the walk stops one line early at the end of an object.
unmark_straddle_objectShort(o) ==
  {FirstGranule(l) : l \in StraddledLines(o) \ {LineOf(o.at + o.size) - 1}}

\* The counts unmark_straddle_object clears.
unmark_straddle_object(o) == {FirstGranule(l) : l \in StraddledLines(o)}

\* The last count of an object is gone.
process_dead_object(o) ==
  /\ residents' = residents \ {o}
  /\ rc' = [g \in Granule |-> IF g \in {o.at} \cup unmark_straddle_object(o) THEN 0 ELSE rc[g]]
  /\ straddles' = straddles \ StraddledLines(o)

-------------------------------------------------------------------------------
\* RCArray::is_dead: all counts of the line are zero, read as one integer.
line_is_dead(l) == \A g \in FirstGranule(l)..(FirstGranule(l + 1) - 1) : rc[g] = 0

calc_dead_lines == Cardinality({l \in RCLine : line_is_dead(l)})

rc_dead == \A g \in Granule : rc[g] = 0

\* Mistake: the first dead line after a live one opens a hole.
OpensHoleAtOnce(l, start) == line_is_dead(l)

\* A hole opens at line 0, or at the second of two dead lines in a row: the
\* first one may hold the end of an object that starts in the line before.
OpensHole(l, start) ==
  line_is_dead(l) /\ (l = 0 \/ (l > start /\ line_is_dead(l - 1)))

\* Where a hole that opens at l ends.
HoleEnd(l) == Min({RCLineCount} \cup {m \in (l + 1)..(RCLineCount - 1) : ~ line_is_dead(m)})

\* The holes rc_get_next_available_lines finds from a line on, in turn: each
\* search starts where the last one ended, and holes that are too short are
\* passed over.
rc_get_next_available_lines[start \in 0..RCLineCount] ==
  LET opens == {l \in start..(RCLineCount - 1) : OpensHole(l, start)}
  IN  IF opens = {} THEN {}
      ELSE LET first == Min(opens)
           IN  {[first |-> first, last |-> HoleEnd(first)]}
               \cup rc_get_next_available_lines[HoleEnd(first)]

\* Block::has_holes: the dead lines counted so far are those of the run of dead
\* lines at hand, less its first line; at the block's start line 0 counts but
\* line 1 does not.
has_holes(min) ==
  \E l \in RCLine :
    /\ line_is_dead(l)
    /\ LET from == Max({0} \cup {m + 1 : m \in {n \in 0..(l - 1) : ~ line_is_dead(n)}})
       IN  (IF from = 0 THEN (IF l = 0 THEN 1 ELSE l) ELSE l - from) >= min

\* Block::iter_holes: the runs of dead lines, the first line of each included.
iter_holes ==
  {[first |-> l, last |-> HoleEnd(l)] :
     l \in {m \in RCLine : line_is_dead(m) /\ (m = 0 \/ ~ line_is_dead(m - 1))}}

-------------------------------------------------------------------------------
\* A hole of the search (rc_get_next_available_lines, immixspace.rs) holds no
\* part of a counted object, however the objects lie across lines; once they
\* are all dead the whole block is one hole (unmark_straddle_object leaves no
\* count behind); and has_holes says yes exactly when the search would find a
\* hole, so that a block is offered for reuse if and only if it can be used.
RCHolesAreFree ==
  LET holes == rc_get_next_available_lines[0]
  IN  /\ \A h \in holes, o \in residents :
           LineOf(o.at + o.size - 1) < h.first \/ h.last <= LineOf(o.at)
      /\ residents = {} => rc_dead /\ straddles = {} /\ calc_dead_lines = RCLineCount
                           /\ holes = iter_holes
      /\ \A min \in MinReuseLines : has_holes(min) <=> \E h \in holes : h.last - h.first >= min
===============================================================================

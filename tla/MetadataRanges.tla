--------------------------- MODULE MetadataRanges ---------------------------
(***************************************************************************)
(* What the side metadata code does to, and reads from, a range of a side  *)
(* table: bulk zeroing, setting and copying (side_metadata/global.rs), the *)
(* backwards search for a non-zero value and the scan for non-zero values  *)
(* (the same file, helpers.rs and ranges.rs), and what the valid-object    *)
(* bits do with them (vo_bit/mod.rs, linear_scan.rs, object_enum.rs): find *)
(* the object an internal pointer points into, enumerate the objects of an *)
(* address range.                                                          *)
(*                                                                         *)
(* An execution is a table with some contents and one call on it.  The     *)
(* widths of a byte and of a word are parameters, so that a table of a few *)
(* words is small; the code's are LOG_BITS_IN_BYTE = 3, BYTES_IN_ADDRESS = *)
(* 8.  A table is the set of the indices of its bits that are 1; it starts *)
(* at metadata address 0.                                                  *)
(***************************************************************************)
EXTENDS Naturals, Sequences, FiniteSets, FiniteSetsExt, SequencesExt

CONSTANTS
  LOG_BITS_IN_BYTE,   \* bits in a byte of metadata
  BYTES_IN_ADDRESS,   \* bytes in a word
  MMAP_CHUNK_BYTES,   \* granularity of mapping, for data and metadata
  DataBytes,          \* the data addresses are 0 .. DataBytes - 1
  TableSpecs,         \* the metadata specs to consider
  SearchLimits        \* the limits a search is called with

VARIABLES
  table,     \* [spec, bits, mapped, filled]: the metadata and the data it is for
  call       \* the last call: what it was, what it returned, what it should

rangeVars == <<table, call>>

Width == 2^LOG_BITS_IN_BYTE
VO_BIT == [log_num_of_bits |-> 0, log_bytes_in_region |-> 1]
RegionBytes(spec) == 2^spec.log_bytes_in_region
AlignDown(a, n) == (a \div n) * n
\* An address outside the data stands for the absence of an answer.
None == DataBytes

-----------------------------------------------------------------------------
(* Address translation (helpers.rs).                                       *)

address_to_meta_address(spec, a) ==
  LET region == a \div RegionBytes(spec)
  IN  IF spec.log_num_of_bits <= LOG_BITS_IN_BYTE
      THEN region \div 2^(LOG_BITS_IN_BYTE - spec.log_num_of_bits)
      ELSE region * 2^(spec.log_num_of_bits - LOG_BITS_IN_BYTE)

byte_lshift(spec, a) ==
  IF spec.log_num_of_bits >= LOG_BITS_IN_BYTE THEN 0
  ELSE ((a \div RegionBytes(spec)) % 2^(LOG_BITS_IN_BYTE - spec.log_num_of_bits))
         * 2^spec.log_num_of_bits

contiguous_meta_address_to_address(spec, m, bit) ==
  IF spec.log_num_of_bits <= LOG_BITS_IN_BYTE
  THEN m * 2^(LOG_BITS_IN_BYTE - spec.log_num_of_bits) * RegionBytes(spec)
         + bit * 2^(spec.log_bytes_in_region - spec.log_num_of_bits)
  ELSE (m \div 2^(spec.log_num_of_bits - LOG_BITS_IN_BYTE)) * RegionBytes(spec)
         + bit * RegionBytes(spec)

align_metadata_address(spec, m, bit) ==
  IF spec.log_num_of_bits >= LOG_BITS_IN_BYTE
  THEN [addr |-> AlignDown(m, 2^(spec.log_num_of_bits - LOG_BITS_IN_BYTE)), bit |-> 0]
  ELSE [addr |-> m, bit |-> AlignDown(bit, 2^spec.log_num_of_bits)]

\* The bits of the table that hold the value of the region of address a.
Field(spec, a) ==
  LET first == address_to_meta_address(spec, a) * Width + byte_lshift(spec, a)
  IN  first .. first + 2^spec.log_num_of_bits - 1

IsZero(spec, bits, a) == bits \cap Field(spec, a) = {}

\* The metadata of a chunk of data is mapped with the chunk, in mapping units.
data_is_mapped(a) == a \div MMAP_CHUNK_BYTES \in table.mapped

meta_is_mapped(m) ==
  \E c \in table.mapped :
    m \div MMAP_CHUNK_BYTES \in
      (address_to_meta_address(table.spec, c * MMAP_CHUNK_BYTES) \div MMAP_CHUNK_BYTES) ..
      (address_to_meta_address(table.spec, (c + 1) * MMAP_CHUNK_BYTES - 1) \div MMAP_CHUNK_BYTES)

-----------------------------------------------------------------------------
(* break_bit_range: the sub-ranges of whole bytes and of bits in a byte a   *)
(* visitor is shown, in order.                                             *)

Bytes(from, to) == [kind |-> "bytes", from |-> from, to |-> to]
BitsInByte(addr, from, to) == [kind |-> "bits", addr |-> addr, from |-> from, to |-> to]

\* Mistake: the whole bytes start with the byte that holds the unaligned start.
break_bit_rangeWhole(start_addr, start_bit, end_addr, end_bit, forwards) ==
  LET start_aligned == start_bit = 0
      visit_start == IF start_aligned THEN <<>> ELSE <<BitsInByte(start_addr, start_bit, Width)>>
      visit_end == IF end_bit = 0 THEN <<>> ELSE <<BitsInByte(end_addr, 0, end_bit)>>
  IN  CASE start_addr = end_addr /\ start_bit = end_bit -> <<>>
        [] start_addr = end_addr -> <<BitsInByte(start_addr, start_bit, end_bit)>>
        [] OTHER -> visit_start \o <<Bytes(start_addr, end_addr)>> \o visit_end

break_bit_range(start_addr, start_bit, end_addr, end_bit, forwards) ==
  LET start_aligned == start_bit = 0
      middle == IF start_aligned THEN start_addr ELSE start_addr + 1
      visit_start == IF start_aligned THEN <<>> ELSE <<BitsInByte(start_addr, start_bit, Width)>>
      visit_middle == IF middle < end_addr THEN <<Bytes(middle, end_addr)>> ELSE <<>>
      visit_end == IF end_bit = 0 THEN <<>> ELSE <<BitsInByte(end_addr, 0, end_bit)>>
  IN  CASE start_addr = end_addr /\ start_bit = end_bit -> <<>>
        [] start_bit = 0 /\ end_bit = 0 -> <<Bytes(start_addr, end_addr)>>
        [] start_addr = end_addr -> <<BitsInByte(start_addr, start_bit, end_bit)>>
        [] start_addr + 1 = end_addr /\ end_bit = 0 ->
             <<BitsInByte(start_addr, start_bit, Width)>>
        [] OTHER -> IF forwards THEN visit_start \o visit_middle \o visit_end
                                ELSE visit_end \o visit_middle \o visit_start

\* The bits of the table in a sub-range.
Covered(r) ==
  IF r.kind = "bytes" THEN (r.from * Width) .. (r.to * Width - 1)
                      ELSE (r.addr * Width + r.from) .. (r.addr * Width + r.to - 1)
Visited(ranges) == UNION {Covered(ranges[i]) : i \in DOMAIN ranges}

-----------------------------------------------------------------------------
(* Bulk updates.                                                           *)

zero_meta_bits(bits, ranges) == bits \ Visited(ranges)
set_meta_bits(bits, ranges) == bits \cup Visited(ranges)

\* The sub-ranges that stand for `size` bytes of data from `start`.
bulk_update_metadata(spec, start, size) ==
  IF size = 0 THEN <<>>
  ELSE break_bit_range(address_to_meta_address(spec, start), byte_lshift(spec, start),
                       address_to_meta_address(spec, start + size), byte_lshift(spec, start + size),
                       TRUE)

bzero_metadata(start, size) ==
  zero_meta_bits(table.bits, bulk_update_metadata(table.spec, start, size))

bset_metadata(start, size) ==
  set_meta_bits(table.bits, bulk_update_metadata(table.spec, start, size))

\* Copies the bits of another table with the same spec; an empty range breaks
\* into nothing.
bcopy_metadata_contiguous(start, size, other) ==
  LET spec == table.spec
      ranges == break_bit_range(address_to_meta_address(spec, start), byte_lshift(spec, start),
                                address_to_meta_address(spec, start + size),
                                byte_lshift(spec, start + size), TRUE)
  IN  (table.bits \ Visited(ranges)) \cup (other \cap Visited(ranges))

-----------------------------------------------------------------------------
(* The backwards search.  A part of it answers Found(addr, bit), NotFound,  *)
(* or Unmapped.                                                             *)

Found(addr, bit) == [result |-> "found", addr |-> addr, bit |-> bit]
NotFound == [result |-> "notfound"]
UnmappedMetadata == [result |-> "unmapped"]

BitsOf(addr) == {b \in 0 .. Width - 1 : addr * Width + b \in table.bits}

find_last_non_zero_bit(bits, from, to) == bits \cap (from .. to - 1)

find_last_non_zero_bit_in_metadata_bits(addr, from, to) ==
  LET bits == find_last_non_zero_bit(BitsOf(addr), from, to)
  IN  CASE ~meta_is_mapped(addr) -> UnmappedMetadata
        [] meta_is_mapped(addr) /\ bits # {} -> Found(addr, Max(bits))
        [] OTHER -> NotFound

\* Walks down by words where it can and by bytes otherwise; `mapped` is the
\* start of the lowest unit known to be mapped.
RECURSIVE find_last_non_zero_bit_in_metadata_bytes(_, _, _, _)
find_last_non_zero_bit_in_metadata_bytes(meta_start, meta_end, cur, mapped) ==
  LET word == cur % BYTES_IN_ADDRESS = 0 /\ cur >= meta_start + BYTES_IN_ADDRESS
      down == cur - (IF word THEN BYTES_IN_ADDRESS ELSE 1)
      ones == {b \in 0 .. (cur - down) * Width - 1 : down * Width + b \in table.bits}
  IN  CASE cur <= meta_start -> NotFound
        [] cur > meta_start /\ down < mapped /\ ~meta_is_mapped(down) -> UnmappedMetadata
        [] cur > meta_start /\ ones # {} /\ (down >= mapped \/ meta_is_mapped(down)) ->
             Found(down + Max(ones) \div Width, Max(ones) % Width)
        [] OTHER -> find_last_non_zero_bit_in_metadata_bytes(meta_start, meta_end, down,
                      IF down < mapped THEN AlignDown(down, MMAP_CHUNK_BYTES) ELSE mapped)

find_prev_non_zero_value_simple(data_addr, limit) ==
  LET first == AlignDown(data_addr, RegionBytes(table.spec))
      end == (IF data_addr > limit THEN data_addr - limit ELSE 0) + 1
      Hit(a) == ~data_is_mapped(a) \/ ~IsZero(table.spec, table.bits, a)
      stops == {a \in end .. first : a % RegionBytes(table.spec) = 0 /\ Hit(a)}
  IN  IF stops = {} \/ ~data_is_mapped(Max(stops)) THEN None ELSE Max(stops)

\* The visitor aborts at the first sub-range that does not answer NotFound.
find_prev_non_zero_value_fast(data_addr, limit) ==
  LET spec == table.spec
      start == (IF data_addr > limit THEN data_addr - limit ELSE 0) + 1
      ranges == break_bit_range(address_to_meta_address(spec, start), byte_lshift(spec, start),
                                address_to_meta_address(spec, data_addr),
                                byte_lshift(spec, data_addr), FALSE)
      Look(r) == IF r.kind = "bytes"
                 THEN find_last_non_zero_bit_in_metadata_bytes(r.from, r.to, r.to, DataBytes)
                 ELSE find_last_non_zero_bit_in_metadata_bits(r.addr, r.from, r.to)
      aborts == {i \in DOMAIN ranges : Look(ranges[i]) # NotFound}
      last == Look(ranges[Min(aborts)])
      at == align_metadata_address(spec, last.addr, last.bit)
      found == AlignDown(contiguous_meta_address_to_address(spec, at.addr, at.bit), RegionBytes(spec))
  IN  CASE ~data_is_mapped(data_addr) -> None
        [] data_is_mapped(data_addr) /\ ~IsZero(spec, table.bits, data_addr) ->
             AlignDown(data_addr, RegionBytes(spec))
        [] OTHER -> IF aborts # {} /\ last # UnmappedMetadata /\ found >= start /\ found < data_addr
                    THEN found ELSE None

find_prev_non_zero_value(data_addr, limit) == find_prev_non_zero_value_fast(data_addr, limit)

-----------------------------------------------------------------------------
(* The scan for non-zero values of a spec with one bit per region.         *)

\* A word is scanned with one address and bit offsets beyond a byte.
scan_non_zero_bits_in_metadata_word(addr, ones) == {[addr |-> addr, bit |-> b] : b \in ones}

scan_non_zero_bits_in_metadata_bytes(meta_start, meta_end) ==
  LET first == Min({meta_end} \cup {a \in meta_start .. meta_end : a % BYTES_IN_ADDRESS = 0})
      words == {a \in first .. meta_end :
                  (a - first) % BYTES_IN_ADDRESS = 0 /\ a + BYTES_IN_ADDRESS < meta_end}
      tail == IF words = {} THEN first ELSE Max(words) + BYTES_IN_ADDRESS
      Ones(a, n) == {b \in 0 .. n * Width - 1 : a * Width + b \in table.bits}
  IN  UNION ({scan_non_zero_bits_in_metadata_word(a, Ones(a, 1)) :
                a \in (meta_start .. first - 1) \cup (tail .. meta_end - 1)}
        \cup {scan_non_zero_bits_in_metadata_word(a, Ones(a, BYTES_IN_ADDRESS)) : a \in words})

scan_non_zero_bits_in_metadata_bits(addr, from, to) ==
  {[addr |-> addr, bit |-> b] : b \in BitsOf(addr) \cap (from .. to - 1)}

scan_non_zero_values_fast(data_start, data_end) ==
  LET spec == table.spec
      ranges == break_bit_range(address_to_meta_address(spec, data_start), byte_lshift(spec, data_start),
                                address_to_meta_address(spec, data_end), byte_lshift(spec, data_end),
                                FALSE)
      Look(r) == IF r.kind = "bytes" THEN scan_non_zero_bits_in_metadata_bytes(r.from, r.to)
                 ELSE scan_non_zero_bits_in_metadata_bits(r.addr, r.from, r.to)
  IN  {contiguous_meta_address_to_address(spec, x.addr, x.bit) :
         x \in UNION {Look(ranges[i]) : i \in DOMAIN ranges}}

scan_non_zero_values_simple(data_start, data_end) ==
  {a \in data_start .. data_end - 1 :
     (a - data_start) % RegionBytes(table.spec) = 0 /\ ~IsZero(table.spec, table.bits, a)}

scan_non_zero_values(data_start, data_end) ==
  IF table.spec.log_num_of_bits = 0 THEN scan_non_zero_values_fast(data_start, data_end)
                                    ELSE scan_non_zero_values_simple(data_start, data_end)

-----------------------------------------------------------------------------
(* Valid-object bits: an object starts at every region whose bit is 1.     *)

HasObjects == table.spec = VO_BIT
Objects == {a \in 0 .. DataBytes - 1 :
              a % RegionBytes(VO_BIT) = 0 /\ ~IsZero(VO_BIT, table.bits, a)}

\* Objects are as small as they get, or reach up to the next one of the chunk.
get_current_size(object) ==
  LET chunkEnd == AlignDown(object, MMAP_CHUNK_BYTES) + MMAP_CHUNK_BYTES
  IN  IF table.filled THEN Min({chunkEnd} \cup {o \in Objects : o > object}) - object
                      ELSE RegionBytes(VO_BIT)

is_vo_bit_set_inner(a) ==
  meta_is_mapped(address_to_meta_address(VO_BIT, a)) /\ ~IsZero(VO_BIT, table.bits, a)

is_internal_ptr(object, ptr) == ptr < object + get_current_size(object)

find_object_from_internal_pointer(ptr, limit) ==
  LET vo_addr == find_prev_non_zero_value(ptr, limit)
  IN  IF data_is_mapped(ptr) /\ vo_addr # None /\ is_internal_ptr(vo_addr, ptr)
      THEN vo_addr ELSE None

\* ObjectIterator::next until it returns None.
RECURSIVE ObjectIterator(_, _)
ObjectIterator(cursor, end) ==
  CASE cursor >= end -> <<>>
    [] cursor < end /\ is_vo_bit_set_inner(cursor) ->
         <<cursor>> \o ObjectIterator(cursor + get_current_size(cursor), end)
    [] OTHER -> ObjectIterator(cursor + RegionBytes(VO_BIT), end)

visit_address_range(from, to) == scan_non_zero_values(from, to)

-----------------------------------------------------------------------------
(* Calls.                                                                  *)

RegionStarts(spec) == {a \in 0 .. DataBytes - 1 : a % RegionBytes(spec) = 0}
MappedRegions == {a \in RegionStarts(table.spec) : data_is_mapped(a)}

\* A call that returns `got` where the data says `want`.
Call(kind, got, want) == call' = [kind |-> kind, got |-> got, want |-> want]

\* The bits of the regions in [start, start + size).
Within(start, size) ==
  UNION {Field(table.spec, a) : a \in {r \in RegionStarts(table.spec) : r >= start /\ r < start + size}}

\* A range of mapped data, in whole regions.
AllMapped(start, size) == \A r \in RegionStarts(table.spec) : r >= start /\ r < start + size => data_is_mapped(r)
Sizes == {a + RegionBytes(table.spec) : a \in RegionStarts(table.spec)} \cup {0}
InTable(start, size) == start + size <= DataBytes /\ AllMapped(start, size)

BulkZero(start, size) ==
  /\ InTable(start, size)
  /\ table' = [table EXCEPT !.bits = bzero_metadata(start, size)]
  /\ Call("bzero", table'.bits, table.bits \ Within(start, size))

BulkSet(start, size) ==
  /\ InTable(start, size)
  /\ table' = [table EXCEPT !.bits = bset_metadata(start, size)]
  /\ Call("bset", table'.bits, table.bits \cup Within(start, size))

\* Valid-object bits become a copy of the mark bits, here those of the regions
\* that do not start an object.
bcopy_vo_bit_from_mark_bit(start, size) ==
  /\ InTable(start, size)
  /\ LET marks == UNION {Field(table.spec, a) : a \in RegionStarts(table.spec)} \ table.bits
     IN  /\ table' = [table EXCEPT !.bits = bcopy_metadata_contiguous(start, size, marks)]
         /\ Call("bcopy", table'.bits,
                 (table.bits \ Within(start, size)) \cup (marks \cap Within(start, size)))

\* The last region at or before `a`, less than `limit` bytes before it or the
\* region of `a` itself, whose value is not zero.
LastNonZero(a, limit) ==
  LET hits == {r \in RegionStarts(table.spec) :
                 /\ r <= a
                 /\ a < r + limit \/ a < r + RegionBytes(table.spec)
                 /\ ~IsZero(table.spec, table.bits, r)}
  IN  IF hits = {} THEN None ELSE Max(hits)

Search(a, limit) ==
  /\ data_is_mapped(a)
  /\ call' = [kind |-> "find_prev", got |-> find_prev_non_zero_value(a, limit),
              want |-> LastNonZero(a, limit),
              naive |-> find_prev_non_zero_value_simple(a, limit)]
  /\ UNCHANGED table

FindObject(ptr, limit) ==
  /\ HasObjects
  /\ LET holders == {o \in Objects : o <= ptr /\ ptr < o + get_current_size(o)
                                     /\ (ptr < o + limit \/ ptr < o + RegionBytes(VO_BIT))}
     IN  Call("find_object", find_object_from_internal_pointer(ptr, limit),
              IF holders = {} THEN None ELSE Max(holders))
  /\ UNCHANGED table

Scan(start, size) ==
  /\ InTable(start, size)
  /\ Call("scan", visit_address_range(start, start + size),
          {r \in RegionStarts(table.spec) :
             r >= start /\ r < start + size /\ ~IsZero(table.spec, table.bits, r)})
  /\ UNCHANGED table

Iterate(start, size) ==
  /\ HasObjects /\ InTable(start, size) /\ size > 0
  /\ Call("iterate", ObjectIterator(start, start + size),
          SetToSortSeq({o \in Objects : o >= start /\ o < start + size}, LAMBDA x, y : x < y))
  /\ UNCHANGED table

-----------------------------------------------------------------------------
\* At most two mapped regions have a value.  The lowest chunk is not mapped; the
\* chunks above it are, all of them, all but one, or only the upper half.
RangesInit ==
  \E spec \in TableSpecs, filled \in BOOLEAN :
  \E mapped \in LET last == DataBytes \div MMAP_CHUNK_BYTES - 1 IN {1 .. last, (1 .. last) \ {2}, last \div 2 + 1 .. last} :
  \E ones \in {R \in SUBSET {a \in RegionStarts(spec) : a \div MMAP_CHUNK_BYTES \in mapped} :
                 Cardinality(R) <= 2} :
  \E highest \in BOOLEAN :
    /\ table = [spec |-> spec, mapped |-> mapped, filled |-> filled,
                bits |-> {IF highest THEN Max(Field(spec, a)) ELSE Min(Field(spec, a)) : a \in ones}]
    /\ call = [kind |-> "none", got |-> None, want |-> None]

RangesNext ==
  /\ call.kind = "none"
  /\ \/ \E start \in RegionStarts(table.spec), size \in Sizes :
          \/ BulkZero(start, size)
          \/ BulkSet(start, size)
          \/ bcopy_vo_bit_from_mark_bit(start, size)
          \/ Scan(start, size)
          \/ Iterate(start, size)
     \/ \E a \in 0 .. DataBytes - 1, limit \in SearchLimits :
          \/ Search(a, limit)
          \/ FindObject(a, limit)

\* Every call on a range of metadata does what it says to the values of the
\* regions in the range, and to no other: bulk updates change exactly those
\* bits, the search returns the last region with a value within its limit,
\* scans and iterators return exactly the objects of the range, and an
\* internal pointer leads to the object it points into.
RangeCallsAreExact == call.got = call.want

\* The two implementations of the search return the same ("returned a diffrent
\* result from the naive implementation").
SearchMeetsNaive == call.kind = "find_prev" => call.got = call.naive

=============================================================================

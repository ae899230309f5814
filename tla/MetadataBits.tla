---------------------------- MODULE MetadataBits ----------------------------
(***************************************************************************)
(* Per-object metadata narrower than a byte: several fields (forwarding    *)
(* bits, mark bits, unlog bits, reference counts) share one byte of a side *)
(* table (side_metadata/global.rs) or of an object header                  *)
(* (header_metadata.rs), and threads update the fields of one byte at the  *)
(* same time.  A header may also hold a field that overlaps another one:   *)
(* the forwarding pointer is accessed under a mask that excludes the       *)
(* forwarding bits stored in the same word.                                *)
(*                                                                         *)
(* A byte is the set of its bits that are 1.  Every access to memory is a  *)
(* step; what the code does between two accesses is part of the earlier    *)
(* one.  A word is modelled by one byte: the fields that are wider than a  *)
(* byte are accessed by the single atomic instructions of their type.      *)
(*                                                                         *)
(* The ghost `value` gives every field a register of its own; an access    *)
(* that takes effect changes exactly the register of its field.            *)
(***************************************************************************)
EXTENDS Naturals, FiniteSets, FiniteSetsExt

CONSTANTS
  Accessors,     \* the threads that access metadata
  MetadataSets   \* each one a set of fields that live in the same memory,
                 \* with the operands the threads use on them

VARIABLES
  metas,         \* the fields of this execution
  byte,          \* their memory: the bits that are 1 at each byte address
  value,         \* ghost: the register each field stands for
  access,        \* what each thread is doing
  wrong          \* ghost: the kinds of access that answered something else
                 \* than the value their field had

bitsVars == <<metas, byte, value, access, wrong>>

BITS_IN_BYTE == 8
Byte == 0 .. BITS_IN_BYTE - 1

-----------------------------------------------------------------------------
(* Machine integers as bit sets.                                           *)

ToBits(v) == {i \in Byte : (v \div 2^i) % 2 = 1}
ToVal(bits) == MapThenSumSet(LAMBDA i : 2^i, bits)
Shl(bits, n) == {i + n : i \in bits} \cap Byte
Shr(bits, n) == {i - n : i \in {j \in bits : j >= n}}
Truncate(v, width) == v % 2^width

-----------------------------------------------------------------------------
(* Where a field is.  A side field `m` belongs to the data region m.at, a   *)
(* header field starts at bit m.at of the header; m.mask is the optional    *)
(* mask, with {} for None.                                                  *)

is_on_side(m) == m.where = "side"

address_to_contiguous_meta_address(m) == (m.at * m.bits) \div BITS_IN_BYTE

meta_byte_lshift(m) ==
  IF m.bits >= BITS_IN_BYTE THEN 0 ELSE (m.at % (BITS_IN_BYTE \div m.bits)) * m.bits

meta_byte_mask(m) == 0 .. m.bits - 1

byte_offset(m) == m.at \div BITS_IN_BYTE

get_shift_and_mask_for_bits(m) ==
  LET shift == m.at - byte_offset(m) * BITS_IN_BYTE
  IN  [shift |-> shift, mask |-> Shl(0 .. m.bits - 1, shift)]

meta_addr(m) ==
  <<m.where, IF is_on_side(m) THEN address_to_contiguous_meta_address(m) ELSE byte_offset(m)>>

-----------------------------------------------------------------------------
(* Reading a field out of a byte and writing it into one.                  *)

\* The shift and the mask side_metadata/global.rs computes in every access.
SideLshift(m) == meta_byte_lshift(m)
SideMask(m) == Shl(meta_byte_mask(m), meta_byte_lshift(m))

SideGet(m, raw) == Shr(raw \cap SideMask(m), SideLshift(m))
SidePut(m, raw, v) == (raw \ SideMask(m)) \cup Shl(ToBits(v), SideLshift(m))

get_bits_from_u8(m, raw) ==
  LET s == get_shift_and_mask_for_bits(m) IN Shr(raw \cap s.mask, s.shift)

set_bits_to_u8(m, raw, v) ==
  LET s == get_shift_and_mask_for_bits(m) IN (raw \ s.mask) \cup Shl(ToBits(v), s.shift)

truncate_bits_in_u8(m, v) == ToVal(ToBits(v) \cap (0 .. m.bits - 1))

\* A field that shares its bytes is read and written through a byte of others.
Shared(m) == m.bits < BITS_IN_BYTE

side_load_atomic(m, raw) == ToVal(IF Shared(m) THEN SideGet(m, raw) ELSE raw)

load_inner(m, raw) ==
  LET res == IF Shared(m) THEN get_bits_from_u8(m, raw) ELSE raw
  IN  ToVal(IF m.mask = {} THEN res ELSE res \cap m.mask)

\* MetadataSpec::load_atomic dispatches on where the field is.
load_atomic(m, raw) == IF is_on_side(m) THEN side_load_atomic(m, raw) ELSE load_inner(m, raw)

\* An access that reads a byte first and then tries to exchange it.
Tries(m) == Shared(m) \/ m.mask # {}

-----------------------------------------------------------------------------
(* The byte each access computes from the byte it read.  The side and the  *)
(* header version of an access are two pieces of code; MetadataSpec picks  *)
(* one of them.                                                            *)

side_store_atomic(m, raw, v) == IF Shared(m) THEN SidePut(m, raw, v) ELSE ToBits(v)

store_inner(m, raw, v) ==
  CASE Shared(m) -> set_bits_to_u8(m, raw, v)
    [] ~Shared(m) /\ m.mask # {} -> (raw \ m.mask) \cup (ToBits(v) \cap m.mask)
    [] OTHER -> ToBits(v)

store_atomic(m, raw, v) ==
  IF is_on_side(m) THEN side_store_atomic(m, raw, v) ELSE store_inner(m, raw, v)

\* new_val is what the update function makes of the field in raw.
side_fetch_ops_on_bits(m, raw, new_val) ==
  (raw \ SideMask(m)) \cup (Shl(ToBits(new_val), SideLshift(m)) \cap SideMask(m))

fetch_ops_on_bits(m, raw, new_val) == set_bits_to_u8(m, raw, truncate_bits_in_u8(m, new_val))

wrapping_add(x, v) == (x + v) % 2^BITS_IN_BYTE
wrapping_sub(x, v) == (x + 2^BITS_IN_BYTE - v) % 2^BITS_IN_BYTE

fetch_add_atomic(m, raw, v) ==
  IF Shared(m) THEN side_fetch_ops_on_bits(m, raw, wrapping_add(ToVal(SideGet(m, raw)), v))
               ELSE ToBits(wrapping_add(ToVal(raw), v))

fetch_sub_atomic(m, raw, v) ==
  IF Shared(m) THEN side_fetch_ops_on_bits(m, raw, wrapping_sub(ToVal(SideGet(m, raw)), v))
               ELSE ToBits(wrapping_sub(ToVal(raw), v))

fetch_add(m, raw, v) ==
  IF Shared(m) THEN fetch_ops_on_bits(m, raw, wrapping_add(ToVal(get_bits_from_u8(m, raw)), v))
               ELSE ToBits(wrapping_add(ToVal(raw), v))

fetch_sub(m, raw, v) ==
  IF Shared(m) THEN fetch_ops_on_bits(m, raw, wrapping_sub(ToVal(get_bits_from_u8(m, raw)), v))
               ELSE ToBits(wrapping_sub(ToVal(raw), v))

fetch_add_metadata(m, raw, v) ==
  IF is_on_side(m) THEN fetch_add_atomic(m, raw, v) ELSE fetch_add(m, raw, v)

fetch_sub_metadata(m, raw, v) ==
  IF is_on_side(m) THEN fetch_sub_atomic(m, raw, v) ELSE fetch_sub(m, raw, v)

\* The bits of the other fields are 1 in the operand of an `and`.
fetch_and_atomic(m, raw, v) ==
  IF Shared(m) THEN raw \cap (Shl(ToBits(v), SideLshift(m)) \cup (Byte \ SideMask(m)))
               ELSE raw \cap ToBits(v)

fetch_and(m, raw, v) ==
  LET s == get_shift_and_mask_for_bits(m)
  IN  IF Shared(m) THEN raw \cap (Shl(ToBits(v), s.shift) \cup (Byte \ s.mask))
                   ELSE raw \cap ToBits(v)

\* ... and 0 in the operand of an `or`.
fetch_or_atomic(m, raw, v) ==
  IF Shared(m) THEN raw \cup (Shl(ToBits(v), SideLshift(m)) \cap SideMask(m))
               ELSE raw \cup ToBits(v)

fetch_or(m, raw, v) ==
  LET s == get_shift_and_mask_for_bits(m)
  IN  IF Shared(m) THEN raw \cup (Shl(ToBits(v), s.shift) \cap s.mask) ELSE raw \cup ToBits(v)

fetch_and_metadata(m, raw, v) ==
  IF is_on_side(m) THEN fetch_and_atomic(m, raw, v) ELSE fetch_and(m, raw, v)

fetch_or_metadata(m, raw, v) ==
  IF is_on_side(m) THEN fetch_or_atomic(m, raw, v) ELSE fetch_or(m, raw, v)

\* An update function of a caller: count on while below v, otherwise give up.
Bump(x, v) == IF x < v THEN {x + v} ELSE {}

fetch_update_atomic(m, raw, v) ==
  {IF Shared(m) THEN side_fetch_ops_on_bits(m, raw, new) ELSE ToBits(new)
     : new \in Bump(side_load_atomic(m, raw), v)}

fetch_update(m, raw, v) ==
  {IF Shared(m) THEN fetch_ops_on_bits(m, raw, new) ELSE ToBits(new)
     : new \in Bump(ToVal(IF Shared(m) THEN get_bits_from_u8(m, raw) ELSE raw), v)}

fetch_update_metadata(m, raw, v) ==
  IF is_on_side(m) THEN fetch_update_atomic(m, raw, v) ELSE fetch_update(m, raw, v)

-----------------------------------------------------------------------------
(* compare_exchange: the byte expected, the byte to be stored, and what is *)
(* answered from the byte the instruction returns.                         *)

compare_exchange_atomic(m, seen, old, new) ==
  IF Shared(m)
  THEN LET expected == SidePut(m, seen, old)
       IN  [expected |-> expected, desired |-> SidePut(m, expected, new)]
  ELSE [expected |-> ToBits(old), desired |-> ToBits(new)]

compare_exchange(m, seen, old, new) ==
  CASE Shared(m) -> LET expected == set_bits_to_u8(m, seen, old)
                    IN  [expected |-> expected, desired |-> set_bits_to_u8(m, expected, new)]
    [] ~Shared(m) /\ m.mask # {} ->
         [expected |-> (seen \ m.mask) \cup ToBits(old), desired |-> (seen \ m.mask) \cup ToBits(new)]
    [] OTHER -> [expected |-> ToBits(old), desired |-> ToBits(new)]

compare_exchange_metadata(m, seen, old, new) ==
  IF is_on_side(m) THEN compare_exchange_atomic(m, seen, old, new)
                   ELSE compare_exchange(m, seen, old, new)

\* The side version extracts the field; the header version returns the byte.
ExchangeAnswer(m, raw) == ToVal(IF is_on_side(m) /\ Shared(m) THEN SideGet(m, raw) ELSE raw)

-----------------------------------------------------------------------------
(* The registers the fields stand for.                                     *)

\* What an access leaves in its field when the field is a register of its own
\* that holds x.  An exchange may fail: ok says whether it succeeded.
Sequential(o, x, ok) ==
  LET wrap(v) == Truncate(v, o.m.bits)
  IN  CASE o.op \in {"store", "plain"} -> o.v
        [] o.op = "add" -> wrap(x + o.v)
        [] o.op = "sub" -> wrap(x + 2^o.m.bits - wrap(o.v))
        [] o.op = "and" -> ToVal(ToBits(x) \cap ToBits(o.v))
        [] o.op = "or" -> ToVal(ToBits(x) \cup ToBits(o.v))
        [] o.op = "update" -> wrap(x + o.v)
        [] o.op = "exchange" -> IF ok THEN o.v ELSE x
        [] OTHER -> x

Idle == [pc |-> "idle"]

Addresses == {meta_addr(m) : m \in metas}

\* The accesses of this execution; an overlapping field is only loaded,
\* stored and exchanged, each time under its mask.
Accesses ==
  LET Ops(m) == {"load", "store", "plain", "exchange"}
                  \cup (IF m.mask = {} THEN {"add", "sub", "and", "or", "update"} ELSE {})
                  \cup (IF is_on_side(m) /\ Shared(m) THEN {"raw"} ELSE {})
  IN  UNION {[op : Ops(m), m : {m}, v : m.args, old : m.args \cup {0}] : m \in metas}

\* The operand `old` is used by exchange only.
Distinct(o) == o.op = "exchange" \/ o.old = o.v

\* The access o of thread t takes effect, or fails, and answers.
Answer(t, o, new, ok, got) ==
  LET was == value[o.m]
  IN  /\ byte' = [byte EXCEPT ![meta_addr(o.m)] = new]
      /\ value' = [value EXCEPT ![o.m] = Sequential(o, was, ok)]
      /\ access' = [access EXCEPT ![t] = Idle]
      /\ wrong' = wrong \cup
           {w \in {"answer", "exchange"} :
              /\ w = "exchange" <=> o.op = "exchange"
              /\ got # was \/ (w = "exchange" /\ ok /\ was # o.old)}

Raw(o) == byte[meta_addr(o.m)]

\* No other thread is in the middle of an access to the byte: the contract of
\* the accesses that are not thread-safe.
Alone(t, o) ==
  \A u \in Accessors \ {t} : access[u].pc = "trying" => meta_addr(access[u].o.m) # meta_addr(o.m)

-----------------------------------------------------------------------------
(* The accesses.                                                           *)

Free(t) == access[t].pc = "idle"

Load(t, o) ==
  /\ Free(t) /\ o.op = "load"
  /\ Answer(t, o, Raw(o), TRUE, load_atomic(o.m, Raw(o)))

store(t, o) ==
  /\ Free(t) /\ o.op = "plain" /\ Alone(t, o)
  /\ Answer(t, o, store_atomic(o.m, Raw(o), o.v), TRUE, value[o.m])

\* Sets the whole byte, neighbours included, to 0xff.
set_raw_byte_atomic(t, o) ==
  /\ Free(t) /\ o.op = "raw"
  /\ byte' = [byte EXCEPT ![meta_addr(o.m)] = Byte]
  /\ value' = [m \in metas |-> IF meta_addr(m) = meta_addr(o.m) THEN 2^m.bits - 1 ELSE value[m]]
  /\ access' = [access EXCEPT ![t] = Idle]
  /\ UNCHANGED wrong

\* An access that is one atomic instruction.
Instruction(t, o) ==
  /\ Free(t)
  /\ \/ o.op = "store" /\ ~Tries(o.m)
     \/ o.op \in {"add", "sub"} /\ ~Shared(o.m)
     \/ o.op \in {"and", "or"}
  /\ Answer(t, o,
            CASE o.op = "store" -> store_atomic(o.m, Raw(o), o.v)
              [] o.op = "add" -> fetch_add_metadata(o.m, Raw(o), o.v)
              [] o.op = "sub" -> fetch_sub_metadata(o.m, Raw(o), o.v)
              [] o.op = "and" -> fetch_and_metadata(o.m, Raw(o), o.v)
              [] o.op = "or" -> fetch_or_metadata(o.m, Raw(o), o.v),
            TRUE, IF o.op = "store" THEN value[o.m] ELSE load_atomic(o.m, Raw(o)))

\* An access that reads its byte first: fetch_update's loop, or an exchange.
ReadByte(t, o) ==
  /\ Free(t)
  /\ \/ o.op \in {"store", "exchange"} /\ Tries(o.m)
     \/ o.op \in {"add", "sub"} /\ Shared(o.m)
     \/ o.op = "update"
  /\ access' = [access EXCEPT ![t] = [pc |-> "trying", o |-> o, seen |-> Raw(o)]]
  /\ UNCHANGED <<byte, value, wrong>>

\* The exchange of a field that has its byte to itself.
ExchangeWhole(t, o) ==
  /\ Free(t) /\ o.op = "exchange" /\ ~Tries(o.m)
  /\ LET x == compare_exchange_metadata(o.m, {}, o.old, o.v)
     IN  Answer(t, o, IF Raw(o) = x.expected THEN x.desired ELSE Raw(o),
                Raw(o) = x.expected, ExchangeAnswer(o.m, Raw(o)))

\* The bytes the closure given to AtomicU8::fetch_update may return: one, or none.
Closure(o, seen) ==
  CASE o.op = "store" -> {store_atomic(o.m, seen, o.v)}
    [] o.op = "add" -> {fetch_add_metadata(o.m, seen, o.v)}
    [] o.op = "sub" -> {fetch_sub_metadata(o.m, seen, o.v)}
    [] o.op = "update" -> fetch_update_metadata(o.m, seen, o.v)

\* Mistake: the byte is stored without checking that it is still the one seen.
FetchUpdateStores(t) ==
  LET o == access[t].o
      seen == access[t].seen
      old == IF o.op = "store" THEN value[o.m] ELSE load_atomic(o.m, seen)
  IN  /\ access[t].pc = "trying" /\ o.op # "exchange"
      /\ \/ /\ Closure(o, seen) = {}
            /\ access' = [access EXCEPT ![t] = Idle]
            /\ UNCHANGED <<byte, value, wrong>>
         \/ \E new \in Closure(o, seen) : Answer(t, o, new, TRUE, old)

\* One round of AtomicU8::fetch_update: exchange the byte if it is still the
\* one seen, otherwise look again.
FetchUpdate(t) ==
  LET o == access[t].o
      seen == access[t].seen
      old == IF o.op = "store" THEN value[o.m] ELSE load_atomic(o.m, seen)
  IN  /\ access[t].pc = "trying" /\ o.op # "exchange"
      /\ \/ /\ Closure(o, seen) = {}
            /\ access' = [access EXCEPT ![t] = Idle]
            /\ UNCHANGED <<byte, value, wrong>>
         \/ /\ Raw(o) = seen
            /\ \E new \in Closure(o, seen) : Answer(t, o, new, TRUE, old)
         \/ /\ Closure(o, seen) # {} /\ Raw(o) # seen
            /\ access' = [access EXCEPT ![t].seen = Raw(o)]
            /\ UNCHANGED <<byte, value, wrong>>

\* The second half of an exchange: one compare-exchange of the whole byte.
Exchange(t) ==
  LET o == access[t].o
      x == compare_exchange_metadata(o.m, access[t].seen, o.old, o.v)
  IN  /\ access[t].pc = "trying" /\ o.op = "exchange"
      /\ Answer(t, o, IF Raw(o) = x.expected THEN x.desired ELSE Raw(o),
                Raw(o) = x.expected, ExchangeAnswer(o.m, Raw(o)))

-----------------------------------------------------------------------------
BitsInit ==
  /\ metas \in MetadataSets
  /\ byte = [a \in Addresses |-> {}]
  /\ value = [m \in metas |-> 0]
  /\ access = [t \in Accessors |-> Idle]
  /\ wrong = {}

BitsNext ==
  /\ UNCHANGED metas
  /\ \E t \in Accessors :
       \/ \E o \in Accesses :
            /\ Distinct(o)
            /\ \/ Load(t, o)
               \/ store(t, o)
               \/ set_raw_byte_atomic(t, o)
               \/ Instruction(t, o)
               \/ ReadByte(t, o)
               \/ ExchangeWhole(t, o)
       \/ FetchUpdate(t)
       \/ Exchange(t)

BitsSpec == BitsInit /\ [][BitsNext]_bitsVars

-----------------------------------------------------------------------------
\* Every field behaves as a register of its own, whatever the threads do to
\* the fields that share its byte: memory holds what the accesses to the field
\* made it, and every access but compare_exchange answers the value the field
\* had when the access took effect.
MetadataIsAtomic ==
  /\ \A m \in metas : load_atomic(m, byte[meta_addr(m)]) = value[m]
  /\ "answer" \notin wrong

\* compare_exchange answers the value the field had, and on success that is
\* the expected one, as its tests assert (header_metadata.rs:
\* "assert_eq!(res.unwrap(), old_val)").
ExchangesAnswerTheField == "exchange" \notin wrong

=============================================================================

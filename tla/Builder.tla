------------------------------ MODULE Builder -------------------------------
(***************************************************************************)
(* A cell under construction (core/src/cell/builder.rs and builder/).      *)
(* A builder is its bits and its references; a store answers how it ended  *)
(* and the builder it left, which after a refusal is the one a caller that *)
(* recovers goes on with.  The widths are the code's own names over        *)
(* smaller numbers: a byte has BYTE bits, a u32 HALF, a u64 WORD, a u128   *)
(* LONG.                                                                   *)
(***************************************************************************)
EXTENDS HmLabel, Integers

CONSTANTS MAX_BITS, MAX_REFS, BYTE, HALF, WORD, LONG

new == [bits |-> <<>>, refs |-> <<>>]

Ok(b) == [why |-> "ok", b |-> b]
Refused(b, why) == [why |-> why, b |-> b]

\* The next store of a run, made only if the one before it was.
Then(r, Store(_)) == IF r.why = "ok" THEN Store(r.b) ELSE r

bits_left(b) == MAX_BITS - Len(b.bits)
refs_left(b) == MAX_REFS - Len(b.refs)
can_extend_by(b, bits, refs) == bits <= bits_left(b) /\ refs <= refs_left(b)

DivCeil(n, d) == (n + d - 1) \div d

-----------------------------------------------------------------------------
(* Bits and integers.                                                      *)

\* room_for, then one store_bit for every bit of the run.
store_bits(b, run) ==
  IF Len(run) > bits_left(b) THEN Refused(b, "NoRoomForBits")
  ELSE Ok([b EXCEPT !.bits = @ \o run])

store_bit(b, bit) == store_bits(b, <<bit>>)
store_same_bit(b, bit, count) == store_bits(b, [i \in 1..count |-> bit])
store_bytes(b, bytes) ==
  store_bits(b, [i \in 1..BYTE * Len(bytes) |->
                   bytes[((i - 1) \div BYTE) + 1][((i - 1) % BYTE) + 1]])

\* The bits of a signed value: its remainder modulo the width.
Twos(value, bits) == Uint(value % 2^bits, bits)

Unsigned(b, value, bits, width) ==
  IF bits > width THEN Refused(b, "TooWide")
  ELSE IF bits < width /\ value >= 2^bits THEN Refused(b, "Malformed")
  ELSE store_bits(b, Uint(value, bits))

\* A field of no bits holds only zero; of all bits, any value.
FitsSigned(value, bits) ==
  IF bits = 0 THEN value = 0 ELSE value \in -(2^(bits - 1))..2^(bits - 1) - 1

Signed(b, value, bits, width) ==
  IF bits > width THEN Refused(b, "TooWide")
  ELSE IF bits < width /\ ~FitsSigned(value, bits) THEN Refused(b, "Malformed")
  ELSE store_bits(b, Twos(value, bits))

store_uint(b, value, bits) == Unsigned(b, value, bits, WORD)
store_int(b, value, bits) == Signed(b, value, bits, WORD)
store_u8(b, value) == store_uint(b, value, BYTE)
store_u16(b, value) == store_uint(b, value, 2 * BYTE)
store_u32(b, value) == store_uint(b, value, HALF)
store_i32(b, value) == store_int(b, value, HALF)
store_uint128(b, value, bits) == Unsigned(b, value, bits, LONG)
store_int128(b, value, bits) == Signed(b, value, bits, LONG)

\* How many bits a value takes, and how many bytes a signed one.
BitsOf(value) == bounded_width(value)

signed_byte_len(value) ==
  IF value = 0 THEN 0
  ELSE DivCeil(BitsOf(IF value < 0 THEN -value - 1 ELSE value) + 1, BYTE)

\* A length and that many bytes, the room for both tested before either.
VarField(b, max, bytes, Body(_)) ==
  IF max < 2 \/ bytes >= max THEN Refused(b, "Malformed")
  ELSE IF BitsOf(max - 1) + bytes * BYTE > bits_left(b) THEN Refused(b, "NoRoomForBits")
  ELSE Then(store_uint(b, bytes, BitsOf(max - 1)), Body)

store_var_uint(b, value, max) ==
  LET bytes == DivCeil(BitsOf(value), BYTE)
  IN VarField(b, max, bytes, LAMBDA c : store_uint128(c, value, bytes * BYTE))

store_var_int(b, value, max) ==
  LET bytes == signed_byte_len(value)
  IN VarField(b, max, bytes, LAMBDA c : store_int128(c, value, bytes * BYTE))

\* Coins are a VarUInteger 16.
store_coins(b, nanotons) == store_var_uint(b, nanotons, 16)

-----------------------------------------------------------------------------
(* References and whole slices.                                            *)

store_ref(b, cell) ==
  IF refs_left(b) = 0 THEN Refused(b, "NoRoomForRefs") ELSE Ok([b EXCEPT !.refs = Append(@, cell)])

\* A reference that may be absent: <<>> or <<cell>>.
\* Mutant: the bit is written before the room for the reference is known.
store_maybe_ref_BitFirst(b, maybe) ==
  IF maybe = <<>> THEN store_bit(b, 0)
  ELSE Then(store_bit(b, 1), LAMBDA c : store_ref(c, maybe[1]))

store_maybe_ref(b, maybe) ==
  IF maybe = <<>> THEN store_bit(b, 0)
  ELSE IF refs_left(b) = 0 THEN Refused(b, "NoRoomForRefs")
  ELSE IF bits_left(b) = 0 THEN Refused(b, "NoRoomForBits")
  ELSE Then(store_bit(b, 1), LAMBDA c : store_ref(c, maybe[1]))

\* A dictionary is its root, absent when it is empty.
store_dict(b, root) == store_maybe_ref(b, root)

\* store_slice and store_builder: what another cell or builder holds.
store_slice(b, other) ==
  IF Len(other.bits) > bits_left(b) THEN Refused(b, "NoRoomForBits")
  ELSE IF Len(other.refs) > refs_left(b) THEN Refused(b, "NoRoomForRefs")
  ELSE Ok([bits |-> b.bits \o other.bits, refs |-> b.refs \o other.refs])

\* The first n bits, or references, are kept.
truncate_bits(b, n) ==
  IF n > Len(b.bits) THEN Refused(b, "NotEnoughBits") ELSE Ok([b EXCEPT !.bits = Head_(@, n)])

truncate_refs(b, n) ==
  IF n > Len(b.refs) THEN Refused(b, "NotEnoughRefs") ELSE Ok([b EXCEPT !.refs = Head_(@, n)])

-----------------------------------------------------------------------------
(* builder/either.rs: the payload inline if it fits beside what is stored, *)
(* `ahead` bits and the discriminator counted, and else in a reference.    *)

Arm(b, payload, ahead) ==
  IF can_extend_by(b, ahead + 1 + Len(payload.bits), Len(payload.refs)) THEN "inline"
  ELSE IF refs_left(b) = 0 THEN "NoRoomForRefs"
  ELSE IF ahead + 1 > bits_left(b) THEN "NoRoomForBits"
  ELSE "ref"

store_either_where(b, payload, arm) ==
  IF arm = "inline" THEN Then(store_bit(b, 0), LAMBDA c : store_slice(c, payload))
  ELSE Then(store_bit(b, 1), LAMBDA c : store_ref(c, payload))

store_either_ref(b, payload) ==
  LET arm == Arm(b, payload, 0)
  IN IF arm \in {"inline", "ref"} THEN store_either_where(b, payload, arm) ELSE Refused(b, arm)

store_maybe_either_ref(b, maybe) ==
  IF maybe = <<>> THEN store_bit(b, 0)
  ELSE LET arm == Arm(b, maybe[1], 1)
       IN IF arm \in {"inline", "ref"}
          THEN Then(store_bit(b, 1), LAMBDA c : store_either_where(c, maybe[1], arm))
          ELSE Refused(b, arm)

-----------------------------------------------------------------------------
(* builder/snake.rs and builder/address.rs: stores of several parts that   *)
(* stop where one is refused.                                              *)

\* The chain of cells that holds a run of bytes: as many as one cell takes, and
\* the rest behind its reference.
Chain(bytes) ==
  LET n == Len(bytes)
      cap == MAX_BITS \div BYTE
      cell[k \in 0..n] ==
        LET from == n - k + 1
        IN IF k <= cap THEN store_bytes(new, SubSeq(bytes, from, n)).b
           ELSE store_ref(store_bytes(new, SubSeq(bytes, from, from + cap - 1)).b, cell[k - cap]).b
  IN cell[n]

\* The bytes that fit here, and a chain with the rest.  The bytes are written
\* before the reference is tried.
store_snake(b, bytes) ==
  LET room == bits_left(b) \div BYTE
      take == IF room < Len(bytes) THEN room ELSE Len(bytes)
  IN IF take = Len(bytes) THEN store_bytes(b, bytes)
     ELSE Then(store_bytes(b, Head_(bytes, take)), LAMBDA c : store_ref(c, Chain(Rest(bytes, take))))

\* An address is "none" or a workchain and an account.
store_address(b, address) ==
  IF address.kind = "none" THEN store_uint(b, 0, 2)
  ELSE Then(Then(Then(store_uint(b, 2, 2), LAMBDA c : store_bit(c, 0)),
                 LAMBDA d : store_int(d, address.workchain, BYTE)),
            LAMBDA e : store_bytes(e, address.account))
=============================================================================

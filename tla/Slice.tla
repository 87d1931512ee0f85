------------------------------- MODULE Slice --------------------------------
(***************************************************************************)
(* A cursor over a cell (core/src/cell/slice.rs and slice/).  A slice is   *)
(* what is left in its window, bits and references, so reading drops from  *)
(* the front; a load answers how it ended, what it got and the slice it    *)
(* left, which after a failure is where a caller that recovers reads on.   *)
(***************************************************************************)
EXTENDS Builder

Got(s, got) == [why |-> "ok", s |-> s, got |-> got]
Failed(s, why) == [why |-> why, s |-> s, got |-> "none"]

\* The next load of a run, given what the one before it got.
Read(r, Load(_, _)) == IF r.why = "ok" THEN Load(r.s, r.got) ELSE r

\* The same load with what it got seen another way.
As(r, View(_)) == IF r.why = "ok" THEN [r EXCEPT !.got = View(@)] ELSE r

remaining_bits(s) == Len(s.bits)
remaining_refs(s) == Len(s.refs)
can_read(s, bits, refs) == bits <= remaining_bits(s) /\ refs <= remaining_refs(s)
Past(s, bits, refs) == [bits |-> Rest(s.bits, bits), refs |-> Rest(s.refs, refs)]

-----------------------------------------------------------------------------
(* Bits and integers.                                                      *)

\* advance, and a bit_at for each bit passed.
load_bits(s, n) ==
  IF n > remaining_bits(s) THEN Failed(s, "NotEnoughBits")
  ELSE Got(Past(s, n, 0), Head_(s.bits, n))

load_bit(s) == As(load_bits(s, 1), Head)

skip_bits(s, n) == As(load_bits(s, n), LAMBDA run : "none")

sign_extend(run) ==
  IF run = <<>> THEN 0 ELSE Number(run) - (IF run[1] = 1 THEN 2^Len(run) ELSE 0)

LoadUnsigned(s, n, width) ==
  IF n > width THEN Failed(s, "TooWide") ELSE As(load_bits(s, n), Number)
LoadSigned(s, n, width) ==
  IF n > width THEN Failed(s, "TooWide") ELSE As(load_bits(s, n), sign_extend)

load_uint(s, n) == LoadUnsigned(s, n, WORD)
load_u8(s) == load_uint(s, BYTE)
load_u16(s) == load_uint(s, 2 * BYTE)
load_u32(s) == load_uint(s, HALF)
load_uint128(s, n) == LoadUnsigned(s, n, LONG)

\* Mutant: the top bit of a field narrower than its integer is not its sign.
load_int_Unextended(s, n) == LoadUnsigned(s, n, WORD)

load_int(s, n) == LoadSigned(s, n, WORD)
load_i32(s) == As(load_bits(s, HALF), sign_extend)
load_int128(s, n) == LoadSigned(s, n, LONG)

\* A length in bytes and that many bytes, or a failure at the field's start.
\* Mutant: a product that wraps.
read_var_Wraps(s, max) ==
  IF max < 2 THEN Failed(s, "Malformed")
  ELSE LET length == load_uint(s, BitsOf(max - 1))
           body == Read(length, LAMBDA rest, len : load_bits(rest, (len * BYTE) % 2^HALF))
       IN IF body.why = "ok" THEN body ELSE Failed(s, body.why)
read_var(s, max) ==
  IF max < 2 THEN Failed(s, "Malformed")
  ELSE LET length == load_uint(s, BitsOf(max - 1))
           body == Read(length, LAMBDA rest, len :
                                  IF len * BYTE >= 2^HALF \/ len * BYTE > LONG THEN Failed(s, "TooWide")
                                  ELSE load_bits(rest, len * BYTE))
       IN IF body.why = "ok" THEN body ELSE Failed(s, body.why)

load_var_uint(s, max) == As(read_var(s, max), Number)
load_var_int(s, max) == As(read_var(s, max), sign_extend)
load_coins(s) == load_var_uint(s, 16)

\* The bit count is tested against the machine's word before it is used.
load_bytes(s, n) ==
  IF n * BYTE >= 2^WORD THEN Failed(s, "NotEnoughBits")
  ELSE As(load_bits(s, n * BYTE), LAMBDA run : [k \in 1..n |-> SubSeq(run, (k - 1) * BYTE + 1, k * BYTE)])

-----------------------------------------------------------------------------
(* References and windows.                                                 *)

load_ref(s) ==
  IF s.refs = <<>> THEN Failed(s, "NotEnoughRefs") ELSE Got(Past(s, 0, 1), s.refs[1])

\* The bit is spent even when the reference it promises is not there.
load_maybe_ref(s) ==
  Read(load_bit(s), LAMBDA rest, set :
                      IF set = 0 THEN Got(rest, <<>>) ELSE As(load_ref(rest), LAMBDA cell : <<cell>>))

\* Dict::from_root refuses a key no cell could hold, with the root taken.
load_dict(s, key_bits) ==
  Read(load_maybe_ref(s), LAMBDA rest, root :
         IF key_bits > MAX_BITS THEN Failed(rest, "Malformed") ELSE Got(rest, root))

skip_refs(s, n) ==
  IF n > remaining_refs(s) THEN Failed(s, "NotEnoughRefs") ELSE Got(Past(s, 0, n), "none")

skip_bits_and_refs(s, bits, refs) ==
  IF bits > remaining_bits(s) THEN Failed(s, "NotEnoughBits")
  ELSE IF refs > remaining_refs(s) THEN Failed(s, "NotEnoughRefs")
  ELSE Got(Past(s, bits, refs), "none")

\* A window of its own: the bits and references after the skipped ones.
subslice(s, skipped_bits, bits, skipped_refs, refs) ==
  IF skipped_bits + bits > remaining_bits(s) THEN Failed(s, "NotEnoughBits")
  ELSE IF skipped_refs + refs > remaining_refs(s) THEN Failed(s, "NotEnoughRefs")
  ELSE Got(s, [bits |-> SubSeq(s.bits, skipped_bits + 1, skipped_bits + bits),
               refs |-> SubSeq(s.refs, skipped_refs + 1, skipped_refs + refs)])

load_slice(s, bits, refs) ==
  LET window == subslice(s, 0, bits, 0, refs)
  IN IF window.why = "ok" THEN Got(Past(s, bits, refs), window.got) ELSE window

\* to_builder and to_cell: what is left, as a builder or a cell of its own.
to_builder(s) == store_slice(new, s)

\* Reads through a copy: preload_uint, preload_bit and peek_ref.
Peek(s, r) == [r EXCEPT !.s = s]
preload_uint(s, n) == Peek(s, load_uint(s, n))
preload_bit(s) == Peek(s, load_bit(s))
peek_ref(s) == Peek(s, load_ref(s))

-----------------------------------------------------------------------------
(* slice/either.rs, slice/snake.rs, slice/address.rs.                      *)

\* EitherRef: where a payload sits, or that there is none.
Sits(arm, cell) == [arm |-> arm, cell |-> cell]

load_either_ref(s) ==
  Read(load_bit(s), LAMBDA rest, set :
         IF set = 0 THEN Got(rest, Sits("inline", <<>>))
         ELSE As(load_ref(rest), LAMBDA cell : Sits("ref", <<cell>>)))

load_maybe_either_ref(s) ==
  Read(load_bit(s), LAMBDA rest, set :
         IF set = 0 THEN Got(rest, Sits("nothing", <<>>)) ELSE load_either_ref(rest))

\* The whole bytes here, then those of each cell down the first references.
load_snake(s) ==
  LET whole(c) == load_bytes(c, remaining_bits(c) \div BYTE)
      chain[n \in Nat] == IF n = 0 THEN s ELSE chain[n - 1].refs[1]
      bytes[n \in Nat] ==
        whole(chain[n]).got \o (IF chain[n].refs = <<>> THEN <<>> ELSE bytes[n + 1])
  IN Got(Past(whole(s).s, 0, IF s.refs = <<>> THEN 0 ELSE 1), bytes[0])

\* An account is `account` bytes.
load_address(s, account) ==
  Read(load_uint(s, 2), LAMBDA r0, tag :
    IF tag = 0 THEN Got(r0, [kind |-> "none"])
    ELSE IF tag # 2 THEN Failed(r0, "Malformed")
    ELSE Read(load_bit(r0), LAMBDA r1, anycast :
           IF anycast = 1 THEN Failed(r1, "Malformed")
           ELSE Read(load_int(r1, BYTE), LAMBDA r2, workchain :
                  As(load_bytes(r2, account),
                     LAMBDA id : [kind |-> "std", workchain |-> workchain, account |-> id]))))

-----------------------------------------------------------------------------
(* slice/compare.rs: what two windows have left, bit by bit.               *)

compare_bits(s, t) ==
  LET shared == {n \in 0..Len(s.bits) : n <= Len(t.bits) /\ Head_(s.bits, n) = Head_(t.bits, n)}
      n == CHOOSE k \in shared : \A j \in shared : j <= k
      next(r) == IF n < Len(r.bits) THEN r.bits[n + 1] ELSE -1
  IN IF next(s) = next(t) THEN "Equal" ELSE IF next(s) < next(t) THEN "Less" ELSE "Greater"
=============================================================================

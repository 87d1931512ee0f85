----------------------------- MODULE BocFormat ------------------------------
(***************************************************************************)
(* The bytes of a bag of cells (core/src/cell/boc.rs, boc/serialize.rs,    *)
(* boc/large.rs).  A byte is a tuple that says what it holds: a digit of a *)
(* number in base BASE, a descriptor, BYTE_BITS bits of data, a stored     *)
(* hash or depth, or the checksum of what came before it, kept as those    *)
(* bytes themselves.  The data of an exotic cell, which is whole bytes, is *)
(* one of them.                                                            *)
(***************************************************************************)
EXTENDS CellModel

CONSTANTS BASE, BYTE_BITS,   \* a byte as a digit and as bits of data
          U64_BYTES,         \* the digits a number holds
          MAX_CELLS

ASSUME FormatAssumption == U64_BYTES \in Nat /\ BYTE_BITS \in Nat \ {0}

MAGIC == <<<<"magic">>>>
CRC32C_INIT == <<>>
crc32c_update(running, bytes) == running \o bytes
crc32c(bytes) == <<"crc", crc32c_update(CRC32C_INIT, bytes)>>

\* Runs of bytes written one after another.
Joined(parts) ==
  LET upto[n \in 0..Len(parts)] == IF n = 0 THEN <<>> ELSE upto[n - 1] \o parts[n]
  IN upto[Len(parts)]

-----------------------------------------------------------------------------
(* Numbers: push_be writes the low digits, however many more there are.    *)

byte_width(value) == Max({1} \cup {w \in 1..U64_BYTES : BASE^(w - 1) <= value})
push_be(value, width) == [i \in 1..width |-> <<"digit", (value \div BASE^(width - i)) % BASE>>]

-----------------------------------------------------------------------------
(* A cell: its descriptors, its stored hashes and depths, its data with    *)
(* the bit that closes a partial byte, its references.                     *)

\* A cell as it is built: its references, a hash and a depth for each level
\* that is significant, and data in bits unless it is exotic.
Formed(cell) ==
  /\ \E n \in 0..MAX_REFS : DOMAIN cell.refs = 1..n
  /\ cell.refs = [i \in DOMAIN cell.refs |-> cell.refs[i]]
  /\ cell.id.mask \in SUBSET Levels
  /\ cell.id.hashes = [i \in 1..count(cell.id) |-> cell.id.hashes[i]]
  /\ cell.id.depths = [i \in 1..count(cell.id) |-> cell.id.depths[i]]
  /\ cell.type = "Ordinary" => cell.data[2] \in Seq({0, 1})

WholeBytes(cell) == IF cell.type = "Ordinary" THEN Len(cell.data[2]) \div BYTE_BITS ELSE 1
PartialBits(cell) == IF cell.type = "Ordinary" THEN Len(cell.data[2]) % BYTE_BITS ELSE 0

\* level.rs: bits_descriptor.
bits_descriptor(cell) == <<"d2", WholeBytes(cell), PartialBits(cell) # 0>>

stored_descriptors(cell, stored) ==
  <<<<"d1", Len(cell.refs), cell.type # "Ordinary", stored, cell.id.mask>>, bits_descriptor(cell)>>

DataBytes(cell) ==
  IF cell.type # "Ordinary" THEN <<<<"exotic", cell.data>>>>
  ELSE LET closing == IF PartialBits(cell) = 0 THEN <<>>
                      ELSE <<1>> \o [i \in 1..BYTE_BITS - PartialBits(cell) - 1 |-> 0]
           bits == cell.data[2] \o closing
       IN [i \in 1..Len(bits) \div BYTE_BITS |-> <<"byte", SubSeq(bits, (i - 1) * BYTE_BITS + 1, i * BYTE_BITS)>>]

write_stored(id) ==
  [i \in DOMAIN id.hashes |-> <<"hash", id.hashes[i]>>] \o [i \in DOMAIN id.depths |-> <<"depth", id.depths[i]>>]
\* Mutant: the room for the hash and depth every cell has is left out.
stored_len_LevelsOnly(id) == 2 * Cardinality(id.mask)

stored_len(id) == 2 * count(id)

CellBytes(cell, children, ref_size, stored) ==
  stored_descriptors(cell, stored) \o (IF stored THEN write_stored(cell.id) ELSE <<>>)
    \o DataBytes(cell) \o Joined([i \in DOMAIN children |-> push_be(children[i], ref_size)])

-----------------------------------------------------------------------------
(* The whole bag from an order of its cells, positions counted from zero.  *)

index_of(order, cell) == (CHOOSE i \in DOMAIN order : repr_hash(order[i]) = repr_hash(cell)) - 1
Children(order) ==
  [i \in DOMAIN order |-> [r \in DOMAIN order[i].refs |-> index_of(order, order[i].refs[r])]]

\* Everything ahead of the cells.
HeaderBytes(order, roots, options, ref_size, offsets) ==
  LET body_len == offsets[Len(offsets)]
      offset_size == byte_width(body_len)
  IN MAGIC \o <<<<"flags", options.index, options.crc32c, ref_size>>, <<"width", offset_size>>>>
       \o push_be(Len(order), ref_size) \o push_be(Len(roots), ref_size) \o push_be(0, ref_size)
       \o push_be(body_len, offset_size)
       \o Joined([i \in DOMAIN roots |-> push_be(index_of(order, roots[i]), ref_size)])
       \o (IF options.index THEN Joined([i \in DOMAIN offsets |-> push_be(offsets[i], offset_size)]) ELSE <<>>)

serialize_boc_with(order, roots, options) ==
  LET ref_size == byte_width(Len(order))
      children == Children(order)
      cells == [i \in DOMAIN order |-> CellBytes(order[i], children[i], ref_size, options.stored_hashes)]
      offsets == [i \in DOMAIN cells |-> Len(Joined(SubSeq(cells, 1, i)))]
      out == HeaderBytes(order, roots, options, ref_size, offsets) \o Joined(cells)
  IN IF options.crc32c THEN Append(out, crc32c(out)) ELSE out
=============================================================================

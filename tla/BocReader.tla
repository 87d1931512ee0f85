----------------------------- MODULE BocReader ------------------------------
(***************************************************************************)
(* Reading the bytes of a bag of cells (core/src/cell/boc/header.rs,       *)
(* boc/parse.rs, boc/view.rs, boc/random.rs, boc/compress.rs).             *)
(***************************************************************************)
EXTENDS BocFormat, SequencesExt

CONSTANTS MAX_DEPTH, MAX_DECOMPRESSED, MAX_REF_SIZE, MAX_OFFSET_SIZE

\* ParseOptions: what a caller asks for, never more than the crate's own.
cell_ceiling(max_cells) == Min({max_cells, MAX_CELLS})

Unread == [ok |-> FALSE, n |-> 0]
uint(bytes, at, width) ==
  IF at + width - 1 > Len(bytes) \/ \E i \in 0..width - 1 : bytes[at + i][1] # "digit" THEN Unread
  ELSE [ok |-> TRUE, n |-> FoldLeft(LAMBDA v, b : v * BASE + b[2], 0, SubSeq(bytes, at, at + width - 1))]

Refused == [ok |-> FALSE, count |-> 0, ref_size |-> 0, root_list |-> <<>>, body_offset |-> 0]

\* Mutant: the cells may end before the bag does.
StatedEnd_Loose(stated, body_end) == stated <= body_end

StatedEnd(stated, body_end) == stated = body_end

read_header(bytes, max_cells) ==
  IF Len(bytes) < 3 \/ SubSeq(bytes, 1, 1) # MAGIC THEN Refused
  ELSE
  LET index == bytes[2][2]   crc == bytes[2][3]   ref_size == bytes[2][4]   offset_size == bytes[3][2]
      body_end == IF crc THEN Len(bytes) - 1 ELSE Len(bytes)
      cells == uint(bytes, 4, ref_size)
      roots == uint(bytes, 4 + ref_size, ref_size)
      absent == uint(bytes, 4 + 2 * ref_size, ref_size)
      cell_area == uint(bytes, 4 + 3 * ref_size, offset_size)
      list_at == 4 + 3 * ref_size + offset_size
      remaining == Len(bytes) - list_at + 1
      root_at(i) == uint(bytes, list_at + (i - 1) * ref_size, ref_size)
      body_offset == list_at + roots.n * ref_size + (IF index THEN cells.n * offset_size ELSE 0)
      ceiling == cell_ceiling(max_cells)
  IN IF /\ ref_size \in 1..MAX_REF_SIZE /\ offset_size \in 1..MAX_OFFSET_SIZE
        /\ crc => Last(bytes) = crc32c(Front(bytes))
        /\ cells.ok /\ roots.ok /\ absent.ok /\ cell_area.ok
        /\ absent.n = 0 /\ cells.n <= ceiling /\ roots.n \in 1..ceiling
        /\ cells.n * 2 <= remaining /\ roots.n * ref_size <= remaining
        /\ \A i \in 1..roots.n : root_at(i).ok /\ root_at(i).n < cells.n
        /\ body_offset - 1 <= Len(bytes)
        /\ StatedEnd(body_offset - 1 + cell_area.n, body_end)
     THEN [ok |-> TRUE, count |-> cells.n, ref_size |-> ref_size,
           root_list |-> [i \in 1..roots.n |-> root_at(i).n], body_offset |-> body_offset]
     ELSE Refused

\* The bits a run of data bytes holds: a partial last byte ends at its last
\* set bit, and one that holds no bit of data is refused.
bit_len(d2, data) ==
  IF ~d2[3] THEN [ok |-> TRUE, n |-> d2[2] * BYTE_BITS]
  ELSE LET set == {i \in 1..BYTE_BITS : Last(data)[2][i] = 1}
       IN IF set \subseteq {1} THEN Unread ELSE [ok |-> TRUE, n |-> d2[2] * BYTE_BITS + Max(set) - 1]

DataOf(data, bits) ==
  IF data # <<>> /\ data[1][1] = "exotic" THEN data[1][2]
  ELSE <<"bits", SubSeq(Joined([i \in DOMAIN data |-> data[i][2]]), 1, bits)>>

NoRaw == [ok |-> FALSE, raw |-> <<>>, at |-> 0]

\* One cell of read_raw: its shape is checked and its references point
\* strictly forward.
ReadOne(bytes, header, acc) ==
  IF ~acc.ok \/ acc.at + 1 > Len(bytes) \/ bytes[acc.at][1] # "d1" THEN NoRaw
  ELSE
  LET d1 == bytes[acc.at]   d2 == bytes[acc.at + 1]   index == Len(acc.raw)
      per_level == IF d1[4] THEN Cardinality(d1[5]) + 1 ELSE 0
      data_at == acc.at + 2 + 2 * per_level
      size == d2[2] + (IF d2[3] THEN 1 ELSE 0)
      data == SubSeq(bytes, data_at, data_at + size - 1)
      bits == bit_len(d2, data)
      ref_at(r) == uint(bytes, data_at + size + (r - 1) * header.ref_size, header.ref_size)
      stored(kind, from) == [i \in 1..per_level |-> bytes[from + i - 1][2]]
  IN IF data_at + size - 1 > Len(bytes) THEN NoRaw
     ELSE IF ~bits.ok \/ classify(d1[3], DataOf(data, bits.n), d1[5], d1[2]) = "refused" THEN NoRaw
     ELSE IF d1[2] > MAX_REFS \/ \E r \in 1..d1[2] : ~ref_at(r).ok \/ ref_at(r).n \notin index + 1..header.count - 1
     THEN NoRaw
     ELSE [ok  |-> TRUE,
           at  |-> data_at + size + d1[2] * header.ref_size,
           raw |-> Append(acc.raw,
                     [data |-> DataOf(data, bits.n), mask |-> d1[5],
                      type |-> classify(d1[3], DataOf(data, bits.n), d1[5], d1[2]),
                      refs |-> [r \in 1..d1[2] |-> ref_at(r).n + 1],
                      stored |-> IF d1[4] THEN <<[hashes |-> stored("hash", acc.at + 2),
                                                  depths |-> stored("depth", acc.at + 2 + per_level)]>> ELSE <<>>])]

read_raw(bytes, header) ==
  FoldLeft(LAMBDA acc, i : ReadOne(bytes, header, acc),
           [ok |-> TRUE, raw |-> <<>>, at |-> header.body_offset], [i \in 1..header.count |-> i])

\* build_one over the cells behind it, whose results `built` holds.
build_one(raw, built) ==
  IF \E r \in DOMAIN raw.refs : ~built[raw.refs[r]].ok THEN Nothing
  ELSE LET cell == from_parts(raw.data, [r \in DOMAIN raw.refs |-> built[raw.refs[r]].cell], raw.type, raw.mask)
       IN IF cell.ok /\ (raw.stored # <<>> => check_stored(cell.cell.id, raw.stored[1])) THEN cell ELSE Nothing

RECURSIVE Built(_, _)
Built(raw, from) ==
  IF from > Len(raw) THEN [i \in {} |-> Nothing]
  ELSE LET later == Built(raw, from + 1) IN [i \in from..Len(raw) |-> IF i = from THEN build_one(raw[from], later) ELSE later[i]]

\* heights, over the references alone.
RECURSIVE RawHeight(_, _)
RawHeight(raw, i) == Max({0} \cup {RawHeight(raw, raw[i].refs[r]) + 1 : r \in DOMAIN raw[i].refs})

NoRoots == [ok |-> FALSE, roots |-> <<>>]

\* read_and_build behind a header; a graph too deep is refused.
read_and_build(bytes, header) ==
  LET read == read_raw(bytes, header)
      built == Built(read.raw, 1)
  IN IF ~read.ok \/ (\E i \in DOMAIN read.raw : RawHeight(read.raw, i) > MAX_DEPTH) THEN NoRoots
     ELSE IF \E i \in DOMAIN built : ~built[i].ok THEN NoRoots
     ELSE [ok |-> TRUE, roots |-> [i \in DOMAIN header.root_list |-> built[header.root_list[i] + 1].cell]]

parse_boc_with(bytes, max_cells) ==
  LET header == read_header(bytes, max_cells)
  IN IF header.ok THEN read_and_build(bytes, header) ELSE NoRoots

-----------------------------------------------------------------------------
(* view.rs, random.rs: the header first, and behind it the whole graph, or *)
(* the hashes of the roots with no graph built, or one cell by position.   *)

open_with(bytes, max_cells) == [bytes |-> bytes, header |-> read_header(bytes, max_cells)]
materialize(view) == read_and_build(view.bytes, view.header)

summarize_one(raw, computed) ==
  IF \E r \in DOMAIN raw.refs : ~computed[raw.refs[r]].ok THEN Unidentified
  ELSE LET known == summarize(raw.data, [r \in DOMAIN raw.refs |-> computed[raw.refs[r]].id], raw.type, raw.mask)
       IN IF known.ok /\ (raw.stored # <<>> => check_stored(known.id, raw.stored[1])) THEN known ELSE Unidentified

RECURSIVE Computed(_, _)
Computed(raw, from) ==
  IF from > Len(raw) THEN [i \in {} |-> Unidentified]
  ELSE LET later == Computed(raw, from + 1) IN [i \in from..Len(raw) |-> IF i = from THEN summarize_one(raw[from], later) ELSE later[i]]

verify_roots(view) ==
  LET read == read_raw(view.bytes, view.header)
      computed == Computed(read.raw, 1)
  IN IF ~read.ok \/ (\E i \in DOMAIN read.raw : RawHeight(read.raw, i) > MAX_DEPTH) THEN NoRoots
     ELSE IF \E i \in DOMAIN computed : ~computed[i].ok THEN NoRoots
     ELSE [ok |-> TRUE, roots |-> [i \in DOMAIN view.header.root_list |->
             LET id == computed[view.header.root_list[i] + 1].id IN hash_at(id, level_of(id.mask))]]

\* Of the cells only those below the one asked for are built.
RECURSIVE BuiltAlone(_, _)
BuiltAlone(raw, i) ==
  build_one(raw[i], [k \in {raw[i].refs[r] : r \in DOMAIN raw[i].refs} |-> BuiltAlone(raw, k)])

build_cell(view, index) ==
  LET read == read_raw(view.bytes, view.header)
  IN IF \/ index \notin 1..view.header.count \/ ~read.ok
        \/ \E i \in DOMAIN read.raw : RawHeight(read.raw, i) > MAX_DEPTH
     THEN Nothing ELSE BuiltAlone(read.raw, index)

\* compress.rs, with LZ4 external: the length comes ahead of the body.
compress(bag) == [named |-> Len(bag), body |-> bag]
decompress(packed) ==
  IF packed.named > MAX_DECOMPRESSED \/ Len(packed.body) > packed.named THEN [ok |-> FALSE, bag |-> <<>>]
  ELSE [ok |-> TRUE, bag |-> packed.body]
=============================================================================

---------------------------- MODULE BocRoundTrip ----------------------------
(***************************************************************************)
(* What the readers (BocReader) make of a bag that was written             *)
(* (BocWriter).                                                            *)
(***************************************************************************)
EXTENDS BocWriter, BocReader

CONSTANT Ceilings  \* what a caller may ask ParseOptions for

RECURSIVE Height(_)
Height(cell) == Max({0} \cup {Height(cell.refs[i]) + 1 : i \in DOMAIN cell.refs})

\* What a reader refuses a written bag for: more roots than its ceiling or
\* than the width of the cell count can say, or a graph too deep.
Readable(ceiling) ==
  /\ Len(order) <= ceiling /\ Len(roots) <= ceiling
  /\ Len(roots) < BASE^ref_size
  /\ \A c \in Graph(roots) : Height(c) <= MAX_DEPTH

\* A bag that was written reads back as the cells it was written from, in
\* their order, whole, by its roots' hashes alone, a cell at a time or
\* packed, or it is refused: the limits of the reader that the writer does
\* not hold a graph to are the ones Readable names, and no ceiling a caller
\* asks for lets more through than the default (serialize_boc_with,
\* read_header, read_and_build, verify_roots, build_cell, decompress_boc).
WrittenReadsBack ==
  phase = "done" =>
    /\ \A asked \in Ceilings :
         LET view == open_with(out, asked)
             read == IF Readable(cell_ceiling(asked)) THEN [ok |-> TRUE, roots |-> roots] ELSE NoRoots
         IN /\ parse_boc_with(out, asked) = read
            /\ view.header.ok =>
                 /\ materialize(view) = read
                 /\ verify_roots(view) = [read EXCEPT !.roots = [i \in DOMAIN @ |-> repr_hash(@[i])]]
                 /\ \A i \in DOMAIN order : read.ok => build_cell(view, i) = [ok |-> TRUE, cell |-> order[i]]
    /\ LET packed == decompress(compress(out))
       IN packed = IF Len(out) <= MAX_DECOMPRESSED THEN [ok |-> TRUE, bag |-> out] ELSE [ok |-> FALSE, bag |-> <<>>]

\* A bag that states its roots has no slack: cut short anywhere, or followed
\* by anything, it is refused, with a checksum or without (read_header).
NoSlack ==
  phase = "done" /\ Len(roots) < BASE^ref_size =>
    /\ \A n \in 0..Len(out) - 1 : ~read_header(SubSeq(out, 1, n), MAX_CELLS).ok
    /\ \A b \in {<<"digit", 0>>, <<"byte", <<0>>>>} : ~read_header(Append(out, b), MAX_CELLS).ok
=============================================================================

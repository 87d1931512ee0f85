------------------------------ MODULE WireCells -----------------------------
(***************************************************************************)
(* Cells read off the wire one by one (classify in core/src/cell/boc/      *)
(* parse.rs, then Cell::from_parts): which of the shapes that can arrive   *)
(* become cells, and what those cells are known by.                        *)
(***************************************************************************)
EXTENDS CellModel

CONSTANTS WireData,   \* what the data of a cell may be
          WireMasks,  \* the level masks a descriptor may carry
          WireRefs,   \* the most references a cell is read with
          MaxCells    \* how many cells are read

\* Masks are of the three levels, and a pruned branch of all its fields
\* stores a list of hashes, one behind the other.
ASSUME WireAssumption ==
  /\ WireMasks \subseteq SUBSET Levels
  /\ WireRefs \in 0..MAX_REFS
  /\ MaxCells \in Nat
  /\ \A data \in WireData :
       (data[1] = "PrunedBranch" /\ Len(data) = 4) => data[3] \in Seq({data[3][i] : i \in DOMAIN data[3]})

VARIABLE pool         \* the cells read so far

wireVars == <<pool>>

WireInit == pool = {}

\* A cell is classified, then built, and refused by either.
read_cell(exotic, data, mask, refs) ==
  LET type == classify(exotic, data, mask, Len(refs))
  IN IF type = "refused" THEN Nothing ELSE from_parts(data, refs, type, mask)

ReadCell ==
  /\ Cardinality(pool) < MaxCells
  /\ \E exotic \in BOOLEAN, data \in WireData, mask \in WireMasks, n \in 0..WireRefs : \E refs \in [1..n -> pool] :
       LET read == read_cell(exotic, data, mask, refs)
       IN read.ok /\ pool' = pool \cup {read.cell}

WireNext == ReadCell
WireSpec == WireInit /\ [][WireNext]_wireVars

\* One identity, one cell: two cells with the same representation hash are
\* the same kind over the same data and references, so a set of hashes
\* stands for a set of cells; and the parts alone decide the identity, so
\* two readings of the same cell never disagree about its level or hashes
\* (classify, summarize, implied_mask, compute).
OneIdentityOneCell ==
  \A c, d \in pool :
    /\ repr_hash(c) = repr_hash(d) => c = d
    /\ c.type = d.type /\ c.data = d.data /\ c.refs = d.refs => c = d
=============================================================================

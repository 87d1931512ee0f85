----------------------------- MODULE CellModel ------------------------------
(***************************************************************************)
(* A cell and what it is known by (core/src/cell/cell.rs and cell/cell/).  *)
(* A level mask is the set of levels it marks.  A hash is the term that is *)
(* hashed, so two hashes are equal when the bytes under them are, which is *)
(* what the code takes SHA-256 to give.  A cell's data is a tuple: of an   *)
(* exotic cell the name of its type tag and the fields behind it.          *)
(***************************************************************************)
EXTENDS Naturals, Sequences, FiniteSets, FiniteSetsExt

Levels == 1..3
MAX_REFS == 4

\* cell/exotic.rs: the kinds, and how many references each exotic one has.
Exotic == {"PrunedBranch", "LibraryReference", "MerkleProof", "MerkleUpdate"}
CellTypes == Exotic \cup {"Ordinary"}
ExpectedRefs(type) ==
  CASE type = "MerkleUpdate" -> 2 [] type = "MerkleProof" -> 1 [] OTHER -> 0
is_merkle(type) == type \in {"MerkleProof", "MerkleUpdate"}

-----------------------------------------------------------------------------
(* cell/level.rs.                                                          *)

level_of(mask) == IF mask = {} THEN 0 ELSE Max(mask)
applied_mask(mask, level) == {l \in mask : l <= level}
hash_index(mask, level) == Cardinality(applied_mask(mask, level))
Lowered(mask) == {l - 1 : l \in mask \ {1}}

refs_descriptor(refs, exotic, mask, level) == <<refs, exotic, applied_mask(mask, level)>>

-----------------------------------------------------------------------------
(* cell/hash.rs: an identity is a mask and, counted from the lowest level  *)
(* that is significant, its hashes and depths.                             *)

count(id) == Cardinality(id.mask) + 1
AtLevel(id, level) == Min({hash_index(id.mask, level) + 1, count(id)})
hash_at(id, level) == id.hashes[AtLevel(id, level)]
depth_at(id, level) == id.depths[AtLevel(id, level)]

Sum(descriptor, body, depths, hashes) == <<"sum", descriptor, body, depths, hashes>>

\* Below its own level a pruned branch is the subtree it stores; at its own
\* level only a cell.
PrunedIdentity(data, mask) ==
  [mask   |-> mask,
   hashes |-> Append(data[3], Sum(refs_descriptor(0, TRUE, mask, level_of(mask)), data, <<>>, <<>>)),
   depths |-> Append(data[4], 0)]

\* Every other cell has a hash for each level that opens a new index, the
\* lowest over its data and each other over the one below, all over its
\* children as they stand at that level, or for a Merkle cell one level up.
DeriveIdentity(data, refs, type, mask) ==
  LET opens(i) == CHOOSE l \in 0..3 : hash_index(mask, l) = i - 1 /\ \A k \in 0..l - 1 : hash_index(mask, k) # i - 1
      up(l) == IF is_merkle(type) THEN l + 1 ELSE l
      depths(l) == [r \in DOMAIN refs |-> depth_at(refs[r], up(l))]
      hashes(l) == [r \in DOMAIN refs |-> hash_at(refs[r], up(l))]
      hash[i \in 1..Cardinality(mask) + 1] ==
        Sum(refs_descriptor(Len(refs), type # "Ordinary", mask, opens(i)),
            IF i = 1 THEN data ELSE hash[i - 1], depths(opens(i)), hashes(opens(i)))
  IN [mask   |-> mask,
      hashes |-> [i \in 1..Cardinality(mask) + 1 |-> hash[i]],
      depths |-> [i \in 1..Cardinality(mask) + 1 |->
                    Max({0} \cup {depths(opens(i))[r] + 1 : r \in DOMAIN refs})]]

compute(data, refs, type, mask) ==
  IF type = "PrunedBranch" THEN PrunedIdentity(data, mask) ELSE DeriveIdentity(data, refs, type, mask)

-----------------------------------------------------------------------------
(* cell/cell.rs.                                                           *)

\* Only a pruned branch chooses its mask.
implied_mask(type, children, stored) ==
  CASE type = "PrunedBranch" -> stored
    [] type = "LibraryReference" -> {}
    [] is_merkle(type) -> Lowered(children)
    [] OTHER -> children

Union(refs) == UNION {refs[i].id.mask : i \in DOMAIN refs}
Ids(refs) == [i \in DOMAIN refs |-> refs[i].id]

Nothing == [ok |-> FALSE, cell |-> <<>>]
Unidentified == [ok |-> FALSE, id |-> <<>>]

\* What a cell of these parts is known by, if its mask is the implied one.
summarize(data, ids, type, mask) ==
  IF mask # implied_mask(type, UNION {ids[i].mask : i \in DOMAIN ids}, mask) THEN Unidentified
  ELSE [ok |-> TRUE, id |-> compute(data, ids, type, mask)]

from_parts(data, refs, type, mask) ==
  LET known == summarize(data, Ids(refs), type, mask)
  IN IF known.ok THEN [ok |-> TRUE, cell |-> [type |-> type, data |-> data, refs |-> refs, id |-> known.id]] ELSE Nothing

\* Builder::build.
Ordinary(data, refs) == from_parts(data, refs, "Ordinary", Union(refs)).cell

hash(cell) == hash_at(cell.id, 0)
depth(cell) == depth_at(cell.id, 0)
level(cell) == level_of(cell.id.mask)
repr_hash(cell) == hash_at(cell.id, level(cell))

-----------------------------------------------------------------------------
(* boc/parse.rs: the kind of a cell off the wire, "refused" if its shape   *)
(* is not that kind's; and the hashes it carried against those it has.     *)

\* Mutant: an exotic cell may have any number of references.
classify_AnyRefs(exotic, data, mask, refs) ==
  IF ~exotic THEN "Ordinary"
  ELSE IF data[1] \notin Exotic THEN "refused"
  ELSE IF data[1] # "PrunedBranch" THEN data[1]
  ELSE IF \/ Len(data) # 4
          \/ data[2] # mask \/ mask = {}
          \/ Len(data[3]) # Cardinality(mask) \/ Len(data[4]) # Cardinality(mask)
       THEN "refused"
  ELSE data[1]

classify(exotic, data, mask, refs) ==
  IF ~exotic THEN "Ordinary"
  ELSE IF data[1] \notin Exotic THEN "refused"
  ELSE IF refs # ExpectedRefs(data[1]) THEN "refused"
  ELSE IF data[1] # "PrunedBranch" THEN data[1]
  ELSE IF \/ Len(data) # 4
          \/ data[2] # mask \/ mask = {}
          \/ Len(data[3]) # Cardinality(mask) \/ Len(data[4]) # Cardinality(mask)
       THEN "refused"
  ELSE data[1]

check_stored(id, stored) == stored = [hashes |-> id.hashes, depths |-> id.depths]
=============================================================================

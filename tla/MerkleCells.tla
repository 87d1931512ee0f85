---------------------------- MODULE MerkleCells -----------------------------
(***************************************************************************)
(* Building and reading Merkle proofs (core/src/cell/merkle/) and cutting a *)
(* tree down to the cells a read touched (cell/usage.rs).                  *)
(* Every fallible operation answers [ok, cell]; the reason of a refusal is *)
(* left out.                                                               *)
(***************************************************************************)
EXTENDS CellModel

CONSTANT MaxHeight  \* how many references deep a tree goes

Some(cell) == [ok |-> TRUE, cell |-> cell]

\* The node over rebuilt children, refused if one of them was.
Rebuilt(node, children) ==
  IF \A i \in DOMAIN children : children[i].ok
  THEN Some(Ordinary(node.data, [i \in DOMAIN children |-> children[i].cell])) ELSE Nothing

is_virtualized(cell) == level(cell) > 0

-----------------------------------------------------------------------------
(* merkle.rs, proof.rs, virtualize.rs: a covering cell stores the hashes,  *)
(* then the depths, of the ordinary trees it covers.                       *)

covering_cell(kind, covered) ==
  IF \E i \in DOMAIN covered : covered[i].type # "Ordinary" THEN Nothing
  ELSE from_parts(<<kind>> \o [i \in DOMAIN covered |-> hash(covered[i])]
                           \o [i \in DOMAIN covered |-> depth(covered[i])],
                  covered, kind, Lowered(Union(covered)))

create_proof(content) == covering_cell("MerkleProof", <<content>>)
create_update(old, new) == covering_cell("MerkleUpdate", <<old, new>>)

virtualize(proof) ==
  IF /\ proof.type = "MerkleProof" /\ proof.refs # <<>>
     /\ Len(proof.data) >= 3
     /\ proof.data[2] = hash(proof.refs[1]) /\ proof.data[3] = depth(proof.refs[1])
  THEN Some(proof.refs[1]) ELSE Nothing

-----------------------------------------------------------------------------
(* usage.rs: every marked cell below marked cells is kept, every other one *)
(* gives way to a branch that answers for it.                              *)

\* Mutant: the branch stores the hash of the cell at the cell's own level.
pruned_branch_OwnLevel(cell) ==
  from_parts(<<"PrunedBranch", {1}, <<repr_hash(cell)>>, <<depth(cell)>>>>, <<>>, "PrunedBranch", {1})

pruned_branch(cell) ==
  from_parts(<<"PrunedBranch", {1}, <<hash(cell)>>, <<depth(cell)>>>>, <<>>, "PrunedBranch", {1})

\* A place in a tree is the sequence of references followed from its root.
AllPlaces == UNION {[1..n -> 1..MAX_REFS] : n \in 0..MaxHeight}

Parent(place) == SubSeq(place, 1, Len(place) - 1)

At(cell, place) ==
  LET at[p \in AllPlaces] == IF p = <<>> THEN cell ELSE at[Parent(p)].refs[p[Len(p)]]
  IN at[place]

Places(cell) == {p \in AllPlaces : \A k \in DOMAIN p : p[k] \in DOMAIN At(cell, SubSeq(p, 1, k - 1)).refs}

\* The cut below each place; that of the tree is the one at its root.
prune_cell(cell, keep) ==
  LET cut[p \in Places(cell)] ==
        LET node == At(cell, p)
        IN IF repr_hash(node) \notin keep THEN pruned_branch(node)
           ELSE IF node.type # "Ordinary" THEN Nothing
           ELSE Rebuilt(node, [i \in DOMAIN node.refs |-> cut[Append(p, i)]])
  IN cut[<<>>]
=============================================================================

--------------------------- MODULE MerkleUpdates ----------------------------
(***************************************************************************)
(* A chain of states A, B, C and the Merkle updates between them           *)
(* (core/src/cell/merkle/update.rs): creating each from sides cut down by  *)
(* a usage tree, combining them, and applying them to a base that holds A  *)
(* whole or as a proof skeleton.                                           *)
(***************************************************************************)
EXTENDS MerkleCells, TLC, SequencesExt

-----------------------------------------------------------------------------
(* update.rs.                                                              *)

Empty == [h \in {} |-> h]

\* The data of an update is <<kind, old hash, new hash, old depth, new depth>>.
validate_update(update) ==
  /\ update.type = "MerkleUpdate" /\ Len(update.data) >= 5
  /\ \A side \in 1..2 : /\ update.data[side + 1] = hash(update.refs[side])
                        /\ update.data[side + 3] = depth(update.refs[side])

\* The first cell reached under a hash is the one kept, and the walk does
\* not go below a hash it has.
RECURSIVE index_by_hash(_, _)
index_by_hash(tree, into) ==
  IF hash(tree) \in DOMAIN into THEN into
  ELSE FoldLeft(LAMBDA acc, child : index_by_hash(child, acc), (hash(tree) :> tree) @@ into, tree.refs)

\* The new side with each pruned branch replaced by what the base has under
\* its hash.
RECURSIVE graft(_, _)
graft(node, base) ==
  CASE node.type = "PrunedBranch" -> IF hash(node) \in DOMAIN base THEN Some(base[hash(node)]) ELSE Nothing
    [] node.type = "LibraryReference" -> Some(node)
    [] is_merkle(node.type) -> Nothing
    [] OTHER -> Rebuilt(node, [i \in DOMAIN node.refs |-> graft(node.refs[i], base)])

\* Mutant: what was rebuilt is not held to the hash the update names.
may_apply_Unchecked(base, update) ==
  IF update.type # "MerkleUpdate" \/ Len(update.data) < 2 \/ update.data[2] # hash(base) THEN Nothing
  ELSE graft(update.refs[2], index_by_hash(base, Empty))

\* may_apply and apply_update: the stored old hash before the walk, the
\* stored new hash after it.
may_apply(base, update) ==
  IF update.type # "MerkleUpdate" \/ Len(update.data) < 2 \/ update.data[2] # hash(base) THEN Nothing
  ELSE LET rebuilt == graft(update.refs[2], index_by_hash(base, Empty))
       IN IF rebuilt.ok /\ Len(update.data) >= 3 /\ update.data[3] = hash(rebuilt.cell) THEN rebuilt ELSE Nothing

\* The ordinary cells of a side by hash, the last one met kept.
RECURSIVE revealed_cells(_, _)
revealed_cells(tree, into) ==
  IF tree.type # "Ordinary" THEN into
  ELSE LET put == (hash(tree) :> tree) @@ into
       IN IF hash(tree) \in DOMAIN into THEN put
          ELSE FoldLeft(LAMBDA acc, child : revealed_cells(child, acc), put, tree.refs)

RECURSIVE splice_revealed(_, _)
splice_revealed(node, revealed) ==
  CASE node.type = "PrunedBranch" -> IF hash(node) \in DOMAIN revealed THEN Some(revealed[hash(node)]) ELSE Some(node)
    [] node.type = "Ordinary" -> Rebuilt(node, [i \in DOMAIN node.refs |-> splice_revealed(node.refs[i], revealed)])
    [] OTHER -> Nothing

\* Mutant: the new side is taken as the second update has it.
combine_updates_Unspliced(first, second) ==
  IF ~validate_update(first) \/ ~validate_update(second) \/ hash(first.refs[2]) # hash(second.refs[1]) THEN Nothing
  ELSE create_update(first.refs[1], second.refs[2])

combine_updates(first, second) ==
  IF ~validate_update(first) \/ ~validate_update(second) \/ hash(first.refs[2]) # hash(second.refs[1]) THEN Nothing
  ELSE LET old_side == splice_revealed(first.refs[1], revealed_cells(second.refs[1], Empty))
           new_side == splice_revealed(second.refs[2], revealed_cells(first.refs[2], Empty))
       IN IF old_side.ok /\ new_side.ok THEN create_update(old_side.cell, new_side.cell) ELSE Nothing

-----------------------------------------------------------------------------
CONSTANTS States,   \* the trees a chain goes through
          Sides     \* of each, the tree whole and cut down by usage trees

VARIABLES chain,    \* the trees the updates name, from the first on
          updates,  \* the updates
          joined,   \* what combine_updates made of two, once it was called
          base,     \* the base they are applied to
          inTurn,   \* what comes of the base as each is applied in turn
          atOnce    \* what comes of it as the combined one is

updateVars == <<chain, updates, joined, base, inTurn, atOnce>>

UpdatesInit ==
  /\ chain \in {<<t>> : t \in States}
  /\ updates = <<>> /\ joined = <<>> /\ base = Nothing /\ inTurn = <<>> /\ atOnce = Nothing

\* The holder of a tree and of the next makes the update between them.
Create ==
  /\ Len(updates) < 2 /\ ~base.ok
  /\ \E tree \in States : \E old \in Sides[Last(chain)], new \in Sides[tree] :
       /\ chain' = Append(chain, tree)
       /\ updates' = Append(updates, create_update(old, new).cell)
  /\ UNCHANGED <<joined, base, inTurn, atOnce>>

\* An update off the wire may name one tree and carry another.
Receive ==
  /\ updates = <<>> /\ ~base.ok
  /\ \E tree, other \in States :
       /\ chain' = Append(chain, tree)
       /\ updates' = <<from_parts(<<"MerkleUpdate", hash(chain[1]), hash(tree), depth(chain[1]), depth(tree)>>,
                                 <<chain[1], other>>, "MerkleUpdate", Lowered(Union(<<chain[1], other>>))).cell>>
  /\ UNCHANGED <<joined, base, inTurn, atOnce>>

Combine ==
  /\ Len(updates) = 2 /\ ~base.ok /\ joined = <<>>
  /\ joined' = <<combine_updates(updates[1], updates[2])>>
  /\ UNCHANGED <<chain, updates, base, inTurn, atOnce>>

\* A holder of the first tree applies the one update, or two in turn and
\* combined.
Apply ==
  /\ Len(updates) = 1 \/ joined # <<>>
  /\ ~base.ok
  /\ \E held \in Sides[chain[1]] :
       LET once == may_apply(held, updates[1])
       IN /\ base' = Some(held)
          /\ inTurn' = IF Len(updates) = 1 THEN <<once>>
                       ELSE <<once, IF once.ok THEN may_apply(once.cell, updates[2]) ELSE Nothing>>
          /\ atOnce' = IF joined # <<>> /\ joined[1].ok THEN may_apply(held, joined[1].cell) ELSE Nothing
  /\ UNCHANGED <<chain, updates, joined>>

UpdatesNext == Create \/ Receive \/ Combine \/ Apply

-----------------------------------------------------------------------------
RECURSIVE CellsOf(_)
CellsOf(tree) == {tree} \cup UNION {CellsOf(tree.refs[i]) : i \in DOMAIN tree.refs}
Hashes(cells) == {hash(c) : c \in cells}
Pruned(tree) == {c \in CellsOf(tree) : c.type = "PrunedBranch"}
LibraryFree(tree) == \A c \in CellsOf(tree) : c.type # "LibraryReference"

\* A subtree a walk that meets a pruned branch first does not find.
Hidden(h, tree) ==
  \E c \in CellsOf(tree) \ Pruned(tree) : hash(c) \in Hashes(Pruned(tree)) /\ h \in Hashes(CellsOf(c))

\* An update gives back the state it names or nothing: every tree that comes
\* out of a step answers with that state's hash and depth, and is that
\* state, whole, if the base is.  An update that carries what it names is
\* refused only if its new side withholds a subtree the base does not hold,
\* or holds beneath a cell it also meets as a pruned branch (apply_update,
\* index_by_hash, graft).
UpdateRebuilds ==
  \A i \in DOMAIN inTurn :
    LET from == IF i = 1 THEN base ELSE inTurn[i - 1]
        to == inTurn[i]
    IN IF to.ok
       THEN /\ hash(to.cell) = hash(chain[i + 1]) /\ depth(to.cell) = depth(chain[i + 1])
            /\ Pruned(from.cell) = {} => to.cell = chain[i + 1]
       ELSE from.ok /\ validate_update(updates[i]) =>
              \E h \in Hashes(Pruned(updates[i].refs[2])) :
                h \notin Hashes(CellsOf(from.cell)) \/ Hidden(h, from.cell)

\* Combining is applying in turn.  Two updates that carry what they name and
\* chain combine unless a library cell is in the way; without one, what the
\* two rebuild in turn from a whole base the combined update rebuilds at
\* once, and whatever it rebuilds is the state the second leads to
\* (combine_updates, revealed_cells, splice_revealed).
UpdatesCompose ==
  /\ joined # <<>> /\ ~joined[1].ok =>
       ~validate_update(updates[1]) \/ \E i \in DOMAIN chain : ~LibraryFree(chain[i])
  /\ joined # <<>> /\ base.ok =>
       /\ inTurn[2].ok /\ validate_update(updates[1]) /\ (\A i \in DOMAIN chain : LibraryFree(chain[i])) => atOnce.ok
       /\ atOnce.ok => /\ hash(atOnce.cell) = hash(chain[3])
                       /\ Pruned(base.cell) = {} => atOnce.cell = chain[3]

\* "applying it to a base that holds A rebuilds C, the same as applying the
\* two in turn would", says combine_updates (update.rs:178-179).
CombinedIsBothInTurn ==
  base.ok /\ joined # <<>> /\ joined[1].ok /\ inTurn[2].ok => atOnce.ok
=============================================================================

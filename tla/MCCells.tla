------------------------------- MODULE MCCells ------------------------------
(***************************************************************************)
(* Cells off the wire, usage trees, Merkle updates and bags written, each  *)
(* explored with the others at rest.                                       *)
(***************************************************************************)
EXTENDS WireCells, UsageTree, MerkleUpdates, BocRoundTrip

\* The data of an ordinary cell is told apart by its length.
Bits(n) == <<"bits", [i \in 1..n |-> i % 2]>>
Leaf(n) == Ordinary(Bits(n), <<>>)
Over(n, cell) == Ordinary(Bits(n), <<cell>>)
Fork(n, l, r) == Ordinary(Bits(n), <<l, r>>)
Library == from_parts(<<"LibraryReference">>, <<>>, "LibraryReference", {}).cell

\* A cell shared by two parents, a library below one, and a tree that is
\* already a proof skeleton.
Inner == Over(2, Leaf(1))
Shared == Fork(0, Inner, Over(3, Inner))
WithLibrary == Fork(0, Over(3, Library), Leaf(1))
Skeleton == Over(0, Fork(3, pruned_branch(Inner).cell, Leaf(1)))
MCTrees == {Shared, WithLibrary, Skeleton}

\* States that share subtrees with one another.
StateA == Fork(0, Over(4, Inner), Inner)
StateB == Fork(0, Over(4, Inner), Over(5, Leaf(1)))
StateL == Fork(0, Over(5, Library), Inner)
MCStates == {StateA, StateB, StateL}

RECURSIVE OrdinaryHashes(_)
OrdinaryHashes(tree) ==
  (IF tree.type = "Ordinary" THEN {repr_hash(tree)} ELSE {})
    \cup UNION {OrdinaryHashes(tree.refs[i]) : i \in DOMAIN tree.refs}

\* Down to the root's children, or without the left of them.
MCCuts(tree) ==
  {{repr_hash(tree)} \cup {repr_hash(tree.refs[i]) : i \in DOMAIN tree.refs},
   OrdinaryHashes(tree) \ {repr_hash(tree.refs[1])}}
MCSides == [tree \in MCStates |-> {tree} \cup {prune_cell(tree, keep).cell : keep \in MCCuts(tree)}]

\* Data of every kind, and hashes of a cell that was read and of none.
Unknown == <<"sum", <<>>>>
MCWireData ==
  {Bits(1), <<"LibraryReference">>, <<"MerkleProof", hash(Leaf(1)), 0>>, <<"MerkleUpdate">>}
    \cup {<<"PrunedBranch", {}, <<>>, <<>>>>, <<"PrunedBranch", {1}, <<Unknown>>, <<0>>>>, <<"PrunedBranch", {1, 2}, <<Unknown>>, <<0>>>>,
          <<"PrunedBranch", {1, 2}, <<Unknown, hash(Leaf(1))>>, <<1, 0>>>>}
MCWireMasks == SUBSET {1, 2}

\* Graphs with shared cells, a pruned branch and a Merkle proof, data up to a
\* byte and two thirds, chains to one past the depth that is read, and lists
\* of roots past what one digit counts.
Proof == create_proof(Fork(0, pruned_branch(Leaf(1)).cell, Leaf(2))).cell
Diamond == Fork(4, Over(5, Leaf(3)), Leaf(3))
RECURSIVE Chain(_)
Chain(n) == IF n = 0 THEN Leaf(1) ELSE Over(2, Chain(n - 1))
MCPool == {Leaf(0), Leaf(3), Proof, Diamond, Chain(2)}
MCRootLists ==
  {<<>>, <<Chain(3)>>, <<Chain(4)>>, <<Fork(1, Proof, Diamond)>>}
    \cup {<<c>> : c \in MCPool} \cup (MCPool \X MCPool) \cup {<<c, d, c>> : c, d \in MCPool}
    \cup {[i \in 1..n |-> Leaf(0)] : n \in 4..7}
    \cup {[i \in 1..n |-> IF i = n THEN Diamond ELSE Leaf(3)] : n \in 4..6}
MCNoRoots == {<<>>}

mcVars == <<wireVars, usageVars, updateVars, writerVars>>
WireRests == pool = {}
UsageRests == New(Shared)
UpdatesRest == updates = <<>> /\ chain = <<StateA>> /\ ~base.ok
WriterRests == phase = "start" /\ roots = <<>> /\ options = [index |-> FALSE, crc32c |-> FALSE, stored_hashes |-> FALSE]

MCInit ==
  /\ WireInit /\ UsageInit /\ UpdatesInit /\ WriterInit
  /\ \/ UsageRests /\ UpdatesRest
     \/ UsageRests /\ WriterRests
     \/ UpdatesRest /\ WriterRests
MCNext ==
  \/ UsageRests /\ UpdatesRest /\ WriterRests /\ WireNext /\ UNCHANGED <<usageVars, updateVars, writerVars>>
  \/ WireRests /\ UpdatesRest /\ WriterRests /\ UsageNext /\ UNCHANGED <<wireVars, updateVars, writerVars>>
  \/ WireRests /\ UsageRests /\ WriterRests /\ UpdatesNext /\ UNCHANGED <<wireVars, usageVars, writerVars>>
  \/ WireRests /\ UsageRests /\ UpdatesRest /\ WriterNext /\ UNCHANGED <<wireVars, usageVars, updateVars>>
MCSpec == MCInit /\ [][MCNext]_mcVars
=============================================================================

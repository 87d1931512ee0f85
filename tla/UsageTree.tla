----------------------------- MODULE UsageTree ------------------------------
(***************************************************************************)
(* A usage tree (core/src/cell/usage.rs, usage/trace.rs): the record of    *)
(* the cells a read touched, and the proof cut from it.  A place in a tree *)
(* is the sequence of references followed from the root.  The record is    *)
(* of hashes, so a cell that stands in two places is marked in both.       *)
(***************************************************************************)
EXTENDS MerkleCells

CONSTANTS Trees,      \* the trees a usage is recorded over
          MaxScopes   \* how deep calls of without_tracing nest

\* A cell as it is built, and no cell below the last level of its tree.
WellBuilt(cell, place) ==
  /\ cell.id.mask \in SUBSET Levels
  /\ \E n \in 0..MAX_REFS : DOMAIN cell.refs = 1..n
  /\ cell.refs = [i \in DOMAIN cell.refs |-> cell.refs[i]]
  /\ Len(place) = MaxHeight => cell.refs = <<>>
  /\ cell.type = "Ordinary" => cell = Ordinary(cell.data, cell.refs)

\* Trees are told apart by their hashes, as OneIdentityOneCell says.
ASSUME UsageAssumption ==
  /\ MaxHeight \in Nat /\ MaxScopes \in Nat
  /\ \A t, u \in Trees : repr_hash(t) = repr_hash(u) => t = u
  /\ \A t \in Trees : \A p \in Places(t) : WellBuilt(At(t, p), p)

VARIABLES root,       \* UsageTree.root
          used,       \* UsageTree.used
          tracing,    \* UsageTree.tracing
          scopes,     \* the `was` of every open without_tracing
          asked,      \* places marked by hand or noted while tracing was on
          promised    \* cells mark_path found

usageVars == <<root, used, tracing, scopes, asked, promised>>

New(tree) ==
  /\ root = tree /\ used = {repr_hash(tree)} /\ tracing = TRUE /\ scopes = <<>>
  /\ asked = {<<>>} /\ promised = {}

\* mark records whatever the switch says.
mark(place) ==
  /\ used' = used \cup {repr_hash(At(root, place))}
  /\ asked' = asked \cup {place}
  /\ UNCHANGED <<root, tracing, scopes, promised>>

\* note opens a cell, and marks it if tracing is on.
note(place) == tracing /\ mark(place)

\* The cells mark_path_to marks: those on the first path found to the target.
mark_path_to(cell, target) ==
  LET path[p \in Places(cell)] ==
        LET node == At(cell, p)
            found == {i \in DOMAIN node.refs : path[Append(p, i)] # {}}
        IN IF repr_hash(node) = target THEN {target}
           ELSE IF found = {} THEN {}
           ELSE {repr_hash(node)} \cup path[Append(p, Min(found))]
  IN path[<<>>]

\* Mutant: only the target itself is marked.
mark_path_TargetOnly(target) ==
  /\ used' = used \cup (mark_path_to(root, target) \cap {target})
  /\ promised' = IF mark_path_to(root, target) = {} THEN promised ELSE promised \cup {target}
  /\ UNCHANGED <<root, tracing, scopes, asked>>

mark_path(target) ==
  /\ used' = used \cup mark_path_to(root, target)
  /\ promised' = IF mark_path_to(root, target) = {} THEN promised ELSE promised \cup {target}
  /\ UNCHANGED <<root, tracing, scopes, asked>>

set_tracing(on) == tracing' = on /\ UNCHANGED <<root, used, scopes, asked, promised>>

\* without_tracing up to the call of `read`, and after it.
EnterScope ==
  /\ Len(scopes) < MaxScopes
  /\ scopes' = Append(scopes, tracing) /\ tracing' = FALSE
  /\ UNCHANGED <<root, used, asked, promised>>

LeaveScope ==
  /\ scopes # <<>>
  /\ tracing' = scopes[Len(scopes)] /\ scopes' = SubSeq(scopes, 1, Len(scopes) - 1)
  /\ UNCHANGED <<root, used, asked, promised>>

\* Folding in the record of a read that touched one cell of `tree`.
combine(tree, place) ==
  /\ repr_hash(tree) = repr_hash(root)
  /\ used' = used \cup {repr_hash(tree), repr_hash(At(tree, place))}
  /\ asked' = asked \cup {place}
  /\ UNCHANGED <<root, tracing, scopes, promised>>

prune == prune_cell(root, used)
prove == IF prune.ok THEN create_proof(prune.cell) ELSE Nothing

UsageInit == \E tree \in Trees : New(tree)

UsageNext ==
  \/ \E place \in Places(root) : mark(place) \/ note(place)
  \/ \E on \in BOOLEAN : set_tracing(on)
  \/ EnterScope \/ LeaveScope
  \/ \E tree \in Trees : \E place \in Places(tree) : combine(tree, place) \/ mark_path(repr_hash(At(tree, place)))

UsageSpec == UsageInit /\ [][UsageNext]_usageVars

-----------------------------------------------------------------------------
\* A place is kept when every cell from the root down to it is marked.
Along(place) == {SubSeq(place, 1, k) : k \in 0..Len(place)}
Kept(place) == \A p \in Along(place) : repr_hash(At(root, p)) \in used

\* Cutting a tree keeps its root: what prune returns answers at level zero
\* with the hash and the depth of the whole tree, the proof made of it reads
\* back as it, and the cut tree stands above level zero only if something
\* was withheld or the tree already did (UsageTree::prune and ::prove,
\* virtualize, is_virtualized).
PruneKeepsTheRoot ==
  LET cut == prune   proof == prove
  IN cut.ok =>
       /\ hash(cut.cell) = hash(root) /\ depth(cut.cell) = depth(root)
       /\ proof.ok /\ virtualize(proof.cell) = cut
       /\ is_virtualized(cut.cell) =>
            is_virtualized(root) \/ \E place \in Places(root) : ~Kept(place)

\* A proof shows what was read and nothing else.  A place asked for, with
\* every place above it, is in the proof as it is in the tree; a cell
\* mark_path found is somewhere in it; and a cell it shows was asked for in
\* some place or lies above one mark_path found.  Only a kept exotic cell
\* makes it fail (UsageTree::note, ::mark, ::mark_path, ::combine, ::prune).
ProofShowsWhatWasRead ==
  LET cut == prune
      shown == {p \in Places(cut.cell) : At(cut.cell, p).type = "Ordinary"}
      same(p) == At(cut.cell, p).data = At(root, p).data
      askedFor == {repr_hash(At(root, p)) : p \in asked}
      found(p) == \E q \in Places(root) : p \in Along(q) /\ repr_hash(At(root, q)) \in promised
  IN IF ~cut.ok THEN \E p \in Places(root) : Kept(p) /\ At(root, p).type # "Ordinary"
     ELSE /\ \A p \in asked : Along(p) \subseteq asked => p \in shown /\ same(p)
          /\ \A h \in promised : \E p \in shown : repr_hash(At(root, p)) = h
          /\ \A p \in shown : /\ p \in Places(root) /\ same(p)
                              /\ repr_hash(At(root, p)) \in askedFor
                                 \/ \E q \in Places(root) : repr_hash(At(root, q)) = repr_hash(At(root, p)) /\ found(q)
=============================================================================

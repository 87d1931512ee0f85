-------------------------------- MODULE Dict --------------------------------
(***************************************************************************)
(* A dictionary in use (Dict and AugDict, core/src/cell/dict/plain.rs,     *)
(* floor.rs, aug.rs): the tree `root`, whole or the part of it a proof     *)
(* shows, beside `map`, the entries the whole tree holds.  A step is one   *)
(* call of a writer; a call that fails leaves the tree as it was, except   *)
(* retain, which stops where a removal fails.                              *)
(***************************************************************************)
EXTENDS DictTree, TLC

CONSTANTS KEY_BITS,   \* the width of the key
          Keys,       \* the keys that are written
          Values,     \* the values, each the bits it takes
          Shapes,     \* the shapes of dictionary in use
          Keeps,      \* the key sets retain is asked to keep
          Merges,     \* the key sets of the dictionaries merged in
          Junk,       \* what a fork of a foreign tree may carry
          MaxItems    \* the most entries a dictionary starts with

ASSUME DictAssumption ==
  /\ Keys \subseteq Runs(KEY_BITS)
  /\ Shapes \subseteq {"plain", "augmented"}
  /\ Junk \subseteq {"bits", "ref"}

VARIABLES root,    \* the cell the dictionary is rooted at
          map,     \* the entries of the whole tree
          foreign  \* what its writer left in a fork
vars == <<shape, root, map, foreign>>

Maps == UNION {[K -> Values] : K \in {S \in SUBSET Keys : Cardinality(S) \in 1..MaxItems}}

\* Everything a proof of a tree may show, and the tree with junk in a fork.
RECURSIVE Shown(_)
Shown(node) ==
  {[kind |-> "pruned", of |-> node]} \cup
  IF node.kind # "fork" THEN {node}
  ELSE {[node EXCEPT !.left = l, !.right = r] : l \in Shown(node.left), r \in Shown(node.right)}

RECURSIVE Fouled(_, _)
Fouled(node, junk) ==
  IF node.kind # "fork" THEN {}
  ELSE {[node EXCEPT !.junk = junk]} \cup
       {[node EXCEPT !.left = l] : l \in Fouled(node.left, junk)} \cup
       {[node EXCEPT !.right = r] : r \in Fouled(node.right, junk)}

\* The whole tree the shown part belongs to, and what is in its forks.
RECURSIVE Whole(_)
Whole(node) ==
  CASE Exotic(node) -> node.of
    [] node.kind = "fork" -> [node EXCEPT !.left = Whole(node.left), !.right = Whole(node.right)]
    [] OTHER -> node

RECURSIVE Clean(_)
Clean(node) ==
  IF node.kind # "fork" THEN node
  ELSE [node EXCEPT !.junk = "none", !.left = Clean(node.left), !.right = Clean(node.right)]

IsWhole(node) == Whole(node) = node

Init == shape \in Shapes /\ root = Empty /\ map = <<>> /\ foreign = "none"

\* A dictionary built of items, or rooted at a cell read from outside: a whole
\* tree, what a proof shows of one, or the tree of another writer.
Given(items) ==
  LET built == build_all(items, KEY_BITS)
  IN /\ root = Empty /\ ~Failed(built)
     /\ map' = items
     /\ \/ root' \in Shown(built) /\ foreign' = "none"
        \/ \E j \in Junk : root' \in Fouled(built, j) /\ foreign' = j
     /\ UNCHANGED shape

Set(k, v) ==
  LET r == set(root, KEY_BITS, k, v)
  IN /\ IF Failed(r) THEN UNCHANGED <<root, map>>
        ELSE root' = r /\ map' = (k :> v) @@ map
     /\ UNCHANGED <<shape, foreign>>

Without(K) == [k \in DOMAIN map \ K |-> map[k]]

Take(k) ==
  LET r == remove(root, KEY_BITS, k)
  IN /\ IF r.kind \in {"error", "absent"} THEN UNCHANGED <<root, map>>
        ELSE root' = r /\ map' = Without({k})
     /\ UNCHANGED <<shape, foreign>>

Remove(k) == Take(k)

\* The smallest entry needs the walk's first step only, the largest all of it.
TakeMin ==
  LET first == min(root, KEY_BITS)
  IN "key" \in DOMAIN first /\ Take(first.key)

TakeMax ==
  LET last == max_(root, KEY_BITS)
  IN "key" \in DOMAIN last /\ Take(last.key)

Retain(keep) ==
  LET r == retain(root, KEY_BITS, keep)
  IN /\ root' = r.root
     /\ map' = Without(IF r.why = "ok" THEN DOMAIN map \ keep ELSE r.removed)
     /\ UNCHANGED <<shape, foreign>>

\* The other side may itself be a proof.
CombineWith(K, v) ==
  LET items == [k \in K |-> v]
      built == build_all(items, KEY_BITS)
  IN /\ AUGMENTED
     /\ ~Failed(built)
     /\ \E other \in Shown(built) :
          LET r == combine_with(root, KEY_BITS, other)
          IN IF Failed(r) THEN UNCHANGED <<root, map>>
             ELSE root' = r /\ map' = items @@ map
     /\ UNCHANGED <<shape, foreign>>

Next ==
  \/ \E items \in Maps : Given(items)
  \/ \E k \in Keys : (\E v \in Values : Set(k, v)) \/ Remove(k)
  \/ TakeMin
  \/ TakeMax
  \/ \E keep \in Keeps : Retain(keep)
  \/ \E K \in Merges, v \in Values : CombineWith(K, v)

Spec == Init /\ [][Next]_vars

-----------------------------------------------------------------------------
(* Properties.                                                             *)

\* One key set, one tree, one hash: whatever calls led here, and whether they
\* were made on the whole tree or on the part a proof shows, the tree is the
\* one from_items builds of the entries, summaries and label widths included;
\* and subdict re-roots it to the one tree of the keys under the prefix, with
\* the prefix taken off.
Canonical ==
  /\ Clean(Whole(root)) = build_all(map, KEY_BITS)
  /\ \A n \in 0..KEY_BITS : \A want \in Runs(n) :
       LET r == subdict(root, KEY_BITS, want, n)
           tails == {Rest(k, n) : k \in {j \in DOMAIN map : Head_(j, n) = want}}
       IN IF Failed(r) THEN r.why = "Pruned" /\ ~IsWhole(root)
          ELSE Clean(Whole(r)) = build_all([t \in tails |-> map[want \o t]], KEY_BITS - n)

\* get answers Found with the value stored, Absent only of a key that is not
\* in the whole tree, and Pruned only where the proof hides the answer.
LookupIsTrue ==
  \A k \in Runs(KEY_BITS) :
    LET r == lookup(root, KEY_BITS, k)
    IN CASE r.kind = "leaf" -> k \in DOMAIN map /\ map[k] = r.value
         [] r.kind = "absent" -> k \notin DOMAIN map
         [] OTHER -> r = Err("Pruned") /\ ~IsWhole(root)

\* A walk yields every entry in ascending key order, or the first few of them
\* and then Pruned: never a part of the dictionary as if it were all of it.
\* count, min and max answer for the whole of it or say that they cannot.
WalkIsAscending ==
  LET walk == iter(root, KEY_BITS)
      counted == count(root, KEY_BITS)
      Right(r, best) == \/ r = Err("Pruned") /\ ~IsWhole(root)
                        \/ r = Absent /\ map = <<>>
                        \/ map # <<>> /\ r = [key |-> best, value |-> map[best]]
  IN /\ counted.why = "ok" => counted.n = Cardinality(DOMAIN map)
     /\ Right(min(root, KEY_BITS), FirstKey(DOMAIN map))
     /\ Right(max_(root, KEY_BITS), LastKey(DOMAIN map))
     /\ \A i \in DOMAIN walk.items :
          /\ walk.items[i].key \in DOMAIN map /\ map[walk.items[i].key] = walk.items[i].value
          /\ i = Cardinality({k \in DOMAIN map : Number(k) <= Number(walk.items[i].key)})
     /\ (walk.why = "ok") = (Len(walk.items) = Cardinality(DOMAIN map) /\ IsWhole(root))

\* The entry at or after a key, and the one at or before it, are the nearest
\* of the whole dictionary: a proof that hides a nearer one makes the search
\* fail instead.
NearestIsNearest ==
  \A k \in Runs(KEY_BITS) :
    LET above == {j \in DOMAIN map : Number(j) >= Number(k)}
        below == {j \in DOMAIN map : Number(j) <= Number(k)}
        Right(r, near, best) ==
          \/ r = Err("Pruned") /\ ~IsWhole(root)
          \/ r = Absent /\ near = {}
          \/ near # {} /\ r = [key |-> best, value |-> map[best]]
    IN /\ Right(entry_at_or_after(root, KEY_BITS, k), above, FirstKey(above))
       /\ Right(entry_at_or_before(root, KEY_BITS, k), below, LastKey(below))

\* Readers tell the truth about the whole dictionary or say that a proof hides
\* it: lookups, walks and the searches for the nearest key alike.
ReadersAreTrue == LookupIsTrue /\ WalkIsAscending /\ NearestIsNearest

\* A writer refuses nothing it could do: set and remove fail only when no
\* dictionary of the entries that would result fits the format, when a proof
\* hides what they need, or at a fork that carries more than it should.
RefusesOnlyTheImpossible ==
  \A k \in Keys :
    LET Excused(r, items) ==
          Failed(r) => \/ Failed(build_all(items, KEY_BITS))
                       \/ r.why = "Pruned" /\ ~IsWhole(root)
                       \/ r.why = "Malformed" /\ foreign # "none"
    IN /\ Excused(remove(root, KEY_BITS, k), Without({k}))
       /\ \A v \in Values : Excused(set(root, KEY_BITS, k, v), (k :> v) @@ map)

\* What a foreign writer left in a fork is never dropped: no call rebuilds the
\* fork that carries it.
NothingIsDropped == foreign # "none" => Clean(root) # root

\* A fork over visible branches whose summary is off by one, anywhere.
RECURSIVE Misstated(_)
Misstated(node) ==
  IF node.kind # "fork" THEN {}
  ELSE (IF Exotic(node.left) \/ Exotic(node.right) THEN {} ELSE {[node EXCEPT !.extra = @ + 1]})
       \cup {[node EXCEPT !.left = l] : l \in Misstated(node.left)}
       \cup {[node EXCEPT !.right = r] : r \in Misstated(node.right)}

\* validate accepts every tree the writers leave, and reports a fork whose
\* summary is not the one its visible branches combine to.
ValidateTellsThemApart ==
  foreign = "none" =>
    /\ validate_node(root, KEY_BITS)
    /\ \A bad \in Misstated(root) : ~validate_node(bad, KEY_BITS)

\* Every visible fork's summary is the sum of what the whole tree holds under
\* the bits that lead to it, hidden entries included; so a visitor that skips
\* the subtrees summing to less than it looks for misses no entry that large,
\* in whatever part of the tree its walk can end.
\* validate tells a tree that keeps this from one that does not.
SummariesAreTrue ==
  AUGMENTED =>
    /\ ValidateTellsThemApart
    /\ LET all == root_extra(root)
       IN \/ all = Absent /\ map = <<>>
          \/ all = Err("Pruned") /\ Exotic(root)
          \/ all.kind = "extra" /\ all.extra = FoldSet(LAMBDA k, sum : sum + map[k], 0, DOMAIN map)
    /\ \A fork \in collect_forks(root, KEY_BITS, <<>>) :
         LET under == {k \in DOMAIN map : Head_(k, Len(fork.prefix)) = fork.prefix}
         IN fork.node.extra = FoldSet(LAMBDA k, sum : sum + map[k], 0, under)
    /\ \A least \in Values :
         LET walk == traverse_node(root, KEY_BITS, <<>>, least)
         IN walk.why = "ok" =>
              \A k \in DOMAIN map :
                map[k] >= least => \E i \in DOMAIN walk.items : walk.items[i].key = k
=============================================================================

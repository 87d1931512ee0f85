------------------------------ MODULE PfxDict -------------------------------
(***************************************************************************)
(* The prefix dictionary (core/src/cell/dict/prefix.rs): keys of any       *)
(* length up to KEY_BITS, none a prefix of another.  An edge is a label,   *)
(* one marker bit and either a value in place or two branches.  The tree   *)
(* `root` is whole or the part of it a proof shows, beside `map`, the      *)
(* entries the whole tree holds.  A value is the number of bits it takes.  *)
(***************************************************************************)
EXTENDS HmLabel, FiniteSetsExt, TLC

CONSTANTS KEY_BITS,   \* the longest key
          Keys,       \* the keys written
          Values,     \* the values, each the bits it takes
          MaxItems,   \* the most entries a dictionary starts with
          CELL_BITS   \* bits of a cell

VARIABLES root, map
vars == <<root, map>>

Err(why) == [kind |-> "error", why |-> why]
Empty == [kind |-> "empty"]
Absent == [kind |-> "absent"]
Gone == [kind |-> "gone"]
Failed(node) == node.kind = "error"
Exotic(node) == node.kind = "pruned"
Branch(node, b) == IF b = 0 THEN node.left ELSE node.right

\* Mutant: the last bit of the label is left out of the comparison.
diverges_ButLast(label, key) ==
  LET apart == {i \in 1..Len(label) - 1 : i <= Len(key) /\ key[i] # label[i]}
  IN IF apart = {} THEN 0 ELSE Min(apart)

\* The first position where a label and a key part company, or 0.
diverges(label, key) ==
  LET apart == {i \in 1..Len(label) : i <= Len(key) /\ key[i] # label[i]}
  IN IF apart = {} THEN 0 ELSE Min(apart)

Prefix(j, k) == Len(j) <= Len(k) /\ diverges(j, k) = 0

\* A node written with its label under max, if a cell has the room for the
\* label, the marker and a value.
Write(node, max) ==
  LET value == IF node.kind = "leaf" THEN node.value ELSE 0
  IN IF LabelBits(node.label, max) + 1 + value > CELL_BITS THEN Err("NoRoomForBits")
     ELSE [node EXCEPT !.under = max]

leaf_cell(key, max, value) ==
  Write([kind |-> "leaf", label |-> key, under |-> max, value |-> value], max)

Fork(label, left, right, max) ==
  IF Failed(left) THEN left
  ELSE IF Failed(right) THEN right
  ELSE Write([kind |-> "fork", label |-> label, under |-> max, bits |-> 0, left |-> left,
              right |-> right], max)

-----------------------------------------------------------------------------
(* Reading.                                                                *)

\* get: only a leaf where the key ends exactly is the key's.
RECURSIVE get(_, _, _)
get(node, max, key) ==
  CASE node.kind = "empty" -> Absent
    [] Exotic(node) -> Err("Pruned")
    [] node.kind \in {"leaf", "fork"} ->
         LET len == Len(node.label)
         IN IF ~Prefix(node.label, key) THEN Absent
            ELSE IF node.kind = "leaf" THEN (IF len = Len(key) THEN node ELSE Absent)
            ELSE IF max = len THEN Err("Malformed")
            ELSE IF len = Len(key) THEN Absent
            ELSE get(Branch(node, key[len + 1]), max - len - 1, Rest(key, len + 1))

\* lookup_prefix: the leaf the query's bits lead to, and how many they were.
RECURSIVE lookup_prefix(_, _, _, _)
lookup_prefix(node, max, key, at) ==
  CASE node.kind = "empty" -> Absent
    [] Exotic(node) -> Err("Pruned")
    [] node.kind \in {"leaf", "fork"} ->
         LET len == Len(node.label)
         IN IF ~Prefix(node.label, key) THEN Absent
            ELSE IF node.kind = "leaf"
              THEN [kind |-> "match", matched |-> at + len, value |-> node.value]
            ELSE IF max = len THEN Err("Malformed")
            ELSE IF len = Len(key) THEN Absent
            ELSE lookup_prefix(Branch(node, key[len + 1]), max - len - 1, Rest(key, len + 1),
                               at + len + 1)

\* PfxDictIter::step, the branch that comes off the stack first.
First == 0

RECURSIVE walk(_, _, _)
walk(node, max, prefix) ==
  CASE node.kind = "empty" -> [why |-> "ok", items |-> <<>>]
    [] Exotic(node) -> [why |-> "Pruned", items |-> <<>>]
    [] node.kind = "leaf" ->
         [why |-> "ok", items |-> <<[key |-> prefix \o node.label, value |-> node.value]>>]
    [] node.kind = "fork" ->
         LET Below(b) == walk(Branch(node, b), max - Len(node.label) - 1,
                              prefix \o node.label \o <<b>>)
             one == Below(First)
             two == Below(1 - First)
         IN IF max = Len(node.label) THEN [why |-> "Malformed", items |-> <<>>]
            ELSE IF one.why # "ok" THEN one
            ELSE [why |-> two.why, items |-> one.items \o two.items]

\* A fork leaves a bit for its branches and carries nothing past its marker.
ForkHolds(node, max) == max > Len(node.label) /\ node.bits = 0

RECURSIVE validate_node(_, _)
validate_node(node, max) ==
  IF node.kind # "fork" THEN TRUE
  ELSE /\ ForkHolds(node, max)
       /\ validate_node(node.left, max - Len(node.label) - 1)
       /\ validate_node(node.right, max - Len(node.label) - 1)

-----------------------------------------------------------------------------
(* Writing.                                                                *)

rebuild_fork(node, b, child, max) ==
  IF b = 0 THEN Fork(node.label, child, node.right, max)
  ELSE Fork(node.label, node.left, child, max)

Relabel(node, label, max) == Write([node EXCEPT !.label = label], max)

split(node, at, key, value, max) ==
  LET kept == Relabel(node, Rest(node.label, at), max - at)
      fresh == leaf_cell(Rest(key, at), max - at, value)
  IN IF Failed(kept) THEN kept
     ELSE IF node.label[at] = 1 THEN Fork(Head_(node.label, at - 1), fresh, kept, max)
     ELSE Fork(Head_(node.label, at - 1), kept, fresh, max)

\* The key's own leaf is written anew; the leaf of a shorter key refuses it.
AtLeaf(node, key, value, max) ==
  IF Len(node.label) = Len(key) THEN leaf_cell(node.label, max, value) ELSE Err("Malformed")

RECURSIVE insert(_, _, _, _)
insert(node, max, key, value) ==
  IF Exotic(node) THEN Err("Pruned")
  ELSE LET at == diverges(node.label, key)
           len == Len(node.label)
       IN IF at # 0 THEN split(node, at, key, value, max)
          ELSE IF Len(key) < len THEN Err("Malformed")
          ELSE IF node.kind = "leaf" THEN AtLeaf(node, key, value, max)
          ELSE IF Len(key) = len \/ max = len THEN Err("Malformed")
          ELSE LET b == key[len + 1]
                   child == insert(Branch(node, b), max - len - 1, Rest(key, len + 1), value)
               IN rebuild_fork(node, b, child, max)

set(key, value) ==
  IF root.kind = "empty" THEN leaf_cell(key, KEY_BITS, value)
  ELSE insert(root, KEY_BITS, key, value)

\* Mutant: the survivor keeps its own label.
collapse_OwnLabel(node, b, max) ==
  LET sibling == Branch(node, 1 - b)
  IN IF Exotic(sibling) THEN Err("Pruned") ELSE Relabel(sibling, sibling.label, max)
\* The survivor of a fork that lost branch b.
collapse(node, b, max) ==
  LET sibling == Branch(node, 1 - b)
  IN IF Exotic(sibling) THEN Err("Pruned")
     ELSE Relabel(sibling, node.label \o <<1 - b>> \o sibling.label, max)

RECURSIVE remove_from(_, _, _)
remove_from(node, max, key) ==
  IF Exotic(node) THEN Err("Pruned")
  ELSE LET len == Len(node.label)
       IN IF ~Prefix(node.label, key) THEN Absent
          ELSE IF node.kind = "leaf" THEN (IF len = Len(key) THEN Gone ELSE Absent)
          ELSE IF max = len THEN Err("Malformed")
          ELSE IF len = Len(key) THEN Absent
          ELSE LET b == key[len + 1]
                   below == remove_from(Branch(node, b), max - len - 1, Rest(key, len + 1))
               IN CASE below.kind \in {"error", "absent"} -> below
                    [] below.kind = "gone" -> collapse(node, b, max)
                    [] OTHER -> rebuild_fork(node, b, below, max)

remove(key) == IF root.kind = "empty" THEN Absent ELSE remove_from(root, KEY_BITS, key)

-----------------------------------------------------------------------------
(* The dictionary in use.                                                  *)

\* The tree a set of entries has: a leaf for one, otherwise a fork where their
\* shared run ends.
RECURSIVE Plant(_, _)
Plant(items, max) ==
  LET some == CHOOSE k \in DOMAIN items : TRUE
      n == Min({Len(some)} \cup {diverges(some, k) - 1 : k \in DOMAIN items \ {some}})
      Tails(b) == LET under == {k \in DOMAIN items : k[n + 1] = b}
                  IN [t \in {Rest(k, n + 1) : k \in under} |-> items[Head_(some, n) \o <<b>> \o t]]
  IN IF DOMAIN items = {} THEN Empty
     ELSE IF DOMAIN items = {some} THEN leaf_cell(some, max, items[some])
     ELSE Fork(Head_(some, n), Plant(Tails(0), max - n - 1), Plant(Tails(1), max - n - 1), max)

PrefixFree(K) == \A j, k \in K : Prefix(j, k) => j = k

Maps == UNION {[K -> Values] : K \in {S \in SUBSET Keys : Cardinality(S) <= MaxItems /\ PrefixFree(S)}}

\* Everything a proof of a tree may show, and the whole tree it is a part of.
RECURSIVE Shown(_)
Shown(node) ==
  {[kind |-> "pruned", of |-> node]} \cup
  IF node.kind # "fork" THEN {node}
  ELSE {[node EXCEPT !.left = l, !.right = r] : l \in Shown(node.left), r \in Shown(node.right)}

RECURSIVE Whole(_)
Whole(node) ==
  CASE Exotic(node) -> node.of
    [] node.kind = "fork" -> [node EXCEPT !.left = Whole(node.left), !.right = Whole(node.right)]
    [] OTHER -> node

IsWhole(node) == Whole(node) = node

Init ==
  \E items \in Maps :
    LET built == Plant(items, KEY_BITS)
    IN /\ ~Failed(built)
       /\ map = items
       /\ root \in IF built.kind = "empty" THEN {built} ELSE Shown(built)

Set(k, v) ==
  LET r == set(k, v)
  IN IF Failed(r) THEN UNCHANGED vars ELSE root' = r /\ map' = (k :> v) @@ map

Remove(k) ==
  LET r == remove(k)
  IN CASE r.kind \in {"error", "absent"} -> UNCHANGED vars
       [] OTHER -> /\ root' = IF r.kind = "gone" THEN Empty ELSE r
                   /\ map' = [j \in DOMAIN map \ {k} |-> map[j]]

Next == \E k \in Keys : (\E v \in Values : Set(k, v)) \/ Remove(k)

Spec == Init /\ [][Next]_vars

-----------------------------------------------------------------------------
(* Properties.                                                             *)

\* remove (prefix.rs:275-277): "removing a key restores exactly the dictionary
\* that never held it".  Whatever calls led here, on the whole tree or on the
\* part a proof shows, the tree is the one the entries have, and no key of it
\* is a prefix of another.
MinimalForItsKeys == PrefixFree(DOMAIN map) /\ Whole(root) = Plant(map, KEY_BITS)

\* get finds a key and nothing shorter or longer; lookup_prefix finds the one
\* stored key that is a prefix of the query; either answers Pruned only where
\* the proof hides the answer, and never instead of an absence it can see.
LookupsAreTrue ==
  \A n \in 0..KEY_BITS : \A k \in Runs(n) :
    LET g == get(root, KEY_BITS, k)
        p == lookup_prefix(root, KEY_BITS, k, 0)
        held == {j \in DOMAIN map : Prefix(j, k)}
    IN /\ \/ g = Err("Pruned") /\ ~IsWhole(root)
          \/ g.kind = "absent" /\ k \notin DOMAIN map
          \/ g.kind = "leaf" /\ k \in DOMAIN map /\ map[k] = g.value
       /\ \/ p = Err("Pruned") /\ ~IsWhole(root)
          \/ p.kind = "absent" /\ held = {}
          \/ p.kind = "match" /\ Head_(k, p.matched) \in held /\ map[Head_(k, p.matched)] = p.value

\* A walk yields the entries in ascending order, all of them or the first few
\* and then Pruned.
Before(j, k) == \E i \in 1..Min({Len(j), Len(k)}) : Head_(j, i - 1) = Head_(k, i - 1) /\ j[i] < k[i]

WalkIsAscending ==
  LET w == walk(root, KEY_BITS, <<>>)
  IN /\ \A i \in DOMAIN w.items :
          /\ w.items[i].key \in DOMAIN map /\ map[w.items[i].key] = w.items[i].value
          /\ i = 1 + Cardinality({k \in DOMAIN map : Before(k, w.items[i].key)})
     /\ (w.why = "ok") = (Len(w.items) = Cardinality(DOMAIN map) /\ IsWhole(root))

\* set refuses a key only when it is a prefix of a stored one or the other way
\* about, when no cell has room for what would result, or when a proof hides
\* where it goes; remove fails for the last two reasons only.
RefusesOnlyTheImpossible ==
  \A k \in Keys :
    LET Excused(r, items) ==
          Failed(r) => \/ r.why = "Pruned" /\ ~IsWhole(root)
                       \/ r.why = "NoRoomForBits" /\ Failed(Plant(items, KEY_BITS))
        clash == \E j \in DOMAIN map \ {k} : Prefix(j, k) \/ Prefix(k, j)
    IN /\ Excused(remove(k), [j \in DOMAIN map \ {k} |-> map[j]])
       /\ \A v \in Values :
            IF clash THEN Failed(set(k, v)) ELSE Excused(set(k, v), (k :> v) @@ map)

\* The tree with one fork carrying a bit past its marker.
RECURSIVE Fouled(_)
Fouled(node) ==
  IF node.kind # "fork" THEN {}
  ELSE {[node EXCEPT !.bits = 1]} \cup {[node EXCEPT !.left = l] : l \in Fouled(node.left)}
       \cup {[node EXCEPT !.right = r] : r \in Fouled(node.right)}

\* validate accepts every tree the writers leave, and no tree one of whose
\* forks carries a bit past its marker.
ValidateTellsThemApart ==
  validate_node(root, KEY_BITS) /\ \A f \in Fouled(root) : ~validate_node(f, KEY_BITS)

\* Lookups, walks and validate tell the truth about the whole dictionary, or
\* say that a proof hides it.
ReadersAreTrue == LookupsAreTrue /\ WalkIsAscending /\ ValidateTellsThemApart
=============================================================================

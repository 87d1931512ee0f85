------------------------------ MODULE DictTree ------------------------------
(***************************************************************************)
(* A dictionary's tree of cells and the operations on it                   *)
(* (core/src/cell/dict.rs, written once for the plain and the augmented    *)
(* dictionary over the trait Shape).  A node is a leaf or a fork with its  *)
(* label, the summary the augmented shape keeps (0 in the plain one) and   *)
(* its value or its two branches; a pruned branch is a placeholder, which  *)
(* stands for the subtree `of` that only its hash names.  A fork of a tree *)
(* read from outside may hold data no shape accounts for, `junk`.          *)
(*                                                                         *)
(* A value is the number of bits it takes, and its own summary; a          *)
(* summary combines by addition, which fails past MAX_SUM.  Cells hold     *)
(* CELL_BITS bits, few enough that a long label leaves no room for a       *)
(* large value.  An operation that fails returns the error as its node.    *)
(***************************************************************************)
EXTENDS HmLabel, FiniteSetsExt

CONSTANTS EXTRA_BITS,   \* bits of a summary
          MAX_SUM,      \* the largest summary combine can hold
          CELL_BITS     \* bits of a cell

VARIABLE shape          \* "plain" or "augmented": the Shape the nodes have

AUGMENTED == shape = "augmented"

Err(why) == [kind |-> "error", why |-> why]
Empty == [kind |-> "empty"]
Absent == [kind |-> "absent"]
Gone == [kind |-> "gone"]
Failed(node) == node.kind = "error"
Exotic(node) == node.kind = "pruned"

Branch(node, b) == IF b = 0 THEN node.left ELSE node.right

\* The bits a node takes besides its label.
Summary == IF AUGMENTED THEN EXTRA_BITS ELSE 0
Carried(node) == Summary + (IF node.kind = "leaf" THEN node.value
                            ELSE IF node.junk = "bits" THEN 1 ELSE 0)

\* A node written with its label under max, the width it has to be read
\* under, if a cell has the room.
Write(node, max) ==
  IF LabelBits(node.label, max) + Carried(node) > CELL_BITS THEN Err("NoRoomForBits")
  ELSE [node EXCEPT !.under = max]

leaf(key, value, max) ==
  Write([kind |-> "leaf", label |-> key, under |-> max,
         extra |-> IF AUGMENTED THEN value ELSE 0, value |-> value], max)

\* Mutant: the placeholder counts as nothing.
fork_extra_PrunedIsZero(left, right) ==
  LET extra_of(child) == IF Exotic(child) \/ ~AUGMENTED THEN 0 ELSE child.extra
  IN [why |-> "ok", extra |-> extra_of(left) + extra_of(right)]

\* The summary of a fork, read back off its branches: none of a pruned one.
fork_extra(left, right) ==
  CASE ~AUGMENTED -> [why |-> "ok", extra |-> 0]
    [] AUGMENTED /\ (Exotic(left) \/ Exotic(right)) -> [why |-> "Pruned", extra |-> 0]
    [] AUGMENTED /\ ~(Exotic(left) \/ Exotic(right)) ->
         IF left.extra + right.extra > MAX_SUM THEN [why |-> "Overflow", extra |-> 0]
         ELSE [why |-> "ok", extra |-> left.extra + right.extra]

\* A fork over two branches that could themselves be built.
Fork(label, left, right, max) ==
  IF Failed(left) THEN left
  ELSE IF Failed(right) THEN right
  ELSE IF fork_extra(left, right).why # "ok" THEN Err(fork_extra(left, right).why)
  ELSE Write([kind |-> "fork", label |-> label, under |-> max,
              extra |-> fork_extra(left, right).extra,
              junk |-> "none", left |-> left, right |-> right], max)

\* The first position where the label and the key part company, or 0.
diverges(label, key) ==
  LET apart == {i \in 1..Len(label) : i <= Len(key) /\ key[i] # label[i]}
  IN IF apart = {} THEN 0 ELSE Min(apart)

-----------------------------------------------------------------------------
(* Reading.                                                                *)

RECURSIVE lookup(_, _, _)
lookup(node, max, key) ==
  CASE node.kind = "empty" -> Absent
    [] Exotic(node) -> Err("Pruned")
    [] node.kind \in {"leaf", "fork"} ->
         IF diverges(node.label, key) # 0 THEN Absent
         ELSE IF Len(node.label) = max THEN node
         ELSE lookup(Branch(node, key[Len(node.label) + 1]), max - Len(node.label) - 1,
                     Rest(key, Len(node.label) + 1))

\* The entries a walk yields, left before right, up to the placeholder that
\* ends it.
RECURSIVE walk_step(_, _, _)
walk_step(node, max, prefix) ==
  CASE node.kind = "empty" -> [why |-> "ok", items |-> <<>>]
    [] Exotic(node) -> [why |-> "Pruned", items |-> <<>>]
    [] node.kind \in {"leaf", "fork"} ->
         IF Len(node.label) = max
         THEN [why |-> "ok", items |-> <<[key |-> prefix \o node.label, value |-> node.value]>>]
         ELSE LET Below(b) == walk_step(Branch(node, b), max - Len(node.label) - 1,
                                        prefix \o node.label \o <<b>>)
              IN IF Below(0).why # "ok" THEN Below(0)
                 ELSE [why |-> Below(1).why, items |-> Below(0).items \o Below(1).items]

\* The whole walk: the entries in order, and how it ended.
iter(root, max) == walk_step(root, max, <<>>)

\* count and max need all of it, min its first step only.
count(root, max) == [why |-> iter(root, max).why, n |-> Len(iter(root, max).items)]

min(root, max) ==
  LET walk == iter(root, max)
  IN IF walk.items # <<>> THEN walk.items[1] ELSE IF walk.why # "ok" THEN Err(walk.why) ELSE Absent

max_(root, max) ==
  LET walk == iter(root, max)
  IN IF walk.why # "ok" THEN Err(walk.why)
     ELSE IF walk.items = <<>> THEN Absent ELSE walk.items[Len(walk.items)]

\* Mutant: the floor is given although the walk may end short of it.
entry_at_or_before_Eager(root, max, key) ==
  LET walk == iter(root, max)
      upTo == {i \in DOMAIN walk.items : Number(walk.items[i].key) <= Number(key)}
  IN IF upTo # {} THEN walk.items[Max(upTo)] ELSE IF walk.why # "ok" THEN Err(walk.why) ELSE Absent

\* The first entry of the walk that is not below the key.
entry_at_or_after(root, max, key) ==
  LET walk == iter(root, max)
      from == {i \in DOMAIN walk.items : Number(walk.items[i].key) >= Number(key)}
  IN IF from # {} THEN walk.items[Min(from)] ELSE IF walk.why # "ok" THEN Err(walk.why) ELSE Absent

\* The last entry of the walk that is not above the key, once the walk has
\* passed the key or come to its end.
entry_at_or_before(root, max, key) ==
  LET walk == iter(root, max)
      upTo == {i \in DOMAIN walk.items : Number(walk.items[i].key) <= Number(key)}
  IN IF walk.why # "ok" /\ upTo = DOMAIN walk.items THEN Err(walk.why)
     ELSE IF upTo = {} THEN Absent
     ELSE walk.items[Max(upTo)]

\* Every visible fork: the key bits that lead past its label, and the fork.
RECURSIVE collect_forks(_, _, _)
collect_forks(node, max, prefix) ==
  IF node.kind # "fork" THEN {}
  ELSE LET here == prefix \o node.label
           Below(b) == collect_forks(Branch(node, b), max - Len(node.label) - 1, here \o <<b>>)
       IN {[prefix |-> here, node |-> node]} \cup Below(0) \cup Below(1)

Unchecked(node) == Exotic(node.left) \/ Exotic(node.right)

\* Whether every fork over two visible branches is the fork its branches make.
RECURSIVE validate_node(_, _)
validate_node(node, max) ==
  IF node.kind # "fork" THEN TRUE
  ELSE LET below == max - Len(node.label) - 1
       IN /\ Unchecked(node) \/ Fork(node.label, node.left, node.right, max) = node
          /\ validate_node(node.left, below)
          /\ validate_node(node.right, below)

\* The walk of a visitor that skips every subtree whose summary is below
\* `least`: the leaves it is offered.
RECURSIVE traverse_node(_, _, _, _)
traverse_node(node, max, prefix, least) ==
  CASE node.kind = "empty" -> [why |-> "ok", items |-> <<>>]
    [] Exotic(node) -> [why |-> "Pruned", items |-> <<>>]
    [] node.kind \in {"leaf", "fork"} ->
         IF Len(node.label) = max
         THEN [why |-> "ok", items |-> <<[key |-> prefix \o node.label, value |-> node.value]>>]
         ELSE IF node.extra < least THEN [why |-> "ok", items |-> <<>>]
         ELSE LET Below(b) == traverse_node(Branch(node, b), max - Len(node.label) - 1,
                                            prefix \o node.label \o <<b>>, least)
              IN IF Below(0).why # "ok" THEN Below(0)
                 ELSE [why |-> Below(1).why, items |-> Below(0).items \o Below(1).items]

-----------------------------------------------------------------------------
(* Writing.  Both writers descend to where the key parts from the tree and *)
(* rebuild the forks they passed from the bottom up.                       *)

\* Mutant: a fork is taken as it comes.
check_fork_Never(node) == TRUE

\* A fork may be rebuilt when no bits follow what its shape reads; its
\* references are not counted.
check_fork(node) == node.junk # "bits"

Rebuild(node, b, child, max) ==
  IF Failed(child) THEN child
  ELSE IF b = 0 THEN Fork(node.label, child, node.right, max)
  ELSE Fork(node.label, node.left, child, max)

Relabel(node, label, max) == Write([node EXCEPT !.label = label], max)

\* A node whose label leaves the key at position `at` becomes a fork over the
\* run they share, the old node on one side and the new leaf on the other.
split(node, at, key, value, max) ==
  LET below == max - at
      kept == Relabel(node, Rest(node.label, at), below)
      fresh == leaf(Rest(key, at), value, below)
  IN IF Failed(kept) THEN kept
     ELSE IF node.label[at] = 1 THEN Fork(Head_(node.label, at - 1), fresh, kept, max)
     ELSE Fork(Head_(node.label, at - 1), kept, fresh, max)

RECURSIVE SetUnder(_, _, _, _)
SetUnder(node, max, key, value) ==
  IF Exotic(node) THEN Err("Pruned")
  ELSE LET at == diverges(node.label, key)
           len == Len(node.label)
       IN IF at # 0 THEN split(node, at, key, value, max)
          ELSE IF len = max THEN leaf(key, value, max)
          ELSE IF ~check_fork(node) THEN Err("Malformed")
          ELSE Rebuild(node, key[len + 1],
                       SetUnder(Branch(node, key[len + 1]), max - len - 1,
                                Rest(key, len + 1), value), max)

\* Mutant: room is asked for beside the whole key, as if it were the label.
set_WholeKey(root, max, key, value) ==
  IF root.kind = "empty" \/ Failed(leaf(key, value, max)) THEN leaf(key, value, max)
  ELSE SetUnder(root, max, key, value)

set(root, max, key, value) ==
  IF root.kind = "empty" THEN leaf(key, value, max) ELSE SetUnder(root, max, key, value)

\* Mutant: the branch bit is lost.
collapse_LosesBit(node, b, max) ==
  LET sibling == Branch(node, 1 - b)
  IN IF Exotic(sibling) THEN Err("Pruned")
     ELSE Relabel(sibling, node.label \o sibling.label, max)

\* The survivor of a fork that lost branch b takes the run of bits the two
\* edges spelled between them.
collapse(node, b, max) ==
  LET sibling == Branch(node, 1 - b)
  IN IF Exotic(sibling) THEN Err("Pruned")
     ELSE Relabel(sibling, node.label \o <<1 - b>> \o sibling.label, max)

RECURSIVE RemoveUnder(_, _, _)
RemoveUnder(node, max, key) ==
  IF Exotic(node) THEN Err("Pruned")
  ELSE LET len == Len(node.label)
       IN IF diverges(node.label, key) # 0 THEN Absent
          ELSE IF len = max THEN Gone
          ELSE IF ~check_fork(node) THEN Err("Malformed")
          ELSE LET b == key[len + 1]
                   below == RemoveUnder(Branch(node, b), max - len - 1, Rest(key, len + 1))
               IN CASE below.kind \in {"error", "absent"} -> below
                    [] below.kind = "gone" -> collapse(node, b, max)
                    [] OTHER -> Rebuild(node, b, below, max)

\* The root without the key; Absent when it was not there to remove.
remove(root, max, key) ==
  CASE root.kind = "empty" -> Absent
    [] root.kind # "empty" -> LET r == RemoveUnder(root, max, key)
                              IN IF r.kind = "gone" THEN Empty ELSE r

-----------------------------------------------------------------------------
(* Building and re-rooting.  `items` maps keys to values: of a key handed  *)
(* over twice the last value is the one it maps to.                        *)

FirstKey(K) == CHOOSE k \in K : \A j \in K : Number(k) <= Number(j)
LastKey(K) == CHOOSE k \in K : \A j \in K : Number(j) <= Number(k)

RECURSIVE build_run(_, _)
build_run(items, max) ==
  LET first == FirstKey(DOMAIN items)
      last == LastKey(DOMAIN items)
      apart == diverges(first, last)
      shared == Head_(first, apart - 1)
      Half(b) == {k \in DOMAIN items : k[apart] = b}
      Tails(b) == [t \in {Rest(k, apart) : k \in Half(b)} |-> items[shared \o <<b>> \o t]]
  IN IF apart = 0 THEN leaf(last, items[last], max)
     ELSE Fork(shared, build_run(Tails(0), max - apart), build_run(Tails(1), max - apart), max)

build_all(items, max) == IF DOMAIN items = {} THEN Empty ELSE build_run(items, max)

Cut(node, n, max) == Relabel(node, Rest(node.label, n), max - n)

\* The subtree of the keys that begin with `want`, its label cut to the key
\* bits that are left.
RECURSIVE reroot(_, _, _)
reroot(node, max, want) ==
  CASE node.kind = "empty" -> Empty
    [] Exotic(node) -> Err("Pruned")
    [] node.kind \in {"leaf", "fork"} ->
         LET len == Len(node.label)
         IN IF want = <<>> THEN node
            ELSE IF diverges(node.label, want) # 0 THEN Empty
            ELSE IF Len(want) <= len
              THEN Cut(node, Len(want), max)
            ELSE IF len = max THEN Empty
            ELSE reroot(Branch(node, want[len + 1]), max - len - 1, Rest(want, len + 1))

\* The bits of a key, of which there may be more than are asked for.
key_of(key, bits) == IF Len(key) < bits THEN Err("KeyLength") ELSE [kind |-> "key", bits |-> Head_(key, bits)]

subdict(root, max, prefix, prefix_bits) ==
  LET want == key_of(prefix, prefix_bits)
  IN IF prefix_bits > max THEN Err("Malformed")
     ELSE IF Failed(want) THEN want
     ELSE reroot(root, max, want.bits)

\* The summary over the whole dictionary, of which an empty one has none.
root_extra(root) ==
  CASE root.kind = "empty" -> Absent
    [] Exotic(root) -> Err("Pruned")
    [] OTHER -> [kind |-> "extra", extra |-> root.extra]

-----------------------------------------------------------------------------
(* The operations made of those.                                           *)

\* Removing keys one after another, up to the first that fails.
RECURSIVE RemoveAll(_, _, _)
RemoveAll(root, max, keys) ==
  IF keys = <<>> THEN [why |-> "ok", root |-> root, removed |-> {}]
  ELSE LET r == remove(root, max, keys[1])
       IN IF Failed(r) THEN [why |-> r.why, root |-> root, removed |-> {}]
          ELSE [RemoveAll(r, max, Tail(keys)) EXCEPT !.removed = @ \cup {keys[1]}]

\* Every entry is shown to `keep` first; then the others are removed in order.
retain(root, max, keep) ==
  LET walk == iter(root, max)
      dropped == SelectSeq([i \in DOMAIN walk.items |-> walk.items[i].key],
                           LAMBDA k : k \notin keep)
  IN IF walk.why # "ok" THEN [why |-> walk.why, root |-> root, removed |-> {}]
     ELSE RemoveAll(root, max, dropped)

RECURSIVE SetAll(_, _, _)
SetAll(root, max, items) ==
  IF items = <<>> \/ Failed(root) THEN root
  ELSE SetAll(set(root, max, items[1].key, items[1].value), max, Tail(items))

\* Every entry of `other` in turn has to be absent; the union is built in a
\* copy, which a store that fails discards.
combine_with(root, max, other) ==
  LET walk == iter(other, max)
  IN IF \E i \in DOMAIN walk.items : lookup(root, max, walk.items[i].key) # Absent
       THEN Err("Malformed")
     ELSE IF walk.why # "ok" THEN Err(walk.why)
     ELSE SetAll(root, max, walk.items)
=============================================================================

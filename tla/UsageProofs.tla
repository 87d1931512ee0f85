----------------------------- MODULE UsageProofs ----------------------------
(***************************************************************************)
(* A cut tree answers for the whole one, for any trees of any height and   *)
(* whatever was marked (UsageTree).  The hash and the depth of an ordinary *)
(* cell at level zero are taken over its data and its children's hashes    *)
(* and depths at level zero; a pruned branch stores exactly those of the   *)
(* cell it stands for.  So from the leaves up the cut in every place       *)
(* answers for the cell there, and at the root for the tree.               *)
(*                                                                         *)
(* And a proof shows what was read and nothing else.  The cut shows a cell *)
(* where every cell from the root down is kept; RecordInv says that what   *)
(* was asked for is kept, that a cell promised stands in such a place, and *)
(* that each hash kept was asked for or lies on the way to one promised.   *)
(***************************************************************************)
EXTENDS UsageTree, CellProofs

-----------------------------------------------------------------------------
(* Places.                                                                 *)

\* A place is a list of reference numbers, and so is every beginning of one.
LEMMA PlaceIs ==
  ASSUME NEW p \in AllPlaces
  PROVE  /\ p \in Seq(1..MAX_REFS) /\ p \in [1..Len(p) -> 1..MAX_REFS]
         /\ Len(p) \in 0..MaxHeight /\ DOMAIN p = 1..Len(p)
<1>1. PICK n \in 0..MaxHeight : p \in [1..n -> 1..MAX_REFS]
  BY DEF AllPlaces
<1>2. n \in Nat /\ n <= MaxHeight
  BY UsageAssumption
<1>3. p \in Seq(1..MAX_REFS) /\ Len(p) = n
  BY <1>1, <1>2, ListOf, Zenon
<1>. QED
  BY <1>1, <1>2, <1>3

LEMMA RootPlace == <<>> \in AllPlaces /\ Len(<<>>) = 0
<1>1. 0 \in 0..MaxHeight
  BY UsageAssumption
<1>2. <<>> \in [1..0 -> 1..MAX_REFS]
  OBVIOUS
<1>. QED
  BY <1>1, <1>2 DEF AllPlaces

LEMMA PrefixIs ==
  ASSUME NEW p \in AllPlaces, NEW k \in 0..Len(p)
  PROVE  /\ SubSeq(p, 1, k) \in AllPlaces /\ Len(SubSeq(p, 1, k)) = k
         /\ \A j \in 1..k : SubSeq(p, 1, k)[j] = p[j]
<1>. DEFINE q == SubSeq(p, 1, k)
<1>1. Len(p) \in 0..MaxHeight /\ p \in Seq(1..MAX_REFS) /\ k \in Int /\ 1 \in Int
  BY PlaceIs
<1>3. q \in Seq(1..MAX_REFS)
  BY <1>1, Beginning
<1>4. k \in Nat /\ Len(q) = k /\ \A i \in 1..k : q[i] = p[i]
  BY <1>1, Beginning
<1>5. q \in [1..k -> 1..MAX_REFS]
  BY <1>3, <1>4, ListIs, Zenon
<1>6. k \in 0..MaxHeight
  BY <1>1, UsageAssumption
<1>. QED
  BY <1>4, <1>5, <1>6 DEF AllPlaces

\* One step down and back.
LEMMA ChildIs ==
  ASSUME NEW p \in AllPlaces, Len(p) < MaxHeight, NEW i \in 1..MAX_REFS
  PROVE  LET c == Append(p, i)
         IN /\ c \in AllPlaces /\ Len(c) = Len(p) + 1 /\ c # <<>> /\ c[Len(c)] = i
            /\ Parent(c) = p
            /\ \A k \in 0..Len(p) : SubSeq(c, 1, k) = SubSeq(p, 1, k)
<1>. DEFINE c == Append(p, i)
<1>1. p \in Seq(1..MAX_REFS) /\ Len(p) \in Nat /\ Len(p) + 1 \in 0..MaxHeight /\ p \in [1..Len(p) -> 1..MAX_REFS]
  BY PlaceIs, UsageAssumption
<1>2. /\ c \in Seq(1..MAX_REFS) /\ Len(c) = Len(p) + 1 /\ c[Len(p) + 1] = i
      /\ \A j \in 1..Len(p) : c[j] = p[j]
  BY <1>1, OneMore
<1>3. c \in [1..Len(p) + 1 -> 1..MAX_REFS]
  BY <1>2, ListIs, Zenon
<1>4. c \in AllPlaces
  BY <1>1, <1>3 DEF AllPlaces
<1>5. ASSUME NEW k \in 0..Len(p)
      PROVE  SubSeq(c, 1, k) = SubSeq(p, 1, k)
  <2>. DEFINE s == SubSeq(c, 1, k)  t == SubSeq(p, 1, k)
  <2>1. s \in AllPlaces /\ Len(s) = k /\ \A j \in 1..k : s[j] = c[j]
    <3>1. k \in 0..Len(c)
      BY <1>1, <1>2
    <3>. HIDE DEF c
    <3>. QED
      BY <1>4, <3>1, PrefixIs
  <2>2. t \in AllPlaces /\ Len(t) = k /\ \A j \in 1..k : t[j] = p[j]
    BY PrefixIs
  <2>3. s \in Seq(1..MAX_REFS) /\ t \in Seq(1..MAX_REFS)
    BY <2>1, <2>2, PlaceIs, Zenon
  <2>4. \A j \in 1..k : s[j] = t[j]
    BY <1>1, <1>2, <2>1, <2>2
  <2>. HIDE DEF s, t
  <2>. QED
    BY <2>1, <2>2, <2>3, <2>4, SameList
<1>6. SubSeq(p, 1, Len(p)) = p
  BY <1>1, WholeList
<1>7. Parent(c) = p
  BY <1>1, <1>2, <1>5, <1>6 DEF Parent
<1>8. c # <<>>
  BY <1>1, <1>2
<1>. QED
  BY <1>2, <1>4, <1>5, <1>7, <1>8

LEMMA ParentIs ==
  ASSUME NEW p \in AllPlaces, p # <<>>
  PROVE  /\ Parent(p) \in AllPlaces /\ Len(p) > 0 /\ Len(Parent(p)) = Len(p) - 1 /\ Len(Parent(p)) < MaxHeight
         /\ p[Len(p)] \in 1..MAX_REFS /\ p = Append(Parent(p), p[Len(p)])
<1>. DEFINE q == Parent(p)  c == Append(q, p[Len(p)])
<1>1. p \in Seq(1..MAX_REFS) /\ Len(p) \in 0..MaxHeight /\ p \in [1..Len(p) -> 1..MAX_REFS]
  BY PlaceIs
<1>2. Len(p) > 0
  BY <1>1
<1>3. q \in AllPlaces /\ Len(q) = Len(p) - 1 /\ \A j \in 1..Len(p) - 1 : q[j] = p[j]
  <2>1. Len(p) - 1 \in 0..Len(p)
    BY <1>1, <1>2
  <2>. QED
    BY <2>1, PrefixIs, Zenon DEF Parent
<1>4. Len(q) < MaxHeight /\ p[Len(p)] \in 1..MAX_REFS
  BY <1>1, <1>2, <1>3, UsageAssumption
<1>5. q \in Seq(1..MAX_REFS)
  BY <1>3, PlaceIs
<1>6. p = c
  <2>. HIDE DEF q
  <2>1. /\ c \in Seq(1..MAX_REFS) /\ Len(c) = Len(q) + 1
        /\ c[Len(q) + 1] = p[Len(p)] /\ \A j \in 1..Len(q) : c[j] = q[j]
    BY <1>4, <1>5, OneMore
  <2>. HIDE DEF c
  <2>2. Len(c) = Len(p) /\ \A j \in 1..Len(p) : p[j] = c[j]
    BY <1>1, <1>2, <1>3, <2>1
  <2>. QED
    BY <1>1, <2>1, <2>2, SameList
<1>. QED
  BY <1>2, <1>3, <1>4, <1>6

\* What stands in a place: at the root the tree, below it a reference.
LEMMA AtIs ==
  ASSUME NEW cell
  PROVE  /\ At(cell, <<>>) = cell
         /\ \A p \in AllPlaces : p # <<>> => At(cell, p) = At(cell, Parent(p)).refs[p[Len(p)]]
<1>. DEFINE Step(f, p) == IF p = <<>> THEN cell ELSE f[Parent(p)].refs[p[Len(p)]]
            Upto(f, n) == /\ f = [p \in AllPlaces |-> f[p]]
                          /\ \A p \in AllPlaces : Len(p) < n => f[p] = Step(f, p)
            G == {n \in Nat : \E f : Upto(f, n)}
            at == CHOOSE f : f = [p \in AllPlaces |-> Step(f, p)]
<1>1. 0 \in G
  <2>. DEFINE f == [p \in AllPlaces |-> cell]
  <2>1. \A p \in AllPlaces : ~(Len(p) < 0)
    BY PlaceIs
  <2>2. Upto(f, 0)
    BY <2>1
  <2>. QED
    BY <2>2
<1>2. ASSUME NEW n \in Nat, n \in G
      PROVE  n + 1 \in G
  <2>1. PICK f : Upto(f, n)
    BY <1>2
  <2>. DEFINE g == [p \in AllPlaces |-> IF Len(p) = n THEN Step(f, p) ELSE f[p]]
  <2>2. ASSUME NEW p \in AllPlaces, Len(p) < n + 1
        PROVE  g[p] = Step(g, p)
    <3>1. Len(p) \in Nat /\ (Len(p) = n \/ Len(p) < n)
      BY <2>2, PlaceIs
    <3>2. g[p] = Step(f, p)
      BY <2>1, <3>1
    <3>3. p # <<>> => g[Parent(p)] = f[Parent(p)]
      BY <2>2, <3>1, ParentIs
    <3>. HIDE DEF g
    <3>. QED
      BY <3>2, <3>3
  <2>3. g = [p \in AllPlaces |-> g[p]]
    OBVIOUS
  <2>4. Upto(g, n + 1)
    <3>. HIDE DEF g, Step
    <3>. QED
      BY <2>2, <2>3
  <2>. HIDE DEF Upto
  <2>. QED
    BY <2>4
<1>3. MaxHeight + 1 \in G
  <2>. HIDE DEF G
  <2>1. Nat \subseteq G
    BY <1>1, <1>2, Climb
  <2>. QED
    BY <2>1, UsageAssumption
<1>4. \E f : f = [p \in AllPlaces |-> Step(f, p)]
  <2>1. PICK f : Upto(f, MaxHeight + 1)
    BY <1>3
  <2>2. \A p \in AllPlaces : Len(p) < MaxHeight + 1
    BY PlaceIs, UsageAssumption
  <2>3. f = [p \in AllPlaces |-> Step(f, p)]
    <3>. HIDE DEF Step
    <3>. QED
      BY <2>1, <2>2
  <2>. QED
    BY <2>3
<1>5. at = [p \in AllPlaces |-> Step(at, p)]
  <2>. DEFINE Solves(f) == f = [p \in AllPlaces |-> Step(f, p)]
  <2>1. \E f : Solves(f)
    BY <1>4
  <2>. HIDE DEF Solves
  <2>2. Solves(CHOOSE f : Solves(f))
    BY <2>1
  <2>. QED
    BY <2>2, Zenon DEF Solves
<1>6. \A p : At(cell, p) = at[p]
  BY DEF At
<1>7. \A p \in AllPlaces : at[p] = Step(at, p)
  <2>. HIDE DEF Step, at
  <2>. QED
    BY <1>5
<1>. HIDE DEF at
<1>. QED
  BY <1>6, <1>7, RootPlace

\* The places of a tree: the root, and from each the references of its cell.
LEMMA PlacesAre ==
  ASSUME NEW cell
  PROVE  /\ <<>> \in Places(cell) /\ Places(cell) \subseteq AllPlaces
         /\ \A p \in Places(cell) : p # <<>> =>
              Parent(p) \in Places(cell) /\ p[Len(p)] \in DOMAIN At(cell, Parent(p)).refs
         /\ \A p \in Places(cell), i \in 1..MAX_REFS :
              (Len(p) < MaxHeight /\ i \in DOMAIN At(cell, p).refs) => Append(p, i) \in Places(cell)
<1>. DEFINE ok(p, k) == p[k] \in DOMAIN At(cell, SubSeq(p, 1, k - 1)).refs
<1>1. \A p : p \in Places(cell) <=> p \in AllPlaces /\ \A k \in 1..Len(p) : ok(p, k)
  <2>1. \A p \in AllPlaces : DOMAIN p = 1..Len(p)
    BY PlaceIs
  <2>. QED
    BY <2>1 DEF Places
<1>2. <<>> \in Places(cell)
  BY <1>1, RootPlace
<1>3. ASSUME NEW p \in Places(cell), p # <<>>
      PROVE  Parent(p) \in Places(cell) /\ p[Len(p)] \in DOMAIN At(cell, Parent(p)).refs
  <2>. DEFINE q == Parent(p)
  <2>1. p \in AllPlaces /\ Len(p) \in Nat /\ Len(p) > 0 /\ q \in AllPlaces /\ Len(q) = Len(p) - 1
    BY <1>1, <1>3, ParentIs, PlaceIs
  <2>2. p = Append(q, p[Len(p)]) /\ p[Len(p)] \in 1..MAX_REFS /\ Len(q) < MaxHeight
    BY <1>3, <2>1, ParentIs, Zenon
  <2>3. \A k \in 0..Len(q) : SubSeq(p, 1, k) = SubSeq(q, 1, k)
    <3>. HIDE DEF q
    <3>. QED
      BY <2>1, <2>2, ChildIs
  <2>4. \A k \in 1..Len(q) : q[k] = p[k]
    <3>1. Len(p) - 1 \in 0..Len(p)
      BY <2>1
    <3>. QED
      BY <2>1, <3>1, PrefixIs DEF Parent
  <2>5. ASSUME NEW k \in 1..Len(q)
        PROVE  ok(q, k)
    <3>1. k - 1 \in 0..Len(q) /\ k \in 1..Len(p)
      BY <2>1
    <3>2. ok(p, k)
      BY <1>1, <1>3, <3>1
    <3>. QED
      BY <2>3, <2>4, <3>1, <3>2, Zenon
  <2>6. ok(p, Len(p))
    BY <1>1, <1>3, <2>1
  <2>. QED
    BY <1>1, <2>1, <2>5, <2>6, Zenon DEF Parent
<1>4. ASSUME NEW p \in Places(cell), NEW i \in 1..MAX_REFS, Len(p) < MaxHeight, i \in DOMAIN At(cell, p).refs
      PROVE  Append(p, i) \in Places(cell)
  <2>. DEFINE c == Append(p, i)
  <2>1. /\ p \in AllPlaces /\ c \in AllPlaces /\ Len(c) = Len(p) + 1 /\ Len(p) \in Nat /\ c[Len(c)] = i
        /\ \A k \in 0..Len(p) : SubSeq(c, 1, k) = SubSeq(p, 1, k)
    BY <1>1, <1>4, ChildIs, PlaceIs
  <2>2. SubSeq(p, 1, Len(p)) = p /\ p \in Seq(1..MAX_REFS)
    BY <2>1, PlaceIs, WholeList
  <2>3. \A k \in 1..Len(p) : c[k] = p[k]
    BY <2>2, OneMore
  <2>. HIDE DEF c
  <2>4. ASSUME NEW k \in 1..Len(c)
        PROVE  ok(c, k)
    <3>1. CASE k \in 1..Len(p)
      <4>1. k - 1 \in 0..Len(p)
        BY <2>1, <3>1
      <4>. QED
        BY <1>1, <1>4, <2>1, <2>3, <3>1, <4>1, Zenon
    <3>2. CASE k = Len(p) + 1
      <4>1. k - 1 = Len(p) /\ Len(p) \in 0..Len(p)
        BY <2>1, <3>2
      <4>. QED
        BY <1>4, <2>1, <2>2, <3>2, <4>1, Zenon
    <3>. QED
      BY <2>1, <3>1, <3>2
  <2>. QED
    BY <1>1, <2>1, <2>4, Zenon DEF c
<1>. QED
  BY <1>1, <1>2, <1>3, <1>4

-----------------------------------------------------------------------------
(* The cut.                                                                *)

\* The lowest index opens at level zero, where no level is applied.
LEMMA OpensBottom ==
  ASSUME NEW mask \in SUBSET Levels
  PROVE  /\ applied_mask(mask, 0) = {} /\ hash_index(mask, 0) = 0
         /\ Opens(mask, 1) = 0 /\ 1 \in 1..Cardinality(mask) + 1
<1>1. applied_mask(mask, 0) = {}
  <2>1. \A l \in mask : l \in Nat /\ ~(l <= 0)
    BY DEF Levels
  <2>. QED
    BY <2>1 DEF applied_mask
<1>2. hash_index(mask, 0) = 0
  BY <1>1, FS_EmptySet DEF hash_index
<1>3. \A l \in 0..3 : (\A k \in 0..l - 1 : hash_index(mask, k) # 1 - 1) => l = 0
  BY <1>2
<1>4. 0 \in 0..3 /\ hash_index(mask, 0) = 1 - 1 /\ \A k \in 0..0 - 1 : hash_index(mask, k) # 1 - 1
  BY <1>2
<1>5. Opens(mask, 1) = 0
  BY <1>3, <1>4 DEF Opens
<1>. QED
  BY <1>1, <1>2, <1>5, MaskIsFinite

\* So at level zero an identity answers with its first hash and depth.
LEMMA BottomHash ==
  ASSUME NEW id, id.mask \in SUBSET Levels
  PROVE  hash_at(id, 0) = id.hashes[1] /\ depth_at(id, 0) = id.depths[1]
<1>. DEFINE n == Cardinality(id.mask) + 1
<1>1. n \in Nat /\ n >= 1 /\ count(id) = n
  BY MaskIsFinite DEF count
<1>2. hash_index(id.mask, 0) + 1 = 1
  BY OpensBottom
<1>3. Min({1, n}) = 1
  <2>. HIDE DEF n
  <2>. QED
    BY <1>1 DEF Min
<1>4. AtLevel(id, 0) = 1
  BY <1>1, <1>2, <1>3 DEF AtLevel
<1>. QED
  BY <1>4 DEF hash_at, depth_at

IsList(f, n) == f = [i \in 1..n |-> f[i]]
HashOver(n, data, refs) ==
  Sum(<<n, FALSE, {}>>, data, [i \in 1..n |-> depth(refs[i])], [i \in 1..n |-> hash(refs[i])])
DepthOver(n, refs) == Max({0} \cup {depth(refs[i]) + 1 : i \in 1..n})

\* An ordinary cell as Builder::build makes it, and what it answers with at
\* level zero: a hash over its data and over its children at level zero.
LEMMA LevelZero ==
  ASSUME NEW data, NEW n \in 0..MAX_REFS, NEW refs, IsList(refs, n), Union(refs) \in SUBSET Levels
  PROVE  LET c == Ordinary(data, refs)
         IN /\ c.type = "Ordinary" /\ c.data = data /\ c.refs = refs /\ c.id.mask = Union(refs)
            /\ hash(c) = HashOver(n, data, refs) /\ depth(c) = DepthOver(n, refs)
<1>. DEFINE mask == Union(refs)
            ids == Ids(refs)
            id == DeriveIdentity(data, ids, "Ordinary", mask)
            c == Ordinary(data, refs)
<1>1. n \in Nat /\ DOMAIN refs = 1..n
  BY DEF MAX_REFS, IsList
<1>2. ids = [i \in 1..n |-> refs[i].id]
  BY <1>1 DEF Ids
<1>3. Len(ids) = n
  <2>. DEFINE R == {refs[i].id : i \in 1..n}
  <2>1. ids \in [1..n -> R]
    BY <1>2
  <2>. HIDE DEF ids, R
  <2>. QED
    BY <1>1, <2>1, ListOf
<1>4. mask = UNION {ids[i].mask : i \in DOMAIN ids}
  <2>1. DOMAIN ids = 1..n /\ \A i \in 1..n : ids[i].mask = refs[i].id.mask
    BY <1>2
  <2>2. {ids[i].mask : i \in DOMAIN ids} = {refs[i].id.mask : i \in DOMAIN refs}
    <3>. HIDE DEF ids
    <3>. QED
      BY <1>1, <2>1
  <2>. QED
    BY <2>2, Zenon DEF Union
<1>5. c = [type |-> "Ordinary", data |-> data, refs |-> refs, id |-> id]
  <2>1. implied_mask("Ordinary", mask, mask) = mask
    BY DEF implied_mask, is_merkle
  <2>2. summarize(data, ids, "Ordinary", mask).ok /\ summarize(data, ids, "Ordinary", mask).id = id
    <3>1. compute(data, ids, "Ordinary", mask) = id
      BY DEF compute
    <3>. HIDE DEF mask, ids, id
    <3>. QED
      BY <1>4, <2>1, <3>1, Zenon DEF summarize
  <2>3. from_parts(data, refs, "Ordinary", mask).cell = [type |-> "Ordinary", data |-> data, refs |-> refs, id |-> id]
    <3>. HIDE DEF mask, id
    <3>. QED
      BY <2>2 DEF from_parts
  <2>. HIDE DEF id
  <2>. QED
    BY <2>3 DEF Ordinary
<1>6. id.mask = mask
  BY DerivedHashes
<1>7. Opens(mask, 1) = 0 /\ 1 \in 1..Cardinality(mask) + 1 /\ applied_mask(mask, 0) = {}
  BY OpensBottom
<1>8. /\ RefDepths(ids, "Ordinary", 0) = [i \in 1..n |-> depth(refs[i])]
      /\ RefHashes(ids, "Ordinary", 0) = [i \in 1..n |-> hash(refs[i])]
  <2>1. Up("Ordinary", 0) = 0
    BY DEF Up, is_merkle
  <2>. QED
    BY <1>2, <2>1 DEF RefDepths, RefHashes, depth, hash
<1>9. hash(c) = Sum(<<n, FALSE, {}>>, data, [i \in 1..n |-> depth(refs[i])], [i \in 1..n |-> hash(refs[i])])
  <2>1. id.hashes[1] = Sum(refs_descriptor(Len(ids), "Ordinary" # "Ordinary", mask, Opens(mask, 1)),
                           IF 1 = 1 THEN data ELSE id.hashes[1 - 1],
                           RefDepths(ids, "Ordinary", Opens(mask, 1)), RefHashes(ids, "Ordinary", Opens(mask, 1)))
    <3>. HIDE DEF mask, ids
    <3>. QED
      BY <1>7, DerivedHashes DEF mask
  <2>2. refs_descriptor(Len(ids), "Ordinary" # "Ordinary", mask, 0) = <<n, FALSE, {}>>
    BY <1>3, <1>7, Zenon DEF refs_descriptor
  <2>3. hash(c) = id.hashes[1]
    <3>. HIDE DEF id
    <3>. QED
      BY <1>5, <1>6, BottomHash DEF hash
  <2>. HIDE DEF id, ids, mask, c
  <2>. QED
    BY <1>7, <1>8, <2>1, <2>2, <2>3, Zenon
<1>10. depth(c) = Max({0} \cup {depth(refs[i]) + 1 : i \in 1..n})
  <2>1. id.depths[1] = Max({0} \cup {RefDepths(ids, "Ordinary", Opens(mask, 1))[r] + 1 : r \in DOMAIN ids})
    <3>. HIDE DEF mask, ids
    <3>. QED
      BY <1>7 DEF DeriveIdentity, Opens, Up, RefDepths
  <2>2. depth(c) = id.depths[1]
    <3>. HIDE DEF id
    <3>. QED
      BY <1>5, <1>6, BottomHash DEF depth
  <2>3. \A r \in 1..n : RefDepths(ids, "Ordinary", 0)[r] = depth(refs[r])
    BY <1>8
  <2>4. DOMAIN ids = 1..n
    BY <1>2
  <2>5. {RefDepths(ids, "Ordinary", Opens(mask, 1))[r] + 1 : r \in DOMAIN ids} = {depth(refs[i]) + 1 : i \in 1..n}
    <3>. HIDE DEF ids, mask
    <3>. QED
      BY <1>7, <2>3, <2>4
  <2>. HIDE DEF id, ids, mask, c
  <2>. QED
    BY <2>1, <2>2, <2>5, Zenon
<1>11. c.type = "Ordinary" /\ c.data = data /\ c.refs = refs /\ c.id.mask = mask
  <2>. HIDE DEF id
  <2>. QED
    BY <1>5, <1>6
<1>. HIDE DEF c
<1>. QED
  BY <1>9, <1>10, <1>11 DEF c, HashOver, DepthOver

\* A pruned branch is there for every cell, and answers for it at level zero.
LEMMA BranchAnswers ==
  ASSUME NEW cell
  PROVE  LET b == pruned_branch(cell)
         IN /\ b.ok /\ b = Some(b.cell) /\ b.cell.type = "PrunedBranch" /\ b.cell.refs = <<>> /\ b.cell.id.mask = {1}
            /\ hash(b.cell) = hash(cell) /\ depth(b.cell) = depth(cell)
<1>. DEFINE data == <<"PrunedBranch", {1}, <<hash(cell)>>, <<depth(cell)>>>>
            id == PrunedIdentity(data, {1})
            b == pruned_branch(cell)
<1>1. b = [ok |-> TRUE, cell |-> [type |-> "PrunedBranch", data |-> data, refs |-> <<>>, id |-> id]]
  <2>1. compute(data, Ids(<<>>), "PrunedBranch", {1}) = id
    BY DEF compute
  <2>2. \A m : implied_mask("PrunedBranch", m, {1}) = {1}
    BY DEF implied_mask, is_merkle
  <2>3. LET known == summarize(data, Ids(<<>>), "PrunedBranch", {1}) IN known.ok /\ known.id = id
    <3>. HIDE DEF id, data
    <3>. QED
      BY <2>1, <2>2 DEF summarize
  <2>4. from_parts(data, <<>>, "PrunedBranch", {1}) =
          [ok |-> TRUE, cell |-> [type |-> "PrunedBranch", data |-> data, refs |-> <<>>, id |-> id]]
    <3>. HIDE DEF id, data
    <3>. QED
      BY <2>3, Zenon DEF from_parts
  <2>. HIDE DEF id
  <2>. QED
    BY <2>4 DEF pruned_branch
<1>2. id.mask = {1} /\ {1} \in SUBSET Levels
  BY DEF PrunedIdentity, Levels
<1>3. id.hashes[1] = hash(cell) /\ id.depths[1] = depth(cell)
  <2>1. ASSUME NEW x, NEW y
        PROVE  Append(<<x>>, y)[1] = x
    <3>1. <<x>> \in Seq({x, y}) /\ y \in {x, y} /\ Len(<<x>>) = 1
      OBVIOUS
    <3>2. \A j \in 1..1 : Append(<<x>>, y)[j] = <<x>>[j]
      BY <3>1, OneMore
    <3>. QED
      BY <3>2
  <2>2. data[3] = <<hash(cell)>> /\ data[4] = <<depth(cell)>>
    OBVIOUS
  <2>. HIDE DEF data
  <2>. QED
    BY <2>1, <2>2 DEF PrunedIdentity
<1>4. hash_at(id, 0) = hash(cell) /\ depth_at(id, 0) = depth(cell)
  <2>. HIDE DEF id
  <2>. QED
    BY <1>2, <1>3, BottomHash
<1>5. hash(b.cell) = hash_at(id, 0) /\ depth(b.cell) = depth_at(id, 0)
  BY <1>1 DEF hash, depth
<1>. HIDE DEF id, data
<1>. QED
  BY <1>1, <1>2, <1>4, <1>5 DEF Some

\* A tree of cells as they are built.
WholeTree(cell) == \A p \in Places(cell) : WellBuilt(At(cell, p), p)

\* What UsageTree::prune_cell makes of the cell in one place.
CutStep(cell, keep, cut, p) ==
  LET node == At(cell, p)
  IN IF repr_hash(node) \notin keep THEN pruned_branch(node)
     ELSE IF node.type # "Ordinary" THEN Nothing
     ELSE Rebuilt(node, [i \in DOMAIN node.refs |-> cut[Append(p, i)]])
Cut(cell, keep) == CHOOSE cut : cut = [p \in Places(cell) |-> CutStep(cell, keep, cut, p)]

LEMMA ChildPlace ==
  ASSUME NEW cell, WholeTree(cell), NEW p \in Places(cell), NEW i \in DOMAIN At(cell, p).refs
  PROVE  LET c == Append(p, i)
         IN /\ c \in Places(cell) /\ c # <<>> /\ c[Len(c)] = i /\ Parent(c) = p
            /\ p \in AllPlaces /\ i \in 1..MAX_REFS /\ Len(p) < MaxHeight
            /\ Len(c) = Len(p) + 1 /\ Len(p) \in Nat /\ At(cell, c) = At(cell, p).refs[i]
<1>. DEFINE c == Append(p, i)
<1>1. p \in AllPlaces /\ Len(p) \in 0..MaxHeight
  BY PlacesAre, PlaceIs
<1>2. WellBuilt(At(cell, p), p)
  BY DEF WholeTree
<1>3. Len(p) < MaxHeight /\ i \in 1..MAX_REFS
  <2>1. PICK n \in 0..MAX_REFS : DOMAIN At(cell, p).refs = 1..n
    BY <1>2 DEF WellBuilt
  <2>2. i \in 1..MAX_REFS
    BY <2>1 DEF MAX_REFS
  <2>3. At(cell, p).refs # <<>>
    OBVIOUS
  <2>4. Len(p) # MaxHeight
    BY <1>2, <2>3 DEF WellBuilt
  <2>. QED
    BY <1>1, <2>2, <2>4, UsageAssumption
<1>4. c \in AllPlaces /\ Len(c) = Len(p) + 1 /\ c # <<>> /\ c[Len(c)] = i /\ Parent(c) = p
  BY <1>1, <1>3, ChildIs
<1>5. c \in Places(cell)
  BY <1>3, PlacesAre
<1>6. At(cell, c) = At(cell, p).refs[i]
  <2>. HIDE DEF c
  <2>. QED
    BY <1>4, AtIs, Zenon
<1>. QED
  BY <1>1, <1>3, <1>4, <1>5, <1>6

\* From the leaves up: what holds in a place when it holds in those below.
LEMMA FromTheLeaves ==
  ASSUME NEW cell, WholeTree(cell), NEW S,
         \A p \in Places(cell) : (\A i \in DOMAIN At(cell, p).refs : Append(p, i) \in S) => p \in S
  PROVE  Places(cell) \subseteq S
<1>. DEFINE G == {n \in Nat : \A p \in Places(cell) : Len(p) + n > MaxHeight => p \in S}
<1>1. \A p \in Places(cell) : Len(p) \in 0..MaxHeight
  BY PlacesAre, PlaceIs
<1>2. 0 \in G
  BY <1>1, UsageAssumption
<1>3. ASSUME NEW n \in Nat, n \in G
      PROVE  n + 1 \in G
  <2>. SUFFICES ASSUME NEW p \in Places(cell), Len(p) + (n + 1) > MaxHeight
                PROVE  p \in S
    OBVIOUS
  <2>1. ASSUME NEW i \in DOMAIN At(cell, p).refs
        PROVE  Append(p, i) \in S
    <3>1. Append(p, i) \in Places(cell) /\ Len(Append(p, i)) = Len(p) + 1 /\ Len(p) \in Nat
      BY ChildPlace
    <3>2. Len(Append(p, i)) + n > MaxHeight
      BY <3>1, UsageAssumption
    <3>. QED
      BY <1>3, <3>1, <3>2, Zenon
  <2>. QED
    BY <2>1
<1>4. Nat \subseteq G
  <2>. HIDE DEF G
  <2>. QED
    BY <1>2, <1>3, Climb
<1>5. MaxHeight + 1 \in G
  <2>. HIDE DEF G
  <2>. QED
    BY <1>4, UsageAssumption
<1>6. ASSUME NEW p \in Places(cell)
      PROVE  p \in S
  <2>1. Len(p) + (MaxHeight + 1) > MaxHeight
    BY <1>1, UsageAssumption
  <2>. QED
    BY <1>5, <2>1
<1>. QED
  BY <1>6

\* The recursion of prune_cell is well defined.
LEMMA CutIs ==
  ASSUME NEW cell, WholeTree(cell), NEW keep
  PROVE  /\ prune_cell(cell, keep) = Cut(cell, keep)[<<>>]
         /\ \A p \in Places(cell) : Cut(cell, keep)[p] = CutStep(cell, keep, Cut(cell, keep), p)
<1>. DEFINE P == Places(cell)
            Step(f, p) == CutStep(cell, keep, f, p)
            Upto(f, n) == /\ f = [p \in P |-> f[p]]
                          /\ \A p \in P : Len(p) + n > MaxHeight => f[p] = Step(f, p)
            G == {n \in Nat : \E f : Upto(f, n)}
            Solves(f) == f = [p \in P |-> Step(f, p)]
<1>1. \A p \in P : Len(p) \in 0..MaxHeight
  BY PlacesAre, PlaceIs
<1>2. 0 \in G
  <2>. DEFINE f == [p \in P |-> cell]
  <2>1. \A p \in P : ~(Len(p) + 0 > MaxHeight)
    BY <1>1, UsageAssumption
  <2>2. Upto(f, 0)
    <3>. HIDE DEF Step
    <3>. QED
      BY <2>1
  <2>. QED
    BY <2>2
<1>3. ASSUME NEW f, NEW g, NEW p \in P, \A i \in DOMAIN At(cell, p).refs : f[Append(p, i)] = g[Append(p, i)]
      PROVE  Step(f, p) = Step(g, p)
  <2>1. [i \in DOMAIN At(cell, p).refs |-> f[Append(p, i)]] = [i \in DOMAIN At(cell, p).refs |-> g[Append(p, i)]]
    BY <1>3
  <2>. QED
    BY <2>1 DEF CutStep
<1>4. ASSUME NEW n \in Nat, n \in G
      PROVE  n + 1 \in G
  <2>1. PICK f : Upto(f, n)
    BY <1>4
  <2>. DEFINE g == [p \in P |-> IF Len(p) + n > MaxHeight THEN f[p] ELSE Step(f, p)]
  <2>2. ASSUME NEW p \in P, Len(p) + (n + 1) > MaxHeight
        PROVE  g[p] = Step(g, p)
    <3>1. g[p] = Step(f, p)
      <4>. HIDE DEF Step
      <4>. QED
        BY <2>1
    <3>2. ASSUME NEW i \in DOMAIN At(cell, p).refs
          PROVE  f[Append(p, i)] = g[Append(p, i)]
      <4>1. Append(p, i) \in P /\ Len(Append(p, i)) = Len(p) + 1 /\ Len(p) \in Nat
        BY ChildPlace
      <4>2. Len(Append(p, i)) + n > MaxHeight
        BY <2>2, <4>1, UsageAssumption
      <4>. HIDE DEF Step
      <4>. QED
        BY <4>1, <4>2
    <3>. HIDE DEF g, Step
    <3>. QED
      BY <1>3, <3>1, <3>2
  <2>3. g = [p \in P |-> g[p]]
    OBVIOUS
  <2>4. Upto(g, n + 1)
    <3>. HIDE DEF g, Step, P
    <3>. QED
      BY <2>2, <2>3
  <2>. HIDE DEF Upto
  <2>. QED
    BY <2>4
<1>5. MaxHeight + 1 \in G
  <2>. HIDE DEF G
  <2>1. Nat \subseteq G
    BY <1>2, <1>4, Climb
  <2>. QED
    BY <2>1, UsageAssumption
<1>6. \E f : Solves(f)
  <2>1. PICK f : Upto(f, MaxHeight + 1)
    BY <1>5
  <2>2. \A p \in P : Len(p) + (MaxHeight + 1) > MaxHeight
    BY <1>1, UsageAssumption
  <2>3. Solves(f)
    <3>. HIDE DEF Step, P
    <3>. QED
      BY <2>1, <2>2
  <2>. QED
    BY <2>3
<1>7. Solves(Cut(cell, keep))
  <2>1. Cut(cell, keep) = CHOOSE f : Solves(f)
    BY DEF Cut
  <2>. HIDE DEF Solves
  <2>. QED
    BY <1>6, <2>1
<1>8. prune_cell(cell, keep) = Cut(cell, keep)[<<>>]
  BY DEF prune_cell, Cut, CutStep
<1>9. \A p \in P : Cut(cell, keep)[p] = Step(Cut(cell, keep), p)
  <2>. HIDE DEF Step, P
  <2>. QED
    BY <1>7
<1>. QED
  BY <1>8, <1>9

\* A kept cell that was not refused is rebuilt over the cuts of its children.
LEMMA KeptIs ==
  ASSUME NEW cell, WholeTree(cell), NEW keep, NEW p \in Places(cell), repr_hash(At(cell, p)) \in keep,
         Cut(cell, keep)[p].ok
  PROVE  LET node == At(cell, p)
             cut == Cut(cell, keep)
         IN /\ node.type = "Ordinary"
            /\ \A i \in DOMAIN node.refs : cut[Append(p, i)].ok
            /\ cut[p] = Some(Ordinary(node.data, [i \in DOMAIN node.refs |-> cut[Append(p, i)].cell]))
<1>. DEFINE node == At(cell, p)
            cut == Cut(cell, keep)
            kids == [i \in DOMAIN node.refs |-> cut[Append(p, i)]]
<1>1. cut[p] = IF node.type # "Ordinary" THEN Nothing ELSE Rebuilt(node, kids)
  BY CutIs DEF CutStep
<1>2. node.type = "Ordinary" /\ cut[p] = Rebuilt(node, kids)
  BY <1>1 DEF Nothing
<1>3. DOMAIN kids = DOMAIN node.refs /\ \A i \in DOMAIN node.refs : kids[i] = cut[Append(p, i)]
  OBVIOUS
<1>. HIDE DEF kids
<1>4. \A i \in DOMAIN kids : kids[i].ok
  BY <1>2 DEF Rebuilt, Nothing
<1>5. cut[p] = Some(Ordinary(node.data, [i \in DOMAIN kids |-> kids[i].cell]))
  BY <1>2, <1>4 DEF Rebuilt
<1>6. [i \in DOMAIN kids |-> kids[i].cell] = [i \in DOMAIN node.refs |-> cut[Append(p, i)].cell]
  BY <1>3
<1>. QED
  BY <1>2, <1>3, <1>4, <1>5, <1>6

\* Two ordinary cells of the same data whose children answer alike at level
\* zero answer alike.
Alike(n, refs, others) ==
  \A i \in 1..n : /\ refs[i].id.mask \in SUBSET Levels /\ others[i].id.mask \in SUBSET Levels
                  /\ hash(refs[i]) = hash(others[i]) /\ depth(refs[i]) = depth(others[i])

StandIn(data, refs, others) ==
  LET c == Ordinary(data, refs)
      d == Ordinary(data, others)
  IN /\ hash(c) = hash(d) /\ depth(c) = depth(d)
     /\ c.id.mask = Union(refs) /\ d.id.mask = Union(others) /\ c.id.mask \in SUBSET Levels

LEMMA Congruent ==
  ASSUME NEW data, NEW n \in 0..MAX_REFS, NEW refs, NEW others,
         IsList(refs, n), IsList(others, n), Alike(n, refs, others)
  PROVE  StandIn(data, refs, others)
<1>1. DOMAIN refs = 1..n /\ DOMAIN others = 1..n
  BY DEF IsList
<1>2. Union(refs) \in SUBSET Levels /\ Union(others) \in SUBSET Levels
  BY <1>1 DEF Union, Alike
<1>3. HashOver(n, data, refs) = HashOver(n, data, others)
  <2>1. /\ [i \in 1..n |-> hash(refs[i])] = [i \in 1..n |-> hash(others[i])]
        /\ [i \in 1..n |-> depth(refs[i])] = [i \in 1..n |-> depth(others[i])]
    BY DEF Alike
  <2>. QED
    BY <2>1 DEF HashOver
<1>4. DepthOver(n, refs) = DepthOver(n, others)
  <2>1. {depth(refs[i]) + 1 : i \in 1..n} = {depth(others[i]) + 1 : i \in 1..n}
    BY DEF Alike
  <2>. QED
    BY <2>1 DEF DepthOver
<1>. QED
  BY <1>2, <1>3, <1>4, LevelZero DEF StandIn

\* The cut in a place answers at level zero for the cell that stands there,
\* and stands at its level if every cell is kept.
Answers(cell, keep, p) ==
  LET c == Cut(cell, keep)[p]
      node == At(cell, p)
  IN c.ok =>
       /\ c = Some(c.cell) /\ c.cell.id.mask \in SUBSET Levels
       /\ hash(c.cell) = hash(node) /\ depth(c.cell) = depth(node)
       /\ (\A q \in Places(cell) : repr_hash(At(cell, q)) \in keep) => c.cell.id.mask = node.id.mask

LEMMA CutAnswers ==
  ASSUME NEW cell, WholeTree(cell), NEW keep
  PROVE  \A p \in Places(cell) : Answers(cell, keep, p)
<1>. DEFINE S == {p \in Places(cell) : Answers(cell, keep, p)}
            cut == Cut(cell, keep)
            All == \A q \in Places(cell) : repr_hash(At(cell, q)) \in keep
<1>1. ASSUME NEW p \in Places(cell), \A i \in DOMAIN At(cell, p).refs : Append(p, i) \in S
      PROVE  Answers(cell, keep, p)
  <2>. DEFINE node == At(cell, p)
  <2>1. CASE repr_hash(node) \notin keep
    <3>1. cut[p] = pruned_branch(node)
      BY <2>1, CutIs, Zenon DEF CutStep
    <3>2. {1} \in SUBSET Levels
      BY DEF Levels
    <3>3. ~All
      BY <2>1
    <3>. HIDE DEF All, cut, node
    <3>. QED
      BY <3>1, <3>2, <3>3, BranchAnswers DEF Answers, All, cut, node
  <2>2. CASE repr_hash(node) \in keep
    <3>. SUFFICES ASSUME cut[p].ok
                  PROVE  /\ cut[p] = Some(cut[p].cell) /\ cut[p].cell.id.mask \in SUBSET Levels
                         /\ hash(cut[p].cell) = hash(node) /\ depth(cut[p].cell) = depth(node)
                         /\ All => cut[p].cell.id.mask = node.id.mask
      BY DEF Answers
    <3>. DEFINE kids == [i \in DOMAIN node.refs |-> cut[Append(p, i)].cell]
                new == Ordinary(node.data, kids)
    <3>1. /\ node.type = "Ordinary" /\ \A i \in DOMAIN node.refs : cut[Append(p, i)].ok
          /\ cut[p] = Some(new)
      BY <2>2, KeptIs
    <3>2. WellBuilt(node, p)
      BY DEF WholeTree
    <3>3. PICK n \in 0..MAX_REFS : DOMAIN node.refs = 1..n
      BY <3>2 DEF WellBuilt
    <3>4. node.refs = [i \in 1..n |-> node.refs[i]] /\ node = Ordinary(node.data, node.refs)
      BY <3>1, <3>2, <3>3 DEF WellBuilt
    <3>5. ASSUME NEW i \in 1..n
          PROVE  /\ node.refs[i].id.mask \in SUBSET Levels /\ kids[i].id.mask \in SUBSET Levels
                 /\ hash(kids[i]) = hash(node.refs[i]) /\ depth(kids[i]) = depth(node.refs[i])
                 /\ All => kids[i].id.mask = node.refs[i].id.mask
      <4>1. i \in DOMAIN node.refs
        BY <3>3
      <4>2. Append(p, i) \in Places(cell) /\ At(cell, Append(p, i)) = node.refs[i]
        BY <4>1, ChildPlace
      <4>3. WellBuilt(node.refs[i], Append(p, i))
        BY <4>2 DEF WholeTree
      <4>4. Answers(cell, keep, Append(p, i)) /\ cut[Append(p, i)].ok
        BY <1>1, <3>1, <4>1
      <4>5. kids[i] = cut[Append(p, i)].cell
        BY <4>1
      <4>. HIDE DEF kids, node
      <4>. QED
        BY <4>2, <4>3, <4>4, <4>5 DEF Answers, WellBuilt
    <3>6. IsList(kids, n) /\ IsList(node.refs, n)
      BY <3>3, <3>4 DEF IsList
    <3>7. /\ hash(new) = hash(Ordinary(node.data, node.refs)) /\ depth(new) = depth(Ordinary(node.data, node.refs))
          /\ new.id.mask = Union(kids) /\ Ordinary(node.data, node.refs).id.mask = Union(node.refs)
          /\ new.id.mask \in SUBSET Levels
      <4>. HIDE DEF kids, node
      <4>1. Alike(n, kids, node.refs)
        BY <3>5 DEF Alike
      <4>2. StandIn(node.data, kids, node.refs)
        BY <3>6, <4>1, Congruent, Zenon
      <4>. QED
        BY <4>2 DEF StandIn
    <3>8. All => Union(kids) = Union(node.refs)
      <4>. HIDE DEF All, node
      <4>1. DOMAIN kids = 1..n
        BY <3>3
      <4>. HIDE DEF kids
      <4>. SUFFICES ASSUME All PROVE Union(kids) = Union(node.refs)
        OBVIOUS
      <4>2. {kids[i].id.mask : i \in 1..n} = {node.refs[i].id.mask : i \in 1..n}
        BY <3>5
      <4>. QED
        BY <3>3, <4>1, <4>2, Zenon DEF Union
    <3>. HIDE DEF new, node, All, cut, kids
    <3>. QED
      BY <3>1, <3>4, <3>7, <3>8 DEF Some
  <2>. QED
    BY <2>1, <2>2
<1>2. Places(cell) \subseteq S
  <2>1. \A p \in Places(cell) : (\A i \in DOMAIN At(cell, p).refs : Append(p, i) \in S) => p \in S
    BY <1>1
  <2>. HIDE DEF S
  <2>. QED
    BY <2>1, FromTheLeaves
<1>. QED
  BY <1>2

\* A kept cell is shown as it is, over the cuts of its children.
LEMMA KeptShows ==
  ASSUME NEW cell, WholeTree(cell), NEW keep, NEW p \in Places(cell), repr_hash(At(cell, p)) \in keep,
         Cut(cell, keep)[p].ok
  PROVE  LET node == At(cell, p)
             cut == Cut(cell, keep)
         IN /\ node.type = "Ordinary" /\ cut[p].cell.type = "Ordinary" /\ cut[p].cell.data = node.data
            /\ DOMAIN cut[p].cell.refs = DOMAIN node.refs
            /\ \A i \in DOMAIN node.refs :
                 cut[Append(p, i)].ok /\ cut[p].cell.refs[i] = cut[Append(p, i)].cell
<1>. DEFINE node == At(cell, p)
            cut == Cut(cell, keep)
            kids == [i \in DOMAIN node.refs |-> cut[Append(p, i)].cell]
<1>1. /\ node.type = "Ordinary" /\ \A i \in DOMAIN node.refs : cut[Append(p, i)].ok
      /\ cut[p] = Some(Ordinary(node.data, kids))
  BY KeptIs
<1>2. PICK n \in 0..MAX_REFS : DOMAIN node.refs = 1..n
  BY Zenon DEF WholeTree, WellBuilt
<1>3. IsList(kids, n) /\ DOMAIN kids = DOMAIN node.refs
  BY <1>2 DEF IsList
<1>4. ASSUME NEW i \in DOMAIN node.refs
      PROVE  kids[i] = cut[Append(p, i)].cell /\ kids[i].id.mask \in SUBSET Levels
  <2>1. Append(p, i) \in Places(cell)
    BY ChildPlace
  <2>2. Answers(cell, keep, Append(p, i))
    BY <2>1, CutAnswers
  <2>. QED
    BY <1>1, <2>2 DEF Answers
<1>5. Union(kids) \in SUBSET Levels
  <2>. HIDE DEF kids
  <2>. QED
    BY <1>3, <1>4 DEF Union
<1>6. LET c == Ordinary(node.data, kids) IN c.type = "Ordinary" /\ c.data = node.data /\ c.refs = kids
  <2>. HIDE DEF kids, node
  <2>. QED
    BY <1>3, <1>5, LevelZero
<1>7. cut[p].cell = Ordinary(node.data, kids)
  BY <1>1 DEF Some
<1>. HIDE DEF kids, node, cut
<1>. QED
  BY <1>1, <1>3, <1>4, <1>6, <1>7 DEF node, cut

LEMMA KeptData ==
  ASSUME NEW cell, WholeTree(cell), NEW keep, NEW p \in Places(cell), repr_hash(At(cell, p)) \in keep,
         Cut(cell, keep)[p].ok
  PROVE  Cut(cell, keep)[p].cell.type = "Ordinary" /\ Cut(cell, keep)[p].cell.data = At(cell, p).data
BY KeptShows

\* A proof made of an ordinary tree reads back as that tree (create_proof,
\* virtualize).
LEMMA ProofReadsBack ==
  ASSUME NEW c, c.type = "Ordinary"
  PROVE  create_proof(c).ok /\ virtualize(create_proof(c).cell) = Some(c)
<1>. DEFINE covered == <<c>>
            hs == [i \in DOMAIN covered |-> hash(covered[i])]
            ds == [i \in DOMAIN covered |-> depth(covered[i])]
            data == <<"MerkleProof">> \o hs \o ds
            mask == Lowered(Union(covered))
            proof == create_proof(c)
<1>1. DOMAIN covered = 1..1 /\ covered[1] = c /\ covered # <<>>
  OBVIOUS
<1>2. hs = <<hash(c)>> /\ ds = <<depth(c)>>
  BY <1>1
<1>3. Len(data) = 3 /\ data[2] = hash(c) /\ data[3] = depth(c)
  <2>1. data = <<"MerkleProof">> \o <<hash(c)>> \o <<depth(c)>>
    BY <1>2
  <2>. QED
    BY <2>1, ThreeInARow
<1>4. proof = from_parts(data, covered, "MerkleProof", mask)
  <2>1. ~ \E i \in DOMAIN covered : covered[i].type # "Ordinary"
    BY <1>1
  <2>. HIDE DEF hs, ds, mask
  <2>. QED
    BY <2>1 DEF create_proof, covering_cell, hs, ds, mask
<1>5. summarize(data, Ids(covered), "MerkleProof", mask).ok
  <2>1. Ids(covered) = <<c.id>>
    BY <1>1 DEF Ids
  <2>2. UNION {Ids(covered)[i].mask : i \in DOMAIN Ids(covered)} = Union(covered)
    BY <1>1, <2>1 DEF Union
  <2>3. implied_mask("MerkleProof", Union(covered), mask) = mask
    BY DEF implied_mask, is_merkle
  <2>. HIDE DEF data, mask, covered
  <2>. QED
    BY <2>2, <2>3 DEF summarize
<1>6. proof.ok /\ proof.cell.type = "MerkleProof" /\ proof.cell.data = data /\ proof.cell.refs = covered
  <2>. HIDE DEF data, mask, covered, proof
  <2>. QED
    BY <1>4, <1>5 DEF from_parts
<1>. HIDE DEF data, covered, proof
<1>7. virtualize(proof.cell) = Some(c)
  <2>1. ASSUME NEW x, x.type = "MerkleProof", x.refs # <<>>, Len(x.data) >= 3,
               x.data[2] = hash(x.refs[1]), x.data[3] = depth(x.refs[1])
        PROVE  virtualize(x) = Some(x.refs[1])
    BY <2>1 DEF virtualize
  <2>2. Len(proof.cell.data) >= 3 /\ proof.cell.refs # <<>> /\ proof.cell.refs[1] = c
    <3>1. proof.cell.refs # <<>> /\ proof.cell.refs[1] = c
      BY <1>1, <1>6, Zenon
    <3>2. Len(proof.cell.data) = 3
      BY <1>3, <1>6, Zenon
    <3>3. Len(proof.cell.data) >= 3
      BY <3>2
    <3>. QED
      BY <3>1, <3>3, Zenon
  <2>3. proof.cell.data[2] = hash(c) /\ proof.cell.data[3] = depth(c)
    BY <1>3, <1>6
  <2>. QED
    BY <1>6, <2>1, <2>2, <2>3
<1>. QED
  BY <1>6, <1>7 DEF proof

-----------------------------------------------------------------------------
(* Usage trees.                                                            *)

\* The root of a usage tree is marked from the start.
RootIsMarked == root \in Trees /\ repr_hash(root) \in used

LEMMA RootStaysMarked == UsageSpec => []RootIsMarked
<1>1. UsageInit => RootIsMarked
  BY DEF UsageInit, New, RootIsMarked
<1>2. RootIsMarked /\ [UsageNext]_usageVars => RootIsMarked'
  <2>. SUFFICES ASSUME RootIsMarked, [UsageNext]_usageVars PROVE RootIsMarked'
    OBVIOUS
  <2>1. root' = root /\ used \subseteq used'
    <3>1. CASE \E place \in Places(root) : mark(place) \/ note(place)
      BY <3>1 DEF mark, note
    <3>2. CASE \E on \in BOOLEAN : set_tracing(on)
      BY <3>2 DEF set_tracing
    <3>3. CASE EnterScope \/ LeaveScope
      BY <3>3 DEF EnterScope, LeaveScope
    <3>4. CASE \E tree \in Trees : \E place \in Places(tree) : combine(tree, place) \/ mark_path(repr_hash(At(tree, place)))
      BY <3>4 DEF combine, mark_path
    <3>5. CASE UNCHANGED usageVars
      BY <3>5 DEF usageVars
    <3>. QED
      BY <3>1, <3>2, <3>3, <3>4, <3>5 DEF UsageNext
  <2>. QED
    BY <2>1 DEF RootIsMarked
<1>. QED
  BY <1>1, <1>2, PTL DEF UsageSpec

\* Whatever was marked, by hand, by reading, along a path or from another
\* record, and however the trees are shared or already pruned: the cut tree
\* answers with the hash and the depth of the whole one, its proof reads back
\* as it, and it is virtual only where something was withheld
\* (UsageTree::prune, UsageTree::prove, virtualize).
THEOREM CutKeepsTheRoot == UsageSpec => []PruneKeepsTheRoot
<1>1. RootIsMarked => PruneKeepsTheRoot
  <2>. SUFFICES ASSUME RootIsMarked, prune.ok
                PROVE  /\ hash(prune.cell) = hash(root) /\ depth(prune.cell) = depth(root)
                       /\ prove.ok /\ virtualize(prove.cell) = prune
                       /\ is_virtualized(prune.cell) =>
                            is_virtualized(root) \/ \E place \in Places(root) : ~Kept(place)
    BY DEF PruneKeepsTheRoot
  <2>. DEFINE cut == Cut(root, used)
  <2>1. WholeTree(root)
    BY UsageAssumption DEF RootIsMarked, WholeTree
  <2>2. <<>> \in Places(root) /\ At(root, <<>>) = root
    BY PlacesAre, AtIs
  <2>3. prune = cut[<<>>]
    BY <2>1, CutIs DEF prune
  <2>4. Answers(root, used, <<>>)
    BY <2>1, <2>2, CutAnswers
  <2>5. /\ prune = Some(prune.cell) /\ hash(prune.cell) = hash(root) /\ depth(prune.cell) = depth(root)
        /\ (\A q \in Places(root) : repr_hash(At(root, q)) \in used) => prune.cell.id.mask = root.id.mask
    BY <2>2, <2>3, <2>4 DEF Answers
  <2>6. prune.cell.type = "Ordinary"
    BY <2>1, <2>2, <2>3, KeptShows DEF RootIsMarked
  <2>7. prove.ok /\ virtualize(prove.cell) = prune
    BY <2>5, <2>6, ProofReadsBack DEF prove
  <2>8. ASSUME is_virtualized(prune.cell), ~is_virtualized(root)
        PROVE  \E place \in Places(root) : ~Kept(place)
    <3>1. prune.cell.id.mask # root.id.mask
      BY <2>8 DEF is_virtualized, level
    <3>2. PICK q \in Places(root) : repr_hash(At(root, q)) \notin used
      BY <2>5, <3>1
    <3>3. q \in Along(q)
      <4>1. q \in AllPlaces
        BY PlacesAre
      <4>2. q \in Seq(1..MAX_REFS) /\ Len(q) \in 0..Len(q)
        BY <4>1, PlaceIs
      <4>3. SubSeq(q, 1, Len(q)) = q
        BY <4>2, WholeList
      <4>. QED
        BY <4>2, <4>3, Zenon DEF Along
    <3>. QED
      BY <3>2, <3>3 DEF Kept
  <2>. QED
    BY <2>5, <2>7, <2>8
<1>. QED
  BY <1>1, RootStaysMarked, PTL

-----------------------------------------------------------------------------
(* Places kept.                                                           *)

\* The places along the way to one: itself, and those along the way to the
\* place above it.
LEMMA AlongRoot == Along(<<>>) = {<<>>}
<1>1. Along(<<>>) = {SubSeq(<<>>, 1, k) : k \in {0}}
  BY RootPlace DEF Along
<1>2. SubSeq(<<>>, 1, 0) = <<>>
  OBVIOUS
<1>. QED
  BY <1>1, <1>2, Zenon

LEMMA AlongChild ==
  ASSUME NEW p \in AllPlaces, Len(p) < MaxHeight, NEW i \in 1..MAX_REFS
  PROVE  Along(Append(p, i)) = Along(p) \cup {Append(p, i)}
<1>. DEFINE c == Append(p, i)
<1>1. /\ c \in AllPlaces /\ Len(c) = Len(p) + 1 /\ Len(p) \in Nat
      /\ \A k \in 0..Len(p) : SubSeq(c, 1, k) = SubSeq(p, 1, k)
  BY ChildIs, PlaceIs
<1>2. SubSeq(c, 1, Len(c)) = c
  <2>. HIDE DEF c
  <2>. QED
    BY <1>1, PlaceIs, WholeList
<1>. HIDE DEF c
<1>3. 0..Len(c) = 0..Len(p) \cup {Len(c)}
  BY <1>1
<1>4. Along(c) = {SubSeq(c, 1, k) : k \in 0..Len(p)} \cup {SubSeq(c, 1, Len(c))}
  BY <1>3, Zenon DEF Along
<1>5. {SubSeq(c, 1, k) : k \in 0..Len(p)} = Along(p)
  BY <1>1, Zenon DEF Along
<1>. QED
  BY <1>2, <1>4, <1>5 DEF c

LEMMA AlongSelf ==
  ASSUME NEW p \in AllPlaces
  PROVE  p \in Along(p)
<1>1. p \in Seq(1..MAX_REFS) /\ Len(p) \in 0..Len(p)
  BY PlaceIs
<1>2. SubSeq(p, 1, Len(p)) = p
  BY <1>1, WholeList
<1>. QED
  BY <1>1, <1>2, Zenon DEF Along

LEMMA AlongUp ==
  ASSUME NEW p \in AllPlaces, Len(p) < MaxHeight, NEW i \in 1..MAX_REFS,
         NEW q \in AllPlaces, Append(p, i) \in Along(q)
  PROVE  p \in Along(q)
<1>. DEFINE c == Append(p, i)
<1>1. PICK k \in 0..Len(q) : c = SubSeq(q, 1, k)
  BY DEF Along
<1>2. Len(c) = k /\ \A j \in 1..k : c[j] = q[j]
  BY <1>1, PrefixIs
<1>3. p \in Seq(1..MAX_REFS) /\ Len(p) \in Nat
  BY PlaceIs
<1>4. Len(c) = Len(p) + 1 /\ \A j \in 1..Len(p) : c[j] = p[j]
  BY <1>3, OneMore
<1>. HIDE DEF c
<1>. DEFINE t == SubSeq(q, 1, Len(p))
<1>5. Len(p) \in 0..Len(q)
  BY <1>2, <1>3, <1>4, PlaceIs
<1>6. t \in AllPlaces /\ Len(t) = Len(p) /\ \A j \in 1..Len(p) : t[j] = q[j]
  BY <1>5, PrefixIs
<1>. HIDE DEF t
<1>7. t \in Seq(1..MAX_REFS) /\ \A j \in 1..Len(p) : t[j] = p[j]
  BY <1>2, <1>3, <1>4, <1>6, PlaceIs
<1>8. t = p
  BY <1>3, <1>6, <1>7, SameList
<1>. QED
  BY <1>5, <1>8 DEF t, Along

\* From the root down: what holds in a place when it holds in the one above.
LEMMA FromTheRoot ==
  ASSUME NEW cell, NEW S, <<>> \in S,
         \A p \in Places(cell) : (p # <<>> /\ Parent(p) \in S) => p \in S
  PROVE  Places(cell) \subseteq S
<1>. DEFINE G == {n \in Nat : \A p \in Places(cell) : Len(p) < n => p \in S}
<1>1. \A p \in Places(cell) : p \in AllPlaces /\ Len(p) \in Nat
  BY PlacesAre, PlaceIs
<1>2. 0 \in G
  BY <1>1
<1>3. ASSUME NEW n \in Nat, n \in G
      PROVE  n + 1 \in G
  <2>. SUFFICES ASSUME NEW p \in Places(cell), Len(p) < n + 1, p # <<>>
                PROVE  p \in S
    OBVIOUS
  <2>1. Parent(p) \in Places(cell)
    BY PlacesAre
  <2>2. Len(Parent(p)) < n
    BY <1>1, ParentIs
  <2>3. Parent(p) \in S
    BY <1>3, <2>1, <2>2
  <2>. QED
    BY <2>3
<1>4. Nat \subseteq G
  <2>. HIDE DEF G
  <2>. QED
    BY <1>2, <1>3, Climb
<1>5. ASSUME NEW p \in Places(cell)
      PROVE  p \in S
  <2>1. Len(p) + 1 \in G /\ Len(p) < Len(p) + 1
    <3>. HIDE DEF G
    <3>. QED
      BY <1>1, <1>4
  <2>. QED
    BY <2>1
<1>. QED
  BY <1>5

\* Every cell from the root down to a place is kept.
KeptAt(cell, keep, p) == \A q \in Along(p) : repr_hash(At(cell, q)) \in keep

LEMMA KeptBelow ==
  ASSUME NEW cell, WholeTree(cell), NEW keep, NEW p \in Places(cell), NEW i \in DOMAIN At(cell, p).refs
  PROVE  KeptAt(cell, keep, Append(p, i)) <=>
           KeptAt(cell, keep, p) /\ repr_hash(At(cell, Append(p, i))) \in keep
<1>1. p \in AllPlaces /\ i \in 1..MAX_REFS /\ Len(p) < MaxHeight
  BY ChildPlace
<1>2. Along(Append(p, i)) = Along(p) \cup {Append(p, i)}
  BY <1>1, AlongChild
<1>. QED
  BY <1>2 DEF KeptAt

LEMMA KeptHere ==
  ASSUME NEW cell, NEW keep, NEW p \in Places(cell), KeptAt(cell, keep, p)
  PROVE  repr_hash(At(cell, p)) \in keep
BY PlacesAre, AlongSelf DEF KeptAt

LEMMA KeptRoot ==
  ASSUME NEW cell, NEW keep, repr_hash(cell) \in keep
  PROVE  KeptAt(cell, keep, <<>>)
BY AlongRoot, AtIs DEF KeptAt

\* A cut fails only over a kept exotic cell.
LEMMA RefusedOverExotic ==
  ASSUME NEW cell, WholeTree(cell), NEW keep, repr_hash(cell) \in keep,
         \A p \in Places(cell) : KeptAt(cell, keep, p) => At(cell, p).type = "Ordinary"
  PROVE  Cut(cell, keep)[<<>>].ok
<1>. DEFINE cut == Cut(cell, keep)
            S == {p \in Places(cell) : KeptAt(cell, keep, p) => cut[p].ok}
<1>1. ASSUME NEW p \in Places(cell), \A i \in DOMAIN At(cell, p).refs : Append(p, i) \in S, KeptAt(cell, keep, p)
      PROVE  cut[p].ok
  <2>. DEFINE node == At(cell, p)
              kids == [i \in DOMAIN node.refs |-> cut[Append(p, i)]]
  <2>1. repr_hash(node) \in keep /\ node.type = "Ordinary"
    BY <1>1, KeptHere
  <2>2. cut[p] = Rebuilt(node, kids)
    BY <2>1, CutIs DEF CutStep
  <2>3. ASSUME NEW i \in DOMAIN node.refs
        PROVE  cut[Append(p, i)].ok
    <3>1. Append(p, i) \in Places(cell)
      BY ChildPlace
    <3>2. CASE repr_hash(At(cell, Append(p, i))) \in keep
      <4>1. KeptAt(cell, keep, Append(p, i))
        BY <1>1, <3>2, KeptBelow
      <4>. QED
        BY <1>1, <4>1
    <3>3. CASE repr_hash(At(cell, Append(p, i))) \notin keep
      <4>1. cut[Append(p, i)] = pruned_branch(At(cell, Append(p, i)))
        BY <3>1, <3>3, CutIs, Zenon DEF CutStep
      <4>. QED
        BY <4>1, BranchAnswers
    <3>. QED
      BY <3>2, <3>3
  <2>4. \A i \in DOMAIN kids : kids[i].ok
    BY <2>3
  <2>. HIDE DEF kids, node
  <2>. QED
    BY <2>2, <2>4 DEF Rebuilt, Some
<1>2. \A p \in Places(cell) : (\A i \in DOMAIN At(cell, p).refs : Append(p, i) \in S) => p \in S
  <2>. HIDE DEF cut
  <2>. QED
    BY <1>1
<1>3. Places(cell) \subseteq S
  <2>. HIDE DEF S
  <2>. QED
    BY <1>2, FromTheLeaves
<1>. QED
  BY <1>3, KeptRoot, PlacesAre

\* Where the cut of a place is found in the cut tree.
Stands(cell, keep, p) ==
  LET cut == Cut(cell, keep)
      tree == cut[<<>>].cell
  IN p \in Places(tree) /\ p \in Places(cell) /\ cut[p].ok /\ At(tree, p) = cut[p].cell

LEMMA StandsBelow ==
  ASSUME NEW cell, WholeTree(cell), NEW keep, NEW p, Stands(cell, keep, p), repr_hash(At(cell, p)) \in keep,
         NEW i \in DOMAIN At(cell, p).refs
  PROVE  Stands(cell, keep, Append(p, i))
<1>. DEFINE cut == Cut(cell, keep)
            tree == cut[<<>>].cell
            c == Append(p, i)
<1>1. p \in Places(tree) /\ p \in Places(cell) /\ cut[p].ok /\ At(tree, p) = cut[p].cell
  BY DEF Stands
<1>2. /\ c \in Places(cell) /\ p \in AllPlaces /\ i \in 1..MAX_REFS /\ Len(p) < MaxHeight
      /\ c # <<>> /\ c[Len(c)] = i /\ Parent(c) = p
  BY <1>1, ChildPlace
<1>3. DOMAIN cut[p].cell.refs = DOMAIN At(cell, p).refs /\ cut[c].ok /\ cut[p].cell.refs[i] = cut[c].cell
  BY <1>1, KeptShows
<1>. HIDE DEF cut
<1>4. c \in Places(tree)
  BY <1>1, <1>2, <1>3, PlacesAre
<1>5. At(tree, c) = At(tree, p).refs[i]
  <2>1. c \in AllPlaces
    BY <1>2, PlacesAre
  <2>. HIDE DEF c, tree
  <2>. QED
    BY <1>2, <2>1, AtIs, Zenon
<1>. QED
  BY <1>1, <1>2, <1>3, <1>4, <1>5 DEF Stands, cut

\* A place kept from the root down is in the cut tree.
LEMMA KeptStands ==
  ASSUME NEW cell, WholeTree(cell), NEW keep, Cut(cell, keep)[<<>>].ok
  PROVE  \A p \in Places(cell) : KeptAt(cell, keep, p) => Stands(cell, keep, p)
<1>. DEFINE S == {p \in Places(cell) : KeptAt(cell, keep, p) => Stands(cell, keep, p)}
<1>1. <<>> \in S
  BY PlacesAre, AtIs DEF Stands
<1>2. ASSUME NEW p \in Places(cell), p # <<>>, Parent(p) \in S, KeptAt(cell, keep, p)
      PROVE  Stands(cell, keep, p)
  <2>. DEFINE q == Parent(p)
              i == p[Len(p)]
  <2>1. q \in Places(cell) /\ i \in DOMAIN At(cell, q).refs /\ p = Append(q, i)
    BY <1>2, PlacesAre, ParentIs, Zenon
  <2>. HIDE DEF q, i
  <2>2. KeptAt(cell, keep, q)
    BY <1>2, <2>1, KeptBelow
  <2>3. repr_hash(At(cell, q)) \in keep
    BY <2>1, <2>2, KeptHere
  <2>4. Stands(cell, keep, q)
    BY <1>2, <2>2 DEF q
  <2>. QED
    BY <2>1, <2>3, <2>4, StandsBelow
<1>3. \A p \in Places(cell) : (p # <<>> /\ Parent(p) \in S) => p \in S
  BY <1>2
<1>4. Places(cell) \subseteq S
  <2>. HIDE DEF S
  <2>. QED
    BY <1>1, <1>3, FromTheRoot
<1>. QED
  BY <1>4

\* And nothing else is, but for the branches under what is kept.
LEMMA OnlyKeptStands ==
  ASSUME NEW cell, WholeTree(cell), NEW keep, Cut(cell, keep)[<<>>].ok,
         NEW p \in Places(Cut(cell, keep)[<<>>].cell)
  PROVE  Stands(cell, keep, p) /\ (repr_hash(At(cell, p)) \in keep => KeptAt(cell, keep, p))
<1>. DEFINE cut == Cut(cell, keep)
            tree == cut[<<>>].cell
            Holds(q) == Stands(cell, keep, q) /\ (repr_hash(At(cell, q)) \in keep => KeptAt(cell, keep, q))
            S == {q \in Places(tree) : Holds(q)}
<1>1. <<>> \in S
  <2>1. Stands(cell, keep, <<>>)
    BY PlacesAre, AtIs DEF Stands
  <2>2. repr_hash(At(cell, <<>>)) \in keep => KeptAt(cell, keep, <<>>)
    BY KeptRoot, AtIs
  <2>. QED
    BY <2>1, <2>2, PlacesAre
<1>2. ASSUME NEW r \in Places(tree), r # <<>>, Parent(r) \in S
      PROVE  Holds(r)
  <2>. DEFINE q == Parent(r)
              i == r[Len(r)]
  <2>1. q \in Places(tree) /\ i \in DOMAIN At(tree, q).refs /\ r = Append(q, i)
    BY <1>2, PlacesAre, ParentIs, Zenon
  <2>2. Holds(q)
    BY <1>2
  <2>. HIDE DEF q, i
  <2>3. q \in Places(cell) /\ cut[q].ok /\ At(tree, q) = cut[q].cell
    BY <2>2 DEF Stands
  <2>4. repr_hash(At(cell, q)) \in keep
    <3>. SUFFICES ASSUME repr_hash(At(cell, q)) \notin keep PROVE FALSE
      OBVIOUS
    <3>1. cut[q] = pruned_branch(At(cell, q))
      BY <2>3, CutIs, Zenon DEF CutStep
    <3>2. cut[q].cell.refs = <<>>
      BY <3>1, BranchAnswers
    <3>. HIDE DEF cut
    <3>. QED
      BY <2>1, <2>3, <3>2
  <2>5. DOMAIN cut[q].cell.refs = DOMAIN At(cell, q).refs
    BY <2>3, <2>4, KeptShows
  <2>6. i \in DOMAIN At(cell, q).refs
    <3>. HIDE DEF cut
    <3>. QED
      BY <2>1, <2>3, <2>5
  <2>7. Stands(cell, keep, Append(q, i))
    BY <2>2, <2>4, <2>6, StandsBelow
  <2>8. repr_hash(At(cell, Append(q, i))) \in keep => KeptAt(cell, keep, Append(q, i))
    BY <2>2, <2>3, <2>4, <2>6, KeptBelow
  <2>. QED
    BY <2>1, <2>7, <2>8
<1>3. \A r \in Places(tree) : (r # <<>> /\ Parent(r) \in S) => r \in S
  <2>. HIDE DEF Holds, tree
  <2>. QED
    BY <1>2
<1>4. Places(tree) \subseteq S
  <2>. HIDE DEF S
  <2>. QED
    BY <1>1, <1>3, FromTheRoot
<1>. QED
  BY <1>4

-----------------------------------------------------------------------------
(* The path to a cell.                                                     *)

\* What UsageTree's mark_path_to marks from one place down.
FoundBelow(cell, path, p) == {i \in DOMAIN At(cell, p).refs : path[Append(p, i)] # {}}
PathStep(cell, target, path, p) ==
  LET node == At(cell, p)
      found == FoundBelow(cell, path, p)
  IN IF repr_hash(node) = target THEN {target}
     ELSE IF found = {} THEN {}
     ELSE {repr_hash(node)} \cup path[Append(p, Min(found))]
PathTo(cell, target) == CHOOSE path : path = [p \in Places(cell) |-> PathStep(cell, target, path, p)]

LEMMA FirstOf ==
  ASSUME NEW n \in 0..MAX_REFS, NEW T \in SUBSET (1..n), T # {}
  PROVE  Min(T) \in T
<1>1. \A i \in T : i \in Int /\ (i = 1 \/ i = 2 \/ i = 3 \/ i = 4)
  BY DEF MAX_REFS
<1>2. \E i \in T : \A j \in T : i =< j
  <2>1. CASE 1 \in T
    BY <1>1, <2>1
  <2>2. CASE 1 \notin T /\ 2 \in T
    BY <1>1, <2>2
  <2>3. CASE 1 \notin T /\ 2 \notin T /\ 3 \in T
    BY <1>1, <2>3
  <2>4. CASE 1 \notin T /\ 2 \notin T /\ 3 \notin T
    <3>1. \A j \in T : j = 4
      BY <1>1, <2>4
    <3>2. 4 \in T
      BY <3>1
    <3>. QED
      BY <3>1, <3>2
  <2>. QED
    BY <2>1, <2>2, <2>3, <2>4
<1>. QED
  BY <1>2 DEF Min

LEMMA FirstFound ==
  ASSUME NEW cell, WholeTree(cell), NEW path, NEW p \in Places(cell), FoundBelow(cell, path, p) # {}
  PROVE  LET i == Min(FoundBelow(cell, path, p)) IN i \in DOMAIN At(cell, p).refs /\ path[Append(p, i)] # {}
<1>1. PICK n \in 0..MAX_REFS : DOMAIN At(cell, p).refs = 1..n
  BY Zenon DEF WholeTree, WellBuilt
<1>2. FoundBelow(cell, path, p) \in SUBSET (1..n)
  BY <1>1 DEF FoundBelow
<1>3. Min(FoundBelow(cell, path, p)) \in FoundBelow(cell, path, p)
  BY <1>2, FirstOf
<1>. QED
  BY <1>3 DEF FoundBelow

\* The recursion of mark_path_to is well defined.
LEMMA PathIs ==
  ASSUME NEW cell, WholeTree(cell), NEW target
  PROVE  /\ mark_path_to(cell, target) = PathTo(cell, target)[<<>>]
         /\ \A p \in Places(cell) : PathTo(cell, target)[p] = PathStep(cell, target, PathTo(cell, target), p)
<1>. DEFINE P == Places(cell)
            Step(f, p) == PathStep(cell, target, f, p)
            Upto(f, n) == /\ f = [p \in P |-> f[p]]
                          /\ \A p \in P : Len(p) + n > MaxHeight => f[p] = Step(f, p)
            G == {n \in Nat : \E f : Upto(f, n)}
            Solves(f) == f = [p \in P |-> Step(f, p)]
<1>1. \A p \in P : Len(p) \in 0..MaxHeight
  BY PlacesAre, PlaceIs
<1>2. 0 \in G
  <2>. DEFINE f == [p \in P |-> cell]
  <2>1. \A p \in P : ~(Len(p) + 0 > MaxHeight)
    BY <1>1, UsageAssumption
  <2>2. Upto(f, 0)
    <3>. HIDE DEF Step
    <3>. QED
      BY <2>1
  <2>. QED
    BY <2>2
<1>3. ASSUME NEW f, NEW g, NEW p \in P, \A i \in DOMAIN At(cell, p).refs : f[Append(p, i)] = g[Append(p, i)]
      PROVE  Step(f, p) = Step(g, p)
  <2>. DEFINE F == FoundBelow(cell, f, p)
              H == FoundBelow(cell, g, p)
  <2>1. F = H
    BY <1>3 DEF FoundBelow
  <2>2. F # {} => Min(F) \in DOMAIN At(cell, p).refs
    BY FirstFound
  <2>3. F # {} => f[Append(p, Min(F))] = g[Append(p, Min(H))]
    <3>. HIDE DEF F, H
    <3>. QED
      BY <1>3, <2>1, <2>2
  <2>4. /\ Step(f, p) = IF repr_hash(At(cell, p)) = target THEN {target} ELSE IF F = {} THEN {}
                        ELSE {repr_hash(At(cell, p))} \cup f[Append(p, Min(F))]
        /\ Step(g, p) = IF repr_hash(At(cell, p)) = target THEN {target} ELSE IF H = {} THEN {}
                        ELSE {repr_hash(At(cell, p))} \cup g[Append(p, Min(H))]
    BY DEF PathStep
  <2>. HIDE DEF F, H, Step
  <2>. QED
    BY <2>1, <2>3, <2>4
<1>4. ASSUME NEW n \in Nat, n \in G
      PROVE  n + 1 \in G
  <2>1. PICK f : Upto(f, n)
    BY <1>4
  <2>. DEFINE g == [p \in P |-> IF Len(p) + n > MaxHeight THEN f[p] ELSE Step(f, p)]
  <2>2. ASSUME NEW p \in P, Len(p) + (n + 1) > MaxHeight
        PROVE  g[p] = Step(g, p)
    <3>1. g[p] = Step(f, p)
      <4>. HIDE DEF Step
      <4>. QED
        BY <2>1
    <3>2. ASSUME NEW i \in DOMAIN At(cell, p).refs
          PROVE  f[Append(p, i)] = g[Append(p, i)]
      <4>1. Append(p, i) \in P /\ Len(Append(p, i)) = Len(p) + 1 /\ Len(p) \in Nat
        BY ChildPlace
      <4>2. Len(Append(p, i)) + n > MaxHeight
        BY <2>2, <4>1, UsageAssumption
      <4>. HIDE DEF Step
      <4>. QED
        BY <4>1, <4>2
    <3>. HIDE DEF g, Step
    <3>. QED
      BY <1>3, <3>1, <3>2
  <2>3. g = [p \in P |-> g[p]]
    OBVIOUS
  <2>4. Upto(g, n + 1)
    <3>. HIDE DEF g, Step, P
    <3>. QED
      BY <2>2, <2>3
  <2>. HIDE DEF Upto
  <2>. QED
    BY <2>4
<1>5. MaxHeight + 1 \in G
  <2>. HIDE DEF G
  <2>1. Nat \subseteq G
    BY <1>2, <1>4, Climb
  <2>. QED
    BY <2>1, UsageAssumption
<1>6. \E f : Solves(f)
  <2>1. PICK f : Upto(f, MaxHeight + 1)
    BY <1>5
  <2>2. \A p \in P : Len(p) + (MaxHeight + 1) > MaxHeight
    BY <1>1, UsageAssumption
  <2>3. Solves(f)
    <3>. HIDE DEF Step, P
    <3>. QED
      BY <2>1, <2>2
  <2>. QED
    BY <2>3
<1>7. Solves(PathTo(cell, target))
  <2>1. PathTo(cell, target) = CHOOSE f : Solves(f)
    BY DEF PathTo
  <2>. HIDE DEF Solves
  <2>. QED
    BY <1>6, <2>1
<1>8. mark_path_to(cell, target) = PathTo(cell, target)[<<>>]
  BY DEF mark_path_to, PathTo, PathStep, FoundBelow
<1>9. \A p \in P : PathTo(cell, target)[p] = Step(PathTo(cell, target), p)
  <2>. HIDE DEF Step, P
  <2>. QED
    BY <1>7
<1>. QED
  BY <1>8, <1>9

\* From a place that leads to the target, the path is the place's own cell
\* and the path from one below it.
LEMMA PathGoesOn ==
  ASSUME NEW cell, WholeTree(cell), NEW target, NEW p \in Places(cell), PathTo(cell, target)[p] # {}
  PROVE  LET path == PathTo(cell, target)
             node == At(cell, p)
         IN \/ repr_hash(node) = target /\ path[p] = {target}
            \/ \E i \in DOMAIN node.refs : path[Append(p, i)] # {} /\ path[p] = {repr_hash(node)} \cup path[Append(p, i)]
<1>. DEFINE path == PathTo(cell, target)
            node == At(cell, p)
            found == FoundBelow(cell, path, p)
<1>1. path[p] = PathStep(cell, target, path, p)
  BY PathIs
<1>. HIDE DEF path
<1>2. path[p] = IF repr_hash(node) = target THEN {target} ELSE IF found = {} THEN {}
                ELSE {repr_hash(node)} \cup path[Append(p, Min(found))]
  BY <1>1, Zenon DEF PathStep
<1>3. found # {} => Min(found) \in DOMAIN node.refs /\ path[Append(p, Min(found))] # {}
  BY FirstFound, Zenon
<1>. HIDE DEF found, node
<1>4. path[p] # {}
  BY DEF path
<1>5. CASE repr_hash(node) = target
  <2>1. path[p] = {target}
    BY <1>2, <1>5
  <2>. QED
    BY <1>5, <2>1, Zenon DEF path, node
<1>6. CASE repr_hash(node) # target
  <2>1. found # {}
    BY <1>2, <1>4, <1>6
  <2>2. path[p] = {repr_hash(node)} \cup path[Append(p, Min(found))]
    BY <1>2, <1>6, <2>1
  <2>. QED
    BY <1>3, <2>1, <2>2, Zenon DEF path, node
<1>. QED
  BY <1>5, <1>6

\* A path that is found runs from the root to the target.
LEMMA PathFinds ==
  ASSUME NEW cell, WholeTree(cell), NEW target, mark_path_to(cell, target) # {}
  PROVE  \E q \in Places(cell) : repr_hash(At(cell, q)) = target /\ KeptAt(cell, mark_path_to(cell, target), q)
<1>. DEFINE path == PathTo(cell, target)
            M == mark_path_to(cell, target)
            Open(p) == path[p] # {} /\ path[p] \subseteq M /\ (p # <<>> => KeptAt(cell, M, Parent(p)))
            S == {p \in Places(cell) : ~Open(p)}
<1>. SUFFICES ASSUME \A q \in Places(cell) : KeptAt(cell, M, q) => repr_hash(At(cell, q)) # target
              PROVE  FALSE
  BY Zenon
<1>. HIDE DEF M
<1>1. ASSUME NEW p \in Places(cell), Open(p), repr_hash(At(cell, p)) \in M
      PROVE  KeptAt(cell, M, p)
  <2>1. CASE p = <<>>
    BY <1>1, <2>1, KeptRoot, AtIs
  <2>2. CASE p # <<>>
    <3>. DEFINE q == Parent(p)
                i == p[Len(p)]
    <3>1. q \in Places(cell) /\ i \in DOMAIN At(cell, q).refs /\ p = Append(q, i)
      BY <2>2, PlacesAre, ParentIs, Zenon
    <3>2. KeptAt(cell, M, q)
      BY <1>1, <2>2
    <3>. HIDE DEF q, i, path
    <3>. QED
      BY <1>1, <3>1, <3>2, KeptBelow
  <2>. QED
    BY <2>1, <2>2
<1>2. ASSUME NEW p \in Places(cell), \A i \in DOMAIN At(cell, p).refs : Append(p, i) \in S, Open(p)
      PROVE  FALSE
  <2>1. CASE repr_hash(At(cell, p)) = target /\ path[p] = {target}
    <3>1. repr_hash(At(cell, p)) \in M
      BY <1>2, <2>1
    <3>. QED
      BY <1>1, <1>2, <2>1, <3>1
  <2>2. CASE \E i \in DOMAIN At(cell, p).refs :
               path[Append(p, i)] # {} /\ path[p] = {repr_hash(At(cell, p))} \cup path[Append(p, i)]
    <3>1. PICK i \in DOMAIN At(cell, p).refs :
            path[Append(p, i)] # {} /\ path[p] = {repr_hash(At(cell, p))} \cup path[Append(p, i)]
      BY <2>2
    <3>. HIDE DEF path
    <3>2. repr_hash(At(cell, p)) \in M /\ path[Append(p, i)] \subseteq M
      BY <1>2, <3>1
    <3>3. KeptAt(cell, M, p)
      BY <1>1, <1>2, <3>2
    <3>4. Append(p, i) \in Places(cell) /\ Parent(Append(p, i)) = p
      BY ChildPlace
    <3>5. Open(Append(p, i))
      BY <3>1, <3>2, <3>3, <3>4
    <3>. QED
      BY <1>2, <3>5
  <2>3. path[p] # {}
    BY <1>2
  <2>. QED
    BY <2>1, <2>2, <2>3, PathGoesOn
<1>3. \A p \in Places(cell) : (\A i \in DOMAIN At(cell, p).refs : Append(p, i) \in S) => p \in S
  <2>. HIDE DEF Open
  <2>. QED
    BY <1>2
<1>4. Places(cell) \subseteq S
  <2>. HIDE DEF S
  <2>. QED
    BY <1>3, FromTheLeaves
<1>5. <<>> \in Places(cell) /\ M = path[<<>>]
  BY PlacesAre, PathIs DEF M
<1>6. M # {}
  BY DEF M
<1>. HIDE DEF path
<1>7. Open(<<>>)
  BY <1>5, <1>6
<1>. QED
  BY <1>4, <1>5, <1>7

\* A place that lies on the way to the target.
Leads(cell, target, p) == \E q \in Places(cell) : p \in Along(q) /\ repr_hash(At(cell, q)) = target

\* Everything a path marks lies on the way to the target.
LEMMA PathOnlyLeads ==
  ASSUME NEW cell, WholeTree(cell), NEW target
  PROVE  \A h \in mark_path_to(cell, target) : \E p \in Places(cell) : repr_hash(At(cell, p)) = h /\ Leads(cell, target, p)
<1>. DEFINE path == PathTo(cell, target)
            Way(h) == \E p \in Places(cell) : repr_hash(At(cell, p)) = h /\ Leads(cell, target, p)
            S == {p \in Places(cell) : /\ path[p] # {} => Leads(cell, target, p)
                                       /\ \A h \in path[p] : Way(h)}
<1>1. ASSUME NEW p \in Places(cell), \A i \in DOMAIN At(cell, p).refs : Append(p, i) \in S, path[p] # {}
      PROVE  Leads(cell, target, p) /\ \A h \in path[p] : Way(h)
  <2>. HIDE DEF Way
  <2>1. CASE repr_hash(At(cell, p)) = target /\ path[p] = {target}
    <3>1. Leads(cell, target, p)
      BY <2>1, AlongSelf, PlacesAre DEF Leads
    <3>2. Way(target)
      BY <2>1, <3>1, Zenon DEF Way
    <3>. HIDE DEF path
    <3>. QED
      BY <2>1, <3>1, <3>2
  <2>2. CASE \E i \in DOMAIN At(cell, p).refs :
               path[Append(p, i)] # {} /\ path[p] = {repr_hash(At(cell, p))} \cup path[Append(p, i)]
    <3>1. PICK i \in DOMAIN At(cell, p).refs :
            path[Append(p, i)] # {} /\ path[p] = {repr_hash(At(cell, p))} \cup path[Append(p, i)]
      BY <2>2
    <3>. HIDE DEF path
    <3>2. Append(p, i) \in S
      BY <1>1
    <3>3. Leads(cell, target, Append(p, i)) /\ \A h \in path[Append(p, i)] : Way(h)
      BY <3>1, <3>2
    <3>4. Leads(cell, target, p)
      <4>1. PICK q \in Places(cell) : Append(p, i) \in Along(q) /\ repr_hash(At(cell, q)) = target
        BY <3>3 DEF Leads
      <4>2. p \in AllPlaces /\ i \in 1..MAX_REFS /\ Len(p) < MaxHeight
        BY ChildPlace
      <4>3. p \in Along(q)
        BY <4>1, <4>2, AlongUp, PlacesAre
      <4>. QED
        BY <4>1, <4>3 DEF Leads
    <3>5. Way(repr_hash(At(cell, p)))
      BY <3>4, Zenon DEF Way
    <3>. QED
      BY <3>1, <3>3, <3>4, <3>5
  <2>. QED
    BY <1>1, <2>1, <2>2, PathGoesOn
<1>2. \A p \in Places(cell) : (\A i \in DOMAIN At(cell, p).refs : Append(p, i) \in S) => p \in S
  <2>. HIDE DEF Way, path
  <2>. QED
    BY <1>1
<1>3. Places(cell) \subseteq S
  <2>. HIDE DEF S
  <2>. QED
    BY <1>2, FromTheLeaves
<1>4. <<>> \in Places(cell) /\ mark_path_to(cell, target) = path[<<>>]
  BY PlacesAre, PathIs
<1>. HIDE DEF path, Way
<1>5. \A h \in path[<<>>] : Way(h)
  BY <1>3, <1>4
<1>. QED
  BY <1>4, <1>5 DEF Way

-----------------------------------------------------------------------------
(* The record.                                                             *)

\* A hash that stands in some place kept from the root down.
KeptSomewhere(tree, marks, h) == \E q \in Places(tree) : repr_hash(At(tree, q)) = h /\ KeptAt(tree, marks, q)

\* A hash some place asked for has, or some place on the way to a promised one.
Wanted(tree, places, ends, h) ==
  \/ \E p \in places : repr_hash(At(tree, p)) = h
  \/ \E p \in Places(tree) : repr_hash(At(tree, p)) = h /\ \E e \in ends : Leads(tree, e, p)

\* The root is asked for and marked, what is asked for is marked, what is
\* promised can be reached through marks, and nothing is marked for nothing.
RecordInv ==
  /\ root \in Trees /\ <<>> \in asked
  /\ \A p \in asked : p \in Places(root) /\ repr_hash(At(root, p)) \in used
  /\ \A h \in promised : KeptSomewhere(root, used, h)
  /\ \A h \in used : Wanted(root, asked, promised, h)

\* A record only grows, so what grows with it is all there is to look at.
LEMMA RecordGrows ==
  ASSUME RecordInv, root' = root, used \subseteq used', asked \subseteq asked', promised \subseteq promised',
         \A p \in asked' \ asked : p \in Places(root) /\ repr_hash(At(root, p)) \in used',
         \A h \in promised' \ promised : KeptSomewhere(root, used', h),
         \A h \in used' \ used : Wanted(root, asked', promised', h)
  PROVE  RecordInv'
<1>1. root' \in Trees /\ <<>> \in asked'
  BY DEF RecordInv
<1>2. \A p \in asked' : p \in Places(root) /\ repr_hash(At(root, p)) \in used'
  BY DEF RecordInv
<1>3. \A h \in promised' : KeptSomewhere(root, used', h)
  BY DEF RecordInv, KeptSomewhere, KeptAt
<1>4. \A h \in used' : Wanted(root, asked', promised', h)
  BY DEF RecordInv, Wanted
<1>. QED
  BY <1>1, <1>2, <1>3, <1>4 DEF RecordInv

LEMMA RecordKept == UsageSpec => []RecordInv
<1>1. UsageInit => RecordInv
  <2>. SUFFICES ASSUME NEW tree \in Trees, New(tree) PROVE RecordInv
    BY DEF UsageInit
  <2>1. <<>> \in Places(root) /\ At(root, <<>>) = root
    BY PlacesAre, AtIs
  <2>. QED
    BY <2>1 DEF New, RecordInv, Wanted
<1>2. RecordInv /\ [UsageNext]_usageVars => RecordInv'
  <2>. SUFFICES ASSUME RecordInv, [UsageNext]_usageVars PROVE RecordInv'
    OBVIOUS
  <2>1. WholeTree(root)
    BY UsageAssumption DEF RecordInv, WholeTree
  <2>2. ASSUME NEW place \in Places(root), mark(place) PROVE RecordInv'
    <3>1. used' = used \cup {repr_hash(At(root, place))} /\ asked' = asked \cup {place} /\ UNCHANGED <<root, promised>>
      BY <2>2 DEF mark
    <3>2. \A h \in used' \ used : Wanted(root, asked', promised', h)
      BY <3>1 DEF Wanted
    <3>. QED
      BY <3>1, <3>2, RecordGrows
  <2>3. ASSUME NEW tree \in Trees, NEW place \in Places(tree), combine(tree, place) PROVE RecordInv'
    <3>1. tree = root
      BY <2>3, UsageAssumption DEF combine, RecordInv
    <3>2. /\ used' = used \cup {repr_hash(root), repr_hash(At(root, place))} /\ asked' = asked \cup {place}
          /\ UNCHANGED <<root, promised>>
      BY <2>3, <3>1 DEF combine
    <3>3. <<>> \in asked /\ At(root, <<>>) = root
      BY AtIs DEF RecordInv
    <3>4. \A h \in used' \ used : Wanted(root, asked', promised', h)
      BY <3>2, <3>3 DEF Wanted
    <3>. QED
      BY <3>1, <3>2, <3>4, RecordGrows
  <2>4. ASSUME NEW target, mark_path(target) PROVE RecordInv'
    <3>. DEFINE M == mark_path_to(root, target)
    <3>1. used' = used \cup M /\ promised' = (IF M = {} THEN promised ELSE promised \cup {target}) /\ UNCHANGED <<root, asked>>
      BY <2>4 DEF mark_path
    <3>2. CASE M = {}
      BY <3>1, <3>2, RecordGrows
    <3>3. CASE M # {}
      <4>1. promised' = promised \cup {target}
        BY <3>1, <3>3
      <4>2. KeptSomewhere(root, M, target)
        BY <2>1, <3>3, PathFinds DEF KeptSomewhere
      <4>3. KeptSomewhere(root, used', target)
        <5>. HIDE DEF M
        <5>. QED
          BY <3>1, <4>2 DEF KeptSomewhere, KeptAt
      <4>4. \A h \in M : \E p \in Places(root) : repr_hash(At(root, p)) = h /\ Leads(root, target, p)
        BY <2>1, PathOnlyLeads
      <4>. HIDE DEF M
      <4>5. \A h \in M : Wanted(root, asked', promised', h)
        BY <4>1, <4>4 DEF Wanted
      <4>6. \A h \in used' \ used : Wanted(root, asked', promised', h)
        BY <3>1, <4>5
      <4>. QED
        BY <3>1, <4>1, <4>3, <4>6, RecordGrows
    <3>. QED
      BY <3>2, <3>3
  <2>5. ASSUME UNCHANGED <<root, used, asked, promised>> PROVE RecordInv'
    BY <2>5, RecordGrows
  <2>6. CASE \E place \in Places(root) : mark(place) \/ note(place)
    BY <2>2, <2>6 DEF note
  <2>7. CASE (\E on \in BOOLEAN : set_tracing(on)) \/ EnterScope \/ LeaveScope \/ UNCHANGED usageVars
    BY <2>5, <2>7 DEF set_tracing, EnterScope, LeaveScope, usageVars
  <2>8. CASE \E tree \in Trees : \E place \in Places(tree) : combine(tree, place) \/ mark_path(repr_hash(At(tree, place)))
    BY <2>3, <2>4, <2>8
  <2>. QED
    BY <2>6, <2>7, <2>8 DEF UsageNext
<1>. QED
  BY <1>1, <1>2, PTL DEF UsageSpec

\* A proof shows what was read and nothing else: a place asked for, with every
\* place above it, is in the proof with its data; a cell mark_path found is in
\* it; a cell it shows was asked for in some place or lies above one found;
\* and it fails only over a kept exotic cell (UsageTree::note, ::mark,
\* ::mark_path, ::combine, ::prune).
THEOREM ProofShowsTheRead == UsageSpec => []ProofShowsWhatWasRead
<1>1. RecordInv => ProofShowsWhatWasRead
  <2>. SUFFICES ASSUME RecordInv PROVE ProofShowsWhatWasRead
    OBVIOUS
  <2>. DEFINE cut == Cut(root, used)
              tree == prune.cell
              shown == {p \in Places(tree) : At(tree, p).type = "Ordinary"}
              same(p) == At(tree, p).data = At(root, p).data
  <2>1. WholeTree(root) /\ repr_hash(root) \in used
    BY UsageAssumption, AtIs DEF RecordInv, WholeTree
  <2>2. prune = cut[<<>>]
    BY <2>1, CutIs DEF prune
  <2>3. \A p : Kept(p) <=> KeptAt(root, used, p)
    BY DEF Kept, KeptAt
  <2>4. CASE ~prune.ok
    <3>1. \E p \in Places(root) : KeptAt(root, used, p) /\ At(root, p).type # "Ordinary"
      BY <2>1, <2>2, <2>4, RefusedOverExotic
    <3>. QED
      BY <2>3, <2>4, <3>1 DEF ProofShowsWhatWasRead
  <2>5. CASE prune.ok
    <3>1. ASSUME NEW p \in Places(root), KeptAt(root, used, p)
          PROVE  p \in shown /\ same(p)
      <4>1. Stands(root, used, p) /\ repr_hash(At(root, p)) \in used
        BY <2>1, <2>2, <2>5, <3>1, KeptStands, KeptHere
      <4>2. p \in Places(tree) /\ cut[p].ok /\ At(tree, p) = cut[p].cell
        BY <2>2, <4>1 DEF Stands
      <4>3. cut[p].cell.type = "Ordinary" /\ cut[p].cell.data = At(root, p).data
        BY <2>1, <4>1, <4>2, KeptData
      <4>. HIDE DEF cut, tree
      <4>. QED
        BY <4>2, <4>3
    <3>2. ASSUME NEW p \in shown
          PROVE  p \in Places(root) /\ KeptAt(root, used, p) /\ repr_hash(At(root, p)) \in used
      <4>1. Stands(root, used, p) /\ (repr_hash(At(root, p)) \in used => KeptAt(root, used, p))
        BY <2>1, <2>2, <2>5, OnlyKeptStands
      <4>2. p \in Places(root) /\ At(tree, p) = cut[p].cell
        BY <2>2, <4>1 DEF Stands
      <4>3. repr_hash(At(root, p)) \in used
        <5>. SUFFICES ASSUME repr_hash(At(root, p)) \notin used PROVE FALSE
          OBVIOUS
        <5>1. cut[p] = pruned_branch(At(root, p))
          BY <2>1, <4>2, CutIs, Zenon DEF CutStep
        <5>2. At(tree, p).type = "PrunedBranch"
          BY <4>2, <5>1, BranchAnswers
        <5>. HIDE DEF tree
        <5>. QED
          BY <5>2
      <4>. QED
        BY <4>1, <4>2, <4>3
    <3>. HIDE DEF shown, same, tree
    <3>3. \A p \in asked : Along(p) \subseteq asked => p \in shown /\ same(p)
      <4>1. \A p \in asked : Along(p) \subseteq asked => p \in Places(root) /\ KeptAt(root, used, p)
        BY DEF RecordInv, KeptAt
      <4>. QED
        BY <3>1, <4>1
    <3>4. \A h \in promised : \E p \in shown : repr_hash(At(root, p)) = h
      BY <3>1 DEF RecordInv, KeptSomewhere
    <3>5. ASSUME NEW p \in shown
          PROVE  /\ p \in Places(root) /\ same(p)
                 /\ \/ repr_hash(At(root, p)) \in {repr_hash(At(root, q)) : q \in asked}
                    \/ \E q \in Places(root) :
                         /\ repr_hash(At(root, q)) = repr_hash(At(root, p))
                         /\ \E r \in Places(root) : q \in Along(r) /\ repr_hash(At(root, r)) \in promised
      <4>1. p \in Places(root) /\ KeptAt(root, used, p) /\ repr_hash(At(root, p)) \in used
        BY <3>2, <3>5
      <4>2. Wanted(root, asked, promised, repr_hash(At(root, p)))
        BY <4>1 DEF RecordInv
      <4>. QED
        BY <3>1, <4>1, <4>2 DEF Wanted, Leads
    <3>. QED
      BY <2>5, <3>3, <3>4, <3>5, Zenon DEF ProofShowsWhatWasRead, shown, same, tree
  <2>. QED
    BY <2>4, <2>5
<1>. QED
  BY <1>1, RecordKept, PTL
=============================================================================

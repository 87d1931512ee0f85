----------------------------- MODULE CellProofs -----------------------------
(***************************************************************************)
(* One identity, one cell, for any data, any masks and any number of cells *)
(* (WireCells).  The hash a cell is known by is taken over its descriptor, *)
(* over its children's hashes at the level of their own identities and,    *)
(* through the hashes of its lower levels, over its data; so two cells of  *)
(* one hash have the same kind, data and mask, and children of the same    *)
(* hashes, which were read before them.                                    *)
(***************************************************************************)
EXTENDS WireCells, FiniteSetTheorems, TLAPS

\* The parts of DeriveIdentity.
Opens(mask, i) ==
  CHOOSE l \in 0..3 : hash_index(mask, l) = i - 1 /\ \A k \in 0..l - 1 : hash_index(mask, k) # i - 1
Up(type, l) == IF is_merkle(type) THEN l + 1 ELSE l
RefDepths(ids, type, l) == [r \in DOMAIN ids |-> depth_at(ids[r], Up(type, l))]
RefHashes(ids, type, l) == [r \in DOMAIN ids |-> hash_at(ids[r], Up(type, l))]

-----------------------------------------------------------------------------
(* Numbers and lists.                                                      *)

\* A set that holds zero and the successor of each of its numbers holds all.
LEMMA Climb ==
  ASSUME NEW G, 0 \in G, \A n \in Nat : n \in G => n + 1 \in G
  PROVE  Nat \subseteq G
<1>. DEFINE T == Nat \ G
            F == {0..x : x \in T}
<1>. SUFFICES ASSUME T # {} PROVE FALSE
  OBVIOUS
<1>1. F \subseteq FiniteSubsetsOf(Nat) /\ F # {}
  <2>1. ASSUME NEW x \in T PROVE 0..x \in FiniteSubsetsOf(Nat)
    <3>1. IsFiniteSet(0..x)
      BY FS_Interval
    <3>. QED
      BY <3>1 DEF FiniteSubsetsOf
  <2>. QED
    BY <2>1, Zenon
<1>2. PICK s \in F : \A t \in F : ~(<<t, s>> \in StrictSubsetOrdering(Nat))
  BY <1>1, WFMin, FS_StrictSubsetOrderingWellFounded, Zenon
<1>3. PICK x \in T : s = 0..x
  BY <1>2
<1>4. x \in Nat /\ x # 0 /\ x - 1 \in T
  <2>1. x \in Nat /\ x # 0 /\ x \notin G
    BY <1>3
  <2>2. x - 1 \in Nat /\ (x - 1) + 1 = x
    BY <2>1
  <2>. QED
    BY <2>1, <2>2
<1>5. <<0..x - 1, 0..x>> \in StrictSubsetOrdering(Nat)
  <2>1. 0..x - 1 \subseteq 0..x /\ 0..x - 1 \in SUBSET Nat /\ 0..x \in SUBSET Nat
    BY <1>4
  <2>2. x \in 0..x /\ x \notin 0..x - 1
    BY <1>4
  <2>3. 0..x - 1 # 0..x
    BY <2>2
  <2>. QED
    BY <2>1, <2>3, Zenon DEF StrictSubsetOrdering
<1>. QED
  BY <1>2, <1>3, <1>4, <1>5, Zenon

\* Functions on the first numbers are lists, and lists are such functions.
LEMMA ListOf ==
  ASSUME NEW S, NEW n \in Nat, NEW f \in [1..n -> S]
  PROVE  f \in Seq(S) /\ Len(f) = n
OBVIOUS

LEMMA ListIs ==
  ASSUME NEW S, NEW f \in Seq(S)
  PROVE  Len(f) \in Nat /\ f \in [1..Len(f) -> S] /\ DOMAIN f = 1..Len(f)
OBVIOUS

\* The beginning of a list, the whole of it, and lists put one after another.
LEMMA Beginning ==
  ASSUME NEW S, NEW f \in Seq(S), NEW k \in 0..Len(f)
  PROVE  SubSeq(f, 1, k) \in Seq(S) /\ Len(SubSeq(f, 1, k)) = k /\ \A i \in 1..k : SubSeq(f, 1, k)[i] = f[i]
OBVIOUS

LEMMA WholeList ==
  ASSUME NEW S, NEW f \in Seq(S)
  PROVE  SubSeq(f, 1, Len(f)) = f
OBVIOUS

LEMMA SameList ==
  ASSUME NEW S, NEW f \in Seq(S), NEW g \in Seq(S), Len(f) = Len(g), \A i \in 1..Len(f) : f[i] = g[i]
  PROVE  f = g
OBVIOUS

LEMMA ThreeInARow ==
  ASSUME NEW x, NEW y, NEW z
  PROVE  LET f == <<x>> \o <<y>> \o <<z>> IN Len(f) = 3 /\ f[2] = y /\ f[3] = z
OBVIOUS

LEMMA OneMore ==
  ASSUME NEW S, NEW f \in Seq(S), NEW x \in S
  PROVE  /\ Append(f, x) \in Seq(S) /\ Len(Append(f, x)) = Len(f) + 1
         /\ Append(f, x)[Len(f) + 1] = x /\ \A j \in 1..Len(f) : Append(f, x)[j] = f[j]
<1>1. Len(f) \in Nat
  BY ListIs
<1>. QED
  BY <1>1

-----------------------------------------------------------------------------
(* Masks.                                                                  *)

\* A mask is finite, and marks three levels at most.
LEMMA MaskIsFinite ==
  ASSUME NEW mask \in SUBSET Levels
  PROVE  IsFiniteSet(mask) /\ Cardinality(mask) \in 0..3
<1>1. IsFiniteSet(Levels) /\ Cardinality(Levels) = 3
  <2>1. 1 \in Int /\ 3 \in Int
    OBVIOUS
  <2>2. IsFiniteSet(1..3) /\ Cardinality(1..3) = IF 1 > 3 THEN 0 ELSE 3 - 1 + 1
    BY ONLY <2>1, FS_Interval, Zenon
  <2>. QED
    BY <2>2 DEF Levels
<1>. QED
  BY <1>1, FS_Subset, FS_CardinalityType

\* At or above its own level a mask is applied whole (level.rs).
LEMMA AppliedWhole ==
  ASSUME NEW mask \in SUBSET Levels, NEW l, \A k \in mask : k <= l
  PROVE  applied_mask(mask, l) = mask /\ hash_index(mask, l) = Cardinality(mask)
BY DEF applied_mask, hash_index

\* No marked level is above level_of (level.rs).
LEMMA LevelIsTop ==
  ASSUME NEW mask \in SUBSET Levels
  PROVE  \A k \in mask : k <= level_of(mask)
<1>1. CASE mask = {}
  BY <1>1
<1>2. CASE mask # {}
  <2>1. \E m \in mask : \A k \in mask : k <= m
    <3>1. \A k \in mask : k \in {1, 2, 3}
      BY DEF Levels
    <3>2. 3 \in mask \/ 2 \in mask \/ 1 \in mask
      BY <1>2, <3>1
    <3>3. CASE 3 \in mask
      BY <3>1, <3>3
    <3>4. CASE 3 \notin mask /\ 2 \in mask
      BY <3>1, <3>4
    <3>5. CASE 3 \notin mask /\ 2 \notin mask /\ 1 \in mask
      BY <3>1, <3>5
    <3>. QED
      BY <3>2, <3>3, <3>4, <3>5
  <2>. QED
    BY <1>2, <2>1 DEF level_of, Max
<1>. QED
  BY <1>1, <1>2

\* The last index opens at the mask's own level: none of it is above.
LEMMA OpensTop ==
  ASSUME NEW mask \in SUBSET Levels
  PROVE  LET L == Opens(mask, Cardinality(mask) + 1)
         IN L \in 0..3 /\ applied_mask(mask, L) = mask /\ \A k \in mask : k <= L
<1>. DEFINE n == Cardinality(mask)
            L == Opens(mask, n + 1)
<1>1. n \in Nat /\ IsFiniteSet(mask)
  BY MaskIsFinite
<1>2. hash_index(mask, 3) = n
  BY AppliedWhole DEF Levels
<1>3. \E l \in 0..3 : hash_index(mask, l) = (n + 1) - 1 /\ \A k \in 0..l - 1 : hash_index(mask, k) # (n + 1) - 1
  <2>. DEFINE h(l) == hash_index(mask, l)
  <2>. HIDE DEF n, h
  <2>1. h(3) = n /\ (n + 1) - 1 = n
    BY <1>1, <1>2 DEF h
  <2>2. \E l \in 0..3 : h(l) = n /\ \A k \in 0..l - 1 : h(k) # n
    <3>1. CASE h(0) = n
      <4>1. 0 \in 0..3 /\ \A k \in 0..0 - 1 : h(k) # n
        OBVIOUS
      <4>. QED
        BY <3>1, <4>1
    <3>2. CASE h(0) # n /\ h(1) = n
      <4>1. 1 \in 0..3 /\ \A k \in 0..1 - 1 : k = 0
        OBVIOUS
      <4>. QED
        BY <3>2, <4>1
    <3>3. CASE h(0) # n /\ h(1) # n /\ h(2) = n
      <4>1. 2 \in 0..3 /\ \A k \in 0..2 - 1 : k = 0 \/ k = 1
        OBVIOUS
      <4>. QED
        BY <3>3, <4>1
    <3>4. CASE h(0) # n /\ h(1) # n /\ h(2) # n
      <4>1. 3 \in 0..3 /\ \A k \in 0..3 - 1 : k = 0 \/ k = 1 \/ k = 2
        OBVIOUS
      <4>. QED
        BY <2>1, <3>4, <4>1
    <3>. QED
      BY <3>1, <3>2, <3>3, <3>4
  <2>. QED
    BY <2>1, <2>2 DEF h
<1>4. L \in 0..3 /\ hash_index(mask, L) = n
  <2>1. L \in 0..3 /\ hash_index(mask, L) = (n + 1) - 1
    BY <1>3 DEF Opens
  <2>. QED
    BY <1>1, <2>1
<1>5. applied_mask(mask, L) \subseteq mask
  BY DEF applied_mask
<1>6. applied_mask(mask, L) = mask
  BY <1>1, <1>4, <1>5, FS_Subset DEF hash_index
<1>. QED
  BY <1>4, <1>6 DEF applied_mask

\* At or above its own level an identity answers with its last hash (hash.rs).
LEMMA TopHash ==
  ASSUME NEW id, id.mask \in SUBSET Levels, NEW l, \A k \in id.mask : k <= l
  PROVE  hash_at(id, l) = id.hashes[Cardinality(id.mask) + 1]
<1>. DEFINE n == Cardinality(id.mask) + 1
<1>1. hash_index(id.mask, l) + 1 = n /\ count(id) = n /\ n \in Nat
  BY AppliedWhole, MaskIsFinite DEF count
<1>2. AtLevel(id, l) = Min({n})
  BY <1>1 DEF AtLevel
<1>3. Min({n}) = n
  <2>. HIDE DEF n
  <2>. QED
    BY <1>1 DEF Min
<1>. QED
  BY <1>2, <1>3 DEF hash_at

-----------------------------------------------------------------------------
(* Hashes.                                                                 *)

\* A chain of hashes, each over the one below it and the first over the data.
IsChain(f, n, data, D, E, H) ==
  f = [i \in 1..n |-> Sum(D[i], IF i = 1 THEN data ELSE f[i - 1], E[i], H[i])]

\* There are such chains; no identity has more than four hashes.
LEMMA ChainExists ==
  ASSUME NEW n \in 0..4, NEW data, NEW D, NEW E, NEW H
  PROVE  \E f : IsChain(f, n, data, D, E, H)
<1>. DEFINE Good(m) == \E f : f = [i \in 1..m |-> Sum(D[i], IF i = 1 THEN data ELSE f[i - 1], E[i], H[i])]
<1>1. Good(0)
  <2>. DEFINE f0 == [i \in 1..0 |-> data]
  <2>1. f0 = [i \in 1..0 |-> Sum(D[i], IF i = 1 THEN data ELSE f0[i - 1], E[i], H[i])]
    OBVIOUS
  <2>. QED
    BY <2>1
<1>2. ASSUME NEW m \in Nat, Good(m)
      PROVE  Good(m + 1)
  <2>1. PICK f : f = [i \in 1..m |-> Sum(D[i], IF i = 1 THEN data ELSE f[i - 1], E[i], H[i])]
    BY <1>2
  <2>. DEFINE last == Sum(D[m + 1], IF m + 1 = 1 THEN data ELSE f[m], E[m + 1], H[m + 1])
              g == [i \in 1..m + 1 |-> IF i = m + 1 THEN last ELSE f[i]]
  <2>2. \A i \in 1..m : f[i] = Sum(D[i], IF i = 1 THEN data ELSE f[i - 1], E[i], H[i])
    <3>. HIDE DEF Good
    <3>. QED
      BY <2>1
  <2>3. \A i \in 1..m : g[i] = f[i]
    OBVIOUS
  <2>4. ASSUME NEW i \in 1..m + 1
        PROVE  g[i] = Sum(D[i], IF i = 1 THEN data ELSE g[i - 1], E[i], H[i])
    <3>1. i # 1 => g[i - 1] = f[i - 1]
      BY <2>3
    <3>2. CASE i = m + 1
      <4>1. g[i] = last
        BY <3>2
      <4>2. i = 1 \/ g[i - 1] = f[m]
        BY <3>1, <3>2
      <4>3. i = 1 <=> m + 1 = 1
        BY <3>2
      <4>. HIDE DEF g
      <4>. QED
        BY <3>2, <4>1, <4>2, <4>3
    <3>3. CASE i # m + 1
      <4>1. i \in 1..m
        BY <3>3
      <4>2. g[i] = f[i]
        BY <2>3, <4>1
      <4>. HIDE DEF g, last
      <4>. QED
        BY <2>2, <3>1, <4>1, <4>2
    <3>. QED
      BY <3>2, <3>3
  <2>5. g = [i \in 1..m + 1 |-> Sum(D[i], IF i = 1 THEN data ELSE g[i - 1], E[i], H[i])]
    <3>1. g = [i \in 1..m + 1 |-> g[i]]
      OBVIOUS
    <3>. HIDE DEF g
    <3>. QED
      BY <2>4, <3>1
  <2>. QED
    BY <2>5
<1>. HIDE DEF Good
<1>3. Good(0 + 1) /\ Good(1 + 1) /\ Good(2 + 1) /\ Good(3 + 1)
  <2>1. Good(0 + 1)
    BY <1>1, <1>2
  <2>2. Good(1 + 1)
    BY <1>2, <2>1
  <2>3. Good(2 + 1)
    BY <1>2, <2>2
  <2>4. Good(3 + 1)
    BY <1>2, <2>3
  <2>. QED
    BY <2>1, <2>2, <2>3, <2>4
<1>4. Good(n)
  BY <1>1, <1>3
<1>. QED
  BY <1>4 DEF Good, IsChain

\* What compute derives: at each index a hash over the descriptor, the hash
\* below or the data, and the children (DeriveIdentity in hash.rs).
LEMMA DerivedHashes ==
  ASSUME NEW data, NEW ids, NEW type, NEW mask \in SUBSET Levels
  PROVE  LET id == DeriveIdentity(data, ids, type, mask)
         IN /\ id.mask = mask
            /\ \A i \in 1..Cardinality(mask) + 1 :
                 id.hashes[i] = Sum(refs_descriptor(Len(ids), type # "Ordinary", mask, Opens(mask, i)),
                                    IF i = 1 THEN data ELSE id.hashes[i - 1],
                                    RefDepths(ids, type, Opens(mask, i)), RefHashes(ids, type, Opens(mask, i)))
<1>. DEFINE n == Cardinality(mask) + 1
            d(i) == refs_descriptor(Len(ids), type # "Ordinary", mask, Opens(mask, i))
            e(i) == RefDepths(ids, type, Opens(mask, i))
            h(i) == RefHashes(ids, type, Opens(mask, i))
            Solves(f) == f = [i \in 1..n |-> Sum(d(i), IF i = 1 THEN data ELSE f[i - 1], e(i), h(i))]
            chain == CHOOSE f : Solves(f)
            id == DeriveIdentity(data, ids, type, mask)
<1>1. n \in 0..4
  BY MaskIsFinite
<1>2. \E f : Solves(f)
  <2>. DEFINE D == [i \in 1..n |-> d(i)]
              E == [i \in 1..n |-> e(i)]
              H == [i \in 1..n |-> h(i)]
  <2>. HIDE DEF n, d, e, h
  <2>1. PICK f : IsChain(f, n, data, D, E, H)
    <3>. HIDE DEF D, E, H
    <3>. QED
      BY <1>1, ChainExists
  <2>2. f = [i \in 1..n |-> Sum(d(i), IF i = 1 THEN data ELSE f[i - 1], e(i), h(i))]
    BY <2>1 DEF IsChain
  <2>. QED
    BY <2>2
<1>3. Solves(chain)
  <2>. HIDE DEF Solves
  <2>. QED
    BY <1>2
<1>4. \A i \in 1..n : chain[i] = Sum(d(i), IF i = 1 THEN data ELSE chain[i - 1], e(i), h(i))
  <2>. HIDE DEF n, d, e, h, chain
  <2>. QED
    BY <1>3
<1>5. id.mask = mask /\ id.hashes = [i \in 1..n |-> chain[i]]
  BY DEF DeriveIdentity, Opens, Up, RefDepths, RefHashes
<1>. QED
  <2>1. \A i \in 1..n : i = 1 \/ i - 1 \in 1..n
    BY <1>1
  <2>. HIDE DEF n, d, e, h, chain, id
  <2>2. \A i \in 1..n : id.hashes[i] = Sum(d(i), IF i = 1 THEN data ELSE id.hashes[i - 1], e(i), h(i))
    BY <1>4, <1>5, <2>1
  <2>. QED
    BY <1>5, <2>2 DEF n, d, e, h, id

-----------------------------------------------------------------------------
(* Cells.  What every cell read has: the parts classify let through, an    *)
(* identity computed from them and a mask its children imply.              *)

Shape(c, P) ==
  /\ c = [type |-> c.type, data |-> c.data, refs |-> c.refs, id |-> c.id]
  /\ \E n \in 0..MAX_REFS : c.refs \in [1..n -> P]
  /\ \/ c.type = "Ordinary"
     \/ c.type \in Exotic /\ c.type = c.data[1] /\ Len(c.refs) = ExpectedRefs(c.type)
  /\ c.id.mask \in SUBSET Levels
  /\ c.id = compute(c.data, Ids(c.refs), c.type, c.id.mask)
  /\ IF c.type = "PrunedBranch"
     THEN /\ c.id.mask = c.data[2] /\ c.id.mask # {}
          /\ \E S : c.data[3] \in Seq(S)
          /\ Len(c.data[3]) = Cardinality(c.id.mask)
     ELSE c.id.mask = implied_mask(c.type, Union(c.refs), c.id.mask)

\* Cells that were read, each after its children.
Shaped(P) == \A k \in P : \E Q : Shape(k, Q)

\* The number of references, and the children's identities as a list.
LEMMA RefsAreCells ==
  ASSUME NEW P, NEW c, Shape(c, P)
  PROVE  /\ Len(c.refs) \in 0..MAX_REFS /\ c.refs \in [1..Len(c.refs) -> P]
         /\ DOMAIN Ids(c.refs) = 1..Len(c.refs) /\ Len(Ids(c.refs)) = Len(c.refs)
         /\ \A r \in 1..Len(c.refs) : Ids(c.refs)[r] = c.refs[r].id
<1>1. PICK n \in 0..MAX_REFS : c.refs \in [1..n -> P]
  BY DEF Shape
<1>2. c.refs \in Seq(P) /\ Len(c.refs) = n
  BY <1>1 DEF MAX_REFS
<1>3. Ids(c.refs) = [r \in 1..n |-> c.refs[r].id]
  BY <1>1 DEF Ids
<1>4. Len(Ids(c.refs)) = n
  BY <1>1, <1>3 DEF MAX_REFS
<1>. QED
  BY <1>1, <1>2, <1>3, <1>4

\* The hash a cell is known by is the last of its identity (Cell::repr_hash).
LEMMA ReprIsLast ==
  ASSUME NEW P, NEW c, Shape(c, P)
  PROVE  repr_hash(c) = c.id.hashes[Cardinality(c.id.mask) + 1]
<1>1. c.id.mask \in SUBSET Levels
  BY DEF Shape
<1>2. \A k \in c.id.mask : k <= level_of(c.id.mask)
  BY <1>1, LevelIsTop
<1>. QED
  BY <1>1, <1>2, TopHash DEF repr_hash, level

\* The descriptor of a cell's last hash, and its flag.
exotic(c) == c.type # "Ordinary"
Descriptor(c) == <<Len(c.refs), exotic(c), c.id.mask>>

\* Equal descriptors are of equal parts.
LEMMA DescriptorIsOneToOne ==
  ASSUME NEW c, NEW d, Descriptor(c) = Descriptor(d)
  PROVE  Len(c.refs) = Len(d.refs) /\ exotic(c) = exotic(d) /\ c.id.mask = d.id.mask
BY DEF Descriptor

\* A pruned branch is known by the hash over its descriptor and its data.
LEMMA PrunedIsKnownBy ==
  ASSUME NEW P, NEW c, Shape(c, P), c.type = "PrunedBranch"
  PROVE  repr_hash(c) = Sum(Descriptor(c), c.data, <<>>, <<>>)
<1>. DEFINE mask == c.id.mask
            top == Sum(refs_descriptor(0, TRUE, mask, level_of(mask)), c.data, <<>>, <<>>)
<1>1. mask \in SUBSET Levels /\ Len(c.data[3]) = Cardinality(mask)
  BY DEF Shape
<1>2. PICK S : c.data[3] \in Seq(S)
  BY DEF Shape
<1>3. c.id = PrunedIdentity(c.data, mask)
  BY DEF Shape, compute
<1>4. c.id.hashes = Append(c.data[3], top)
  <2>. HIDE DEF mask
  <2>1. PrunedIdentity(c.data, mask).hashes = Append(c.data[3], top)
    BY DEF PrunedIdentity
  <2>. HIDE DEF top
  <2>. QED
    BY <1>3, <2>1, Zenon
<1>5. c.id.hashes[Cardinality(mask) + 1] = top
  <2>. HIDE DEF top, mask
  <2>1. c.data[3] \in Seq(S \cup {top}) /\ top \in S \cup {top}
    BY <1>2
  <2>. QED
    BY <1>1, <1>4, <2>1
<1>6. applied_mask(mask, level_of(mask)) = mask
  <2>1. \A k \in mask : k <= level_of(mask)
    BY <1>1, LevelIsTop
  <2>. HIDE DEF mask
  <2>. QED
    BY <1>1, <2>1, AppliedWhole
<1>7. refs_descriptor(0, TRUE, mask, level_of(mask)) = Descriptor(c)
  <2>1. Len(c.refs) = 0 /\ exotic(c) = TRUE
    BY DEF Shape, ExpectedRefs, exotic
  <2>. HIDE DEF mask
  <2>. QED
    BY <1>6, <2>1 DEF refs_descriptor, Descriptor, mask
<1>. QED
  BY <1>5, <1>7, ReprIsLast

\* What the last hash of any other cell has below it.
Below(c) == IF c.id.mask = {} THEN c.data ELSE c.id.hashes[Cardinality(c.id.mask)]

\* The levels a child marks are no higher than the level its parent's last hash
\* takes it at (implied_mask, and one level up for a Merkle cell).
LEMMA ChildrenAreBelow ==
  ASSUME NEW P, NEW c, Shape(c, P), c.type # "PrunedBranch", NEW r \in 1..Len(c.refs),
         c.refs[r].id.mask \in SUBSET Levels
  PROVE  \A k \in c.refs[r].id.mask : k <= Up(c.type, Opens(c.id.mask, Cardinality(c.id.mask) + 1))
<1>. DEFINE L == Opens(c.id.mask, Cardinality(c.id.mask) + 1)
            child == c.refs[r].id.mask
<1>1. c.id.mask \in SUBSET Levels
  BY DEF Shape
<1>2. L \in 0..3 /\ \A k \in c.id.mask : k <= L
  BY <1>1, OpensTop
<1>3. child \subseteq Union(c.refs)
  <2>1. r \in DOMAIN c.refs
    BY RefsAreCells
  <2>. QED
    BY <2>1 DEF Union
<1>4. c.id.mask = implied_mask(c.type, Union(c.refs), c.id.mask)
  BY DEF Shape
<1>. HIDE DEF L, child
<1>5. CASE is_merkle(c.type)
  <2>1. c.id.mask = Lowered(Union(c.refs))
    <3>1. c.type # "LibraryReference"
      BY <1>5 DEF is_merkle
    <3>. QED
      BY <1>4, <1>5, <3>1 DEF implied_mask
  <2>2. ASSUME NEW k \in child
        PROVE  k <= L + 1
    <3>1. k \in 1..3
      BY DEF child, Levels
    <3>2. CASE k = 1
      BY <1>2, <3>2
    <3>3. CASE k # 1
      <4>1. k - 1 \in Lowered(Union(c.refs))
        BY <1>3, <3>3 DEF Lowered
      <4>. QED
        BY <1>2, <2>1, <3>1, <4>1
    <3>. QED
      BY <3>2, <3>3
  <2>. QED
    BY <1>5, <2>2 DEF Up, L, child
<1>6. CASE ~is_merkle(c.type)
  <2>1. c.type # "LibraryReference"
    <3>1. ASSUME c.type = "LibraryReference"
          PROVE  FALSE
      <4>1. Len(c.refs) = 0
        BY <3>1 DEF Shape, ExpectedRefs
      <4>. QED
        BY <4>1
    <3>. QED
      BY <3>1
  <2>2. c.id.mask = Union(c.refs)
    BY <1>4, <1>6, <2>1 DEF implied_mask
  <2>. QED
    BY <1>2, <1>3, <1>6, <2>2 DEF Up, L, child
<1>. QED
  BY <1>5, <1>6

\* Any other cell is known by a hash over its descriptor, what is below its last
\* hash, and its children by the hashes they are known by.
LEMMA DerivedIsKnownBy ==
  ASSUME NEW P, NEW c, Shape(c, P), c.type # "PrunedBranch", Shaped(P)
  PROVE  \E depths, hashes :
           /\ repr_hash(c) = Sum(Descriptor(c), Below(c), depths, hashes)
           /\ \A r \in 1..Len(c.refs) : hashes[r] = repr_hash(c.refs[r])
<1>. DEFINE mask == c.id.mask
            n == Cardinality(mask)
            ids == Ids(c.refs)
            L == Opens(mask, n + 1)
            depths == RefDepths(ids, c.type, L)
            hashes == RefHashes(ids, c.type, L)
<1>1. mask \in SUBSET Levels /\ c.id = DeriveIdentity(c.data, ids, c.type, mask)
  BY DEF Shape, compute
<1>2. n \in 0..3 /\ (n = 0 <=> mask = {})
  BY <1>1, MaskIsFinite, FS_EmptySet
<1>3. c.id.hashes[n + 1] = Sum(refs_descriptor(Len(ids), c.type # "Ordinary", mask, L),
                               IF n + 1 = 1 THEN c.data ELSE c.id.hashes[(n + 1) - 1], depths, hashes)
  <2>1. n + 1 \in 1..n + 1
    BY <1>2
  <2>. HIDE DEF mask, ids
  <2>. QED
    BY <1>1, <2>1, DerivedHashes
<1>4. (IF n + 1 = 1 THEN c.data ELSE c.id.hashes[(n + 1) - 1]) = Below(c)
  BY <1>2 DEF Below
<1>5. refs_descriptor(Len(ids), c.type # "Ordinary", mask, L) = Descriptor(c)
  <2>1. applied_mask(mask, L) = mask
    BY <1>1, OpensTop
  <2>2. Len(ids) = Len(c.refs)
    BY RefsAreCells
  <2>. QED
    BY <2>1, <2>2, Zenon DEF refs_descriptor, exotic, Descriptor
<1>6. ASSUME NEW r \in 1..Len(c.refs)
      PROVE  hashes[r] = repr_hash(c.refs[r])
  <2>1. c.refs[r] \in P /\ r \in DOMAIN ids /\ ids[r] = c.refs[r].id
    BY RefsAreCells
  <2>2. PICK Q : Shape(c.refs[r], Q)
    BY <2>1 DEF Shaped
  <2>3. c.refs[r].id.mask \in SUBSET Levels
    BY <2>2 DEF Shape
  <2>4. \A k \in c.refs[r].id.mask : k <= Up(c.type, L)
    BY <2>3, ChildrenAreBelow
  <2>5. hash_at(c.refs[r].id, Up(c.type, L)) = c.refs[r].id.hashes[Cardinality(c.refs[r].id.mask) + 1]
    <3>. HIDE DEF L
    <3>. QED
      BY <2>3, <2>4, TopHash
  <2>6. hashes[r] = hash_at(c.refs[r].id, Up(c.type, L))
    BY <2>1 DEF RefHashes
  <2>. QED
    BY <2>2, <2>5, <2>6, ReprIsLast
<1>7. repr_hash(c) = c.id.hashes[n + 1]
  BY ReprIsLast
<1>. HIDE DEF depths, hashes, L, ids
<1>. QED
  BY <1>3, <1>4, <1>5, <1>6, <1>7

-----------------------------------------------------------------------------
(* One hash, one cell.                                                     *)

\* Each hash is over the one below it, and the lowest over the data.
LEMMA HashOverBelow ==
  ASSUME NEW P, NEW c, Shape(c, P), c.type # "PrunedBranch"
  PROVE  \A i \in 1..Cardinality(c.id.mask) + 1 : \E a, e, h :
           c.id.hashes[i] = Sum(a, IF i = 1 THEN c.data ELSE c.id.hashes[i - 1], e, h)
<1>. DEFINE mask == c.id.mask
            ids == Ids(c.refs)
            id == DeriveIdentity(c.data, ids, c.type, mask)
<1>1. mask \in SUBSET Levels /\ c.id = id
  BY DEF Shape, compute
<1>. SUFFICES ASSUME NEW i \in 1..Cardinality(mask) + 1
              PROVE  \E a, e, h : c.id.hashes[i] = Sum(a, IF i = 1 THEN c.data ELSE c.id.hashes[i - 1], e, h)
  OBVIOUS
<1>2. id.hashes[i] = Sum(refs_descriptor(Len(ids), c.type # "Ordinary", mask, Opens(mask, i)),
                         IF i = 1 THEN c.data ELSE id.hashes[i - 1],
                         RefDepths(ids, c.type, Opens(mask, i)), RefHashes(ids, c.type, Opens(mask, i)))
  <2>. HIDE DEF mask, ids
  <2>. QED
    BY <1>1, DerivedHashes
<1>. HIDE DEF id
<1>. QED
  BY <1>1, <1>2

\* Below equal last hashes, under one mask, lie the same data.
LEMMA SameData ==
  ASSUME NEW P, NEW c, Shape(c, P), c.type # "PrunedBranch",
         NEW Q, NEW d, Shape(d, Q), d.type # "PrunedBranch",
         c.id.mask = d.id.mask,
         c.id.hashes[Cardinality(c.id.mask) + 1] = d.id.hashes[Cardinality(c.id.mask) + 1]
  PROVE  c.data = d.data
<1>. DEFINE mask == c.id.mask
            n == Cardinality(mask)
            x == c.id.hashes
            y == d.id.hashes
<1>1. mask \in SUBSET Levels /\ n \in 0..3
  BY MaskIsFinite DEF Shape
<1>2. /\ \A i \in 1..n + 1 : \E a, e, h : x[i] = Sum(a, IF i = 1 THEN c.data ELSE x[i - 1], e, h)
      /\ \A i \in 1..n + 1 : \E a, e, h : y[i] = Sum(a, IF i = 1 THEN d.data ELSE y[i - 1], e, h)
  BY HashOverBelow
<1>3. \A i \in 1..n + 1 : \E a, e, h, b, f, g :
        /\ x[i] = Sum(a, IF i = 1 THEN c.data ELSE x[i - 1], e, h)
        /\ y[i] = Sum(b, IF i = 1 THEN d.data ELSE y[i - 1], f, g)
  <2>. HIDE DEF n, x, y
  <2>. QED
    BY <1>2
<1>4. x[n + 1] = y[n + 1]
  OBVIOUS
<1>. HIDE DEF mask, n, x, y
<1>5. ASSUME NEW i \in 1..n + 1, x[i] = y[i]
      PROVE  IF i = 1 THEN c.data = d.data ELSE x[i - 1] = y[i - 1]
  BY <1>3, <1>5 DEF Sum
<1>6. x[1] = y[1] => c.data = d.data
  BY <1>1, <1>5
<1>7. n >= 1 /\ x[2] = y[2] => x[1] = y[1]
  BY <1>1, <1>5
<1>8. n >= 2 /\ x[3] = y[3] => x[2] = y[2]
  BY <1>1, <1>5
<1>9. n >= 3 /\ x[4] = y[4] => x[3] = y[3]
  BY <1>1, <1>5
<1>. QED
  BY <1>1, <1>4, <1>6, <1>7, <1>8, <1>9

\* No pruned branch is known by the hash of another kind of cell: its data would
\* be the hash below that cell's last.
LEMMA PrunedIsApart ==
  ASSUME NEW P, NEW c, Shape(c, P), c.type = "PrunedBranch",
         NEW d, Shape(d, P), d.type # "PrunedBranch", Shaped(P)
  PROVE  repr_hash(c) # repr_hash(d)
<1>. SUFFICES ASSUME repr_hash(c) = repr_hash(d)
              PROVE  FALSE
  OBVIOUS
<1>1. repr_hash(c) = Sum(Descriptor(c), c.data, <<>>, <<>>)
  BY PrunedIsKnownBy
<1>2. PICK depths, hashes :
        repr_hash(d) = Sum(Descriptor(d), Below(d), depths, hashes)
  BY DerivedIsKnownBy
<1>3. c.id.mask = d.id.mask /\ c.data = Below(d)
  <2>1. Sum(Descriptor(c), c.data, <<>>, <<>>) = Sum(Descriptor(d), Below(d), depths, hashes)
    BY <1>1, <1>2
  <2>2. Descriptor(c) = Descriptor(d) /\ c.data = Below(d)
    BY <2>1 DEF Sum
  <2>. QED
    BY <2>2, DescriptorIsOneToOne
<1>4. c.data[1] = "PrunedBranch" /\ c.id.mask # {} /\ c.id.mask \in SUBSET Levels
  BY DEF Shape
<1>. DEFINE mask == d.id.mask
            n == Cardinality(mask)
<1>5. n \in 1..3
  BY <1>3, <1>4, MaskIsFinite, FS_EmptySet
<1>6. d.id = DeriveIdentity(d.data, Ids(d.refs), d.type, mask)
  BY DEF Shape, compute
<1>7. PICK a, b, e, h : d.id.hashes[n] = Sum(a, b, e, h)
  <2>. HIDE DEF mask
  <2>1. n \in 1..n + 1 /\ mask \in SUBSET Levels
    BY <1>3, <1>4, <1>5 DEF mask
  <2>. QED
    BY <1>6, <2>1, DerivedHashes
<1>. QED
  BY <1>3, <1>4, <1>7 DEF Below, Sum

\* Two cells of one hash have the same kind, data and mask, as many references,
\* and children of the same hashes.
LEMMA SameParts ==
  ASSUME NEW P, NEW c, Shape(c, P), NEW d, Shape(d, P),
         Shaped(P), repr_hash(c) = repr_hash(d)
  PROVE  /\ c.type = d.type /\ c.data = d.data /\ c.id.mask = d.id.mask
         /\ Len(c.refs) = Len(d.refs)
         /\ \A r \in 1..Len(c.refs) : repr_hash(c.refs[r]) = repr_hash(d.refs[r])
<1>1. CASE c.type = "PrunedBranch" /\ d.type = "PrunedBranch"
  <2>1. /\ repr_hash(c) = Sum(Descriptor(c), c.data, <<>>, <<>>)
        /\ repr_hash(d) = Sum(Descriptor(d), d.data, <<>>, <<>>)
    BY <1>1, PrunedIsKnownBy
  <2>2. c.id.mask = d.id.mask /\ c.data = d.data
    <3>1. Sum(Descriptor(c), c.data, <<>>, <<>>) = Sum(Descriptor(d), d.data, <<>>, <<>>)
      BY <2>1
    <3>2. Descriptor(c) = Descriptor(d) /\ c.data = d.data
      BY <3>1 DEF Sum
    <3>. QED
      BY <3>2, DescriptorIsOneToOne
  <2>3. Len(c.refs) = 0 /\ Len(d.refs) = 0
    BY <1>1 DEF Shape, ExpectedRefs
  <2>. QED
    BY <1>1, <2>2, <2>3
<1>2. CASE c.type # "PrunedBranch" /\ d.type # "PrunedBranch"
  <2>1. PICK e, h : /\ repr_hash(c) = Sum(Descriptor(c), Below(c), e, h)
                    /\ \A r \in 1..Len(c.refs) : h[r] = repr_hash(c.refs[r])
    BY <1>2, DerivedIsKnownBy
  <2>2. PICK f, g : /\ repr_hash(d) = Sum(Descriptor(d), Below(d), f, g)
                    /\ \A r \in 1..Len(d.refs) : g[r] = repr_hash(d.refs[r])
    BY <1>2, DerivedIsKnownBy
  <2>3. /\ Len(c.refs) = Len(d.refs) /\ exotic(c) = exotic(d) /\ c.id.mask = d.id.mask
        /\ h = g
    <3>1. Sum(Descriptor(c), Below(c), e, h) = Sum(Descriptor(d), Below(d), f, g)
      BY <2>1, <2>2
    <3>2. Descriptor(c) = Descriptor(d) /\ h = g
      BY <3>1 DEF Sum
    <3>. QED
      BY <3>2, DescriptorIsOneToOne
  <2>4. \A r \in 1..Len(c.refs) : repr_hash(c.refs[r]) = repr_hash(d.refs[r])
    BY <2>1, <2>2, <2>3
  <2>5. c.data = d.data
    BY <1>2, <2>3, ReprIsLast, SameData
  <2>6. c.type = d.type
    BY <2>3, <2>5 DEF Shape, exotic
  <2>. QED
    BY <2>3, <2>4, <2>5, <2>6
<1>3. ~(c.type = "PrunedBranch" /\ d.type # "PrunedBranch")
  BY PrunedIsApart
<1>4. ~(c.type # "PrunedBranch" /\ d.type = "PrunedBranch")
  BY PrunedIsApart
<1>. QED
  BY <1>1, <1>2, <1>3, <1>4

\* The parts decide the mask and so the identity (implied_mask, compute).
LEMMA PartsDecide ==
  ASSUME NEW P, NEW c, Shape(c, P), NEW Q, NEW d, Shape(d, Q),
         c.type = d.type, c.data = d.data, c.refs = d.refs
  PROVE  c = d
<1>1. c.id.mask = d.id.mask
  <2>1. CASE c.type = "PrunedBranch"
    BY <2>1 DEF Shape
  <2>2. CASE c.type # "PrunedBranch"
    <3>1. \A u : implied_mask(c.type, Union(c.refs), u) = implied_mask(c.type, Union(c.refs), c.id.mask)
      BY <2>2 DEF implied_mask, is_merkle, Shape, Exotic
    <3>2. /\ c.id.mask = implied_mask(c.type, Union(c.refs), c.id.mask)
          /\ d.id.mask = implied_mask(c.type, Union(c.refs), d.id.mask)
      BY <2>2 DEF Shape
    <3>. QED
      BY <3>1, <3>2
  <2>. QED
    BY <2>1, <2>2
<1>2. c.id = d.id
  BY <1>1 DEF Shape
<1>3. /\ c = [type |-> c.type, data |-> c.data, refs |-> c.refs, id |-> c.id]
      /\ d = [type |-> d.type, data |-> d.data, refs |-> d.refs, id |-> d.id]
  BY DEF Shape
<1>. QED
  BY <1>2, <1>3

\* Two cells over children told apart by their hashes are told apart by theirs.
LEMMA HashDecides ==
  ASSUME NEW P, NEW c, Shape(c, P), NEW d, Shape(d, P), Shaped(P),
         \A k, l \in P : repr_hash(k) = repr_hash(l) => k = l,
         repr_hash(c) = repr_hash(d)
  PROVE  c = d
<1>1. /\ c.type = d.type /\ c.data = d.data /\ Len(c.refs) = Len(d.refs)
      /\ \A r \in 1..Len(c.refs) : repr_hash(c.refs[r]) = repr_hash(d.refs[r])
  BY SameParts
<1>2. c.refs \in [1..Len(c.refs) -> P] /\ d.refs \in [1..Len(c.refs) -> P]
  BY <1>1, RefsAreCells
<1>3. c.refs = d.refs
  BY <1>1, <1>2
<1>. QED
  BY <1>1, <1>3, PartsDecide

-----------------------------------------------------------------------------
(* The pool.                                                               *)

\* What was read over a pool has its shape over a larger one.
LEMMA ShapeStays ==
  ASSUME NEW P, NEW Q, P \subseteq Q, NEW c, Shape(c, P)
  PROVE  Shape(c, Q)
<1>1. PICK n \in 0..MAX_REFS : c.refs \in [1..n -> P]
  BY DEF Shape
<1>2. c.refs \in [1..n -> Q]
  BY <1>1
<1>. QED
  BY <1>2 DEF Shape

\* A cell that classify and from_parts let through has the shape.
LEMMA ReadIsShaped ==
  ASSUME NEW P, \A k \in P : k.id.mask \in SUBSET Levels,
         NEW ex \in BOOLEAN, NEW data \in WireData, NEW mask \in WireMasks, NEW n \in 0..WireRefs,
         NEW refs \in [1..n -> P], read_cell(ex, data, mask, refs).ok
  PROVE  Shape(read_cell(ex, data, mask, refs).cell, P)
<1>. DEFINE type == classify(ex, data, mask, Len(refs))
            cell == read_cell(ex, data, mask, refs).cell
            id == compute(data, Ids(refs), type, mask)
<1>1. mask \in SUBSET Levels /\ n \in 0..MAX_REFS
  BY WireAssumption DEF MAX_REFS
<1>2. Len(refs) = n
  BY <1>1 DEF MAX_REFS
<1>3. type # "refused" /\ read_cell(ex, data, mask, refs) = from_parts(data, refs, type, mask)
  BY DEF read_cell, Nothing
<1>4. summarize(data, Ids(refs), type, mask).ok
  BY <1>3 DEF from_parts, Nothing
<1>5. /\ mask = implied_mask(type, UNION {Ids(refs)[i].mask : i \in DOMAIN Ids(refs)}, mask)
      /\ summarize(data, Ids(refs), type, mask).id = id
  BY <1>4 DEF summarize, Unidentified
<1>6. cell = [type |-> type, data |-> data, refs |-> refs, id |-> id]
  BY <1>3, <1>4, <1>5 DEF from_parts
<1>7. UNION {Ids(refs)[i].mask : i \in DOMAIN Ids(refs)} = Union(refs)
  BY DEF Ids, Union
<1>8. id.mask = mask
  BY <1>1, DerivedHashes DEF compute, PrunedIdentity
<1>9. \/ type = "Ordinary"
      \/ type \in Exotic /\ type = data[1] /\ n = ExpectedRefs(type)
  BY <1>2, <1>3 DEF classify
<1>10. ASSUME type = "PrunedBranch"
       PROVE  /\ mask = data[2] /\ mask # {}
              /\ \E S : data[3] \in Seq(S)
              /\ Len(data[3]) = Cardinality(mask)
  <2>1. ex /\ data[1] = "PrunedBranch" /\ Len(data) = 4 /\ data[2] = mask /\ mask # {} /\ Len(data[3]) = Cardinality(mask)
    BY <1>3, <1>10 DEF classify
  <2>2. data[3] \in Seq({data[3][i] : i \in DOMAIN data[3]})
    BY <2>1, WireAssumption
  <2>. QED
    BY <2>1, <2>2
<1>. HIDE DEF type, id
<1>11. cell.type = type /\ cell.data = data /\ cell.refs = refs /\ cell.id = id
  BY <1>6
<1>. HIDE DEF cell
<1>12. Shape(cell, P)
  BY <1>1, <1>2, <1>5, <1>6, <1>7, <1>8, <1>9, <1>10, <1>11 DEF Shape, id
<1>. QED
  BY <1>12 DEF cell

\* Every cell read has its shape over the cells read, and the invariant.
WireInv == (\A c \in pool : Shape(c, pool)) /\ OneIdentityOneCell

\* A cell more.
LEMMA ReadKeepsInv ==
  ASSUME WireInv, [WireNext]_wireVars
  PROVE  WireInv'
<1>1. CASE UNCHANGED wireVars
  BY <1>1 DEF WireInv, wireVars, OneIdentityOneCell
<1>2. CASE WireNext
  <2>1. PICK ex \in BOOLEAN, data \in WireData, mask \in WireMasks, n \in 0..WireRefs :
          \E refs \in [1..n -> pool] : /\ read_cell(ex, data, mask, refs).ok
                                       /\ pool' = pool \cup {read_cell(ex, data, mask, refs).cell}
    BY <1>2 DEF WireNext, ReadCell
  <2>2. PICK refs \in [1..n -> pool] : /\ read_cell(ex, data, mask, refs).ok
                                       /\ pool' = pool \cup {read_cell(ex, data, mask, refs).cell}
    BY <2>1
  <2>. DEFINE new == read_cell(ex, data, mask, refs).cell
  <2>3. /\ \A c \in pool : Shape(c, pool)
        /\ \A c, d \in pool : repr_hash(c) = repr_hash(d) => c = d
    BY DEF WireInv, OneIdentityOneCell
  <2>4. Shape(new, pool)
    <3>1. \A k \in pool : k.id.mask \in SUBSET Levels
      BY <2>3 DEF Shape
    <3>. QED
      BY <2>2, <3>1, ReadIsShaped
  <2>. HIDE DEF new
  <2>5. pool' = pool \cup {new}
    BY <2>2 DEF new
  <2>6. \A c \in pool' : Shape(c, pool)
    BY <2>3, <2>4, <2>5
  <2>7. \A c \in pool' : Shape(c, pool')
    BY <2>5, <2>6, ShapeStays
  <2>8. Shaped(pool)
    BY <2>3 DEF Shaped
  <2>9. ASSUME NEW c \in pool', NEW d \in pool'
        PROVE  /\ repr_hash(c) = repr_hash(d) => c = d
               /\ c.type = d.type /\ c.data = d.data /\ c.refs = d.refs => c = d
    <3>1. Shape(c, pool) /\ Shape(d, pool)
      BY <2>6
    <3>2. repr_hash(c) = repr_hash(d) => c = d
      BY <2>3, <2>8, <3>1, HashDecides
    <3>3. c.type = d.type /\ c.data = d.data /\ c.refs = d.refs => c = d
      BY <3>1, PartsDecide
    <3>. QED
      BY <3>2, <3>3
  <2>. QED
    BY <2>7, <2>9 DEF WireInv, OneIdentityOneCell
<1>. QED
  BY <1>1, <1>2

\* One identity, one cell, however many cells of whatever data, masks and
\* references are read: two with the same representation hash are one, and
\* the parts of a cell alone decide what it is known by (classify, summarize,
\* implied_mask, compute).
THEOREM CellIdentity == WireSpec => []OneIdentityOneCell
<1>1. WireInit => WireInv
  BY DEF WireInit, WireInv, OneIdentityOneCell
<1>2. WireInv /\ [WireNext]_wireVars => WireInv'
  BY ReadKeepsInv
<1>3. WireInv => OneIdentityOneCell
  BY DEF WireInv
<1>. QED
  BY <1>1, <1>2, <1>3, PTL DEF WireSpec
=============================================================================

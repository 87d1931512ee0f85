---------------------------- MODULE ClientProofs -----------------------------
(* What a caller of the client can rely on. First the check of an account    *)
(* read, for every chain, every address and every bag of proofs and state    *)
(* bytes: IndInv says what each stage of it has established when it hands    *)
(* over to the next. Then the Node binding, whose calls make those reads,    *)
(* for any number of pending calls and any chain: NodeInv says why           *)
(* overlapping calls do not disturb each other. The lock is held from a      *)
(* call's first query to its last, a query is in flight only on an open      *)
(* session, and nobody calls a client that is not there yet.                 *)
EXTENDS AccountProof, NodeClient, WellFoundedInduction, TLAPS

Shards(r) == State[Block[r.trusted]].shards

(* The read under way names a block and an account that exist as such. *)
Known == /\ stage \in {"shard", "tree", "block", "bytes"} =>
              read.trusted \in DOMAIN Block /\ read.account_id \in AccountIds
         /\ stage \in {"shard", "tree"} => read.workchain # MASTERCHAIN

(* The walk is in the workchain's own tree, on the account's path, and has   *)
(* not passed the leaf that covers the account.                              *)
OnPath == stage = "tree" =>
  /\ read.workchain \in DOMAIN Shards(read)
  /\ tree.leaves = Shards(read)[read.workchain]
  /\ node = SubSeq(read.account_id, 1, Len(node))
  /\ \E l \in DOMAIN tree.leaves : /\ IsPrefixOf(l, read.account_id)
                                   /\ Len(node) <= Len(l) /\ Len(l) <= MAX_SPLIT_DEPTH
  /\ honest => tree.pruned = {}

(* The block is the account's own, and the entry what its state holds. *)
AtHome == stage \in {"block", "bytes"} => origin \in Home(read) /\ origin \in DOMAIN Block
Held == stage = "bytes" =>
  LET accounts == State[Block[origin]].accounts
  IN  entry = IF read.account_id \in DOMAIN accounts THEN accounts[read.account_id] ELSE NotFound

IndInv == /\ TypeOK /\ Known /\ OnPath /\ AtHome /\ Held
          /\ ProvedIsTrue /\ WholeAnswerIsAccepted

----------------------------------------------------------------------------
(* A root that rooted_at returns has the hash it was asked for. *)
LEMMA Anchored ==
  ASSUME NEW roots, NEW h, rooted_at(roots, h) # Nil
  PROVE  rooted_at(roots, h).content = h
BY Zenon DEF rooted_at, verify_merkle_proof

(* Two proofs of one bag, the second rooted at what the first shows: the     *)
(* state is the one the block leaves.                                        *)
LEMMA StateOfBlock ==
  ASSUME NEW roots, NEW h \in DOMAIN Block, StateOf(roots, h) # Nil
  PROVE  StateOf(roots, h).content = Block[h] /\ Block[h] \in DOMAIN State
<1> DEFINE s == verify_block_state(roots, h)
<1>1. s # Nil /\ StateOf(roots, h) = verify_shard_state(roots, s)
  BY DEF StateOf
<1>2. s = Block[h]
  BY <1>1, Anchored DEF verify_block_state
<1>3. rooted_at(roots, s) # Nil /\ verify_shard_state(roots, s) = rooted_at(roots, s)
  BY <1>1 DEF StateOf, verify_shard_state
<1>4. rooted_at(roots, s).content = s
  BY <1>3, Anchored
<1> QED
  BY <1>1, <1>2, <1>3, <1>4, WorldAssumption

(* Of some numbers one is the least. *)
LEMMA Least ==
  ASSUME NEW T \in SUBSET Nat, T # {}
  PROVE  \E x \in T : \A y \in T : x <= y
<1> DEFINE Less == {p \in Nat \X Nat : p[1] < p[2]}
<1>1. IsWellFoundedOn(Less, Nat)
  BY NatLessThanWellFounded DEF OpToRel
<1>2. PICK x \in T : \A y \in T : ~(<<y, x>> \in Less)
  <2> HIDE DEF Less
  <2> QED
    BY <1>1, WFMin, Zenon
<1>3. ASSUME NEW y \in T PROVE x <= y
  <2>1. x \in Nat /\ y \in Nat /\ ~(y < x)
    BY <1>2
  <2> QED
    BY <2>1
<1> QED
  BY <1>3

(* Where every root that claims a hash is what it claims, rooted_at finds    *)
(* one.                                                                      *)
LEMMA Found ==
  ASSUME NEW roots \in Seq(Root), NEW h, NEW claims,
         claims = {i \in DOMAIN roots : roots[i].proof /\ roots[i].claim = h}, claims # {},
         \A i \in claims : roots[i].content = h /\ roots[i].depth_ok /\ roots[i].pruned = {}
  PROVE  rooted_at(roots, h) # Nil /\ rooted_at(roots, h).pruned = {}
<1> DEFINE first == CHOOSE i \in claims : \A j \in claims : i <= j
<1>1. first \in claims
  <2>1. claims \in SUBSET Nat
    OBVIOUS
  <2>2. \E i \in claims : \A j \in claims : i <= j
    BY <2>1, Least, Zenon
  <2> QED
    BY <2>2, Zenon
<1> HIDE DEF first
<1>2. verify_merkle_proof(roots[first], h) /\ roots[first] \in Root /\ roots[first].pruned = {}
  BY <1>1 DEF verify_merkle_proof
<1>3. rooted_at(roots, h) = roots[first]
  BY <1>2, Zenon DEF rooted_at, first
<1> QED
  BY <1>2, <1>3, WorldAssumption

(* A bag that answers in full shows the state, with nothing pruned. *)
LEMMA WholeIsShown ==
  ASSUME NEW roots \in Bags, roots # Nil, NEW h \in DOMAIN Block, Whole(roots, h)
  PROVE  StateOf(roots, h) # Nil /\ StateOf(roots, h).pruned = {}
<1>1. roots \in Seq(Root) /\ Block[h] \in DOMAIN State /\ Block[h] # Nil
  BY WorldAssumption DEF Hash
<1>2. /\ rooted_at(roots, h) # Nil /\ rooted_at(roots, h).pruned = {}
      /\ rooted_at(roots, Block[h]) # Nil /\ rooted_at(roots, Block[h]).pruned = {}
  BY <1>1, Found, Zenon DEF Whole
<1>3. rooted_at(roots, h).content = h /\ rooted_at(roots, Block[h]).content = Block[h]
  BY <1>2, Anchored, Zenon
<1>4. verify_block_state(roots, h) = Block[h]
  BY <1>2, <1>3 DEF verify_block_state, Shows
<1> QED
  BY <1>1, <1>2, <1>3, <1>4 DEF StateOf, verify_shard_state

(* One bit further down an address. *)
LEMMA NextBit ==
  ASSUME NEW id \in Seq({0, 1}), NEW n \in Nat, n < Len(id)
  PROVE  /\ Append(SubSeq(id, 1, n), id[n + 1]) = SubSeq(id, 1, n + 1)
         /\ SubSeq(id, 1, n + 1) \in Seq({0, 1})
         /\ Len(SubSeq(id, 1, n + 1)) = n + 1 /\ Len(SubSeq(id, 1, n)) = n
<1>1. /\ Len(SubSeq(id, 1, n)) = n /\ Len(SubSeq(id, 1, n + 1)) = n + 1
      /\ SubSeq(id, 1, n) \in Seq({0, 1}) /\ SubSeq(id, 1, n + 1) \in Seq({0, 1})
      /\ id[n + 1] \in {0, 1}
  OBVIOUS
<1>2. /\ Append(SubSeq(id, 1, n), id[n + 1]) \in Seq({0, 1})
      /\ Len(Append(SubSeq(id, 1, n), id[n + 1])) = n + 1
  BY <1>1
<1>3. ASSUME NEW i \in 1..(n + 1)
      PROVE  Append(SubSeq(id, 1, n), id[n + 1])[i] = SubSeq(id, 1, n + 1)[i]
  BY <1>1
<1> QED
  BY <1>1, <1>2, <1>3

LEMMA InitInd == ReadInit => IndInv
<1> SUFFICES ASSUME ReadInit PROVE IndInv
  OBVIOUS
<1>1. honest \in BOOLEAN
  BY Zenon DEF ReadInit
<1>2. TypeOK
  BY <1>1, WorldAssumption DEF ReadInit, TypeOK
<1> QED
  BY <1>2 DEF ReadInit, IndInv, Known, OnPath, AtHome, Held, ProvedIsTrue, WholeAnswerIsAccepted

(* A read refused for what a server sent, when it did not send the whole     *)
(* answer: nothing is claimed.                                               *)
LEMMA ReadRefused ==
  ASSUME IndInv, NEW why, Done(Err(why)), node' = node, origin' = origin, entry' = entry,
         ~honest', honest' \in BOOLEAN
  PROVE  IndInv'
<1>1. stage' = "done" /\ ~result'.ok
  BY DEF Done, Err
<1>2. TypeOK'
  BY <1>1 DEF IndInv, TypeOK
<1>3. Known' /\ OnPath' /\ AtHome' /\ Held'
  BY <1>1 DEF Known, OnPath, AtHome, Held
<1>4. ProvedIsTrue' /\ WholeAnswerIsAccepted'
  BY <1>1, Zenon DEF ProvedIsTrue, WholeAnswerIsAccepted
<1> QED
  BY <1>2, <1>3, <1>4 DEF IndInv

LEMMA AccountAtInd ==
  ASSUME IndInv, NEW t \in Trusted, NEW w \in Workchains, NEW id \in AccountIds,
         account_at(t, w, id)
  PROVE  IndInv'
<1>1. /\ stage = "idle" /\ read' = [trusted |-> t.hash, workchain |-> w, account_id |-> id]
      /\ UNCHANGED <<tree, node, entry, honest>>
  BY Zenon DEF account_at
<1>2. read'.trusted = t.hash /\ read'.workchain = w /\ read'.account_id = id
  BY <1>1
<1>3. CASE ~t.mc /\ Done(Err("not a masterchain block")) /\ UNCHANGED origin
  <2>1. stage' = "done" /\ ~result'.ok /\ result'.why = "not a masterchain block"
    BY <1>3, Zenon DEF Done, Err
  <2>2. TypeOK'
    BY <1>1, <1>3, <2>1, Zenon DEF IndInv, TypeOK
  <2> QED
    BY <2>1, <2>2, Zenon DEF IndInv, Known, OnPath, AtHome, Held, ProvedIsTrue, WholeAnswerIsAccepted
<1>4. CASE /\ t.mc /\ w = MASTERCHAIN
           /\ stage' = "block" /\ origin' = t.hash /\ UNCHANGED result
  <2>1. t.hash \in DOMAIN Block
    BY <1>4, WorldAssumption
  <2>2. TypeOK'
    BY <1>1, <1>4, <2>1 DEF IndInv, TypeOK
  <2>3. Known' /\ AtHome'
    BY <1>2, <1>4, <2>1 DEF Known, AtHome, Home
  <2>4. OnPath' /\ Held' /\ ProvedIsTrue' /\ WholeAnswerIsAccepted'
    BY <1>4 DEF OnPath, Held, ProvedIsTrue, WholeAnswerIsAccepted
  <2> QED
    BY <2>2, <2>3, <2>4 DEF IndInv
<1>5. CASE /\ t.mc /\ w # MASTERCHAIN
           /\ stage' = "shard" /\ UNCHANGED <<origin, result>>
  <2>1. t.hash \in DOMAIN Block
    BY <1>5, WorldAssumption
  <2>3. Known'
    BY <1>2, <1>5, <2>1 DEF Known
  <2>4. OnPath' /\ AtHome' /\ Held' /\ ProvedIsTrue' /\ WholeAnswerIsAccepted'
    BY <1>5 DEF OnPath, AtHome, Held, ProvedIsTrue, WholeAnswerIsAccepted
  <2>5. TypeOK'
    BY <1>1, <1>5 DEF IndInv, TypeOK
  <2> QED
    BY <2>3, <2>4, <2>5 DEF IndInv
<1> QED
  BY <1>3, <1>4, <1>5, Zenon DEF account_at

(* The ways out of a shard proof. *)
LEMMA ShardCases ==
  ASSUME NEW roots, ShardProof(roots)
  PROVE  LET view == StateOf(roots, read.trusted)
             shards == State[view.content].shards
         IN  \/ /\ roots = Nil \/ view = Nil \/ view.pruned # {}
                /\ (\E why : Done(Err(why))) /\ node' = node
             \/ /\ view # Nil /\ read.workchain \notin DOMAIN shards
                /\ Done(Err("Malformed")) /\ node' = node
             \/ /\ view # Nil /\ read.workchain \in DOMAIN shards
                /\ tree' = [leaves |-> shards[read.workchain], pruned |-> view.pruned]
                /\ node' = <<>> /\ stage' = "tree"
BY DEF ShardProof, Shows

LEMMA ShardProofInd ==
  ASSUME IndInv, NEW roots \in Bags, ShardProof(roots)
  PROVE  IndInv'
<1> DEFINE view == StateOf(roots, read.trusted)
           shards == State[view.content].shards
<1>1. /\ stage = "shard" /\ read.trusted \in DOMAIN Block /\ read.account_id \in AccountIds
      /\ read.workchain # MASTERCHAIN /\ UNCHANGED <<read, origin, entry>>
      /\ honest' = (honest /\ roots # Nil /\ Whole(roots, read.trusted))
  BY DEF ShardProof, IndInv, Known
<1>2. honest' \in BOOLEAN
  BY <1>1 DEF IndInv, TypeOK
<1>3. honest' => roots # Nil /\ view # Nil /\ view.pruned = {}
  BY <1>1, WholeIsShown, Zenon
<1>4. CASE /\ roots = Nil \/ view = Nil \/ view.pruned # {}
           /\ (\E why : Done(Err(why))) /\ node' = node
  <2>1. ~honest'
    BY <1>3, <1>4
  <2> QED
    BY <1>1, <1>2, <1>4, <2>1, ReadRefused
<1>5. CASE /\ view # Nil /\ read.workchain \notin DOMAIN shards
           /\ Done(Err("Malformed")) /\ node' = node
  <2>1. stage' = "done" /\ ~result'.ok
    BY <1>5 DEF Done, Err
  <2>2. shards = Shards(read)
    BY <1>1, <1>5, StateOfBlock DEF Shards
  <2>3. Home(read') = {}
    BY <1>1, <1>5, <2>2 DEF Home, Shards
  <2>4. TypeOK'
    BY <1>1, <1>2, <1>5, <2>1 DEF IndInv, TypeOK
  <2>5. Known' /\ OnPath' /\ AtHome' /\ Held'
    BY <2>1 DEF Known, OnPath, AtHome, Held
  <2>6. ProvedIsTrue' /\ WholeAnswerIsAccepted'
    BY <2>1, <2>3 DEF ProvedIsTrue, WholeAnswerIsAccepted
  <2> QED
    BY <2>4, <2>5, <2>6 DEF IndInv
<1>6. CASE /\ view # Nil /\ read.workchain \in DOMAIN shards
           /\ tree' = [leaves |-> shards[read.workchain], pruned |-> view.pruned]
           /\ node' = <<>> /\ stage' = "tree"
  <2>1. shards = Shards(read) /\ Block[read.trusted] \in DOMAIN State
    BY <1>1, <1>6, StateOfBlock DEF Shards
  <2>2. Splits(Shards(read)[read.workchain])
    BY <1>6, <2>1, WorldAssumption DEF Shards
  <2>3. PICK l \in DOMAIN Shards(read)[read.workchain] :
          /\ l \in Seq({0, 1}) /\ IsPrefixOf(l, read.account_id) /\ Len(l) <= MAX_SPLIT_DEPTH
    BY <1>1, <2>2 DEF Splits
  <2>4. tree'.leaves = Shards(read)[read.workchain] /\ tree'.pruned = view.pruned
    BY <1>6, <2>1
  <2>5. Len(node') = 0 /\ 0 <= Len(l) /\ node' \in Seq({0, 1})
    BY <1>6, <2>3
  <2>6. node' = SubSeq(read.account_id, 1, Len(node'))
    BY <1>1, <1>6, <2>5, WorldAssumption
  <2>7. TypeOK'
    BY <1>1, <1>2, <1>6, <2>5, WorldAssumption DEF IndInv, TypeOK
  <2>8. Known'
    BY <1>1, <1>6 DEF Known
  <2>9. Shards(read)' = Shards(read)
    BY <1>1 DEF Shards
  <2>10. OnPath'
    BY <1>1, <1>3, <1>6, <2>1, <2>3, <2>4, <2>5, <2>6, <2>9 DEF OnPath
  <2>11. AtHome' /\ Held' /\ ProvedIsTrue' /\ WholeAnswerIsAccepted'
    BY <1>6 DEF AtHome, Held, ProvedIsTrue, WholeAnswerIsAccepted
  <2> QED
    BY <2>7, <2>8, <2>10, <2>11 DEF IndInv
<1> HIDE DEF view, shards
<1> QED
  BY <1>4, <1>5, <1>6, ShardCases DEF view, shards

(* One node of the shard tree: the leaf found is the account's home, the     *)
(* walk does not pass it, and so never runs out of depth or of address.      *)
LEMMA FindShardInd ==
  ASSUME IndInv, find_shard
  PROVE  IndInv'
<1>1. /\ stage = "tree" /\ UNCHANGED <<read, tree, entry, honest>>
      /\ read.trusted \in DOMAIN Block /\ read.account_id \in AccountIds
      /\ read.workchain # MASTERCHAIN /\ read.workchain \in DOMAIN Shards(read)
      /\ tree.leaves = Shards(read)[read.workchain] /\ (honest => tree.pruned = {})
      /\ node = SubSeq(read.account_id, 1, Len(node)) /\ node \in Seq({0, 1})
  BY DEF find_shard, IndInv, Known, OnPath, TypeOK
<1>2. /\ read.account_id \in Seq({0, 1}) /\ MAX_SPLIT_DEPTH <= Len(read.account_id)
      /\ MAX_SPLIT_DEPTH \in Nat /\ DOMAIN tree.leaves \subseteq Seq({0, 1})
  BY <1>1, WorldAssumption DEF Shards, Splits
<1>3. PICK l \in DOMAIN tree.leaves : /\ IsPrefixOf(l, read.account_id)
                                      /\ Len(node) <= Len(l) /\ Len(l) <= MAX_SPLIT_DEPTH
  BY <1>1 DEF IndInv, OnPath
<1>4. l \in Seq({0, 1}) /\ Len(l) \in Nat /\ Len(node) \in Nat /\ Len(node) <= MAX_SPLIT_DEPTH
  BY <1>1, <1>2, <1>3
<1>5. CASE <<"tree", node>> \in tree.pruned /\ Done(Err("NotCovered")) /\ UNCHANGED <<node, origin>>
  <2>1. ~honest' /\ honest' \in BOOLEAN
    BY <1>1, <1>5 DEF IndInv, TypeOK
  <2> QED
    BY <1>1, <1>5, <2>1, ReadRefused
<1>6. CASE /\ node \in DOMAIN tree.leaves
           /\ origin' = tree.leaves[node] /\ stage' = "block" /\ UNCHANGED <<node, result>>
  <2>1. IsPrefixOf(node, read.account_id)
    BY <1>1, <1>2, <1>4 DEF IsPrefixOf
  <2>2. origin' \in Home(read)
    BY <1>1, <1>6, <2>1, Zenon DEF Home, Shards
  <2>3. origin' \in DOMAIN Block
    BY <1>1, <1>6, WorldAssumption DEF Shards
  <2>4. TypeOK'
    BY <1>1, <1>6, <2>3 DEF IndInv, TypeOK
  <2>5. Known' /\ AtHome'
    BY <1>1, <1>6, <2>2, <2>3 DEF Known, AtHome
  <2>6. OnPath' /\ Held' /\ ProvedIsTrue' /\ WholeAnswerIsAccepted'
    BY <1>6 DEF OnPath, Held, ProvedIsTrue, WholeAnswerIsAccepted
  <2> QED
    BY <2>4, <2>5, <2>6 DEF IndInv
<1>7. CASE /\ node \notin DOMAIN tree.leaves
           /\ node' = Append(node, read.account_id[Len(node) + 1])
           /\ UNCHANGED <<stage, origin, result>>
  <2>1. Len(node) # Len(l)
    BY <1>1, <1>3, <1>7, Zenon DEF IsPrefixOf
  <2>2. Len(node) < Len(l) /\ Len(node) < Len(read.account_id) /\ Len(read.account_id) \in Nat
    BY <1>2, <1>3, <1>4, <2>1
  <2>3. /\ node' = SubSeq(read.account_id, 1, Len(node) + 1) /\ node' \in Seq({0, 1})
        /\ Len(node') = Len(node) + 1
    BY <1>1, <1>2, <1>4, <1>7, <2>2, NextBit
  <2>4. Len(node') <= Len(l) /\ Len(node') <= MAX_SPLIT_DEPTH + 1
    BY <1>2, <1>3, <1>4, <2>2, <2>3
  <2>5. TypeOK'
    BY <1>1, <1>7, <2>3, <2>4 DEF IndInv, TypeOK
  <2>6. Shards(read)' = Shards(read)
    BY <1>1 DEF Shards
  <2>7. OnPath'
    BY <1>1, <1>3, <1>7, <2>3, <2>4, <2>6 DEF OnPath
  <2>8. Known' /\ AtHome' /\ Held' /\ ProvedIsTrue' /\ WholeAnswerIsAccepted'
    BY <1>1, <1>7 DEF Known, AtHome, Held, ProvedIsTrue, WholeAnswerIsAccepted
  <2> QED
    BY <2>5, <2>7, <2>8 DEF IndInv
<1> QED
  BY <1>2, <1>4, <1>5, <1>6, <1>7 DEF find_shard

LEMMA StateProofInd ==
  ASSUME IndInv, NEW roots \in Bags, StateProof(roots)
  PROVE  IndInv'
<1> DEFINE view == StateOf(roots, origin)
           found == Lookup(view, read.account_id)
<1>1. /\ stage = "block" /\ UNCHANGED <<read, tree, node, origin>>
      /\ read.account_id \in AccountIds /\ read.trusted \in DOMAIN Block
      /\ origin \in Home(read) /\ origin \in DOMAIN Block
      /\ honest' = (honest /\ roots # Nil /\ Whole(roots, origin))
  BY DEF StateProof, IndInv, Known, AtHome
<1>2. honest' \in BOOLEAN /\ (honest' => roots # Nil /\ view # Nil /\ view.pruned = {})
  BY <1>1, WholeIsShown, Zenon DEF IndInv, TypeOK
<1>3. \/ /\ roots = Nil \/ view = Nil \/ found = Nil
         /\ (\E why : Done(Err(why))) /\ entry' = entry
      \/ view # Nil /\ found # Nil /\ entry' = found /\ stage' = "bytes"
  BY DEF StateProof
<1>4. ASSUME view # Nil
      PROVE  /\ view.content = Block[origin] /\ Block[origin] \in DOMAIN State
             /\ found = Nil => view.pruned # {}
             /\ found # Nil => found = IF read.account_id \in DOMAIN State[Block[origin]].accounts
                                       THEN State[Block[origin]].accounts[read.account_id]
                                       ELSE NotFound
  <2>1. view.content = Block[origin] /\ Block[origin] \in DOMAIN State
    BY <1>1, <1>4, StateOfBlock
  <2> HIDE DEF view
  <2>2. read.account_id \in DOMAIN State[Block[origin]].accounts
          => State[Block[origin]].accounts[read.account_id] \in DOMAIN Account
    BY <2>1, WorldAssumption
  <2>3. /\ Nil # NotFound
        /\ read.account_id \in DOMAIN State[Block[origin]].accounts
             => State[Block[origin]].accounts[read.account_id] # Nil
    BY <2>2, WorldAssumption
  <2> QED
    BY <2>1, <2>3 DEF Lookup, Shows
<1>5. CASE /\ roots = Nil \/ view = Nil \/ found = Nil
           /\ (\E why : Done(Err(why))) /\ entry' = entry
  <2>1. ~honest'
    BY <1>2, <1>4, <1>5
  <2> QED
    BY <1>1, <1>2, <1>5, <2>1, ReadRefused
<1>6. CASE view # Nil /\ found # Nil /\ entry' = found /\ stage' = "bytes"
  <2>1. Block[origin] \in DOMAIN State /\ entry' = IF read.account_id \in DOMAIN State[Block[origin]].accounts
                                       THEN State[Block[origin]].accounts[read.account_id]
                                       ELSE NotFound
    BY <1>4, <1>6
  <2>2. entry' \in DOMAIN Account \cup {NotFound}
    BY <2>1, WorldAssumption
  <2>3. TypeOK'
    BY <1>1, <1>2, <1>6, <2>2 DEF IndInv, TypeOK
  <2>4. Known' /\ AtHome'
    BY <1>1, <1>6 DEF Known, AtHome
  <2>5. Held'
    BY <1>1, <2>1 DEF Held
  <2>6. OnPath' /\ ProvedIsTrue' /\ WholeAnswerIsAccepted'
    BY <1>6 DEF OnPath, ProvedIsTrue, WholeAnswerIsAccepted
  <2> QED
    BY <2>3, <2>4, <2>5, <2>6 DEF IndInv
<1> HIDE DEF view, found
<1> QED
  BY <1>3, <1>5, <1>6

LEMMA StateBytesInd ==
  ASSUME IndInv, NEW bytes \in StateBytes, StateBytesChecked(bytes)
  PROVE  IndInv'
<1> DEFINE accounts == State[Block[origin]].accounts
<1>1. /\ stage = "bytes" /\ UNCHANGED <<read, tree, node, origin, entry>>
      /\ origin \in Home(read)
      /\ entry = IF read.account_id \in DOMAIN accounts THEN accounts[read.account_id] ELSE NotFound
      /\ honest' = (honest /\ WholeBytes(bytes))
  BY DEF StateBytesChecked, IndInv, AtHome, Held
<1>2. honest' \in BOOLEAN
  BY <1>1 DEF IndInv, TypeOK
<1>3. Block[origin] \in DOMAIN State /\ origin \in DOMAIN Block
  BY <1>1, WorldAssumption DEF IndInv, AtHome
<1>4. read.account_id \in DOMAIN accounts => entry # NotFound
  BY <1>1, <1>3, WorldAssumption
<1>5. honest' => bytes.empty = (entry = NotFound) /\ (~bytes.empty => bytes.cells /\ Bound(bytes))
  BY <1>1, WorldAssumption DEF WholeBytes, Bound, Bytes
<1>6. CASE \E why : Done(Err(why)) /\ ~honest'
  BY <1>1, <1>2, <1>6, ReadRefused
<1>7. ASSUME NEW value, Done(Ok(value)), value = Truth(read, origin)
      PROVE  IndInv'
  <2>1. stage' = "done" /\ result'.ok /\ result'.value = value
    BY <1>7, Zenon DEF Done, Ok
  <2>2. TypeOK'
    BY <1>1, <1>2, <2>1 DEF IndInv, TypeOK
  <2>3. Known' /\ OnPath' /\ AtHome' /\ Held'
    BY <2>1 DEF Known, OnPath, AtHome, Held
  <2>4. Home(read') = Home(read) /\ Truth(read', origin) = Truth(read, origin)
    BY <1>1
  <2>5. ProvedIsTrue' /\ WholeAnswerIsAccepted'
    BY <1>1, <1>7, <2>1, <2>4 DEF ProvedIsTrue, WholeAnswerIsAccepted
  <2> QED
    BY <2>2, <2>3, <2>5 DEF IndInv
<1>8. CASE entry = NotFound /\ bytes.empty /\ Done(Ok(Nonexistent))
  <2>1. Truth(read, origin) = Nonexistent
    BY <1>4, <1>8 DEF Truth
  <2> QED
    BY <1>7, <1>8, <2>1
<1>9. CASE /\ entry # NotFound /\ Bound(bytes)
           /\ Done(Ok([account |-> Account[bytes.hash], whole |-> bytes.level_mask = 0]))
  <2>1. bytes.hash = entry /\ (bytes.level_mask = 0) = TRUE
    BY <1>9 DEF Bound
  <2>2. Truth(read, origin) = [account |-> Account[bytes.hash], whole |-> bytes.level_mask = 0]
    BY <1>1, <1>9, <2>1, Zenon DEF Truth
  <2> QED
    BY <1>7, <1>9, <2>2
<1>10. \/ \E why : Done(Err(why)) /\ ~honest'
       \/ entry = NotFound /\ bytes.empty /\ Done(Ok(Nonexistent))
       \/ /\ entry # NotFound /\ Bound(bytes)
          /\ Done(Ok([account |-> Account[bytes.hash], whole |-> bytes.level_mask = 0]))
  BY <1>1, <1>5, Zenon DEF StateBytesChecked
<1> QED
  BY <1>6, <1>8, <1>9, <1>10

LEMMA NextInd == IndInv /\ [ReadNext]_readVars => IndInv'
<1> SUFFICES ASSUME IndInv, [ReadNext]_readVars PROVE IndInv'
  OBVIOUS
<1>1. CASE \E t \in Trusted, w \in Workchains, id \in AccountIds : account_at(t, w, id)
  BY <1>1, AccountAtInd
<1>2. CASE \E roots \in Bags : ShardProof(roots) \/ StateProof(roots)
  BY <1>2, ShardProofInd, StateProofInd
<1>3. CASE find_shard
  BY <1>3, FindShardInd
<1>4. CASE \E bytes \in StateBytes : StateBytesChecked(bytes)
  BY <1>4, StateBytesInd
<1>5. CASE Again
  <2>1. honest' \in BOOLEAN
    BY <1>5, Zenon DEF Again
  <2>2. TypeOK'
    BY <1>5, <2>1, WorldAssumption DEF Again, TypeOK
  <2> QED
    BY <1>5, <2>2, Zenon
    DEF Again, IndInv, Known, OnPath, AtHome, Held, ProvedIsTrue, WholeAnswerIsAccepted
<1>6. CASE UNCHANGED readVars
  <2>1. UNCHANGED <<stage, read, tree, node, origin, entry, honest, result>>
    BY <1>6 DEF readVars
  <2>2. TypeOK' /\ Known' /\ AtHome' /\ Held'
    BY <2>1 DEF IndInv, TypeOK, Known, AtHome, Held
  <2>3. Shards(read)' = Shards(read)
    BY <2>1 DEF Shards
  <2>4. OnPath'
    BY <2>1, <2>3 DEF IndInv, OnPath
  <2>5. ProvedIsTrue' /\ WholeAnswerIsAccepted'
    BY <2>1, Zenon DEF IndInv, ProvedIsTrue, WholeAnswerIsAccepted
  <2> QED
    BY <2>2, <2>4, <2>5 DEF IndInv
<1> QED
  BY <1>1, <1>2, <1>3, <1>4, <1>5, <1>6 DEF ReadNext

----------------------------------------------------------------------------
(* IndInv holds of every reachable state of a check. *)
THEOREM Inductive == ReadSpec => []IndInv
<1> QED
  BY InitInd, NextInd, PTL DEF ReadSpec

(* Type correctness, with the walk of the shard tree inside the address and  *)
(* the split limit of find_shard.                                            *)
THEOREM TypeCorrect == ReadSpec => []TypeOK
<1>1. IndInv => TypeOK
  BY DEF IndInv
<1> QED
  BY <1>1, Inductive, PTL

(* For every chain and every answer of a server: what verify_account returns *)
(* as proved is what the chain holds for the account.                        *)
THEOREM Sound == ReadSpec => []ProvedIsTrue
<1>1. IndInv => ProvedIsTrue
  BY DEF IndInv
<1> QED
  BY <1>1, Inductive, PTL

(* A whole answer about an account whose workchain is recorded is never      *)
(* refused, whatever the shape of the shard tree up to the split limit.      *)
THEOREM Complete == ReadSpec => []WholeAnswerIsAccepted
<1>1. IndInv => WholeAnswerIsAccepted
  BY DEF IndInv
<1> QED
  BY <1>1, Inductive, PTL

----------------------------------------------------------------------------
(* The Node binding. *)

Awaiting == {"walk", "info", "read"}

NodeTypeOK ==
  /\ live \in BOOLEAN /\ session \in {"none", "boot", "open", "lost"}
  /\ {anchor, saved, shown} \subseteq CommittedKeys \cup {NoBlock}
  /\ queue \in Seq(Callers)
  /\ pc \in [Callers -> {"idle", "waiting", "holding"} \cup Awaiting]
  /\ op \in [Callers -> Ops \cup {"none"}]
  /\ block \in [Callers -> Ids \cup Args \cup {NoBlock}]
  /\ floor \in [Callers -> Nat]

(* A client that nobody has been handed: no call, no anchor shown. *)
NotCalled ==
  /\ live = (session # "none")
  /\ session \in {"none", "boot"} =>
       /\ shown = NoBlock /\ queue = <<>>
       /\ \A c \in Callers : pc[c] = "idle" /\ op[c] = "none"

(* One call holds the lock, and it alone awaits an answer. *)
LockHeld ==
  \A c \in Callers : /\ pc[c] \in {"holding"} \cup Awaiting => owner = c
                     /\ pc[c] \in Awaiting => session = "open"

(* The read of account is at a head the anchor vouches for; other reads are  *)
(* of calls that say where.                                                  *)
ReadsAtHead ==
  \A c \in Callers : pc[c] = "read" => /\ op[c] # "anchor"
                                       /\ op[c] = "account" => <<anchor, block[c]>> \in Vouches

(* The anchor is no older than the one shown, nor than what a call found.    *)
AnchorGrows ==
  /\ SeqnoOf(shown) <= SeqnoOf(anchor)
  /\ \A c \in Callers : op[c] = "anchor" => floor[c] <= SeqnoOf(anchor)

Discipline == NodeTypeOK /\ NotCalled /\ LockHeld /\ ReadsAtHead /\ AnchorGrows

NodeInv == Discipline /\ AccountRestsOnAnchor /\ AnchorsNeverGoBack

(* What the holder of the lock may do to the client in one step. *)
Advances == /\ session \in {"open", "lost"} /\ session' \in {session, "lost"}
            /\ UNCHANGED <<live, saved>>
            /\ anchor' \in CommittedKeys \cup {NoBlock}
            /\ SeqnoOf(anchor) <= SeqnoOf(anchor')
----------------------------------------------------------------------------
(* Facts the steps share. *)

(* A key block's sequence number, and none's, is a number. *)
LEMMA SeqnoIsNat ==
  ASSUME NEW b \in CommittedKeys \cup {NoBlock}
  PROVE  SeqnoOf(b) \in Nat
BY AnchorAssumption DEF SeqnoOf

(* A walk never takes the anchor back. *)
LEMMA LearnGrows ==
  ASSUME NodeTypeOK, NEW k \in Ids, NEW h \in Ids, Learn(k, h)
  PROVE  /\ anchor' = k /\ k \in CommittedKeys /\ <<k, h>> \in Vouches
         /\ SeqnoOf(anchor) <= SeqnoOf(anchor')
         /\ live /\ UNCHANGED <<live, saved>>
<1>1. anchor' = k /\ k \in CommittedKeys /\ k # NoBlock /\ k.seqno \in Nat
  BY AnchorAssumption DEF Learn
<1>2. SeqnoOf(anchor') = k.seqno
  BY <1>1 DEF SeqnoOf
<1>3. CASE anchor = NoBlock
  BY <1>1, <1>2, <1>3 DEF SeqnoOf, Learn
<1>4. CASE anchor # NoBlock
  BY <1>1, <1>2, <1>4 DEF SeqnoOf, Floor, Learn
<1> QED
  BY <1>1, <1>3, <1>4 DEF Learn

(* A step that returns no value shows nothing. *)
LEMMA NothingReturned ==
  ASSUME Discipline', returned' = NoValue
  PROVE  NodeInv'
BY DEF NodeInv, Discipline, NodeTypeOK, AccountRestsOnAnchor, AnchorsNeverGoBack, NoValue

(* A step that leaves the client as it is advances it. *)
LEMMA StandsStill ==
  ASSUME NodeInv, UNCHANGED vars, session \in {"open", "lost"}, session' \in {session, "lost"}
  PROVE  Advances
<1>1. SeqnoOf(anchor) \in Nat
  BY SeqnoIsNat DEF NodeInv, Discipline, NodeTypeOK
<1> QED
  BY <1>1 DEF NodeInv, Discipline, NodeTypeOK, Advances, vars

(* The client is open or lost while somebody's call is under way. *)
LEMMA CalledOnAClient ==
  ASSUME NodeInv, NEW c \in Callers, pc[c] # "idle"
  PROVE  session \in {"open", "lost"}
BY DEF NodeInv, Discipline, NodeTypeOK, NotCalled

(* A call that ends gives the lock back and leaves the others as they were. *)
LEMMA EndKeepsDiscipline ==
  ASSUME NodeInv, NEW c \in Callers, owner = c, End(c), Advances, shown' \in {shown, anchor'}
  PROVE  Discipline'
<1> USE NodeAssumption DEF NodeInv, Discipline
<1>1. NodeTypeOK'
  <2>1. pc' \in [Callers -> {"idle", "waiting", "holding"} \cup Awaiting]
    BY DEF NodeTypeOK, End
  <2>2. op' \in [Callers -> Ops \cup {"none"}] /\ queue' \in Seq(Callers)
    BY DEF NodeTypeOK, End
  <2>3. floor' \in [Callers -> Nat]
    BY DEF NodeTypeOK, End
  <2>4. block' \in [Callers -> Ids \cup Args \cup {NoBlock}]
    BY DEF NodeTypeOK, End
  <2> QED
    BY <2>1, <2>2, <2>3, <2>4 DEF NodeTypeOK, Advances
<1>2. NotCalled'
  BY DEF NotCalled, Advances
<1>3. \A d \in Callers : pc'[d] \notin {"holding"} \cup Awaiting
  BY DEF NodeTypeOK, LockHeld, End, Awaiting
<1>4. LockHeld' /\ ReadsAtHead'
  BY <1>3 DEF LockHeld, ReadsAtHead, Awaiting
<1>5. AnchorGrows'
  <2>1. {SeqnoOf(anchor), SeqnoOf(anchor'), SeqnoOf(shown)} \subseteq Nat
    BY SeqnoIsNat DEF NodeTypeOK, Advances
  <2>2. SeqnoOf(shown') <= SeqnoOf(anchor')
    BY <2>1 DEF AnchorGrows, Advances
  <2>3. ASSUME NEW d \in Callers, op'[d] = "anchor"
        PROVE  floor'[d] <= SeqnoOf(anchor')
    <3>1. op[d] = "anchor" /\ floor'[d] = floor[d] /\ floor[d] \in Nat
      BY <2>3 DEF NodeTypeOK, End
    <3> QED
      BY <3>1, <2>1 DEF AnchorGrows, Advances
  <2> QED
    BY <2>2, <2>3 DEF AnchorGrows
<1> QED
  BY <1>1, <1>2, <1>4, <1>5

(* A call that fails keeps the invariant. *)
LEMMA ThrowKeepsInv ==
  ASSUME NodeInv, NEW c \in Callers, owner = c, Throw(c), Advances
  PROVE  NodeInv'
BY EndKeepsDiscipline, NothingReturned DEF Throw

(* A call that returns a value keeps it, when the value is one to return. *)
LEMMA ReturnKeepsInv ==
  ASSUME NodeInv, NEW c \in Callers, NEW b, owner = c, Return(c, b), Advances,
         shown' \in {shown, anchor'},
         op[c] = "account" => <<anchor', b>> \in Vouches,
         op[c] = "anchor" => SeqnoOf(b) >= floor[c]
  PROVE  NodeInv'
<1>1. Discipline'
  BY EndKeepsDiscipline DEF Return
<1>2. returned' = [op |-> op[c], block |-> b, floor |-> floor[c]]
  BY DEF Return
<1> QED
  BY <1>1, <1>2 DEF NodeInv, Discipline, NodeTypeOK, AccountRestsOnAnchor, AnchorsNeverGoBack

(* A call that goes on to its next await keeps the invariant. *)
LEMMA AwaitKeepsInv ==
  ASSUME NodeInv, NEW c \in Callers, NEW what \in Awaiting, NEW b \in Ids \cup Args \cup {NoBlock},
         owner = c, Await(c, what, b), Advances, session = "open", UNCHANGED session,
         what = "read" => /\ op[c] # "anchor"
                          /\ op[c] = "account" => <<anchor', b>> \in Vouches
  PROVE  NodeInv'
<1> USE NodeAssumption DEF NodeInv, Discipline
<1>1. NodeTypeOK'
  <2>1. pc' \in [Callers -> {"idle", "waiting", "holding"} \cup Awaiting]
    BY DEF NodeTypeOK, Await
  <2>2. block' \in [Callers -> Ids \cup Args \cup {NoBlock}]
    BY DEF NodeTypeOK, Await
  <2> QED
    BY <2>1, <2>2 DEF NodeTypeOK, Advances, Await
<1>2. NotCalled'
  BY DEF NotCalled, Advances
<1>3. LockHeld'
  BY DEF NodeTypeOK, LockHeld, Await
<1>4. ASSUME NEW d \in Callers, pc'[d] = "read"
      PROVE  d = c /\ what = "read" /\ block'[d] = b
  BY <1>4 DEF NodeTypeOK, LockHeld, Await, Awaiting
<1>5. ReadsAtHead'
  BY <1>4 DEF ReadsAtHead, Await
<1>6. AnchorGrows'
  <2>1. {SeqnoOf(anchor), SeqnoOf(anchor'), SeqnoOf(shown)} \subseteq Nat
    BY SeqnoIsNat DEF NodeTypeOK, Advances
  <2>2. SeqnoOf(shown') <= SeqnoOf(anchor')
    BY <2>1 DEF AnchorGrows, Advances, Await
  <2>3. ASSUME NEW d \in Callers, op'[d] = "anchor"
        PROVE  floor'[d] <= SeqnoOf(anchor')
    <3>1. op[d] = "anchor" /\ floor'[d] = floor[d] /\ floor[d] \in Nat
      BY <2>3 DEF NodeTypeOK, Await
    <3> QED
      BY <3>1, <2>1 DEF AnchorGrows, Advances
  <2> QED
    BY <2>2, <2>3 DEF AnchorGrows
<1>7. returned' = NoValue
  BY DEF Await
<1> QED
  BY <1>1, <1>2, <1>3, <1>5, <1>6, <1>7, NothingReturned

(* So does a query, whether it is written or refused. *)
LEMMA QueryKeepsInv ==
  ASSUME NodeInv, NEW c \in Callers, NEW what \in Awaiting, owner = c, pc[c] = "holding",
         Query(c, what), UNCHANGED <<vars, session>>,
         what = "read" => op[c] \notin {"anchor", "account"}
  PROVE  NodeInv'
<1>1. Advances
  BY CalledOnAClient, StandsStill
<1>2. block[c] \in Ids \cup Args \cup {NoBlock}
  BY DEF NodeInv, Discipline, NodeTypeOK
<1>3. CASE session = "lost" /\ Throw(c)
  BY <1>1, <1>3, ThrowKeepsInv
<1>4. CASE session = "open" /\ Await(c, what, block[c])
  BY <1>1, <1>2, <1>4, AwaitKeepsInv, Zenon
<1> QED
  BY <1>3, <1>4 DEF Query

(* The invariant holds of a process that has not connected. *)
LEMMA NodeInitInv == NodeInit => NodeInv
<1> SUFFICES ASSUME NodeInit PROVE NodeInv
  OBVIOUS
<1> USE NodeAssumption, AnchorAssumption DEF NodeInit, Init
<1>1. NodeTypeOK
  <2>1. queue \in Seq(Callers) /\ pc \in [Callers -> {"idle", "waiting", "holding"} \cup Awaiting]
    OBVIOUS
  <2>2. op \in [Callers -> Ops \cup {"none"}] /\ floor \in [Callers -> Nat]
    OBVIOUS
  <2>3. block \in [Callers -> Ids \cup Args \cup {NoBlock}]
    OBVIOUS
  <2> QED
    BY <2>1, <2>2, <2>3, Zenon DEF NodeTypeOK
<1>5. NotCalled
  BY Zenon DEF NotCalled
<1>2. LockHeld /\ ReadsAtHead
  BY DEF LockHeld, ReadsAtHead, Awaiting
<1>3. AnchorGrows
  BY DEF AnchorGrows, SeqnoOf
<1>4. AccountRestsOnAnchor /\ AnchorsNeverGoBack
  BY DEF AccountRestsOnAnchor, AnchorsNeverGoBack, NoValue
<1> QED
  BY <1>1, <1>2, <1>3, <1>4, <1>5 DEF NodeInv, Discipline

(* Every step of the runtime, the server and JavaScript preserves it. *)
LEMMA NodeNextInv == NodeInv /\ [NodeNext]_nodeVars => NodeInv'
<1> SUFFICES ASSUME NodeInv, [NodeNext]_nodeVars PROVE NodeInv'
  OBVIOUS
<1> USE NodeAssumption DEF NodeInv, Discipline
<1>s. SeqnoOf(anchor) \in Nat /\ SeqnoOf(shown) \in Nat /\ SeqnoOf(NoBlock) = 0
  BY SeqnoIsNat DEF NodeTypeOK, SeqnoOf
<1>h. ASSUME NEW c \in Callers, pc[c] \in Awaiting
      PROVE  session = "open" /\ owner = c
  BY <1>h DEF LockHeld
<1>1. CASE Connect
  <2>1. NodeTypeOK'
    BY <1>1 DEF NodeTypeOK, Connect, Open, calls
  <2>2. NotCalled'
    BY <1>1, Zenon DEF NotCalled, Connect, Open, calls
  <2>3. \A c \in Callers : pc'[c] = "idle" /\ op'[c] = "none"
    BY <1>1, Zenon DEF NotCalled, Connect, Open, calls
  <2>4. LockHeld' /\ ReadsAtHead'
    BY <2>3 DEF LockHeld, ReadsAtHead, Awaiting
  <2>5. AnchorGrows'
    <3>1. SeqnoOf(anchor') \in Nat
      BY <2>1, SeqnoIsNat DEF NodeTypeOK
    <3>2. shown' = NoBlock
      BY <1>1, Zenon DEF NotCalled, Connect, Open
    <3> QED
      BY <3>1, <3>2, <2>3, <1>s DEF AnchorGrows
  <2>6. returned' = NoValue
    BY <1>1 DEF Connect
  <2> QED
    BY <2>1, <2>2, <2>4, <2>5, <2>6, NothingReturned
<1>2. CASE ConnectFrom
  <2>1. NodeTypeOK'
    BY <1>2 DEF NodeTypeOK, ConnectFrom, Open, calls
  <2>2. NotCalled'
    BY <1>2, Zenon DEF NotCalled, ConnectFrom, Open, calls
  <2>3. \A c \in Callers : pc'[c] = "idle" /\ op'[c] = "none"
    BY <1>2, Zenon DEF NotCalled, ConnectFrom, Open, calls
  <2>4. LockHeld' /\ ReadsAtHead'
    BY <2>3 DEF LockHeld, ReadsAtHead, Awaiting
  <2>5. AnchorGrows'
    <3>1. SeqnoOf(anchor') \in Nat
      BY <2>1, SeqnoIsNat DEF NodeTypeOK
    <3>2. shown' = NoBlock
      BY <1>2, Zenon DEF NotCalled, ConnectFrom, Open
    <3> QED
      BY <3>1, <3>2, <2>3, <1>s DEF AnchorGrows
  <2>6. returned' = NoValue
    BY <1>2 DEF ConnectFrom
  <2> QED
    BY <2>1, <2>2, <2>4, <2>5, <2>6, NothingReturned
<1>3. CASE BootEnds
  <2>1. NodeTypeOK'
    BY <1>3, LearnGrows, Zenon DEF NodeTypeOK, BootEnds, Close, calls
  <2>2. NotCalled'
    BY <1>3, LearnGrows, Zenon DEF NotCalled, BootEnds, Close, calls
  <2>3. \A c \in Callers : pc'[c] = "idle" /\ op'[c] = "none"
    BY <1>3 DEF NotCalled, BootEnds, Close, calls
  <2>4. LockHeld' /\ ReadsAtHead'
    BY <2>3 DEF LockHeld, ReadsAtHead, Awaiting
  <2>5. AnchorGrows'
    <3>1. SeqnoOf(anchor') \in Nat
      BY <2>1, SeqnoIsNat DEF NodeTypeOK
    <3>2. shown' = NoBlock
      BY <1>3 DEF NotCalled, BootEnds, Close
    <3> QED
      BY <3>1, <3>2, <2>3, <1>s DEF AnchorGrows
  <2>6. returned' = NoValue
    BY <1>3 DEF BootEnds
  <2> QED
    BY <2>1, <2>2, <2>4, <2>5, <2>6, NothingReturned
<1>4. CASE Acquire
  <2>1. NodeTypeOK'
    BY <1>4 DEF NodeTypeOK, Acquire, vars
  <2>2. NotCalled' /\ LockHeld'
    BY <1>4 DEF NodeTypeOK, NotCalled, LockHeld, Awaiting, Acquire, vars
  <2>3. ReadsAtHead'
    BY <1>4 DEF NodeTypeOK, ReadsAtHead, Acquire, vars
  <2>4. AnchorGrows'
    BY <1>4, <1>s DEF NodeTypeOK, AnchorGrows, Acquire, vars
  <2> QED
    BY <1>4, <2>1, <2>2, <2>3, <2>4, NothingReturned DEF Acquire
<1>5. CASE Store
  <2>1. NodeTypeOK'
    BY <1>5 DEF NodeTypeOK, Store, calls
  <2>2. NotCalled' /\ LockHeld'
    BY <1>5, Zenon DEF NodeTypeOK, NotCalled, LockHeld, Awaiting, Store, calls
  <2>3. ReadsAtHead'
    BY <1>5 DEF NodeTypeOK, ReadsAtHead, Store, calls
  <2>4. AnchorGrows'
    BY <1>5, <1>s DEF NodeTypeOK, AnchorGrows, Store, calls
  <2> QED
    BY <1>5, <2>1, <2>2, <2>3, <2>4, NothingReturned DEF Store
<1>6. CASE Exit
  <2>1. NodeTypeOK'
    <3>1. pc' \in [Callers -> {"idle", "waiting", "holding"} \cup Awaiting]
      BY <1>6 DEF Exit
    <3>2. op' \in [Callers -> Ops \cup {"none"}] /\ floor' \in [Callers -> Nat]
      BY <1>6 DEF Exit
    <3>3. block' \in [Callers -> Ids \cup Args \cup {NoBlock}] /\ queue' \in Seq(Callers)
      BY <1>6 DEF Exit
    <3> QED
      BY <1>6, <3>1, <3>2, <3>3, Zenon DEF NodeTypeOK, Exit, Close
  <2>2. NotCalled' /\ LockHeld' /\ ReadsAtHead'
    BY <1>6, Zenon DEF NotCalled, LockHeld, ReadsAtHead, Awaiting, Exit, Close
  <2>3. AnchorGrows'
    BY <1>6, <1>s DEF AnchorGrows, Exit, Close
  <2> QED
    BY <1>6, <2>1, <2>2, <2>3, NothingReturned DEF Exit
<1>7. ASSUME NEW c \in Callers, NEW o \in Ops, NEW b \in Args, Invoke(c, o, b)
      PROVE  NodeInv'
  <2>1. NodeTypeOK'
    BY <1>7, <1>s DEF NodeTypeOK, Invoke, vars
  <2>2. NotCalled' /\ LockHeld'
    BY <1>7 DEF NodeTypeOK, NotCalled, LockHeld, Awaiting, Invoke, vars
  <2>3. ReadsAtHead'
    BY <1>7 DEF NodeTypeOK, ReadsAtHead, Invoke, vars
  <2>4. AnchorGrows'
    BY <1>7, <1>s DEF NodeTypeOK, AnchorGrows, Invoke, vars
  <2> QED
    BY <1>7, <2>1, <2>2, <2>3, <2>4, NothingReturned DEF Invoke
<1>8. ASSUME NEW c \in Callers, ShowAnchor(c)
      PROVE  NodeInv'
  <2>1. Advances
    BY <1>8, CalledOnAClient, StandsStill DEF ShowAnchor
  <2>2. floor[c] <= SeqnoOf(anchor) /\ floor[c] \in Nat
    BY <1>8 DEF ShowAnchor, AnchorGrows, NodeTypeOK
  <2> QED
    BY <1>8, <1>s, <2>1, <2>2, ReturnKeepsInv, Zenon DEF ShowAnchor, vars
<1>9. ASSUME NEW c \in Callers, BeginWalk(c)
      PROVE  NodeInv'
  <2>1. Advances
    BY <1>9, CalledOnAClient, StandsStill DEF BeginWalk
  <2>2. CASE Throw(c)
    BY <1>9, <2>1, <2>2, ThrowKeepsInv DEF BeginWalk
  <2>3. CASE Query(c, "walk")
    BY <1>9, <2>3, QueryKeepsInv DEF BeginWalk, Awaiting
  <2> QED
    BY <1>9, <2>2, <2>3 DEF BeginWalk
<1>10. ASSUME NEW c \in Callers, BeginRead(c)
       PROVE  NodeInv'
  <2>1. Advances
    BY <1>10, CalledOnAClient, StandsStill DEF BeginRead
  <2>2. CASE Throw(c)
    BY <1>10, <2>1, <2>2, ThrowKeepsInv DEF BeginRead
  <2>3. CASE Query(c, "info")
    BY <1>10, <2>3, QueryKeepsInv DEF BeginRead, Awaiting
  <2>4. CASE op[c] \in {"account_state", "account_at"} /\ Query(c, "read")
    BY <1>10, <2>4, QueryKeepsInv DEF BeginRead, Awaiting
  <2> QED
    BY <1>10, <2>2, <2>3, <2>4 DEF BeginRead
<1>11. ASSUME NEW c \in Callers, TimesOut(c) \/ Refused(c)
       PROVE  NodeInv'
  <2>1. session = "open" /\ owner = c
    BY <1>11, <1>h DEF TimesOut, Refused, Awaiting
  <2>2. Advances
    BY <1>11, <2>1, StandsStill DEF TimesOut, Refused
  <2> QED
    BY <1>11, <2>1, <2>2, ThrowKeepsInv DEF TimesOut, Refused
<1>12. ASSUME NEW c \in Callers, ReadAnswered(c)
       PROVE  NodeInv'
  <2>1. session = "open" /\ owner = c
    BY <1>12, <1>h DEF ReadAnswered, Awaiting
  <2>2. Advances
    BY <1>12, <2>1, StandsStill DEF ReadAnswered
  <2>3. op[c] # "anchor" /\ (op[c] = "account" => <<anchor', block[c]>> \in Vouches)
    BY <1>12 DEF ReadAnswered, ReadsAtHead, vars
  <2> QED
    BY <1>12, <2>1, <2>2, <2>3, ReturnKeepsInv DEF ReadAnswered
<1>13. ASSUME NEW c \in Callers, NEW k \in Ids, NEW h \in Ids, WalkEnds(c, k, h)
       PROVE  NodeInv'
  <2>1. session = "open" /\ owner = c /\ UNCHANGED session
    BY <1>13, <1>h DEF WalkEnds, Awaiting
  <2>2. anchor' = k /\ k \in CommittedKeys /\ <<k, h>> \in Vouches /\ Advances
    BY <1>13, <2>1, LearnGrows DEF WalkEnds, Advances
  <2>3. CASE op[c] = "sync" /\ Return(c, h) /\ UNCHANGED shown
    BY <2>1, <2>2, <2>3, ReturnKeepsInv
  <2>4. CASE op[c] = "account" /\ Await(c, "read", h)
    BY <2>1, <2>2, <2>4, AwaitKeepsInv DEF Awaiting
  <2> QED
    BY <1>13, <2>3, <2>4 DEF WalkEnds
<1>14. ASSUME NEW c \in Callers, NEW b \in Ids, InfoAnswered(c, b)
       PROVE  NodeInv'
  <2>1. session = "open" /\ owner = c /\ UNCHANGED <<vars, session>>
    BY <1>14, <1>h DEF InfoAnswered, Awaiting
  <2>2. Advances
    BY <2>1, StandsStill
  <2>3. CASE op[c] = "masterchain_info" /\ Return(c, b) /\ UNCHANGED shown
    BY <2>1, <2>2, <2>3, ReturnKeepsInv, Zenon
  <2>4. CASE op[c] = "account_reported" /\ Await(c, "read", b)
    BY <2>1, <2>2, <2>4, AwaitKeepsInv, Zenon DEF Awaiting
  <2> QED
    BY <1>14, <2>3, <2>4 DEF InfoAnswered
<1>15. CASE UNCHANGED nodeVars
  BY <1>15 DEF nodeVars, vars, calls, NodeTypeOK, NotCalled, LockHeld, ReadsAtHead, AnchorGrows,
     AccountRestsOnAnchor, AnchorsNeverGoBack
<1> QED
  BY <1>1, <1>2, <1>3, <1>4, <1>5, <1>6, <1>7, <1>8, <1>9, <1>10, <1>11, <1>12, <1>13, <1>14,
     <1>15 DEF NodeNext, Runtime

(* The lock discipline holds throughout. *)
LEMMA NodeInvariant == NodeSpec => []NodeInv
BY NodeInitInv, NodeNextInv, PTL DEF NodeSpec

(* An account is returned at a head of its own walk, which the anchor of     *)
(* that moment vouches for, however many calls are pending.                  *)
THEOREM AccountsRest == NodeSpec => []AccountRestsOnAnchor
<1>1. NodeInv => AccountRestsOnAnchor
  BY DEF NodeInv
<1> QED
  BY <1>1, NodeInvariant, PTL

(* No caller is shown an anchor older than one shown before it asked, and    *)
(* only committed key blocks are stored.                                     *)
THEOREM AnchorsAdvance == NodeSpec => []AnchorsNeverGoBack
<1>1. NodeInv => AnchorsNeverGoBack
  BY DEF NodeInv
<1> QED
  BY <1>1, NodeInvariant, PTL

(* A lost session answers no query of any caller again. *)
THEOREM LostIsSilent == NodeSpec => LostAnswersNobody
<1>1. NodeInv /\ [NodeNext]_nodeVars => [LostStep]_nodeVars
  <2> SUFFICES ASSUME NodeInv, NodeNext, session = "lost"
               PROVE  session' \in {"lost", "none"} /\ returned'.op \in {"none", "anchor"}
    BY DEF LostStep
  <2> USE DEF NodeInv, Discipline
  <2>1. live /\ \A c \in Callers : pc[c] \notin Awaiting
    BY Zenon DEF NotCalled, LockHeld
  <2>2. CASE Connect \/ ConnectFrom \/ BootEnds
    BY <2>1, <2>2 DEF Connect, ConnectFrom, BootEnds, Open
  <2>3. CASE Acquire \/ Store \/ Exit
    BY <2>3 DEF Acquire, Store, Exit, NoValue
  <2>4. ASSUME NEW c \in Callers, NEW o \in Ops, NEW b \in Args, Invoke(c, o, b)
        PROVE  session' = "lost" /\ returned' = NoValue
    BY <2>4 DEF Invoke
  <2>5. ASSUME NEW c \in Callers, ShowAnchor(c)
        PROVE  session' = "lost" /\ returned'.op = "anchor"
    BY <2>5 DEF ShowAnchor, Return
  <2>6. ASSUME NEW c \in Callers, BeginWalk(c) \/ BeginRead(c)
        PROVE  session' = "lost" /\ returned' = NoValue
    BY <2>6 DEF BeginWalk, BeginRead, Query, Throw
  <2>7. ASSUME NEW c \in Callers, TimesOut(c) \/ Refused(c) \/ ReadAnswered(c)
        PROVE  FALSE
    BY <2>1, <2>7 DEF TimesOut, Refused, ReadAnswered, Awaiting
  <2>8. ASSUME NEW c \in Callers, NEW k \in Ids, NEW h \in Ids, WalkEnds(c, k, h)
        PROVE  FALSE
    BY <2>1, <2>8 DEF WalkEnds, Awaiting
  <2>9. ASSUME NEW c \in Callers, NEW b \in Ids, InfoAnswered(c, b)
        PROVE  FALSE
    BY <2>1, <2>9 DEF InfoAnswered, Awaiting
  <2> QED
    BY <2>2, <2>3, <2>4, <2>5, <2>6, <2>7, <2>8, <2>9 DEF NodeNext, Runtime, NoValue
<1> QED
  BY <1>1, NodeInvariant, PTL DEF NodeSpec, LostAnswersNobody
=============================================================================

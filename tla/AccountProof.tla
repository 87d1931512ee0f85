---------------------------- MODULE AccountProof ----------------------------
(* Checking an account read against a trusted masterchain block: from the    *)
(* block to its state, for an account of another workchain through the shard *)
(* record to the shard's block and state, to the account's entry, and from   *)
(* there to the state bytes sent beside the proofs.                          *)
(*                                                                           *)
(* A hash stands for the tree it is the hash of; a proof is a view of a tree *)
(* with parts pruned away, under a claim about its hash. Bags of proofs and  *)
(* state bytes are whatever a server sends.                                  *)
EXTENDS Integers, Sequences

CONSTANTS Nil,
          Block,      \* root hash of a block -> hash of the state it leaves
          State,      \* hash of a state -> its accounts, and its shard record
          Account,    \* hash of an account cell -> what it decodes to
          Trusted,    \* blocks a caller may name: [hash, mc]
          Workchains, MASTERCHAIN,
          AccountIds, \* sequences of bits
          Bags,       \* sequences of proof roots a server may send
          StateBytes, \* state bytes a server may send
          MAX_SPLIT_DEPTH

Hash == DOMAIN Block \cup DOMAIN State
NotFound == "not found"
Nonexistent == "nonexistent"
Part == {"update", "accounts", "entry", "extra", "workchain", "tree"} \X Seq({0, 1})
Root == [proof : BOOLEAN, claim : Hash, content : Hash, depth_ok : BOOLEAN, pruned : SUBSET Part]
Bytes == [empty : BOOLEAN, cells : BOOLEAN, hash : DOMAIN Account, exotic : BOOLEAN, level_mask : Nat]

IsPrefixOf(p, s) == Len(p) <= Len(s) /\ p = SubSeq(s, 1, Len(p))

(* The shards of a workchain split its addresses: an account has one leaf.   *)
Splits(tree) == /\ DOMAIN tree \subseteq Seq({0, 1})
                /\ \A l, m \in DOMAIN tree : IsPrefixOf(l, m) => l = m
                /\ \A id \in AccountIds : \E l \in DOMAIN tree :
                     IsPrefixOf(l, id) /\ Len(l) <= MAX_SPLIT_DEPTH

ASSUME WorldAssumption ==
  /\ MASTERCHAIN \in Workchains /\ MAX_SPLIT_DEPTH \in Nat
  /\ Nil \notin Hash /\ Nil \notin DOMAIN Account /\ Nil # NotFound /\ NotFound \notin DOMAIN Account
  /\ \A id \in AccountIds : id \in Seq({0, 1}) /\ MAX_SPLIT_DEPTH <= Len(id)
  /\ \A h \in DOMAIN Block : Block[h] \in DOMAIN State
  /\ \A h \in DOMAIN State :
       /\ DOMAIN State[h].accounts \subseteq AccountIds
       /\ \A id \in DOMAIN State[h].accounts : State[h].accounts[id] \in DOMAIN Account
       /\ DOMAIN State[h].shards \subseteq Workchains
       /\ \A w \in DOMAIN State[h].shards :
            /\ Splits(State[h].shards[w])
            /\ \A l \in DOMAIN State[h].shards[w] : State[h].shards[w][l] \in DOMAIN Block
  /\ \A t \in Trusted : t.mc => t.hash \in DOMAIN Block
  /\ Bags \subseteq Seq(Root) \cup {Nil} /\ Nil \notin Seq(Root) /\ Nil \notin Root
  /\ StateBytes \subseteq Bytes

VARIABLES stage,      \* "idle", "shard", "tree", "block", "bytes" or "done"
          read,    \* the AccountRead being checked
          tree,    \* the shard tree the walk is in: [leaves, pruned]
          node,    \* the bits walked so far
          origin,   \* root hash of the block the account's state comes from
          entry,   \* hash of the account cell the proof binds
          honest,  \* every answer so far was the whole truth
          result

readVars == <<stage, read, tree, node, origin, entry, honest, result>>

NoRead == [trusted |-> Nil, workchain |-> MASTERCHAIN, account_id |-> <<>>]
NoTree == [leaves |-> <<>>, pruned |-> {}]

ReadInit == /\ stage = "idle" /\ read = NoRead /\ tree = NoTree /\ node = <<>>
        /\ origin = Nil /\ entry = Nil /\ honest = TRUE /\ result = Nil

----------------------------------------------------------------------------
Ok(value) == [ok |-> TRUE, value |-> value, code |-> "", why |-> ""]

(* Every failure of the proof engine is an Error::Proof. *)
Err(why) == [ok |-> FALSE, value |-> Nil, code |-> "Proof", why |-> why]

Done(r) == stage' = "done" /\ result' = r

(* The stored hash is the one expected, and so are the hash and the depth of *)
(* the content attached.                                                     *)
verify_merkle_proof(root, expected) ==
  root.claim = expected /\ root.content = expected /\ root.depth_ok

(* The first proof of a bag that claims to root at `expected`, if it checks. *)
rooted_at(roots, expected) ==
  LET claims == {i \in DOMAIN roots : roots[i].proof /\ roots[i].claim = expected}
  IN  IF claims = {} THEN Nil
      ELSE LET root == roots[CHOOSE i \in claims : \A j \in claims : i <= j]
           IN  IF verify_merkle_proof(root, expected) THEN root ELSE Nil

Shows(root, part) == part \notin root.pruned

(* The hash of the state a block leaves: its update must be in the proof. *)
verify_block_state(roots, block_hash) ==
  LET root == rooted_at(roots, block_hash)
  IN  IF root # Nil /\ root.content \in DOMAIN Block /\ Shows(root, <<"update", <<>>>>)
      THEN Block[root.content] ELSE Nil

(* The view of a state. *)
verify_shard_state(roots, state_hash) ==
  LET root == rooted_at(roots, state_hash)
  IN  IF root # Nil /\ root.content \in DOMAIN State THEN root ELSE Nil

(* What a bag of proofs shows of the state block_hash leaves, if anything. *)
StateOf(roots, block_hash) ==
  LET state_hash == verify_block_state(roots, block_hash)
  IN  IF state_hash = Nil THEN Nil ELSE verify_shard_state(roots, state_hash)

(* A server that answers in full: the bag holds the block and the state it   *)
(* leaves, in any order and beside anything else, and whatever claims to be  *)
(* one of the two is that one with nothing pruned.                           *)
Whole(roots, block_hash) ==
  \A h \in {block_hash, Block[block_hash]} :
    LET claims == {i \in DOMAIN roots : roots[i].proof /\ roots[i].claim = h}
    IN  /\ claims # {}
        /\ \A i \in claims : roots[i].content = h /\ roots[i].depth_ok /\ roots[i].pruned = {}

(* And it sends the account the state's entry names, whole, or nothing where *)
(* there is no entry.                                                        *)
WholeBytes(bytes) ==
  IF entry = NotFound THEN bytes.empty
  ELSE ~bytes.empty /\ bytes.cells /\ ~bytes.exotic /\ bytes.level_mask = 0 /\ bytes.hash = entry

----------------------------------------------------------------------------
(* account_at: only a masterchain block anchors a read. The bytes fetched    *)
(* separately enter the same way, with the caller's word for the block.      *)
account_at(trusted, workchain, account_id) ==
  /\ stage = "idle"
  /\ read' = [trusted |-> trusted.hash, workchain |-> workchain, account_id |-> account_id]
  /\ \/ ~trusted.mc /\ Done(Err("not a masterchain block")) /\ UNCHANGED origin
     \/ /\ trusted.mc /\ workchain = MASTERCHAIN
        /\ stage' = "block" /\ origin' = trusted.hash /\ UNCHANGED result
     \/ /\ trusted.mc /\ workchain # MASTERCHAIN
        /\ stage' = "shard" /\ UNCHANGED <<origin, result>>
  /\ UNCHANGED <<tree, node, entry, honest>>

(* verify_shard_block, as far as the root of the workchain's shard tree. *)
ShardProof(roots) ==
  /\ stage = "shard"
  /\ LET view == StateOf(roots, read.trusted)
         shards == State[view.content].shards
     IN  \/ roots = Nil /\ Done(Err("Cell")) /\ UNCHANGED <<tree, node>>
         \/ roots # Nil /\ view = Nil /\ Done(Err("Unproved")) /\ UNCHANGED <<tree, node>>
         \/ /\ roots # Nil /\ view # Nil
            /\ \/ /\ ~Shows(view, <<"extra", <<>>>>) \/ ~Shows(view, <<"workchain", <<>>>>)
                  /\ Done(Err("NotCovered")) /\ UNCHANGED <<tree, node>>
               \/ /\ Shows(view, <<"extra", <<>>>>) /\ Shows(view, <<"workchain", <<>>>>)
                  /\ \/ /\ read.workchain \notin DOMAIN shards
                        /\ Done(Err("Malformed")) /\ UNCHANGED <<tree, node>>
                     \/ /\ read.workchain \in DOMAIN shards
                        /\ tree' = [leaves |-> shards[read.workchain], pruned |-> view.pruned]
                        /\ node' = <<>> /\ stage' = "tree" /\ UNCHANGED result
  /\ honest' = (honest /\ roots # Nil /\ Whole(roots, read.trusted))
  /\ UNCHANGED <<read, origin, entry>>

(* Mutant: the loop stops one fork early. *)
find_shard_Exclusive ==
  /\ stage = "tree"
  /\ \/ /\ Len(node) >= MAX_SPLIT_DEPTH
        /\ Done(Err("Malformed")) /\ UNCHANGED <<node, origin>>
     \/ /\ Len(node) < MAX_SPLIT_DEPTH
        /\ \/ <<"tree", node>> \in tree.pruned /\ Done(Err("NotCovered")) /\ UNCHANGED <<node, origin>>
           \/ /\ <<"tree", node>> \notin tree.pruned /\ node \in DOMAIN tree.leaves
              /\ origin' = tree.leaves[node] /\ stage' = "block" /\ UNCHANGED <<node, result>>
           \/ /\ <<"tree", node>> \notin tree.pruned /\ node \notin DOMAIN tree.leaves
              /\ node' = Append(node, read.account_id[Len(node) + 1])
              /\ UNCHANGED <<stage, origin, result>>
  /\ UNCHANGED <<read, tree, entry, honest>>

(* find_shard, one node: a placeholder, the leaf of the shard, or a fork     *)
(* where the next bit of the address chooses the half.                       *)
find_shard ==
  /\ stage = "tree"
  /\ \/ /\ Len(node) > MAX_SPLIT_DEPTH
        /\ Done(Err("Malformed")) /\ UNCHANGED <<node, origin>>
     \/ /\ Len(node) <= MAX_SPLIT_DEPTH
        /\ \/ <<"tree", node>> \in tree.pruned /\ Done(Err("NotCovered")) /\ UNCHANGED <<node, origin>>
           \/ /\ <<"tree", node>> \notin tree.pruned /\ node \in DOMAIN tree.leaves
              /\ origin' = tree.leaves[node] /\ stage' = "block" /\ UNCHANGED <<node, result>>
           \/ /\ <<"tree", node>> \notin tree.pruned /\ node \notin DOMAIN tree.leaves
              /\ node' = Append(node, read.account_id[Len(node) + 1])
              /\ UNCHANGED <<stage, origin, result>>
  /\ UNCHANGED <<read, tree, entry, honest>>

(* ShardState::account: pruned (Nil), absent, or the hash of the account. *)
Lookup(view, id) ==
  IF ~Shows(view, <<"accounts", <<>>>>) \/ ~Shows(view, <<"entry", id>>) THEN Nil
  ELSE IF id \in DOMAIN State[view.content].accounts THEN State[view.content].accounts[id]
  ELSE NotFound

(* The account's own state and its entry there. *)
StateProof(roots) ==
  /\ stage = "block"
  /\ LET view == StateOf(roots, origin)
     IN  \/ roots = Nil /\ Done(Err("Cell")) /\ UNCHANGED entry
         \/ roots # Nil /\ view = Nil /\ Done(Err("Unproved")) /\ UNCHANGED entry
         \/ /\ roots # Nil /\ view # Nil
            /\ LET found == Lookup(view, read.account_id)
               IN  \/ found = Nil /\ Done(Err("NotCovered")) /\ UNCHANGED entry
                   \/ found # Nil /\ entry' = found /\ stage' = "bytes" /\ UNCHANGED result
  /\ honest' = (honest /\ roots # Nil /\ Whole(roots, origin))
  /\ UNCHANGED <<read, tree, node, origin>>

(* Mutant: only an exotic root is refused, not a pruned branch below it. *)
Bound_RootOnly(bytes) == ~bytes.exotic /\ bytes.hash = entry

(* An ordinary cell with nothing pruned anywhere below it, and the account's *)
(* own hash.                                                                 *)
Bound(bytes) == ~bytes.exotic /\ bytes.level_mask = 0 /\ bytes.hash = entry

(* The state bytes against the entry, and Account::from_cell. *)
StateBytesChecked(bytes) ==
  /\ stage = "bytes"
  /\ \/ entry = NotFound /\ bytes.empty /\ Done(Ok(Nonexistent))
     \/ entry = NotFound /\ ~bytes.empty /\ Done(Err("NotBound"))
     \/ entry # NotFound /\ bytes.empty /\ Done(Err("NotBound"))
     \/ entry # NotFound /\ ~bytes.empty /\ ~bytes.cells /\ Done(Err("Cell"))
     \/ /\ entry # NotFound /\ ~bytes.empty /\ bytes.cells
        /\ \/ ~Bound(bytes) /\ Done(Err("NotBound"))
           \/ /\ Bound(bytes)
              /\ Done(Ok([account |-> Account[bytes.hash], whole |-> bytes.level_mask = 0]))
  /\ honest' = (honest /\ WholeBytes(bytes))
  /\ UNCHANGED <<read, tree, node, origin, entry>>

(* The caller reads again. *)
Again == stage = "done" /\ stage' = "idle" /\ read' = NoRead /\ tree' = NoTree /\ node' = <<>>
         /\ origin' = Nil /\ entry' = Nil /\ honest' = TRUE /\ result' = Nil

ReadNext == \/ \E t \in Trusted, w \in Workchains, id \in AccountIds : account_at(t, w, id)
        \/ \E roots \in Bags : ShardProof(roots) \/ StateProof(roots)
        \/ find_shard
        \/ \E bytes \in StateBytes : StateBytesChecked(bytes)
        \/ Again

ReadSpec == ReadInit /\ [][ReadNext]_readVars

----------------------------------------------------------------------------
TypeOK ==
  /\ stage \in {"idle", "shard", "tree", "block", "bytes", "done"}
  /\ node \in Seq({0, 1}) /\ Len(node) <= MAX_SPLIT_DEPTH + 1
  /\ origin \in DOMAIN Block \cup {Nil} /\ entry \in DOMAIN Account \cup {Nil, NotFound}
  /\ stage \in {"idle", "shard", "tree"} => origin = Nil
  /\ honest \in BOOLEAN

(* The block an account's state lies in, by the masterchain's own record. *)
Home(r) == IF r.workchain = MASTERCHAIN THEN {r.trusted}
           ELSE LET shards == State[Block[r.trusted]].shards
                IN  IF r.workchain \notin DOMAIN shards THEN {}
                    ELSE {shards[r.workchain][l] :
                            l \in {l \in DOMAIN shards[r.workchain] : IsPrefixOf(l, r.account_id)}}

(* What that block's state holds for the account. *)
Truth(r, home) == LET accounts == State[Block[home]].accounts
                  IN  IF r.account_id \in DOMAIN accounts
                      THEN [account |-> Account[accounts[r.account_id]], whole |-> TRUE]
                      ELSE Nonexistent

(* Whatever mixture of proofs, pruned views, lying roots and state bytes a   *)
(* server sends: an answer that is returned as proved is what the chain      *)
(* holds for this account, in the shard the masterchain records for it, with *)
(* nothing missing; and "nonexistent" is never a part that was withheld.     *)
ProvedIsTrue ==
  stage = "done" /\ result.ok => \E home \in Home(read) : result.value = Truth(read, home)

(* A server that sends whole proofs of the right trees and the right bytes   *)
(* is always believed, down to the deepest shard a workchain may split into. *)
WholeAnswerIsAccepted ==
  stage = "done" /\ honest /\ Home(read) # {} => result.ok \/ result.why = "not a masterchain block"
=============================================================================

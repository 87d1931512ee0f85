------------------------------ MODULE MCClient ------------------------------
(* Reading one account, and the calls of one client.  They share no state, so  *)
(* the run explores one at a time.                                             *)
(*                                                                             *)
(* The reads: a masterchain block M, a workchain split into three shards, the  *)
(* deepest at the split limit, and an older block Bx of the first shard, whose *)
(* state holds another version of the same account.  A bag holds up to two     *)
(* proofs: whole ones, views with one part pruned, and roots that lie.         *)
(* The calls: two key blocks, a head after each, and a block of a shard.       *)
EXTENDS AccountProof, NodeClient, TLC

MCBlock == [h \in {"M", "B0", "B1", "B2", "Bx"} |->
  CASE h = "M" -> "SM" [] h = "B0" -> "T0" [] h = "B1" -> "T1" [] h = "B2" -> "T2" [] h = "Bx" -> "Tx"]

Holding(accounts) == [accounts |-> accounts, shards |-> <<>>]
MCState == [h \in {"SM", "T0", "T1", "T2", "Tx"} |->
  CASE h = "SM" -> [accounts |-> <<0, 0>> :> "a0",
                    shards |-> 0 :> (<<0>> :> "B0" @@ <<1, 0>> :> "B1" @@ <<1, 1>> :> "B2")]
    [] h = "T0" -> Holding(<<0, 0>> :> "a1")
    [] h = "T1" -> Holding(<<>>)
    [] h = "T2" -> Holding(<<1, 1>> :> "a2")
    [] h = "Tx" -> Holding(<<0, 0>> :> "ax")]

MCAccount == [h \in {"a0", "a1", "a2", "ax"} |-> h]
MCTrusted == {[hash |-> "M", mc |-> TRUE], [hash |-> "B0", mc |-> FALSE]}
MCWorkchains == {-1, 0, 1}
MCMasterchain == -1
MCAccountIds == {<<0, 0>>, <<1, 0>>, <<1, 1>>}

WholeRoot(h) == [proof |-> TRUE, claim |-> h, content |-> h, depth_ok |-> TRUE, pruned |-> {}]
Without(h, parts) == {[WholeRoot(h) EXCEPT !.pruned = {p}] : p \in parts}
Lying(h, c) == [WholeRoot(h) EXCEPT !.content = c]

MCRoots == {WholeRoot(h) : h \in Hash}
  \cup UNION {Without(h, {<<"update", <<>>>>}) : h \in {"M", "B0"}}
  \cup UNION {Without(h, {<<"accounts", <<>>>>, <<"entry", <<0, 0>>>>}) : h \in {"SM", "T0"}}
  \cup Without("SM", {<<"extra", <<>>>>, <<"workchain", <<>>>>, <<"tree", <<>>>>,
                      <<"tree", <<0>>>>, <<"tree", <<1>>>>, <<"tree", <<1, 1>>>>})
  \cup {Lying("B0", "Bx"), Lying("T0", "Tx"), Lying("SM", "T1"), Lying("T2", "SM")}
  \cup {[WholeRoot("SM") EXCEPT !.proof = FALSE], [WholeRoot("T0") EXCEPT !.depth_ok = FALSE]}

MCBags == {Nil, <<>>} \cup {<<r>> : r \in MCRoots} \cup (MCRoots \X MCRoots)

Sent(h) == [empty |-> FALSE, cells |-> TRUE, hash |-> h, exotic |-> FALSE, level_mask |-> 0]
MCStateBytes == {[Sent("a0") EXCEPT !.empty = TRUE], [Sent("a0") EXCEPT !.cells = FALSE]}
  \cup {[Sent(h) EXCEPT !.exotic = e, !.level_mask = l] :
          h \in DOMAIN MCAccount, e \in BOOLEAN, l \in 0..1}

-----------------------------------------------------------------------------
B(n, name, mc) == [seqno |-> n, name |-> name, mc |-> mc]
K1 == B(1, "k1", TRUE)
K3 == B(3, "k3", TRUE)
H2 == B(2, "h2", TRUE)
H4 == B(4, "h4", TRUE)

Shard == B(4, "shard", FALSE)

MCIds == {K1, K3, H2, H4, Shard}
MCArgs == {H2, Shard}
MCCommitted == {K1, K3, H2, H4}
MCCommittedKeys == {K1, K3}
MCVouches == {<<K1, H2>>, <<K1, K3>>, <<K3, K3>>, <<K3, H4>>}
MCInitBlock == K1

-----------------------------------------------------------------------------
MCInit == ReadInit /\ NodeInit
MCNext == \/ NodeInit /\ ReadNext /\ UNCHANGED nodeVars
          \/ ReadInit /\ NodeNext /\ UNCHANGED readVars
MCSpec == MCInit /\ [][MCNext]_<<readVars, nodeVars>> /\ NodeFairness
=============================================================================

------------------------------- MODULE MCSync -------------------------------
(* A chain of six blocks, three of them key blocks, the first two with the   *)
(* same validators; block 9 is one nobody committed. A link is honest or     *)
(* differs from an honest one in one field, and identities may carry a wrong *)
(* sequence number, file hash or shard.                                      *)
EXTENDS Sync

MCHeader == [r \in 0..5 \cup {9} |->
  [seqno |-> IF r = 9 THEN 3 ELSE r, mc |-> TRUE, key |-> r \in {0, 2, 3, 9}, utime |-> r]]

Real(n) == [seqno |-> n, root |-> n, file |-> n, mc |-> TRUE]
MCCommitted == {Real(n) : n \in 0..5}
MCIds == MCCommitted \cup
  {[Real(3) EXCEPT !.seqno = 4], [Real(4) EXCEPT !.file = 3], [Real(3) EXCEPT !.mc = FALSE],
   [seqno |-> 3, root |-> 9, file |-> 9, mc |-> TRUE]}

MCSigned == {<<k, n, n>> : k \in {0, 2}, n \in 1..3} \cup {<<3, n, n>> : n \in 4..5}
              \cup {<<9, n, n>> : n \in 0..5}

Honest(from, to) ==
  [forward |-> TRUE, from |-> from, to |-> to, to_key_block |-> MCHeader[to.root].key,
   config |-> from.root, dest |-> to.root, named |-> NoBlock, enough |-> TRUE]

Deviating(l) ==
  {[l EXCEPT !.forward = FALSE], [l EXCEPT !.to_key_block = ~@], [l EXCEPT !.config = 9],
   [l EXCEPT !.dest = 9], [l EXCEPT !.enough = FALSE], [l EXCEPT !.named = l.to]}
    \cup {[Honest(l.from, b) EXCEPT !.named = l.to] : b \in MCIds}

MCLinks ==
  {Honest(Real(k), to) : k \in 0..3, to \in MCIds}
    \cup UNION {Deviating(Honest(Real(t[1]), Real(t[2]))) : t \in {<<0, 2>>, <<2, 3>>, <<3, 4>>}}

MCInitBlock == Real(0)
=============================================================================

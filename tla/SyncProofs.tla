----------------------------- MODULE SyncProofs -----------------------------
(* Proofs about the walk, for every chain, every set of links a server may   *)
(* send and every value of the bounds. The invariants of the runs are not    *)
(* inductive: IndInv adds where a walk stands, what the links of the reply   *)
(* under check have established, and how long the walk has taken.            *)
EXTENDS Sync, TLAPS

(* The block the rest of the reply must start from. *)
From == IF proven = NoBlock THEN at ELSE proven

(* A walk under way has its blocks, starts each reply at the key block it    *)
(* would keep, and has no head to report yet.                                *)
Place == /\ pc \in {"proof", "links"} => /\ {at, target, start} \subseteq Ids
                                         /\ trusted_key_block = at
                                         /\ start.seqno <= at.seqno
         /\ pc = "info" => start \in Ids
         /\ boot => Syncing
         /\ Syncing => head = NoBlock
         /\ pc = "links" => steps # 0

(* What the links checked so far have established about the last of them and *)
(* the last key block among them.                                            *)
Reached == pc = "links" =>
  /\ step = 0 => proven = NoBlock /\ last_key = NoBlock
  /\ step # 0 => /\ proven \in Ids
                 /\ AsI32(at.seqno) < AsI32(proven.seqno)
                 /\ \/ Header[proven.root].key /\ last_key = proven
                    \/ /\ ~Header[proven.root].key
                       /\ <<Kept.root, proven.root, proven.file>> \in Signed
                 /\ last_key # NoBlock => /\ AsI32(at.seqno) < AsI32(last_key.seqno)
                                          /\ AsI32(last_key.seqno) <= AsI32(proven.seqno)

(* Time is spent by the replies counted and by the one in flight. *)
Spent == /\ pc \notin {"proof", "links"} => elapsed = 0
         /\ pc = "proof" => /\ waited <= PROOF_TIMEOUT
                            /\ elapsed <= rounds * PROOF_TIMEOUT + waited
                            /\ max_head_age # 0 => elapsed <= max_head_age + waited
         /\ pc = "links" => /\ elapsed <= rounds * PROOF_TIMEOUT
                            /\ max_head_age # 0 => elapsed <= max_head_age + PROOF_TIMEOUT

IndInv == /\ TypeOK /\ TrustsOnlyCommitted /\ AnchorVouchesForHead
          /\ Place /\ Reached /\ Spent

----------------------------------------------------------------------------
(* The fields of an identity. *)
LEMMA IdFields ==
  ASSUME NEW b \in Ids
  PROVE  /\ b \in Id /\ b # NoBlock
         /\ b.seqno \in Nat /\ b.seqno < 2 * HALF /\ b.root \in DOMAIN Header
         /\ Header[b.root] \in HeaderOf
<1>1. b \in Id /\ b # NoBlock
  BY WorldAssumption
<1>2. b.seqno \in 0..(2 * HALF - 1) /\ b.root \in DOMAIN Header
  BY <1>1 DEF Id
<1>3. b.seqno \in Nat /\ b.seqno < 2 * HALF
  BY <1>2, BoundsAssumption
<1>4. Header[b.root] \in HeaderOf
  BY <1>2, WorldAssumption
<1> QED
  BY <1>1, <1>2, <1>3, <1>4

(* What a link carries. *)
LEMMA LinkFields ==
  ASSUME NEW link \in Links
  PROVE  link.to \in Ids /\ link.to_key_block \in BOOLEAN
<1>1. link \in Link
  BY WorldAssumption
<1> QED
  BY <1>1 DEF Link

(* Below a sequence number that is higher both signed and unsigned, signed   *)
(* order is unsigned order: no step in between crosses 2^31.                 *)
LEMMA NoCrossing ==
  ASSUME NEW a \in Nat, NEW b \in Nat, NEW c \in Nat,
         a < 2 * HALF, b < 2 * HALF, c < 2 * HALF, a < c,
         AsI32(a) < AsI32(b), AsI32(b) <= AsI32(c)
  PROVE  a <= b /\ b <= c
BY BoundsAssumption DEF AsI32

LEMMA NotAbove ==
  ASSUME NEW n \in Int
  PROVE  n <= n
OBVIOUS

LEMMA OneMore ==
  ASSUME NEW r \in Nat, NEW p \in Nat
  PROVE  (r + 1) * p = r * p + p /\ r * p \in Nat
OBVIOUS

LEMMA AtMost ==
  ASSUME NEW r \in Nat, NEW m \in Nat, NEW p \in Nat, r <= m
  PROVE  r * p <= m * p
<1>1. PICK d \in Nat : m = r + d
  <2>1. m - r \in Nat /\ m = r + (m - r)
    OBVIOUS
  <2> QED
    BY <2>1
<1>2. (r + d) * p = r * p + d * p /\ d * p \in Nat /\ r * p \in Nat
  OBVIOUS
<1> QED
  BY <1>1, <1>2

(* The heart of the matter: a link that checks leads from a committed block  *)
(* to a committed block, because only a key block has a configuration and    *)
(* its validators sign committed blocks only.                                *)
LEMMA LinkCommits ==
  ASSUME NEW link \in Links, NEW from \in Committed, verify_link(link, from)
  PROVE  /\ link.to \in Committed /\ Header[from.root].key
         /\ link.to_key_block = Header[link.to.root].key
         /\ <<from.root, link.to.root, link.to.file>> \in Signed
         /\ AsI32(link.to.seqno) > AsI32(from.seqno)
<1>1. link.to \in Ids /\ from \in CommittedKeys
  BY LinkFields DEF verify_link, CommittedKeys
<1>2. Covers(link) = link.to
  BY DEF verify_link, Covers
<1>3. <<from.root, link.to.root, link.to.file>> \in Signed
  BY <1>2 DEF verify_link
<1>4. link.to.seqno = Header[link.to.root].seqno /\ link.to.mc = Header[link.to.root].mc
  BY DEF verify_link
<1>5. link.to \in Committed
  BY <1>1, <1>3, <1>4, WorldAssumption
<1> QED
  BY <1>3, <1>5 DEF verify_link

----------------------------------------------------------------------------
LEMMA InitInd == Init => IndInv
<1> SUFFICES ASSUME Init PROVE IndInv
  OBVIOUS
<1>1. TypeOK
  <2>1. boot \in BOOLEAN
    BY Zenon DEF Init
  <2> QED
    BY <2>1, BoundsAssumption DEF Init, TypeOK, Block
<1>2. TrustsOnlyCommitted /\ AnchorVouchesForHead
  BY DEF Init, TrustsOnlyCommitted, AnchorVouchesForHead
<1>3. Place /\ Reached /\ Spent
  BY DEF Init, Place, Reached, Spent, Syncing
<1> QED
  BY <1>1, <1>2, <1>3 DEF IndInv

(* A sync that fails, losing its session or not, leaves nothing of the walk. *)
LEMMA FailInd ==
  ASSUME IndInv, NEW why, Fail(why) \/ FailLost(why)
  PROVE  IndInv'
<1> USE DEF Fail, FailLost, Forget
<1>1. TypeOK'
  <2>1. boot' \in BOOLEAN
    BY Zenon
  <2>2. anchor' \in Block /\ saved' \in Block /\ head' \in Block
    BY DEF IndInv, TypeOK, Block
  <2>3. pc' \in {"down", "idle"} /\ session' \in {"none", "open", "lost"}
    BY DEF IndInv, TypeOK
  <2> QED
    BY <2>1, <2>2, <2>3, BoundsAssumption DEF TypeOK, Block
<1>2. TrustsOnlyCommitted'
  BY DEF IndInv, TrustsOnlyCommitted
<1>3. AnchorVouchesForHead'
  BY DEF IndInv, AnchorVouchesForHead, Place
<1>4. Place' /\ Reached' /\ Spent'
  BY DEF Place, Reached, Spent, Syncing
<1> QED
  BY <1>1, <1>2, <1>3, <1>4 DEF IndInv

LEMMA OutsideInd ==
  ASSUME IndInv,
         Connect \/ ConnectFails \/ ConnectFrom \/ SyncBegin \/ Save \/ Stop
  PROVE  IndInv'
<1>1. CASE Connect \/ ConnectFails
  <2>1. TypeOK'
    BY <1>1 DEF IndInv, TypeOK, Connect, ConnectFails, walk, reply, clock
  <2>2. TrustsOnlyCommitted' /\ AnchorVouchesForHead'
    BY <1>1 DEF IndInv, TrustsOnlyCommitted, AnchorVouchesForHead, Connect, ConnectFails, walk,
                reply, clock
  <2>3. Place' /\ Reached' /\ Spent'
    BY <1>1 DEF IndInv, Place, Reached, Spent, Syncing, Connect, ConnectFails, walk, reply, clock
  <2> QED
    BY <2>1, <2>2, <2>3 DEF IndInv
<1>2. CASE ConnectFrom
  <2>1. TypeOK'
    <3>1. boot' \in BOOLEAN
      BY <1>2, Zenon DEF ConnectFrom
    <3> QED
      BY <1>2, <3>1 DEF IndInv, TypeOK, Block, ConnectFrom, reply
  <2>2. TrustsOnlyCommitted' /\ AnchorVouchesForHead'
    BY <1>2 DEF IndInv, TrustsOnlyCommitted, AnchorVouchesForHead, ConnectFrom, reply
  <2>3. start' \in Ids
    BY <1>2 DEF IndInv, TypeOK, Block, ConnectFrom
  <2>4. Place' /\ Reached' /\ Spent'
    BY <1>2, <2>3 DEF IndInv, Place, Reached, Spent, Syncing, ConnectFrom, reply
  <2> QED
    BY <2>1, <2>2, <2>4 DEF IndInv
<1>3. CASE SyncBegin
  <2>1. Start \in Ids /\ Start \in CommittedKeys
    BY <1>3, WorldAssumption
    DEF IndInv, TypeOK, TrustsOnlyCommitted, Block, SyncBegin, Start, CommittedKeys
  <2>2. TypeOK'
    BY <1>3, <2>1 DEF IndInv, TypeOK, Block, SyncBegin, reply
  <2>3. TrustsOnlyCommitted' /\ AnchorVouchesForHead'
    BY <1>3, <2>1 DEF IndInv, TrustsOnlyCommitted, AnchorVouchesForHead, SyncBegin, reply
  <2>4. Place' /\ Reached' /\ Spent'
    BY <1>3, <2>1 DEF IndInv, Place, Reached, Spent, Syncing, SyncBegin, reply
  <2> QED
    BY <2>2, <2>3, <2>4 DEF IndInv
<1>4. CASE Save
  <2>1. TypeOK'
    BY <1>4 DEF IndInv, TypeOK, Save, walk, reply, clock
  <2>2. TrustsOnlyCommitted' /\ AnchorVouchesForHead'
    BY <1>4 DEF IndInv, TrustsOnlyCommitted, AnchorVouchesForHead, Save, walk, reply, clock
  <2>3. Place' /\ Reached' /\ Spent'
    BY <1>4 DEF IndInv, Place, Reached, Spent, Syncing, Save, walk, reply, clock
  <2> QED
    BY <2>1, <2>2, <2>3 DEF IndInv
<1>5. CASE Stop
  <2>1. TypeOK'
    <3>1. boot' \in BOOLEAN
      BY <1>5, Zenon DEF Stop
    <3> QED
      BY <1>5, <3>1, BoundsAssumption DEF IndInv, TypeOK, Block, Stop, Forget
  <2>2. TrustsOnlyCommitted' /\ AnchorVouchesForHead'
    BY <1>5 DEF IndInv, TrustsOnlyCommitted, AnchorVouchesForHead, Stop, Forget
  <2>3. Place' /\ Reached' /\ Spent'
    BY <1>5 DEF IndInv, Place, Reached, Spent, Syncing, Stop, Forget
  <2> QED
    BY <2>1, <2>2, <2>3 DEF IndInv
<1> QED
  BY <1>1, <1>2, <1>3, <1>4, <1>5

LEMMA InfoAnsweredInd ==
  ASSUME IndInv, NEW last \in Ids, NEW now \in Clocks, InfoAnswered(last, now)
  PROVE  IndInv'
<1>1. CASE Fail("Sync")
  BY <1>1, FailInd
<1>2. CASE ~Fail("Sync")
  <2>1. /\ pc = "info" /\ pc' = "proof" /\ target' = last /\ at' = start
        /\ trusted_key_block' = start /\ rounds' = 0 /\ links' = 0 /\ elapsed' = 0
        /\ wall' = now /\ waited' = 0
        /\ UNCHANGED <<boot, session, anchor, saved, start, reply, head, result>>
    BY <1>2 DEF InfoAnswered
  <2>2. start \in Ids /\ start.seqno \in Nat /\ now \in Nat
    BY <2>1, IdFields, BoundsAssumption DEF IndInv, Place
  <2>3. TypeOK'
    BY <2>1, <2>2, BoundsAssumption DEF IndInv, TypeOK, Block, reply
  <2>4. TrustsOnlyCommitted' /\ AnchorVouchesForHead'
    BY <2>1 DEF IndInv, TrustsOnlyCommitted, AnchorVouchesForHead, CommittedKeys, reply
  <2>5. Place' /\ Reached'
    BY <2>1, <2>2 DEF IndInv, Place, Reached, Syncing
  <2>6. Spent'
    BY <2>1, BoundsAssumption DEF Spent
  <2> QED
    BY <2>3, <2>4, <2>5, <2>6 DEF IndInv
<1> QED
  BY <1>1, <1>2

LEMMA ProofAnsweredInd ==
  ASSUME IndInv, NEW from \in Ids, NEW count \in 0..(MAX_LINKS_PER_REPLY + 1),
         NEW oversize \in BOOLEAN, ProofAnswered(from, count, oversize)
  PROVE  IndInv'
<1>1. CASE Fail("Sync")
  BY <1>1, FailInd
<1>2. CASE ~Fail("Sync")
  <2>1. /\ pc = "proof" /\ pc' = "links" /\ count \in 1..MAX_LINKS_PER_REPLY
        /\ rounds + 1 <= MAX_ROUNDS /\ links + count <= MAX_LINKS_PER_SYNC
        /\ rounds' = rounds + 1 /\ links' = links + count
        /\ steps' = count /\ step' = 0 /\ proven' = NoBlock /\ last_key' = NoBlock
        /\ UNCHANGED <<boot, session, anchor, saved, target, start, at, trusted_key_block,
                       waited, elapsed, wall, head, result>>
    BY <1>2 DEF ProofAnswered, clock
  <2>2. TypeOK'
    <3>1. /\ rounds' \in 0..MAX_ROUNDS /\ links' \in 0..MAX_LINKS_PER_SYNC
          /\ steps' \in 0..MAX_LINKS_PER_REPLY /\ step' \in 0..steps'
      BY <2>1, BoundsAssumption DEF IndInv, TypeOK
    <3> QED
      BY <2>1, <3>1 DEF IndInv, TypeOK, Block
  <2>3. TrustsOnlyCommitted' /\ AnchorVouchesForHead'
    BY <2>1 DEF IndInv, TrustsOnlyCommitted, AnchorVouchesForHead
  <2>4. Place' /\ Reached'
    BY <2>1, BoundsAssumption DEF IndInv, Place, Reached, Syncing
  <2>5. Spent'
    <3>1. /\ rounds \in Nat /\ elapsed \in Nat /\ waited \in Nat /\ PROOF_TIMEOUT \in Nat
          /\ max_head_age \in Nat /\ waited <= PROOF_TIMEOUT
          /\ elapsed <= rounds * PROOF_TIMEOUT + waited
          /\ max_head_age # 0 => elapsed <= max_head_age + waited
      BY <2>1, BoundsAssumption DEF IndInv, TypeOK, Spent
    <3>2. /\ (rounds + 1) * PROOF_TIMEOUT = rounds * PROOF_TIMEOUT + PROOF_TIMEOUT
          /\ rounds * PROOF_TIMEOUT \in Nat
      BY <3>1, OneMore
    <3>3. elapsed <= rounds * PROOF_TIMEOUT + PROOF_TIMEOUT
      BY <3>1, <3>2
    <3>4. max_head_age # 0 => elapsed <= max_head_age + PROOF_TIMEOUT
      BY <3>1
    <3> QED
      BY <2>1, <3>2, <3>3, <3>4 DEF Spent
  <2> QED
    BY <2>2, <2>3, <2>4, <2>5 DEF IndInv
<1> QED
  BY <1>1, <1>2

LEMMA TickInd ==
  ASSUME IndInv, Tick
  PROVE  IndInv'
<1>1. /\ pc \in {"info", "proof"} /\ waited < Deadline /\ waited' = waited + 1
      /\ \/ pc = "proof" /\ elapsed' = elapsed + 1 /\ wall' = wall + 1
         \/ pc = "info" /\ elapsed' = elapsed /\ wall' = wall
      /\ UNCHANGED <<pc, boot, session, anchor, saved, walk, reply, head, result>>
  BY DEF Tick
<1>2. UNCHANGED <<target, start, at, trusted_key_block, rounds, links, steps, step, proven, last_key>>
  BY <1>1 DEF walk, reply
<1>3. TypeOK'
  <2>1. waited' \in Nat /\ elapsed' \in Nat /\ wall' \in Nat
    BY <1>1 DEF IndInv, TypeOK
  <2> QED
    BY <1>1, <1>2, <2>1 DEF IndInv, TypeOK
<1>4. TrustsOnlyCommitted' /\ AnchorVouchesForHead'
  BY <1>1, <1>2 DEF IndInv, TrustsOnlyCommitted, AnchorVouchesForHead
<1>5. Place' /\ Reached'
  BY <1>1, <1>2 DEF IndInv, Place, Reached, Syncing
<1>6. Spent'
  <2>1. CASE pc = "info"
    BY <1>1, <2>1 DEF IndInv, Spent
  <2>2. CASE pc = "proof"
    <3>1. /\ rounds \in Nat /\ elapsed \in Nat /\ waited \in Nat /\ PROOF_TIMEOUT \in Nat
          /\ max_head_age \in Nat /\ waited < PROOF_TIMEOUT
          /\ elapsed <= rounds * PROOF_TIMEOUT + waited
          /\ max_head_age # 0 => elapsed <= max_head_age + waited
      BY <1>1, <2>2, BoundsAssumption DEF IndInv, TypeOK, Spent, Deadline
    <3>2. rounds * PROOF_TIMEOUT \in Nat
      BY <3>1, OneMore
    <3>3. /\ waited + 1 <= PROOF_TIMEOUT
          /\ elapsed + 1 <= rounds * PROOF_TIMEOUT + (waited + 1)
          /\ max_head_age # 0 => elapsed + 1 <= max_head_age + (waited + 1)
      BY <3>1, <3>2
    <3> QED
      BY <1>1, <1>2, <2>2, <3>3 DEF Spent
  <2> QED
    BY <1>1, <2>1, <2>2
<1> QED
  BY <1>3, <1>4, <1>5, <1>6 DEF IndInv

(* One more link: its destination is committed, and the key block kept is    *)
(* the destination itself or the source, whose validators signed it.         *)
LEMMA VerifyLinkInd ==
  ASSUME IndInv, NEW link \in Links, VerifyLink(link)
  PROVE  IndInv'
<1>1. CASE Fail("Sync")
  BY <1>1, FailInd
<1>2. CASE ~Fail("Sync")
  <2>1. /\ pc = "links" /\ step < steps /\ verify_link(link, From)
        /\ proven' = link.to /\ step' = step + 1
        /\ last_key' = IF link.to_key_block THEN link.to ELSE last_key
        /\ UNCHANGED <<pc, boot, session, anchor, saved, walk, steps, clock, head, result>>
    BY <1>2 DEF VerifyLink, From
  <2>2. UNCHANGED <<target, start, at, trusted_key_block, rounds, links, waited, elapsed, wall>>
    BY <2>1 DEF walk, clock
  <2>3. /\ at \in Ids /\ at \in Committed /\ trusted_key_block = at
        /\ step \in Nat /\ steps \in Nat
    BY <2>1, IdFields, BoundsAssumption DEF IndInv, Place, TrustsOnlyCommitted, TypeOK
  <2>4. From \in Committed /\ From \in Ids
    BY <2>1, <2>3, WorldAssumption DEF IndInv, From, TrustsOnlyCommitted
  <2>5. /\ link.to \in Committed /\ link.to \in Ids /\ Header[From.root].key
        /\ link.to_key_block = Header[link.to.root].key
        /\ <<From.root, link.to.root, link.to.file>> \in Signed
        /\ AsI32(link.to.seqno) > AsI32(From.seqno)
    BY <2>1, <2>4, LinkCommits, LinkFields
  <2>6. /\ at.seqno \in Nat /\ From.seqno \in Nat /\ link.to.seqno \in Nat
        /\ link.to # NoBlock
    BY <2>3, <2>4, <2>5, IdFields
  <2>7. /\ AsI32(at.seqno) \in Int /\ AsI32(From.seqno) \in Int /\ AsI32(link.to.seqno) \in Int
    BY <2>6, BoundsAssumption DEF AsI32
  <2>8. Kept = From
    BY <2>1, <2>3, <2>5, IdFields DEF IndInv, Reached, Kept, From
  <2>9. AsI32(at.seqno) <= AsI32(From.seqno)
    <3>1. CASE proven = NoBlock
      BY <2>7, <3>1 DEF From
    <3>2. CASE proven # NoBlock
      <4>1. From = proven /\ AsI32(at.seqno) < AsI32(proven.seqno)
        BY <2>1, <3>2 DEF IndInv, Reached, From
      <4> QED
        BY <2>7, <4>1
    <3> QED
      BY <3>1, <3>2
  <2>10. AsI32(at.seqno) < AsI32(link.to.seqno)
    BY <2>5, <2>7, <2>9
  <2>11. last_key # NoBlock => last_key = From
    BY <2>8 DEF Kept
  <2>12. TypeOK'
    <3>1. step' \in 0..steps'
      BY <2>1, <2>3
    <3>2. proven' \in Block /\ last_key' \in Block
      BY <2>1, <2>5 DEF IndInv, TypeOK, Block
    <3>3. /\ {anchor, saved, target, start, at, trusted_key_block, head} \subseteq Block
          /\ rounds \in 0..MAX_ROUNDS /\ links \in 0..MAX_LINKS_PER_SYNC
          /\ steps \in 0..MAX_LINKS_PER_REPLY
          /\ waited \in Nat /\ elapsed \in Nat /\ wall \in Nat
      BY DEF IndInv, TypeOK
    <3>4. /\ pc' \in {"down", "idle", "info", "proof", "links"} /\ boot' \in BOOLEAN
          /\ session' \in {"none", "open", "lost"}
      BY <2>1 DEF IndInv, TypeOK
    <3> QED
      BY <2>1, <2>2, <3>1, <3>2, <3>3, <3>4 DEF TypeOK
  <2>13. TrustsOnlyCommitted' /\ AnchorVouchesForHead'
    <3>1. last_key' \in CommittedKeys \cup {NoBlock}
      BY <2>1, <2>5 DEF IndInv, TrustsOnlyCommitted, CommittedKeys
    <3> QED
      BY <2>1, <2>2, <2>5, <3>1 DEF IndInv, TrustsOnlyCommitted, AnchorVouchesForHead
  <2>14. Place' /\ Spent'
    BY <2>1, <2>2 DEF IndInv, Place, Spent, Syncing
  <2>15. Reached'
    <3>1. step' # 0 /\ at' = at
      BY <2>1, <2>2, <2>3
    <3>2. CASE link.to_key_block
      <4>1. last_key' = link.to /\ Header[link.to.root].key /\ proven' = link.to
        BY <2>1, <2>5, <3>2
      <4>2. AsI32(link.to.seqno) <= AsI32(link.to.seqno)
        BY <2>7, NotAbove
      <4> QED
        BY <2>5, <2>10, <3>1, <4>1, <4>2 DEF Reached
    <3>3. CASE ~link.to_key_block
      <4>1. last_key' = last_key /\ ~Header[link.to.root].key /\ Kept' = Kept
        BY <2>1, <2>2, <2>5, <3>3 DEF Kept
      <4>2. last_key # NoBlock => /\ AsI32(at.seqno) < AsI32(last_key.seqno)
                                  /\ AsI32(last_key.seqno) <= AsI32(link.to.seqno)
        <5> SUFFICES ASSUME last_key # NoBlock
                     PROVE  /\ AsI32(at.seqno) < AsI32(last_key.seqno)
                            /\ AsI32(last_key.seqno) <= AsI32(link.to.seqno)
          OBVIOUS
        <5>1. last_key = From /\ AsI32(at.seqno) < AsI32(last_key.seqno)
          BY <2>1, <2>11 DEF IndInv, Reached
        <5> QED
          BY <2>5, <2>7, <5>1
      <4> QED
        BY <2>1, <2>5, <2>8, <2>10, <3>1, <4>1, <4>2 DEF Reached
    <3> QED
      BY <2>5, <3>2, <3>3
  <2> QED
    BY <2>12, <2>13, <2>14, <2>15 DEF IndInv
<1> QED
  BY <1>1, <1>2

(* Where a checked reply leaves the walk: past where it was, with the key    *)
(* block to keep in between.                                                 *)
LEMMA KeptBetween ==
  ASSUME IndInv, pc = "links", step = steps, proven.seqno > at.seqno
  PROVE  /\ proven \in Ids /\ proven \in Committed /\ Kept \in CommittedKeys /\ Kept \in Ids
         /\ start.seqno <= Kept.seqno /\ Kept.seqno <= proven.seqno
         /\ Kept = proven \/ <<Kept.root, proven.root, proven.file>> \in Signed
         /\ Header[proven.root].key => Kept = proven
<1>1. step # 0 /\ proven \in Ids /\ proven # NoBlock
  BY IdFields DEF IndInv, Place, Reached
<1>2. /\ start \in Ids /\ at \in Ids /\ trusted_key_block = at /\ start.seqno <= at.seqno
      /\ at # NoBlock
  BY IdFields DEF IndInv, Place
<1>3. proven \in Committed /\ Kept \in CommittedKeys
  BY <1>1, <1>2 DEF IndInv, TrustsOnlyCommitted, Kept
<1>4. Kept \in Ids
  BY <1>3, WorldAssumption DEF CommittedKeys
<1>5. /\ start.seqno \in Nat /\ at.seqno \in Nat /\ proven.seqno \in Nat /\ Kept.seqno \in Nat
      /\ at.seqno < 2 * HALF /\ proven.seqno < 2 * HALF /\ Kept.seqno < 2 * HALF
  BY <1>1, <1>2, <1>4, IdFields
<1>6. at.seqno <= Kept.seqno /\ Kept.seqno <= proven.seqno
  <2>1. CASE last_key = NoBlock
    BY <1>2, <1>5, <2>1 DEF Kept
  <2>2. CASE last_key # NoBlock
    <3>1. /\ Kept = last_key /\ AsI32(at.seqno) < AsI32(last_key.seqno)
          /\ AsI32(last_key.seqno) <= AsI32(proven.seqno)
      BY <1>1, <2>2 DEF IndInv, Reached, Kept
    <3> QED
      BY <1>5, <3>1, NoCrossing
  <2> QED
    BY <2>1, <2>2
<1>7. start.seqno <= Kept.seqno
  BY <1>2, <1>5, <1>6
<1>8. \/ Header[proven.root].key /\ Kept = proven
      \/ ~Header[proven.root].key /\ <<Kept.root, proven.root, proven.file>> \in Signed
  BY <1>1 DEF IndInv, Reached, Kept
<1> QED
  BY <1>1, <1>3, <1>4, <1>6, <1>7, <1>8

(* The ways out of a checked reply. *)
LEMMA ReplyCases ==
  ASSUME NEW to \in Ids, NEW complete \in BOOLEAN, ReplyChecked(to, complete)
  PROVE  /\ pc = "links" /\ step = steps
         /\ \/ \E why : Fail(why)
            \/ proven.seqno > at.seqno /\ proven = target /\ Arrive
            \/ /\ proven.seqno > at.seqno /\ Header[proven.root].key
               /\ worth_continuing /\ AskAgain
BY DEF ReplyChecked

LEMMA ReplyCheckedInd ==
  ASSUME IndInv, NEW to \in Ids, NEW complete \in BOOLEAN, ReplyChecked(to, complete)
  PROVE  IndInv'
<1>1. pc = "links" /\ step = steps
  BY ReplyCases
<1>2. CASE \E why : Fail(why)
  BY <1>2, FailInd
<1>3. CASE proven.seqno > at.seqno /\ proven = target /\ Arrive
  <2>1. /\ proven \in Ids /\ proven \in Committed /\ Kept \in CommittedKeys /\ Kept \in Ids
        /\ Kept = proven \/ <<Kept.root, proven.root, proven.file>> \in Signed
    BY <1>1, <1>3, KeptBetween
  <2>2. TypeOK'
    <3>1. boot' \in BOOLEAN
      BY <1>3, Zenon DEF Arrive
    <3> QED
      BY <1>3, <2>1, <3>1, BoundsAssumption, SMTT(30) DEF IndInv, TypeOK, Block, Arrive, Forget
  <2>3. TrustsOnlyCommitted'
    BY <1>3, <2>1 DEF IndInv, TrustsOnlyCommitted, Arrive, Forget
  <2>4. AnchorVouchesForHead'
    BY <1>3, <2>1, IdFields DEF AnchorVouchesForHead, Arrive
  <2>5. Place' /\ Reached' /\ Spent'
    BY <1>3 DEF Place, Reached, Spent, Syncing, Arrive, Forget
  <2> QED
    BY <2>2, <2>3, <2>4, <2>5 DEF IndInv
<1>4. CASE /\ proven.seqno > at.seqno /\ Header[proven.root].key
           /\ worth_continuing /\ AskAgain
  <2>1. /\ proven \in Ids /\ proven \in Committed /\ Kept \in CommittedKeys /\ Kept = proven
        /\ start.seqno <= proven.seqno
    BY <1>1, <1>4, KeptBetween
  <2>2. TypeOK'
    <3>1. /\ at' \in Block /\ trusted_key_block' \in Block
          /\ proven' \in Block /\ last_key' \in Block
      BY <1>4, <2>1 DEF Block, AskAgain
    <3>2. steps' \in 0..MAX_LINKS_PER_REPLY /\ step' \in 0..steps' /\ waited' \in Nat
      BY <1>4, BoundsAssumption DEF AskAgain
    <3>3. /\ {anchor, saved, target, start, head} \subseteq Block
          /\ rounds \in 0..MAX_ROUNDS /\ links \in 0..MAX_LINKS_PER_SYNC
          /\ elapsed \in Nat /\ wall \in Nat
          /\ boot \in BOOLEAN /\ session \in {"none", "open", "lost"}
      BY DEF IndInv, TypeOK
    <3>4. /\ pc' = "proof"
          /\ UNCHANGED <<boot, session, anchor, saved, target, start, rounds, links,
                         elapsed, wall, head>>
      BY <1>4 DEF AskAgain
    <3> QED
      BY <3>1, <3>2, <3>3, <3>4 DEF TypeOK
  <2>3. TrustsOnlyCommitted' /\ AnchorVouchesForHead'
    BY <1>4, <2>1 DEF IndInv, TrustsOnlyCommitted, AnchorVouchesForHead, AskAgain
  <2>4. Place' /\ Reached'
    BY <1>1, <1>4, <2>1 DEF IndInv, Place, Reached, Syncing, AskAgain
  <2>5. Spent'
    <3>1. /\ rounds \in Nat /\ elapsed \in Nat /\ PROOF_TIMEOUT \in Nat /\ max_head_age \in Nat
          /\ elapsed <= rounds * PROOF_TIMEOUT
          /\ max_head_age # 0 => elapsed <= max_head_age
      <4>1. /\ rounds \in Nat /\ elapsed \in Nat /\ PROOF_TIMEOUT \in Nat
            /\ max_head_age \in Nat
        BY BoundsAssumption DEF IndInv, TypeOK
      <4>2. elapsed <= rounds * PROOF_TIMEOUT
        BY <1>1 DEF IndInv, Spent
      <4>3. max_head_age # 0 => elapsed <= max_head_age
        BY <1>4 DEF worth_continuing
      <4> QED
        BY <4>1, <4>2, <4>3
    <3>2. rounds * PROOF_TIMEOUT \in Nat
      BY <3>1, OneMore
    <3>3. /\ elapsed <= rounds * PROOF_TIMEOUT + 0 /\ 0 <= PROOF_TIMEOUT
          /\ max_head_age # 0 => elapsed <= max_head_age + 0
      BY <3>1, <3>2
    <3> QED
      BY <1>4, <3>3 DEF Spent, AskAgain
  <2> QED
    BY <2>2, <2>3, <2>4, <2>5 DEF IndInv
<1> QED
  BY <1>2, <1>3, <1>4, ReplyCases

LEMMA NextInd == IndInv /\ [Next]_vars => IndInv'
<1> SUFFICES ASSUME IndInv, [Next]_vars PROVE IndInv'
  OBVIOUS
<1>1. CASE Connect \/ ConnectFails \/ ConnectFrom \/ SyncBegin \/ Save \/ Stop
  BY <1>1, OutsideInd
<1>2. CASE SyncRefused \/ CallFails \/ TimesOut \/ Cancel
  <2>1. \E why : Fail(why) \/ FailLost(why)
    BY <1>2 DEF SyncRefused, CallFails, TimesOut, Cancel
  <2> QED
    BY <2>1, FailInd
<1>3. CASE \E last \in Ids, now \in Clocks : InfoAnswered(last, now)
  BY <1>3, InfoAnsweredInd
<1>4. CASE \E from \in Ids, count \in 0..(MAX_LINKS_PER_REPLY + 1), oversize \in BOOLEAN :
             ProofAnswered(from, count, oversize)
  BY <1>4, ProofAnsweredInd
<1>5. CASE Tick
  BY <1>5, TickInd
<1>6. CASE \E link \in Links : VerifyLink(link)
  BY <1>6, VerifyLinkInd
<1>7. CASE \E to \in Ids, complete \in BOOLEAN : ReplyChecked(to, complete)
  BY <1>7, ReplyCheckedInd
<1>8. CASE UNCHANGED vars
  <2>1. UNCHANGED <<pc, boot, session, anchor, saved, head, result, target, start, at,
                    trusted_key_block, rounds, links, steps, step, proven, last_key,
                    waited, elapsed, wall>>
    BY <1>8 DEF vars, walk, reply, clock
  <2>2. TypeOK' /\ TrustsOnlyCommitted' /\ AnchorVouchesForHead'
    BY <2>1 DEF IndInv, TypeOK, TrustsOnlyCommitted, AnchorVouchesForHead
  <2>3. Place' /\ Spent'
    BY <2>1 DEF IndInv, Place, Spent, Syncing
  <2>4. Kept' = Kept
    BY <2>1 DEF Kept
  <2>5. Reached'
    BY <2>1, <2>4 DEF IndInv, Reached
  <2> QED
    BY <2>2, <2>3, <2>5 DEF IndInv
<1> QED
  BY <1>1, <1>2, <1>3, <1>4, <1>5, <1>6, <1>7, <1>8 DEF Next, Progress

----------------------------------------------------------------------------
(* IndInv holds of every reachable state of the walk. *)
THEOREM Inductive == Spec => []IndInv
<1> QED
  BY InitInd, NextInd, PTL DEF Spec

(* Type correctness, with the rounds and the links of a walk inside the      *)
(* bounds Walk::round sets, whatever a server sends.                         *)
THEOREM TypeCorrect == Spec => []TypeOK
<1>1. IndInv => TypeOK
  BY DEF IndInv
<1> QED
  BY <1>1, Inductive, PTL

(* For every chain, every server and every interleaving of walks, dropped    *)
(* futures and restarts: the client stands on committed blocks only, and     *)
(* keeps committed key blocks only.                                          *)
THEOREM Trust == Spec => []TrustsOnlyCommitted
<1>1. IndInv => TrustsOnlyCommitted
  BY DEF IndInv
<1> QED
  BY <1>1, Inductive, PTL

(* The anchor a sync leaves is its head or one whose validators signed it,   *)
(* however the replies split the chain.                                      *)
THEOREM Vouches == Spec => []AnchorVouchesForHead
<1>1. IndInv => AnchorVouchesForHead
  BY DEF IndInv
<1> QED
  BY <1>1, Inductive, PTL

(* A walk takes no longer than the freshness bound and one more reply, nor   *)
(* than its rounds allow.                                                    *)
THEOREM EndsInTime == Spec => []WalkEndsInTime
<1>1. IndInv => WalkEndsInTime
  <2> SUFFICES ASSUME IndInv PROVE WalkEndsInTime
    OBVIOUS
  <2>1. /\ rounds \in Nat /\ rounds <= MAX_ROUNDS /\ MAX_ROUNDS \in Nat /\ elapsed \in Nat
        /\ PROOF_TIMEOUT \in Nat /\ max_head_age \in Nat /\ waited \in Nat
    BY BoundsAssumption DEF IndInv, TypeOK
  <2>2. /\ elapsed <= rounds * PROOF_TIMEOUT + PROOF_TIMEOUT
        /\ max_head_age # 0 => elapsed <= max_head_age + PROOF_TIMEOUT
    <3>1. rounds * PROOF_TIMEOUT \in Nat
      BY <2>1, OneMore
    <3>2. CASE pc \notin {"proof", "links"}
      <4>1. elapsed = 0
        BY <3>2 DEF IndInv, Spent
      <4> QED
        BY <2>1, <3>1, <4>1
    <3>3. CASE pc = "proof"
      <4>1. /\ waited <= PROOF_TIMEOUT /\ elapsed <= rounds * PROOF_TIMEOUT + waited
            /\ max_head_age # 0 => elapsed <= max_head_age + waited
        BY <3>3 DEF IndInv, Spent
      <4> QED
        BY <2>1, <3>1, <4>1
    <3>4. CASE pc = "links"
      <4>1. /\ elapsed <= rounds * PROOF_TIMEOUT
            /\ max_head_age # 0 => elapsed <= max_head_age + PROOF_TIMEOUT
        BY <3>4 DEF IndInv, Spent
      <4> QED
        BY <2>1, <3>1, <4>1
    <3> QED
      BY <3>2, <3>3, <3>4
  <2>3. rounds * PROOF_TIMEOUT <= MAX_ROUNDS * PROOF_TIMEOUT
    BY <2>1, AtMost
  <2>4. /\ (MAX_ROUNDS + 1) * PROOF_TIMEOUT = MAX_ROUNDS * PROOF_TIMEOUT + PROOF_TIMEOUT
        /\ MAX_ROUNDS * PROOF_TIMEOUT \in Nat /\ rounds * PROOF_TIMEOUT \in Nat
    BY <2>1, OneMore
  <2>5. elapsed <= (MAX_ROUNDS + 1) * PROOF_TIMEOUT
    BY <2>1, <2>2, <2>3, <2>4
  <2> QED
    BY <2>2, <2>5 DEF WalkEndsInTime
<1> QED
  BY <1>1, Inductive, PTL

(* The anchor of a living client moves only on arrival at the head named,    *)
(* and never back, sequence numbers past 2^31 included.                      *)
THEOREM AnchorMoves == Spec => AnchorMovesOnlyOnArrival
<1>1. IndInv /\ [Next]_vars => [AnchorStep]_vars
  <2> SUFFICES ASSUME IndInv, Next PROVE AnchorStep
    OBVIOUS
  <2>1. CASE \E why : Fail(why) \/ FailLost(why)
    BY <2>1 DEF Fail, FailLost, AnchorStep
  <2>2. CASE \E to \in Ids, complete \in BOOLEAN : ReplyChecked(to, complete)
    <3>1. CASE proven.seqno > at.seqno /\ proven = target /\ Arrive
      <4>1. start.seqno <= Kept.seqno /\ Kept.seqno <= proven.seqno
        BY <2>2, <3>1, ReplyCases, KeptBetween
      <4> QED
        BY <2>2, <3>1, <4>1, ReplyCases DEF Arrive, AnchorStep
    <3>2. CASE AskAgain
      BY <3>2 DEF AskAgain, AnchorStep
    <3> QED
      BY <2>1, <2>2, <3>1, <3>2, ReplyCases
  <2>3. CASE Connect \/ ConnectFails \/ ConnectFrom \/ SyncBegin \/ Save \/ Stop \/ Tick
    BY <2>3 DEF Connect, ConnectFails, ConnectFrom, SyncBegin, Save, Stop, Tick, AnchorStep
  <2>4. CASE SyncRefused \/ CallFails \/ TimesOut \/ Cancel
    BY <2>1, <2>4 DEF SyncRefused, CallFails, TimesOut, Cancel
  <2>5. CASE \E last \in Ids, now \in Clocks : InfoAnswered(last, now)
    <3>1. Fail("Sync") \/ UNCHANGED anchor
      BY <2>5 DEF InfoAnswered
    <3> QED
      BY <2>1, <3>1 DEF AnchorStep
  <2>6. CASE \E from \in Ids, count \in 0..(MAX_LINKS_PER_REPLY + 1), oversize \in BOOLEAN :
               ProofAnswered(from, count, oversize)
    <3>1. Fail("Sync") \/ UNCHANGED anchor
      BY <2>6 DEF ProofAnswered
    <3> QED
      BY <2>1, <3>1 DEF AnchorStep
  <2>7. CASE \E link \in Links : VerifyLink(link)
    <3>1. Fail("Sync") \/ UNCHANGED anchor
      BY <2>7 DEF VerifyLink
    <3> QED
      BY <2>1, <3>1 DEF AnchorStep
  <2> QED
    BY <2>2, <2>3, <2>4, <2>5, <2>6, <2>7 DEF Next, Progress
<1> QED
  BY <1>1, Inductive, PTL DEF Spec, AnchorMovesOnlyOnArrival

----------------------------------------------------------------------------
(* What the refinement needs of a state: a stopped client holds nothing, and *)
(* a walk under way started where the client still stands.                   *)
Rooted == /\ pc = "down" => anchor = NoBlock
          /\ Syncing => start = Start

(* A step inside a walk that leaves what the client promises alone. *)
Quiet == /\ pc # "down" /\ pc' # "down" /\ Syncing /\ start' = start
         /\ UNCHANGED <<anchor, saved>>

LEMMA StepCases ==
  ASSUME Next
  PROVE  \/ Quiet
         \/ pc # "down" /\ \E why : Fail(why) \/ FailLost(why)
         \/ pc = "links" /\ step = steps /\ proven.seqno > at.seqno /\ Arrive
         \/ Connect \/ ConnectFails \/ ConnectFrom \/ SyncBegin \/ Save \/ Stop
<1>1. CASE SyncRefused \/ CallFails \/ TimesOut \/ Cancel
  BY <1>1 DEF SyncRefused, CallFails, TimesOut, Cancel
<1>2. CASE \E last \in Ids, now \in Clocks : InfoAnswered(last, now)
  BY <1>2 DEF InfoAnswered, Quiet, Syncing
<1>3. CASE \E from \in Ids, count \in 0..(MAX_LINKS_PER_REPLY + 1), oversize \in BOOLEAN :
             ProofAnswered(from, count, oversize)
  BY <1>3 DEF ProofAnswered, Quiet, Syncing
<1>4. CASE Tick
  BY <1>4 DEF Tick, Quiet, Syncing, walk
<1>5. CASE \E link \in Links : VerifyLink(link)
  BY <1>5 DEF VerifyLink, Quiet, Syncing, walk
<1>6. CASE \E to \in Ids, complete \in BOOLEAN : ReplyChecked(to, complete)
  <2>1. CASE AskAgain
    BY <1>6, <2>1, ReplyCases DEF AskAgain, Quiet, Syncing
  <2> QED
    BY <1>6, <2>1, ReplyCases
<1> QED
  BY <1>1, <1>2, <1>3, <1>4, <1>5, <1>6 DEF Next, Progress

LEMMA RootedInd == IndInv /\ Rooted /\ [Next]_vars => Rooted'
<1> SUFFICES ASSUME IndInv, Rooted, [Next]_vars PROVE Rooted'
  OBVIOUS
<1>1. CASE Quiet
  BY <1>1 DEF Quiet, Rooted, Start
<1>2. CASE pc # "down" /\ \E why : Fail(why) \/ FailLost(why)
  BY <1>2 DEF Fail, FailLost, Rooted, Syncing
<1>3. CASE Arrive
  BY <1>3 DEF Arrive, Rooted, Syncing
<1>4. CASE Connect \/ ConnectFails \/ ConnectFrom \/ SyncBegin \/ Save \/ Stop
  BY <1>4 DEF Connect, ConnectFails, ConnectFrom, SyncBegin, Save, Stop, Rooted, Syncing,
              Start, walk
<1>5. CASE UNCHANGED vars
  BY <1>5 DEF vars, walk, Rooted, Syncing, Start
<1> QED
  BY <1>1, <1>2, <1>3, <1>4, <1>5, StepCases

(* A step of the walk is a step of Anchor under the mapping, or none. *)
LEMMA StepRefines == IndInv /\ Rooted /\ [Next]_vars => [A!Next]_A!vars
<1> SUFFICES ASSUME IndInv, Rooted, [Next]_vars PROVE A!Next \/ UNCHANGED A!vars
  OBVIOUS
<1>1. CASE Quiet \/ ConnectFails \/ SyncBegin \/ Save
  <2>1. CASE Quiet \/ ConnectFails \/ SyncBegin
    BY <2>1 DEF Quiet, ConnectFails, SyncBegin, A!vars
  <2>2. CASE Save
    <3>1. A!Save
      BY <2>2 DEF Save, A!Save
    <3> QED
      BY <3>1 DEF A!Next
  <2> QED
    BY <1>1, <2>1, <2>2
<1>2. CASE pc # "down" /\ \E why : Fail(why) \/ FailLost(why)
  <2>1. CASE boot
    <3>1. A!Close
      BY <1>2, <2>1 DEF Fail, FailLost, A!Close
    <3> QED
      BY <3>1 DEF A!Next
  <2>2. CASE ~boot
    BY <1>2, <2>2 DEF Fail, FailLost, A!vars
  <2> QED
    BY <2>1, <2>2
<1>3. CASE pc = "links" /\ step = steps /\ proven.seqno > at.seqno /\ Arrive
  <2>1. /\ proven \in Ids /\ proven \in Committed /\ Kept \in CommittedKeys /\ Kept \in Ids
        /\ start.seqno <= Kept.seqno /\ Kept.seqno <= proven.seqno
        /\ Kept = proven \/ <<Kept.root, proven.root, proven.file>> \in Signed
    BY <1>3, KeptBetween
  <2>2. start = A!Floor /\ start # NoBlock
    BY <1>3, IdFields DEF Rooted, Syncing, Start, A!Floor, IndInv, Place
  <2>3. <<Kept, proven>> \in VouchesFor
    BY <2>1 DEF VouchesFor, CommittedKeys
  <2>4. start.seqno < proven.seqno
    <3>1. start \in Ids /\ at \in Ids /\ start.seqno <= at.seqno /\ at.seqno < proven.seqno
      BY <1>3 DEF IndInv, Place
    <3>2. start.seqno \in Nat /\ at.seqno \in Nat /\ proven.seqno \in Nat
      BY <2>1, <3>1, IdFields
    <3> QED
      BY <3>1, <3>2
  <2>5. A!Learn(Kept, proven)
    BY <1>3, <2>1, <2>2, <2>3, <2>4 DEF A!Learn, Arrive
  <2> QED
    BY <2>1, <2>5 DEF A!Next
<1>4. CASE Connect \/ ConnectFrom
  <2>1. A!Open
    BY <1>4 DEF Connect, ConnectFrom, Rooted, A!Open
  <2> QED
    BY <2>1 DEF A!Next
<1>5. CASE Stop
  <2>1. A!Close
    BY <1>5 DEF Stop, A!Close
  <2> QED
    BY <2>1 DEF A!Next
<1>6. CASE UNCHANGED vars
  BY <1>6 DEF vars, A!vars
<1> QED
  BY <1>1, <1>2, <1>3, <1>4, <1>5, <1>6, StepCases

(* Every behaviour of the walk, whatever a server sends and wherever it      *)
(* fails or restarts, is one of Anchor: the root of trust is a committed key *)
(* block that only ever moves forward, on proof of a head it vouches for.    *)
THEOREM Implements == Spec => ImplementsAnchor
<1>1. Init => Rooted /\ A!Init
  BY DEF Init, Rooted, Syncing, A!Init
<1> QED
  BY <1>1, Inductive, RootedInd, StepRefines, PTL DEF Spec, ImplementsAnchor, A!Spec
=============================================================================

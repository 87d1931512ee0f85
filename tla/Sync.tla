-------------------------------- MODULE Sync --------------------------------
(* The light client's walk: from the key block it trusts to the head a       *)
(* server names, link by link, with the bounds that end it, and the anchor   *)
(* that survives it, a dropped future or a restart.                          *)
(*                                                                           *)
(* A block is what its root hash fixes (Header) and a file hash only         *)
(* signatures cover. A reply is revealed field by field as the code reads    *)
(* it. `Signed` says which validator sets signed what by more than two       *)
(* thirds; that a link carries those signatures is decided in LinkSignatures.*)
EXTENDS Integers

CONSTANTS Ids,        \* block identities, right and wrong ones
          NoBlock,    \* stands for None
          Header,     \* root hash -> what the block says of itself
          Signed,     \* <<root of a key block, root, file>>: its set signed that pair
          Committed,  \* the identities of the blocks the network committed
          Links,      \* links a server may send
          InitBlock,  \* the config's init block, or NoBlock
          HALF,       \* 2^31: half the range of a sequence number
          MAX_LINKS_PER_REPLY, MAX_LINKS_PER_SYNC, MAX_ROUNDS,
          MAX_CLOCK_SKEW, CALL_TIMEOUT, PROOF_TIMEOUT,
          max_head_age,
          Clocks      \* bound: what the wall clock may read when a walk starts

Id == [seqno : 0..(2 * HALF - 1), root : DOMAIN Header, file : DOMAIN Header, mc : BOOLEAN]
HeaderOf == [seqno : Nat, mc : BOOLEAN, key : BOOLEAN, utime : Nat]
Link == [forward : BOOLEAN, from : Ids, to : Ids, to_key_block : BOOLEAN,
         config : DOMAIN Header, dest : DOMAIN Header,
         named : Ids \cup {NoBlock}, enough : BOOLEAN]

CommittedKeys == {b \in Committed : Header[b.root].key}

(* Consensus: a committed key block's validators sign committed blocks only, *)
(* and an identity is committed as the block's own header states it.         *)
ASSUME WorldAssumption ==
  /\ Ids \subseteq Id /\ NoBlock \notin Ids /\ Committed \subseteq Ids
  /\ Header \in [DOMAIN Header -> HeaderOf]
  /\ Links \subseteq Link
  /\ InitBlock \in CommittedKeys \cup {NoBlock}
  /\ \A k \in CommittedKeys, b \in Ids :
       /\ <<k.root, b.root, b.file>> \in Signed
       /\ b.seqno = Header[b.root].seqno /\ b.mc = Header[b.root].mc
       => b \in Committed
  /\ \A b \in Committed : b.seqno = Header[b.root].seqno

ASSUME BoundsAssumption ==
  /\ HALF \in Nat /\ MAX_CLOCK_SKEW \in Nat /\ max_head_age \in Nat
  /\ MAX_LINKS_PER_REPLY \in Nat \ {0} /\ MAX_LINKS_PER_SYNC \in Nat /\ MAX_ROUNDS \in Nat
  /\ CALL_TIMEOUT \in Nat \ {0} /\ PROOF_TIMEOUT \in Nat \ {0}
  /\ Clocks \subseteq Nat

VARIABLES pc,        \* "down", "idle", "info", "proof" or "links"
          boot,      \* this sync runs inside connect_from
          session,   \* "none", "open" or "lost"
          anchor,    \* the key block trust rests on
          saved,     \* the anchor the caller stored, which outlives the process
          target,    \* the head the server named
          start,     \* the block the walk started from
          at,        \* sync's local `anchor`: how far the walk has come
          trusted_key_block,
          rounds, links,
          steps,     \* links this reply carries
          step,      \* of those, the ones checked
          proven,    \* the block the last checked link proved
          last_key,  \* the last key block among them
          waited,    \* seconds the query in flight has waited
          elapsed,   \* seconds since the walk started
          wall,      \* the wall clock
          head,      \* the head the last call reported
          result

walk == <<target, start, at, trusted_key_block, rounds, links>>
reply == <<steps, step, proven, last_key>>
clock == <<waited, elapsed, wall>>
vars == <<pc, boot, session, anchor, saved, walk, reply, clock, head, result>>

Syncing == pc \in {"info", "proof", "links"}

Init == /\ pc = "down" /\ boot = FALSE /\ session = "none"
        /\ anchor = NoBlock /\ saved = NoBlock
        /\ target = NoBlock /\ start = NoBlock /\ at = NoBlock /\ trusted_key_block = NoBlock
        /\ rounds = 0 /\ links = 0 /\ steps = 0 /\ step = 0
        /\ proven = NoBlock /\ last_key = NoBlock
        /\ waited = 0 /\ elapsed = 0 /\ wall = 0
        /\ head = NoBlock /\ result = "none"

(* The wire carries a sequence number as i32: the same bits, signed. *)
AsI32(n) == IF n < HALF THEN n ELSE n - 2 * HALF

----------------------------------------------------------------------------
(* What the process forgets between walks: nothing in a walk is kept. *)
Forget == /\ target' = NoBlock /\ start' = NoBlock /\ at' = NoBlock
          /\ trusted_key_block' = NoBlock
          /\ rounds' = 0 /\ links' = 0 /\ steps' = 0 /\ step' = 0
          /\ proven' = NoBlock /\ last_key' = NoBlock
          /\ waited' = 0 /\ elapsed' = 0 /\ wall' = 0

(* sync returns an error. Inside connect_from that drops the client. *)
Fail(why) == /\ result' = why /\ Forget /\ boot' = FALSE
             /\ \/ boot /\ pc' = "down" /\ anchor' = NoBlock /\ session' = "none"
                \/ ~boot /\ pc' = "idle" /\ UNCHANGED <<anchor, session>>
             /\ UNCHANGED <<saved, head>>

(* The same, with the query's future dropped mid-frame: the session is lost. *)
FailLost(why) == /\ result' = why /\ Forget /\ boot' = FALSE
                 /\ \/ boot /\ pc' = "down" /\ anchor' = NoBlock /\ session' = "none"
                    \/ ~boot /\ pc' = "idle" /\ session' = "lost" /\ UNCHANGED anchor
                 /\ UNCHANGED <<saved, head>>

(* connect: the first server that answers the handshake, and no anchor.      *)
Connect == /\ pc = "down" /\ pc' = "idle" /\ session' = "open"
           /\ UNCHANGED <<boot, anchor, saved, walk, reply, clock, head, result>>

ConnectFails == /\ pc = "down"
                /\ result' \in {"Config", "Transport", "Handshake"}
                /\ UNCHANGED <<pc, boot, session, anchor, saved, walk, reply, clock, head>>

(* connect_from: the stored anchor, and a first sync before the client is    *)
(* handed out.                                                               *)
ConnectFrom == /\ pc = "down" /\ saved # NoBlock
               /\ anchor' = saved /\ start' = saved
               /\ pc' = "info" /\ boot' = TRUE /\ session' = "open" /\ waited' = 0
               /\ head' = NoBlock /\ result' = "none"
               /\ UNCHANGED <<saved, target, at, trusted_key_block, rounds, links, reply,
                              elapsed, wall>>

(* Mutant: every walk starts at the configured block. *)
Start_Config == InitBlock

Start == IF anchor # NoBlock THEN anchor ELSE InitBlock

(* sync, up to its first await. *)
SyncBegin == /\ pc = "idle" /\ Start # NoBlock /\ session = "open"
             /\ pc' = "info" /\ start' = Start /\ waited' = 0
             /\ head' = NoBlock /\ result' = "none"
             /\ UNCHANGED <<boot, session, anchor, saved, target, at, trusted_key_block,
                            rounds, links, reply, elapsed, wall>>

SyncRefused == /\ pc = "idle"
               /\ \/ Start = NoBlock /\ Fail("Config")
                  \/ Start # NoBlock /\ session = "lost" /\ Fail("ConnectionLost")

(* masterchain_info answers with the server's head; the walk begins unless   *)
(* it is not ahead of what is trusted already.                               *)
InfoAnswered(last, now) ==
  /\ pc = "info"
  /\ \/ last.seqno <= start.seqno /\ Fail("Sync")
     \/ /\ last.seqno > start.seqno
        /\ target' = last /\ at' = start /\ trusted_key_block' = start
        /\ rounds' = 0 /\ links' = 0 /\ elapsed' = 0 /\ wall' = now
        /\ pc' = "proof" /\ waited' = 0
        /\ UNCHANGED <<boot, session, anchor, saved, start, reply, head, result>>

(* within_bounds, the counting of the round, and the two refusals verify_chain *)
(* starts with. `oversize`: a proof or a signature set past its bound.         *)
ProofAnswered(from, count, oversize) ==
  /\ pc = "proof"
  /\ \/ /\ \/ count > MAX_LINKS_PER_REPLY \/ oversize
           \/ rounds + 1 > MAX_ROUNDS \/ links + count > MAX_LINKS_PER_SYNC
           \/ from # at \/ count = 0
        /\ Fail("Sync")
     \/ /\ count \in 1..MAX_LINKS_PER_REPLY /\ ~oversize
        /\ rounds + 1 <= MAX_ROUNDS /\ links + count <= MAX_LINKS_PER_SYNC
        /\ from = at
        /\ rounds' = rounds + 1 /\ links' = links + count
        /\ steps' = count /\ step' = 0 /\ proven' = NoBlock /\ last_key' = NoBlock
        /\ pc' = "links"
        /\ UNCHANGED <<boot, session, anchor, saved, target, start, at, trusted_key_block,
                       clock, head, result>>

(* A query ends in an error of the server's, or in one that is no answer;    *)
(* the session survives both. A socket failure or a frame that does not open *)
(* loses it.                                                                 *)
CallFails == /\ pc \in {"info", "proof"}
             /\ \/ \E why \in {"LiteServer", "Decode", "NoAnswer"} : Fail(why)
                \/ \E why \in {"Transport", "Frame"} : FailLost(why)

Deadline == IF pc = "info" THEN CALL_TIMEOUT ELSE PROOF_TIMEOUT

(* A second passes while a query waits. Checking links takes no time here.   *)
Tick == /\ pc \in {"info", "proof"} /\ waited < Deadline
        /\ waited' = waited + 1
        /\ \/ pc = "proof" /\ elapsed' = elapsed + 1 /\ wall' = wall + 1
           \/ pc = "info" /\ UNCHANGED <<elapsed, wall>>
        /\ UNCHANGED <<pc, boot, session, anchor, saved, walk, reply, head, result>>

(* Mutant: only the short calls have a deadline. *)
TimesOut_InfoOnly == pc = "info" /\ waited = Deadline /\ FailLost("Timeout")

TimesOut == pc \in {"info", "proof"} /\ waited = Deadline /\ FailLost("Timeout")

(* The caller drops the future at an await. *)
Cancel == pc \in {"info", "proof"} /\ FailLost("Cancelled")

----------------------------------------------------------------------------
(* signed_message: the older form covers the link's own destination; the     *)
(* Simplex form covers the block its candidate names.                        *)
Covers(link) == IF link.named = NoBlock THEN link.to ELSE link.named

(* Mutant: a Simplex candidate may name another block than the link claims.  *)
verify_link_AnyCandidate(link, from) ==
  /\ link.forward /\ link.from = from /\ from.mc /\ link.to.mc
  /\ AsI32(link.to.seqno) > AsI32(from.seqno)
  /\ link.config = from.root /\ Header[from.root].key
  /\ link.dest = link.to.root
  /\ Header[link.to.root].seqno = link.to.seqno /\ Header[link.to.root].mc = link.to.mc
  /\ Header[link.to.root].key = link.to_key_block
  /\ link.enough /\ <<from.root, Covers(link).root, Covers(link).file>> \in Signed

(* Every check of one link: its direction, where it starts, both ends in the *)
(* masterchain and the second one higher, a configuration that is the        *)
(* source's own and only a key block has, a header that is the               *)
(* destination's own and agrees with its identity and its flag, and enough   *)
(* signatures over the destination.                                          *)
verify_link(link, from) ==
  /\ link.forward /\ link.from = from /\ from.mc /\ link.to.mc
  /\ AsI32(link.to.seqno) > AsI32(from.seqno)
  /\ link.config = from.root /\ Header[from.root].key
  /\ link.dest = link.to.root
  /\ Header[link.to.root].seqno = link.to.seqno /\ Header[link.to.root].mc = link.to.mc
  /\ Header[link.to.root].key = link.to_key_block
  /\ link.named \in {NoBlock, link.to}
  /\ link.enough /\ <<from.root, Covers(link).root, Covers(link).file>> \in Signed

(* verify_chain's loop, one link: it must start where the last one ended. *)
VerifyLink(link) ==
  /\ pc = "links" /\ step < steps
  /\ LET from == IF proven = NoBlock THEN at ELSE proven
     IN  \/ ~verify_link(link, from) /\ Fail("Sync")
         \/ /\ verify_link(link, from)
            /\ proven' = link.to /\ step' = step + 1
            /\ last_key' = IF link.to_key_block THEN link.to ELSE last_key
            /\ UNCHANGED <<pc, boot, session, anchor, saved, walk, steps, clock, head, result>>

(* The clock is not behind the head by more than the tolerance, and the head *)
(* is not behind the clock by more than the bound.                           *)
fresh_enough(utime) == /\ utime <= wall + MAX_CLOCK_SKEW
                       /\ wall - utime <= max_head_age

(* Mutant: the bound on the walk's own time is left out. *)
worth_continuing_Always == TRUE

(* The walk may ask again: it has not outlasted the bound, or there is none. *)
worth_continuing == max_head_age = 0 \/ elapsed <= max_head_age

(* Mutant: the key blocks of the reply are passed over. *)
Kept_Start == trusted_key_block

(* The last key block of the run, or the one before it where it has none. *)
Kept == IF last_key = NoBlock THEN trusted_key_block ELSE last_key

(* A complete chain to the target, fresh enough: the last key block on the   *)
(* way becomes the anchor and the head is reported.                          *)
Arrive == /\ anchor' = Kept /\ head' = proven /\ result' = "Ok"
          /\ pc' = "idle" /\ boot' = FALSE /\ Forget
          /\ UNCHANGED <<session, saved>>

(* An unfinished chain that ended at a key block: ask again from there. *)
AskAgain == /\ at' = proven /\ trusted_key_block' = Kept
            /\ pc' = "proof" /\ waited' = 0
            /\ steps' = 0 /\ step' = 0 /\ proven' = NoBlock /\ last_key' = NoBlock
            /\ UNCHANGED <<boot, session, anchor, saved, target, start, rounds, links,
                           elapsed, wall, head, result>>

(* The links all checked. verify_chain compares where they end with what the *)
(* reply says, sync looks at the progress made and at `complete`, and either *)
(* returns, fails, or goes round.                                            *)
ReplyChecked(to, complete) ==
  /\ pc = "links" /\ step = steps
  /\ LET advanced == proven.seqno > at.seqno
         arrived == proven = target
     IN  \/ (proven # to \/ ~advanced) /\ Fail("Sync")
         \/ /\ proven = to /\ advanced /\ complete
            /\ \/ ~arrived /\ Fail("Sync")
               \/ /\ arrived /\ ~fresh_enough(Header[proven.root].utime)
                  /\ Fail(IF Header[proven.root].utime > wall + MAX_CLOCK_SKEW
                          THEN "ClockBehind" ELSE "Stale")
               \/ arrived /\ fresh_enough(Header[proven.root].utime) /\ Arrive
         \/ /\ proven = to /\ advanced /\ ~complete
            /\ \/ ~Header[proven.root].key /\ Fail("Sync")
               \/ Header[proven.root].key /\ ~worth_continuing /\ Fail("Slow")
               \/ Header[proven.root].key /\ worth_continuing /\ AskAgain

(* The caller stores the anchor; the process ends, at any point. *)
Save == /\ pc = "idle" /\ anchor # NoBlock /\ saved' = anchor
        /\ UNCHANGED <<pc, boot, session, anchor, walk, reply, clock, head, result>>

Stop == /\ pc # "down" /\ pc' = "down" /\ session' = "none" /\ boot' = FALSE
        /\ anchor' = NoBlock /\ head' = NoBlock /\ Forget
        /\ UNCHANGED <<saved, result>>

(* Steps that need nothing but the passing of time. *)
Progress == \/ Tick \/ TimesOut
            \/ \E link \in Links : VerifyLink(link)
            \/ \E to \in Ids, complete \in BOOLEAN : ReplyChecked(to, complete)

Next == \/ Connect \/ ConnectFails \/ ConnectFrom \/ SyncBegin \/ SyncRefused
        \/ \E last \in Ids, now \in Clocks : InfoAnswered(last, now)
        \/ \E from \in Ids, count \in 0..(MAX_LINKS_PER_REPLY + 1), oversize \in BOOLEAN :
             ProofAnswered(from, count, oversize)
        \/ CallFails \/ Cancel \/ Save \/ Stop \/ Progress

Spec == Init /\ [][Next]_vars

(* The executor polls a ready task and its timers fire: a sync under way is  *)
(* never abandoned by the runtime itself.                                    *)
FairSpec == Spec /\ WF_vars(Progress)

----------------------------------------------------------------------------
Block == Ids \cup {NoBlock}

TypeOK ==
  /\ pc \in {"down", "idle", "info", "proof", "links"} /\ boot \in BOOLEAN
  /\ session \in {"none", "open", "lost"}
  /\ {anchor, saved, target, start, at, trusted_key_block, proven, last_key, head} \subseteq Block
  /\ rounds \in 0..MAX_ROUNDS /\ links \in 0..MAX_LINKS_PER_SYNC
  /\ steps \in 0..MAX_LINKS_PER_REPLY /\ step \in 0..steps
  /\ waited \in Nat /\ elapsed \in Nat /\ wall \in Nat

(* Whatever replies came back, whichever futures were dropped and however    *)
(* often the process restarted from what it saved: every block the walk      *)
(* stands on is one the network committed, and what is kept as a root of     *)
(* trust is a key block, which the next walk can continue from.              *)
TrustsOnlyCommitted ==
  /\ {anchor, saved, start, trusted_key_block, last_key} \subseteq CommittedKeys \cup {NoBlock}
  /\ {at, proven, head} \subseteq Committed \cup {NoBlock}

(* The anchor a successful sync leaves is the right one for its head: it is  *)
(* the head, or its own validator set signed the head. A next walk asks the  *)
(* validators still in office when the last one ended.                       *)
AnchorVouchesForHead ==
  head # NoBlock => /\ anchor # NoBlock
                    /\ anchor = head \/ <<anchor.root, head.root, head.file>> \in Signed

(* A step that moves the anchor of a living client is an arrival. *)
AnchorStep ==
  pc # "down" /\ pc' # "down" /\ anchor' # anchor =>
    /\ pc = "links" /\ pc' = "idle" /\ head' = target
    /\ start.seqno <= anchor'.seqno /\ anchor'.seqno <= target.seqno

(* While a client lives its anchor moves only when a sync arrives at the     *)
(* head it was told of, and never backwards: an error, a timeout, a dropped  *)
(* future or a partial walk leaves it where it was, wrapped sequence         *)
(* numbers included.                                                         *)
AnchorMovesOnlyOnArrival == [][AnchorStep]_vars

(* The pairs of a key block and a head it vouches for. *)
VouchesFor == {p \in Committed \X Committed :
                 p[1] = p[2] \/ <<p[1].root, p[2].root, p[2].file>> \in Signed}

A == INSTANCE Anchor WITH live <- pc # "down", Vouches <- VouchesFor

(* The walk, its failures and its restarts implement the promise of Anchor.  *)
ImplementsAnchor == A!Spec

(* A server that answers slowly for ever cannot hold a walk past the         *)
(* freshness bound and one more reply; with no bound, past the round count.  *)
WalkEndsInTime ==
  /\ max_head_age # 0 => elapsed <= max_head_age + PROOF_TIMEOUT
  /\ elapsed <= (MAX_ROUNDS + 1) * PROOF_TIMEOUT

(* Every sync comes back, whatever the server does or leaves undone. *)
SyncReturns == Syncing ~> ~Syncing

(* "Setting this to zero refuses every head", says Config::with_max_head_age. *)
ZeroBoundRefusesEveryHead == max_head_age = 0 => result # "Ok"
=============================================================================

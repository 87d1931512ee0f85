------------------------------- MODULE Anchor -------------------------------
(* What a light client promises about its root of trust, whatever happens on *)
(* the wire: it is none, or a key block the network committed; it is         *)
(* replaced only by a later one, on proof of a new head it vouches for; and  *)
(* a restart resumes from what was saved.                                    *)
EXTENDS Integers

CONSTANTS Ids, NoBlock, Committed, CommittedKeys,
          Vouches,    \* <<k, h>>: k is h, or the validators of k signed h
          InitBlock

ASSUME AnchorAssumption ==
  /\ NoBlock \notin Ids /\ Committed \subseteq Ids /\ CommittedKeys \subseteq Committed
  /\ \A b \in Ids : b.seqno \in Nat
  /\ InitBlock \in CommittedKeys \cup {NoBlock}

VARIABLES live,    \* a client exists
          anchor,  \* the key block trust rests on
          saved    \* the one a caller stored, which outlives the process

vars == <<live, anchor, saved>>

Init == live = FALSE /\ anchor = NoBlock /\ saved = NoBlock

(* Mutant: every walk starts at the configured block. *)
Floor_Config == InitBlock

(* Where a walk starts. *)
Floor == IF anchor # NoBlock THEN anchor ELSE InitBlock

Open == ~live /\ live' = TRUE /\ anchor' \in {NoBlock, saved} /\ UNCHANGED saved

Close == live /\ live' = FALSE /\ anchor' = NoBlock /\ UNCHANGED saved

(* Mutant: the head is reported and the old key block kept. *)
Learn_KeepsOld(k, h) == /\ live /\ Floor # NoBlock /\ anchor' = Floor
                        /\ Floor.seqno < h.seqno
                        /\ k \in CommittedKeys /\ h \in Committed /\ <<k, h>> \in Vouches
                        /\ UNCHANGED <<live, saved>>

(* A walk ends at a new head, with the last key block on the way. *)
Learn(k, h) == /\ live /\ Floor # NoBlock /\ anchor' = k
               /\ Floor.seqno <= k.seqno /\ k.seqno <= h.seqno /\ Floor.seqno < h.seqno
               /\ k \in CommittedKeys /\ h \in Committed /\ <<k, h>> \in Vouches
               /\ UNCHANGED <<live, saved>>

Save == live /\ anchor # NoBlock /\ saved' = anchor /\ UNCHANGED <<live, anchor>>

Next == Open \/ Close \/ Save \/ \E k, h \in Ids : Learn(k, h)

Spec == Init /\ [][Next]_vars
=============================================================================

--------------------------- MODULE LinkSignatures ---------------------------
(* Whether a link's signatures carry it: the validator set read out of the   *)
(* source key block's configuration as far as the proof shows it, and the    *)
(* loop that sums the weight of the signatures that verify.                  *)
(*                                                                           *)
(* A key and its short id are one model value: the id is a hash of the key.  *)
(* The configuration, the list and the signatures are revealed as the code   *)
(* reads them, so every input up to the bounds is covered.                   *)
EXTENDS Naturals, FiniteSets, Functions

CONSTANTS Keys,            \* public keys, of this round and of others
          Weights,         \* the weights descriptors state
          U64_MAX,         \* the largest u64
          MaxTotal,        \* bound: validators a parameter declares
          MaxSignatures    \* entries one signature set may carry

ASSUME ConstantsAssumption ==
  /\ IsFiniteSet(Keys)
  /\ Weights \subseteq Nat /\ U64_MAX \in Nat
  /\ MaxTotal \in Nat /\ MaxSignatures \in Nat

VARIABLES pc,            \* "config", "cell", "entries", "count" or "done"
          config,        \* the parameters the configuration really holds
          source,        \* the one the set is read from, 0 before
          main,          \* size of the masterchain subset
          index,         \* descriptors read
          members,       \* the weight of each key read
          repeated,      \* some key was read twice
          total_weight,
          attempts, counted, weight,
          read,          \* signature entries looked at
          valid,         \* keys with a valid signature among them
          junk,          \* entries among them that name a member and do not verify
          ended,         \* the loop ran to the end of the entries
          result

set == <<config, source, main, index, members, repeated, total_weight>>
tally == <<attempts, counted, weight, read, valid, junk, ended>>
vars == <<pc, set, tally, result>>

CURRENT_VALIDATORS == 34
CURRENT_TEMP_VALIDATORS == 35

Results == {"none", "Ok", "Malformed", "NotCovered", "WrongConstructor",
            "NotEnoughWeight"}

len == Cardinality(DOMAIN members)

(* Mutant: two thirds are enough. *)
carries_AtLeast(w) == w * 3 >= total_weight * 2

(* Strictly more than two thirds, in integers wide enough not to wrap. *)
carries(w) == w * 3 > total_weight * 2

Finish(outcome) == pc' = "done" /\ result' = outcome

Init == /\ pc = "config" /\ config \in SUBSET {CURRENT_VALIDATORS, CURRENT_TEMP_VALIDATORS}
        /\ source = 0 /\ main = 0 /\ index = 0 /\ total_weight = 0
        /\ members = [k \in {} |-> 0] /\ repeated = FALSE
        /\ attempts = 0 /\ counted = {} /\ weight = 0
        /\ read = 0 /\ valid = {} /\ junk = 0 /\ ended = FALSE
        /\ result = "none"

----------------------------------------------------------------------------
(* What Dict::get answers for a parameter: the proof prunes the walk to it,  *)
(* or shows whether it is there.                                             *)
Lookups(param) == {"Pruned", IF param \in config THEN "Found" ELSE "Absent"}

(* Mutant: a pruned walk to the temporary set falls back to the standing one. *)
from_config_FallsBack ==
  /\ pc = "config"
  /\ \E temp \in Lookups(CURRENT_TEMP_VALIDATORS), standing \in Lookups(CURRENT_VALIDATORS) :
       \/ temp = "Found" /\ pc' = "cell" /\ source' = CURRENT_TEMP_VALIDATORS
       \/ temp # "Found" /\ standing = "Found" /\ pc' = "cell" /\ source' = CURRENT_VALIDATORS
  /\ UNCHANGED <<config, main, index, members, repeated, total_weight, tally, result>>

from_config ==
  /\ pc = "config"
  /\ \E temp \in Lookups(CURRENT_TEMP_VALIDATORS), standing \in Lookups(CURRENT_VALIDATORS) :
       \/ /\ temp = "Found" /\ pc' = "cell" /\ source' = CURRENT_TEMP_VALIDATORS
          /\ UNCHANGED result
       \/ /\ temp = "Absent" /\ standing = "Found"
          /\ pc' = "cell" /\ source' = CURRENT_VALIDATORS
          /\ UNCHANGED result
       \/ /\ temp = "Absent" /\ standing = "Absent" /\ Finish("Malformed")
          /\ UNCHANGED source
       \/ /\ temp = "Pruned" \/ (temp = "Absent" /\ standing = "Pruned")
          /\ Finish("NotCovered") /\ UNCHANGED source
  /\ UNCHANGED <<config, main, index, members, repeated, total_weight, tally>>

(* from_cell up to its loop: the tag, the two counts, and the list, which an *)
(* extended set may leave out.                                               *)
from_cell(total, subset, tagged, listed) ==
  /\ pc = "cell"
  /\ \/ ~tagged /\ Finish("WrongConstructor") /\ UNCHANGED main
     \/ /\ tagged /\ (subset = 0 \/ subset > total \/ ~listed)
        /\ Finish("Malformed") /\ UNCHANGED main
     \/ /\ tagged /\ subset \in 1..total /\ listed
        /\ pc' = "entries" /\ main' = subset /\ UNCHANGED result
  /\ UNCHANGED <<config, source, index, members, repeated, total_weight, tally>>

(* One descriptor of the loop over 0..main, read and added to the total. *)
read_validator(key, w) ==
  /\ pc = "entries" /\ index < main
  /\ \/ /\ total_weight + w <= U64_MAX
        /\ index' = index + 1
        /\ members' = [k \in DOMAIN members \cup {key} |-> IF k = key THEN w ELSE members[k]]
        /\ repeated' = (repeated \/ key \in DOMAIN members)
        /\ total_weight' = total_weight + w
        /\ UNCHANGED <<pc, result>>
     \/ /\ total_weight + w > U64_MAX /\ Finish("Malformed")
        /\ UNCHANGED <<index, members, repeated, total_weight>>
  /\ UNCHANGED <<config, source, main, tally>>

(* The list promises an entry it does not hold, hides one, or holds          *)
(* something that is not a descriptor.                                       *)
EntryUnread(why) ==
  /\ pc = "entries" /\ index < main /\ Finish(why)
  /\ UNCHANGED <<set, tally>>

(* The loop is over: sort, and refuse a key named twice. *)
SortMembers ==
  /\ pc = "entries" /\ index = main
  /\ \/ repeated /\ Finish("Malformed")
     \/ ~repeated /\ pc' = "count" /\ UNCHANGED result
  /\ UNCHANGED <<set, tally>>

----------------------------------------------------------------------------
(* verify_link's verdict on the weight the loop returns. *)
Judge(w) == Finish(IF carries(w) THEN "Ok" ELSE "NotEnoughWeight")

(* Mutant: one attempt per member. *)
budget_Single == len

budget == len * 2

(* One entry of carried_weight's loop. The input is the signer it names and  *)
(* whether its signature verifies against the rebuilt message.               *)
Look(key, verifies) ==
  /\ read' = read + 1
  /\ valid' = IF verifies THEN valid \cup {key} ELSE valid
  /\ junk' = IF key \in DOMAIN members /\ ~verifies THEN junk + 1 ELSE junk

(* Nothing to add: an outsider, a signer already counted, or, at the price  *)
(* of an attempt, a signature that does not verify.                          *)
Skip(key, verifies) ==
  /\ \/ key \notin DOMAIN members \ counted /\ UNCHANGED attempts
     \/ /\ key \in DOMAIN members \ counted /\ attempts < budget /\ ~verifies
        /\ attempts' = attempts + 1
  /\ UNCHANGED <<pc, counted, weight, result>>

(* A member not yet counted whose signature verifies: count it, and return   *)
(* at once when the threshold is passed.                                     *)
Add(key) ==
  /\ key \in DOMAIN members \ counted /\ attempts < budget
  /\ attempts' = attempts + 1 /\ counted' = counted \cup {key}
  /\ LET sum == weight + members[key]
     IN  \/ sum > U64_MAX /\ Finish("Malformed") /\ UNCHANGED weight
         \/ sum <= U64_MAX /\ carries(sum) /\ weight' = sum /\ Judge(sum)
         \/ sum <= U64_MAX /\ ~carries(sum) /\ weight' = sum /\ UNCHANGED <<pc, result>>

(* The budget is spent: the loop breaks, whatever entries are left. *)
Break(key) ==
  /\ key \in DOMAIN members \ counted /\ attempts >= budget
  /\ Judge(weight) /\ UNCHANGED <<attempts, counted, weight>>

carried_weight(key, verifies) ==
  /\ pc = "count" /\ read < MaxSignatures
  /\ Look(key, verifies)
  /\ Skip(key, verifies) \/ (verifies /\ Add(key)) \/ Break(key)
  /\ UNCHANGED <<set, ended>>

(* The entries ran out. *)
EndOfSignatures == /\ pc = "count" /\ Judge(weight) /\ ended' = TRUE
                   /\ UNCHANGED <<set, attempts, counted, weight, read, valid, junk>>

(* A finished check starts no other: verify_link has returned. *)
Next == \/ from_config
        \/ \E total, subset \in 0..MaxTotal, tagged, listed \in BOOLEAN :
             from_cell(total, subset, tagged, listed)
        \/ \E key \in Keys, w \in Weights : read_validator(key, w)
        \/ \E why \in {"Malformed", "NotCovered", "WrongConstructor"} : EntryUnread(why)
        \/ SortMembers
        \/ \E key \in Keys, verifies \in BOOLEAN : carried_weight(key, verifies)
        \/ EndOfSignatures

Spec == Init /\ [][Next]_vars

----------------------------------------------------------------------------
TypeOK ==
  /\ pc \in {"config", "cell", "entries", "count", "done"}
  /\ config \subseteq {CURRENT_VALIDATORS, CURRENT_TEMP_VALIDATORS}
  /\ source \in {0, CURRENT_VALIDATORS, CURRENT_TEMP_VALIDATORS}
  /\ main \in 0..MaxTotal /\ index \in 0..main
  /\ DOMAIN members \subseteq Keys /\ members \in [DOMAIN members -> Weights]
  /\ repeated \in BOOLEAN /\ ended \in BOOLEAN
  /\ total_weight \in 0..U64_MAX /\ weight \in 0..U64_MAX
  /\ attempts \in Nat /\ read \in 0..MaxSignatures /\ junk \in 0..read
  /\ counted \subseteq Keys /\ valid \subseteq Keys
  /\ result \in Results

Judged == pc = "done" /\ result \in {"Ok", "NotEnoughWeight"}

(* The set's weight: what the keys read are worth together. *)
Worth(keys) == SumFunctionOnSet(members, keys)

(* Which parameter answers is settled by the configuration, not by what a    *)
(* proof leaves out of it: a set is only ever read from the temporary        *)
(* parameter where there is one, and from the standing one where there is    *)
(* none.                                                                     *)
SetInForce ==
  source # 0 => source = IF CURRENT_TEMP_VALIDATORS \in config
                         THEN CURRENT_TEMP_VALIDATORS ELSE CURRENT_VALIDATORS

(* Acceptance is sound: more than two thirds of the set signed.              *)
(* Refusal is exact unless the budget ran out: a loop that ran to its end    *)
(* counted every member that signed. And the refusal of an overflowing total *)
(* when the set is read keeps the sum of the loop inside u64: counting never *)
(* fails as malformed.                                                       *)
VerdictExact ==
  /\ result = "Ok" => Worth(valid \cap DOMAIN members) * 3 > Worth(DOMAIN members) * 2
  /\ result = "NotEnoughWeight" /\ ended =>
       ~(Worth(valid \cap DOMAIN members) * 3 > Worth(DOMAIN members) * 2)
  /\ read > 0 => result # "Malformed"

(* Junk cannot crowd out the real signatures unless there is a member's      *)
(* worth of it for every member: a loop that gave up early met at least      *)
(* `len` entries naming members that did not verify. An honest list, each    *)
(* member at most once, is therefore always read to the end.                 *)
GivingUpTakesJunk == result = "NotEnoughWeight" /\ ~ended => junk >= len

(* No signature is passed over: as long as the loop has not given up, the    *)
(* members counted are exactly those with a valid signature among the        *)
(* entries read, so a bad entry before or after it costs a member nothing.   *)
CountsEverySigner ==
  pc = "count" \/ ended => counted = valid \cap DOMAIN members
=============================================================================

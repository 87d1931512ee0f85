----------------------------- MODULE LinkProofs -----------------------------
(* What the signature loop promises for every set, every list and every      *)
(* budget: first the invariant of the loop itself, then what a sum over a    *)
(* finite set is, and with it that the verdict is exact.                     *)
EXTENDS LinkSignatures, FiniteSetTheorems, WellFoundedInduction, TLAPS

(* Every attempt either counted a member or met an entry that did not verify. *)
AttemptsExplained == attempts <= Cardinality(counted) + junk

GaveUp == result = "NotEnoughWeight" /\ ~ended => attempts >= 2 * len

Fresh == pc \in {"config", "cell", "entries"} =>
           /\ attempts = 0 /\ counted = {} /\ valid = {} /\ junk = 0 /\ ~ended

Unread == /\ pc \in {"config", "cell"} => index = 0
          /\ pc # "done" => ~ended

(* The inductive invariant. *)
IndInv == /\ TypeOK /\ SetInForce /\ AttemptsExplained /\ GaveUp /\ Fresh /\ Unread
          /\ counted \subseteq valid \cap DOMAIN members
          /\ CountsEverySigner
          /\ (pc # "done" => result = "none")

LEMMA SetSize ==
  ASSUME TypeOK, counted \subseteq DOMAIN members
  PROVE  /\ IsFiniteSet(DOMAIN members) /\ IsFiniteSet(counted)
         /\ len \in Nat /\ Cardinality(counted) \in Nat /\ Cardinality(counted) <= len
<1>1. IsFiniteSet(DOMAIN members)
  BY FS_Subset, ConstantsAssumption DEF TypeOK
<1> QED
  BY <1>1, FS_Subset, FS_CardinalityType DEF len

LEMMA InitInd == Init => IndInv
<1> SUFFICES ASSUME Init PROVE IndInv
  OBVIOUS
<1>1. Cardinality({}) = 0
  BY FS_EmptySet
<1>2. TypeOK
  <2>1. repeated \in BOOLEAN /\ ended \in BOOLEAN
    BY DEF Init
  <2>2. DOMAIN members = {} /\ members \in [DOMAIN members -> Weights]
    BY DEF Init
  <2> QED
    BY <2>1, <2>2, ConstantsAssumption DEF Init, TypeOK, Results, CURRENT_VALIDATORS,
       CURRENT_TEMP_VALIDATORS
<1> QED
  BY <1>1, <1>2 DEF Init, IndInv, SetInForce, AttemptsExplained, GaveUp, Fresh, Unread, CountsEverySigner

(* The two flags stay Boolean. *)
LEMMA Flags ==
  ASSUME TypeOK, [Next]_vars
  PROVE  repeated' \in BOOLEAN /\ ended' \in BOOLEAN
<1>1. repeated \in BOOLEAN /\ ended \in BOOLEAN
  BY DEF TypeOK
<1>2. ASSUME UNCHANGED <<repeated, ended>> PROVE repeated' \in BOOLEAN /\ ended' \in BOOLEAN
  BY <1>1, <1>2
<1>3. ASSUME NEW key \in Keys, NEW w \in Weights, read_validator(key, w)
      PROVE  repeated' \in BOOLEAN /\ ended' \in BOOLEAN
  <2>1. repeated' = (repeated \/ key \in DOMAIN members) \/ repeated' = repeated
    BY <1>3 DEF read_validator
  <2>2. repeated' \in BOOLEAN
    BY <1>1, <2>1, Zenon
  <2>3. ended' = ended
    BY <1>3 DEF read_validator, tally
  <2> QED BY <1>1, <2>2, <2>3
<1>4. CASE EndOfSignatures
  <2>1. repeated' = repeated /\ ended' = TRUE
    BY <1>4 DEF EndOfSignatures, set
  <2> QED BY <1>1, <2>1, Zenon
<1>5. CASE from_config \/ (\E total, subset \in 0..MaxTotal, tagged, listed \in BOOLEAN :
                              from_cell(total, subset, tagged, listed))
           \/ (\E why \in {"Malformed", "NotCovered", "WrongConstructor"} : EntryUnread(why))
           \/ SortMembers \/ UNCHANGED vars
           \/ (\E key \in Keys, verifies \in BOOLEAN : carried_weight(key, verifies))
  <2>1. UNCHANGED <<repeated, ended>>
    BY <1>5 DEF from_config, from_cell, EntryUnread, SortMembers, carried_weight, vars, set, tally
  <2> QED BY <1>2, <2>1
<1> QED BY <1>3, <1>4, <1>5 DEF Next

(* Every step preserves the invariant. *)
LEMMA NextInd == IndInv /\ [Next]_vars => IndInv'
<1> SUFFICES ASSUME IndInv, [Next]_vars PROVE IndInv'
  OBVIOUS
<1>t. TypeOK
  BY DEF IndInv
<1>f. repeated' \in BOOLEAN /\ ended' \in BOOLEAN
  BY <1>t, Flags
<1>s. /\ IsFiniteSet(DOMAIN members) /\ IsFiniteSet(counted)
      /\ len \in Nat /\ Cardinality(counted) \in Nat /\ Cardinality(counted) <= len
  BY SetSize DEF IndInv
<1>e. Cardinality({}) = 0
  BY FS_EmptySet
<1>n. attempts \in Nat /\ junk \in Nat /\ read \in Nat /\ main \in Nat /\ index \in Nat
      /\ total_weight \in Nat /\ weight \in Nat
  BY <1>t, ConstantsAssumption DEF TypeOK
(* Reading the set leaves the tally as it started. *)
<1>1. ASSUME pc \in {"config", "cell", "entries"}, pc' \in {"config", "cell", "entries", "count", "done"},
             UNCHANGED tally, TypeOK', SetInForce', Unread',
             pc' # "done" => result' = "none", result' # "NotEnoughWeight"
      PROVE  IndInv'
  <2>1. /\ attempts' = 0 /\ counted' = {} /\ valid' = {} /\ junk' = 0 /\ ~ended'
    BY <1>1 DEF IndInv, Fresh, tally
  <2> QED
    BY <1>1, <1>e, <2>1 DEF IndInv, AttemptsExplained, GaveUp, Fresh, CountsEverySigner
<1>2. CASE from_config
  <2>1. UNCHANGED <<config, main, index, members, repeated, total_weight, tally>> /\ pc = "config"
    BY <1>2 DEF from_config
  <2>2. \/ pc' = "cell" /\ result' = "none" /\ source' = CURRENT_TEMP_VALIDATORS
           /\ CURRENT_TEMP_VALIDATORS \in config
        \/ pc' = "cell" /\ result' = "none" /\ source' = CURRENT_VALIDATORS
           /\ CURRENT_TEMP_VALIDATORS \notin config
        \/ pc' = "done" /\ result' \in {"Malformed", "NotCovered"} /\ source' = source
    BY <1>2 DEF from_config, Finish, Lookups, IndInv
  <2>3. TypeOK'
    BY <1>t, <1>f, <2>1, <2>2 DEF TypeOK, Results, tally
  <2>4. SetInForce' /\ Unread'
    BY <2>1, <2>2 DEF SetInForce, Unread, IndInv, tally
  <2>5. result' # "NotEnoughWeight" /\ (pc' # "done" => result' = "none")
    BY <2>2
  <2> QED BY <1>1, <2>1, <2>2, <2>3, <2>4, <2>5
<1>3. ASSUME NEW total \in 0..MaxTotal, NEW subset \in 0..MaxTotal, NEW tagged \in BOOLEAN,
             NEW listed \in BOOLEAN, from_cell(total, subset, tagged, listed)
      PROVE  IndInv'
  <2>1. UNCHANGED <<config, source, index, members, repeated, total_weight, tally>> /\ pc = "cell"
    BY <1>3 DEF from_cell
  <2>2. \/ pc' = "entries" /\ result' = "none" /\ main' = subset
        \/ pc' = "done" /\ result' \in {"Malformed", "WrongConstructor"} /\ main' = main
    BY <1>3 DEF from_cell, Finish, IndInv
  <2>3. TypeOK'
    <3>1. index = 0
      BY <2>1 DEF IndInv, Unread
    <3> QED BY <1>t, <1>f, <2>1, <2>2, <3>1 DEF TypeOK, Results, tally
  <2>4. SetInForce' /\ Unread'
    BY <2>1, <2>2 DEF SetInForce, Unread, IndInv, tally
  <2>5. result' # "NotEnoughWeight" /\ (pc' # "done" => result' = "none")
    BY <2>2
  <2> QED BY <1>1, <2>1, <2>2, <2>3, <2>4, <2>5
<1>4. ASSUME NEW key \in Keys, NEW w \in Weights, read_validator(key, w)
      PROVE  IndInv'
  <2> DEFINE grown == [k \in DOMAIN members \cup {key} |-> IF k = key THEN w ELSE members[k]]
  <2>1. UNCHANGED <<config, source, main, tally>> /\ pc = "entries" /\ index < main
    BY <1>4 DEF read_validator
  <2>2. \/ /\ pc' = pc /\ result' = result /\ index' = index + 1 /\ members' = grown
           /\ total_weight' = total_weight + w /\ total_weight + w <= U64_MAX
        \/ /\ pc' = "done" /\ result' = "Malformed"
           /\ UNCHANGED <<index, members, total_weight>>
    BY <1>4 DEF read_validator, Finish
  <2>3. DOMAIN members' \subseteq Keys /\ members' \in [DOMAIN members' -> Weights]
    <3>1. DOMAIN grown \subseteq Keys /\ grown \in [DOMAIN grown -> Weights]
      BY <1>t DEF TypeOK
    <3> QED BY <1>t, <2>2, <3>1 DEF TypeOK
  <2> HIDE DEF grown
  <2>4. index' \in 0..main /\ total_weight' \in 0..U64_MAX
    <3>1. w \in Nat /\ index \in 0..main /\ total_weight \in 0..U64_MAX
      BY <1>t, ConstantsAssumption DEF TypeOK
    <3> QED BY <1>n, <2>1, <2>2, <3>1, ConstantsAssumption
  <2>5. TypeOK'
    BY <1>t, <1>f, <2>1, <2>2, <2>3, <2>4 DEF TypeOK, Results, tally
  <2>6. SetInForce' /\ Unread'
    BY <2>1, <2>2 DEF SetInForce, Unread, IndInv, tally
  <2>7. result' # "NotEnoughWeight" /\ (pc' # "done" => result' = "none")
    BY <2>1, <2>2 DEF IndInv
  <2> QED BY <1>1, <2>1, <2>2, <2>5, <2>6, <2>7
<1>5. ASSUME NEW why \in {"Malformed", "NotCovered", "WrongConstructor"}, EntryUnread(why)
      PROVE  IndInv'
  <2>1. UNCHANGED <<set, tally>> /\ pc = "entries" /\ pc' = "done" /\ result' = why
    BY <1>5 DEF EntryUnread, Finish
  <2>2. TypeOK'
    BY <1>t, <1>f, <2>1 DEF TypeOK, Results, tally, set
  <2>3. SetInForce' /\ Unread'
    BY <2>1 DEF SetInForce, Unread, IndInv, set, tally
  <2> QED BY <1>1, <2>1, <2>2, <2>3
<1>6. CASE SortMembers
  <2>1. /\ UNCHANGED <<set, tally>> /\ pc = "entries"
        /\ \/ pc' = "done" /\ result' = "Malformed"
           \/ pc' = "count" /\ result' = result
    BY <1>6 DEF SortMembers, Finish
  <2>2. TypeOK'
    BY <1>t, <1>f, <2>1 DEF TypeOK, Results, tally, set
  <2>3. SetInForce' /\ Unread'
    BY <2>1 DEF SetInForce, Unread, IndInv, set, tally
  <2>4. result' # "NotEnoughWeight" /\ (pc' # "done" => result' = "none")
    BY <2>1 DEF IndInv
  <2> QED BY <1>1, <2>1, <2>2, <2>3, <2>4
<1>7. CASE UNCHANGED vars
  <2>1. UNCHANGED <<pc, set, tally, result>>
    BY <1>7 DEF vars
  <2>2. TypeOK'
    BY <1>t, <1>f, <2>1 DEF TypeOK, tally, set
  <2> QED
    BY <2>1, <2>2 DEF IndInv, SetInForce, AttemptsExplained, GaveUp, Fresh, Unread,
       CountsEverySigner, len, tally, set
<1>8. CASE EndOfSignatures
  <2>1. /\ pc = "count" /\ pc' = "done" /\ result' \in {"Ok", "NotEnoughWeight"} /\ ended'
        /\ UNCHANGED <<set, attempts, counted, weight, read, valid, junk>>
    BY <1>8 DEF EndOfSignatures, Judge, Finish
  <2>2. TypeOK'
    BY <1>t, <1>f, <2>1 DEF TypeOK, Results, set
  <2> QED
    BY <2>1, <2>2 DEF IndInv, SetInForce, AttemptsExplained, GaveUp, Fresh, Unread,
       CountsEverySigner, set
<1>9. ASSUME NEW key \in Keys, NEW verifies \in BOOLEAN, carried_weight(key, verifies)
      PROVE  IndInv'
  <2>1. /\ pc = "count" /\ read < MaxSignatures /\ UNCHANGED <<set, ended>>
        /\ read' = read + 1
        /\ valid' = IF verifies THEN valid \cup {key} ELSE valid
        /\ junk' = IF key \in DOMAIN members /\ ~verifies THEN junk + 1 ELSE junk
    BY <1>9 DEF carried_weight, Look
  <2>2. /\ members' = members /\ len' = len /\ ended' = ended /\ ~ended /\ result = "none"
        /\ counted = valid \cap DOMAIN members
    BY <2>1 DEF set, len, IndInv, Unread, CountsEverySigner
  <2>3. /\ read' \in 0..MaxSignatures /\ valid' \subseteq Keys
        /\ junk' \in 0..read' /\ junk' \in Nat /\ junk' >= junk
    <3>1. read \in 0..MaxSignatures /\ junk \in 0..read /\ valid \subseteq Keys
      BY <1>t DEF TypeOK
    <3> QED BY <2>1, <3>1, ConstantsAssumption
  (* What is left to show, whichever way the entry went. *)
  <2>4. ASSUME attempts' \in Nat, counted' \subseteq Keys, weight' \in 0..U64_MAX,
               result' \in Results, pc' \in {"count", "done"},
               AttemptsExplained', GaveUp', counted' \subseteq valid' \cap DOMAIN members,
               pc' = "count" => counted' = valid' \cap DOMAIN members /\ result' = "none"
        PROVE  IndInv'
    <3>1. TypeOK'
      BY <1>t, <1>f, <2>1, <2>3, <2>4 DEF TypeOK, set
    <3>2. SetInForce' /\ Fresh' /\ Unread'
      BY <2>1, <2>2, <2>4 DEF IndInv, SetInForce, Fresh, Unread, set
    <3>3. CountsEverySigner'
      BY <2>2, <2>4 DEF CountsEverySigner
    <3> QED BY <2>2, <2>4, <3>1, <3>2, <3>3 DEF IndInv
  <2>5. attempts <= Cardinality(counted) + junk
    BY DEF IndInv, AttemptsExplained
  <2>6. CASE Skip(key, verifies)
    <3>1. UNCHANGED <<pc, counted, weight, result>>
      BY <2>6 DEF Skip
    <3>2. \/ key \notin DOMAIN members \ counted /\ attempts' = attempts
          \/ key \in DOMAIN members \ counted /\ ~verifies /\ attempts' = attempts + 1
      BY <2>6 DEF Skip
    <3>3. AttemptsExplained' /\ attempts' \in Nat
      <4>1. CASE attempts' = attempts
        BY <1>n, <1>s, <2>3, <2>5, <3>1, <4>1 DEF AttemptsExplained
      <4>2. CASE junk' = junk + 1 /\ attempts' = attempts + 1
        BY <1>n, <1>s, <2>5, <3>1, <4>2 DEF AttemptsExplained
      <4> QED BY <2>1, <3>2, <4>1, <4>2
    <3>4. counted' = valid' \cap DOMAIN members
      BY <2>1, <2>2, <3>1, <3>2
    <3>5. counted' \subseteq Keys /\ weight' \in 0..U64_MAX /\ result' \in Results
      BY <1>t, <3>1 DEF TypeOK
    <3>6. GaveUp'
      BY <2>2, <3>1 DEF GaveUp
    <3> QED BY <2>1, <2>2, <2>4, <3>1, <3>3, <3>4, <3>5, <3>6
  <2>7. CASE verifies /\ Add(key)
    <3>1. /\ key \in DOMAIN members /\ key \notin counted
          /\ attempts' = attempts + 1 /\ counted' = counted \cup {key}
      BY <2>7 DEF Add
    <3>2. Cardinality(counted') = Cardinality(counted) + 1
      BY <1>s, <3>1, FS_AddElement
    <3>3. AttemptsExplained' /\ attempts' \in Nat
      <4>1. junk' = junk
        BY <2>1, <2>7
      <4> QED BY <1>n, <1>s, <2>5, <3>1, <3>2, <4>1 DEF AttemptsExplained
    <3>4. counted' = valid' \cap DOMAIN members
      BY <2>1, <2>2, <2>7, <3>1
    <3>5. weight' \in 0..U64_MAX
      <4>1. weight \in 0..U64_MAX /\ members[key] \in Nat
        BY <1>t, <3>1, ConstantsAssumption DEF TypeOK
      <4> QED BY <2>7, <4>1, ConstantsAssumption DEF Add
    <3>6. \/ pc' = "done" /\ result' \in {"Ok", "Malformed"}
          \/ pc' = pc /\ result' = result
      BY <2>7 DEF Add, Judge, Finish
    <3>7. GaveUp'
      BY <2>2, <3>6 DEF GaveUp
    <3>8. counted' \subseteq Keys
      BY <1>t, <3>1 DEF TypeOK
    <3> QED BY <2>1, <2>2, <2>4, <3>3, <3>4, <3>5, <3>6, <3>7, <3>8 DEF Results
  <2>8. CASE Break(key)
    <3>1. /\ attempts >= 2 * len /\ UNCHANGED <<attempts, counted, weight>>
          /\ pc' = "done" /\ result' \in {"Ok", "NotEnoughWeight"}
      <4>1. attempts >= len * 2 /\ len * 2 = 2 * len
        BY <1>s, <2>8 DEF Break, budget
      <4> QED BY <2>8, <4>1 DEF Break, Judge, Finish
    <3>2. AttemptsExplained' /\ attempts' \in Nat
      BY <1>n, <1>s, <2>3, <2>5, <3>1 DEF AttemptsExplained
    <3>3. GaveUp'
      BY <2>2, <3>1 DEF GaveUp
    <3>4. counted' \subseteq valid' \cap DOMAIN members
      BY <2>1, <2>2, <3>1
    <3>5. counted' \subseteq Keys /\ weight' \in 0..U64_MAX
      BY <1>t, <3>1 DEF TypeOK
    <3> QED BY <2>4, <3>1, <3>2, <3>3, <3>4, <3>5 DEF Results
  <2> QED BY <1>9, <2>6, <2>7, <2>8 DEF carried_weight
<1> QED BY <1>2, <1>3, <1>4, <1>5, <1>6, <1>7, <1>8, <1>9 DEF Next

(* The inductive invariant holds in every reachable state. *)
THEOREM Inductive == Spec => []IndInv
BY InitInd, NextInd, PTL DEF Spec

(* Type correctness of the set, the tally and the verdict. *)
THEOREM TypeCorrect == Spec => []TypeOK
<1>1. IndInv => TypeOK
  BY DEF IndInv
<1> QED BY <1>1, Inductive, PTL

(* from_config reads the parameter in force, whatever the proof prunes. *)
THEOREM ReadsTheSetInForce == Spec => []SetInForce
<1>1. IndInv => SetInForce
  BY DEF IndInv
<1> QED BY <1>1, Inductive, PTL

(* carried_weight passes over no signature until it gives up. *)
THEOREM NoSignatureLost == Spec => []CountsEverySigner
<1>1. IndInv => CountsEverySigner
  BY DEF IndInv
<1> QED BY <1>1, Inductive, PTL

(* carried_weight gives up only after as many entries that name a member and *)
(* do not verify as the set has members, whatever their order.               *)
THEOREM JunkTolerance == Spec => []GivingUpTakesJunk
<1>1. IndInv => GivingUpTakesJunk
  <2> SUFFICES ASSUME IndInv, result = "NotEnoughWeight", ~ended PROVE junk >= len
    BY DEF GivingUpTakesJunk
  <2>1. /\ len \in Nat /\ Cardinality(counted) \in Nat /\ Cardinality(counted) <= len
    BY SetSize DEF IndInv
  <2>2. attempts >= 2 * len /\ attempts <= Cardinality(counted) + junk
    BY DEF IndInv, GaveUp, AttemptsExplained
  <2>3. attempts \in Nat /\ junk \in Nat
    BY ConstantsAssumption DEF IndInv, TypeOK
  <2> QED BY <2>1, <2>2, <2>3
<1> QED BY <1>1, Inductive, PTL

----------------------------------------------------------------------------
(* Sums. A fold over a set takes its members in an order CHOOSE settles; the *)
(* lemmas below say that the order does not matter. Induction over finite    *)
(* sets is by a smallest counterexample.                                     *)

(* A family of subsets of a finite set has a member that contains no other. *)
LEMMA MinimalSet ==
  ASSUME NEW S, IsFiniteSet(S), NEW F \in SUBSET SUBSET S, F # {}
  PROVE  \E T \in F : \A U \in F : U \subseteq T => U = T
<1>1. F \subseteq FiniteSubsetsOf(S)
  BY FS_FiniteSubsetsOfFinite
<1>2. PICK T \in F : \A U \in F : ~(<<U, T>> \in StrictSubsetOrdering(S))
  BY <1>1, WFMin, FS_StrictSubsetOrderingWellFounded
<1> QED
  BY <1>2 DEF StrictSubsetOrdering

(* w gives every part of D the sum of f over it, whichever member is taken   *)
(* out first.                                                                *)
Additive(w, f, D) ==
  /\ w \in [SUBSET D -> Nat] /\ w[{}] = 0
  /\ \A T \in SUBSET D : \A x \in T : w[T] = f[x] + w[T \ {x}]

LEMMA SumsExist ==
  ASSUME NEW D, IsFiniteSet(D), NEW f, \A x \in D : f[x] \in Nat
  PROVE  \E w : Additive(w, f, D)
<1> DEFINE Bad == {T \in SUBSET D : ~\E w : Additive(w, f, T)}
<1> SUFFICES ASSUME Bad # {} PROVE FALSE
  OBVIOUS
<1>1. PICK T \in Bad : \A U \in Bad : U \subseteq T => U = T
  <2>1. Bad \in SUBSET SUBSET D
    OBVIOUS
  <2> HIDE DEF Bad
  <2> QED
    BY <2>1, MinimalSet
<1>2. T # {}
  <2> DEFINE zero == [s \in SUBSET {} |-> 0]
  <2>1. Additive(zero, f, {})
    BY DEF Additive
  <2> QED
    BY <1>1, <2>1
<1>3. PICK e \in T : TRUE
  BY <1>2
<1> DEFINE E == T \ {e}
<1>4. PICK v : Additive(v, f, E)
  <2>1. E \in SUBSET D /\ E \subseteq T /\ E # T
    BY <1>3
  <2> QED
    BY <1>1, <2>1
<1> DEFINE w == [s \in SUBSET T |-> v[s \ {e}] + (IF e \in s THEN f[e] ELSE 0)]
<1>5. /\ v \in [SUBSET E -> Nat] /\ v[{}] = 0
      /\ \A s \in SUBSET E : \A x \in s : v[s] = f[x] + v[s \ {x}]
  BY <1>4 DEF Additive
<1>6. \A x \in T : f[x] \in Nat
  OBVIOUS
<1>7. \A s \in SUBSET T : s \ {e} \in SUBSET E
  OBVIOUS
<1>8. w \in [SUBSET T -> Nat] /\ w[{}] = 0
  <2>1. \A s \in SUBSET T : v[s \ {e}] \in Nat
    BY <1>5, <1>7
  <2>2. \A s \in SUBSET T : v[s \ {e}] + (IF e \in s THEN f[e] ELSE 0) \in Nat
    BY <1>3, <1>6, <2>1
  <2>3. {} \ {e} = {}
    OBVIOUS
  <2> QED
    BY <1>5, <2>2, <2>3
<1>9. ASSUME NEW s \in SUBSET T, NEW x \in s PROVE w[s] = f[x] + w[s \ {x}]
  <2>1. v[s \ {e}] \in Nat /\ v[(s \ {x}) \ {e}] \in Nat /\ f[x] \in Nat /\ f[e] \in Nat
    <3>1. s \ {x} \in SUBSET T
      OBVIOUS
    <3> QED
      BY <1>3, <1>5, <1>6, <1>7, <3>1
  <2>2. /\ w[s] = v[s \ {e}] + (IF e \in s THEN f[e] ELSE 0)
        /\ w[s \ {x}] = v[(s \ {x}) \ {e}] + (IF e \in s \ {x} THEN f[e] ELSE 0)
    OBVIOUS
  <2> HIDE DEF w
  <2>3. CASE x = e
    <3>1. (s \ {x}) \ {e} = s \ {e} /\ e \in s /\ e \notin s \ {x}
      BY <2>3
    <3>2. w[s] = v[s \ {e}] + f[e] /\ w[s \ {x}] = v[s \ {e}] + 0
      BY <2>2, <3>1
    <3> QED
      BY <2>1, <2>3, <3>2
  <2>4. CASE x # e
    <3>1. s \ {e} \in SUBSET E /\ x \in s \ {e} /\ (s \ {x}) \ {e} = (s \ {e}) \ {x}
      BY <1>7, <2>4
    <3>2. v[s \ {e}] = f[x] + v[(s \ {x}) \ {e}]
      BY <1>5, <3>1
    <3>3. (e \in s \ {x}) = (e \in s)
      BY <2>4
    <3> QED
      BY <2>1, <2>2, <3>2, <3>3
  <2> QED
    BY <2>3, <2>4
<1>10. Additive(w, f, T)
  <2> HIDE DEF w
  <2> QED
    BY <1>8, <1>9 DEF Additive
<1> QED
  BY <1>1, <1>10

(* SumFunctionOnSet computes it. *)
LEMMA SumIs ==
  ASSUME NEW D, IsFiniteSet(D), NEW f, NEW w, Additive(w, f, D)
  PROVE  SumFunctionOnSet(f, D) = w[D]
<1> DEFINE Sums(g) ==
      g = [s \in SUBSET D |-> IF s = {} THEN 0
             ELSE f[CHOOSE x \in s : TRUE] + g[s \ {CHOOSE x \in s : TRUE}]]
<1>1. SumFunctionOnSet(f, D) = (CHOOSE g : Sums(g))[D]
  BY DEF SumFunctionOnSet, FoldFunctionOnSet, MapThenFoldSet
<1>2. /\ w \in [SUBSET D -> Nat] /\ w[{}] = 0
      /\ \A s \in SUBSET D : \A x \in s : w[s] = f[x] + w[s \ {x}]
  BY DEF Additive
<1>3. \A s \in SUBSET D : s # {} => (CHOOSE x \in s : TRUE) \in s
  OBVIOUS
<1>4. Sums(w)
  <2>1. \A s \in SUBSET D : w[s] = IF s = {} THEN 0
             ELSE f[CHOOSE x \in s : TRUE] + w[s \ {CHOOSE x \in s : TRUE}]
    BY <1>2, <1>3
  <2> QED
    BY <1>2, <2>1
<1> DEFINE g == CHOOSE g : Sums(g)
<1>5. Sums(g)
  <2> HIDE DEF Sums
  <2> QED
    BY <1>4
<1> HIDE DEF g
<1>6. \A s \in SUBSET D : s # {} => g[s] = f[CHOOSE x \in s : TRUE] + g[s \ {CHOOSE x \in s : TRUE}]
  BY <1>5
<1>7. g[{}] = 0
  BY <1>5
<1> HIDE DEF Sums
<1>8. ASSUME NEW s \in SUBSET D, g[s] # w[s] PROVE FALSE
  <2> DEFINE Bad == {t \in SUBSET D : g[t] # w[t]}
  <2>1. PICK t \in Bad : \A u \in Bad : u \subseteq t => u = t
    <3>1. Bad \in SUBSET SUBSET D /\ Bad # {}
      BY <1>8
    <3> HIDE DEF Bad
    <3> QED
      BY <3>1, MinimalSet
  <2>2. t # {}
    BY <1>2, <1>7, <2>1
  <2> DEFINE x == CHOOSE x \in t : TRUE
  <2>3. x \in t /\ t \ {x} \in SUBSET D /\ t \ {x} # t
    BY <2>2
  <2>4. g[t \ {x}] = w[t \ {x}]
    BY <2>1, <2>3
  <2>5. g[t] = f[x] + g[t \ {x}]
    BY <1>6, <2>1, <2>2
  <2> HIDE DEF x
  <2>6. w[t] = f[x] + w[t \ {x}]
    BY <1>2, <2>1, <2>3
  <2> QED
    BY <2>1, <2>4, <2>5, <2>6
<1> QED
  BY <1>1, <1>8 DEF g

LEMMA SumOfNothing ==
  ASSUME NEW f
  PROVE  SumFunctionOnSet(f, {}) = 0
<1>1. PICK w : Additive(w, f, {})
  BY SumsExist, FS_EmptySet
<1> QED
  BY <1>1, SumIs, FS_EmptySet DEF Additive

(* One member taken out takes its own weight with it, whichever it is. *)
LEMMA SumLess ==
  ASSUME NEW D, IsFiniteSet(D), NEW f, \A x \in D : f[x] \in Nat, NEW e \in D
  PROVE  /\ SumFunctionOnSet(f, D) \in Nat /\ SumFunctionOnSet(f, D \ {e}) \in Nat
         /\ SumFunctionOnSet(f, D) = f[e] + SumFunctionOnSet(f, D \ {e})
<1> DEFINE E == D \ {e}
<1>1. PICK w : Additive(w, f, D)
  BY SumsExist
<1>2. /\ w \in [SUBSET D -> Nat] /\ w[{}] = 0
      /\ \A T \in SUBSET D : \A x \in T : w[T] = f[x] + w[T \ {x}]
  BY <1>1 DEF Additive
<1> DEFINE v == [T \in SUBSET E |-> w[T]]
<1>3. Additive(v, f, E)
  <2>1. v \in [SUBSET E -> Nat] /\ v[{}] = 0
    BY <1>2
  <2>2. ASSUME NEW T \in SUBSET E, NEW x \in T PROVE v[T] = f[x] + v[T \ {x}]
    <3>1. T \in SUBSET D /\ T \ {x} \in SUBSET E
      OBVIOUS
    <3> QED
      BY <1>2, <3>1
  <2> HIDE DEF v
  <2> QED
    BY <2>1, <2>2 DEF Additive
<1>4. SumFunctionOnSet(f, D) = w[D]
  BY <1>1, SumIs
<1>5. SumFunctionOnSet(f, E) = v[E]
  <2>1. IsFiniteSet(E)
    BY FS_RemoveElement
  <2> HIDE DEF v, E
  <2> QED
    BY <1>3, <2>1, SumIs
<1>6. E \in SUBSET D /\ v[E] = w[E]
  OBVIOUS
<1>7. w[D] \in Nat /\ w[E] \in Nat /\ w[D] = f[e] + w[E]
  BY <1>2
<1> QED
  BY <1>4, <1>5, <1>6, <1>7

(* Only the weights of the members count. *)
LEMMA SumSame ==
  ASSUME NEW D, IsFiniteSet(D), NEW f, NEW g, \A x \in D : f[x] \in Nat /\ g[x] = f[x]
  PROVE  SumFunctionOnSet(g, D) = SumFunctionOnSet(f, D)
<1>1. PICK w : Additive(w, f, D)
  BY SumsExist
<1>2. Additive(w, g, D)
  BY <1>1 DEF Additive
<1> QED
  BY <1>1, <1>2, SumIs

(* A part weighs no more than the whole. *)
LEMMA SumOfPart ==
  ASSUME NEW D, IsFiniteSet(D), NEW f, \A x \in D : f[x] \in Nat, NEW S \in SUBSET D
  PROVE  /\ SumFunctionOnSet(f, S) \in Nat /\ SumFunctionOnSet(f, D) \in Nat
         /\ SumFunctionOnSet(f, S) <= SumFunctionOnSet(f, D)
<1>1. ASSUME NEW T \in SUBSET D PROVE SumFunctionOnSet(f, T) \in Nat /\ IsFiniteSet(T)
  <2>1. IsFiniteSet(T)
    BY FS_Subset
  <2>2. CASE T = {}
    BY <2>1, <2>2, SumOfNothing
  <2>3. ASSUME NEW e \in T PROVE SumFunctionOnSet(f, T) \in Nat
    BY <2>1, SumLess
  <2> QED
    BY <2>1, <2>2, <2>3
<1> DEFINE Bad == {T \in SUBSET D : S \subseteq T /\ ~(SumFunctionOnSet(f, S) <= SumFunctionOnSet(f, T))}
<1>2. ASSUME Bad # {} PROVE FALSE
  <2>1. PICK T \in Bad : \A U \in Bad : U \subseteq T => U = T
    <3>1. Bad \in SUBSET SUBSET D /\ Bad # {}
      BY <1>2
    <3> HIDE DEF Bad
    <3> QED
      BY <3>1, MinimalSet
  <2>2. S \in SUBSET D /\ T \in SUBSET D /\ S \subseteq T /\ ~(SumFunctionOnSet(f, S) <= SumFunctionOnSet(f, T))
    BY <2>1
  <2>3. S # T
    <3>1. SumFunctionOnSet(f, S) \in Nat
      BY <1>1
    <3> QED
      BY <2>2, <3>1
  <2>4. PICK e \in T : e \notin S
    BY <2>2, <2>3
  <2> DEFINE U == T \ {e}
  <2>5. SumFunctionOnSet(f, S) <= SumFunctionOnSet(f, U)
    BY <2>1, <2>2, <2>4
  <2>6. /\ SumFunctionOnSet(f, T) \in Nat /\ SumFunctionOnSet(f, U) \in Nat
        /\ SumFunctionOnSet(f, T) = f[e] + SumFunctionOnSet(f, U)
    BY <1>1, <2>2, <2>4, SumLess
  <2>7. f[e] \in Nat /\ SumFunctionOnSet(f, S) \in Nat
    BY <1>1, <2>2, <2>4
  <2> QED
    BY <2>2, <2>5, <2>6, <2>7
<1>3. D \notin Bad
  BY <1>2
<1> QED
  BY <1>1, <1>3

----------------------------------------------------------------------------
(* What the two totals are. *)
SumInv ==
  /\ ~repeated => total_weight = Worth(DOMAIN members)
  /\ pc \in {"config", "cell", "entries"} => read = 0 /\ weight = 0
  /\ pc = "count" => ~repeated
  /\ Judged => ~repeated
  /\ pc = "count" \/ Judged => weight = Worth(counted)
  /\ result = "Ok" => carries(weight)
  /\ result = "NotEnoughWeight" => ~carries(weight)
  /\ result \in {"Ok", "NotEnoughWeight"} => pc = "done"
  /\ read > 0 => result # "Malformed"

(* Every weight a member states is a number. *)
LEMMA MembersWeigh ==
  ASSUME TypeOK
  PROVE  IsFiniteSet(DOMAIN members) /\ \A k \in DOMAIN members : members[k] \in Nat
<1>1. IsFiniteSet(DOMAIN members)
  BY FS_Subset, ConstantsAssumption DEF TypeOK
<1> QED
  BY <1>1, ConstantsAssumption DEF TypeOK

LEMMA InitSums == Init => SumInv
<1> SUFFICES ASSUME Init PROVE SumInv
  OBVIOUS
<1>1. DOMAIN members = {}
  BY DEF Init
<1>2. Worth({}) = 0
  BY SumOfNothing DEF Worth
<1> QED
  BY <1>1, <1>2 DEF Init, SumInv, Judged

(* A new key's weight is added to the total, and only its. *)
LEMMA ReadKeepsSums ==
  ASSUME IndInv, SumInv, NEW key \in Keys, NEW w \in Weights, read_validator(key, w)
  PROVE  SumInv'
<1> DEFINE grown == [k \in DOMAIN members \cup {key} |-> IF k = key THEN w ELSE members[k]]
<1>1. /\ UNCHANGED <<read, weight>> /\ pc = "entries" /\ read = 0 /\ weight = 0 /\ result = "none"
  BY DEF read_validator, tally, SumInv, IndInv
<1>2. CASE /\ pc' = pc /\ result' = result /\ members' = grown
           /\ repeated' = (repeated \/ key \in DOMAIN members)
           /\ total_weight' = total_weight + w
  <2>1. ASSUME ~repeated' PROVE total_weight' = Worth(DOMAIN members)'
    <3> DEFINE D == DOMAIN members
    <3>1. ~repeated /\ key \notin D
      BY <1>2, <2>1
    <3>2. IsFiniteSet(D) /\ \A k \in D : members[k] \in Nat
      BY MembersWeigh DEF IndInv
    <3>3. /\ DOMAIN grown = D \cup {key} /\ grown[key] = w /\ (D \cup {key}) \ {key} = D
          /\ \A k \in D : grown[k] = members[k]
      BY <3>1
    <3>4. IsFiniteSet(D \cup {key})
      BY <3>2, FS_AddElement
    <3>5. w \in Nat
      BY ConstantsAssumption
    <3> HIDE DEF grown
    <3>6. \A k \in D \cup {key} : grown[k] \in Nat
      BY <3>2, <3>3, <3>5
    <3>7. SumFunctionOnSet(grown, D \cup {key}) = w + SumFunctionOnSet(grown, D)
      BY <3>3, <3>4, <3>6, SumLess
    <3>8. SumFunctionOnSet(grown, D) = SumFunctionOnSet(members, D)
      BY <3>2, <3>3, SumSame
    <3>9. total_weight = SumFunctionOnSet(members, D)
      BY <3>1 DEF SumInv, Worth
    <3>10. total_weight \in Nat
      BY ConstantsAssumption DEF IndInv, TypeOK
    <3> QED
      BY <1>2, <3>3, <3>5, <3>7, <3>8, <3>9, <3>10 DEF Worth
  <2> QED
    BY <1>1, <1>2, <2>1 DEF SumInv, Judged
<1>3. CASE pc' = "done" /\ result' = "Malformed" /\ UNCHANGED <<members, repeated, total_weight>>
  BY <1>1, <1>3 DEF SumInv, Judged, Worth
<1> QED
  BY <1>2, <1>3 DEF read_validator, Finish

(* A member is added to the sum once. The sum is a part of the total, which  *)
(* fits.                                                                     *)
LEMMA AddKeepsSums ==
  ASSUME IndInv, SumInv, NEW key \in Keys, carried_weight(key, TRUE), Add(key)
  PROVE  SumInv'
<1> DEFINE D == DOMAIN members
<1>1. /\ pc = "count" /\ ~repeated /\ weight = Worth(counted) /\ total_weight = Worth(D)
      /\ UNCHANGED <<set, ended>> /\ key \in D \ counted /\ counted' = counted \cup {key}
      /\ result = "none" /\ read' = read + 1
  BY DEF carried_weight, Look, Add, SumInv, IndInv
<1>2. UNCHANGED <<members, repeated, total_weight>>
  BY <1>1 DEF set
<1>3. IsFiniteSet(D) /\ \A k \in D : members[k] \in Nat
  BY MembersWeigh DEF IndInv
<1>4. counted' \subseteq D
  BY <1>1 DEF IndInv
<1>5. IsFiniteSet(counted')
  BY <1>3, <1>4, FS_Subset
<1>6. /\ Worth(counted') \in Nat /\ Worth(counted) \in Nat
      /\ Worth(counted') = members[key] + Worth(counted)
  <2>1. counted' \ {key} = counted /\ key \in counted'
    BY <1>1
  <2>2. \A k \in counted' : members[k] \in Nat
    BY <1>3, <1>4
  <2> QED
    BY <1>5, <2>1, <2>2, SumLess DEF Worth
<1>7. Worth(counted') <= Worth(D) /\ Worth(D) \in Nat
  BY <1>3, <1>4, SumOfPart DEF Worth
<1>8. total_weight <= U64_MAX /\ U64_MAX \in Nat
  BY ConstantsAssumption DEF IndInv, TypeOK
<1>9. members[key] \in Nat
  BY <1>1, <1>3
<1>10. weight + members[key] = Worth(counted') /\ weight + members[key] <= U64_MAX
  BY <1>1, <1>6, <1>7, <1>8, <1>9
<1>11. /\ weight' = Worth(counted')
       /\ \/ carries(weight') /\ pc' = "done" /\ result' = "Ok"
          \/ ~carries(weight') /\ pc' = pc /\ result' = result
  <2>1. ~(weight + members[key] > U64_MAX)
    BY <1>8, <1>10, <1>6
  <2> QED
    BY <1>10, <2>1 DEF Add, Judge, Finish
<1>12. Worth(counted)' = Worth(counted') /\ Worth(DOMAIN members)' = Worth(D)
       /\ (carries(weight)' <=> carries(weight'))
  BY <1>2 DEF Worth, carries
<1> QED
  BY <1>1, <1>2, <1>11, <1>12 DEF SumInv, Judged

LEMMA NextSums == IndInv /\ SumInv /\ [Next]_vars => SumInv'
<1> SUFFICES ASSUME IndInv, SumInv, [Next]_vars PROVE SumInv'
  OBVIOUS
(* The set and the sum stand still. *)
<1>1. ASSUME UNCHANGED <<members, repeated, total_weight, weight, counted>>
      PROVE  /\ Worth(DOMAIN members)' = Worth(DOMAIN members) /\ Worth(counted)' = Worth(counted)
             /\ carries(weight)' = carries(weight)
  BY <1>1 DEF Worth, carries
<1>2. CASE from_config \/ (\E total, subset \in 0..MaxTotal, tagged, listed \in BOOLEAN :
                              from_cell(total, subset, tagged, listed))
           \/ (\E why \in {"Malformed", "NotCovered", "WrongConstructor"} : EntryUnread(why))
  <2>1. /\ UNCHANGED <<members, repeated, total_weight, weight, counted, read>>
        /\ pc \in {"config", "cell", "entries"} /\ pc' \in {"cell", "entries", "done"}
        /\ result' \in {"none", "Malformed", "NotCovered", "WrongConstructor"}
    BY <1>2 DEF from_config, from_cell, EntryUnread, Finish, set, tally, IndInv
  <2> QED
    BY <1>1, <2>1 DEF SumInv, Judged
<1>3. ASSUME NEW key \in Keys, NEW w \in Weights, read_validator(key, w) PROVE SumInv'
  BY <1>3, ReadKeepsSums
<1>4. CASE SortMembers
  <2>1. /\ UNCHANGED <<members, repeated, total_weight, weight, counted, read>> /\ pc = "entries"
        /\ \/ pc' = "done" /\ result' = "Malformed"
           \/ pc' = "count" /\ result' = result /\ ~repeated
    BY <1>4 DEF SortMembers, Finish, set, tally
  <2>2. counted = {} /\ weight = 0 /\ read = 0 /\ result = "none"
    BY <2>1 DEF IndInv, Fresh, SumInv
  <2>3. Worth(counted) = 0
    BY <2>2, SumOfNothing DEF Worth
  <2> QED
    BY <1>1, <2>1, <2>2, <2>3 DEF SumInv, Judged
<1>5. CASE EndOfSignatures
  <2>1. /\ UNCHANGED <<members, repeated, total_weight, weight, counted, read>> /\ pc = "count"
        /\ pc' = "done" /\ result' = IF carries(weight) THEN "Ok" ELSE "NotEnoughWeight"
    BY <1>5 DEF EndOfSignatures, Judge, Finish, set
  <2> QED
    BY <1>1, <2>1 DEF SumInv, Judged
<1>6. ASSUME NEW key \in Keys, NEW verifies \in BOOLEAN, carried_weight(key, verifies) PROVE SumInv'
  <2>1. /\ UNCHANGED <<members, repeated, total_weight>> /\ pc = "count" /\ result = "none"
    BY <1>6 DEF carried_weight, set, IndInv
  <2>2. CASE Skip(key, verifies)
    <3>1. UNCHANGED <<pc, counted, weight, result>>
      BY <2>2 DEF Skip
    <3> QED
      BY <1>1, <2>1, <3>1 DEF SumInv, Judged
  <2>3. CASE verifies /\ Add(key)
    <3>1. verifies = TRUE
      BY <2>3
    <3> QED
      BY <1>6, <2>3, <3>1, AddKeepsSums
  <2>4. CASE Break(key)
    <3>1. /\ UNCHANGED <<counted, weight>> /\ pc' = "done"
          /\ result' = IF carries(weight) THEN "Ok" ELSE "NotEnoughWeight"
      BY <2>4 DEF Break, Judge, Finish
    <3> QED
      BY <1>1, <2>1, <3>1 DEF SumInv, Judged
  <2> QED
    BY <1>6, <2>2, <2>3, <2>4 DEF carried_weight
<1>7. CASE UNCHANGED vars
  <2>1. UNCHANGED <<members, repeated, total_weight, weight, counted, read, pc, result>>
    BY <1>7 DEF vars, set, tally
  <2> QED
    BY <1>1, <2>1 DEF SumInv, Judged
<1> QED
  BY <1>2, <1>3, <1>4, <1>5, <1>6, <1>7 DEF Next

(* The totals carried_weight and the reader of the set keep are the sums over *)
(* the members they stand for, in every reachable state.                     *)
THEOREM Summed == Spec => []SumInv
BY InitSums, NextSums, Inductive, PTL DEF Spec

(* The verdict on a link is exact, for every set of validators, every weight *)
(* and every list of signatures: verify_link accepts only when the members   *)
(* that signed weigh more than two thirds of the set; carried_weight's loop, *)
(* run to its end, refuses only when they do not; and its checked sum never  *)
(* overflows, because reading the set refused a total that would.            *)
THEOREM LinkVerdictExact == Spec => []VerdictExact
<1>1. IndInv /\ SumInv => VerdictExact
  <2> SUFFICES ASSUME IndInv, SumInv PROVE VerdictExact
    OBVIOUS
  <2> DEFINE D == DOMAIN members
             signed == valid \cap D
  <2>1. IsFiniteSet(D) /\ \A k \in D : members[k] \in Nat
    BY MembersWeigh DEF IndInv
  <2>2. counted \subseteq signed /\ IsFiniteSet(signed) /\ \A k \in signed : members[k] \in Nat
    BY <2>1, FS_Subset DEF IndInv
  <2>3. Worth(counted) \in Nat /\ Worth(signed) \in Nat /\ Worth(counted) <= Worth(signed)
    BY <2>2, SumOfPart DEF Worth
  <2>4. Worth(D) \in Nat
    BY <2>1, SumOfPart DEF Worth
  <2>5. CASE result = "Ok"
    <3>1. weight = Worth(counted) /\ total_weight = Worth(D) /\ carries(weight)
      BY <2>5 DEF SumInv, Judged
    <3>2. Worth(counted) * 3 > Worth(D) * 2
      BY <3>1 DEF carries
    <3>3. Worth(signed) * 3 > Worth(D) * 2
      BY <2>3, <2>4, <3>2
    <3> QED
      BY <2>5, <3>3 DEF VerdictExact
  <2>6. CASE result = "NotEnoughWeight"
    <3>1. weight = Worth(counted) /\ total_weight = Worth(D) /\ ~carries(weight)
      BY <2>6 DEF SumInv, Judged
    <3>2. ended => counted = signed
      BY DEF IndInv, CountsEverySigner
    <3> QED
      BY <2>6, <3>1, <3>2 DEF VerdictExact, carries
  <2> QED
    BY <2>5, <2>6 DEF VerdictExact, SumInv
<1> QED
  BY <1>1, Inductive, Summed, PTL
=============================================================================

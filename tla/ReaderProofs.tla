---------------------------- MODULE ReaderProofs ----------------------------
(* What the pass over a bag promises for every bag, every set of failing      *)
(* cells, every number of threads and every way they run; then what the lazy  *)
(* reader promises for every bag the pass has read, every list of roots and   *)
(* every sequence of calls, whatever failed before, and that the pass beside  *)
(* it promises what it promises alone.                                        *)
(*                                                                            *)
(* The properties of the lazy reader are not inductive: ReadersInv adds that  *)
(* no mark is of a walk to come, that no kept cell is bad, and that the bag   *)
(* runs forward once the pass is through.                                     *)
EXTENDS LazyBoc, FiniteSetTheorems, TLAPS

(* read_raw has passed every cell before the one it is at. *)
ReadIsForward ==
  /\ pc = "read" => \A i \in Cells : i < index => Forward(i)
  /\ pc \in {"heights", "waves", "run"} => \A i \in Cells : Forward(i)

(* heights has passed every cell above the one it is at. *)
HeightsRise ==
  /\ pc = "heights" => \A i \in Cells : i > index => Above(i, height[i])
  /\ pc \in {"waves", "run"} => \A i \in Cells : Above(i, height[i])

HeightBound == \A i \in Cells : height[i] <= N - 1 - i

(* Where the pass is. *)
Stage ==
  /\ pc = "read" => index >= 0
  /\ pc \in {"read", "heights"} => wave = 0 /\ held = {} /\ lowest = NoCell
  /\ pc # "run" => pending = {} /\ split = FALSE
  /\ pc = "run" => wave < N /\ pending \subseteq Wave(wave)
  /\ pc # "done" => result = "none"

(* The threads of a wave have judged over what was held when it began. *)
JudgedAlike ==
  pc = "run" /\ split => \A i \in Wave(wave) \ pending : outcome[i] = one(i)

KeptCauses == {i \in Kept \cap bad : refs[i] \subseteq held}

LowestSoFar ==
  pc \in {"waves", "run"} =>
    /\ lowest = NoCell \/ lowest \in KeptCauses
    /\ \A i \in KeptCauses : lowest <= i

HeldIsKept == pc \in {"waves", "run"} => held \subseteq Kept

(* H holds exactly the cells whose own contents are sound and whose children   *)
(* it holds.                                                                   *)
Closed(H) == \A i \in Cells : i \in H <=> (i \notin bad /\ refs[i] \subseteq H)

(* However the waves were run, what a finished pass holds is the one set of    *)
(* cells the bag allows.                                                       *)
OneAnswer ==
  result \in {"lowest", "roots"} =>
    Closed(held) /\ \A H \in SUBSET Cells : Closed(H) => H = held

(* The inductive invariant. *)
IndInv == /\ TypeOK /\ ReadIsForward /\ HeightsRise /\ HeightBound /\ Stage
          /\ JudgedAlike /\ HeldIsKept /\ KeptIsFinal /\ LowestSoFar /\ ReportsTheCause /\ OneAnswer

-----------------------------------------------------------------------------
(* The initial segments of the numbers are finite, and finite sets have no    *)
(* endless descent under inclusion.                                           *)
LEMMA Least ==
  ASSUME NEW T \in SUBSET Nat, T # {}
  PROVE  \E x \in T : \A y \in T : x <= y
<1> DEFINE F == {0..x : x \in T}
<1>1. F \subseteq FiniteSubsetsOf(Nat) /\ F # {}
  <2>1. ASSUME NEW x \in T PROVE 0..x \in FiniteSubsetsOf(Nat)
    <3>1. IsFiniteSet(0..x)
      BY FS_Interval
    <3> QED
      BY <3>1 DEF FiniteSubsetsOf
  <2> QED
    BY <2>1, Zenon
<1>2. PICK s \in F : \A t \in F : ~(<<t, s>> \in StrictSubsetOrdering(Nat))
  BY <1>1, WFMin, FS_StrictSubsetOrderingWellFounded, Zenon
<1>3. PICK x \in T : s = 0..x
  BY <1>2
<1>4. ASSUME NEW y \in T, y < x PROVE FALSE
  <2>1. <<0..y, 0..x>> \in StrictSubsetOrdering(Nat)
    <3>1. 0..y \subseteq 0..x /\ 0..y \in SUBSET Nat /\ 0..x \in SUBSET Nat
      BY <1>4
    <3>2. x \in 0..x /\ x \notin 0..y
      BY <1>4
    <3>3. 0..y # 0..x
      BY <3>2
    <3> QED
      BY <3>1, <3>3 DEF StrictSubsetOrdering
  <2> QED
    BY <1>2, <1>3, <2>1, Zenon
<1> QED
  BY <1>4

LEMMA Greatest ==
  ASSUME NEW S \in SUBSET Cells, S # {}
  PROVE  \E x \in S : \A y \in S : y <= x
<1> DEFINE T == {N - 1 - i : i \in S}
<1>1. T \in SUBSET Nat /\ T # {}
  <2>1. ASSUME NEW i \in S PROVE N - 1 - i \in Nat
    <3>1. i \in 0..N - 1
      BY DEF Cells
    <3> QED
      BY <3>1, BagAssumption
  <2> QED
    BY <2>1
<1>2. PICK m \in T : \A y \in T : m <= y
  BY <1>1, Least, Zenon
<1>3. PICK x \in S : m = N - 1 - x
  BY <1>2
<1>4. \A y \in S : m <= N - 1 - y
  BY <1>2
<1>5. \A y \in S : y <= x
  BY <1>3, <1>4, BagAssumption DEF Cells
<1> QED
  BY <1>5

(* The height a cell is given is above its children's and within the bound. *)
LEMMA TallestFits ==
  ASSUME TypeOK, HeightBound, NEW i \in Cells, Forward(i)
  PROVE  Tallest(i) \in 0..N - 1 - i /\ Above(i, Tallest(i))
<1> DEFINE U == {h \in 0..N : Above(i, h)}
<1>1. N - 1 - i \in 0..N
  BY BagAssumption DEF Cells
<1>2. Above(i, N - 1 - i)
  <2> SUFFICES ASSUME NEW t \in refs[i] PROVE height[t] < N - 1 - i
    BY DEF Above
  <2>1. t \in Cells /\ t > i
    BY BagAssumption DEF TypeOK, Forward, Cells
  <2>2. height[t] <= N - 1 - t /\ height[t] \in Int
    BY <2>1 DEF HeightBound, TypeOK
  <2> QED
    BY <2>1, <2>2, BagAssumption DEF Cells
<1>3. U \in SUBSET Nat /\ U # {}
  BY <1>1, <1>2, BagAssumption
<1>4. \E h \in U : \A k \in U : h <= k
  BY <1>3, Least, Zenon
<1>5. \E h \in 0..N : Above(i, h) /\ \A k \in 0..N : Above(i, k) => h <= k
  BY <1>4
<1>6. /\ Tallest(i) \in 0..N /\ Above(i, Tallest(i))
      /\ \A k \in 0..N : Above(i, k) => Tallest(i) <= k
  BY <1>5 DEF Tallest
<1> QED
  BY <1>1, <1>2, <1>6, BagAssumption DEF Cells

LEMMA InitInd == Init => IndInv
<1> SUFFICES ASSUME Init PROVE IndInv
  OBVIOUS
<1>1. TypeOK
  <2>1. split \in BOOLEAN
    BY Zenon DEF Init
  <2> QED
    BY <2>1, BagAssumption DEF Init, TypeOK, Cells, Outcomes, Results, NoCell
<1> QED
  BY <1>1, BagAssumption DEF Init, IndInv, ReadIsForward, HeightsRise, HeightBound, Stage, JudgedAlike,
     HeldIsKept, KeptIsFinal, LowestSoFar, ReportsTheCause, OneAnswer, Closed, Cells

-----------------------------------------------------------------------------
(* A step preserves the invariant: one lemma per action.                     *)

(* The pass ends before any cell is kept, or keeps nothing more. *)
LEMMA FinishStep ==
  ASSUME IndInv, NEW r \in Results, Finish(r), pc # "run", r \notin {"lowest", "roots"}
  PROVE  IndInv'
<1>1. split' \in BOOLEAN
  BY DEF IndInv, TypeOK, Finish
<1>2. TypeOK'
  BY <1>1 DEF IndInv, TypeOK, Finish, bag
<1> QED
  BY <1>2 DEF IndInv, Finish, bag, ReadIsForward, HeightsRise, HeightBound, Stage, JudgedAlike, HeldIsKept,
     KeptIsFinal, LowestSoFar, ReportsTheCause, OneAnswer, Closed

LEMMA ReadCellStep ==
  ASSUME IndInv, ReadCell
  PROVE  IndInv'
<1>1. split' \in BOOLEAN
  BY DEF IndInv, TypeOK, ReadCell
<1>2. index \in 0..N - 1
  BY BagAssumption DEF IndInv, TypeOK, Stage, ReadCell
<1>3. TypeOK'
  BY <1>1, <1>2, BagAssumption DEF IndInv, TypeOK, ReadCell, bag
<1>4. ReadIsForward'
  BY <1>2, BagAssumption DEF IndInv, ReadIsForward, ReadCell, Forward, bag, Cells
<1>5. HeightsRise'
  BY <1>2, BagAssumption DEF HeightsRise, ReadCell, Cells
<1> QED
  BY <1>2, <1>3, <1>4, <1>5, BagAssumption DEF IndInv, ReadCell, bag, HeightBound, Stage, JudgedAlike, HeldIsKept,
     KeptIsFinal, LowestSoFar, ReportsTheCause, OneAnswer, Closed

LEMMA HeightOfStep ==
  ASSUME IndInv, HeightOf
  PROVE  IndInv'
<1>1. split' \in BOOLEAN
  BY DEF IndInv, TypeOK, HeightOf
<1>2. index \in Cells /\ index \in 0..N - 1
  BY BagAssumption DEF IndInv, TypeOK, HeightOf, Cells
<1>3. Forward(index)
  BY <1>2 DEF IndInv, ReadIsForward, HeightOf
<1>4. Tallest(index) \in 0..N - 1 - index /\ Above(index, Tallest(index))
  BY <1>2, <1>3, TallestFits DEF IndInv
<1>5. Tallest(index) \in 0..N - 1
  BY <1>2, <1>4, BagAssumption
<1>6. height' \in [Cells -> 0..N - 1]
  BY <1>5, Zenon DEF IndInv, TypeOK, HeightOf
<1>7. TypeOK'
  BY <1>1, <1>2, <1>6, BagAssumption DEF IndInv, TypeOK, HeightOf, bag
<1>8. HeightBound'
  <2> SUFFICES ASSUME NEW i \in Cells PROVE height'[i] <= N - 1 - i
    BY DEF HeightBound
  <2>1. CASE i = index
    <3>1. height'[i] = Tallest(index)
      BY <2>1, <1>2 DEF IndInv, TypeOK, HeightOf
    <3> QED
      BY <2>1, <3>1, <1>4
  <2>2. CASE i # index
    <3>1. height'[i] = height[i]
      BY <2>2 DEF IndInv, TypeOK, HeightOf
    <3> QED
      BY <3>1 DEF IndInv, HeightBound
  <2> QED
    BY <2>1, <2>2
<1>9. HeightsRise'
  <2> SUFFICES ASSUME NEW i \in Cells, i >= index, NEW t \in refs[i] PROVE height'[t] < height'[i]
    BY <1>2, BagAssumption DEF HeightsRise, HeightOf, Above, bag, Cells
  <2>1. t \in Cells /\ t > i
    BY BagAssumption DEF IndInv, ReadIsForward, HeightOf, Forward, TypeOK, Cells
  <2>2. t # index /\ t \in 0..N - 1 /\ i \in 0..N - 1
    BY <1>2, <2>1 DEF Cells
  <2>3. height'[t] = height[t]
    BY <2>1, <2>2 DEF IndInv, TypeOK, HeightOf
  <2>4. CASE i = index
    <3>1. height'[i] = Tallest(index)
      BY <2>4, <1>2 DEF IndInv, TypeOK, HeightOf
    <3> QED
      BY <2>3, <2>4, <3>1, <1>4 DEF Above
  <2>5. CASE i # index
    <3>1. height'[i] = height[i] /\ i > index
      BY <2>5, <2>2, <1>2 DEF IndInv, TypeOK, HeightOf
    <3> QED
      BY <2>3, <3>1 DEF IndInv, HeightsRise, HeightOf, Above
  <2> QED
    BY <2>4, <2>5
<1> QED
  BY <1>2, <1>7, <1>8, <1>9, BagAssumption DEF IndInv, HeightOf, bag, ReadIsForward, Forward, Stage, JudgedAlike,
     HeldIsKept, KeptIsFinal, LowestSoFar, ReportsTheCause, OneAnswer, Closed

LEMMA PlannedStep ==
  ASSUME IndInv, Planned
  PROVE  IndInv'
<1>1. split' \in BOOLEAN
  BY DEF IndInv, TypeOK, Planned
<1>2. TypeOK'
  BY <1>1, BagAssumption DEF IndInv, TypeOK, Planned, bag
<1>3. Kept' = {}
  BY DEF Kept, IndInv, TypeOK, Planned
<1>4. held' = {} /\ lowest' = NoCell
  BY DEF IndInv, Stage, Planned
<1>5. HeightsRise' /\ ReadIsForward'
  <2>1. pc = "heights" /\ pc' = "waves" /\ index = -1 /\ UNCHANGED <<refs, height>>
    BY DEF Planned, bag
  <2>2. \A i \in Cells : i > index
    BY <2>1, BagAssumption DEF Cells
  <2>3. \A i \in Cells : Above(i, height[i]) /\ Forward(i)
    BY <2>1, <2>2 DEF IndInv, HeightsRise, ReadIsForward
  <2>4. \A i \in Cells : Above(i, height[i])' /\ Forward(i)'
    BY <2>1, <2>3 DEF Above, Forward
  <2> QED
    BY <2>1, <2>4 DEF HeightsRise, ReadIsForward
<1>6. HeldIsKept' /\ KeptIsFinal' /\ LowestSoFar'
  BY <1>3, <1>4 DEF HeldIsKept, KeptIsFinal, LowestSoFar, KeptCauses
<1> QED
  BY <1>2, <1>5, <1>6 DEF IndInv, Planned, bag, HeightBound, Stage, JudgedAlike, ReportsTheCause, OneAnswer, Closed

(* No cell of the wave, and none above it, is a child of a cell it holds. *)
LEMMA NotYetAChild ==
  ASSUME TypeOK, HeightsRise, pc \in {"waves", "run"}, NEW i \in Cells, NEW j \in Cells,
         height[j] <= wave, height[i] >= wave
  PROVE  i \notin refs[j]
<1>1. height[i] \in Int /\ height[j] \in Int /\ wave \in Int
  BY DEF TypeOK
<1>2. Above(j, height[j])
  BY DEF HeightsRise
<1> QED
  BY <1>1, <1>2 DEF Above

(* Keeping more cells of the wave does not change a verdict already reached. *)
LEMMA VerdictStands ==
  ASSUME TypeOK, HeightsRise, pc \in {"waves", "run"}, NEW j \in Cells, height[j] <= wave,
         NEW more \in SUBSET Wave(wave)
  PROVE  refs[j] \subseteq held \cup more <=> refs[j] \subseteq held
<1>1. \A i \in more : i \in Cells /\ height[i] >= wave
  BY DEF Wave, TypeOK
<1>2. \A i \in more : i \notin refs[j]
  BY <1>1, NotYetAChild
<1> QED
  BY <1>2

(* While the waves run, what was read of the bag stands and nothing is answered. *)
LEMMA WavesLeave ==
  ASSUME IndInv, pc \in {"waves", "run"}, pc' \in {"waves", "run"}, UNCHANGED <<refs, height, result>>
  PROVE  ReadIsForward' /\ HeightsRise' /\ HeightBound' /\ ReportsTheCause' /\ OneAnswer'
<1>1. ReadIsForward'
  BY DEF IndInv, ReadIsForward, Forward
<1>2. HeightsRise' /\ HeightBound'
  BY DEF IndInv, HeightsRise, Above, HeightBound
<1>3. result' = "none"
  BY DEF IndInv, Stage
<1>4. ReportsTheCause' /\ OneAnswer'
  BY <1>3 DEF ReportsTheCause, OneAnswer
<1> QED
  BY <1>1, <1>2, <1>4

LEMMA BeginWaveStep ==
  ASSUME IndInv, BeginWave
  PROVE  IndInv'
<1>1. split' \in BOOLEAN
  BY DEF BeginWave
<1>2. PICK i \in Cells : height[i] >= wave
  BY DEF BeginWave
<1>3. height[i] \in 0..N - 1 /\ wave \in 0..N
  BY DEF IndInv, TypeOK
<1>4. wave < N
  BY <1>2, <1>3, BagAssumption
<1>5. pending' = Wave(wave) /\ Wave(wave) \subseteq Cells
  BY DEF BeginWave, Wave
<1>6. TypeOK'
  BY <1>1, <1>5 DEF IndInv, TypeOK, BeginWave, bag
<1>7. Wave(wave)' = Wave(wave)
  BY DEF Wave, BeginWave
<1>8. Kept' = Kept
  BY <1>5 DEF Kept, Wave, BeginWave
<1>9. JudgedAlike'
  BY <1>5, <1>7 DEF JudgedAlike
<1>10. HeldIsKept' /\ KeptIsFinal' /\ LowestSoFar'
  BY <1>8 DEF IndInv, HeldIsKept, KeptIsFinal, LowestSoFar, KeptCauses, BeginWave, bag
<1>11. Stage'
  BY <1>4, <1>5, <1>7 DEF IndInv, BeginWave, Stage
<1>12. ReadIsForward' /\ HeightsRise' /\ HeightBound' /\ ReportsTheCause' /\ OneAnswer'
  BY WavesLeave DEF BeginWave, bag
<1> QED
  BY <1>6, <1>9, <1>10, <1>11, <1>12 DEF IndInv

LEMMA JudgeStep ==
  ASSUME IndInv, Judge
  PROVE  IndInv'
<1> PICK i \in pending : /\ pending' = pending \ {i}
                         /\ outcome' = [outcome EXCEPT ![i] = one(i)]
  BY Zenon DEF Judge
<1>1. split' \in BOOLEAN
  BY DEF IndInv, TypeOK, Judge
<1>2. one(i) \in Outcomes /\ i \in Cells
  BY DEF one, Outcomes, IndInv, TypeOK
<1>3. TypeOK'
  BY <1>1, <1>2 DEF IndInv, TypeOK, Judge, bag
<1>4. Kept' = Kept /\ Wave(wave)' = Wave(wave)
  BY DEF Kept, Wave, Judge
<1>5. JudgedAlike'
  <2> SUFFICES ASSUME NEW j \in Wave(wave), j \notin pending \ {i} PROVE outcome'[j] = one(j)'
    BY <1>4 DEF JudgedAlike
  <2>1. one(j)' = one(j)
    BY DEF one, Judge, bag
  <2>2. j \in Cells
    BY DEF Wave
  <2>3. CASE j = i
    BY <2>1, <2>3, <1>2 DEF IndInv, TypeOK
  <2>4. CASE j # i
    BY <2>1, <2>2, <2>4 DEF IndInv, TypeOK, JudgedAlike, Judge
  <2> QED
    BY <2>3, <2>4
<1>6. HeldIsKept' /\ KeptIsFinal' /\ LowestSoFar'
  BY <1>4 DEF IndInv, HeldIsKept, KeptIsFinal, LowestSoFar, KeptCauses, Judge, bag
<1>7. Stage'
  BY <1>4 DEF IndInv, Judge, Stage
<1>8. ReadIsForward' /\ HeightsRise' /\ HeightBound' /\ ReportsTheCause' /\ OneAnswer'
  BY WavesLeave DEF Judge, bag
<1> QED
  BY <1>3, <1>5, <1>6, <1>7, <1>8 DEF IndInv

LEMMA EndWaveStep ==
  ASSUME IndInv, EndWave
  PROVE  IndInv'
<1>1. split' \in BOOLEAN
  BY DEF IndInv, TypeOK, EndWave
<1>2. wave \in 0..N - 1 /\ wave' = wave + 1
  BY BagAssumption DEF IndInv, TypeOK, Stage, EndWave
<1>3. TypeOK'
  BY <1>1, <1>2, BagAssumption DEF IndInv, TypeOK, EndWave, bag
<1>4. Kept' = Kept
  <2>1. \A i \in Cells : height[i] \in Int
    BY DEF IndInv, TypeOK
  <2>2. \A i \in Cells : height[i] < wave + 1 <=> (height[i] < wave \/ height[i] = wave)
    BY <1>2, <2>1
  <2> QED
    BY <1>2, <2>2 DEF Kept, EndWave
<1>5. HeldIsKept' /\ KeptIsFinal' /\ LowestSoFar'
  BY <1>4 DEF IndInv, HeldIsKept, KeptIsFinal, LowestSoFar, KeptCauses, EndWave, bag
<1>6. Stage' /\ JudgedAlike'
  BY DEF IndInv, EndWave, Stage, JudgedAlike
<1>7. ReadIsForward' /\ HeightsRise' /\ HeightBound' /\ ReportsTheCause' /\ OneAnswer'
  BY WavesLeave DEF EndWave, bag
<1> QED
  BY <1>3, <1>5, <1>6, <1>7 DEF IndInv

(* Keeping some cells of the wave that are not kept yet. *)
LEMMA Keeping ==
  ASSUME IndInv, pc = "run", NEW M \in SUBSET Wave(wave), M \cap Kept = {},
         NEW held1, held1 = held \cup {i \in M : one(i) = "value"}
  PROVE  /\ held1 \subseteq Kept \cup M
         /\ \A j \in Kept \cup M : j \in held1 <=> (j \notin bad /\ refs[j] \subseteq held1)
         /\ {j \in (Kept \cup M) \cap bad : refs[j] \subseteq held1}
              = KeptCauses \cup {i \in M : one(i) = "error"}
<1>1. held \subseteq Kept
  BY DEF IndInv, HeldIsKept
<1>2. \A j \in Kept \cup M : j \in Cells /\ height[j] <= wave
  BY DEF IndInv, TypeOK, Kept, Wave
<1> DEFINE more == {i \in M : one(i) = "value"}
<1>3. more \in SUBSET Wave(wave)
  OBVIOUS
<1>4. \A j \in Kept \cup M : refs[j] \subseteq held1 <=> refs[j] \subseteq held
  BY <1>2, <1>3, VerdictStands DEF IndInv
<1>5. \A j \in Kept : j \in held <=> (j \notin bad /\ refs[j] \subseteq held)
  BY DEF IndInv, KeptIsFinal
<1>6. \A j \in M : /\ one(j) = "value" <=> (j \notin bad /\ refs[j] \subseteq held)
                   /\ one(j) = "error" <=> (j \in bad /\ refs[j] \subseteq held)
  BY DEF one
<1>7. \A j \in Kept \cup M : j \in held1 <=> (j \notin bad /\ refs[j] \subseteq held1)
  BY <1>1, <1>4, <1>5, <1>6
<1>8. {j \in (Kept \cup M) \cap bad : refs[j] \subseteq held1}
        = KeptCauses \cup {i \in M : one(i) = "error"}
  <2>1. bad \subseteq Cells
    BY DEF IndInv, TypeOK
  <2> QED
    BY <1>4, <1>6, <2>1 DEF KeptCauses
<1> QED
  BY <1>1, <1>7, <1>8

LEMMA RunHereStep ==
  ASSUME IndInv, RunHere
  PROVE  IndInv'
<1> PICK i \in pending :
      /\ \A j \in pending : i <= j
      /\ pending' = pending \ {i}
      /\ held' = IF one(i) = "value" THEN held \cup {i} ELSE held
      /\ lowest' = IF one(i) = "error" THEN Lower(lowest, i) ELSE lowest
  BY DEF RunHere
<1>1. i \in Wave(wave) /\ i \in Cells /\ i \notin Kept
  BY DEF IndInv, TypeOK, Stage, RunHere, Kept, Wave
<1>2. lowest \in 0..N /\ i \in 0..N - 1 /\ lowest' \in 0..N
  BY <1>1, BagAssumption DEF IndInv, TypeOK, Lower, Cells
<1>3. split' \in BOOLEAN
  BY DEF IndInv, TypeOK, RunHere
<1>4. TypeOK'
  BY <1>1, <1>2, <1>3 DEF IndInv, TypeOK, RunHere, bag
<1> DEFINE M == {i}
<1>5. held' = held \cup {k \in M : one(k) = "value"}
  OBVIOUS
<1>6. Kept' = Kept \cup M
  BY <1>1 DEF IndInv, TypeOK, Kept, Wave, RunHere
<1>7. pc = "run" /\ pc' = "run" /\ UNCHANGED <<refs, bad>> /\ M \in SUBSET Wave(wave) /\ M \cap Kept = {}
  BY <1>1 DEF RunHere, bag
<1>8. /\ held' \subseteq Kept \cup M
      /\ \A j \in Kept \cup M : j \in held' <=> (j \notin bad /\ refs[j] \subseteq held')
      /\ {j \in (Kept \cup M) \cap bad : refs[j] \subseteq held'}
           = KeptCauses \cup {k \in M : one(k) = "error"}
  BY <1>5, <1>7, Keeping, Zenon
<1>9. HeldIsKept' /\ KeptIsFinal'
  BY <1>6, <1>7, <1>8 DEF HeldIsKept, KeptIsFinal
<1>10. KeptCauses' = KeptCauses \cup {k \in M : one(k) = "error"}
  BY <1>6, <1>7, <1>8 DEF KeptCauses
<1>11. LowestSoFar'
  <2>1. lowest = NoCell \/ lowest \in KeptCauses
    BY <1>7 DEF IndInv, LowestSoFar
  <2>2. \A k \in KeptCauses : lowest <= k /\ k \in 0..N - 1
    BY <1>7 DEF IndInv, LowestSoFar, KeptCauses, Kept, Cells
  <2>3. CASE one(i) = "error"
    <3>1. KeptCauses' = KeptCauses \cup {i}
      BY <1>10, <2>3
    <3>2. lowest' = lowest \/ lowest' = i
      BY <2>3 DEF Lower
    <3>3. lowest' <= lowest /\ lowest' <= i
      BY <1>2, <2>3 DEF Lower
    <3>4. lowest' = NoCell \/ lowest' \in KeptCauses'
      BY <2>1, <3>1, <3>2
    <3>5. \A k \in KeptCauses' : lowest' <= k
      BY <1>2, <2>2, <3>1, <3>3, BagAssumption
    <3> QED
      BY <3>4, <3>5 DEF LowestSoFar, NoCell
  <2>4. CASE one(i) # "error"
    <3>1. KeptCauses' = KeptCauses /\ lowest' = lowest
      BY <1>10, <2>4
    <3> QED
      BY <2>1, <2>2, <3>1 DEF LowestSoFar, NoCell
  <2> QED
    BY <2>3, <2>4
<1>12. Stage'
  BY DEF IndInv, Stage, RunHere, Wave
<1>13. JudgedAlike'
  BY DEF RunHere, JudgedAlike
<1>14. ReadIsForward' /\ HeightsRise' /\ HeightBound' /\ ReportsTheCause' /\ OneAnswer'
  BY WavesLeave DEF RunHere, bag
<1> QED
  BY <1>4, <1>9, <1>11, <1>12, <1>13, <1>14 DEF IndInv

LEMMA JoinStep ==
  ASSUME IndInv, Join
  PROVE  IndInv'
<1> DEFINE M == Wave(wave)
<1>1. pc = "run" /\ pc' = "run" /\ split /\ pending = {} /\ UNCHANGED <<bag, index, height, wave, pending, outcome, result>>
  BY DEF Join
<1>2. \A i \in M : outcome[i] = one(i)
  BY <1>1 DEF IndInv, JudgedAlike
<1>3. held' = held \cup {k \in M : one(k) = "value"}
  BY <1>2 DEF Join
<1>4. Errors = {k \in M : one(k) = "error"}
  BY <1>2 DEF Errors
<1>5. M \cap Kept = {} /\ M \subseteq Cells
  BY <1>1 DEF IndInv, TypeOK, Kept, Wave
<1>6. Kept' = Kept \cup M
  <2>1. split' = FALSE
    BY DEF Join
  <2> QED
    BY <1>1, <2>1 DEF Kept, Wave
<1>7. /\ held' \subseteq Kept \cup M
      /\ \A j \in Kept \cup M : j \in held' <=> (j \notin bad /\ refs[j] \subseteq held')
      /\ {j \in (Kept \cup M) \cap bad : refs[j] \subseteq held'}
           = KeptCauses \cup {k \in M : one(k) = "error"}
  <2>1. M \in SUBSET Wave(wave) /\ pc = "run"
    BY <1>1
  <2>2. M \cap Kept = {} /\ IndInv
    BY <1>5
  <2> QED
    BY <1>3, <2>1, <2>2, Keeping
<1>8. HeldIsKept' /\ KeptIsFinal'
  BY <1>1, <1>6, <1>7 DEF HeldIsKept, KeptIsFinal, bag
<1>9. KeptCauses' = KeptCauses \cup Errors
  BY <1>1, <1>4, <1>6, <1>7 DEF KeptCauses, bag
<1>10. lowest = NoCell \/ lowest \in KeptCauses
  BY <1>1 DEF IndInv, LowestSoFar
<1>11. \A k \in KeptCauses : lowest <= k /\ k \in 0..N - 1
  BY <1>1 DEF IndInv, LowestSoFar, KeptCauses, Kept, Cells
<1>12. lowest \in 0..N /\ Errors \in SUBSET Cells /\ Errors \in SUBSET Nat
  BY <1>5, BagAssumption DEF IndInv, TypeOK, Errors, Cells
<1>13. LowestSoFar' /\ lowest' \in 0..N
  <2>1. CASE Errors = {}
    <3>1. lowest' = lowest /\ KeptCauses' = KeptCauses
      BY <1>9, <2>1 DEF Join
    <3> QED
      BY <1>10, <1>11, <1>12, <3>1 DEF LowestSoFar, NoCell
  <2>2. CASE Errors # {}
    <3> DEFINE i == CHOOSE i \in Errors : \A j \in Errors : i <= j
    <3>1. i \in Errors /\ \A j \in Errors : i <= j
      BY <1>12, <2>2, Least, Zenon
    <3>2. lowest' = Lower(lowest, i)
      BY <2>2 DEF Join
    <3>3. i \in 0..N - 1
      BY <1>12, <3>1, Zenon DEF Cells
    <3> HIDE DEF i
    <3>4. (lowest' = lowest \/ lowest' = i) /\ lowest' <= lowest /\ lowest' <= i
      BY <1>12, <3>2, <3>3 DEF Lower
    <3>5. lowest' \in 0..N
      BY <1>12, <3>3, <3>4, BagAssumption
    <3>6. lowest' = NoCell \/ lowest' \in KeptCauses'
      BY <1>9, <1>10, <3>1, <3>4
    <3>7. \A k \in KeptCauses : lowest' <= k
      BY <1>11, <1>12, <3>4, <3>5
    <3>8. \A k \in Errors : lowest' <= k
      BY <1>12, <3>1, <3>3, <3>4, <3>5
    <3> QED
      BY <1>9, <3>5, <3>6, <3>7, <3>8 DEF LowestSoFar, NoCell
  <2> QED
    BY <2>1, <2>2
<1>14. TypeOK'
  <2>1. split' \in BOOLEAN
    BY Zenon DEF Join
  <2>2. held' \subseteq Cells
    BY <1>3, <1>5 DEF IndInv, TypeOK
  <2> QED
    BY <1>1, <1>13, <2>1, <2>2 DEF IndInv, TypeOK, bag
<1>15. JudgedAlike' /\ Stage'
  BY <1>1 DEF IndInv, Join, JudgedAlike, Stage, Wave
<1>16. ReadIsForward' /\ HeightsRise' /\ HeightBound' /\ ReportsTheCause' /\ OneAnswer'
  BY <1>1, WavesLeave DEF bag
<1> QED
  BY <1>8, <1>13, <1>14, <1>15, <1>16 DEF IndInv

(* Two sets that are closed differ nowhere: at the last cell they differ on   *)
(* they agree on its children.                                                *)
LEMMA ClosedIsUnique ==
  ASSUME TypeOK, \A i \in Cells : Forward(i),
         NEW G \in SUBSET Cells, NEW H \in SUBSET Cells, Closed(G), Closed(H)
  PROVE  G = H
<1> DEFINE D == {i \in Cells : i \in G <=> i \notin H}
<1>1. ASSUME D # {} PROVE FALSE
  <2>1. PICK i \in D : \A j \in D : j <= i
    BY <1>1, Greatest, Zenon
  <2>2. \A t \in refs[i] : t \in Cells /\ t \notin D
    <3> SUFFICES ASSUME NEW t \in refs[i] PROVE t \in Cells /\ t \notin D
      OBVIOUS
    <3>1. t \in 0..N /\ t < N /\ t > i
      BY DEF Forward, TypeOK
    <3>2. t \in Cells
      BY <3>1, BagAssumption DEF Cells
    <3>3. i \in 0..N - 1
      BY DEF Cells
    <3> QED
      BY <2>1, <3>1, <3>2, <3>3, BagAssumption
  <2>3. refs[i] \subseteq G <=> refs[i] \subseteq H
    BY <2>2
  <2> QED
    BY <2>3 DEF Closed
<1> QED
  BY <1>1

LEMMA DoneStep ==
  ASSUME IndInv, Done
  PROVE  IndInv'
<1>1. /\ pc = "waves" /\ \A i \in Cells : height[i] < wave
      /\ UNCHANGED <<bag, index, height, wave, pending, split, outcome, held, lowest>>
      /\ pc' = "done" /\ result' = IF lowest # NoCell THEN "lowest" ELSE "roots"
  BY DEF Done, Finish
<1>2. Kept = Cells
  BY <1>1 DEF Kept
<1>3. Closed(held)
  BY <1>1, <1>2 DEF IndInv, KeptIsFinal, Closed
<1>4. KeptCauses = Causes
  BY <1>2 DEF KeptCauses, Causes, IndInv, TypeOK
<1>5. \A i \in Cells : Forward(i)
  BY <1>1 DEF IndInv, ReadIsForward
<1>6. OneAnswer'
  <2>1. \A H \in SUBSET Cells : Closed(H) => H = held
    BY <1>3, <1>5, ClosedIsUnique DEF IndInv, TypeOK
  <2> QED
    BY <1>1, <1>3, <2>1 DEF OneAnswer, Closed, bag
<1>7. ReportsTheCause'
  <2>1. CASE lowest # NoCell
    BY <1>1, <1>4, <2>1 DEF IndInv, LowestSoFar, ReportsTheCause, Causes, bag
  <2>2. CASE lowest = NoCell
    <3>1. Causes = {}
      <4>1. \A i \in Causes : N <= i /\ i \in 0..N - 1
        BY <1>1, <1>4, <2>2 DEF IndInv, LowestSoFar, Causes, TypeOK, Cells, NoCell
      <4> QED
        BY <4>1, BagAssumption
    <3>2. Cells \ held = {}
      <4> SUFFICES ASSUME Cells \ held # {} PROVE FALSE
        OBVIOUS
      <4>1. PICK i \in Cells \ held : \A j \in Cells \ held : j <= i
        BY Greatest, Zenon
      <4>2. ASSUME NEW t \in refs[i] PROVE t \in held
        <5>1. t \in 0..N /\ t < N /\ t > i
          BY <1>5, <4>1 DEF Forward, IndInv, TypeOK
        <5>2. t \in Cells /\ i \in 0..N - 1
          BY <4>1, <5>1, BagAssumption DEF Cells
        <5> QED
          BY <4>1, <5>1, <5>2, BagAssumption
      <4>3. refs[i] \subseteq held
        BY <4>2
      <4> QED
        BY <1>3, <3>1, <4>1, <4>3 DEF Closed, Causes
    <3>3. held = Cells
      BY <3>2, Zenon DEF IndInv, TypeOK
    <3>4. bad = {}
      BY <1>3, <3>3 DEF Closed, IndInv, TypeOK
    <3> QED
      BY <1>1, <2>2, <3>3, <3>4 DEF ReportsTheCause, bag
  <2> QED
    BY <2>1, <2>2
<1>8. TypeOK'
  <2>1. split' \in BOOLEAN
    BY <1>1 DEF IndInv, TypeOK
  <2>2. result' \in Results
    BY <1>1 DEF Results
  <2> QED
    BY <1>1, <2>1, <2>2 DEF IndInv, TypeOK, bag
<1> QED
  BY <1>1, <1>6, <1>7, <1>8 DEF IndInv, ReadIsForward, HeightsRise, HeightBound, Stage, JudgedAlike, HeldIsKept,
     KeptIsFinal, LowestSoFar

LEMMA NextInd == IndInv /\ [Next]_vars => IndInv'
<1> SUFFICES ASSUME IndInv, [Next]_vars PROVE IndInv'
  OBVIOUS
<1>1. CASE ReadFails
  BY <1>1, FinishStep DEF ReadFails, Results
<1>2. CASE TooDeep
  BY <1>2, FinishStep DEF TooDeep, Results
<1>3. CASE UNCHANGED vars
  <2>1. split' \in BOOLEAN
    BY <1>3 DEF IndInv, TypeOK, vars
  <2>2. TypeOK'
    BY <1>3, <2>1 DEF IndInv, TypeOK, vars
  <2>3. Kept' = Kept /\ KeptCauses' = KeptCauses /\ Wave(wave)' = Wave(wave)
    BY <1>3 DEF Kept, KeptCauses, Wave, vars
  <2>4. JudgedAlike'
    BY <1>3, <2>3 DEF IndInv, JudgedAlike, one, vars
  <2>5. HeldIsKept' /\ KeptIsFinal' /\ LowestSoFar' /\ Stage'
    BY <1>3, <2>3 DEF IndInv, HeldIsKept, KeptIsFinal, LowestSoFar, Stage, vars
  <2>6. ReadIsForward' /\ HeightsRise' /\ HeightBound'
    BY <1>3 DEF IndInv, ReadIsForward, Forward, HeightsRise, Above, HeightBound, vars
  <2> QED
    BY <1>3, <2>2, <2>4, <2>5, <2>6 DEF IndInv, ReportsTheCause, Causes, OneAnswer, Closed, vars
<1> QED
  BY <1>1, <1>2, <1>3, ReadCellStep, HeightOfStep, PlannedStep, BeginWaveStep, RunHereStep, JudgeStep, JoinStep,
     EndWaveStep, DoneStep DEF Next

LEMMA Invariant == Spec => []IndInv
<1>1. Init => IndInv
  BY InitInd
<1>2. IndInv /\ [Next]_vars => IndInv'
  BY NextInd
<1> QED
  BY <1>1, <1>2, PTL DEF Spec

(* Every variable of the pass keeps its type, for every bag. *)
THEOREM BocTypeCorrect == Spec => []TypeOK
<1>1. IndInv => TypeOK
  BY DEF IndInv
<1> QED
  BY <1>1, Invariant, PTL

(* What is kept of a cell stays right as the pass goes on: the waves finish   *)
(* every child before the cells that reference it (Waves, parse.rs:254-258).  *)
THEOREM KeptStaysRight == Spec => []KeptIsFinal
<1>1. IndInv => KeptIsFinal
  BY DEF IndInv
<1> QED
  BY <1>1, Invariant, PTL

(* The failure reported is a cause, the lowest of them, and the roots are     *)
(* returned only of a bag sound whole (Lowest, parse.rs:186-198).             *)
THEOREM LowestCauseReported == Spec => []ReportsTheCause
<1>1. IndInv => ReportsTheCause
  BY DEF IndInv
<1> QED
  BY <1>1, Invariant, PTL

(* The order is not visible in what is left behind (run_wave, parse.rs:459-464): *)
(* what a finished pass holds is the one set of cells the bag allows, whatever   *)
(* the threads, their number and their order.                                    *)
THEOREM OrderIsInvisible == Spec => []OneAnswer
<1>1. IndInv => OneAnswer
  BY DEF IndInv
<1> QED
  BY <1>1, Invariant, PTL
-----------------------------------------------------------------------------
(* The lazy reader.                                                          *)


(* The references of a bag that has been read. *)
ForwardBag == /\ refs \in [Cells -> SUBSET Cells] /\ \A i \in Cells : \A t \in refs[i] : t > i
           /\ bad \in SUBSET Cells

(* The least and the greatest of some cells. *)
LEMMA LeastCell ==
  ASSUME NEW T \in SUBSET Cells, T # {}
  PROVE  /\ \E x \in T : \A y \in T : x <= y
         /\ \E x \in T : \A y \in T : y <= x
<1>1. T \in SUBSET Nat
  BY DEF Cells
<1> QED
  BY <1>1, Least, Greatest

-----------------------------------------------------------------------------
(* Reach: the walk's recursion has a solution, and it is the least set that *)
(* holds the start and what its cells of U reference in U.                  *)

Grows(i, U, S) ==
  \A p \in Cells : p \in U /\ (p = i \/ \E q \in Cells : q \in S /\ p \in refs[q]) => p \in S

LEMMA ReachIs ==
  ASSUME ForwardBag, NEW i, NEW U
  PROVE  /\ Reach(i, U) \subseteq Cells \cap U
         /\ \A p \in Cells : p \in Reach(i, U) <=>
               p \in U /\ (p = i \/ \E q \in Cells : q \in Reach(i, U) /\ p \in refs[q])
         /\ \A S \in SUBSET Cells : Grows(i, U, S) => Reach(i, U) \subseteq S
<1> DEFINE Step(S, p) == p \in U /\ (p = i \/ \E q \in 0..p - 1 : q \in S /\ p \in refs[q])
           Walks(g) == g = [p \in Cells |-> p \in U /\ (p = i \/ \E q \in 0..p - 1 : g[q] /\ p \in refs[q])]
           L == {p \in Cells : \A S \in SUBSET Cells : (\A r \in Cells : Step(S, r) => r \in S) => p \in S}
           first == [p \in Cells |-> p \in L]
<1>1. \A p \in Cells : p \in Nat /\ \A q \in 0..p - 1 : q \in Cells
  BY BagAssumption DEF Cells
<1>2. \A p \in Cells : Step(L, p) => p \in L
  <2> SUFFICES ASSUME NEW p \in Cells, Step(L, p), NEW S \in SUBSET Cells,
                      \A r \in Cells : Step(S, r) => r \in S
               PROVE  p \in S
    OBVIOUS
  <2>1. L \subseteq S
    OBVIOUS
  <2> HIDE DEF L
  <2> QED
    BY <2>1
<1>3. \A p \in L : Step(L, p)
  <2> DEFINE S == {p \in L : Step(L, p)}
  <2>1. S \in SUBSET Cells
    OBVIOUS
  <2>2. \A r \in Cells : Step(S, r) => r \in S
    <3> SUFFICES ASSUME NEW r \in Cells, Step(S, r) PROVE r \in S
      OBVIOUS
    <3>1. S \subseteq L
      OBVIOUS
    <3>2. Step(L, r)
      <4> HIDE DEF S, L
      <4> QED
        BY <3>1
    <3>3. r \in L
      BY <1>2, <3>2
    <3> HIDE DEF L
    <3> QED
      BY <3>2, <3>3
  <2>3. L \subseteq S
    <3> HIDE DEF S
    <3> QED
      BY <2>1, <2>2
  <2> QED
    BY <2>3
<1>4. Walks(first)
  <2> HIDE DEF L
  <2>1. \A p \in Cells : first[p] = (p \in L)
    OBVIOUS
  <2>2. L \subseteq Cells
    BY DEF L
  <2> HIDE DEF first
  <2>3. \A p \in Cells : (p \in L) <=> (p \in U /\ (p = i \/ \E q \in 0..p - 1 : first[q] /\ p \in refs[q]))
    BY <1>1, <1>2, <1>3, <2>1, Zenon
  <2>4. first = [p \in Cells |-> p \in L]
    BY DEF first
  <2>5. [p \in Cells |-> p \in L]
          = [p \in Cells |-> p \in U /\ (p = i \/ \E q \in 0..p - 1 : first[q] /\ p \in refs[q])]
    BY <2>3, SMT
  <2> QED
    BY <2>4, <2>5
<1> DEFINE g == CHOOSE g : Walks(g)
           R == {p \in Cells : g[p]}
<1>5. Reach(i, U) = R
  BY Zenon DEF Reach
<1>6. Walks(g)
  <2> HIDE DEF Walks, first
  <2> QED
    BY <1>4
<1> HIDE DEF g
<1>7. \A p \in Cells : g[p] <=> p \in U /\ (p = i \/ \E q \in 0..p - 1 : g[q] /\ p \in refs[q])
  BY <1>6, Zenon
<1> HIDE DEF Walks
<1>8. \A p \in Cells : p \in R <=> p \in U /\ (p = i \/ \E q \in 0..p - 1 : q \in R /\ p \in refs[q])
  BY <1>1, <1>7
<1>9. \A p \in Cells : \A q \in Cells : p \in refs[q] => q \in 0..p - 1
  BY BagAssumption DEF ForwardBag, Cells
<1> HIDE DEF R
<1>10. \A p \in Cells : p \in R <=> p \in U /\ (p = i \/ \E q \in Cells : q \in R /\ p \in refs[q])
  BY <1>1, <1>8, <1>9
<1>11. R \subseteq Cells \cap U
  BY <1>10 DEF R
<1>12. ASSUME NEW S \in SUBSET Cells, Grows(i, U, S) PROVE R \subseteq S
  <2> SUFFICES ASSUME R \ S # {} PROVE FALSE
    OBVIOUS
  <2>1. PICK p \in R \ S : \A r \in R \ S : p <= r
    BY <1>11, LeastCell, Zenon
  <2>2. p \in Cells /\ p \in U /\ (p = i \/ \E q \in Cells : q \in R /\ p \in refs[q])
    BY <1>10, <1>11, <2>1
  <2>3. ASSUME NEW q \in Cells, q \in R, p \in refs[q] PROVE q \in S
    <3>1. q \in Nat /\ p \in Nat /\ q < p
      BY <1>1, <1>9, <2>2, <2>3
    <3> QED
      BY <2>1, <2>3, <3>1
  <2> QED
    BY <1>12, <2>1, <2>2, <2>3 DEF Grows
<1> QED
  BY <1>5, <1>10, <1>11, <1>12

-----------------------------------------------------------------------------
(* Subtrees.                                                                *)

LEMMA SubtreeIs ==
  ASSUME ForwardBag, NEW i \in Cells
  PROVE  /\ i \in Subtree(i) /\ Subtree(i) \subseteq Cells
         /\ \A q \in Subtree(i) : refs[q] \subseteq Subtree(i)
         /\ \A S \in SUBSET Cells : i \in S /\ (\A q \in S : refs[q] \subseteq S) => Subtree(i) \subseteq S
<1> DEFINE T == Reach(i, Cells)
<1>1. /\ T \subseteq Cells
      /\ \A p \in Cells : p \in T <=> p \in Cells /\ (p = i \/ \E q \in Cells : q \in T /\ p \in refs[q])
      /\ \A S \in SUBSET Cells : Grows(i, Cells, S) => T \subseteq S
  BY ReachIs
<1> HIDE DEF T
<1>2. \A q \in T : refs[q] \subseteq T
  BY <1>1 DEF ForwardBag
<1>3. ASSUME NEW S \in SUBSET Cells, i \in S, \A q \in S : refs[q] \subseteq S PROVE T \subseteq S
  BY <1>1, <1>3 DEF Grows
<1>4. Subtree(i) = T
  BY DEF Subtree, T
<1> QED
  BY <1>1, <1>2, <1>3, <1>4

(* A cell reaches itself and what its references reach, and nothing before   *)
(* it, so no cell is under itself.                                           *)
LEMMA SubtreeUnfolds ==
  ASSUME ForwardBag, NEW i \in Cells
  PROVE  /\ \A p \in Cells : p \in Subtree(i) <=> p = i \/ \E t \in refs[i] : p \in Subtree(t)
         /\ \A t \in refs[i] : i \notin Subtree(t)
<1>1. refs[i] \subseteq Cells /\ \A t \in refs[i] : t > i
  BY DEF ForwardBag
<1>2. ASSUME NEW t \in refs[i] PROVE Subtree(t) \subseteq Subtree(i)
  BY <1>1, SubtreeIs
<1> DEFINE S == {p \in Cells : p = i \/ \E t \in refs[i] : p \in Subtree(t)}
<1>3. ASSUME NEW q \in S PROVE refs[q] \subseteq S
  <2>1. CASE q = i
    BY <1>1, <2>1, SubtreeIs
  <2>2. ASSUME NEW t \in refs[i], q \in Subtree(t) PROVE refs[q] \subseteq S
    <3>1. refs[q] \subseteq Subtree(t) /\ Subtree(t) \subseteq Cells
      BY <1>1, <2>2, SubtreeIs
    <3> QED
      BY <3>1
  <2> QED
    BY <2>1, <2>2
<1>4. Subtree(i) \subseteq S
  <2>1. i \in S /\ S \in SUBSET Cells
    OBVIOUS
  <2> HIDE DEF S
  <2> QED
    BY <1>3, <2>1, SubtreeIs
<1>5. ASSUME NEW t \in refs[i], i \in Subtree(t) PROVE FALSE
  <2> DEFINE A == {p \in Cells : p >= t}
  <2>1. t \in A /\ A \in SUBSET Cells
    BY <1>1 DEF Cells
  <2>2. \A q \in A : refs[q] \subseteq A
    BY <1>1 DEF ForwardBag, Cells
  <2>3. i \notin A
    BY <1>1 DEF Cells
  <2> HIDE DEF A
  <2> QED
    BY <1>1, <1>5, <2>1, <2>2, <2>3, SubtreeIs
<1> QED
  BY <1>2, <1>4, <1>5, SubtreeIs

(* Everything the cell reaches builds. *)
Sound(i) == Subtree(i) \cap bad = {}

LEMMA SoundUnfolds ==
  ASSUME ForwardBag, NEW i \in Cells
  PROVE  Sound(i) <=> i \notin bad /\ \A t \in refs[i] : Sound(t)
<1>1. bad \subseteq Cells /\ \A t \in refs[i] : t \in Cells
  BY DEF ForwardBag
<1> QED
  BY <1>1, SubtreeUnfolds DEF Sound

-----------------------------------------------------------------------------
(* What the reader keeps between calls.                                     *)

Builds == [built : SUBSET Cells, seen : [Cells -> Nat], generation : 0..MAX_GENERATION,
           kept : Nat, builds : Nat]

(* No mark is of a walk to come, and what is kept is kept whole, sound and  *)
(* counted once.                                                            *)
Keeps(b) ==
  /\ b \in Builds
  /\ \A i \in Cells : b.seen[i] <= b.generation
  /\ \A i \in b.built : refs[i] \subseteq b.built
  /\ b.built \cap bad = {}
  /\ b.builds = b.kept /\ b.kept = Cardinality(b.built)

(* A new walk finds no cell marked as its own, wherever the counter wraps.  *)
LEMMA WalkOpens ==
  ASSUME NEW b, Keeps(b)
  PROVE  /\ Keeps(open_walk(b)) /\ open_walk(b).built = b.built
         /\ \A p \in Cells : open_walk(b).seen[p] # open_walk(b).generation
<1>1. CASE b.generation < MAX_GENERATION
  <2> DEFINE o == [b EXCEPT !.generation = @ + 1]
  <2>1. open_walk(b) = o
    BY <1>1 DEF open_walk
  <2>2. /\ o \in Builds /\ o.built = b.built /\ o.seen = b.seen /\ o.generation = b.generation + 1
        /\ o.kept = b.kept /\ o.builds = b.builds
    BY <1>1, LazyAssumption DEF Keeps, Builds
  <2>3. \A i \in Cells : o.seen[i] \in Nat /\ o.seen[i] < o.generation
    BY <2>2, BagAssumption DEF Keeps, Builds
  <2> HIDE DEF o
  <2>4. o.generation \in Nat
    BY <2>2, BagAssumption DEF Keeps, Builds
  <2>5. Keeps(o)
    BY <2>2, <2>3, <2>4 DEF Keeps
  <2> QED
    BY <2>1, <2>2, <2>3, <2>4, <2>5
<1>2. CASE ~(b.generation < MAX_GENERATION)
  <2> DEFINE clear == [i \in Cells |-> 0]
             o == [b EXCEPT !.generation = 1, !.seen = clear]
  <2>1. open_walk(b) = o
    BY <1>2 DEF open_walk
  <2>2. clear \in [Cells -> Nat] /\ \A i \in Cells : clear[i] = 0
    OBVIOUS
  <2> HIDE DEF clear
  <2>3. /\ o \in Builds /\ o.built = b.built /\ o.generation = 1 /\ o.kept = b.kept
        /\ o.builds = b.builds /\ \A i \in Cells : o.seen[i] = 0
    <3>1. b \in Builds /\ 1 \in 0..MAX_GENERATION
      BY LazyAssumption DEF Keeps
    <3>2. /\ o.built = b.built /\ o.generation = 1 /\ o.kept = b.kept
          /\ o.builds = b.builds /\ o.seen = clear
      BY <3>1 DEF Builds
    <3>3. o \in Builds
      BY <2>2, <3>1, Zenon DEF Builds
    <3> QED
      BY <2>2, <3>2, <3>3
  <2> HIDE DEF o
  <2>4. Keeps(o)
    BY <2>3 DEF Keeps
  <2> QED
    BY <2>1, <2>3, <2>4
<1> QED
  BY <1>1, <1>2

(* The walk collects what is reached and not built: below a built cell      *)
(* everything is built.                                                     *)
LEMMA OrderIs ==
  ASSUME ForwardBag, NEW b, Keeps(b), \A p \in Cells : b.seen[p] # b.generation,
         NEW i \in Cells
  PROVE  i \notin b.built => Order(b, i) = Subtree(i) \ b.built
<1> SUFFICES ASSUME i \notin b.built PROVE Order(b, i) = Subtree(i) \ b.built
  OBVIOUS
<1> DEFINE U == {p \in Cells : Unreached(b, p)}
           R == Reach(i, U)
<1>1. \A p \in Cells : p \in U <=> p \notin b.built
  BY DEF Unreached
<1>2. Order(b, i) = R
  BY DEF Order
<1> HIDE DEF U
<1>3. /\ R \subseteq Cells \cap U
      /\ \A p \in Cells : p \in R <=> p \in U /\ (p = i \/ \E q \in Cells : q \in R /\ p \in refs[q])
      /\ \A S \in SUBSET Cells : Grows(i, U, S) => R \subseteq S
  BY ReachIs
<1> HIDE DEF R
<1>4. R \subseteq Subtree(i) \ b.built
  <2>1. Subtree(i) \ b.built \in SUBSET Cells
    BY SubtreeIs
  <2>2. Grows(i, U, Subtree(i) \ b.built)
    BY <1>1, SubtreeIs DEF Grows
  <2> QED
    BY <1>3, <2>1, <2>2
<1>5. Subtree(i) \subseteq R \cup b.built
  <2>1. R \cup b.built \in SUBSET Cells
    BY <1>3 DEF Keeps, Builds
  <2>2. i \in R
    BY <1>1, <1>3
  <2>3. ASSUME NEW q \in R \cup b.built PROVE refs[q] \subseteq R \cup b.built
    <3>1. CASE q \in b.built
      BY <3>1 DEF Keeps
    <3>2. CASE q \in R
      BY <1>1, <1>3, <3>2 DEF ForwardBag
    <3> QED
      BY <3>1, <3>2
  <2> QED
    BY <2>1, <2>2, <2>3, SubtreeIs, Zenon
<1> QED
  BY <1>2, <1>4, <1>5

(* Built from the highest index down, a cell of the order gets a value       *)
(* exactly when everything it reaches is sound.                              *)
LEMMA HoldingIs ==
  ASSUME ForwardBag, NEW built \in SUBSET Cells, NEW order \in SUBSET Cells,
         \A p \in built : Sound(p), \A p \in order : refs[p] \subseteq order \cup built
  PROVE  \A p \in order \cup built : p \in Holding(built, order) <=> Sound(p)
<1> DEFINE Does(h) == h = [p \in Cells |-> IF p \in order THEN Buildable(p, h) ELSE p \in built]
           H == {p \in Cells : IF p \in order THEN Sound(p) ELSE p \in built}
           first == [p \in Cells |-> p \in H]
<1>1. Does(first)
  <2>1. ASSUME NEW p \in Cells
        PROVE  (p \in H) <=> IF p \in order THEN Buildable(p, first) ELSE p \in built
    <3>1. CASE p \in order
      <4>1. refs[p] \subseteq order \cup built /\ refs[p] \subseteq Cells
        BY <3>1 DEF ForwardBag
      <4>2. \A t \in refs[p] : first[t] <=> t \in H
        BY <4>1, Zenon
      <4>3. \A t \in refs[p] : t \in H <=> Sound(t)
        BY <4>1
      <4> HIDE DEF first
      <4>4. Buildable(p, first) <=> p \notin bad /\ \A t \in refs[p] : Sound(t)
        BY <4>2, <4>3 DEF Buildable
      <4> QED
        BY <3>1, <4>4, SoundUnfolds
    <3> QED
      BY <3>1
  <2>2. first = [p \in Cells |-> p \in H]
    OBVIOUS
  <2> HIDE DEF first, H
  <2>3. \A p \in Cells : Buildable(p, first) \in BOOLEAN
    BY DEF Buildable
  <2>4. [p \in Cells |-> p \in H]
          = [p \in Cells |-> IF p \in order THEN Buildable(p, first) ELSE p \in built]
    BY <2>1, <2>3, SMT DEF Buildable
  <2> QED
    BY <2>2, <2>4
<1> DEFINE h == CHOOSE h : Does(h)
<1>2. Holding(built, order) = {p \in Cells : h[p]}
  BY DEF Holding
<1>3. Does(h)
  <2> HIDE DEF Does, first
  <2> QED
    BY <1>1
<1> HIDE DEF h
<1>4. /\ \A p \in order : h[p] <=> Buildable(p, h)
      /\ \A p \in built \ order : h[p]
  BY <1>3, Zenon
<1> HIDE DEF Does, H
<1> DEFINE Bad == {p \in order \cup built : ~(h[p] <=> Sound(p))}
<1>5. ASSUME Bad # {} PROVE FALSE
  <2>1. PICK p \in Bad : \A q \in Bad : q <= p
    BY <1>5, LeastCell, Zenon
  <2>2. p \in order /\ p \in Cells
    BY <1>4, <2>1
  <2>3. ASSUME NEW t \in refs[p] PROVE h[t] <=> Sound(t)
    <3>1. t \in order \cup built /\ t \in Cells /\ t > p
      BY <2>2 DEF ForwardBag
    <3>2. ~(t <= p)
      BY <2>2, <3>1 DEF Cells
    <3> QED
      BY <2>1, <3>1, <3>2
  <2>4. h[p] <=> p \notin bad /\ \A t \in refs[p] : Sound(t)
    BY <1>4, <2>2, <2>3 DEF Buildable
  <2> QED
    BY <2>1, <2>2, <2>4, SoundUnfolds
<1> QED
  BY <1>2, <1>5

-----------------------------------------------------------------------------
(* One call.                                                                *)

(* The failures below a cell that no other failure causes. *)
CausesUnder(i) == {p \in Subtree(i) \cap bad : (Subtree(p) \ {p}) \cap bad = {}}

(* The answer a cell has of the bag alone. *)
Right(i, a) ==
  IF Subtree(i) \cap bad = {} THEN a = Built(i)
  ELSE a = Error(CHOOSE p \in CausesUnder(i) : \A q \in CausesUnder(i) : p <= q)

LEMMA CauseExists ==
  ASSUME ForwardBag, NEW i \in Cells, ~Sound(i)
  PROVE  CausesUnder(i) # {}
<1> DEFINE B == Subtree(i) \cap bad
<1>1. B \in SUBSET Cells /\ B # {}
  BY SubtreeIs DEF Sound
<1>2. PICK p \in B : \A q \in B : q <= p
  <2> HIDE DEF B
  <2> QED
    BY <1>1, LeastCell
<1>3. p \in Cells /\ Subtree(p) \subseteq Subtree(i)
  BY <1>1, SubtreeIs
<1>4. ASSUME NEW r \in Subtree(p) \ {p}, r \in bad PROVE FALSE
  <2>1. PICK t \in refs[p] : r \in Subtree(t)
    BY <1>3, <1>4, SubtreeIs, SubtreeUnfolds
  <2>2. t \in Cells /\ t > p
    BY <1>3 DEF ForwardBag
  <2> DEFINE A == {q \in Cells : q >= t}
  <2>3. t \in A /\ A \in SUBSET Cells /\ \A q \in A : refs[q] \subseteq A
    BY <2>2 DEF ForwardBag, Cells
  <2>4. r \in A
    <3> HIDE DEF A
    <3> QED
      BY <2>1, <2>2, <2>3, SubtreeIs
  <2>5. r \in Cells /\ r >= t /\ r <= p
    BY <1>2, <1>3, <1>4, <2>4
  <2> QED
    BY <1>3, <2>2, <2>5 DEF Cells
<1> QED
  BY <1>2, <1>4 DEF CausesUnder

(* A cell fails by itself exactly when everything below it is sound. *)
LEMMA CauseIs ==
  ASSUME ForwardBag, NEW p \in Cells
  PROVE  (Subtree(p) \ {p}) \cap bad = {} <=> \A t \in refs[p] : Sound(t)
<1>1. bad \subseteq Cells /\ \A t \in refs[p] : t \in Cells
  BY DEF ForwardBag
<1> QED
  BY <1>1, SubtreeUnfolds DEF Sound

LEMMA BuildOrderIs ==
  ASSUME ForwardBag, NEW b0, Keeps(b0), NEW i \in Cells, i \notin b0.built
  PROVE  /\ Keeps(BuildOrder(b0, i).build)
         /\ Right(i, BuildOrder(b0, i).answer)
<1> DEFINE b == open_walk(b0)
           order == Order(b, i)
           holding == Holding(b.built, order)
           made == order \cap holding
           failed == {p \in order \cap bad : refs[p] \subseteq holding}
           marks == [p \in Cells |-> IF p \in order THEN b.generation ELSE b.seen[p]]
           after == [b EXCEPT !.seen = marks,
                              !.built = @ \cup made,
                              !.kept = @ + Cardinality(made \ b.built),
                              !.builds = @ + Cardinality(made)]
           answered == IF failed # {} THEN Error(CHOOSE p \in failed : \A q \in failed : p <= q)
                       ELSE IF i \in after.built THEN Built(i) ELSE BadReference
<1>1. BuildOrder(b0, i) = [build |-> after, answer |-> answered]
  BY DEF BuildOrder
<1>2. Keeps(b) /\ b.built = b0.built /\ \A p \in Cells : b.seen[p] # b.generation
  BY WalkOpens
<1> HIDE DEF b
<1>3. order = Subtree(i) \ b.built
  BY <1>2, OrderIs
<1> HIDE DEF order
<1>4. /\ b \in Builds /\ \A p \in Cells : b.seen[p] <= b.generation
      /\ \A p \in b.built : refs[p] \subseteq b.built
      /\ b.built \cap bad = {} /\ b.builds = b.kept /\ b.kept = Cardinality(b.built)
  BY <1>2 DEF Keeps
<1>5. b.built \in SUBSET Cells /\ order \in SUBSET Cells /\ order \cap b.built = {} /\ i \in order
  BY <1>2, <1>3, <1>4, SubtreeIs DEF Builds
<1>6. \A p \in order : refs[p] \subseteq order \cup b.built
  BY <1>3, SubtreeIs
<1>7. \A p \in b.built : Sound(p)
  <2>1. ASSUME NEW p \in b.built PROVE Subtree(p) \subseteq b.built
    BY <1>4, <1>5, SubtreeIs
  <2> QED
    BY <1>4, <2>1 DEF Sound
<1>8. \A p \in order \cup b.built : p \in holding <=> Sound(p)
  BY <1>5, <1>6, <1>7, HoldingIs
<1> HIDE DEF holding
<1>9. failed = CausesUnder(i)
  <2>1. ASSUME NEW p \in Subtree(i), p \in bad
        PROVE  p \in order /\ (refs[p] \subseteq holding <=> (Subtree(p) \ {p}) \cap bad = {})
    <3>1. p \in order
      BY <1>3, <1>4, <2>1
    <3>2. refs[p] \subseteq holding <=> \A t \in refs[p] : Sound(t)
      BY <1>6, <1>8, <3>1
    <3>3. p \in Cells
      BY <1>5, <3>1
    <3> QED
      BY <3>1, <3>2, <3>3, CauseIs
  <2>2. \A p \in order : p \in Subtree(i)
    BY <1>3
  <2> QED
    BY <2>1, <2>2 DEF CausesUnder
<1>10. marks \in [Cells -> Nat] /\ \A p \in Cells : marks[p] <= b.generation
  <2>1. b.generation \in Nat /\ b.seen \in [Cells -> Nat]
    BY <1>4 DEF Builds
  <2>2. \A p \in Cells : (IF p \in order THEN b.generation ELSE b.seen[p]) \in Nat
    BY <2>1
  <2>3. \A p \in Cells : (IF p \in order THEN b.generation ELSE b.seen[p]) <= b.generation
    BY <1>4, <2>1
  <2> QED
    BY <2>2, <2>3
<1> HIDE DEF marks
<1>11. /\ IsFiniteSet(made) /\ IsFiniteSet(b.built) /\ Cardinality(made) \in Nat
       /\ made \ b.built = made /\ made \in SUBSET Cells
       /\ Cardinality(b.built \cup made) = Cardinality(b.built) + Cardinality(made)
  <2>1. IsFiniteSet(Cells)
    BY FS_Interval, BagAssumption DEF Cells
  <2>2. made \in SUBSET Cells /\ made \cap b.built = {} /\ b.built \cap made = {} /\ made \ b.built = made
    BY <1>5
  <2> HIDE DEF made
  <2>3. IsFiniteSet(made) /\ IsFiniteSet(b.built)
    BY <1>5, <2>1, <2>2, FS_Subset
  <2>4. Cardinality(made) \in Nat /\ Cardinality(b.built) \in Nat /\ Cardinality({}) = 0
    BY <2>3, FS_CardinalityType, FS_EmptySet
  <2>5. Cardinality(b.built \cup made) = Cardinality(b.built) + Cardinality(made) - Cardinality(b.built \cap made)
    BY <2>3, FS_Union
  <2>6. Cardinality(b.built \cap made) = 0
    BY <2>2, <2>4
  <2>7. Cardinality(b.built \cup made) = Cardinality(b.built) + Cardinality(made)
    BY <2>4, <2>5, <2>6
  <2> QED
    BY <2>2, <2>3, <2>4, <2>7
<1>12. made = {p \in order : Sound(p)}
  BY <1>5, <1>8
<1> HIDE DEF made
<1>13. /\ after \in Builds /\ after.built = b.built \cup made /\ after.seen = marks
       /\ after.generation = b.generation
       /\ after.kept = b.kept + Cardinality(made) /\ after.builds = b.builds + Cardinality(made)
  <2> DEFINE n == Cardinality(made)
             all == b.built \cup made
  <2>1. /\ b.generation \in 0..MAX_GENERATION /\ b.kept + n \in Nat /\ b.builds + n \in Nat
        /\ all \in SUBSET Cells
    BY <1>4, <1>5, <1>11 DEF Builds
  <2>2. after = [b EXCEPT !.seen = marks, !.built = all, !.kept = b.kept + n, !.builds = b.builds + n]
    BY <1>11, Zenon
  <2> HIDE DEF after, n, all
  <2>3. after = [built |-> all, seen |-> marks, generation |-> b.generation, kept |-> b.kept + n,
                 builds |-> b.builds + n]
    BY <1>4, <2>2, Zenon DEF Builds
  <2>4. after \in Builds
    BY <1>10, <2>1, <2>3 DEF Builds
  <2> QED
    BY <2>3, <2>4 DEF n, all
<1> HIDE DEF after
<1>14. Keeps(after)
  <2>1. \A p \in after.built : refs[p] \subseteq after.built
    <3> SUFFICES ASSUME NEW p \in made, NEW t \in refs[p] PROVE t \in b.built \cup made
      BY <1>4, <1>13
    <3>1. p \in order /\ p \in Cells /\ Sound(p) /\ t \in order \cup b.built
      BY <1>5, <1>6, <1>12
    <3>2. Sound(t)
      BY <3>1, SoundUnfolds
    <3> QED
      BY <1>12, <3>1, <3>2
  <2>2. after.built \cap bad = {}
    <3>1. \A p \in made : p \notin bad
      BY <1>5, <1>12, SubtreeIs DEF Sound
    <3> QED
      BY <1>4, <1>13, <3>1
  <2>3. after.kept = Cardinality(after.built) /\ after.builds = after.kept
    BY <1>4, <1>11, <1>13
  <2> QED
    BY <1>10, <1>13, <2>1, <2>2, <2>3 DEF Keeps
<1>15. Right(i, answered)
  <2>1. CASE failed # {}
    <3>1. Subtree(i) \cap bad # {}
      BY <1>9, <2>1 DEF CausesUnder
    <3> QED
      BY <1>9, <2>1, <3>1, Zenon DEF Right
  <2>2. CASE failed = {}
    <3>1. Sound(i)
      BY <1>9, <2>2, CauseExists
    <3>2. i \in after.built
      BY <1>5, <1>12, <1>13, <3>1
    <3> QED
      BY <2>2, <3>1, <3>2 DEF Right, Sound
  <2> QED
    BY <2>1, <2>2
<1> HIDE DEF answered
<1> QED
  BY <1>1, <1>14, <1>15

(* Whatever was called before, a call keeps what it should and gives the    *)
(* answer the bag has.                                                      *)
LEMMA BuildAtIs ==
  ASSUME ForwardBag, NEW b, Keeps(b), NEW i \in 0..N
  PROVE  /\ Keeps(build_at(b, i).build)
         /\ IF i = NoCell THEN build_at(b, i).answer.kind # "error" ELSE Right(i, build_at(b, i).answer)
<1>1. CASE i = N
  <2>1. build_at(b, i) = [build |-> b, answer |-> BadReference]
    BY <1>1, BagAssumption DEF build_at
  <2> QED
    BY <1>1, <2>1 DEF NoCell, BadReference
<1>2. CASE i # N
  <2>1. i \in Cells /\ ~(i >= N) /\ i # NoCell
    BY <1>2, BagAssumption DEF Cells, NoCell
  <2>2. CASE i \in b.built
    <3>1. Subtree(i) \subseteq b.built
      BY <2>1, <2>2, SubtreeIs DEF Keeps, Builds
    <3>2. build_at(b, i) = [build |-> b, answer |-> Built(i)]
      BY <2>1, <2>2 DEF build_at
    <3>3. Right(i, Built(i))
      BY <3>1 DEF Right, Keeps
    <3> QED
      BY <2>1, <3>2, <3>3
  <2>3. CASE i \notin b.built
    BY <2>1, <2>3, BuildOrderIs DEF build_at
  <2> QED
    BY <2>2, <2>3
<1> QED
  BY <1>1, <1>2

-----------------------------------------------------------------------------
(* A list of calls.                                                         *)

Good(b, i, a) ==
  /\ Keeps(b) /\ i \in 0..N
  /\ IF i = NoCell THEN a.kind # "error" ELSE Right(i, a)

LEMMA ListIs ==
  ASSUME NEW S, NEW list \in Seq(S)
  PROVE  Len(list) \in Nat /\ \A n \in 1..Len(list) : list[n] \in S
OBVIOUS

LEMMA TurnIs ==
  ASSUME ForwardBag, Keeps(build), NEW list \in Seq(0..N)
  PROVE  Good(InTurn(list).build, InTurn(list).asked, InTurn(list).answer)
<1> DEFINE base == [build |-> build, answer |-> Built(NoCell), asked |-> NoCell]
           Runs(f, m) == f = [n \in 0..m |-> IF n = 0 THEN base ELSE BuildNext(f[n - 1], list[n])]
<1>1. Len(list) \in Nat /\ \A n \in 1..Len(list) : list[n] \in 0..N
  BY ListIs, Zenon
<1>2. \E f : Runs(f, Len(list))
  <2> DEFINE Bad == {m \in 0..Len(list) : ~\E f : Runs(f, m)}
  <2> SUFFICES ASSUME Bad # {} PROVE FALSE
    BY <1>1
  <2>1. PICK m \in Bad : \A k \in Bad : m <= k
    <3>1. Bad \in SUBSET Nat
      BY <1>1
    <3> HIDE DEF Bad
    <3> QED
      BY <1>1, <3>1, Least
  <2>2. CASE m = 0
    <3> DEFINE f == [n \in 0..0 |-> base]
    <3>1. Runs(f, 0)
      OBVIOUS
    <3> HIDE DEF Runs, f
    <3> QED
      BY <2>1, <2>2, <3>1
  <2>3. CASE m # 0
    <3>1. m \in Nat /\ m - 1 \in 0..Len(list) /\ ~(m <= m - 1)
      BY <1>1, <2>1, <2>3
    <3>2. PICK g : Runs(g, m - 1)
      <4> HIDE DEF Runs
      <4> QED
        BY <2>1, <3>1
    <3> DEFINE f == [n \in 0..m |-> IF n = m THEN BuildNext(g[m - 1], list[m]) ELSE g[n]]
    <3>3. \A n \in 0..m - 1 : g[n] = IF n = 0 THEN base ELSE BuildNext(g[n - 1], list[n])
      BY <3>2
    <3>4. \A n \in 0..m : f[n] = IF n = 0 THEN base ELSE BuildNext(f[n - 1], list[n])
      <4> TAKE n \in 0..m
      <4> HIDE DEF base, Runs
      <4>1. CASE n = m
        <5>1. m - 1 \in 0..m /\ m - 1 # m
          BY <2>3, <3>1
        <5>2. f[m - 1] = g[m - 1] /\ f[m] = BuildNext(g[m - 1], list[m])
          BY <3>1, <5>1
        <5> QED
          BY <2>3, <4>1, <5>2
      <4>2. CASE n # m
        <5>1. n \in 0..m - 1 /\ (n # 0 => n - 1 \in 0..m /\ n - 1 # m)
          BY <3>1, <4>2
        <5>2. f[n] = g[n] /\ (n # 0 => f[n - 1] = g[n - 1])
          BY <4>2, <5>1
        <5> HIDE DEF f
        <5> QED
          BY <3>3, <5>1, <5>2
      <4> QED
        BY <4>1, <4>2
    <3>5. f = [n \in 0..m |-> f[n]]
      OBVIOUS
    <3> HIDE DEF f, base
    <3>6. Runs(f, m)
      BY <3>4, <3>5, Zenon
    <3> HIDE DEF Runs
    <3> QED
      BY <2>1, <3>6
  <2> QED
    BY <2>2, <2>3
<1> DEFINE f == CHOOSE f : Runs(f, Len(list))
<1>3. Runs(f, Len(list))
  <2> HIDE DEF Runs
  <2> QED
    BY <1>2
<1>4. InTurn(list) = f[Len(list)]
  BY DEF InTurn
<1> HIDE DEF f
<1>5. /\ f[0] = base
      /\ \A n \in 1..Len(list) : f[n] = BuildNext(f[n - 1], list[n])
  <2>1. \A n \in 0..Len(list) : f[n] = IF n = 0 THEN base ELSE BuildNext(f[n - 1], list[n])
    BY <1>3
  <2> HIDE DEF base, Runs
  <2> QED
    BY <1>1, <2>1
<1> HIDE DEF Runs
<1> DEFINE Bad == {n \in 0..Len(list) : ~Good(f[n].build, f[n].asked, f[n].answer)}
<1>6. ASSUME Bad # {} PROVE FALSE
  <2>1. PICK m \in Bad : \A k \in Bad : m <= k
    <3>1. Bad \in SUBSET Nat
      BY <1>1
    <3> HIDE DEF Bad
    <3> QED
      BY <1>1, <1>6, <3>1, Least
  <2>2. m # 0
    <3>1. f[0].build = build /\ f[0].asked = NoCell /\ f[0].answer.kind = "cell"
      <4>1. f[0] = base
        BY <1>5
      <4>2. base.build = build /\ base.asked = NoCell /\ base.answer.kind = "cell"
        BY DEF Built
      <4> HIDE DEF base
      <4> QED
        BY <4>1, <4>2
    <3>2. Good(f[0].build, f[0].asked, f[0].answer)
      BY <3>1, BagAssumption DEF Good, NoCell
    <3> QED
      BY <2>1, <3>2
  <2>3. m \in 1..Len(list) /\ m - 1 \in 0..Len(list) /\ ~(m <= m - 1)
    BY <1>1, <2>1, <2>2
  <2> DEFINE acc == f[m - 1]
             made == build_at(acc.build, list[m])
  <2>4. Good(acc.build, acc.asked, acc.answer)
    BY <2>1, <2>3
  <2>5. f[m] = acc \/ f[m] = [build |-> made.build, answer |-> made.answer, asked |-> list[m]]
    BY <1>5, <2>3 DEF BuildNext
  <2> HIDE DEF acc
  <2>6. list[m] \in 0..N
    BY <1>1, <2>3
  <2>7. Good(made.build, list[m], made.answer)
    BY <2>4, <2>6, BuildAtIs DEF Good
  <2> HIDE DEF made
  <2>8. ~Good(f[m].build, f[m].asked, f[m].answer)
    BY <2>1
  <2>9. CASE f[m] = acc
    BY <2>4, <2>8, <2>9
  <2>10. CASE f[m] = [build |-> made.build, answer |-> made.answer, asked |-> list[m]]
    <3>1. f[m].build = made.build /\ f[m].asked = list[m] /\ f[m].answer = made.answer
      BY <2>10
    <3> QED
      BY <2>7, <2>8, <3>1, Zenon
  <2> QED
    BY <2>5, <2>9, <2>10
<1>7. Len(list) \notin Bad
  BY <1>6
<1> QED
  BY <1>1, <1>4, <1>7

-----------------------------------------------------------------------------
(* Both readers.                                                            *)

(* Whatever the pass is at, what the lazy reader has kept and answered is     *)
(* right; and it has done neither before the pass has found the bag to read.  *)
LazyInv ==
  /\ root_list \in RootLists /\ Good(build, asked, answer)
  /\ Finished \/ (build.built = {} /\ asked = NoCell /\ answer = BadReference)

(* A bag is not finished before every reference is seen to run forward. *)
FinishedForward == Finished => \A i \in Cells : Forward(i)

ReadersInv == IndInv /\ FinishedForward /\ LazyInv

(* Of a finished pass the bag is what the lazy reader takes it for. *)
LEMMA FinishedIsForward ==
  ASSUME TypeOK, FinishedForward, Finished
  PROVE  ForwardBag
<1>1. ASSUME NEW i \in Cells, NEW t \in refs[i] PROVE t \in Cells /\ t > i
  <2>1. t \in 0..N /\ t < N /\ t > i
    BY DEF TypeOK, FinishedForward, Forward
  <2> QED
    BY <2>1, BagAssumption DEF Cells
<1>2. refs \in [Cells -> SUBSET Cells]
  BY <1>1 DEF TypeOK
<1> QED
  BY <1>1, <1>2 DEF ForwardBag, TypeOK

LEMMA ReadersInitInv == ReadersInit => ReadersInv
<1> SUFFICES ASSUME ReadersInit PROVE ReadersInv
  OBVIOUS
<1>1. IndInv /\ FinishedForward
  BY InitInd DEF ReadersInit, Init, FinishedForward, Finished
<1>2. Keeps(build)
  <2> DEFINE clear == [i \in Cells |-> 0]
  <2>1. clear \in [Cells -> Nat] /\ \A i \in Cells : clear[i] = 0
    OBVIOUS
  <2>2. build = [built |-> {}, seen |-> clear, generation |-> 0, kept |-> 0, builds |-> 0]
    BY DEF ReadersInit, Opened
  <2> HIDE DEF clear
  <2>3. build \in Builds
    BY <2>1, <2>2, LazyAssumption DEF Builds
  <2>4. Cardinality({}) = 0
    BY FS_EmptySet
  <2> QED
    BY <2>1, <2>2, <2>3, <2>4 DEF Keeps
<1>3. asked \in 0..N /\ asked = NoCell /\ answer = BadReference /\ build.built = {} /\ root_list \in RootLists
  BY BagAssumption DEF ReadersInit, Opened, NoCell
<1> QED
  BY <1>1, <1>2, <1>3 DEF ReadersInv, LazyInv, Good, BadReference

(* What the lazy reader keeps and answers is about the bag alone, which       *)
(* neither reader changes.                                                    *)
LEMMA BagDecides ==
  ASSUME UNCHANGED <<refs, bad>>, NEW b, NEW i, NEW a, Good(b, i, a), build' = b, asked' = i, answer' = a
  PROVE  Good(build, asked, answer)'
<1>1. \A j : Reach(j, Cells)' = Reach(j, Cells)
  BY DEF Reach, Cells
<1>2. Keeps(build)'
  BY DEF Good, Keeps, Builds, Cells
<1>3. (asked \in 0..N /\ IF asked = NoCell THEN answer.kind # "error" ELSE Right(asked, answer))'
  BY <1>1 DEF Good, Right, CausesUnder, Subtree, Built, Error, NoCell
<1> QED
  BY <1>2, <1>3 DEF Good

(* A step of the pass. *)
LEMMA PassStep ==
  ASSUME ReadersInv, Next, UNCHANGED lazyVars
  PROVE  ReadersInv'
<1>1. IndInv'
  BY NextInd DEF ReadersInv
<1>2. UNCHANGED <<refs, bad>> /\ ~Finished
  <2>1. UNCHANGED <<refs, bad>>
    BY DEF Next, ReadFails, Finish, ReadCell, HeightOf, TooDeep, Planned, BeginWave, RunHere, Judge, Join, EndWave,
       Done, bag
  <2>2. pc # "done"
    BY DEF Next, ReadFails, ReadCell, HeightOf, TooDeep, Planned, BeginWave, RunHere, Judge, Join, EndWave, Done
  <2>3. result = "none"
    BY <2>2 DEF ReadersInv, IndInv, Stage
  <2> QED
    BY <2>1, <2>3 DEF Finished
<1>3. FinishedForward'
  <2> SUFFICES ASSUME Finished' PROVE \A i \in Cells : Forward(i)
    BY <1>2 DEF FinishedForward, Forward
  <2>1. result = "none"
    BY <1>2 DEF ReadersInv, IndInv, TypeOK, Stage, Next, ReadFails, ReadCell, HeightOf, TooDeep, Planned, BeginWave,
       RunHere, Judge, Join, EndWave, Done
  <2>2. pc = "waves"
    BY <2>1 DEF Finished, Next, ReadFails, Finish, ReadCell, HeightOf, TooDeep, Planned, BeginWave, RunHere, Judge,
       Join, EndWave, Done
  <2> QED
    BY <2>2 DEF ReadersInv, IndInv, ReadIsForward
<1>4. LazyInv'
  <2>1. Good(build, asked, answer)'
    BY <1>2, BagDecides DEF ReadersInv, LazyInv, lazyVars
  <2> QED
    BY <1>2, <2>1 DEF ReadersInv, LazyInv, lazyVars, NoCell, BadReference
<1> QED
  BY <1>1, <1>3, <1>4 DEF ReadersInv

(* A call of the lazy reader. *)
LEMMA LazyStep ==
  ASSUME ReadersInv, Finished, LazyNext, UNCHANGED vars
  PROVE  ReadersInv'
(* The bag stands still, so only what a call returns is left to show. *)
<1>1. ASSUME NEW b, NEW i, NEW a, UNCHANGED root_list,
             build' = b, asked' = i, answer' = a, Good(b, i, a)
      PROVE  ReadersInv'
  <2>1. UNCHANGED <<refs, bad, result>>
    BY DEF vars
  <2>2. Good(build, asked, answer)'
    BY <1>1, <2>1, BagDecides
  <2>3. IndInv' /\ FinishedForward' /\ Finished'
    <3>1. IndInv'
      BY NextInd DEF ReadersInv
    <3> QED
      BY <2>1, <3>1 DEF ReadersInv, FinishedForward, Finished, Forward
  <2> QED
    BY <1>1, <2>2, <2>3 DEF ReadersInv, LazyInv
<1>2. ForwardBag /\ Keeps(build)
  BY FinishedIsForward DEF ReadersInv, IndInv, LazyInv, Good
<1>3. ASSUME NEW i \in 0..N, Cell(i) PROVE ReadersInv'
  <2>1. Good(build_at(build, i).build, i, build_at(build, i).answer)
    BY <1>2, BuildAtIs DEF Good
  <2> QED
    BY <1>1, <1>3, <2>1 DEF Cell
<1>4. ASSUME NEW list \in Seq(0..N), Turn(list) PROVE ReadersInv'
  BY <1>1, <1>2, <1>4, TurnIs DEF Turn
<1>5. root_list \in Seq(0..N)
  BY LazyAssumption DEF ReadersInv, LazyInv
<1>6. ASSUME NEW n \in 1..Len(root_list) + 1, Root(n) PROVE ReadersInv'
  <2>1. CASE n \in 1..Len(root_list)
    <3>1. root_list[n] \in 0..N
      BY <1>5, <2>1, ListIs, Zenon
    <3>2. Cell(root_list[n])
      BY <1>6, <2>1 DEF Root
    <3> QED
      BY <1>3, <3>1, <3>2
  <2>2. CASE n \notin 1..Len(root_list)
    <3>1. Good(build, NoCell, BadReference)
      BY <1>2, BagAssumption DEF Good, NoCell, BadReference
    <3> QED
      BY <1>1, <1>6, <2>2, <3>1 DEF Root
  <2> QED
    BY <2>1, <2>2
<1>7. CASE Roots
  BY <1>4, <1>5, <1>7 DEF Roots
<1>8. ASSUME NEW indices \in Requests, Prewarm(indices) PROVE ReadersInv'
  BY <1>4, <1>8, LazyAssumption DEF Prewarm
<1> QED
  BY <1>3, <1>6, <1>7, <1>8 DEF LazyNext

LEMMA ReadersStand ==
  ASSUME ReadersInv, UNCHANGED <<vars, lazyVars>>
  PROVE  ReadersInv'
<1>1. IndInv'
  BY NextInd DEF ReadersInv
<1>2. UNCHANGED <<refs, bad, result>>
  BY DEF vars
<1>3. Good(build, asked, answer)'
  BY <1>2, BagDecides DEF ReadersInv, LazyInv, lazyVars
<1> QED
  BY <1>1, <1>2, <1>3 DEF ReadersInv, FinishedForward, Finished, Forward, LazyInv, lazyVars, NoCell, BadReference

(* The two readers over one bag do what each does, and the marks, the counts *)
(* and the last answer of the lazy one are right after any calls.            *)
THEOREM ReadersInvariant == ReadersSpec => []ReadersInv
<1>1. ReadersInv /\ [ReadersNext]_<<vars, lazyVars>> => ReadersInv'
  BY PassStep, LazyStep, ReadersStand DEF ReadersNext
<1> QED
  BY <1>1, ReadersInitInv, PTL DEF ReadersSpec

(* Both readers at once (parse_boc_with and LazyBoc::open_with over the same *)
(* bytes): the pass reports the lowest cell that fails of itself, or roots   *)
(* of a bag sound whole, whatever is asked of the other.                     *)
THEOREM ReadersReportTheCause == ReadersSpec => []ReportsTheCause
<1>1. ReadersInit => Init
  BY DEF ReadersInit
<1>2. [ReadersNext]_<<vars, lazyVars>> => [Next]_vars
  BY DEF ReadersNext
<1>3. ReadersSpec => Spec
  BY <1>1, <1>2, PTL DEF ReadersSpec, Spec
<1> QED
  BY <1>3, LowestCauseReported, PTL

(* build_at never walks below a cell already built, and need not: whatever   *)
(* was called before, failed calls and a counter that wrapped included, a    *)
(* cell is kept with the whole of its subtree and was built once.            *)
THEOREM SubtreesAreWhole == ReadersSpec => []KeptWithItsSubtree
<1>1. ReadersInv => KeptWithItsSubtree
  <2> SUFFICES ASSUME ReadersInv PROVE KeptWithItsSubtree
    OBVIOUS
  <2>1. Keeps(build)
    BY DEF ReadersInv, LazyInv, Good
  <2>2. ASSUME NEW i \in build.built PROVE Subtree(i) \subseteq build.built
    <3>1. ForwardBag
      BY FinishedIsForward DEF ReadersInv, IndInv, LazyInv
    <3> QED
      BY <2>1, <3>1, SubtreeIs DEF Keeps, Builds
  <2> QED
    BY <2>1, <2>2 DEF KeptWithItsSubtree, Keeps
<1> QED
  BY <1>1, ReadersInvariant, PTL

(* What the pass holds in the end are the cells whose subtree is sound. *)
LEMMA HeldIsSound ==
  ASSUME IndInv, ForwardBag, FinishedForward, Finished
  PROVE  \A i \in Cells : i \in held <=> Sound(i)
<1> DEFINE H == {i \in Cells : Sound(i)}
<1>1. H \in SUBSET Cells
  OBVIOUS
<1>2. ASSUME NEW i \in Cells PROVE i \in H <=> (i \notin bad /\ refs[i] \subseteq H)
  <2>1. refs[i] \subseteq Cells
    BY DEF ForwardBag
  <2> QED
    BY <2>1, SoundUnfolds
<1>3. Closed(H)
  <2> HIDE DEF H
  <2> QED
    BY <1>2 DEF Closed
<1>4. H = held
  <2> HIDE DEF H
  <2> QED
    BY <1>1, <1>3 DEF IndInv, OneAnswer, Finished
<1> QED
  BY <1>4

(* LazyBoc::cell, root, roots and prewarm answer for the bag and not for the *)
(* calls before them: the cell when everything it reaches is sound, and      *)
(* otherwise the lowest failure below it that no other failure causes, which *)
(* is one the pass over the whole bag found.                                 *)
THEOREM HistoryIsInvisible == ReadersSpec => []AnswersAsIfFirst
<1>1. ReadersInv => AnswersAsIfFirst
  <2> SUFFICES ASSUME ReadersInv PROVE AnswersAsIfFirst
    OBVIOUS
  <2>1. asked # NoCell => Right(asked, answer)
    BY DEF ReadersInv, LazyInv, Good
  <2>2. ASSUME answer.kind = "error"
        PROVE  result = "lowest" /\ answer.at \in Causes /\ lowest <= answer.at
    <3>1. asked # NoCell /\ asked \in 0..N
      BY <2>2 DEF ReadersInv, LazyInv, Good
    <3>2. asked \in Cells
      BY <3>1, BagAssumption DEF NoCell, Cells
    <3>3. Finished
      BY <3>1 DEF ReadersInv, LazyInv
    <3>4. IndInv /\ FinishedForward /\ ForwardBag
      BY <3>3, FinishedIsForward DEF ReadersInv, IndInv
    <3> DEFINE C == CausesUnder(asked)
               p == CHOOSE p \in C : \A q \in C : p <= q
    <3>5. Subtree(asked) \cap bad # {} /\ answer = Error(p)
      BY <2>1, <2>2, <3>1 DEF Right, Built
    <3>6. C \in SUBSET Cells /\ C # {}
      BY <3>2, <3>4, <3>5, CauseExists, SubtreeIs DEF CausesUnder, Sound
    <3>7. p \in C
      <4> HIDE DEF C
      <4> QED
        BY <3>6, LeastCell
    <3> HIDE DEF p
    <3>8. p \in Cells /\ p \in bad /\ \A t \in refs[p] : Sound(t)
      BY <3>4, <3>6, <3>7, CauseIs DEF CausesUnder
    <3>9. refs[p] \subseteq held
      BY <3>3, <3>4, <3>8, HeldIsSound DEF ForwardBag
    <3>10. p \in Causes
      BY <3>8, <3>9 DEF Causes
    <3>11. ReportsTheCause
      BY <3>4 DEF IndInv
    <3>12. answer.at = p
      BY <3>5 DEF Error
    <3> QED
      BY <3>3, <3>8, <3>10, <3>11, <3>12 DEF ReportsTheCause, Finished
  <2> QED
    BY <2>1, <2>2 DEF Right, CausesUnder, AnswersAsIfFirst
<1> QED
  BY <1>1, ReadersInvariant, PTL
=============================================================================

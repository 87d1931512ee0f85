------------------------------ MODULE BocWaves ------------------------------
(***************************************************************************)
(* Reading a bag of cells into its graph (core/src/cell/boc/parse.rs).     *)
(* Each cell is read in bag order and may reference only later cells; the  *)
(* cells are grouped by height and finalized wave by wave, the cells of a  *)
(* wide wave by several threads at once, each over a part of the wave; the *)
(* failure reported is the one at the lowest index.  The same pass builds  *)
(* the graph (read_and_build) and computes identities alone                *)
(* (verify_roots): a cell that can be finalized is `held`.                 *)
(*                                                                         *)
(* The bag is its references, the cells that do not read and the cells     *)
(* whose contents or stored hashes fail when they are finalized.           *)
(***************************************************************************)
EXTENDS Integers, FiniteSets

CONSTANTS N,                 \* the cells of the bag, numbered from 0
          Bags,              \* the references of the bags read
          Cores,             \* what parallelism() may report
          CELLS_PER_WORKER,
          MAX_DEPTH

ASSUME BagAssumption ==
  /\ N \in Nat \ {0}
  /\ Bags \subseteq [0..N - 1 -> SUBSET (0..N)]
  /\ Cores \subseteq Nat \ {0}
  /\ CELLS_PER_WORKER \in Nat \ {0}
  /\ MAX_DEPTH \in Nat

Cells == 0..N - 1
NoCell == N

VARIABLES
  refs, unread, bad, cores,  \* the bag and the machine
  pc, index,                 \* the pass, and where it is
  height,                    \* of each cell
  wave,                      \* the height being finalized
  pending,                   \* cells of the wave no thread has judged
  split,                     \* whether the wave is split across threads
  outcome,                   \* what a thread made of a cell of the wave
  held,                      \* the cells finalized and kept
  lowest,                    \* the lowest failure kept
  result
bag == <<refs, unread, bad, cores>>
vars == <<refs, unread, bad, cores, pc, index, height, wave, pending, split, outcome, held,
          lowest, result>>

Outcomes == {"none", "value", "skip", "error"}
\* "lowest": the failure of the cell `lowest`.
Results == {"none", "roots", "Malformed", "BadReference", "TooDeep", "lowest"}

Init ==
  /\ refs \in Bags
  /\ bad \in SUBSET Cells
  /\ unread \in SUBSET Cells
  /\ cores \in Cores
  /\ pc = "read" /\ index = 0
  /\ height = [i \in Cells |-> 0]
  /\ wave = 0 /\ pending = {} /\ split = FALSE
  /\ outcome = [i \in Cells |-> "none"]
  /\ held = {} /\ lowest = NoCell
  /\ result = "none"

Finish(r) ==
  /\ pc' = "done"
  /\ result' = r
  /\ UNCHANGED <<bag, index, height, wave, pending, split, outcome, held, lowest>>

-----------------------------------------------------------------------------
(* read_raw: one cell after another, refused at the first that fails.      *)

Forward(i) == \A t \in refs[i] : t < N /\ t > i

ReadFails ==
  /\ pc = "read"
  /\ \/ index \in unread /\ Finish("Malformed")
     \/ index \notin unread /\ ~Forward(index) /\ Finish("BadReference")

\* The last cell read, the heights are swept from the highest index down.
ReadCell ==
  /\ pc = "read"
  /\ index \notin unread
  /\ Forward(index)
  /\ IF index = N - 1
     THEN pc' = "heights" /\ index' = N - 1
     ELSE pc' = pc /\ index' = index + 1
  /\ UNCHANGED <<bag, height, wave, pending, split, outcome, held, lowest, result>>

-----------------------------------------------------------------------------
(* heights and Waves::by_height.                                           *)

Above(i, h) == \A t \in refs[i] : height[t] < h

\* One more than the tallest of the children, 0 without any.
Tallest(i) ==
  CHOOSE h \in 0..N : Above(i, h) /\ \A k \in 0..N : Above(i, k) => h <= k

HeightOf ==
  /\ pc = "heights" /\ index >= 0
  /\ height' = [height EXCEPT ![index] = Tallest(index)]
  /\ index' = index - 1
  /\ UNCHANGED <<bag, pc, wave, pending, split, outcome, held, lowest, result>>

\* The sweep finishes before anything is refused.
TooDeep ==
  /\ pc = "heights" /\ index = -1
  /\ \E i \in Cells : height[i] > MAX_DEPTH
  /\ Finish("TooDeep")

Planned ==
  /\ pc = "heights" /\ index = -1
  /\ \A i \in Cells : height[i] <= MAX_DEPTH
  /\ pc' = "waves" /\ wave' = 0
  /\ UNCHANGED <<bag, index, height, pending, split, outcome, held, lowest, result>>

Wave(k) == {i \in Cells : height[i] = k}

-----------------------------------------------------------------------------
(* run_wave.                                                               *)

workers_for(width) ==
  LET affords == width \div CELLS_PER_WORKER
  IN IF affords < 2 THEN 1 ELSE IF cores < affords THEN cores ELSE affords

\* The cells of a wave, ascending, are cut into runs of `each`; a cell's part
\* is the number of the run it falls in.
Part(i) ==
  LET width == Cardinality(Wave(wave))
      workers == workers_for(width)
      each == (width + workers - 1) \div workers
      before == Cardinality({j \in Wave(wave) : j < i})
  IN before \div each

BeginWave ==
  /\ pc = "waves"
  /\ \E i \in Cells : height[i] >= wave
  /\ pending' = Wave(wave)
  /\ split' = (workers_for(Cardinality(Wave(wave))) > 1)
  /\ pc' = "run"
  /\ UNCHANGED <<bag, index, height, wave, outcome, held, lowest, result>>

\* Mutant: a child that produced no value is reported as this cell's failure.
one_NamesTheGap(i) ==
  IF i \in bad \/ ~(refs[i] \subseteq held) THEN "error" ELSE "value"

\* build_one and summarize_one: skipped when a child has no value, judged on
\* the cell's own contents otherwise.
one(i) ==
  IF ~(refs[i] \subseteq held) THEN "skip" ELSE IF i \in bad THEN "error" ELSE "value"

Lower(at, i) == IF i < at THEN i ELSE at

\* On this thread: each outcome is kept before the next cell is judged.
RunHere ==
  /\ pc = "run" /\ ~split
  /\ \E i \in pending :
       /\ \A j \in pending : i <= j
       /\ pending' = pending \ {i}
       /\ held' = IF one(i) = "value" THEN held \cup {i} ELSE held
       /\ lowest' = IF one(i) = "error" THEN Lower(lowest, i) ELSE lowest
  /\ UNCHANGED <<bag, pc, index, height, wave, split, outcome, result>>

\* Across threads: a thread works through its part in order and writes nothing.
Judge ==
  /\ pc = "run" /\ split
  /\ \E i \in pending :
       /\ \A j \in pending : Part(j) = Part(i) => i <= j
       /\ pending' = pending \ {i}
       /\ outcome' = [outcome EXCEPT ![i] = one(i)]
  /\ UNCHANGED <<bag, pc, index, height, wave, split, held, lowest, result>>

Errors == {i \in Wave(wave) : outcome[i] = "error"}

\* All joined, the outcomes are kept one by one against their indices.
Join ==
  /\ pc = "run" /\ split
  /\ pending = {}
  /\ held' = held \cup {i \in Wave(wave) : outcome[i] = "value"}
  /\ lowest' = IF Errors = {} THEN lowest
               ELSE Lower(lowest, CHOOSE i \in Errors : \A j \in Errors : i <= j)
  /\ split' = FALSE
  /\ UNCHANGED <<bag, pc, index, height, wave, pending, outcome, result>>

EndWave ==
  /\ pc = "run" /\ ~split
  /\ pending = {}
  /\ wave' = wave + 1
  /\ pc' = "waves"
  /\ UNCHANGED <<bag, index, height, pending, split, outcome, held, lowest, result>>

\* Past the tallest wave: the lowest failure, or the roots.
Done ==
  /\ pc = "waves"
  /\ \A i \in Cells : height[i] < wave
  /\ Finish(IF lowest # NoCell THEN "lowest" ELSE "roots")

Next == \/ ReadFails \/ ReadCell \/ HeightOf \/ TooDeep \/ Planned
        \/ BeginWave \/ RunHere \/ Judge \/ Join \/ EndWave \/ Done

Spec == Init /\ [][Next]_vars

-----------------------------------------------------------------------------
(* Properties.                                                             *)

TypeOK ==
  /\ refs \in [Cells -> SUBSET (0..N)]
  /\ unread \subseteq Cells /\ bad \subseteq Cells
  /\ cores \in Nat \ {0}
  /\ pc \in {"read", "heights", "waves", "run", "done"}
  /\ index \in -1..N - 1
  /\ height \in [Cells -> 0..N - 1]
  /\ wave \in 0..N
  /\ pending \subseteq Cells
  /\ split \in BOOLEAN
  /\ outcome \in [Cells -> Outcomes]
  /\ held \subseteq Cells
  /\ lowest \in 0..N
  /\ result \in Results

\* The cells whose outcome has been kept.
Kept ==
  {i \in Cells : \/ height[i] < wave
                 \/ pc = "run" /\ ~split /\ height[i] = wave /\ i \notin pending}

\* build_one reads a child's empty slot as a failure below (parse.rs:521-526).
\* So what is kept of a cell stays right as the pass goes on: it is held
\* exactly when its own contents are sound and all its children are held.
KeptIsFinal ==
  pc \in {"waves", "run"} =>
    \A i \in Kept : i \in held <=> (i \notin bad /\ refs[i] \subseteq held)

\* The cells that fail of themselves: every child is held.
Causes == {i \in bad : refs[i] \subseteq held}

\* Lowest (parse.rs:186-198): whatever order the threads ran in, the failure
\* reported is a cause and never its consequence, and of the causes the one at
\* the lowest index; the roots are returned only of a bag that is sound whole.
ReportsTheCause ==
  /\ result = "lowest" => lowest \in Causes /\ \A i \in Causes : lowest <= i
  /\ result = "roots" => bad = {} /\ held = Cells
=============================================================================

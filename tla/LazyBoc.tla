------------------------------ MODULE LazyBoc -------------------------------
(***************************************************************************)
(* A bag read once and built a cell at a time (core/src/cell/boc/lazy.rs   *)
(* over Build and build_at of parse.rs), beside the pass that reads it     *)
(* whole (BocWaves).  The bag has been read and its references run         *)
(* forward; `bad` are the cells whose own contents fail when they are      *)
(* built.  A walk marks the cells it reaches with its generation, a        *)
(* counter that wraps.                                                     *)
(***************************************************************************)
EXTENDS BocWaves, Sequences

CONSTANTS RootLists,       \* what the header may name as roots
          MAX_GENERATION,  \* u32::MAX
          Requests         \* the index lists prewarm is called with

\* A list of calls may name a place past the last cell; all of them are N here.
ASSUME LazyAssumption ==
  /\ MAX_GENERATION \in Nat \ {0}
  /\ RootLists \subseteq Seq(0..N) /\ Requests \subseteq Seq(0..N)

VARIABLES root_list,  \* the roots the bag names
          build,      \* Build: built, seen, generation, kept, builds
          asked,      \* the last cell asked for
          answer      \* what the call returned
lazyVars == <<root_list, build, asked, answer>>

Built(i) == [kind |-> "cell", at |-> i]
Error(i) == [kind |-> "error", at |-> i]
BadReference == [kind |-> "BadReference", at |-> NoCell]

\* LazyBoc::open_with, once the bag has been read.
Opened ==
  /\ root_list \in RootLists
  /\ build = [built |-> {}, seen |-> [i \in Cells |-> 0], generation |-> 0, kept |-> 0,
              builds |-> 0]
  /\ asked = NoCell /\ answer = BadReference

-----------------------------------------------------------------------------
(* Build::open_walk: the marks are cleared when the counter wraps.         *)

\* Mutant: counting starts again over the marks of the older walks.
open_walk_KeepsMarks(b) ==
  [b EXCEPT !.generation = IF @ < MAX_GENERATION THEN @ + 1 ELSE 1]

open_walk(b) ==
  IF b.generation < MAX_GENERATION
  THEN [b EXCEPT !.generation = @ + 1]
  ELSE [b EXCEPT !.generation = 1, !.seen = [i \in Cells |-> 0]]

\* Whether a walk that comes to p goes on below it.
Unreached(b, p) == p \notin b.built /\ b.seen[p] # b.generation

\* The cells a walk from i comes to when it goes only through the cells of U.
Reach(i, U) ==
  LET reached[p \in Cells] ==
        /\ p \in U
        /\ p = i \/ \E q \in 0..p - 1 : reached[q] /\ p \in refs[q]
  IN {p \in Cells : reached[p]}

\* The cells a walk from i collects.
Order(b, i) == Reach(i, {p \in Cells : Unreached(b, p)})

\* Mutant: a child without a value is left out.
Buildable_Gaps(p, holds) == p \notin bad

\* build_one over the cells that have a value.
Buildable(p, holds) == p \notin bad /\ \A t \in refs[p] : holds[t]

\* The cells that have a value once the order is built, highest index first.
Holding(built, order) ==
  LET holds[p \in Cells] == IF p \in order THEN Buildable(p, holds) ELSE p \in built
  IN {p \in Cells : holds[p]}

\* build_at past its early returns: what is built is kept even when the call
\* fails, and the lowest failure is reported.
BuildOrder(b0, i) ==
  LET b == open_walk(b0)
      order == Order(b, i)
      holding == Holding(b.built, order)
      made == order \cap holding
      failed == {p \in order \cap bad : refs[p] \subseteq holding}
      after == [b EXCEPT !.seen = [p \in Cells |-> IF p \in order THEN b.generation ELSE @[p]],
                         !.built = @ \cup made,
                         !.kept = @ + Cardinality(made \ b.built),
                         !.builds = @ + Cardinality(made)]
  IN [build |-> after,
      answer |-> IF failed # {} THEN Error(CHOOSE p \in failed : \A q \in failed : p <= q)
                 ELSE IF i \in after.built THEN Built(i) ELSE BadReference]

build_at(b, i) ==
  IF i >= N THEN [build |-> b, answer |-> BadReference]
  ELSE IF i \in b.built THEN [build |-> b, answer |-> Built(i)]
  ELSE BuildOrder(b, i)

-----------------------------------------------------------------------------
(* The calls.                                                              *)

\* LazyBoc::cell.
Cell(i) ==
  LET made == build_at(build, i) IN
  /\ build' = made.build
  /\ asked' = i
  /\ answer' = made.answer
  /\ UNCHANGED root_list

\* LazyBoc::root: the nth of the header's roots.
Root(n) ==
  IF n \in 1..Len(root_list) THEN Cell(root_list[n])
  ELSE /\ asked' = NoCell
       /\ answer' = BadReference
       /\ UNCHANGED <<root_list, build>>

\* One cell of a list, unless one before it would not build.
BuildNext(acc, i) ==
  IF acc.answer.kind # "cell" THEN acc
  ELSE LET made == build_at(acc.build, i)
       IN [build |-> made.build, answer |-> made.answer, asked |-> i]

\* The cells of a list in turn, stopping at the first that will not build.
InTurn(list) ==
  LET after[n \in 0..Len(list)] ==
        IF n = 0 THEN [build |-> build, answer |-> Built(NoCell), asked |-> NoCell]
        ELSE BuildNext(after[n - 1], list[n])
  IN after[Len(list)]

\* LazyBoc::roots and LazyBoc::prewarm.
Turn(list) ==
  LET made == InTurn(list) IN
  /\ build' = made.build
  /\ asked' = made.asked
  /\ answer' = made.answer
  /\ UNCHANGED root_list

Roots == Turn(root_list)

Prewarm(indices) == Turn(indices)

LazyNext == \/ \E i \in 0..N : Cell(i)
            \/ \E n \in 1..Len(root_list) + 1 : Root(n)
            \/ Roots
            \/ \E indices \in Requests : Prewarm(indices)

\* The two readers of one bag: the lazy one has opened what the pass found to
\* read, whether or not every cell of it can be finalized.
Finished == result \in {"roots", "lowest"}

ReadersInit == Init /\ Opened
ReadersNext ==
  \/ Next /\ UNCHANGED lazyVars
  \/ Finished /\ LazyNext /\ UNCHANGED vars
ReadersSpec == ReadersInit /\ [][ReadersNext]_<<vars, lazyVars>>

-----------------------------------------------------------------------------
(* Properties.                                                             *)

\* What a cell reaches, itself included.
Subtree(i) == Reach(i, Cells)

\* build_at (parse.rs:805-806) walks nothing below a cell already built: that is
\* sound because a cell is only ever kept with the whole of its subtree.  And
\* builds_run (lazy.rs:94-99) equals built_count: over any calls, failed ones and
\* overlapping ones included, no cell is built a second time.
KeptWithItsSubtree ==
  /\ \A i \in build.built : Subtree(i) \subseteq build.built
  /\ build.builds = build.kept /\ build.kept = Cardinality(build.built)

\* A call answers for the bag and not for the calls before it: the cell asked
\* for when all it reaches is sound, and otherwise the lowest of the failures
\* below it that no other failure causes, the one a fresh reader would report;
\* and as the whole pass does: a failure it names is one the pass found, and
\* the pass reports that one or one at a lower index (build_at, Lowest).
AnswersAsIfFirst ==
  /\ asked # NoCell =>
       LET under == Subtree(asked)
           causes == {p \in under \cap bad : (Subtree(p) \ {p}) \cap bad = {}}
       IN IF under \cap bad = {} THEN answer = Built(asked)
          ELSE answer = Error(CHOOSE p \in causes : \A q \in causes : p <= q)
  /\ answer.kind = "error" => result = "lowest" /\ answer.at \in Causes /\ lowest <= answer.at
=============================================================================

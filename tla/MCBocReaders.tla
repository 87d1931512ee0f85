---------------------------- MODULE MCBocReaders ----------------------------
(* The two readers of one bag: every bag of four cells of at most two
   references each, and a few whose references do not run forward, read whole
   in waves; and, of a bag whose cells read, a cell at a time. *)
EXTENDS LazyBoc

MCRootLists == {<<0, 1>>}
MCRequests == {<<3, 1>>, <<1, N, 2>>}

Few(S) == {T \in SUBSET S : Cardinality(T) <= 2}
Forwards == {r \in [Cells -> Few(Cells)] : \A i \in Cells : \A t \in r[i] : t > i}
Crooked == {[i \in Cells |-> IF i = at THEN {t} ELSE {}] : at \in Cells, t \in 0..N}
MCBags == Forwards \cup Crooked
=============================================================================

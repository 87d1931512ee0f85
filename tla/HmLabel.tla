------------------------------ MODULE HmLabel ------------------------------
(***************************************************************************)
(* The codec of a dictionary's edge labels (core/src/cell/dict/label.rs).  *)
(* A label is a sequence of bits, written under `max`, the key bits still  *)
(* to spend at its edge, in the shortest of three encodings:               *)
(*     short   0, a unary length, the bits                                 *)
(*     long    10, the length in bounded_width(max) bits, the bits         *)
(*     same    11, one bit, the length: that bit repeated                  *)
(* A cell is the sequence of its bits; a reader returns how it ended and,  *)
(* when it ended well, the label and how many bits of the cell it passed.  *)
(***************************************************************************)
EXTENDS Naturals, Sequences

Bit == {0, 1}
Runs(n) == [1..n -> Bit]

\* What is left of a run past its first n bits, and those first n.
Rest(run, n) == SubSeq(run, n + 1, Len(run))
Head_(run, n) == SubSeq(run, 1, n)

bounded_width(max) == CHOOSE w \in 0..max : 2^w > max /\ \A v \in 0..w-1 : 2^v <= max

Uint(n, width) == [i \in 1..width |-> (n \div 2^(width - i)) % 2]
Number(run) ==
  LET sum[i \in 0..Len(run)] == IF i = 0 THEN 0 ELSE 2 * sum[i - 1] + run[i]
  IN sum[Len(run)]

Repeats(label) == \A i \in DOMAIN label : label[i] = label[1]

-----------------------------------------------------------------------------
(* Writing.                                                                *)

\* Between the two forms that spell the bits out, a tie goes to the earlier.
ShortWins(label, max) == 2 * Len(label) + 2 <= 2 + bounded_width(max) + Len(label)
SameOffered(label) == Repeats(label)

Short(label) == <<0>> \o [i \in 1..Len(label) |-> 1] \o <<0>> \o label
Long(label, max) == <<1, 0>> \o Uint(Len(label), bounded_width(max)) \o label
Same(label, max) ==
  <<1, 1, IF label = <<>> THEN 0 ELSE label[1]>> \o Uint(Len(label), bounded_width(max))

\* The encoding a label of at most max bits is written in.
store_label(label, max) ==
  LET spelled == IF ShortWins(label, max) THEN Short(label) ELSE Long(label, max)
  IN IF SameOffered(label) /\ 3 + bounded_width(max) < Len(spelled)
     THEN Same(label, max)
     ELSE spelled

LabelBits(label, max) == Len(store_label(label, max))

-----------------------------------------------------------------------------
(* Reading.  A header is refused with LabelTooLong when it claims more     *)
(* than max bits and with NotEnoughBits when the cell ends inside it.      *)

NoRun(why) == [why |-> why, spelled |-> FALSE, bit |-> 0, count |-> 0, used |-> 0]
Spelled(n, used) == [why |-> "ok", spelled |-> TRUE, bit |-> 0, count |-> n, used |-> used]
Repeated(b, n, used) == [why |-> "ok", spelled |-> FALSE, bit |-> b, count |-> n, used |-> used]

\* The ones a cell goes on with after its first bit.
UnaryRun(cell) == CHOOSE n \in 0..Len(cell) - 1 :
                    /\ \A i \in 2..n + 1 : cell[i] = 1
                    /\ n + 2 <= Len(cell) => cell[n + 2] = 0

TooLong(n, max) == n > max

read_run(cell, max) ==
  LET w == bounded_width(max)
      claimed(at) == Number(SubSeq(cell, at, at + w - 1))
  IN CASE cell = <<>> -> NoRun("NotEnoughBits")
       [] cell # <<>> /\ cell[1] = 0 ->
            IF TooLong(UnaryRun(cell), max) THEN NoRun("LabelTooLong")
            ELSE IF UnaryRun(cell) + 2 > Len(cell) THEN NoRun("NotEnoughBits")
            ELSE Spelled(UnaryRun(cell), UnaryRun(cell) + 2)
       [] OTHER ->
            IF Len(cell) < 2 THEN NoRun("NotEnoughBits")
            ELSE IF Len(cell) < 2 + cell[2] + w THEN NoRun("NotEnoughBits")
            ELSE IF TooLong(claimed(3 + cell[2]), max) THEN NoRun("LabelTooLong")
            ELSE IF cell[2] = 0 THEN Spelled(claimed(3), 2 + w)
            ELSE Repeated(cell[3], claimed(4), 3 + w)

NoLabel(why) == [why |-> why, label |-> <<>>, used |-> 0]

read_label_into(cell, max) ==
  LET run == read_run(cell, max)
  IN CASE run.why # "ok" -> NoLabel(run.why)
       [] run.why = "ok" /\ ~run.spelled ->
            [why |-> "ok", label |-> [i \in 1..run.count |-> run.bit], used |-> run.used]
       [] run.why = "ok" /\ run.spelled ->
            IF run.used + run.count > Len(cell) THEN NoLabel("NotEnoughBits")
            ELSE [why |-> "ok", label |-> SubSeq(cell, run.used + 1, run.used + run.count),
                  used |-> run.used + run.count]

skip_label(cell, max) ==
  LET run == read_run(cell, max)
      passed == IF run.spelled THEN run.count ELSE 0
  IN IF run.why # "ok" THEN NoLabel(run.why)
     ELSE IF run.used + passed > Len(cell) THEN NoLabel("NotEnoughBits")
     ELSE [why |-> "ok", label |-> <<>>, used |-> run.used + passed]
=============================================================================

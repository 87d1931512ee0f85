---------------------------- MODULE WriterProofs ----------------------------
(***************************************************************************)
(* A stream is the bag, for any graph of cells and any list of roots       *)
(* (BocWriter).  The walk goes down the graph, so a cell whose references  *)
(* are still being visited never comes up again below itself; that is what *)
(* WalkInv says of the stack, the order and the seen hashes, and why the   *)
(* order is the whole graph, each cell once and ahead of its references,   *)
(* when the stack is empty.  Written then follows the chunks: the sizes    *)
(* counted ahead are the lengths of the bytes written later, and chunks    *)
(* run together are the cells run together, wherever one ends.             *)
(***************************************************************************)
EXTENDS BocWriter, FiniteSetTheorems, TLAPS

-----------------------------------------------------------------------------
(* Numbers and lists.                                                      *)

\* A set that holds zero and the successor of each of its numbers holds all.
LEMMA Climb ==
  ASSUME NEW G, 0 \in G, \A n \in Nat : n \in G => n + 1 \in G
  PROVE  Nat \subseteq G
<1>. DEFINE T == Nat \ G
            F == {0..x : x \in T}
<1>. SUFFICES ASSUME T # {} PROVE FALSE
  OBVIOUS
<1>1. F \subseteq FiniteSubsetsOf(Nat) /\ F # {}
  <2>1. ASSUME NEW x \in T PROVE 0..x \in FiniteSubsetsOf(Nat)
    <3>1. IsFiniteSet(0..x)
      BY FS_Interval
    <3>. QED
      BY <3>1 DEF FiniteSubsetsOf
  <2>. QED
    BY <2>1, Zenon
<1>2. PICK s \in F : \A t \in F : ~(<<t, s>> \in StrictSubsetOrdering(Nat))
  BY <1>1, WFMin, FS_StrictSubsetOrderingWellFounded, Zenon
<1>3. PICK x \in T : s = 0..x
  BY <1>2
<1>4. x \in Nat /\ x # 0 /\ x - 1 \in T
  <2>1. x \in Nat /\ x # 0 /\ x \notin G
    BY <1>3
  <2>2. x - 1 \in Nat /\ (x - 1) + 1 = x
    BY <2>1
  <2>. QED
    BY <2>1, <2>2
<1>5. <<0..x - 1, 0..x>> \in StrictSubsetOrdering(Nat)
  <2>1. 0..x - 1 \subseteq 0..x /\ 0..x - 1 \in SUBSET Nat /\ 0..x \in SUBSET Nat
    BY <1>4
  <2>2. x \in 0..x /\ x \notin 0..x - 1
    BY <1>4
  <2>3. 0..x - 1 # 0..x
    BY <2>2
  <2>. QED
    BY <2>1, <2>3, Zenon DEF StrictSubsetOrdering
<1>. QED
  BY <1>2, <1>3, <1>4, <1>5, Zenon

\* Functions on the first numbers are lists, and lists are such functions.
LEMMA ListOf ==
  ASSUME NEW S, NEW n \in Nat, NEW f \in [1..n -> S]
  PROVE  f \in Seq(S) /\ Len(f) = n
OBVIOUS

LEMMA ListIs ==
  ASSUME NEW S, NEW f \in Seq(S)
  PROVE  Len(f) \in Nat /\ f \in [1..Len(f) -> S] /\ DOMAIN f = 1..Len(f)
OBVIOUS

\* The beginning of a list, the whole of it, and lists put one after another.
LEMMA Beginning ==
  ASSUME NEW S, NEW f \in Seq(S), NEW k \in 0..Len(f)
  PROVE  SubSeq(f, 1, k) \in Seq(S) /\ Len(SubSeq(f, 1, k)) = k /\ \A i \in 1..k : SubSeq(f, 1, k)[i] = f[i]
OBVIOUS

\* A mask is finite, and marks three levels at most.
LEMMA MaskIsFinite ==
  ASSUME NEW mask \in SUBSET Levels
  PROVE  IsFiniteSet(mask) /\ Cardinality(mask) \in 0..3
<1>1. IsFiniteSet(Levels) /\ Cardinality(Levels) = 3
  <2>1. 1 \in Int /\ 3 \in Int
    OBVIOUS
  <2>2. IsFiniteSet(1..3) /\ Cardinality(1..3) = IF 1 > 3 THEN 0 ELSE 3 - 1 + 1
    BY ONLY <2>1, FS_Interval, Zenon
  <2>. QED
    BY <2>2 DEF Levels
<1>. QED
  BY <1>1, FS_Subset, FS_CardinalityType

-----------------------------------------------------------------------------
(* Runs of bytes, joined.                                                  *)

\* A run is a list of whatever it holds.
IsRun(f) == \E S : f \in Seq(S)

LEMMA RunOf ==
  ASSUME NEW n \in Nat, NEW f, f = [i \in 1..n |-> f[i]]
  PROVE  IsRun(f) /\ Len(f) = n
<1>. DEFINE S == {f[i] : i \in 1..n}
<1>1. \A i \in 1..n : f[i] \in S
  OBVIOUS
<1>. HIDE DEF S
<1>2. f \in [1..n -> S]
  BY <1>1
<1>. QED
  BY <1>2, ListOf DEF IsRun

LEMMA RunIs ==
  ASSUME NEW f, IsRun(f)
  PROVE  Len(f) \in Nat /\ DOMAIN f = 1..Len(f) /\ f = [i \in 1..Len(f) |-> f[i]]
<1>1. PICK S : f \in Seq(S)
  BY DEF IsRun
<1>. QED
  BY <1>1, ListIs

LEMMA EmptyRun == IsRun(<<>>) /\ Len(<<>>) = 0
<1>1. <<>> \in Seq({})
  OBVIOUS
<1>. QED
  BY <1>1 DEF IsRun

LEMMA Joins ==
  ASSUME NEW f, IsRun(f), NEW g, IsRun(g)
  PROVE  /\ IsRun(f \o g) /\ Len(f \o g) = Len(f) + Len(g)
         /\ <<>> \o f = f /\ f \o <<>> = f
<1>1. PICK S : f \in Seq(S)
  BY DEF IsRun
<1>2. PICK T : g \in Seq(T)
  BY DEF IsRun
<1>. DEFINE U == S \cup T
<1>3. f \in Seq(U) /\ g \in Seq(U)
  BY <1>1, <1>2
<1>. HIDE DEF U
<1>4. f \o g \in Seq(U) /\ Len(f \o g) = Len(f) + Len(g) /\ <<>> \o f = f /\ f \o <<>> = f
  BY <1>3
<1>. QED
  BY <1>4 DEF IsRun

LEMMA JoinsInTurn ==
  ASSUME NEW f, IsRun(f), NEW g, IsRun(g), NEW h, IsRun(h)
  PROVE  (f \o g) \o h = f \o (g \o h)
<1>1. PICK S : f \in Seq(S)
  BY DEF IsRun
<1>2. PICK T : g \in Seq(T)
  BY DEF IsRun
<1>3. PICK R : h \in Seq(R)
  BY DEF IsRun
<1>. DEFINE U == S \cup T \cup R
<1>4. f \in Seq(U) /\ g \in Seq(U) /\ h \in Seq(U)
  BY <1>1, <1>2, <1>3
<1>. HIDE DEF U
<1>. QED
  BY <1>4

\* What Joined is over a list of runs: from none of them, one more at a time.
JoinStep(parts, f, n) == IF n = 0 THEN <<>> ELSE f[n - 1] \o parts[n]
Joining(parts, f) == f = [n \in 0..Len(parts) |-> JoinStep(parts, f, n)]

LEMMA JoiningExists ==
  ASSUME NEW parts, IsRun(parts)
  PROVE  \E f : Joining(parts, f)
<1>. DEFINE N == Len(parts)
            Upto(f, n) == /\ f = [i \in 0..N |-> f[i]]
                          /\ \A i \in 0..N : i < n => f[i] = JoinStep(parts, f, i)
            G == {n \in Nat : \E f : Upto(f, n)}
<1>1. 0 \in G
  <2>. DEFINE f == [i \in 0..N |-> 0]
  <2>1. Upto(f, 0)
    OBVIOUS
  <2>. QED
    BY <2>1
<1>2. ASSUME NEW n \in Nat, n \in G
      PROVE  n + 1 \in G
  <2>1. PICK f : Upto(f, n)
    BY <1>2
  <2>. DEFINE g == [i \in 0..N |-> IF i = n THEN JoinStep(parts, f, i) ELSE f[i]]
  <2>2. ASSUME NEW i \in 0..N, i < n + 1
        PROVE  g[i] = JoinStep(parts, g, i)
    <3>1. g[i] = JoinStep(parts, f, i)
      BY <2>1, <2>2
    <3>2. i # 0 => g[i - 1] = f[i - 1]
      BY <2>2, RunIs
    <3>. HIDE DEF g
    <3>. QED
      BY <3>1, <3>2 DEF JoinStep
  <2>3. g = [i \in 0..N |-> g[i]]
    OBVIOUS
  <2>4. Upto(g, n + 1)
    <3>. HIDE DEF g
    <3>. QED
      BY <2>2, <2>3
  <2>. HIDE DEF Upto
  <2>. QED
    BY <2>4
<1>3. N + 1 \in G
  <2>. HIDE DEF G
  <2>1. Nat \subseteq G
    BY <1>1, <1>2, Climb
  <2>. QED
    BY <2>1, RunIs
<1>4. PICK f : Upto(f, N + 1)
  BY <1>3
<1>5. \A i \in 0..N : i < N + 1
  BY RunIs
<1>. QED
  BY <1>4, <1>5 DEF Joining

LEMMA JoinedIs ==
  ASSUME NEW parts, IsRun(parts)
  PROVE  \E f : Joining(parts, f) /\ Joined(parts) = f[Len(parts)]
<1>. DEFINE upto == CHOOSE f : Joining(parts, f)
<1>1. Joining(parts, upto)
  BY JoiningExists
<1>2. Joined(parts) = upto[Len(parts)]
  BY DEF Joined, Joining, JoinStep
<1>. HIDE DEF upto
<1>. QED
  BY <1>1, <1>2

LEMMA JoiningIs ==
  ASSUME NEW parts, IsRun(parts), NEW f, Joining(parts, f)
  PROVE  f[0] = <<>> /\ \A k \in 1..Len(parts) : f[k] = f[k - 1] \o parts[k]
<1>1. Len(parts) \in Nat
  BY RunIs
<1>2. \A k \in 0..Len(parts) : f[k] = JoinStep(parts, f, k)
  BY DEF Joining
<1>3. f[0] = <<>>
  BY <1>1, <1>2 DEF JoinStep
<1>4. ASSUME NEW k \in 1..Len(parts)
      PROVE  f[k] = f[k - 1] \o parts[k]
  <2>1. k \in 0..Len(parts) /\ k # 0
    BY <1>1
  <2>. QED
    BY <1>2, <2>1, Zenon DEF JoinStep
<1>. QED
  BY <1>3, <1>4

\* The first parts of some.
First(c, n) == [i \in 1..n |-> c[i]]

LEMMA FirstIs ==
  ASSUME NEW c, NEW n \in Nat
  PROVE  /\ IsRun(First(c, n)) /\ Len(First(c, n)) = n /\ DOMAIN First(c, n) = 1..n
         /\ \A i \in 1..n : First(c, n)[i] = c[i]
<1>. DEFINE f == First(c, n)
<1>1. f = [i \in 1..n |-> f[i]] /\ DOMAIN f = 1..n /\ \A i \in 1..n : f[i] = c[i]
  BY DEF First
<1>. HIDE DEF f
<1>2. IsRun(f) /\ Len(f) = n
  BY <1>1, RunOf
<1>. QED
  BY <1>1, <1>2 DEF f

LEMMA JoinedNone ==
  ASSUME NEW c
  PROVE  Joined(First(c, 0)) = <<>>
<1>1. IsRun(First(c, 0)) /\ Len(First(c, 0)) = 0
  BY FirstIs
<1>2. PICK f : Joining(First(c, 0), f) /\ Joined(First(c, 0)) = f[0]
  BY <1>1, JoinedIs
<1>. QED
  BY <1>1, <1>2 DEF Joining, JoinStep

LEMMA JoinedMore ==
  ASSUME NEW c, NEW n \in Nat
  PROVE  Joined(First(c, n + 1)) = Joined(First(c, n)) \o c[n + 1]
<1>. DEFINE some == First(c, n)  more == First(c, n + 1)
<1>1. IsRun(some) /\ Len(some) = n /\ \A i \in 1..n : some[i] = c[i]
  BY FirstIs
<1>2. IsRun(more) /\ Len(more) = n + 1 /\ \A i \in 1..n + 1 : more[i] = c[i]
  BY FirstIs
<1>. HIDE DEF some, more
<1>3. PICK f : Joining(some, f) /\ Joined(some) = f[n]
  BY <1>1, JoinedIs
<1>4. PICK g : Joining(more, g) /\ Joined(more) = g[n + 1]
  BY <1>2, JoinedIs
<1>5. f[0] = <<>> /\ \A k \in 1..n : f[k] = f[k - 1] \o some[k]
  BY <1>1, <1>3, JoiningIs
<1>6. g[0] = <<>> /\ \A k \in 1..n + 1 : g[k] = g[k - 1] \o more[k]
  <2>1. g[0] = <<>> /\ \A k \in 1..Len(more) : g[k] = g[k - 1] \o more[k]
    BY <1>2, <1>4, JoiningIs, Zenon
  <2>. QED
    BY <1>2, <2>1, Zenon
<1>. DEFINE G == {k \in Nat : k <= n => f[k] = g[k]}
<1>7. 0 \in G
  BY <1>5, <1>6
<1>8. ASSUME NEW k \in Nat, k \in G
      PROVE  k + 1 \in G
  <2>. SUFFICES ASSUME k + 1 <= n
                PROVE  f[k + 1] = g[k + 1]
    OBVIOUS
  <2>1. f[k] = g[k] /\ some[k + 1] = more[k + 1]
    BY <1>1, <1>2, <1>8
  <2>2. k + 1 \in 1..n /\ k + 1 \in 1..n + 1 /\ (k + 1) - 1 = k
    OBVIOUS
  <2>3. f[k + 1] = f[k] \o some[k + 1] /\ g[k + 1] = g[k] \o more[k + 1]
    BY <1>5, <1>6, <2>2
  <2>. QED
    BY <2>1, <2>3
<1>9. f[n] = g[n]
  <2>. HIDE DEF G
  <2>1. Nat \subseteq G
    BY <1>7, <1>8, Climb
  <2>. QED
    BY <2>1 DEF G
<1>10. g[n + 1] = g[n] \o more[n + 1] /\ more[n + 1] = c[n + 1]
  <2>1. n + 1 \in 1..n + 1 /\ (n + 1) - 1 = n
    OBVIOUS
  <2>. QED
    BY <1>2, <1>6, <2>1
<1>. QED
  BY <1>3, <1>4, <1>9, <1>10 DEF some, more

\* Joined runs are a run.
LEMMA JoinedIsRun ==
  ASSUME NEW c, NEW n \in Nat, \A i \in 1..n : IsRun(c[i])
  PROVE  IsRun(Joined(First(c, n)))
<1>. DEFINE G == {k \in Nat : k <= n => IsRun(Joined(First(c, k)))}
<1>1. 0 \in G
  BY JoinedNone, EmptyRun
<1>2. ASSUME NEW k \in Nat, k \in G
      PROVE  k + 1 \in G
  <2>. SUFFICES ASSUME k + 1 <= n
                PROVE  IsRun(Joined(First(c, k + 1)))
    OBVIOUS
  <2>1. IsRun(Joined(First(c, k))) /\ IsRun(c[k + 1])
    BY <1>2
  <2>2. IsRun(Joined(First(c, k)) \o c[k + 1])
    BY <2>1, Joins
  <2>. QED
    BY <2>2, JoinedMore
<1>. HIDE DEF G
<1>3. Nat \subseteq G
  BY <1>1, <1>2, Climb
<1>. QED
  BY <1>3 DEF G

\* The first parts and then some more are the first of so many.
Shifted(c, a) == [k \in Nat |-> c[a + k]]

LEMMA JoinedInTwo ==
  ASSUME NEW c, NEW a \in Nat, NEW m \in Nat, \A i \in 1..a + m : IsRun(c[i])
  PROVE  Joined(First(c, a)) \o Joined(First(Shifted(c, a), m)) = Joined(First(c, a + m))
<1>. DEFINE d == Shifted(c, a)
            G == {k \in Nat : k <= m => Joined(First(c, a)) \o Joined(First(d, k)) = Joined(First(c, a + k))}
<1>1. \A k \in Nat : d[k] = c[a + k]
  BY DEF Shifted
<1>. HIDE DEF d
<1>2. IsRun(Joined(First(c, a)))
  BY JoinedIsRun
<1>3. 0 \in G
  <2>1. Joined(First(c, a)) \o <<>> = Joined(First(c, a))
    BY <1>2, Joins
  <2>2. Joined(First(d, 0)) = <<>> /\ a + 0 = a
    BY JoinedNone
  <2>. QED
    BY <2>1, <2>2
<1>4. ASSUME NEW k \in Nat, k \in G
      PROVE  k + 1 \in G
  <2>. SUFFICES ASSUME k + 1 <= m
                PROVE  Joined(First(c, a)) \o Joined(First(d, k + 1)) = Joined(First(c, a + (k + 1)))
    OBVIOUS
  <2>1. Joined(First(d, k + 1)) = Joined(First(d, k)) \o d[k + 1]
    BY JoinedMore
  <2>2. Joined(First(c, (a + k) + 1)) = Joined(First(c, a + k)) \o c[(a + k) + 1]
    <3>1. a + k \in Nat
      OBVIOUS
    <3>. QED
      BY <3>1, JoinedMore, Zenon
  <2>3. (a + k) + 1 = a + (k + 1) /\ d[k + 1] = c[a + (k + 1)] /\ IsRun(d[k + 1])
    BY <1>1
  <2>4. IsRun(Joined(First(d, k)))
    <3>1. \A i \in 1..k : IsRun(d[i])
      BY <1>1
    <3>. QED
      BY <3>1, JoinedIsRun
  <2>5. (Joined(First(c, a)) \o Joined(First(d, k))) \o d[k + 1] = Joined(First(c, a)) \o (Joined(First(d, k)) \o d[k + 1])
    <3>. DEFINE x == Joined(First(c, a))  y == Joined(First(d, k))  z == d[k + 1]
    <3>1. IsRun(x) /\ IsRun(y) /\ IsRun(z)
      BY <1>2, <2>3, <2>4
    <3>. HIDE DEF x, y, z
    <3>2. (x \o y) \o z = x \o (y \o z)
      BY ONLY <3>1, JoinsInTurn
    <3>. QED
      BY <3>2 DEF x, y, z
  <2>6. Joined(First(c, a)) \o Joined(First(d, k)) = Joined(First(c, a + k))
    BY <1>4
  <2>7. Joined(First(c, a + (k + 1))) = Joined(First(c, a + k)) \o d[k + 1]
    BY <2>2, <2>3
  <2>. QED
    BY <2>1, <2>5, <2>6, <2>7, Zenon
<1>. HIDE DEF G
<1>5. Nat \subseteq G
  BY <1>3, <1>4, Climb
<1>. QED
  BY <1>5 DEF G, d

\* Runs of one width, joined, are as long as the width says.
LEMMA JoinedWidth ==
  ASSUME NEW c, NEW n \in Nat, NEW w \in Nat, \A i \in 1..n : IsRun(c[i]) /\ Len(c[i]) = w
  PROVE  Len(Joined(First(c, n))) = n * w
<1>. DEFINE G == {k \in Nat : k <= n => Len(Joined(First(c, k))) = k * w}
<1>1. 0 \in G
  BY JoinedNone, EmptyRun
<1>2. ASSUME NEW k \in Nat, k \in G
      PROVE  k + 1 \in G
  <2>. SUFFICES ASSUME k + 1 <= n
                PROVE  Len(Joined(First(c, k + 1))) = (k + 1) * w
    OBVIOUS
  <2>1. IsRun(Joined(First(c, k))) /\ IsRun(c[k + 1])
    BY JoinedIsRun
  <2>2. Len(Joined(First(c, k)) \o c[k + 1]) = k * w + w
    BY <1>2, <2>1, Joins
  <2>3. k * w + w = (k + 1) * w
    OBVIOUS
  <2>. QED
    BY <2>2, <2>3, JoinedMore
<1>. HIDE DEF G
<1>3. Nat \subseteq G
  BY <1>1, <1>2, Climb
<1>. QED
  BY <1>3 DEF G

-----------------------------------------------------------------------------
(* The size of a cell.                                                     *)

LEMMA ByteNumbers == U64_BYTES \in Nat /\ BYTE_BITS \in Nat /\ BYTE_BITS > 0
<1>1. U64_BYTES \in Nat /\ BYTE_BITS \in Nat \ {0}
  BY FormatAssumption, Zenon
<1>. QED
  BY <1>1

\* A set of numbers up to some number has a greatest one.
LEMMA Greatest ==
  ASSUME NEW n \in Nat, NEW S \in SUBSET (0..n), S # {}
  PROVE  \E x \in S : \A y \in S : x >= y
<1>. SUFFICES ASSUME \A x \in S : \E y \in S : y > x
              PROVE  FALSE
  OBVIOUS
<1>. DEFINE G == {k \in Nat : \E x \in S : x >= k}
<1>1. 0 \in G
  <2>1. PICK x \in S : TRUE
    OBVIOUS
  <2>2. x >= 0
    OBVIOUS
  <2>. QED
    BY <2>2
<1>2. ASSUME NEW k \in Nat, k \in G
      PROVE  k + 1 \in G
  BY <1>2
<1>. HIDE DEF G
<1>3. n + 1 \in G
  BY <1>1, <1>2, Climb
<1>. QED
  BY <1>3 DEF G

\* A number has at least one digit (byte_width).
LEMMA WidthIs ==
  ASSUME NEW value
  PROVE  byte_width(value) \in Nat
<1>. DEFINE S == {1} \cup {w \in 1..U64_BYTES : BASE^(w - 1) <= value}
<1>1. U64_BYTES + 1 \in Nat /\ S \in SUBSET (0..U64_BYTES + 1) /\ S # {}
  <2>1. U64_BYTES + 1 \in Nat /\ 1 \in 0..U64_BYTES + 1 /\ 1..U64_BYTES \subseteq 0..U64_BYTES + 1
    BY ByteNumbers
  <2>2. 1 \in S /\ S \subseteq {1} \cup 1..U64_BYTES
    BY Zenon
  <2>. QED
    BY <2>1, <2>2, Zenon
<1>2. byte_width(value) = Max(S)
  BY Zenon DEF byte_width
<1>. HIDE DEF S
<1>3. \E x \in S : \A y \in S : x >= y
  BY <1>1, Greatest
<1>4. Max(S) \in S
  BY <1>3, Zenon DEF Max
<1>5. Max(S) \in 0..U64_BYTES + 1
  BY <1>1, <1>4, Zenon
<1>. QED
  BY <1>1, <1>2, <1>5

\* A number takes its width, and a list of them the width of each.
LEMMA PushIs ==
  ASSUME NEW value, NEW width \in Nat
  PROVE  IsRun(push_be(value, width)) /\ Len(push_be(value, width)) = width
<1>. DEFINE f == push_be(value, width)
<1>1. f = [i \in 1..width |-> f[i]]
  BY DEF push_be
<1>. HIDE DEF f
<1>. QED
  BY <1>1, RunOf DEF f

Digits(list, width) == [i \in DOMAIN list |-> push_be(list[i], width)]

LEMMA DigitsAre ==
  ASSUME NEW list, NEW n \in Nat, DOMAIN list = 1..n, NEW width \in Nat
  PROVE  IsRun(Joined(Digits(list, width))) /\ Len(Joined(Digits(list, width))) = n * width
<1>. DEFINE c == Digits(list, width)
<1>1. c = First(c, n) /\ \A i \in 1..n : c[i] = push_be(list[i], width)
  BY DEF Digits, First
<1>. HIDE DEF c
<1>2. \A i \in 1..n : IsRun(c[i]) /\ Len(c[i]) = width
  BY <1>1, PushIs
<1>3. IsRun(Joined(First(c, n))) /\ Len(Joined(First(c, n))) = n * width
  BY <1>2, JoinedIsRun, JoinedWidth
<1>. QED
  BY <1>1, <1>3 DEF c

\* stored_len is the size of what write_stored writes.
LEMMA StoredIs ==
  ASSUME NEW cell, Formed(cell)
  PROVE  /\ IsRun(write_stored(cell.id)) /\ Len(write_stored(cell.id)) = stored_len(cell.id)
         /\ stored_len(cell.id) \in Nat
<1>. DEFINE n == count(cell.id)
            h == [i \in DOMAIN cell.id.hashes |-> <<"hash", cell.id.hashes[i]>>]
            d == [i \in DOMAIN cell.id.depths |-> <<"depth", cell.id.depths[i]>>]
<1>1. n \in Nat
  <2>1. Cardinality(cell.id.mask) \in Nat
    BY MaskIsFinite DEF Formed
  <2>. QED
    BY <2>1 DEF count
<1>2. DOMAIN cell.id.hashes = 1..n /\ DOMAIN cell.id.depths = 1..n
  BY DEF Formed
<1>3. h = [i \in 1..n |-> h[i]] /\ d = [i \in 1..n |-> d[i]]
  BY <1>2
<1>4. write_stored(cell.id) = h \o d
  BY DEF write_stored
<1>. HIDE DEF n, h, d
<1>5. IsRun(h) /\ Len(h) = n /\ IsRun(d) /\ Len(d) = n
  BY <1>1, <1>3, RunOf
<1>6. IsRun(h \o d) /\ Len(h \o d) = n + n
  BY <1>5, Joins
<1>. QED
  BY <1>1, <1>4, <1>6 DEF stored_len, n

LEMMA DataIs ==
  ASSUME NEW cell, Formed(cell)
  PROVE  IsRun(DataBytes(cell))
<1>. DEFINE f == DataBytes(cell)
<1>1. CASE cell.type # "Ordinary"
  <2>1. DataBytes(cell) = <<<<"exotic", cell.data>>>>
    BY <1>1 DEF DataBytes
  <2>2. \A x : <<x>> \in Seq({x})
    OBVIOUS
  <2>. QED
    BY <2>1, <2>2, Zenon DEF IsRun
<1>2. CASE cell.type = "Ordinary"
  <2>. DEFINE p == PartialBits(cell)
              z == [i \in 1..BYTE_BITS - p - 1 |-> 0]
              closing == IF p = 0 THEN <<>> ELSE <<1>> \o z
              bits == cell.data[2] \o closing
  <2>1. cell.data[2] \in Seq({0, 1})
    BY <1>2 DEF Formed
  <2>2. p \in 0..BYTE_BITS - 1
    <3>1. Len(cell.data[2]) \in Nat /\ BYTE_BITS \in Nat /\ BYTE_BITS > 0
      BY <2>1, ByteNumbers
    <3>. DEFINE m == Len(cell.data[2])
    <3>2. p = m % BYTE_BITS
      BY <1>2 DEF PartialBits
    <3>3. m \in Nat
      BY <3>1
    <3>. HIDE DEF m, p
    <3>4. m % BYTE_BITS \in 0..BYTE_BITS - 1
      BY <3>1, <3>3
    <3>. QED
      BY <3>2, <3>4
  <2>3. closing \in Seq({0, 1})
    <3>. HIDE DEF p
    <3>1. BYTE_BITS - p - 1 \in Nat
      BY <2>2, ByteNumbers
    <3>2. z \in [1..BYTE_BITS - p - 1 -> {0, 1}]
      OBVIOUS
    <3>3. z \in Seq({0, 1})
      BY <3>1, <3>2, ListOf, Zenon
    <3>. HIDE DEF z
    <3>4. <<>> \in Seq({0, 1}) /\ <<1>> \o z \in Seq({0, 1})
      BY <3>3
    <3>. QED
      BY <3>4
  <2>4. Len(bits) \in Nat
    <3>. HIDE DEF closing
    <3>. QED
      BY <2>1, <2>3
  <2>. DEFINE n == Len(bits) \div BYTE_BITS
  <2>5. n \in Nat
    <3>. HIDE DEF bits
    <3>. QED
      BY <2>4, ByteNumbers
  <2>6. f = [i \in 1..n |-> <<"byte", SubSeq(bits, (i - 1) * BYTE_BITS + 1, i * BYTE_BITS)>>]
    BY <1>2 DEF DataBytes
  <2>. HIDE DEF n, bits
  <2>7. f = [i \in 1..n |-> f[i]]
    BY <2>6
  <2>. HIDE DEF f
  <2>8. IsRun(f)
    BY <2>5, <2>7, RunOf
  <2>. QED
    BY <2>8 DEF f
<1>. QED
  BY <1>1, <1>2

\* The size worked out for a cell is that of its bytes.
LEMMA CellBytesAre ==
  ASSUME NEW cell, Formed(cell), NEW children, DOMAIN children = DOMAIN cell.refs,
         NEW width \in Nat, NEW stored \in BOOLEAN
  PROVE  /\ IsRun(CellBytes(cell, children, width, stored))
         /\ Len(CellBytes(cell, children, width, stored))
              = 2 + (IF stored THEN stored_len(cell.id) ELSE 0) + Len(DataBytes(cell)) + Len(cell.refs) * width
<1>. DEFINE a == stored_descriptors(cell, stored)
            b == IF stored THEN write_stored(cell.id) ELSE <<>>
            c == DataBytes(cell)
            d == Joined(Digits(children, width))
<1>1. CellBytes(cell, children, width, stored) = ((a \o b) \o c) \o d
  BY DEF CellBytes, Digits
<1>2. IsRun(a) /\ Len(a) = 2
  <2>1. \A x, y : <<x, y>> \in Seq({x, y}) /\ Len(<<x, y>>) = 2
    OBVIOUS
  <2>. QED
    BY <2>1, Zenon DEF IsRun, stored_descriptors
<1>3. IsRun(b) /\ Len(b) = IF stored THEN stored_len(cell.id) ELSE 0
  BY StoredIs, EmptyRun
<1>4. IsRun(c)
  BY DataIs
<1>5. IsRun(d) /\ Len(d) = Len(cell.refs) * width
  <2>1. PICK n \in 0..MAX_REFS : DOMAIN cell.refs = 1..n
    BY DEF Formed
  <2>2. n \in Nat
    BY <2>1 DEF MAX_REFS
  <2>3. Len(cell.refs) = n
    BY <2>1, <2>2, RunOf DEF Formed
  <2>. QED
    BY <2>1, <2>2, <2>3, DigitsAre
<1>6. (IF stored THEN stored_len(cell.id) ELSE 0) \in Nat /\ Len(c) \in Nat /\ Len(d) \in Nat
  BY <1>4, <1>5, RunIs, StoredIs
<1>. HIDE DEF a, b, c, d
<1>7. IsRun(a \o b) /\ Len(a \o b) = Len(a) + Len(b)
  BY <1>2, <1>3, Joins
<1>8. IsRun((a \o b) \o c) /\ Len((a \o b) \o c) = Len(a \o b) + Len(c)
  BY <1>4, <1>7, Joins
<1>9. IsRun(((a \o b) \o c) \o d) /\ Len(((a \o b) \o c) \o d) = Len((a \o b) \o c) + Len(d)
  BY <1>5, <1>8, Joins
<1>10. Len(((a \o b) \o c) \o d)
         = 2 + (IF stored THEN stored_len(cell.id) ELSE 0) + Len(c) + Len(cell.refs) * width
  BY <1>2, <1>3, <1>5, <1>6, <1>7, <1>8, <1>9
<1>. QED
  BY <1>1, <1>9, <1>10 DEF c

-----------------------------------------------------------------------------
(* The stream.                                                             *)

\* The parts of a bag: everything ahead of the cells, and the cells.
BagHeader == HeaderBytes(order, roots, options, ref_size, Offsets)
BagCells == [i \in DOMAIN order |-> CellAt(i)]

\* What the stream is written from once the walk is over.
Settled ==
  /\ options \in BocOptions /\ IsRun(roots)
  /\ IsRun(order) /\ \A i \in DOMAIN order : Formed(order[i])

LEMMA CellsAre ==
  ASSUME Settled
  PROVE  /\ Len(order) \in Nat /\ DOMAIN order = 1..Len(order)
         /\ BagCells = First(BagCells, Len(order)) /\ DOMAIN BagCells = 1..Len(order)
         /\ \A i \in 1..Len(order) : BagCells[i] = CellAt(i) /\ IsRun(CellAt(i)) /\ Len(CellAt(i)) = CellLen(order[i])
<1>1. Len(order) \in Nat /\ DOMAIN order = 1..Len(order)
  BY RunIs DEF Settled
<1>2. ASSUME NEW i \in 1..Len(order)
      PROVE  IsRun(CellAt(i)) /\ Len(CellAt(i)) = CellLen(order[i])
  <2>1. Formed(order[i]) /\ options.stored_hashes \in BOOLEAN
    BY <1>1, <1>2 DEF Settled, BocOptions
  <2>2. DOMAIN Children(order)[i] = DOMAIN order[i].refs
    BY <1>1, <1>2 DEF Children
  <2>3. ref_size \in Nat
    BY WidthIs DEF ref_size
  <2>. QED
    BY <2>1, <2>2, <2>3, CellBytesAre DEF CellAt, CellLen
<1>3. BagCells = First(BagCells, Len(order)) /\ DOMAIN BagCells = 1..Len(order)
  BY <1>1 DEF BagCells, First
<1>4. \A i \in 1..Len(order) : BagCells[i] = CellAt(i)
  BY <1>1 DEF BagCells
<1>. QED
  BY <1>1, <1>2, <1>3, <1>4

\* The offsets stated ahead of the cells are where the cells end.
EndAfter(n) == Len(Joined(First(BagCells, n)))
Ending(f) == f = [i \in 0..Len(order) |-> IF i = 0 THEN 0 ELSE f[i - 1] + CellLen(order[i])]

LEMMA EndsGrow ==
  ASSUME Settled
  PROVE  /\ EndAfter(0) = 0
         /\ \A i \in 1..Len(order) : EndAfter(i) = EndAfter(i - 1) + CellLen(order[i])
<1>1. EndAfter(0) = 0
  BY JoinedNone, EmptyRun DEF EndAfter
<1>2. ASSUME NEW i \in 1..Len(order)
      PROVE  EndAfter(i) = EndAfter(i - 1) + CellLen(order[i])
  <2>. DEFINE k == i - 1
  <2>1. k \in Nat /\ k + 1 = i /\ \A j \in 1..k : j \in 1..Len(order)
    BY <1>2, CellsAre
  <2>. HIDE DEF k
  <2>2. IsRun(BagCells[i]) /\ Len(BagCells[i]) = CellLen(order[i]) /\ \A j \in 1..k : IsRun(BagCells[j])
    BY <1>2, <2>1, CellsAre
  <2>3. IsRun(Joined(First(BagCells, k)))
    BY <2>1, <2>2, JoinedIsRun
  <2>4. Joined(First(BagCells, k + 1)) = Joined(First(BagCells, k)) \o BagCells[k + 1]
    BY <2>1, JoinedMore
  <2>5. Len(Joined(First(BagCells, k)) \o BagCells[i]) = EndAfter(k) + CellLen(order[i])
    BY <2>2, <2>3, Joins DEF EndAfter
  <2>6. EndAfter(i) = EndAfter(k) + CellLen(order[i])
    BY <2>1, <2>4, <2>5 DEF EndAfter
  <2>. QED
    BY <2>6 DEF k
<1>. QED
  BY <1>1, <1>2

LEMMA OffsetsAre ==
  ASSUME Settled
  PROVE  Offsets = [i \in DOMAIN order |-> EndAfter(i)]
<1>. DEFINE N == Len(order)
            e == [i \in 0..N |-> EndAfter(i)]
            end == CHOOSE f : Ending(f)
<1>1. N \in Nat /\ DOMAIN order = 1..N
  BY CellsAre
<1>2. Ending(e)
  <2>1. ASSUME NEW i \in 0..N
        PROVE  e[i] = IF i = 0 THEN 0 ELSE e[i - 1] + CellLen(order[i])
    <3>1. CASE i = 0
      BY <3>1, EndsGrow
    <3>2. CASE i # 0
      <4>1. i \in 1..N /\ i - 1 \in 0..N
        BY <1>1, <3>2
      <4>2. e[i] = EndAfter(i) /\ e[i - 1] = EndAfter(i - 1)
        BY <4>1
      <4>. QED
        BY <3>2, <4>1, <4>2, EndsGrow
    <3>. QED
      BY <3>1, <3>2
  <2>2. e = [i \in 0..N |-> e[i]]
    OBVIOUS
  <2>. HIDE DEF e
  <2>. QED
    BY <2>1, <2>2 DEF Ending
<1>3. Ending(end)
  <2>. HIDE DEF e
  <2>. QED
    BY <1>2, Zenon
<1>4. Offsets = [i \in DOMAIN order |-> end[i]]
  BY DEF Offsets, Ending
<1>. HIDE DEF end
<1>5. \A i \in 0..N : end[i] = IF i = 0 THEN 0 ELSE end[i - 1] + CellLen(order[i])
  BY <1>3 DEF Ending
<1>. DEFINE G == {k \in Nat : k <= N => end[k] = EndAfter(k)}
<1>6. 0 \in G
  BY <1>1, <1>5, EndsGrow
<1>7. ASSUME NEW k \in Nat, k \in G
      PROVE  k + 1 \in G
  <2>. SUFFICES ASSUME k + 1 <= N
                PROVE  end[k + 1] = EndAfter(k + 1)
    OBVIOUS
  <2>1. k + 1 \in 0..N /\ k + 1 \in 1..N /\ (k + 1) - 1 = k /\ k + 1 # 0 /\ k <= N
    BY <1>1
  <2>2. end[k + 1] = end[k] + CellLen(order[k + 1])
    BY <1>5, <2>1
  <2>3. EndAfter(k + 1) = EndAfter(k) + CellLen(order[k + 1])
    BY <2>1, EndsGrow
  <2>. QED
    BY <1>7, <2>1, <2>2, <2>3
<1>. HIDE DEF G
<1>8. Nat \subseteq G
  BY <1>6, <1>7, Climb
<1>9. \A i \in 1..N : end[i] = EndAfter(i)
  BY <1>1, <1>8 DEF G
<1>. QED
  BY <1>1, <1>4, <1>9

\* What is written in one piece is the header, the cells and the checksum.
LEMMA InOnePiece ==
  ASSUME Settled
  PROVE  LET whole == BagHeader \o Joined(BagCells)
         IN serialize_boc_with(order, roots, options)
              = IF options.crc32c THEN Append(whole, crc32c(whole)) ELSE whole
<1>. DEFINE cells == [i \in DOMAIN order |-> CellBytes(order[i], Children(order)[i], ref_size, options.stored_hashes)]
            ends == [i \in DOMAIN cells |-> Len(Joined(SubSeq(cells, 1, i)))]
            whole == HeaderBytes(order, roots, options, ref_size, ends) \o Joined(cells)
<1>1. serialize_boc_with(order, roots, options) = IF options.crc32c THEN Append(whole, crc32c(whole)) ELSE whole
  BY DEF serialize_boc_with, ref_size
<1>2. cells = BagCells
  BY DEF BagCells, CellAt
<1>. HIDE DEF cells
<1>3. ends = Offsets
  <2>1. ASSUME NEW i \in 1..Len(order)
        PROVE  SubSeq(BagCells, 1, i) = First(BagCells, i)
    <3>. DEFINE S == {BagCells[j] : j \in 1..Len(order)}
    <3>1. BagCells \in Seq(S) /\ Len(BagCells) = Len(order)
      <4>1. \A j \in 1..Len(order) : BagCells[j] \in S
        OBVIOUS
      <4>. HIDE DEF S
      <4>2. BagCells \in [1..Len(order) -> S]
        BY <4>1, CellsAre DEF First
      <4>. QED
        BY <4>2, CellsAre, ListOf
    <3>. HIDE DEF S
    <3>2. i \in 0..Len(BagCells) /\ i \in Nat
      BY <2>1, <3>1, CellsAre
    <3>3. /\ SubSeq(BagCells, 1, i) \in Seq(S) /\ Len(SubSeq(BagCells, 1, i)) = i
          /\ \A j \in 1..i : SubSeq(BagCells, 1, i)[j] = BagCells[j]
      BY <3>1, <3>2, Beginning
    <3>4. SubSeq(BagCells, 1, i) = [j \in 1..i |-> SubSeq(BagCells, 1, i)[j]]
      BY <3>3, ListIs
    <3>. QED
      BY <3>3, <3>4 DEF First
  <2>2. ends = [i \in 1..Len(order) |-> Len(Joined(SubSeq(BagCells, 1, i)))]
    BY <1>2, CellsAre
  <2>3. Offsets = [i \in 1..Len(order) |-> EndAfter(i)]
    BY OffsetsAre, CellsAre
  <2>. HIDE DEF ends
  <2>. QED
    BY <2>1, <2>2, <2>3 DEF EndAfter
<1>. HIDE DEF ends
<1>4. whole = BagHeader \o Joined(BagCells)
  BY <1>2, <1>3 DEF BagHeader
<1>. HIDE DEF whole
<1>. QED
  BY <1>1, <1>4

LEMMA HeaderIsRun ==
  ASSUME Settled
  PROVE  IsRun(BagHeader)
<1>. DEFINE offset_size == byte_width(Offsets[Len(Offsets)])
            starts == [i \in DOMAIN roots |-> index_of(order, roots[i])]
            a == MAGIC
            b == <<<<"flags", options.index, options.crc32c, ref_size>>, <<"width", offset_size>>>>
            c == push_be(Len(order), ref_size)
            d == push_be(Len(roots), ref_size)
            e == push_be(0, ref_size)
            f == push_be(Offsets[Len(Offsets)], offset_size)
            g == Joined(Digits(starts, ref_size))
            h == IF options.index THEN Joined(Digits(Offsets, offset_size)) ELSE <<>>
<1>1. BagHeader = ((((((a \o b) \o c) \o d) \o e) \o f) \o g) \o h
  <2>1. Digits(starts, ref_size) = [i \in DOMAIN roots |-> push_be(index_of(order, roots[i]), ref_size)]
    BY DEF Digits
  <2>. QED
    BY <2>1 DEF BagHeader, HeaderBytes, Digits
<1>2. ref_size \in Nat /\ offset_size \in Nat
  BY WidthIs DEF ref_size
<1>3. IsRun(a) /\ IsRun(b)
  <2>1. \A x, y : <<x>> \in Seq({x}) /\ <<x, y>> \in Seq({x, y})
    OBVIOUS
  <2>. QED
    BY <2>1, Zenon DEF IsRun, MAGIC
<1>4. IsRun(c) /\ IsRun(d) /\ IsRun(e) /\ IsRun(f)
  BY <1>2, PushIs
<1>5. IsRun(g)
  <2>1. Len(roots) \in Nat /\ DOMAIN starts = 1..Len(roots)
    BY RunIs DEF Settled
  <2>. HIDE DEF starts
  <2>. QED
    BY <1>2, <2>1, DigitsAre
<1>6. IsRun(h)
  <2>1. Len(order) \in Nat /\ DOMAIN Offsets = 1..Len(order)
    BY CellsAre, OffsetsAre
  <2>2. IsRun(Joined(Digits(Offsets, offset_size)))
    BY <1>2, <2>1, DigitsAre
  <2>. QED
    BY <2>2, EmptyRun
<1>. HIDE DEF offset_size, starts, a, b, c, d, e, f, g, h
<1>7. IsRun(a \o b)
  BY <1>3, Joins
<1>8. IsRun((a \o b) \o c)
  BY <1>4, <1>7, Joins
<1>9. IsRun(((a \o b) \o c) \o d)
  BY <1>4, <1>8, Joins
<1>10. IsRun((((a \o b) \o c) \o d) \o e)
  BY <1>4, <1>9, Joins
<1>11. IsRun(((((a \o b) \o c) \o d) \o e) \o f)
  BY <1>4, <1>10, Joins
<1>12. IsRun((((((a \o b) \o c) \o d) \o e) \o f) \o g)
  BY <1>5, <1>11, Joins
<1>13. IsRun(((((((a \o b) \o c) \o d) \o e) \o f) \o g) \o h)
  BY <1>6, <1>12, Joins
<1>. QED
  BY <1>1, <1>13

\* A chunk takes a cell at least, and none past the last.
LEMMA ChunkEndIs ==
  ASSUME Len(order) \in Nat, cursor \in 1..Len(order)
  PROVE  ChunkEnd \in cursor..Len(order)
<1>. DEFINE full == {n \in cursor..Len(order) : Len(Run(n)) >= CHUNK_TARGET}
<1>1. ChunkEnd = IF full = {} THEN Len(order) ELSE Min(full)
  BY DEF ChunkEnd
<1>2. full \in SUBSET (cursor..Len(order))
  OBVIOUS
<1>. HIDE DEF full
<1>3. ASSUME full # {}
      PROVE  Min(full) \in full
  <2>1. \E x \in full : \A y \in full : x <= y
    <3>. DEFINE N == Len(order)
                S == {N - x : x \in full}
    <3>0. N \in Nat /\ \A x \in full : x \in Nat /\ x <= N
      BY <1>2
    <3>1. S \in SUBSET (0..N) /\ S # {}
      <4>1. \A x \in full : N - x \in 0..N
        BY <3>0
      <4>. HIDE DEF N
      <4>. QED
        BY <1>3, <4>1, Zenon
    <3>2. PICK s \in S : \A t \in S : s >= t
      BY <3>1, Greatest
    <3>3. PICK x \in full : s = N - x
      BY <3>2
    <3>4. ASSUME NEW y \in full
          PROVE  x <= y
      <4>1. N - y \in S
        OBVIOUS
      <4>2. N - x >= N - y
        BY <3>2, <3>3, <4>1
      <4>. QED
        BY <3>0, <4>2
    <3>. QED
      BY <3>4
  <2>. QED
    BY <2>1, Zenon DEF Min
<1>4. CASE full = {}
  BY <1>1, <1>4
<1>5. CASE full # {}
  BY <1>1, <1>2, <1>3, <1>5, Zenon
<1>. QED
  BY <1>4, <1>5

\* The cells a chunk adds to the ones written.
LEMMA ChunkIs ==
  ASSUME Settled, cursor \in 1..Len(order), NEW n \in cursor..Len(order)
  PROVE  /\ Joined(First(BagCells, cursor - 1)) \o Run(n) = Joined(First(BagCells, n))
         /\ IsRun(Joined(First(BagCells, cursor - 1))) /\ IsRun(Run(n))
<1>. DEFINE a == cursor - 1
            m == n - cursor + 1
            c == Shifted(BagCells, a)
<1>1. a \in Nat /\ m \in Nat /\ a + m = n /\ Len(order) \in Nat
  BY CellsAre
<1>2. \A i \in 1..a + m : IsRun(BagCells[i])
  BY <1>1, CellsAre
<1>3. Run(n) = Joined(First(c, m))
  <2>1. ASSUME NEW k \in 1..m
        PROVE  c[k] = CellAt(cursor + k - 1)
    <3>1. k \in Nat /\ a + k = cursor + k - 1 /\ a + k \in 1..Len(order)
      BY <1>1, <2>1
    <3>. QED
      BY <3>1, CellsAre DEF Shifted
  <2>2. First(c, m) = [k \in 1..m |-> CellAt(cursor + k - 1)]
    <3>. HIDE DEF c
    <3>. QED
      BY <2>1 DEF First
  <2>. QED
    BY <2>2 DEF Run
<1>4. IsRun(Joined(First(BagCells, a)))
  BY <1>1, <1>2, JoinedIsRun
<1>5. IsRun(Joined(First(c, m)))
  <2>1. \A k \in 1..m : c[k] = BagCells[a + k]
    BY <1>1 DEF Shifted
  <2>2. ASSUME NEW k \in 1..m
        PROVE  IsRun(c[k])
    <3>1. a + k \in 1..a + m
      BY <1>1, <2>2
    <3>2. IsRun(BagCells[a + k])
      BY <1>2, <3>1
    <3>. HIDE DEF c
    <3>. QED
      BY <2>1, <3>2
  <2>. HIDE DEF c
  <2>. QED
    BY <1>1, <2>2, JoinedIsRun
<1>6. Joined(First(BagCells, a)) \o Joined(First(c, m)) = Joined(First(BagCells, a + m))
  <2>. HIDE DEF a, m
  <2>. QED
    BY <1>1, <1>2, JoinedInTwo
<1>. QED
  BY <1>1, <1>3, <1>4, <1>5, <1>6

\* What has been written: the header, then the cells behind the cursor, and
\* the checksum runs over all of it.
Written ==
  /\ phase \in {"start", "walk", "header"} => cursor = 1
  /\ phase = "header" => header = BagHeader /\ running_crc = header
  /\ phase = "body" => /\ cursor \in 1..Len(order) + 1
                       /\ out = BagHeader \o Joined(First(BagCells, cursor - 1))
                       /\ running_crc = out
  /\ phase = "done" => out = serialize_boc_with(order, roots, options)

\* Only the parts a bag is made of decide what it is.
LEMMA PartsStay ==
  ASSUME UNCHANGED <<order, roots, options>>
  PROVE  /\ BagHeader' = BagHeader /\ BagCells' = BagCells
         /\ serialize_boc_with(order, roots, options)' = serialize_boc_with(order, roots, options)
<1>1. ref_size' = ref_size
  BY DEF ref_size
<1>2. Offsets' = Offsets
  BY DEF Offsets, CellLen, ref_size
<1>3. BagHeader' = BagHeader
  BY <1>1, <1>2 DEF BagHeader
<1>4. BagCells' = BagCells
  BY <1>1 DEF BagCells, CellAt
<1>. QED
  BY <1>3, <1>4

-----------------------------------------------------------------------------
(* The graph.                                                              *)

Kids(c) == {c.refs[r] : r \in DOMAIN c.refs}
Listed(list) == {list[i] : i \in DOMAIN list}

\* The layers from the roots down.
LayerStep(list, f, k) == IF k = 0 THEN Listed(list) ELSE UNION {Kids(c) : c \in f[k - 1]}

LEMMA LayersCount == Layers \in Nat
BY WriterAssumption, Zenon

LEMMA LayerIs ==
  ASSUME NEW list
  PROVE  /\ Layer(list, 0) = Listed(list)
         /\ \A n \in Nat : n < Layers => Layer(list, n + 1) = UNION {Kids(c) : c \in Layer(list, n)}
<1>. DEFINE Upto(f, n) == /\ f = [k \in 0..Layers |-> f[k]]
                          /\ \A k \in 0..Layers : k < n => f[k] = LayerStep(list, f, k)
            G == {n \in Nat : \E f : Upto(f, n)}
            Solves(f) == f = [k \in 0..Layers |-> LayerStep(list, f, k)]
            layer == CHOOSE f : Solves(f)
<1>1. 0 \in G
  <2>. DEFINE f == [k \in 0..Layers |-> {}]
  <2>1. Upto(f, 0)
    OBVIOUS
  <2>. QED
    BY <2>1
<1>2. ASSUME NEW n \in Nat, n \in G
      PROVE  n + 1 \in G
  <2>1. PICK f : Upto(f, n)
    BY <1>2
  <2>. DEFINE g == [k \in 0..Layers |-> IF k = n THEN LayerStep(list, f, k) ELSE f[k]]
  <2>2. ASSUME NEW k \in 0..Layers, k < n + 1
        PROVE  g[k] = LayerStep(list, g, k)
    <3>1. g[k] = LayerStep(list, f, k)
      BY <2>1, <2>2
    <3>2. k # 0 => g[k - 1] = f[k - 1]
      BY <2>2, LayersCount
    <3>. HIDE DEF g
    <3>. QED
      BY <3>1, <3>2 DEF LayerStep
  <2>3. g = [k \in 0..Layers |-> g[k]]
    OBVIOUS
  <2>4. Upto(g, n + 1)
    <3>. HIDE DEF g
    <3>. QED
      BY <2>2, <2>3
  <2>. HIDE DEF Upto
  <2>. QED
    BY <2>4
<1>3. Layers + 1 \in G
  <2>. HIDE DEF G
  <2>1. Nat \subseteq G
    BY <1>1, <1>2, Climb
  <2>. QED
    BY <2>1, LayersCount
<1>4. \E f : Solves(f)
  <2>1. PICK f : Upto(f, Layers + 1)
    BY <1>3
  <2>2. \A k \in 0..Layers : k < Layers + 1
    BY LayersCount
  <2>3. Solves(f)
    BY <2>1, <2>2
  <2>. QED
    BY <2>3
<1>5. Solves(layer)
  <2>. HIDE DEF Solves
  <2>. QED
    BY <1>4, Zenon
<1>6. \A n : Layer(list, n) = layer[n]
  BY DEF Layer, LayerStep, Listed, Kids
<1>. HIDE DEF layer
<1>7. \A k \in 0..Layers : layer[k] = LayerStep(list, layer, k)
  BY <1>5
<1>8. Layer(list, 0) = Listed(list)
  <2>1. 0 \in 0..Layers
    BY LayersCount
  <2>2. layer[0] = LayerStep(list, layer, 0)
    BY <1>7, <2>1
  <2>. QED
    BY <1>6, <2>2, Zenon DEF LayerStep
<1>9. ASSUME NEW n \in Nat, n < Layers
      PROVE  Layer(list, n + 1) = UNION {Kids(c) : c \in Layer(list, n)}
  <2>1. n + 1 \in 0..Layers /\ n + 1 # 0 /\ (n + 1) - 1 = n
    BY <1>9, LayersCount
  <2>2. layer[n + 1] = UNION {Kids(c) : c \in layer[n]}
    BY <1>7, <2>1 DEF LayerStep
  <2>. QED
    BY <1>6, <2>2
<1>. QED
  BY <1>8, <1>9

\* The last layer a cell is in; what it references is in a later one.
Rank(list, c) == CHOOSE n \in 0..Layers : c \in Layer(list, n) /\ \A m \in 0..Layers : c \in Layer(list, m) => n >= m

LEMMA RankIs ==
  ASSUME NEW list, NEW c \in Graph(list)
  PROVE  /\ Rank(list, c) \in 0..Layers /\ c \in Layer(list, Rank(list, c))
         /\ \A m \in 0..Layers : c \in Layer(list, m) => Rank(list, c) >= m
<1>. DEFINE S == {n \in 0..Layers : c \in Layer(list, n)}
<1>1. S \in SUBSET (0..Layers) /\ S # {}
  BY DEF Graph
<1>2. PICK x \in S : \A y \in S : x >= y
  <2>. HIDE DEF S
  <2>. QED
    BY <1>1, Greatest, LayersCount
<1>3. x \in 0..Layers /\ c \in Layer(list, x) /\ \A m \in 0..Layers : c \in Layer(list, m) => x >= m
  BY <1>2
<1>. QED
  BY <1>3, Zenon DEF Rank

LEMMA RankGrows ==
  ASSUME NEW list \in RootLists, NEW c \in Graph(list), NEW d \in Kids(c)
  PROVE  d \in Graph(list) /\ Rank(list, d) > Rank(list, c)
<1>. DEFINE n == Rank(list, c)
<1>1. n \in 0..Layers /\ c \in Layer(list, n) /\ Layers \in Nat
  BY RankIs, LayersCount
<1>2. n # Layers
  <2>. SUFFICES ASSUME n = Layers PROVE FALSE
    OBVIOUS
  <2>1. c.refs = <<>>
    BY <1>1, WriterAssumption, Zenon
  <2>. QED
    BY <2>1 DEF Kids
<1>3. n \in Nat /\ n < Layers /\ n + 1 \in 0..Layers
  BY <1>1, <1>2
<1>. HIDE DEF n
<1>4. d \in Layer(list, n + 1)
  BY <1>1, <1>3, LayerIs
<1>5. d \in Graph(list)
  BY <1>3, <1>4 DEF Graph
<1>6. Rank(list, d) \in 0..Layers /\ Rank(list, d) >= n + 1
  BY <1>3, <1>4, <1>5, RankIs
<1>. QED
  BY <1>1, <1>3, <1>5, <1>6 DEF n

\* A set of cells that holds the roots and what its cells reference holds all.
LEMMA FromTheRoots ==
  ASSUME NEW list, NEW T, Listed(list) \subseteq T, \A c \in T : Kids(c) \subseteq T
  PROVE  Graph(list) \subseteq T
<1>. DEFINE G == {n \in Nat : n <= Layers => Layer(list, n) \subseteq T}
<1>1. 0 \in G
  BY LayerIs
<1>2. ASSUME NEW n \in Nat, n \in G
      PROVE  n + 1 \in G
  <2>. SUFFICES ASSUME n + 1 <= Layers
                PROVE  Layer(list, n + 1) \subseteq T
    OBVIOUS
  <2>1. n < Layers /\ Layer(list, n) \subseteq T
    BY <1>2, LayersCount
  <2>2. Layer(list, n + 1) = UNION {Kids(c) : c \in Layer(list, n)}
    BY <2>1, LayerIs
  <2>. QED
    BY <2>1, <2>2
<1>. HIDE DEF G
<1>3. Nat \subseteq G
  BY <1>1, <1>2, Climb
<1>4. \A n \in 0..Layers : Layer(list, n) \subseteq T
  BY <1>3, LayersCount DEF G
<1>. QED
  BY <1>4 DEF Graph

LEMMA ListedIsRun ==
  ASSUME NEW list \in RootLists
  PROVE  /\ list \in Seq(Graph(list)) /\ \A c \in Graph(list) : Formed(c)
         /\ \A c, d \in Graph(list) : repr_hash(c) = repr_hash(d) => c = d
BY WriterAssumption, Zenon

-----------------------------------------------------------------------------
(* The walk.                                                               *)

\* A cell is done once it is in the order, and open while its emit is on the
\* stack.
DoneCells == {order[i] : i \in DOMAIN order}
OpenCells == {stack[i].cell : i \in {i \in DOMAIN stack : stack[i].step = "emit"}}

\* A cell on the stack lies below every open one behind it.
StackDescends ==
  \A i, j \in DOMAIN stack : i < j /\ stack[j].step = "emit" =>
    Rank(roots, stack[i].cell) > Rank(roots, stack[j].cell)

\* What an open cell references is done, or on the stack ahead of its emit.
KidsAhead ==
  \A j \in DOMAIN stack : stack[j].step = "emit" =>
    \A d \in Kids(stack[j].cell) : d \in DoneCells \/ \E i \in DOMAIN stack : i < j /\ stack[i].cell = d

RootsAhead ==
  phase = "start" \/ \A d \in Listed(roots) : d \in DoneCells \/ \E i \in DOMAIN stack : stack[i].cell = d

\* What a done cell references comes after it.
OrderDescends ==
  \A i \in DOMAIN order : \A d \in Kids(order[i]) : \E j \in DOMAIN order : i < j /\ order[j] = d

\* The seen hashes are of the cells that are done or open, each of them once.
EachOnce ==
  /\ seen = {repr_hash(c) : c \in DoneCells \cup OpenCells}
  /\ DoneCells \cap OpenCells = {}
  /\ \A i, j \in DOMAIN order : order[i] = order[j] => i = j

Entries == [step : {"visit", "emit"}, cell : Graph(roots)]

WalkType ==
  /\ roots \in RootLists /\ options \in BocOptions
  /\ phase \in {"start", "walk", "header", "body", "done", "refused"}
  /\ stack \in Seq(Entries) /\ order \in Seq(Graph(roots))
  /\ phase # "walk" => stack = <<>>

WalkInv == WalkType /\ EachOnce /\ StackDescends /\ KidsAhead /\ RootsAhead /\ OrderDescends

\* Once the walk is over the order is the whole graph.
LEMMA OrderIsTheGraph ==
  ASSUME WalkInv, stack = <<>>, phase # "start"
  PROVE  DoneCells = Graph(roots)
<1>1. order \in Seq(Graph(roots))
  BY DEF WalkInv, WalkType
<1>2. DoneCells \subseteq Graph(roots)
  BY <1>1, ListIs DEF DoneCells
<1>3. Listed(roots) \subseteq DoneCells
  BY DEF WalkInv, RootsAhead
<1>4. \A c \in DoneCells : Kids(c) \subseteq DoneCells
  BY DEF WalkInv, OrderDescends, DoneCells
<1>. QED
  BY <1>2, <1>3, <1>4, FromTheRoots

LEMMA WalkSettles ==
  ASSUME WalkInv
  PROVE  Settled
<1>1. roots \in RootLists /\ options \in BocOptions /\ order \in Seq(Graph(roots))
  BY DEF WalkInv, WalkType
<1>2. roots \in Seq(Graph(roots)) /\ \A c \in Graph(roots) : Formed(c)
  BY <1>1, ListedIsRun
<1>3. \A i \in DOMAIN order : order[i] \in Graph(roots)
  BY <1>1, ListIs
<1>. QED
  BY <1>1, <1>2, <1>3 DEF Settled, IsRun

\* A list behind a first entry, and one with entries put before it.
LEMMA Rests ==
  ASSUME NEW E, NEW s \in Seq(E), s # <<>>
  PROVE  /\ Len(s) \in Nat \ {0} /\ DOMAIN s = 1..Len(s) /\ Head(s) = s[1]
         /\ Tail(s) \in Seq(E) /\ Len(Tail(s)) = Len(s) - 1 /\ DOMAIN Tail(s) = 1..Len(s) - 1
         /\ \A i \in 1..Len(s) - 1 : Tail(s)[i] = s[i + 1]
<1>1. Len(s) \in Nat \ {0} /\ DOMAIN s = 1..Len(s)
  OBVIOUS
<1>2. Head(s) = s[1]
  OBVIOUS
<1>3. Tail(s) \in Seq(E) /\ Len(Tail(s)) = Len(s) - 1
  OBVIOUS
<1>4. DOMAIN Tail(s) = 1..Len(s) - 1
  BY <1>3, ListIs
<1>5. \A i \in 1..Len(s) - 1 : Tail(s)[i] = s[i + 1]
  BY <1>1
<1>. QED
  BY <1>1, <1>2, <1>3, <1>4, <1>5

InFront(k, e, s) == k \o <<e>> \o s

AheadOf(E, k, e, s, t) ==
  /\ t \in Seq(E) /\ DOMAIN t = 1..Len(k) + 1 + Len(s)
  /\ \A i \in 1..Len(k) : t[i] = k[i]
  /\ t[Len(k) + 1] = e
  /\ \A i \in 1..Len(s) : t[Len(k) + 1 + i] = s[i]

LEMMA Before ==
  ASSUME NEW E, NEW k \in Seq(E), NEW e \in E, NEW s \in Seq(E)
  PROVE  AheadOf(E, k, e, s, InFront(k, e, s))
<1>. DEFINE u == k \o <<e>>
            t == u \o s
<1>1. Len(k) \in Nat /\ Len(s) \in Nat
  OBVIOUS
<1>2. u \in Seq(E) /\ Len(u) = Len(k) + 1 /\ u[Len(k) + 1] = e /\ \A i \in 1..Len(k) : u[i] = k[i]
  BY <1>1
<1>3. InFront(k, e, s) = t
  BY DEF InFront
<1>. HIDE DEF u
<1>4. t \in Seq(E) /\ Len(t) = Len(u) + Len(s)
  BY <1>2
<1>5. \A i \in 1..Len(u) : t[i] = u[i]
  BY <1>2
<1>6. \A i \in 1..Len(s) : t[Len(u) + i] = s[i]
  BY <1>1, <1>2
<1>. HIDE DEF t
<1>7. DOMAIN t = 1..Len(t)
  BY <1>4, ListIs
<1>. QED
  BY <1>1, <1>2, <1>3, <1>4, <1>5, <1>6, <1>7 DEF AheadOf

\* The cell at the top of the stack.
LEMMA TopIs ==
  ASSUME WalkInv, stack # <<>>
  PROVE  /\ roots \in RootLists /\ phase = "walk"
         /\ Len(stack) \in Nat \ {0} /\ DOMAIN stack = 1..Len(stack) /\ 1 \in DOMAIN stack
         /\ \A j \in DOMAIN stack : stack[j] \in Entries /\ stack[j].cell \in Graph(roots)
         /\ \A j \in DOMAIN stack : stack[j].step \in {"visit", "emit"}
         /\ \A c \in Graph(roots) : Rank(roots, c) \in Nat
         /\ DoneCells \cup OpenCells \subseteq Graph(roots)
<1>1. roots \in RootLists /\ stack \in Seq(Entries) /\ order \in Seq(Graph(roots)) /\ phase = "walk"
  BY DEF WalkInv, WalkType
<1>2. Len(stack) \in Nat \ {0} /\ DOMAIN stack = 1..Len(stack) /\ 1 \in DOMAIN stack
  BY <1>1, Rests
<1>3. \A j \in DOMAIN stack : stack[j] \in Entries
  BY <1>1, ListIs
<1>4. \A j \in DOMAIN stack : stack[j].cell \in Graph(roots) /\ stack[j].step \in {"visit", "emit"}
  BY <1>3 DEF Entries
<1>5. \A c \in Graph(roots) : Rank(roots, c) \in Nat
  <2>1. \A c \in Graph(roots) : Rank(roots, c) \in 0..Layers
    BY RankIs
  <2>. QED
    BY <2>1, LayersCount
<1>6. DoneCells \subseteq Graph(roots)
  BY <1>1, ListIs DEF DoneCells
<1>7. OpenCells \subseteq Graph(roots)
  BY <1>4 DEF OpenCells
<1>. QED
  BY <1>1, <1>2, <1>3, <1>4, <1>5, <1>6, <1>7

\* The cell at the top is not open further down.
LEMMA TopIsNotOpen ==
  ASSUME WalkInv, stack # <<>>, NEW j \in DOMAIN stack, stack[j].step = "emit", stack[j].cell = stack[1].cell
  PROVE  j = 1
<1>. SUFFICES ASSUME j # 1 PROVE FALSE
  OBVIOUS
<1>1. 1 \in DOMAIN stack /\ 1 < j
  BY TopIs
<1>2. Rank(roots, stack[1].cell) > Rank(roots, stack[j].cell)
  BY <1>1 DEF WalkInv, StackDescends
<1>3. Rank(roots, stack[1].cell) \in Nat
  BY <1>1, TopIs
<1>. QED
  BY <1>2, <1>3

\* A cell that was seen before is passed over.
LEMMA SeenKeeps ==
  ASSUME WalkInv, VisitCell, repr_hash(Head(stack).cell) \in seen
  PROVE  WalkInv'
<1>. DEFINE cell == stack[1].cell
            L == Len(stack) - 1
<1>1. /\ phase = "walk" /\ stack # <<>> /\ Head(stack).step = "visit"
      /\ seen' = seen \cup {repr_hash(Head(stack).cell)} /\ stack' = <<>> \o Tail(stack)
      /\ UNCHANGED <<roots, options, order, phase>>
  BY DEF VisitCell
<1>2. stack \in Seq(Entries) /\ Head(stack) = stack[1]
  BY <1>1, Rests DEF WalkInv, WalkType
<1>3. /\ stack' = Tail(stack) /\ stack' \in Seq(Entries) /\ DOMAIN stack' = 1..L
      /\ \A i \in 1..L : stack'[i] = stack[i + 1]
  <2>1. Tail(stack) \in Seq(Entries)
    BY <1>1, <1>2, Rests
  <2>2. <<>> \o Tail(stack) = Tail(stack)
    BY <2>1
  <2>. QED
    BY <1>1, <1>2, <2>1, <2>2, Rests
<1>4. seen' = seen
  BY <1>1
<1>5. L \in Nat /\ DOMAIN stack = 1..L + 1 /\ 1 \in DOMAIN stack
  BY <1>1, TopIs
<1>6. \A i \in DOMAIN stack' : i + 1 \in DOMAIN stack /\ stack'[i] = stack[i + 1] /\ i \in Nat
  BY <1>3, <1>5
<1>7. \A j \in DOMAIN stack : j # 1 => j - 1 \in DOMAIN stack' /\ stack'[j - 1] = stack[j] /\ j \in Nat
  BY <1>3, <1>5
<1>8. DoneCells' = DoneCells
  BY <1>1 DEF DoneCells
<1>9. OpenCells' = OpenCells
  <2>1. stack[1].step # "emit"
    BY <1>1, <1>2
  <2>. QED
    BY <1>6, <1>7, <2>1 DEF OpenCells
<1>10. cell \in DoneCells
  <2>1. PICK c \in DoneCells \cup OpenCells : repr_hash(c) = repr_hash(cell)
    BY <1>2 DEF WalkInv, EachOnce
  <2>2. c \in Graph(roots) /\ cell \in Graph(roots) /\ roots \in RootLists
    BY <1>1, <1>5, <2>1, TopIs
  <2>3. c = cell
    BY <2>1, <2>2, ListedIsRun
  <2>4. cell \notin OpenCells
    <3>. SUFFICES ASSUME NEW j \in DOMAIN stack, stack[j].step = "emit", stack[j].cell = cell PROVE FALSE
      BY DEF OpenCells
    <3>1. j = 1
      BY <1>1, TopIsNotOpen
    <3>. QED
      BY <1>1, <1>2, <3>1
  <2>. QED
    BY <2>1, <2>3, <2>4
<1>11. \A d : (\E j \in DOMAIN stack : stack[j].cell = d) => d \in DoneCells \/ \E i \in DOMAIN stack' : stack'[i].cell = d
  BY <1>7, <1>10
<1>12. WalkType'
  <2>1. Entries' = Entries /\ Graph(roots)' = Graph(roots)
    BY <1>1 DEF Entries
  <2>. QED
    BY <1>1, <1>3, <2>1 DEF WalkInv, WalkType
<1>13. EachOnce'
  BY <1>1, <1>4, <1>8, <1>9 DEF WalkInv, EachOnce
<1>14. StackDescends'
  <2>. SUFFICES ASSUME NEW i \in DOMAIN stack', NEW j \in DOMAIN stack', i < j, stack'[j].step = "emit"
                PROVE  Rank(roots, stack'[i].cell) > Rank(roots, stack'[j].cell)
    BY <1>1 DEF StackDescends
  <2>1. i + 1 \in DOMAIN stack /\ j + 1 \in DOMAIN stack /\ i + 1 < j + 1
    BY <1>6
  <2>. QED
    BY <1>6, <2>1 DEF WalkInv, StackDescends
<1>15. KidsAhead'
  <2>. SUFFICES ASSUME NEW j \in DOMAIN stack', stack'[j].step = "emit", NEW d \in Kids(stack'[j].cell), d \notin DoneCells
                PROVE  \E i \in DOMAIN stack' : i < j /\ stack'[i].cell = d
    BY <1>8 DEF KidsAhead
  <2>1. j + 1 \in DOMAIN stack /\ stack'[j] = stack[j + 1]
    BY <1>6
  <2>2. PICK i \in DOMAIN stack : i < j + 1 /\ stack[i].cell = d
    BY <2>1 DEF WalkInv, KidsAhead
  <2>3. i # 1
    BY <1>10, <2>2
  <2>4. i - 1 \in DOMAIN stack' /\ stack'[i - 1].cell = d
    BY <1>7, <2>2, <2>3
  <2>5. i - 1 < j
    BY <1>5, <1>6, <2>2
  <2>. QED
    BY <2>4, <2>5
<1>16. RootsAhead'
  BY <1>1, <1>8, <1>11 DEF WalkInv, RootsAhead
<1>17. OrderDescends'
  BY <1>1 DEF WalkInv, OrderDescends
<1>. QED
  BY <1>12, <1>13, <1>14, <1>15, <1>16, <1>17 DEF WalkInv

\* A cell not seen before opens: what it references goes ahead of its emit.
LEMMA FreshKeeps ==
  ASSUME WalkInv, VisitCell, repr_hash(Head(stack).cell) \notin seen
  PROVE  WalkInv'
<1>. DEFINE cell == stack[1].cell
            kids == [i \in DOMAIN cell.refs |-> Visit(cell.refs[i])]
            n == Len(kids)
            L == Len(stack) - 1
<1>1. /\ phase = "walk" /\ stack # <<>> /\ Head(stack).step = "visit"
      /\ seen' = seen \cup {repr_hash(Head(stack).cell)}
      /\ UNCHANGED <<roots, options, order, phase>>
  BY DEF VisitCell
<1>2. stack \in Seq(Entries) /\ Head(stack) = stack[1] /\ stack[1].step = "visit"
  BY <1>1, Rests DEF WalkInv, WalkType
<1>3. L \in Nat /\ DOMAIN stack = 1..L + 1 /\ 1 \in DOMAIN stack /\ cell \in Graph(roots) /\ roots \in RootLists
  BY <1>1, TopIs
<1>4. \A d \in Kids(cell) : d \in Graph(roots) /\ Rank(roots, d) > Rank(roots, cell)
  BY <1>3, RankGrows
<1>5. /\ n \in Nat /\ kids \in Seq(Entries)
      /\ \A i \in 1..n : kids[i].step = "visit" /\ kids[i].cell \in Kids(cell)
      /\ \A d \in Kids(cell) : \E i \in 1..n : kids[i].cell = d
  <2>1. PICK m \in 0..MAX_REFS : DOMAIN cell.refs = 1..m
    BY <1>3, ListedIsRun DEF Formed
  <2>2. m \in Nat
    OBVIOUS
  <2>3. ASSUME NEW i \in 1..m
        PROVE  kids[i].step = "visit" /\ kids[i].cell = cell.refs[i] /\ kids[i] \in Entries
    <3>1. kids[i] = Visit(cell.refs[i]) /\ cell.refs[i] \in Kids(cell)
      BY <2>1, <2>3 DEF Kids
    <3>2. cell.refs[i] \in Graph(roots)
      BY <1>4, <3>1
    <3>. QED
      BY <3>1, <3>2 DEF Visit, Entries
  <2>4. kids = [i \in 1..m |-> kids[i]]
    BY <2>1
  <2>5. kids \in [1..m -> Entries]
    <3>. HIDE DEF kids
    <3>. QED
      BY <2>3, <2>4
  <2>6. kids \in Seq(Entries) /\ Len(kids) = m
    <3>. HIDE DEF kids
    <3>. QED
      BY <2>2, <2>5, ListOf
  <2>. HIDE DEF kids
  <2>. QED
    BY <2>1, <2>2, <2>3, <2>6 DEF Kids
<1>6. stack' = kids \o <<Emit(cell)>> \o Tail(stack)
  BY <1>2 DEF VisitCell
<1>7. /\ Emit(cell) \in Entries /\ Emit(cell).step = "emit" /\ Emit(cell).cell = cell
      /\ Tail(stack) \in Seq(Entries) /\ Len(Tail(stack)) = L /\ \A i \in 1..L : Tail(stack)[i] = stack[i + 1]
  BY <1>1, <1>2, <1>3, Rests DEF Emit, Entries
<1>. HIDE DEF kids
<1>8. /\ stack' \in Seq(Entries) /\ DOMAIN stack' = 1..n + 1 + L
      /\ \A i \in 1..n : stack'[i] = kids[i]
      /\ stack'[n + 1] = Emit(cell)
      /\ \A i \in 1..L : stack'[n + 1 + i] = stack[i + 1]
  <2>. DEFINE E == Entries
              e == Emit(cell)
              s == Tail(stack)
              t == InFront(kids, e, s)
  <2>1. kids \in Seq(E) /\ e \in E /\ s \in Seq(E) /\ Len(s) = L
    BY <1>5, <1>7
  <2>2. stack' = t
    BY <1>6 DEF InFront
  <2>. HIDE DEF E, e, s
  <2>3. /\ t \in Seq(E) /\ DOMAIN t = 1..Len(kids) + 1 + Len(s)
        /\ \A i \in 1..Len(kids) : t[i] = kids[i]
        /\ t[Len(kids) + 1] = e
        /\ \A i \in 1..Len(s) : t[Len(kids) + 1 + i] = s[i]
    <3>1. AheadOf(E, kids, e, s, t)
      BY <2>1, Before, Zenon
    <3>. HIDE DEF t
    <3>. QED
      BY <3>1, Zenon DEF AheadOf
  <2>. HIDE DEF t
  <2>. QED
    BY <1>7, <2>1, <2>2, <2>3 DEF E, e, s
<1>. HIDE DEF n, L, cell
\* Where an entry of the new stack comes from, and where one of the old goes.
<1>9. \A j \in DOMAIN stack' : j \in Nat /\ (j \in 1..n \/ j = n + 1 \/ (j > n + 1 /\ j - n \in DOMAIN stack /\ j - n # 1))
  BY <1>3, <1>5, <1>8
<1>10. \A j \in DOMAIN stack : j # 1 => j \in Nat /\ j > 1 /\ j + n \in DOMAIN stack' /\ stack'[j + n] = stack[j]
  <2>. SUFFICES ASSUME NEW j \in DOMAIN stack, j # 1
                PROVE  j \in Nat /\ j > 1 /\ j + n \in DOMAIN stack' /\ stack'[j + n] = stack[j]
    OBVIOUS
  <2>. DEFINE i == j - 1
  <2>1. i \in 1..L /\ j \in Nat /\ j > 1 /\ n + 1 + i = j + n /\ i + 1 = j /\ j + n \in 1..n + 1 + L
    BY <1>3, <1>5
  <2>. HIDE DEF i
  <2>2. stack'[n + 1 + i] = stack[i + 1]
    BY <1>8, <2>1
  <2>. QED
    BY <1>8, <2>1, <2>2
<1>11. \A j \in DOMAIN stack' : j > n + 1 => stack'[j] = stack[j - n]
  <2>. SUFFICES ASSUME NEW j \in DOMAIN stack', j > n + 1
                PROVE  stack'[j] = stack[j - n]
    OBVIOUS
  <2>. DEFINE k == j - n
  <2>1. j \in Nat /\ k \in DOMAIN stack /\ k # 1 /\ k + n = j
    BY <1>5, <1>9
  <2>. HIDE DEF k
  <2>2. stack'[k + n] = stack[k]
    BY <1>10, <2>1
  <2>. QED
    BY <2>1, <2>2 DEF k
<1>12. \A j \in DOMAIN stack' : stack'[j].step = "emit" => j = n + 1 \/ j > n + 1
  BY <1>5, <1>8, <1>9
<1>13. n + 1 \in DOMAIN stack' /\ stack'[n + 1].step = "emit" /\ stack'[n + 1].cell = cell /\ \A i \in 1..n : i \in DOMAIN stack'
  BY <1>3, <1>5, <1>7, <1>8
<1>14. DoneCells' = DoneCells
  BY <1>1 DEF DoneCells
<1>15. OpenCells' = OpenCells \cup {cell}
  <2>1. ASSUME NEW j \in DOMAIN stack', stack'[j].step = "emit"
        PROVE  stack'[j].cell \in OpenCells \cup {cell}
    <3>1. CASE j = n + 1
      BY <1>13, <3>1
    <3>2. CASE j > n + 1
      <4>1. j - n \in DOMAIN stack /\ stack'[j] = stack[j - n]
        BY <1>5, <1>9, <1>11, <3>2
      <4>. QED
        BY <2>1, <4>1 DEF OpenCells
    <3>. QED
      BY <1>12, <2>1, <3>1, <3>2
  <2>2. ASSUME NEW j \in DOMAIN stack, stack[j].step = "emit"
        PROVE  stack[j].cell \in OpenCells'
    <3>1. j # 1
      BY <1>2, <2>2
    <3>2. j + n \in DOMAIN stack' /\ stack'[j + n] = stack[j]
      BY <1>10, <3>1
    <3>. QED
      BY <2>2, <3>2 DEF OpenCells
  <2>3. cell \in OpenCells'
    BY <1>13 DEF OpenCells
  <2>4. OpenCells' \subseteq OpenCells \cup {cell}
    BY <2>1 DEF OpenCells
  <2>5. OpenCells \subseteq OpenCells'
    BY <2>2 DEF OpenCells
  <2>. QED
    BY <2>3, <2>4, <2>5
<1>16. cell \notin DoneCells
  BY <1>2 DEF WalkInv, EachOnce, cell
<1>17. WalkType'
  <2>1. Entries' = Entries /\ Graph(roots)' = Graph(roots)
    BY <1>1 DEF Entries
  <2>. QED
    BY <1>1, <1>8, <2>1 DEF WalkInv, WalkType
<1>18. EachOnce'
  <2>1. seen' = {repr_hash(c) : c \in DoneCells' \cup OpenCells'}
    <3>1. seen = {repr_hash(c) : c \in DoneCells \cup OpenCells} /\ seen' = seen \cup {repr_hash(cell)}
      BY <1>1, <1>2 DEF WalkInv, EachOnce, cell
    <3>. QED
      BY <1>14, <1>15, <3>1
  <2>2. DoneCells' \cap OpenCells' = {}
    BY <1>14, <1>15, <1>16 DEF WalkInv, EachOnce
  <2>. QED
    BY <1>1, <2>1, <2>2 DEF WalkInv, EachOnce
<1>19. StackDescends'
  <2>. SUFFICES ASSUME NEW i \in DOMAIN stack', NEW j \in DOMAIN stack', i < j, stack'[j].step = "emit"
                PROVE  Rank(roots, stack'[i].cell) > Rank(roots, stack'[j].cell)
    BY <1>1 DEF StackDescends
  <2>1. CASE j = n + 1
    <3>1. i \in 1..n
      BY <1>5, <1>9, <2>1
    <3>. QED
      BY <1>4, <1>5, <1>8, <1>13, <2>1, <3>1
  <2>2. CASE j > n + 1
    <3>. DEFINE k == j - n
    <3>1. k \in DOMAIN stack /\ k # 1 /\ stack'[j] = stack[k] /\ 1 < k
      BY <1>5, <1>9, <1>11, <2>2
    <3>. HIDE DEF k
    <3>2. Rank(roots, cell) > Rank(roots, stack[k].cell)
      BY <1>3, <3>1 DEF WalkInv, StackDescends, cell
    <3>3. CASE i \in 1..n
      <4>1. Rank(roots, stack'[i].cell) > Rank(roots, cell) /\ stack'[i].cell \in Graph(roots)
        BY <1>4, <1>5, <1>8, <3>3
      <4>2. stack[k].cell \in Graph(roots)
        BY <1>1, <3>1, TopIs
      <4>3. /\ Rank(roots, stack'[i].cell) \in Nat /\ Rank(roots, cell) \in Nat /\ Rank(roots, stack[k].cell) \in Nat
        BY <1>1, <1>3, <4>1, <4>2, TopIs
      <4>. QED
        BY <3>1, <3>2, <4>1, <4>3
    <3>4. CASE i = n + 1
      BY <1>13, <3>1, <3>2, <3>4
    <3>5. CASE i > n + 1
      <4>1. i - n \in DOMAIN stack /\ stack'[i] = stack[i - n]
        BY <1>5, <1>9, <1>11, <3>5
      <4>2. i - n < k
        BY <1>5, <1>9 DEF k
      <4>. QED
        BY <3>1, <4>1, <4>2 DEF WalkInv, StackDescends
    <3>. QED
      BY <1>9, <3>3, <3>4, <3>5
  <2>. QED
    BY <1>12, <2>1, <2>2
<1>20. KidsAhead'
  <2>. SUFFICES ASSUME NEW j \in DOMAIN stack', stack'[j].step = "emit", NEW d \in Kids(stack'[j].cell), d \notin DoneCells
                PROVE  \E i \in DOMAIN stack' : i < j /\ stack'[i].cell = d
    BY <1>14 DEF KidsAhead
  <2>1. CASE j = n + 1
    <3>1. PICK i \in 1..n : kids[i].cell = d
      BY <1>5, <1>13, <2>1
    <3>. QED
      BY <1>5, <1>8, <1>13, <2>1, <3>1
  <2>2. CASE j > n + 1
    <3>. DEFINE k == j - n
    <3>1. j \in Nat /\ k \in DOMAIN stack /\ stack'[j] = stack[k]
      BY <1>5, <1>9, <1>11, <2>2
    <3>. HIDE DEF k
    <3>2. PICK i \in DOMAIN stack : i < k /\ stack[i].cell = d
      BY <3>1 DEF WalkInv, KidsAhead
    <3>3. CASE i = 1
      BY <1>13, <2>2, <3>2, <3>3 DEF cell
    <3>4. CASE i # 1
      <4>1. i \in Nat /\ i + n \in DOMAIN stack' /\ stack'[i + n].cell = d
        BY <1>10, <3>2, <3>4
      <4>2. i + n < j
        BY <1>5, <3>1, <3>2, <4>1 DEF k
      <4>. QED
        BY <4>1, <4>2
    <3>. QED
      BY <3>3, <3>4
  <2>. QED
    BY <1>12, <2>1, <2>2
<1>21. RootsAhead'
  <2>1. \A d : (\E j \in DOMAIN stack : stack[j].cell = d) => \E i \in DOMAIN stack' : stack'[i].cell = d
    BY <1>10, <1>13 DEF cell
  <2>. QED
    BY <1>1, <1>14, <2>1 DEF WalkInv, RootsAhead
<1>22. OrderDescends'
  BY <1>1 DEF WalkInv, OrderDescends
<1>. QED
  BY <1>17, <1>18, <1>19, <1>20, <1>21, <1>22 DEF WalkInv

\* A cell emitted is done, and goes ahead of what it references.
LEMMA EmitKeeps ==
  ASSUME WalkInv, EmitCell
  PROVE  WalkInv'
<1>. DEFINE cell == stack[1].cell
            L == Len(stack) - 1
<1>1. /\ phase = "walk" /\ stack # <<>> /\ Head(stack).step = "emit"
      /\ stack' = Tail(stack) /\ order' = <<Head(stack).cell>> \o order
      /\ UNCHANGED <<roots, options, seen, phase>>
  BY DEF EmitCell
<1>2. stack \in Seq(Entries) /\ Head(stack) = stack[1] /\ stack[1].step = "emit"
  BY <1>1, Rests DEF WalkInv, WalkType
<1>3. L \in Nat /\ DOMAIN stack = 1..L + 1 /\ 1 \in DOMAIN stack /\ cell \in Graph(roots) /\ roots \in RootLists
  BY <1>1, TopIs
<1>4. /\ stack' \in Seq(Entries) /\ DOMAIN stack' = 1..L
      /\ \A i \in 1..L : stack'[i] = stack[i + 1]
  BY <1>1, <1>2, Rests
<1>5. /\ Len(order) \in Nat /\ DOMAIN order = 1..Len(order)
      /\ order' \in Seq(Graph(roots)) /\ DOMAIN order' = 1..1 + Len(order)
      /\ order'[1] = cell /\ \A i \in 1..Len(order) : order'[1 + i] = order[i]
  <2>. DEFINE G == Graph(roots)
              k == <<cell>> \o order
  <2>1. order \in Seq(G) /\ cell \in G
    BY <1>3 DEF WalkInv, WalkType
  <2>2. order' = k
    BY <1>1, <1>2
  <2>. HIDE DEF G, cell
  <2>3. Len(order) \in Nat /\ DOMAIN order = 1..Len(order)
    BY <2>1, ListIs
  <2>4. k \in Seq(G) /\ Len(k) = 1 + Len(order)
    BY <2>1
  <2>5. k[1] = cell /\ \A i \in 1..Len(order) : k[1 + i] = order[i]
    BY <2>1, <2>3
  <2>. HIDE DEF k
  <2>6. DOMAIN k = 1..1 + Len(order)
    BY <2>4, ListIs
  <2>. QED
    BY <2>2, <2>3, <2>4, <2>5, <2>6 DEF G
<1>. HIDE DEF cell, L
<1>6. \A i \in DOMAIN stack' : i + 1 \in DOMAIN stack /\ stack'[i] = stack[i + 1] /\ i \in Nat /\ i + 1 # 1
  BY <1>3, <1>4
<1>7. \A j \in DOMAIN stack : j # 1 => j - 1 \in DOMAIN stack' /\ stack'[j - 1] = stack[j] /\ j \in Nat
  BY <1>3, <1>4
<1>8. 1 \in DOMAIN order' /\ \A i \in DOMAIN order : 1 + i \in DOMAIN order' /\ order'[1 + i] = order[i]
  BY <1>5
<1>9. \A i \in DOMAIN order' : i = 1 \/ (i > 1 /\ i - 1 \in DOMAIN order /\ order'[i] = order[i - 1])
  <2>. SUFFICES ASSUME NEW i \in DOMAIN order', i # 1
                PROVE  i > 1 /\ i - 1 \in DOMAIN order /\ order'[i] = order[i - 1]
    OBVIOUS
  <2>. DEFINE k == i - 1
  <2>1. i > 1 /\ k \in DOMAIN order /\ 1 + k = i
    BY <1>5
  <2>. HIDE DEF k
  <2>2. order'[1 + k] = order[k]
    BY <1>8, <2>1
  <2>. QED
    BY <2>1, <2>2 DEF k
<1>10. DoneCells' = DoneCells \cup {cell}
  BY <1>5, <1>8, <1>9 DEF DoneCells
<1>11. cell \in OpenCells
  BY <1>2, <1>3 DEF OpenCells, cell
<1>12. OpenCells' = OpenCells \ {cell}
  <2>1. ASSUME NEW i \in DOMAIN stack', stack'[i].step = "emit"
        PROVE  stack'[i].cell \in OpenCells /\ stack'[i].cell # cell
    <3>. DEFINE k == i + 1
    <3>1. k \in DOMAIN stack /\ stack'[i] = stack[k] /\ k # 1
      BY <1>6
    <3>. HIDE DEF k
    <3>2. stack[k].cell # cell
      BY <1>1, <2>1, <3>1, TopIsNotOpen DEF cell
    <3>. QED
      BY <2>1, <3>1, <3>2 DEF OpenCells
  <2>2. ASSUME NEW j \in DOMAIN stack, stack[j].step = "emit", stack[j].cell # cell
        PROVE  stack[j].cell \in OpenCells'
    <3>1. j # 1
      BY <2>2 DEF cell
    <3>. QED
      BY <1>7, <2>2, <3>1 DEF OpenCells
  <2>3. OpenCells' \subseteq OpenCells \ {cell}
    BY <2>1 DEF OpenCells
  <2>4. OpenCells \ {cell} \subseteq OpenCells'
    BY <2>2 DEF OpenCells
  <2>. QED
    BY <2>3, <2>4
<1>13. cell \notin DoneCells
  BY <1>11 DEF WalkInv, EachOnce
<1>14. WalkType'
  <2>1. Entries' = Entries /\ Graph(roots)' = Graph(roots)
    BY <1>1 DEF Entries
  <2>. QED
    BY <1>1, <1>4, <1>5, <2>1 DEF WalkInv, WalkType
<1>15. EachOnce'
  <2>1. DoneCells' \cup OpenCells' = DoneCells \cup OpenCells
    BY <1>10, <1>11, <1>12
  <2>2. seen' = {repr_hash(c) : c \in DoneCells' \cup OpenCells'}
    BY <1>1, <2>1 DEF WalkInv, EachOnce
  <2>3. DoneCells' \cap OpenCells' = {}
    BY <1>10, <1>12 DEF WalkInv, EachOnce
  <2>4. ASSUME NEW i \in DOMAIN order', NEW j \in DOMAIN order', order'[i] = order'[j]
        PROVE  i = j
    <3>1. \A k \in DOMAIN order : order[k] # cell
      BY <1>13 DEF DoneCells
    <3>2. i = 1 <=> j = 1
      BY <1>5, <1>9, <2>4, <3>1
    <3>3. ASSUME i # 1, j # 1
          PROVE  i - 1 = j - 1
      BY <1>9, <2>4, <3>3 DEF WalkInv, EachOnce
    <3>. QED
      BY <1>5, <3>2, <3>3
  <2>. QED
    BY <2>2, <2>3, <2>4 DEF EachOnce
<1>16. StackDescends'
  <2>. SUFFICES ASSUME NEW i \in DOMAIN stack', NEW j \in DOMAIN stack', i < j, stack'[j].step = "emit"
                PROVE  Rank(roots, stack'[i].cell) > Rank(roots, stack'[j].cell)
    BY <1>1 DEF StackDescends
  <2>1. i + 1 \in DOMAIN stack /\ j + 1 \in DOMAIN stack /\ i + 1 < j + 1
    BY <1>6
  <2>. QED
    BY <1>6, <2>1 DEF WalkInv, StackDescends
<1>17. KidsAhead'
  <2>. SUFFICES ASSUME NEW j \in DOMAIN stack', stack'[j].step = "emit", NEW d \in Kids(stack'[j].cell), d \notin DoneCells'
                PROVE  \E i \in DOMAIN stack' : i < j /\ stack'[i].cell = d
    BY DEF KidsAhead
  <2>1. j + 1 \in DOMAIN stack /\ stack'[j] = stack[j + 1] /\ j \in Nat
    BY <1>6
  <2>2. PICK i \in DOMAIN stack : i < j + 1 /\ stack[i].cell = d
    BY <1>10, <2>1 DEF WalkInv, KidsAhead
  <2>3. i # 1
    BY <1>10, <2>2 DEF cell
  <2>4. i \in Nat /\ i - 1 \in DOMAIN stack' /\ stack'[i - 1].cell = d
    BY <1>7, <2>2, <2>3
  <2>5. i - 1 < j
    BY <2>1, <2>2, <2>4
  <2>. QED
    BY <2>4, <2>5
<1>18. RootsAhead'
  <2>1. \A d : (\E j \in DOMAIN stack : stack[j].cell = d) => d = cell \/ \E i \in DOMAIN stack' : stack'[i].cell = d
    BY <1>7 DEF cell
  <2>. QED
    BY <1>1, <1>10, <2>1 DEF WalkInv, RootsAhead
<1>19. OrderDescends'
  <2>. SUFFICES ASSUME NEW i \in DOMAIN order', NEW d \in Kids(order'[i])
                PROVE  \E j \in DOMAIN order' : i < j /\ order'[j] = d
    BY DEF OrderDescends
  <2>1. ASSUME NEW k \in DOMAIN order, order[k] = d, i < 1 + k
        PROVE  \E j \in DOMAIN order' : i < j /\ order'[j] = d
    BY <1>8, <2>1
  <2>2. CASE i = 1
    <3>1. d \in DoneCells
      <4>1. d \in DoneCells \/ \E h \in DOMAIN stack : h < 1 /\ stack[h].cell = d
        BY <1>2, <1>3, <1>5, <2>2 DEF WalkInv, KidsAhead, cell
      <4>. QED
        BY <1>3, <4>1
    <3>2. PICK k \in DOMAIN order : order[k] = d
      BY <3>1 DEF DoneCells
    <3>3. i < 1 + k
      BY <1>5, <2>2
    <3>. QED
      BY <2>1, <3>2, <3>3
  <2>3. CASE i # 1
    <3>1. i - 1 \in DOMAIN order /\ order'[i] = order[i - 1]
      BY <1>9, <2>3
    <3>2. PICK k \in DOMAIN order : i - 1 < k /\ order[k] = d
      BY <3>1 DEF WalkInv, OrderDescends
    <3>3. i < 1 + k
      BY <1>5, <3>2
    <3>. QED
      BY <2>1, <3>2, <3>3
  <2>. QED
    BY <2>2, <2>3
<1>. QED
  BY <1>14, <1>15, <1>16, <1>17, <1>18, <1>19 DEF WalkInv

\* The walk is left alone once it is over.
LEMMA WalkStays ==
  ASSUME WalkInv, UNCHANGED <<roots, options, stack, seen, order>>,
         phase' \in {"start", "walk", "header", "body", "done", "refused"},
         phase = "start" => phase' = "start", phase' # "walk" => stack = <<>>
  PROVE  WalkInv'
<1>1. DoneCells' = DoneCells /\ OpenCells' = OpenCells
  BY DEF DoneCells, OpenCells
<1>2. Graph(roots)' = Graph(roots) /\ Listed(roots)' = Listed(roots) /\ \A c : Rank(roots', c) = Rank(roots, c)
  OBVIOUS
<1>3. WalkType'
  <2>1. Entries' = Entries
    BY <1>2 DEF Entries
  <2>. QED
    BY <1>2, <2>1 DEF WalkInv, WalkType
<1>4. EachOnce'
  BY <1>1 DEF WalkInv, EachOnce
<1>5. StackDescends'
  BY <1>2 DEF WalkInv, StackDescends
<1>6. KidsAhead'
  BY <1>1 DEF WalkInv, KidsAhead
<1>7. RootsAhead'
  BY <1>1, <1>2 DEF WalkInv, RootsAhead
<1>8. OrderDescends'
  BY DEF WalkInv, OrderDescends
<1>. QED
  BY <1>3, <1>4, <1>5, <1>6, <1>7, <1>8 DEF WalkInv

\* The walk starts with every root on the stack.
LEMMA StartKeeps ==
  ASSUME WalkInv, Start
  PROVE  WalkInv'
<1>1. phase = "start" /\ stack = <<>> /\ UNCHANGED <<roots, options, seen, order>>
  BY DEF Start, WalkInv, WalkType
<1>2. roots \in RootLists /\ roots \in Seq(Graph(roots))
  BY ListedIsRun DEF WalkInv, WalkType
<1>3. Len(roots) \in Nat /\ DOMAIN roots = 1..Len(roots) /\ \A i \in DOMAIN roots : roots[i] \in Graph(roots)
  BY <1>2, ListIs
<1>4. stack' \in Seq(Entries) /\ \A i \in DOMAIN stack' : stack'[i].step = "visit"
  <2>1. CASE roots = <<>>
    <3>1. stack' = <<>>
      BY <1>1, <2>1 DEF Start
    <3>. QED
      BY <3>1
  <2>2. CASE roots # <<>>
    <3>. DEFINE t == [i \in DOMAIN roots |-> Visit(roots[i])]
    <3>1. stack' = t
      BY <2>2 DEF Start
    <3>2. \A i \in DOMAIN roots : Visit(roots[i]) \in Entries /\ Visit(roots[i]).step = "visit"
      BY <1>3 DEF Visit, Entries
    <3>3. t \in [1..Len(roots) -> Entries] /\ \A i \in DOMAIN t : t[i].step = "visit"
      BY <1>3, <3>2
    <3>. HIDE DEF t
    <3>. QED
      BY <1>3, <3>1, <3>3, ListOf
  <2>. QED
    BY <2>1, <2>2
<1>5. phase' # "start" /\ phase' \in {"walk", "refused"} /\ (phase' # "walk" => stack' = <<>>)
  BY <1>1 DEF Start
<1>6. DoneCells' = DoneCells
  BY <1>1 DEF DoneCells
<1>7. OpenCells = {} /\ OpenCells' = {}
  BY <1>1, <1>4 DEF OpenCells
<1>8. WalkType'
  <2>1. Entries' = Entries /\ Graph(roots)' = Graph(roots)
    BY <1>1 DEF Entries
  <2>. QED
    BY <1>1, <1>4, <1>5, <2>1 DEF WalkInv, WalkType
<1>9. EachOnce'
  BY <1>1, <1>6, <1>7 DEF WalkInv, EachOnce
<1>10. StackDescends' /\ KidsAhead'
  BY <1>4 DEF StackDescends, KidsAhead
<1>11. RootsAhead'
  <2>1. ASSUME NEW i \in DOMAIN roots
        PROVE  \E j \in DOMAIN stack' : stack'[j].cell = roots[i]
    <3>1. roots # <<>>
      BY <2>1
    <3>2. stack' = [k \in DOMAIN roots |-> Visit(roots[k])]
      BY <3>1 DEF Start
    <3>. QED
      BY <2>1, <3>2 DEF Visit
  <2>. QED
    BY <1>1, <2>1 DEF RootsAhead, Listed
<1>12. OrderDescends'
  BY <1>1 DEF WalkInv, OrderDescends
<1>. QED
  BY <1>8, <1>9, <1>10, <1>11, <1>12 DEF WalkInv

-----------------------------------------------------------------------------
(* Every chunk.                                                            *)

WriterInv == WalkInv /\ Written

LEMMA BodyKeeps ==
  ASSUME WriterInv, NextBody
  PROVE  Written'
<1>. DEFINE x == BagHeader
            y == Joined(First(BagCells, cursor - 1))
            z == Run(ChunkEnd)
<1>1. /\ phase = "body" /\ phase' = "body" /\ cursor <= Len(order) /\ UNCHANGED <<order, roots, options>>
      /\ out' = out \o z /\ running_crc' = running_crc \o z /\ cursor' = ChunkEnd + 1
  BY DEF NextBody, crc32c_update
<1>2. cursor \in 1..Len(order) + 1 /\ out = x \o y /\ running_crc = out
  BY <1>1 DEF WriterInv, Written
<1>3. Settled /\ Len(order) \in Nat
  BY WalkSettles, CellsAre DEF WriterInv
<1>4. cursor \in 1..Len(order) /\ ChunkEnd \in cursor..Len(order)
  <2>1. cursor \in 1..Len(order)
    BY <1>1, <1>2, <1>3
  <2>. QED
    BY <1>3, <2>1, ChunkEndIs
<1>5. y \o z = Joined(First(BagCells, ChunkEnd)) /\ IsRun(y) /\ IsRun(z)
  BY <1>3, <1>4, ChunkIs
<1>6. IsRun(x) /\ IsRun(y) /\ IsRun(z)
  BY <1>3, <1>5, HeaderIsRun
<1>7. (x \o y) \o z = x \o (y \o z)
  <2>. HIDE DEF x, y, z
  <2>. QED
    BY ONLY <1>6, JoinsInTurn
<1>8. out' = x \o Joined(First(BagCells, ChunkEnd)) /\ running_crc' = out'
  <2>. HIDE DEF x, y, z
  <2>. QED
    BY <1>1, <1>2, <1>5, <1>7, Zenon
<1>9. BagHeader' = x /\ BagCells' = BagCells
  BY <1>1, PartsStay
<1>10. cursor' - 1 = ChunkEnd /\ cursor' \in 1..Len(order) + 1
  BY <1>1, <1>3, <1>4
<1>11. out' = BagHeader' \o Joined(First(BagCells', cursor' - 1))
  <2>. HIDE DEF x, y, z
  <2>. QED
    BY <1>8, <1>9, <1>10, Zenon
<1>. QED
  BY <1>1, <1>8, <1>10, <1>11 DEF Written

LEMMA EndKeeps ==
  ASSUME WriterInv, NextEnd
  PROVE  Written'
<1>. DEFINE x == BagHeader
            y == Joined(BagCells)
<1>1. /\ phase = "body" /\ phase' = "done" /\ cursor > Len(order) /\ UNCHANGED <<order, roots, options>>
      /\ out' = IF options.crc32c THEN Append(out, <<"crc", running_crc>>) ELSE out
  BY DEF NextEnd
<1>2. cursor \in 1..Len(order) + 1 /\ out = x \o Joined(First(BagCells, cursor - 1)) /\ running_crc = out
  BY <1>1 DEF WriterInv, Written
<1>3. Settled /\ Len(order) \in Nat
  BY WalkSettles, CellsAre DEF WriterInv
<1>4. cursor - 1 = Len(order)
  BY <1>1, <1>2, <1>3
<1>5. out = x \o y
  <2>1. BagCells = First(BagCells, Len(order))
    BY <1>3, CellsAre
  <2>. QED
    BY <1>2, <1>4, <2>1, Zenon
<1>6. IsRun(out)
  <2>1. IsRun(y)
    <3>1. \A i \in 1..Len(order) : IsRun(BagCells[i])
      BY <1>3, CellsAre
    <3>2. IsRun(Joined(First(BagCells, Len(order))))
      BY <1>3, <3>1, JoinedIsRun
    <3>. QED
      BY <1>3, <3>2, CellsAre
  <2>2. IsRun(x)
    BY <1>3, HeaderIsRun
  <2>. HIDE DEF x, y
  <2>3. IsRun(x \o y)
    BY <2>1, <2>2, Joins
  <2>. QED
    BY <1>5, <2>3, Zenon
<1>7. crc32c(out) = <<"crc", running_crc>>
  <2>1. <<>> \o out = out
    BY <1>6, Joins
  <2>. QED
    BY <1>2, <2>1, Zenon DEF crc32c, crc32c_update, CRC32C_INIT
<1>8. out' = serialize_boc_with(order, roots, options)
  <2>1. serialize_boc_with(order, roots, options) = IF options.crc32c THEN Append(x \o y, crc32c(x \o y)) ELSE x \o y
    BY <1>3, InOnePiece
  <2>. HIDE DEF x, y
  <2>. QED
    BY <1>1, <1>5, <1>7, <2>1, Zenon
<1>9. out' = serialize_boc_with(order, roots, options)'
  BY <1>1, <1>8, PartsStay
<1>. QED
  BY <1>1, <1>9 DEF Written

LEMMA WriterKept == WriterInv /\ [WriterNext]_writerVars => WriterInv'
<1>. SUFFICES ASSUME WriterInv, [WriterNext]_writerVars
              PROVE  WriterInv'
  OBVIOUS
<1>1. WalkInv /\ Written
  BY DEF WriterInv
<1>2. phase \in {"start", "walk", "header", "body", "done", "refused"} /\ (phase # "walk" => stack = <<>>)
  BY <1>1 DEF WalkInv, WalkType
<1>3. CASE Start
  <2>1. WalkInv'
    BY <1>1, <1>3, StartKeeps
  <2>2. Written'
    BY <1>1, <1>3 DEF Start, Written
  <2>. QED
    BY <2>1, <2>2 DEF WriterInv
<1>4. CASE VisitCell
  <2>1. WalkInv'
    BY <1>1, <1>4, SeenKeeps, FreshKeeps
  <2>2. Written'
    BY <1>1, <1>4 DEF VisitCell, Written
  <2>. QED
    BY <2>1, <2>2 DEF WriterInv
<1>5. CASE EmitCell
  <2>1. WalkInv'
    BY <1>1, <1>5, EmitKeeps
  <2>2. Written'
    BY <1>1, <1>5 DEF EmitCell, Written
  <2>. QED
    BY <2>1, <2>2 DEF WriterInv
<1>6. CASE Layout
  <2>1. /\ phase = "walk" /\ stack = <<>> /\ phase' \in {"refused", "header"}
        /\ UNCHANGED <<roots, options, stack, seen, order, cursor>>
    BY <1>6 DEF Layout
  <2>2. WalkInv'
    BY <1>1, <2>1, WalkStays
  <2>3. Written'
    <3>1. phase' = "header" => header' = BagHeader /\ running_crc' = header'
      <4>1. IsRun(BagHeader)
        BY <1>1, WalkSettles, HeaderIsRun
      <4>2. <<>> \o BagHeader = BagHeader
        BY <4>1, Joins
      <4>3. phase' = "header" => header' = BagHeader /\ running_crc' = <<>> \o header'
        BY <1>6 DEF Layout, BagHeader, crc32c_update, CRC32C_INIT
      <4>. QED
        BY <4>2, <4>3, Zenon
    <3>2. BagHeader' = BagHeader
      BY <2>1, PartsStay
    <3>3. cursor' = 1
      BY <1>1, <2>1 DEF Written
    <3>. QED
      BY <2>1, <3>1, <3>2, <3>3 DEF Written
  <2>. QED
    BY <2>2, <2>3 DEF WriterInv
<1>7. CASE NextHeader
  <2>1. /\ phase = "header" /\ phase' = "body" /\ out' = header
        /\ UNCHANGED <<roots, options, stack, seen, order, cursor, running_crc>>
    BY <1>7 DEF NextHeader
  <2>2. WalkInv'
    BY <1>1, <1>2, <2>1, WalkStays
  <2>3. Written'
    <3>1. cursor = 1 /\ header = BagHeader /\ running_crc = header
      BY <1>1, <2>1 DEF Written
    <3>2. Settled /\ Len(order) \in Nat /\ IsRun(BagHeader)
      BY <1>1, WalkSettles, HeaderIsRun, CellsAre
    <3>3. Joined(First(BagCells, cursor - 1)) = <<>>
      <4>1. cursor - 1 = 0
        BY <3>1
      <4>. QED
        BY <4>1, JoinedNone
    <3>4. BagHeader \o <<>> = BagHeader
      BY <3>2, Joins
    <3>5. BagHeader' = BagHeader /\ BagCells' = BagCells
      BY <2>1, PartsStay
    <3>6. out' = BagHeader' \o Joined(First(BagCells', cursor' - 1)) /\ running_crc' = out'
      BY <2>1, <3>1, <3>3, <3>4, <3>5, Zenon
    <3>7. cursor' \in 1..Len(order') + 1
      BY <2>1, <3>1, <3>2
    <3>. QED
      BY <2>1, <3>6, <3>7 DEF Written
  <2>. QED
    BY <2>2, <2>3 DEF WriterInv
<1>8. CASE NextBody
  <2>1. phase = "body" /\ phase' = "body" /\ UNCHANGED <<roots, options, stack, seen, order>>
    BY <1>8 DEF NextBody
  <2>2. WalkInv'
    BY <1>1, <1>2, <2>1, WalkStays
  <2>. QED
    BY <1>8, <2>2, BodyKeeps DEF WriterInv
<1>9. CASE NextEnd
  <2>1. phase = "body" /\ phase' = "done" /\ UNCHANGED <<roots, options, stack, seen, order>>
    BY <1>9 DEF NextEnd
  <2>2. WalkInv'
    BY <1>1, <1>2, <2>1, WalkStays
  <2>. QED
    BY <1>9, <2>2, EndKeeps DEF WriterInv
<1>10. CASE UNCHANGED writerVars
  <2>1. UNCHANGED <<roots, options, stack, seen, order, header, phase, cursor, running_crc, out>>
    BY <1>10 DEF writerVars
  <2>2. WalkInv'
    BY <1>1, <1>2, <2>1, WalkStays
  <2>3. Written'
    <3>1. /\ BagHeader' = BagHeader /\ BagCells' = BagCells
          /\ serialize_boc_with(order, roots, options)' = serialize_boc_with(order, roots, options)
      BY <2>1, PartsStay
    <3>. QED
      BY <1>1, <2>1, <3>1 DEF Written
  <2>. QED
    BY <2>2, <2>3 DEF WriterInv
<1>. QED
  BY <1>3, <1>4, <1>5, <1>6, <1>7, <1>8, <1>9, <1>10 DEF WriterNext

\* A stream is the bag, whatever the graph of cells: every cell reachable from
\* the roots is in it once, ahead of the cells it references, and the chunks
\* run together are what is written in one piece (topological, BocChunks).
THEOREM StreamIsTheBag == WriterSpec => []ChunksAreTheBag
<1>1. WriterInit => WriterInv
  <2>. SUFFICES ASSUME WriterInit PROVE WriterInv
    OBVIOUS
  <2>1. /\ roots \in RootLists /\ options \in BocOptions /\ phase = "start" /\ cursor = 1
        /\ stack = <<>> /\ order = <<>> /\ seen = {}
    BY DEF WriterInit
  <2>2. DoneCells = {} /\ OpenCells = {}
    BY <2>1 DEF DoneCells, OpenCells
  <2>3. WalkType
    BY <2>1 DEF WalkType
  <2>4. EachOnce
    BY <2>1, <2>2 DEF EachOnce
  <2>5. StackDescends /\ KidsAhead /\ RootsAhead /\ OrderDescends
    BY <2>1 DEF StackDescends, KidsAhead, RootsAhead, OrderDescends
  <2>6. Written
    BY <2>1 DEF Written
  <2>. QED
    BY <2>3, <2>4, <2>5, <2>6 DEF WriterInv, WalkInv
<1>2. WriterInv => ChunksAreTheBag
  <2>. SUFFICES ASSUME WriterInv, phase = "done"
                PROVE  /\ {order[i] : i \in DOMAIN order} = Graph(roots)
                       /\ \A i, j \in DOMAIN order : order[i] = order[j] => i = j
                       /\ \A i, j \in DOMAIN order : (\E r \in DOMAIN order[i].refs : order[j] = order[i].refs[r]) => i < j
                       /\ out = serialize_boc_with(order, roots, options)
    BY DEF ChunksAreTheBag
  <2>1. WalkInv /\ Written /\ stack = <<>>
    BY DEF WriterInv, WalkInv, WalkType
  <2>2. DoneCells = Graph(roots)
    BY <2>1, OrderIsTheGraph
  <2>3. \A i, j \in DOMAIN order : order[i] = order[j] => i = j
    BY <2>1 DEF WalkInv, EachOnce
  <2>4. ASSUME NEW i \in DOMAIN order, NEW j \in DOMAIN order, NEW r \in DOMAIN order[i].refs, order[j] = order[i].refs[r]
        PROVE  i < j
    <3>1. order[j] \in Kids(order[i])
      BY <2>4 DEF Kids
    <3>2. PICK k \in DOMAIN order : i < k /\ order[k] = order[j]
      BY <2>1, <3>1 DEF WalkInv, OrderDescends
    <3>. QED
      BY <2>3, <3>2
  <2>. QED
    BY <2>1, <2>2, <2>3, <2>4 DEF DoneCells, Written
<1>. QED
  BY <1>1, <1>2, WriterKept, PTL DEF WriterSpec
=============================================================================

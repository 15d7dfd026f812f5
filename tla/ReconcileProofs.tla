--------------------------- MODULE ReconcileProofs ---------------------------
(***************************************************************************)
(* Theorems about Reconcile, for every stored and every fresh list of      *)
(* nodes, every stride and every budget of the alignment's table.          *)
(*                                                                         *)
(* The walk of the table is a recursive function, which is defined where   *)
(* its equation has a solution.  Nothing here takes a predicate as a       *)
(* parameter: what is meant for every number is shown of the set of        *)
(* numbers it holds for.                                                   *)
(***************************************************************************)
EXTENDS Reconcile, WellFoundedInduction, FiniteSetTheorems, TLAPS

-----------------------------------------------------------------------------
(* Numbers.                                                                *)

\* A set of numbers has a least one: the well-foundedness of < for sets, which
\* can be cited where a predicate cannot.
LEMMA NatMin ==
  ASSUME NEW T, T \subseteq Nat, T # {}
  PROVE  \E x \in T : \A y \in T : x <= y
<1>1. \E x \in T : \A y \in T : ~ (<<y, x>> \in OpToRel(<,Nat))
  BY NatLessThanWellFounded, WFMin
<1>2. PICK x \in T : \A y \in T : ~ (<<y, x>> \in OpToRel(<,Nat))
  BY <1>1
<1>3. \A y \in T : <<y, x>> \in Nat \X Nat
  OBVIOUS
<1>4. \A y \in T : ~ (y < x)
  BY <1>2, <1>3 DEF OpToRel
<1> QED BY <1>4

\* Induction, for sets.
LEMMA NatAll ==
  ASSUME NEW S, 0 \in S, \A k \in S : k + 1 \in S
  PROVE  Nat \subseteq S
<1> SUFFICES ASSUME Nat \ S # {}
             PROVE  FALSE
  OBVIOUS
<1>1. PICK x \in Nat \ S : \A y \in Nat \ S : x <= y
  BY NatMin
<1>2. x # 0 /\ x - 1 \in Nat
  OBVIOUS
<1>3. x - 1 \in S
  BY <1>1, <1>2
<1>4. (x - 1) + 1 = x
  OBVIOUS
<1> QED BY <1>3, <1>4

\* What Least and Greatest choose.
LEMMA LeastOf ==
  ASSUME NEW S, S \subseteq Nat, S # {}
  PROVE  Least(S) \in S /\ \A y \in S : Least(S) <= y
BY NatMin DEF Least

LEMMA GreatestOf ==
  ASSUME NEW n \in Nat, NEW S, S \subseteq 0..n, S # {}
  PROVE  Greatest(S) \in S /\ \A y \in S : Greatest(S) >= y
<1> DEFINE T == {n - x : x \in S}
<1>1. T \subseteq Nat /\ T # {}
  <2>1. ASSUME NEW x \in S
        PROVE  n - x \in Nat
    OBVIOUS
  <2> QED BY <2>1
<1>2. PICK t \in T : \A y \in T : t <= y
  BY <1>1, NatMin
<1>3. PICK x \in S : t = n - x
  OBVIOUS
<1>4. \A y \in S : y <= x
  BY <1>2, <1>3
<1> QED BY <1>3, <1>4 DEF Greatest

-----------------------------------------------------------------------------
(* Recursion.                                                              *)

\* G takes each step within S.
StaysIn(S, steps, G) == \A k \in steps : \A x \in S : G[k][x] \in S

\* The values of f follow from the one before.
FollowsOn(f, first, n, G) == f[0] = first /\ \A k \in 1..n : f[k] = G[k][f[k - 1]]

LEMMA Forward ==
  ASSUME NEW S, NEW first \in S, NEW n \in Nat, NEW G, StaysIn(S, 1..n, G)
  PROVE  \E f \in [0..n -> S] : FollowsOn(f, first, n, G)
<1> DEFINE Upto(m, f) == f[0] = first /\ \A k \in 1..m : f[k] = G[k][f[k - 1]]
           T == {m \in Nat : m <= n => \E f \in [0..m -> S] : Upto(m, f)}
<1>1. 0 \in T
  <2> DEFINE f == [i \in 0..0 |-> first]
  <2>1. f \in [0..0 -> S] /\ Upto(0, f)
    OBVIOUS
  <2> QED BY <2>1
<1>2. ASSUME NEW m \in T
      PROVE  m + 1 \in T
  <2> SUFFICES ASSUME m + 1 <= n
               PROVE  \E f \in [0..m + 1 -> S] : Upto(m + 1, f)
    OBVIOUS
  <2>1. PICK f \in [0..m -> S] : Upto(m, f)
    <3>1. m \in Nat /\ (m <= n => \E f \in [0..m -> S] : Upto(m, f))
      OBVIOUS
    <3>2. m <= n
      BY <3>1
    <3> HIDE DEF Upto
    <3> QED BY <3>1, <3>2
  <2> DEFINE g == [i \in 0..m + 1 |-> IF i <= m THEN f[i] ELSE G[m + 1][f[m]]]
  <2>2. g \in [0..m + 1 -> S]
    BY m \in Nat DEF StaysIn
  <2>3. \A i \in 0..m : g[i] = f[i]
    BY m \in Nat
  <2>4. g[m + 1] = G[m + 1][f[m]]
    BY m \in Nat
  <2> HIDE DEF g
  <2>5. ASSUME NEW k \in 1..m + 1
        PROVE  g[k] = G[k][g[k - 1]]
    <3>1. CASE k \in 1..m
      <4>1. k \in 0..m /\ k - 1 \in 0..m
        BY <3>1
      <4> QED BY <4>1, <3>1, <2>1, <2>3
    <3>2. CASE k = m + 1
      <4>1. m \in 0..m /\ k - 1 = m
        BY <3>2
      <4> QED BY <4>1, <3>2, <2>3, <2>4
    <3> QED BY <3>1, <3>2
  <2>6. g[0] = first
    BY <2>1, <2>3
  <2> QED BY <2>2, <2>5, <2>6
<1>3. n \in T
  <2> HIDE DEF T
  <2> QED BY <1>1, <1>2, NatAll
<1> QED BY <1>3 DEF FollowsOn

-----------------------------------------------------------------------------
(* The sort by key leaves nodes in the order of their keys alone.          *)

NonDecreasing(nodes) ==
  \A i, j \in DOMAIN nodes : i < j => nodes[i].order <= nodes[j].order

\* As many nodes come before the j-th as there are numbers below j.
LEMMA ByOrderId ==
  ASSUME NEW n \in Nat, NEW nodes, DOMAIN nodes = 1..n,
         \A i \in 1..n : nodes[i].order \in Int, NonDecreasing(nodes),
         NEW r \in 1..n
  PROVE  ByOrder(nodes)[r] = nodes[r]
<1> DEFINE Before(i, j) == \/ nodes[i].order < nodes[j].order
                           \/ nodes[i].order = nodes[j].order /\ i < j
           Place(j) == Cardinality({i \in DOMAIN nodes : Before(i, j)}) + 1
<1>1. ASSUME NEW j \in 1..n
      PROVE  Place(j) = j
  <2>1. {i \in DOMAIN nodes : Before(i, j)} = 1..(j - 1)
    <3>1. ASSUME NEW i \in 1..n
          PROVE  Before(i, j) <=> i \in 1..(j-1)
      <4>1. CASE i < j
        BY <4>1 DEF NonDecreasing
      <4>2. CASE i = j
        BY <4>2
      <4>3. CASE i > j
        BY <4>3 DEF NonDecreasing
      <4> QED BY <4>1, <4>2, <4>3
    <3> HIDE DEF Before
    <3> QED BY <3>1
  <2>2. Cardinality(1..(j - 1)) = j - 1
    BY FS_Interval
  <2> HIDE DEF Before
  <2>3. Cardinality({i \in DOMAIN nodes : Before(i, j)}) = j - 1
    BY <2>1, <2>2
  <2> QED BY <2>3
<1>2. ByOrder(nodes) = [s \in DOMAIN nodes |-> nodes[CHOOSE j \in DOMAIN nodes : Place(j) = s]]
  BY DEF ByOrder
<1> HIDE DEF Place
<1>3. (CHOOSE j \in DOMAIN nodes : Place(j) = r) = r
  BY <1>1
<1> QED BY <1>2, <1>3

-----------------------------------------------------------------------------
(* The matches of an alignment increase in both files.                     *)

InStep(M) == \A p, q \in M : p[1] < q[1] <=> p[2] < q[2]

Within(M, a, n, b, m) == M \subseteq (a..n) \X (b..m)

\* The walk of the table, whatever the table holds.  The equation that defines
\* it has a solution, as a cell asks for cells nearer the end only.
LEMMA WalkIsInStep ==
  ASSUME NEW old, NEW new, NEW lo \in Nat, NEW oldHi \in Nat, NEW newHi \in Nat,
         lo <= oldHi, lo <= newHi
  PROVE  LET M == WalkMatches(old, new, lo, oldHi, newHi)
         IN  InStep(M) /\ Within(M, lo + 1, oldHi, lo + 1, newHi)
<1> DEFINE Cell == Cells(lo, oldHi, newHi)
           Edge(c) == c[1] > oldHi \/ c[2] > newHi
           Same(c) == same(old[c[1]], new[c[2]])
           dp[c \in Cell] ==
             IF Edge(c) THEN 0
             ELSE IF Same(c) THEN dp[pastPair(c)] + 1
             ELSE Greatest({dp[pastOld(c)], dp[pastNew(c)]})
           Down(c) == dp[pastOld(c)] >= dp[pastNew(c)]
           Rhs(f, c) == IF Edge(c) THEN {}
                        ELSE IF Same(c) THEN {c} \union f[pastPair(c)]
                        ELSE IF Down(c) THEN f[pastOld(c)]
                        ELSE f[pastNew(c)]
           walk == CHOOSE f : f = [c \in Cell |-> Rhs(f, c)]
           start == <<lo + 1, lo + 1>>
           left(c) == (oldHi + 1 - c[1]) + (newHi + 1 - c[2])
<1>1. WalkMatches(old, new, lo, oldHi, newHi) = walk[start]
  BY DEF WalkMatches
<1>2. ASSUME NEW c \in Cell
      PROVE  /\ c = <<c[1], c[2]>>
             /\ c[1] \in lo + 1..oldHi + 1 /\ c[2] \in lo + 1..newHi + 1
             /\ left(c) \in Nat
             /\ ~Edge(c) => /\ pastPair(c) \in Cell /\ left(pastPair(c)) < left(c)
                            /\ pastOld(c) \in Cell /\ left(pastOld(c)) < left(c)
                            /\ pastNew(c) \in Cell /\ left(pastNew(c)) < left(c)
  BY DEF Cells, pastPair, pastOld, pastNew
<1> HIDE DEF Same, Down, dp, walk
<1>3. \E f : f = [c \in Cell |-> Rhs(f, c)]
  <2> DEFINE Upto == {k \in Nat : \E f : \A c \in Cell : left(c) < k => f[c] = Rhs(f, c)}
  <2>1. 0 \in Upto
    BY <1>2
  <2>2. ASSUME NEW k \in Upto
        PROVE  k + 1 \in Upto
    <3>1. PICK f : \A c \in Cell : left(c) < k => f[c] = Rhs(f, c)
      OBVIOUS
    <3> DEFINE g == [c \in Cell |-> IF left(c) < k THEN f[c] ELSE Rhs(f, c)]
    <3>2. ASSUME NEW c \in Cell, left(c) < k + 1
          PROVE  g[c] = Rhs(g, c)
      <4>0. ASSUME NEW d \in Cell, left(d) < left(c)
            PROVE  g[d] = f[d]
        BY <1>2, <3>2, <4>0
      <4>1. Rhs(g, c) = Rhs(f, c)
        <5> HIDE DEF g
        <5>1. CASE Edge(c)
          BY <5>1
        <5>2. CASE ~Edge(c)
          <6>1. g[pastPair(c)] = f[pastPair(c)] /\ g[pastOld(c)] = f[pastOld(c)] /\ g[pastNew(c)] = f[pastNew(c)]
            BY <5>2, <1>2, <4>0
          <6> QED BY <6>1
        <5> QED BY <5>1, <5>2
      <4>2. g[c] = Rhs(f, c)
        BY <3>1
      <4> QED BY <4>1, <4>2
    <3>3. k + 1 \in Nat
      OBVIOUS
    <3> QED BY <3>2, <3>3
  <2>3. Upto = Nat
    BY <2>1, <2>2, NatAll
  <2>4. oldHi + newHi + 3 \in Upto
    <3> HIDE DEF Upto
    <3> QED BY <2>3
  <2>5. PICK f : \A c \in Cell : left(c) < oldHi + newHi + 3 => f[c] = Rhs(f, c)
    BY <2>4
  <2> DEFINE g == [c \in Cell |-> f[c]]
  <2>6. ASSUME NEW c \in Cell
        PROVE  g[c] = Rhs(g, c)
    <3>1. left(c) < oldHi + newHi + 3
      BY <1>2
    <3>2. \A d \in Cell : g[d] = f[d]
      OBVIOUS
    <3> HIDE DEF g
    <3>3. CASE Edge(c)
      BY <3>1, <3>2, <3>3, <2>5
    <3>4. CASE ~Edge(c)
      <4>1. g[pastPair(c)] = f[pastPair(c)] /\ g[pastOld(c)] = f[pastOld(c)] /\ g[pastNew(c)] = f[pastNew(c)]
        BY <3>4, <1>2, <3>2
      <4> QED BY <4>1, <3>1, <3>2, <2>5
    <3> QED BY <3>3, <3>4
  <2>7. g = [c \in Cell |-> Rhs(g, c)]
    BY <2>6
  <2> QED BY <2>7
<1>4. walk = [c \in Cell |-> Rhs(walk, c)]
  BY <1>3 DEF walk
<1> DEFINE Good(c) == /\ InStep(walk[c])
                      /\ Within(walk[c], c[1], oldHi, c[2], newHi)
           Bad == {left(c) : c \in {d \in Cell : ~Good(d)}}
<1>5. ASSUME NEW c \in Cell, \A d \in Cell : left(d) < left(c) => Good(d)
      PROVE  Good(c)
  <2>1. walk[c] = Rhs(walk, c)
    BY <1>4
  <2>2. CASE Edge(c)
    <3>1. walk[c] = {}
      BY <2>1, <2>2
    <3> QED BY <3>1 DEF InStep, Within
  <2>3. CASE ~Edge(c)
    <3> DEFINE M == walk[pastPair(c)]
    <3>1. CASE Same(c)
      <4>1. walk[c] = {c} \union M
        BY <2>1, <2>3, <3>1
      <4>2. InStep(M) /\ Within(M, c[1] + 1, oldHi, c[2] + 1, newHi)
        BY <1>2, <2>3, <1>5 DEF pastPair
      <4>3. c \in (c[1]..oldHi) \X (c[2]..newHi)
        BY <1>2, <2>3
      <4> HIDE DEF M
      <4>4. \A p \in M : p[1] > c[1] /\ p[2] > c[2] /\ p \in (c[1]..oldHi) \X (c[2]..newHi)
        BY <4>2, <1>2 DEF Within
      <4>5. Within(walk[c], c[1], oldHi, c[2], newHi)
        BY <4>1, <4>3, <4>4 DEF Within
      <4>6. InStep(walk[c])
        BY <4>1, <4>2, <4>3, <4>4, <1>2 DEF InStep
      <4> QED BY <4>5, <4>6
    <3>2. CASE ~Same(c)
      <4>1. walk[c] = walk[pastOld(c)] \/ walk[c] = walk[pastNew(c)]
        BY <2>1, <2>3, <3>2
      <4>2. Good(pastOld(c)) /\ Good(pastNew(c))
        BY <1>2, <2>3, <1>5
      <4>3. c[1] \in Int /\ c[2] \in Int
        BY <1>2
      <4> QED BY <4>1, <4>2, <4>3 DEF InStep, Within, pastOld, pastNew
    <3> QED BY <3>1, <3>2
  <2> QED BY <2>2, <2>3
<1>6. \A c \in Cell : Good(c)
  <2> SUFFICES ASSUME NEW e \in Cell, ~Good(e)
               PROVE  FALSE
    OBVIOUS
  <2> HIDE DEF Good
  <2>1. Bad \subseteq Nat /\ left(e) \in Bad
    BY <1>2
  <2>2. PICK k \in Bad : \A j \in Bad : k <= j
    BY <2>1, NatMin
  <2>3. PICK c \in Cell : ~Good(c) /\ k = left(c)
    OBVIOUS
  <2>4. ASSUME NEW d \in Cell, left(d) < left(c), ~Good(d)
        PROVE  FALSE
    <3>1. left(d) \in Bad
      BY <2>4
    <3>2. left(c) <= left(d)
      BY <2>2, <2>3, <3>1
    <3> QED BY <3>2, <2>4, <1>2
  <2> QED BY <2>3, <2>4, <1>5
<1>7. start \in Cell
  BY DEF Cells
<1> QED BY <1>1, <1>6, <1>7

\* The common head and tail do not overlap, in either file.
LEMMA HeadAndTail ==
  ASSUME NEW A, NEW B, NEW stored \in Seq(A), NEW fresh \in Seq(B)
  PROVE  LET head == CommonHead(stored, fresh)
             tail == CommonTail(stored, fresh)
         IN  /\ head \in Nat /\ tail \in Nat
             /\ head + tail <= Len(stored) /\ head + tail <= Len(fresh)
<1> DEFINE head == CommonHead(stored, fresh)
           tail == CommonTail(stored, fresh)
           H == {n \in 0..Len(stored) :
                  n <= Len(fresh) /\ \A i \in 1..n : same(stored[i], fresh[i])}
           T == {n \in 0..Len(stored) - head :
                  /\ n <= Len(fresh) - head
                  /\ \A i \in 0..n - 1 :
                       same(stored[Len(stored) - i], fresh[Len(fresh) - i])}
<1>1. Len(stored) \in Nat /\ Len(fresh) \in Nat
  OBVIOUS
<1>2. head \in H
  <2>1. 0 \in H /\ H \subseteq 0..Len(stored)
    BY <1>1
  <2>2. head = Greatest(H)
    BY DEF CommonHead
  <2> HIDE DEF H, head
  <2> QED BY <2>1, <2>2, <1>1, GreatestOf
<1>3. head \in Nat /\ head <= Len(stored) /\ head <= Len(fresh)
  BY <1>1, <1>2
<1> HIDE DEF head
<1>4. tail \in T
  <2>1. 0 \in T /\ T \subseteq 0..Len(stored) - head /\ Len(stored) - head \in Nat
    BY <1>1, <1>3
  <2>2. tail = Greatest(T)
    BY DEF CommonTail, head
  <2> HIDE DEF T, tail
  <2> QED BY <2>1, <2>2, <1>1, GreatestOf
<1>5. tail \in Nat /\ tail <= Len(stored) - head /\ tail <= Len(fresh) - head
  BY <1>1, <1>3, <1>4
<1> QED BY <1>1, <1>3, <1>5 DEF head

\* Head, walk and tail, one above the other.
LEMMA MatchesInStep ==
  ASSUME NEW A, NEW B, NEW stored \in Seq(A), NEW fresh \in Seq(B)
  PROVE  LET M == Matches(stored, fresh)
         IN  InStep(M) /\ Within(M, 1, Len(stored), 1, Len(fresh))
<1> DEFINE M == Matches(stored, fresh)
           head == CommonHead(stored, fresh)
           tail == CommonTail(stored, fresh)
           n == Len(stored)
           m == Len(fresh)
           top == {<<i, i>> : i \in 1..head}
           middle == align(stored, fresh, head, tail)
           bottom == {<<n - i, m - i>> : i \in 0..tail - 1}
<1>1. n \in Nat /\ m \in Nat
  OBVIOUS
<1>2. head \in Nat /\ tail \in Nat /\ head + tail <= n /\ head + tail <= m
  BY HeadAndTail
<1>3. M = top \union middle \union bottom
  BY DEF Matches
<1>4. InStep(middle) /\ Within(middle, head + 1, n - tail, head + 1, m - tail)
  <2> DEFINE W == WalkMatches(stored, fresh, head, head + (n - head - tail), head + (m - head - tail))
  <2>1. middle = {} \/ middle = W
    BY DEF align
  <2>2. head + (n - head - tail) = n - tail /\ head + (m - head - tail) = m - tail
    BY <1>1, <1>2
  <2>3. n - tail \in Nat /\ m - tail \in Nat /\ head <= n - tail /\ head <= m - tail
    BY <1>1, <1>2
  <2> HIDE DEF head, tail, n, m, middle
  <2>4. InStep(W) /\ Within(W, head + 1, n - tail, head + 1, m - tail)
    BY <1>2, <2>2, <2>3, WalkIsInStep
  <2> HIDE DEF W
  <2> QED BY <2>1, <2>4 DEF InStep, Within
<1> HIDE DEF head, tail, n, m, middle
<1>5. \A p \in top : p[1] \in 1..head /\ p[2] = p[1] /\ p \in (1..n) \X (1..m)
  BY <1>1, <1>2
<1>6. \A p \in middle : /\ p[1] \in head + 1..n - tail /\ p[2] \in head + 1..m - tail
                        /\ p \in (1..n) \X (1..m)
  <2> TAKE p \in middle
  <2>1. p \in (head + 1..n - tail) \X (head + 1..m - tail)
    BY <1>4 DEF Within
  <2> QED BY <2>1, <1>1, <1>2
<1>7. \A p \in bottom : /\ p[1] \in n - tail + 1..n /\ p[2] = m - n + p[1]
                        /\ p \in (1..n) \X (1..m)
  BY <1>1, <1>2
<1> HIDE DEF top, bottom, M
<1>8. Within(M, 1, n, 1, m)
  BY <1>3, <1>5, <1>6, <1>7 DEF Within
<1>9. ASSUME NEW p \in M, NEW q \in M
      PROVE  p[1] < q[1] <=> p[2] < q[2]
  <2>1. CASE p \in top
    <3>1. CASE q \in top
      BY <2>1, <3>1, <1>5
    <3>2. CASE q \in middle
      BY <2>1, <3>2, <1>5, <1>6, <1>1, <1>2
    <3>3. CASE q \in bottom
      BY <2>1, <3>3, <1>5, <1>7, <1>1, <1>2
    <3> QED BY <3>1, <3>2, <3>3, <1>3
  <2>2. CASE p \in middle
    <3>1. CASE q \in top
      BY <2>2, <3>1, <1>5, <1>6, <1>1, <1>2
    <3>2. CASE q \in middle
      BY <2>2, <3>2, <1>4 DEF InStep
    <3>3. CASE q \in bottom
      BY <2>2, <3>3, <1>6, <1>7, <1>1, <1>2
    <3> QED BY <3>1, <3>2, <3>3, <1>3
  <2>3. CASE p \in bottom
    <3>1. CASE q \in top
      BY <2>3, <3>1, <1>5, <1>7, <1>1, <1>2
    <3>2. CASE q \in middle
      BY <2>3, <3>2, <1>6, <1>7, <1>1, <1>2
    <3>3. CASE q \in bottom
      BY <2>3, <3>3, <1>7, <1>1, <1>2
    <3> QED BY <3>1, <3>2, <3>3, <1>3
  <2> QED BY <2>1, <2>2, <2>3, <1>3
<1> QED BY <1>8, <1>9 DEF InStep, M, n, m

\* The stored node that each fresh one continues, 0 for a new one.
Advancing(back, n) ==
  /\ \A b \in DOMAIN back : back[b] \in 0..n
  /\ \A b, c \in DOMAIN back : b < c /\ back[b] # 0 /\ back[c] # 0 => back[b] < back[c]

\* Between two matches the pairs by position stay below the next match.
LEMMA BackingAdvances ==
  ASSUME NEW A, NEW B, NEW stored \in Seq(A), NEW fresh \in Seq(B), NEW M,
         InStep(M), Within(M, 1, Len(stored), 1, Len(fresh))
  PROVE  Advancing([b \in DOMAIN fresh |-> Backing(stored, fresh, M, b)], Len(stored))
<1> DEFINE n == Len(stored)
           m == Len(fresh)
           all == M \union {<<0, 0>>, <<n + 1, m + 1>>}
           below(b) == {p \in M \union {<<0, 0>>} : p[2] <= b}
           last(b) == CHOOSE p \in below(b) : \A q \in below(b) : q[2] <= p[2]
           above(b) == {p \in M \union {<<n + 1, m + 1>>} : p[2] > b}
           next(b) == CHOOSE p \in above(b) : \A q \in above(b) : p[2] <= q[2]
           a(b) == last(b)[1] + (b - last(b)[2])
<1>1. n \in Nat /\ m \in Nat /\ DOMAIN fresh = 1..m
  OBVIOUS
<1>2. \A p \in M : p \in (1..n) \X (1..m)
  BY DEF Within
<1>3. \A p \in all : p[1] \in 0..n + 1 /\ p[2] \in 0..m + 1
  BY <1>1, <1>2
<1>4. InStep(all)
  BY <1>1, <1>2 DEF InStep
<1>5. ASSUME NEW b \in 1..m
      PROVE  /\ last(b) \in all /\ last(b)[2] <= b
             /\ last(b) = <<0, 0>> \/ last(b) \in M
             /\ \A q \in M \union {<<0, 0>>} : q[2] <= b => q[2] <= last(b)[2]
  <2> DEFINE S == {p[2] : p \in below(b)}
  <2>1. S \subseteq 0..m /\ 0 \in S
    <3>1. <<0, 0>> \in below(b)
      BY <1>1
    <3>2. \A p \in below(b) : p[2] \in 0..m
      BY <1>1, <1>3
    <3> QED BY <3>1, <3>2
  <2>2. Greatest(S) \in S /\ \A y \in S : Greatest(S) >= y
    BY <2>1, <1>1, GreatestOf
  <2>3. PICK p \in below(b) : p[2] = Greatest(S)
    BY <2>2
  <2>4. \A q \in below(b) : q[2] <= p[2]
    BY <2>2, <2>3
  <2>5. last(b) \in below(b) /\ \A q \in below(b) : q[2] <= last(b)[2]
    BY <2>3, <2>4
  <2> HIDE DEF last
  <2> QED BY <2>5
<1>6. ASSUME NEW b \in 1..m
      PROVE  /\ next(b) \in all /\ next(b)[2] > b
             /\ next(b) = <<n + 1, m + 1>> \/ next(b) \in M
             /\ \A q \in M \union {<<n + 1, m + 1>>} : q[2] > b => q[2] >= next(b)[2]
  <2> DEFINE S == {p[2] : p \in above(b)}
  <2>1. S \subseteq Nat /\ m + 1 \in S
    <3>1. <<n + 1, m + 1>> \in above(b)
      BY <1>1
    <3>2. \A p \in above(b) : p[2] \in Nat
      BY <1>1, <1>3
    <3> QED BY <3>1, <3>2
  <2>2. PICK y \in S : \A z \in S : y <= z
    BY <2>1, NatMin
  <2>3. PICK p \in above(b) : p[2] = y
    BY <2>2
  <2>4. \A q \in above(b) : p[2] <= q[2]
    BY <2>2, <2>3
  <2>5. next(b) \in above(b) /\ \A q \in above(b) : next(b)[2] <= q[2]
    BY <2>3, <2>4
  <2> HIDE DEF next
  <2> QED BY <2>5
<1>7. ASSUME NEW b \in 1..m
      PROVE  Backing(stored, fresh, M, b) = IF a(b) < next(b)[1] THEN a(b) ELSE 0
  BY DEF Backing
<1> HIDE DEF n, m, last, next, all
<1>8. ASSUME NEW b \in 1..m
      PROVE  a(b) \in Nat /\ a(b) >= last(b)[1] /\ next(b)[1] \in Nat /\ next(b)[1] <= n + 1
  BY <1>1, <1>3, <1>5, <1>6
<1>9. ASSUME NEW b \in 1..m, NEW c \in 1..m, b < c, a(b) < next(b)[1]
      PROVE  a(b) < a(c)
  <2>1. CASE next(b)[2] <= c
    <3>1. next(b) \in M
      BY <2>1, <1>6, <1>1
    <3>2. next(b)[2] <= last(c)[2]
      BY <3>1, <2>1, <1>5
    <3>3. next(b)[1] <= last(c)[1]
      BY <3>2, <1>4, <1>3, <1>5, <1>6 DEF InStep
    <3>4. last(c)[1] \in Int
      BY <1>3, <1>5
    <3> HIDE DEF a
    <3> QED BY <3>3, <3>4, <1>8, <1>9
  <2>2. CASE next(b)[2] > c
    <3>1. last(c) = <<0, 0>> \/ last(c) \in M
      BY <1>5
    <3>2. last(c)[2] <= b
      <4>1. CASE last(c) = <<0, 0>>
        BY <4>1, <1>1
      <4>2. CASE last(c) \in M
        <5>1. last(c)[2] <= c /\ last(c)[2] \in Int /\ next(b)[2] \in Int
          BY <1>5, <1>3, <1>6
        <5> QED BY <4>2, <5>1, <2>2, <1>6, <1>1
      <4> QED BY <4>1, <4>2, <3>1
    <3>3. last(c)[2] <= last(b)[2]
      BY <3>1, <3>2, <1>5
    <3>4. last(b)[2] <= last(c)[2]
      <4>1. last(b)[2] <= c
        BY <1>5, <1>3, <1>1, <1>9
      <4> QED BY <4>1, <1>5
    <3>5. last(b)[1] = last(c)[1] /\ last(b)[2] = last(c)[2]
      BY <3>3, <3>4, <1>4, <1>3, <1>5 DEF InStep
    <3> QED BY <3>5, <1>3, <1>5, <1>9, <1>1
  <2> QED BY <2>1, <2>2, <1>3, <1>6, <1>1
<1> DEFINE back == [b \in DOMAIN fresh |-> Backing(stored, fresh, M, b)]
<1>10. ASSUME NEW b \in DOMAIN fresh
       PROVE  /\ back[b] = IF a(b) < next(b)[1] THEN a(b) ELSE 0
              /\ back[b] \in 0..n
  <2>1. back[b] = IF a(b) < next(b)[1] THEN a(b) ELSE 0
    BY <1>7, <1>1
  <2>2. b \in 1..m
    BY <1>1
  <2> HIDE DEF back, a
  <2> QED BY <2>1, <2>2, <1>8, <1>1
<1>11. ASSUME NEW b \in DOMAIN fresh, NEW c \in DOMAIN fresh, b < c, back[b] # 0, back[c] # 0
       PROVE  back[b] < back[c]
  <2>1. b \in 1..m /\ c \in 1..m
    BY <1>1
  <2> HIDE DEF back, a
  <2> QED BY <1>9, <1>10, <1>11, <2>1
<1>12. DOMAIN back = DOMAIN fresh
  OBVIOUS
<1> HIDE DEF back
<1> QED BY <1>10, <1>11, <1>12 DEF Advancing, back, n

-----------------------------------------------------------------------------
(* The keys.                                                               *)

\* What a gap has room for.
LEMMA Share ==
  ASSUME NEW d \in Nat, NEW k \in Nat \ {0}
  PROVE  d \div k \in Nat /\ (d \div k) * k <= d
OBVIOUS

\* Steps of one size.
LEMMA Times ==
  ASSUME NEW a \in Nat \ {0}, NEW x \in Nat, NEW y \in Nat, x < y
  PROVE  a * x \in Nat /\ a * y \in Nat /\ a * x < a * y
OBVIOUS

\* Keys never fall, and rise where every run of new nodes fits its gap.
LEMMA Spreads ==
  ASSUME NEW N \in Nat, NEW n \in Nat, NEW back \in [1..N -> 0..n], Advancing(back, n),
         NEW stored,
         \A i \in 1..n : stored[i].order \in Nat \ {0},
         \A i, j \in 1..n : i < j => stored[i].order < stored[j].order
  PROVE  LET K == Spread(stored, back)
         IN  /\ DOMAIN K = 1..N
             /\ \A b \in 1..N : K[b].key \in Nat /\ (K[b].fits => K[b].key > 0)
             /\ \A b, c \in 1..N : b < c =>
                  /\ K[b].key <= K[c].key
                  /\ K[b].fits /\ K[c].fits => K[b].key < K[c].key
<1> DEFINE Ord(b) == stored[back[b]].order
           RunStart(b) == Least({i \in 1..b : \A j \in i..b : back[j] = 0})
           RunEnd(b) == Least({i \in b..N + 1 : i = N + 1 \/ back[i] # 0})
           lo(b) == IF RunStart(b) = 1 THEN 0 ELSE stored[back[RunStart(b) - 1]].order
           nth(b) == b - RunStart(b) + 1
           step(b) == (Ord(RunEnd(b)) - lo(b)) \div (RunEnd(b) - RunStart(b) + 1)
           InGap(b) == HasRoomBetween(lo(b), Ord(RunEnd(b))) /\ step(b) > 0
           K == Spread(stored, back)
<1>1. Len(back) = N
  <2>1. back \in Seq(0..n)
    OBVIOUS
  <2> QED BY <2>1
<1>2. ASSUME NEW b \in 1..N
      PROVE  /\ back[b] # 0 => K[b].key = Ord(b) /\ K[b].fits
             /\ back[b] = 0 /\ RunEnd(b) = N + 1 =>
                  K[b].key = lo(b) + ORDER_STRIDE * nth(b) /\ K[b].fits
             /\ back[b] = 0 /\ RunEnd(b) # N + 1 /\ InGap(b) =>
                  K[b].key = lo(b) + step(b) * nth(b) /\ K[b].fits
             /\ back[b] = 0 /\ RunEnd(b) # N + 1 /\ ~InGap(b) =>
                  K[b].key = lo(b) /\ ~K[b].fits
  <2>1. K[b] = IF back[b] # 0 THEN [key |-> Ord(b), fits |-> TRUE]
               ELSE IF RunEnd(b) = N + 1
                    THEN [key |-> lo(b) + ORDER_STRIDE * nth(b), fits |-> TRUE]
                    ELSE IF InGap(b) THEN [key |-> lo(b) + step(b) * nth(b), fits |-> TRUE]
                         ELSE [key |-> lo(b), fits |-> FALSE]
    BY <1>1 DEF Spread
  <2> HIDE DEF K, Ord, lo, nth, step, InGap, RunEnd
  <2> QED BY <2>1
<1>3. DOMAIN K = 1..N
  BY <1>1 DEF Spread
<1>4. ASSUME NEW b \in 1..N, back[b] # 0
      PROVE  Ord(b) \in Nat \ {0}
  BY <1>4
<1>5. ASSUME NEW b \in 1..N, back[b] # 0, NEW c \in 1..N, back[c] # 0, b < c
      PROVE  Ord(b) < Ord(c)
  BY <1>5 DEF Advancing
<1>6. ASSUME NEW b \in 1..N, back[b] = 0
      PROVE  LET s == RunStart(b)
             IN  /\ s \in 1..b
                 /\ \A j \in s..b : back[j] = 0
                 /\ \A i \in 1..b : (\A j \in i..b : back[j] = 0) => s <= i
                 /\ s = 1 \/ (s - 1 \in 1..N /\ back[s - 1] # 0)
  <2> DEFINE S == {i \in 1..b : \A j \in i..b : back[j] = 0}
             s == RunStart(b)
  <2>1. b \in S /\ S \subseteq Nat
    BY <1>6
  <2>2. s \in S /\ \A i \in S : s <= i
    <3> HIDE DEF S
    <3> QED BY <2>1, LeastOf DEF S
  <2> HIDE DEF s
  <2>3. s = 1 \/ (s - 1 \in 1..N /\ back[s - 1] # 0)
    <3> SUFFICES ASSUME s # 1, back[s - 1] = 0
                 PROVE  FALSE
      BY <2>2
    <3>1. s - 1 \in 1..b /\ \A j \in s - 1..b : j = s - 1 \/ j \in s..b
      BY <2>2
    <3>2. s - 1 \in S
      BY <3>1, <2>2
    <3> QED BY <3>2, <2>2
  <2> QED BY <2>2, <2>3 DEF s
<1>7. ASSUME NEW b \in 1..N, back[b] = 0
      PROVE  LET e == RunEnd(b)
             IN  /\ e \in b + 1..N + 1
                 /\ \A j \in b..e - 1 : back[j] = 0
                 /\ \A i \in b..N + 1 : (i = N + 1 \/ back[i] # 0) => e <= i
                 /\ e = N + 1 \/ (e \in 1..N /\ back[e] # 0)
  <2> DEFINE S == {i \in b..N + 1 : i = N + 1 \/ back[i] # 0}
             e == RunEnd(b)
  <2>1. N + 1 \in S /\ S \subseteq Nat
    OBVIOUS
  <2>2. e \in S /\ \A i \in S : e <= i
    <3> HIDE DEF S
    <3> QED BY <2>1, LeastOf DEF S
  <2> HIDE DEF e
  <2>3. e # b
    BY <2>2, <1>7
  <2>4. ASSUME NEW j \in b..e - 1, back[j] # 0
        PROVE  FALSE
    <3>1. j \in S
      BY <2>2, <2>4
    <3> QED BY <3>1, <2>2, <2>4
  <2> HIDE DEF S
  <2>5. e \in b..N + 1 /\ (e = N + 1 \/ back[e] # 0)
    BY <2>2 DEF S
  <2>6. \A i \in b..N + 1 : (i = N + 1 \/ back[i] # 0) => e <= i
    BY <2>2 DEF S
  <2>7. e \in b + 1..N + 1 /\ (e = N + 1 \/ e \in 1..N)
    BY <2>3, <2>5
  <2> QED BY <2>4, <2>5, <2>6, <2>7 DEF e
<1> HIDE DEF RunStart, RunEnd, Ord, K
<1>8. ASSUME NEW b \in 1..N, back[b] = 0
      PROVE  /\ lo(b) \in Nat
             /\ \A c \in 1..N : c < b /\ back[c] # 0 => Ord(c) <= lo(b)
             /\ RunEnd(b) # N + 1 => Ord(RunEnd(b)) \in Nat /\ lo(b) < Ord(RunEnd(b))
             /\ \A c \in 1..N : c > b /\ back[c] # 0 =>
                  RunEnd(b) # N + 1 /\ RunEnd(b) <= c /\ Ord(RunEnd(b)) <= Ord(c)
  <2> DEFINE s == RunStart(b)
             e == RunEnd(b)
  <2>1. /\ s \in 1..b
        /\ \A j \in s..b : back[j] = 0
        /\ s = 1 \/ (s - 1 \in 1..N /\ back[s - 1] # 0)
    BY <1>6, <1>8
  <2>2. /\ e \in b + 1..N + 1
        /\ \A i \in b..N + 1 : (i = N + 1 \/ back[i] # 0) => e <= i
        /\ e = N + 1 \/ (e \in 1..N /\ back[e] # 0)
    BY <1>7, <1>8
  <2>3. lo(b) = IF s = 1 THEN 0 ELSE Ord(s - 1)
    BY DEF Ord
  <2> HIDE DEF s, e, lo
  <2>4. lo(b) \in Nat
    BY <2>1, <2>3, <1>4
  <2>5. ASSUME NEW c \in 1..N, c < b, back[c] # 0
        PROVE  Ord(c) <= lo(b)
    <3>1. c < s
      BY <2>1, <2>5
    <3>2. s # 1 /\ (c = s - 1 \/ c < s - 1)
      BY <3>1, <2>1
    <3>3. Ord(c) \in Nat
      BY <1>4, <2>5
    <3> QED BY <3>2, <3>3, <2>1, <2>3, <2>5, <1>5, <1>4
  <2>6. e # N + 1 => Ord(e) \in Nat /\ lo(b) < Ord(e)
    <3> SUFFICES ASSUME e # N + 1 PROVE Ord(e) \in Nat /\ lo(b) < Ord(e)
      OBVIOUS
    <3>1. Ord(e) \in Nat \ {0}
      BY <2>2, <1>4
    <3>2. CASE s = 1
      BY <3>1, <3>2, <2>3
    <3>3. CASE s # 1
      <4>1. s - 1 < e
        BY <2>1, <2>2
      <4> QED BY <4>1, <3>1, <3>3, <2>1, <2>2, <2>3, <1>5
    <3> QED BY <3>2, <3>3
  <2>7. ASSUME NEW c \in 1..N, c > b, back[c] # 0
        PROVE  e # N + 1 /\ e <= c /\ Ord(e) <= Ord(c)
    <3>1. e <= c
      BY <2>2, <2>7
    <3>2. e # N + 1 /\ (e = c \/ e < c)
      BY <3>1, <2>2
    <3>3. Ord(c) \in Nat
      BY <1>4, <2>7
    <3>4. e < c => Ord(e) < Ord(c)
      BY <3>2, <2>2, <2>7, <1>5
    <3>5. Ord(e) \in Nat
      BY <3>2, <2>2, <1>4
    <3> QED BY <3>1, <3>2, <3>3, <3>4, <3>5
  <2> QED BY <2>4, <2>5, <2>6, <2>7 DEF e
<1>9. ASSUME NEW b \in 1..N, back[b] = 0
      PROVE  /\ K[b].key \in Nat
             /\ K[b].key >= lo(b)
             /\ K[b].fits => K[b].key > lo(b)
             /\ RunEnd(b) # N + 1 => K[b].key < Ord(RunEnd(b))
  <2> DEFINE s == RunStart(b)
             e == RunEnd(b)
             k == e - s + 1
             d == Ord(e) - lo(b)
  <2>1. s \in 1..b /\ e \in b + 1..N + 1
    BY <1>6, <1>7, <1>9
  <2>2. nth(b) \in Nat \ {0} /\ nth(b) < k /\ k \in Nat \ {0}
    BY <2>1
  <2>3. lo(b) \in Nat
    BY <1>8, <1>9
  <2> HIDE DEF s, e, k, lo, nth
  <2>4. CASE e = N + 1
    <3>1. K[b].key = lo(b) + ORDER_STRIDE * nth(b)
      BY <1>2, <1>9, <2>4 DEF e
    <3>2. ORDER_STRIDE * nth(b) \in Nat /\ ORDER_STRIDE * nth(b) > 0
      <4>1. ORDER_STRIDE * 0 < ORDER_STRIDE * nth(b) /\ ORDER_STRIDE * nth(b) \in Nat
        BY <2>2, StrideAssumption, Times
      <4>2. ORDER_STRIDE * 0 = 0
        BY StrideAssumption
      <4> QED BY <4>1, <4>2
    <3> HIDE DEF K
    <3> QED BY <3>1, <3>2, <2>3, <2>4 DEF e
  <2>5. CASE e # N + 1
    <3>1. Ord(e) \in Nat /\ lo(b) < Ord(e)
      BY <1>8, <1>9, <2>5 DEF e
    <3>2. d \in Nat
      BY <3>1, <2>3
    <3>3. step(b) = d \div k
      BY DEF e, s, k
    <3>4. step(b) \in Nat /\ step(b) * k <= d
      BY <3>2, <3>3, <2>2, Share
    <3> DEFINE x == step(b) * nth(b)
    <3> HIDE DEF step, InGap
    <3>5. CASE InGap(b)
      <4>1. step(b) \in Nat \ {0}
        BY <3>4, <3>5 DEF InGap
      <4>2. x \in Nat /\ x < step(b) * k /\ step(b) * k \in Nat
        BY <4>1, <2>2, Times
      <4>3. step(b) * 0 < x /\ step(b) * 0 = 0
        BY <4>1, <2>2, Times
      <4>4. K[b].key = lo(b) + x
        BY <1>2, <1>9, <2>5, <3>5 DEF e
      <4> HIDE DEF x
      <4> QED BY <4>2, <4>3, <4>4, <3>1, <3>4, <2>3 DEF e
    <3>6. CASE ~InGap(b)
      <4>1. K[b].key = lo(b) /\ ~K[b].fits
        BY <1>2, <1>9, <2>5, <3>6 DEF e
      <4> QED BY <4>1, <3>1, <2>3 DEF e
    <3> QED BY <3>5, <3>6
  <2> QED BY <2>4, <2>5
<1>10. ASSUME NEW b \in 1..N, NEW c \in 1..N, b < c, \A j \in b..c : back[j] = 0
       PROVE  /\ K[b].key <= K[c].key
              /\ K[b].fits => K[b].key < K[c].key
  <2>1. back[b] = 0 /\ back[c] = 0
    BY <1>10
  <2>2. RunStart(b) = RunStart(c)
    <3>1. RunStart(c) <= RunStart(b)
      <4>1. \A j \in RunStart(b)..c : j \in RunStart(b)..b \/ j \in b..c
        BY <2>1, <1>6
      <4>2. RunStart(b) \in 1..c
        BY <2>1, <1>6, <1>10
      <4> QED BY <4>1, <4>2, <2>1, <1>6, <1>10
    <3>2. RunStart(b) <= RunStart(c)
      <4>1. RunStart(c) \in 1..b
        BY <3>1, <2>1, <1>6
      <4>2. \A j \in RunStart(c)..b : j \in RunStart(c)..c
        BY <4>1, <1>10
      <4> QED BY <4>1, <4>2, <2>1, <1>6
    <3>3. RunStart(b) \in Nat /\ RunStart(c) \in Nat
      <4>1. RunStart(b) \in 1..b
        BY <2>1, <1>6
      <4>2. RunStart(c) \in 1..c
        BY <2>1, <1>6
      <4> QED BY <4>1, <4>2
    <3> QED BY <3>1, <3>2, <3>3
  <2>3. RunEnd(b) = RunEnd(c)
    <3>1. RunEnd(b) \in c..N + 1
      <4>1. RunEnd(b) \in b + 1..N + 1 /\ (RunEnd(b) = N + 1 \/ back[RunEnd(b)] # 0)
        BY <2>1, <1>7
      <4>2. RunEnd(b) \notin b..c \/ RunEnd(b) = N + 1
        BY <4>1, <1>10
      <4> QED BY <4>1, <4>2
    <3>2. RunEnd(c) \in b..N + 1
      BY <2>1, <1>7, <1>10
    <3>3. RunEnd(c) <= RunEnd(b)
      BY <3>1, <2>1, <1>7
    <3>4. RunEnd(b) <= RunEnd(c)
      BY <3>2, <2>1, <1>7
    <3> QED BY <3>1, <3>2, <3>3, <3>4
  <2>4. lo(b) = lo(c) /\ step(b) = step(c) /\ (InGap(b) <=> InGap(c)) /\ lo(b) \in Nat
    BY <2>2, <2>3, <2>1, <1>8
  <2>5. nth(b) \in Nat /\ nth(c) \in Nat /\ nth(b) < nth(c)
    BY <2>1, <2>2, <1>6, <1>10
  <2> HIDE DEF lo, nth
  <2>6. CASE RunEnd(b) = N + 1
    <3>1. K[b].key = lo(b) + ORDER_STRIDE * nth(b) /\ K[c].key = lo(b) + ORDER_STRIDE * nth(c)
      BY <1>2, <2>1, <2>3, <2>4, <2>6
    <3>2. /\ ORDER_STRIDE * nth(b) \in Nat /\ ORDER_STRIDE * nth(c) \in Nat
          /\ ORDER_STRIDE * nth(b) < ORDER_STRIDE * nth(c)
      BY <2>5, StrideAssumption, Times
    <3> QED BY <3>1, <3>2, <2>4
  <2>7. CASE RunEnd(b) # N + 1 /\ InGap(b)
    <3>1. step(b) \in Nat \ {0}
      <4>1. RunEnd(b) \in Nat /\ RunStart(b) \in Nat /\ RunEnd(b) - RunStart(b) + 1 \in Nat \ {0}
        BY <2>1, <1>6, <1>7
      <4>2. Ord(RunEnd(b)) - lo(b) \in Nat
        BY <1>8, <2>1, <2>4, <2>7
      <4>3. step(b) \in Nat
        BY <4>1, <4>2, Share
      <4> QED BY <4>3, <2>7
    <3> HIDE DEF step, InGap
    <3>2. K[b].key = lo(b) + step(b) * nth(b) /\ K[c].key = lo(b) + step(b) * nth(c)
      BY <1>2, <2>1, <2>3, <2>4, <2>7
    <3>3. /\ step(b) * nth(b) \in Nat /\ step(b) * nth(c) \in Nat
          /\ step(b) * nth(b) < step(b) * nth(c)
      BY <2>5, <3>1, Times
    <3> QED BY <3>2, <3>3, <2>4
  <2>8. CASE RunEnd(b) # N + 1 /\ ~InGap(b)
    <3> HIDE DEF step, InGap
    <3>1. K[b].key = lo(b) /\ ~K[b].fits /\ K[c].key = lo(b)
      BY <1>2, <2>1, <2>3, <2>4, <2>8
    <3> QED BY <3>1, <2>4
  <2> QED BY <2>6, <2>7, <2>8
<1>11. ASSUME NEW b \in 1..N, back[b] # 0
       PROVE  K[b].key = Ord(b)
  BY <1>2, <1>11
<1>12. ASSUME NEW b \in 1..N
       PROVE  K[b].key \in Nat /\ (K[b].fits => K[b].key > 0)
  <2>1. CASE back[b] # 0
    BY <2>1, <1>4, <1>11
  <2>2. CASE back[b] = 0
    <3> HIDE DEF lo
    <3> QED BY <2>2, <1>8, <1>9
  <2> QED BY <2>1, <2>2
<1>13. ASSUME NEW b \in 1..N, NEW c \in 1..N, b < c
       PROVE  /\ K[b].key <= K[c].key
              /\ K[b].fits /\ K[c].fits => K[b].key < K[c].key
  <2> HIDE DEF lo
  <2>1. CASE back[b] # 0 /\ back[c] # 0
    BY <2>1, <1>5, <1>11, <1>13, <1>4
  <2>2. CASE back[b] # 0 /\ back[c] = 0
    <3>1. Ord(b) \in Nat /\ Ord(b) <= lo(c) /\ lo(c) \in Nat
      BY <2>2, <1>4, <1>8, <1>13
    <3>2. K[b].key = Ord(b)
      BY <2>2, <1>11
    <3>3. /\ K[c].key \in Nat /\ lo(c) <= K[c].key
          /\ K[c].fits => lo(c) < K[c].key
      BY <2>2, <1>9
    <3> QED BY <3>1, <3>2, <3>3
  <2>3. CASE back[b] = 0 /\ back[c] # 0
    <3>1. /\ RunEnd(b) # N + 1 /\ Ord(RunEnd(b)) \in Nat /\ Ord(RunEnd(b)) <= Ord(c)
          /\ Ord(c) \in Nat
      BY <2>3, <1>4, <1>8, <1>13
    <3>2. K[b].key \in Nat /\ K[b].key < Ord(RunEnd(b))
      BY <2>3, <3>1, <1>9
    <3>3. K[c].key = Ord(c)
      BY <2>3, <1>11
    <3> QED BY <3>1, <3>2, <3>3
  <2>4. CASE back[b] = 0 /\ back[c] = 0
    <3>1. CASE \A j \in b..c : back[j] = 0
      BY <3>1, <1>10, <1>13
    <3>2. CASE \E j \in b..c : back[j] # 0
      <4>1. PICK j \in b..c : back[j] # 0
        BY <3>2
      <4>2. j \in 1..N /\ b < j /\ j < c
        BY <4>1, <2>4
      <4>3. RunEnd(b) # N + 1 /\ Ord(RunEnd(b)) \in Nat /\ Ord(RunEnd(b)) <= Ord(j)
        BY <4>1, <4>2, <2>4, <1>8
      <4>4. Ord(j) \in Nat /\ Ord(j) <= lo(c) /\ lo(c) \in Nat
        BY <4>1, <4>2, <2>4, <1>4, <1>8
      <4>5. K[b].key < Ord(RunEnd(b)) /\ K[b].key \in Nat /\ K[c].key >= lo(c) /\ K[c].key \in Nat
        BY <2>4, <4>3, <1>9
      <4>6. K[b].key < K[c].key
        <5> HIDE DEF lo
        <5> QED BY <4>3, <4>4, <4>5
      <4> QED BY <4>5, <4>6
    <3> QED BY <3>1, <3>2
  <2> QED BY <2>1, <2>2, <2>3, <2>4
<1> QED BY <1>3, <1>12, <1>13 DEF K

\* Nodes as the store keeps them: their keys rise.
Keyed(nodes) ==
  /\ nodes \in Seq({nodes[i] : i \in DOMAIN nodes})
  /\ \A i \in DOMAIN nodes : nodes[i].order \in Nat \ {0}
  /\ \A i, j \in DOMAIN nodes : i < j => nodes[i].order < nodes[j].order

\* A function on 1..n with rising keys is such a sequence.
LEMMA KeyedOf ==
  ASSUME NEW n \in Nat, NEW nodes, nodes = [i \in 1..n |-> nodes[i]],
         \A i \in 1..n : nodes[i].order \in Nat \ {0},
         \A i, j \in 1..n : i < j => nodes[i].order < nodes[j].order
  PROVE  Keyed(nodes)
<1>1. DOMAIN nodes = 1..n
  OBVIOUS
<1>2. nodes \in [1..n -> {nodes[i] : i \in 1..n}]
  OBVIOUS
<1>3. nodes \in Seq({nodes[i] : i \in DOMAIN nodes})
  <2> DEFINE S == {nodes[i] : i \in 1..n}
  <2>1. nodes \in [1..n -> S]
    BY <1>2
  <2> HIDE DEF S
  <2>2. nodes \in Seq(S)
    BY <2>1
  <2> QED BY <2>2, <1>1 DEF S
<1> QED BY <1>1, <1>3 DEF Keyed

\* Such nodes are composed as they stand.
LEMMA KeyedInOrder ==
  ASSUME NEW nodes, Keyed(nodes)
  PROVE  regenerate(nodes) = [i \in DOMAIN nodes |-> nodes[i].text]
<1> DEFINE S == {nodes[i] : i \in DOMAIN nodes}
<1>1. nodes \in Seq(S)
  BY DEF Keyed
<1>2. Len(nodes) \in Nat /\ DOMAIN nodes = 1..Len(nodes)
  <2> HIDE DEF S
  <2> QED BY <1>1
<1>3. \A i \in DOMAIN nodes : nodes[i].order \in Int
  BY DEF Keyed
<1>4. NonDecreasing(nodes)
  BY <1>3 DEF Keyed, NonDecreasing
<1>5. \A i \in DOMAIN nodes : ByOrder(nodes)[i] = nodes[i]
  BY <1>2, <1>3, <1>4, ByOrderId
<1> QED BY <1>5 DEF regenerate

\* However a file is reconciled (kept keys, keys spread over a gap, or a
\* rebalance of them all), its new nodes have rising positive keys and hold the
\* fresh texts in their order: no key is used twice, and no text is lost or moved.
THEOREM Reconciles ==
  ASSUME NEW stored, Keyed(stored), NEW B, NEW fresh \in Seq(B)
  PROVE  LET new == reconcile(stored, fresh).nodes
         IN  /\ Keyed(new)
             /\ DOMAIN new = DOMAIN fresh
             /\ \A i \in DOMAIN fresh : new[i].text = fresh[i].text
<1> DEFINE n == Len(stored)
           m == Len(fresh)
           A == {stored[i] : i \in DOMAIN stored}
           M == Matches(stored, fresh)
           back == [b \in DOMAIN fresh |-> Backing(stored, fresh, M, b)]
           K == Spread(stored, back)
           nodes == [b \in DOMAIN fresh |->
                       [order |-> K[b].key, kind |-> fresh[b].kind, text |-> fresh[b].text]]
           new == reconcile(stored, fresh).nodes
<1> SUFFICES /\ Keyed(new)
             /\ DOMAIN new = DOMAIN fresh
             /\ \A i \in DOMAIN fresh : new[i].text = fresh[i].text
  OBVIOUS
<1>1. stored \in Seq(A)
  BY DEF Keyed
<1> HIDE DEF A
<1>2. n \in Nat /\ m \in Nat /\ DOMAIN stored = 1..n /\ DOMAIN fresh = 1..m
  BY <1>1
<1>3. Advancing(back, n)
  BY <1>1, MatchesInStep, BackingAdvances
<1>4. DOMAIN back = 1..m
  BY <1>2
<1>5. new = IF \A b \in DOMAIN fresh : K[b].fits THEN nodes ELSE rebalance(nodes)
  <2> DEFINE update == assign_keys(stored, fresh, M)
  <2>1. /\ update.nodes = IF \A b \in DOMAIN fresh : K[b].fits THEN nodes ELSE rebalance(nodes)
        /\ [update EXCEPT !.changed = {}].nodes = update.nodes
    BY DEF assign_keys
  <2>2. reconcile(stored, fresh) = IF stored = <<>> THEN [update EXCEPT !.changed = {}] ELSE update
    BY DEF reconcile
  <2> HIDE DEF update, K, nodes
  <2> QED BY <2>1, <2>2
<1> HIDE DEF n, m, new
<1>6. back \in [1..m -> 0..n]
  <2>1. back = [b \in 1..m |-> back[b]]
    BY <1>2
  <2> HIDE DEF back
  <2> QED BY <2>1, <1>3, <1>4 DEF Advancing
<1>7. /\ \A i \in 1..n : stored[i].order \in Nat \ {0}
      /\ \A i, j \in 1..n : i < j => stored[i].order < stored[j].order
  BY <1>2 DEF Keyed
<1> HIDE DEF back
<1>8. /\ DOMAIN K = 1..m
      /\ \A b \in 1..m : K[b].key \in Nat /\ (K[b].fits => K[b].key > 0)
      /\ \A b, c \in 1..m : b < c =>
           /\ K[b].key <= K[c].key
           /\ K[b].fits /\ K[c].fits => K[b].key < K[c].key
  BY <1>2, <1>3, <1>6, <1>7, Spreads
<1> HIDE DEF K
<1>9. /\ DOMAIN nodes = 1..m
      /\ \A b \in 1..m : nodes[b].order = K[b].key /\ nodes[b].text = fresh[b].text
      /\ nodes = [b \in 1..m |-> nodes[b]]
  BY <1>2
<1>10. CASE \A b \in DOMAIN fresh : K[b].fits
  <2>1. new = nodes
    BY <1>5, <1>10
  <2> HIDE DEF nodes
  <2>3. \A b \in 1..m : nodes[b].order \in Nat \ {0}
    BY <1>2, <1>8, <1>9, <1>10
  <2>4. \A b, c \in 1..m : b < c => nodes[b].order < nodes[c].order
    BY <1>2, <1>8, <1>9, <1>10
  <2>2. Keyed(nodes)
    BY <1>2, <1>9, <2>3, <2>4, KeyedOf
  <2> QED BY <2>1, <2>2, <1>2, <1>9
<1>11. CASE ~(\A b \in DOMAIN fresh : K[b].fits)
  <2>1. new = rebalance(nodes)
    BY <1>5, <1>11
  <2> HIDE DEF nodes
  <2>2. NonDecreasing(nodes)
    BY <1>8, <1>9 DEF NonDecreasing
  <2>3. \A b \in 1..m : ByOrder(nodes)[b] = nodes[b]
    <3>1. \A b \in 1..m : nodes[b].order \in Int
      BY <1>8, <1>9
    <3> QED BY <1>2, <1>9, <2>2, <3>1, ByOrderId
  <2>4. new = [i \in 1..m |-> [ByOrder(nodes)[i] EXCEPT !.order = initial_order(i)]]
    BY <2>1, <1>9 DEF rebalance
  <2>5. ASSUME NEW i \in 1..m
        PROVE  new[i].order = i * ORDER_STRIDE /\ new[i].text = fresh[i].text
    <3>1. new[i] = [nodes[i] EXCEPT !.order = i * ORDER_STRIDE]
      BY <2>3, <2>4 DEF initial_order
    <3>2. nodes[i] = [order |-> K[i].key, kind |-> fresh[i].kind, text |-> fresh[i].text]
      BY <1>2 DEF nodes
    <3> QED BY <3>1, <3>2
  <2>6. ASSUME NEW i \in 1..m
        PROVE  i * ORDER_STRIDE \in Nat \ {0}
    BY StrideAssumption
  <2>7. ASSUME NEW i \in 1..m, NEW j \in 1..m, i < j
        PROVE  i * ORDER_STRIDE < j * ORDER_STRIDE
    BY <2>7, StrideAssumption
  <2>8. new = [i \in 1..m |-> new[i]]
    BY <2>4
  <2>9. Keyed(new)
    <3>1. \A i \in 1..m : new[i].order \in Nat \ {0}
      BY <2>5, <2>6
    <3>2. \A i, j \in 1..m : i < j => new[i].order < new[j].order
      BY <2>5, <2>7
    <3> QED BY <1>2, <2>8, <3>1, <3>2, KeyedOf
  <2>10. DOMAIN new = 1..m
    BY <2>8
  <2> QED BY <1>2, <2>5, <2>9, <2>10
<1> QED BY <1>10, <1>11

=============================================================================

------------------------------ MODULE Reconcile ------------------------------
(***************************************************************************)
(* A re-scanned file against the nodes stored for it (projection/mod.rs,   *)
(* projection/update.rs): which stored node each new one continues, and    *)
(* the sparse order keys, from which the ids of the graph derive.          *)
(*                                                                         *)
(* A stored node is [order, kind, text], a fresh one [kind, text]; what a  *)
(* text is does not matter here, but that Ink takes the white space out.   *)
(* A file's text is its nodes' texts in the order of their keys.  Keys are *)
(* 64-bit in the code and 2^32 apart, so their saturation at the top is    *)
(* never reached and not modelled; a gap between two keys running out is.  *)
(* Fingerprints are compared together with what they stand for, so they    *)
(* are left out.                                                           *)
(***************************************************************************)
EXTENDS Integers, Sequences, FiniteSets

CONSTANTS
  Ink(_),           \* a text without its white space
  ORDER_STRIDE,     \* the gap between the keys of a first ingest
  LCS_CELL_BUDGET   \* the largest table alignment builds

ASSUME StrideAssumption == ORDER_STRIDE \in Nat \ {0}
ASSUME BudgetAssumption == LCS_CELL_BUDGET \in Nat

-----------------------------------------------------------------------------
Least(S) == CHOOSE x \in S : \A y \in S : x <= y

Greatest(S) == CHOOSE x \in S : \A y \in S : x >= y

initial_order(i) == i * ORDER_STRIDE

\* The stable sort by key, which projection and rebalancing share.
ByOrder(nodes) ==
  LET Before(i, j) == \/ nodes[i].order < nodes[j].order
                      \/ nodes[i].order = nodes[j].order /\ i < j
      Place(j) == Cardinality({i \in DOMAIN nodes : Before(i, j)}) + 1
  IN  [r \in DOMAIN nodes |-> nodes[CHOOSE j \in DOMAIN nodes : Place(j) = r]]

rebalance(nodes) ==
  [i \in DOMAIN nodes |-> [ByOrder(nodes)[i] EXCEPT !.order = initial_order(i)]]

regenerate(nodes) == [i \in DOMAIN nodes |-> ByOrder(nodes)[i].text]

HasRoomBetween(lo, hi) == hi - lo >= 2

cosmetic_only(a, b) == Ink(a) = Ink(b)

same(a, b) == a.kind = b.kind /\ a.text = b.text

-----------------------------------------------------------------------------
(* Alignment.  Matches is a set of pairs <<stored, fresh>>, increasing in   *)
(* both: the common head and tail, and what the walk of the table keeps.   *)

CommonHead(stored, fresh) ==
  Greatest({n \in 0..Len(stored) :
    n <= Len(fresh) /\ \A i \in 1..n : same(stored[i], fresh[i])})

\* The tail never reaches into the head.
CommonTail(stored, fresh) ==
  LET head == CommonHead(stored, fresh)
  IN  Greatest({n \in 0..Len(stored) - head :
        /\ n <= Len(fresh) - head
        /\ \A i \in 0..n - 1 :
             same(stored[Len(stored) - i], fresh[Len(fresh) - i])})

\* The table's cells, from the pair of its first two nodes to its edges.
Cells(lo, oldHi, newHi) == (lo + 1..oldHi + 1) \X (lo + 1..newHi + 1)

pastOld(c) == <<c[1] + 1, c[2]>>
pastNew(c) == <<c[1], c[2] + 1>>
pastPair(c) == <<c[1] + 1, c[2] + 1>>

\* The pairs of old[lo + 1 ..] and new[lo + 1 ..] that the walk keeps.
WalkMatches(old, new, lo, oldHi, newHi) ==
  LET Edge(c) == c[1] > oldHi \/ c[2] > newHi
      Same(c) == same(old[c[1]], new[c[2]])
      dp[c \in Cells(lo, oldHi, newHi)] ==
        IF Edge(c) THEN 0
        ELSE IF Same(c) THEN dp[pastPair(c)] + 1
        ELSE Greatest({dp[pastOld(c)], dp[pastNew(c)]})
      walk[c \in Cells(lo, oldHi, newHi)] ==
        IF Edge(c) THEN {}
        ELSE IF Same(c) THEN {c} \union walk[pastPair(c)]
        ELSE IF dp[pastOld(c)] >= dp[pastNew(c)] THEN walk[pastOld(c)]
        ELSE walk[pastNew(c)]
  IN  walk[<<lo + 1, lo + 1>>]

align(stored, fresh, head, tail) ==
  LET n == Len(stored) - head - tail
      m == Len(fresh) - head - tail
  IN  IF n * m > LCS_CELL_BUDGET THEN {}
      ELSE WalkMatches(stored, fresh, head, head + n, head + m)

Matches(stored, fresh) ==
  LET head == CommonHead(stored, fresh)
      tail == CommonTail(stored, fresh)
  IN  {<<i, i>> : i \in 1..head}
        \union align(stored, fresh, head, tail)
        \union {<<Len(stored) - i, Len(fresh) - i>> : i \in 0..tail - 1}

\* Between two matches the nodes pair by position: the stored node that the
\* fresh node b continues, or 0 for a node that is new.
Backing(stored, fresh, matches, b) ==
  LET below == {p \in matches \union {<<0, 0>>} : p[2] <= b}
      last == CHOOSE p \in below : \A q \in below : q[2] <= p[2]
      above == {p \in matches \union {<<Len(stored) + 1, Len(fresh) + 1>>} : p[2] > b}
      next == CHOOSE p \in above : \A q \in above : p[2] <= q[2]
      a == last[1] + (b - last[2])
  IN  IF a < next[1] THEN a ELSE 0

-----------------------------------------------------------------------------
\* The key of each fresh node, given the stored node each continues: its own,
\* or one of a run of new nodes spread over the gap.  A gap with no room gives
\* its lower bound, which no node can keep.
Spread(stored, back) ==
  LET N == Len(back)
      RunStart(b) == Least({i \in 1..b : \A j \in i..b : back[j] = 0})
      RunEnd(b) == Least({i \in b..N + 1 : i = N + 1 \/ back[i] # 0})
      lo(b) == IF RunStart(b) = 1 THEN 0 ELSE stored[back[RunStart(b) - 1]].order
      nth(b) == b - RunStart(b) + 1
      InGap(b, hi) ==
        LET step == (hi - lo(b)) \div (RunEnd(b) - RunStart(b) + 1)
        IN  IF HasRoomBetween(lo(b), hi) /\ step > 0
            THEN [key |-> lo(b) + step * nth(b), fits |-> TRUE]
            ELSE [key |-> lo(b), fits |-> FALSE]
  IN  [b \in 1..N |->
         IF back[b] # 0 THEN [key |-> stored[back[b]].order, fits |-> TRUE]
         ELSE IF RunEnd(b) = N + 1
              THEN [key |-> lo(b) + ORDER_STRIDE * nth(b), fits |-> TRUE]
              ELSE InGap(b, stored[back[RunEnd(b)]].order)]

\* changed holds the keys of the new nodes and of those whose ink changed; a
\* rebalance renames every node, and then it holds none.
assign_keys(stored, fresh, matches) ==
  LET back == [b \in DOMAIN fresh |-> Backing(stored, fresh, matches, b)]
      keys == Spread(stored, back)
      Edited(b) ==
        \/ back[b] = 0
        \/ /\ <<back[b], b>> \notin matches
           /\ ~cosmetic_only(stored[back[b]].text, fresh[b].text)
      nodes == [b \in DOMAIN fresh |->
                  [order |-> keys[b].key, kind |-> fresh[b].kind,
                   text |-> fresh[b].text]]
  IN  IF \A b \in DOMAIN fresh : keys[b].fits
      THEN [nodes |-> nodes, rebalanced |-> FALSE,
            changed |-> {keys[b].key : b \in {c \in DOMAIN fresh : Edited(c)}}]
      ELSE [nodes |-> rebalance(nodes), rebalanced |-> TRUE, changed |-> {}]

\* A first ingest spreads the keys alike, and reports no change.
reconcile(stored, fresh) ==
  LET update == assign_keys(stored, fresh, Matches(stored, fresh))
  IN  IF stored = <<>> THEN [update EXCEPT !.changed = {}] ELSE update
=============================================================================

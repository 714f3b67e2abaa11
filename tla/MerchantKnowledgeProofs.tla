----------------------- MODULE MerchantKnowledgeProofs -----------------------
(* Proofs about MerchantKnowledge.                                            *)
EXTENDS MerchantKnowledge, FiniteSetTheorems, TLAPS

-----------------------------------------------------------------------------
(* Positions.  p maps the live sources to their positions, w is the           *)
(* reordering under way.                                                      *)
Unique(p) == \A s, t \in DOMAIN p : s # t => p[s] # p[t]

Dense(p) ==
  LET n == Cardinality(DOMAIN p)
  IN /\ \A s \in DOMAIN p : p[s] \in 0..(n - 1)
     /\ \A k \in 0..(n - 1) : \E s \in DOMAIN p : p[s] = k

(* order lists the rows, each once.                                           *)
Lists(order, rows) ==
  LET n == Cardinality(rows)
  IN /\ order \in [1..n -> rows]
     /\ \A i, j \in 1..n : i # j => order[i] # order[j]
     /\ \A s \in rows : \E i \in 1..n : order[i] = s

(* Both passes: the rows that have moved are at or behind the offset, which   *)
(* no row has reached before; the rows that are placed are where they belong. *)
Rewriting(p, w) ==
  LET rows == DOMAIN p
      n == Cardinality(rows)
  IN /\ n >= 1
     /\ w \in [order : [1..n -> rows], offset : Nat, moved : SUBSET rows, placed : SUBSET rows]
     /\ Lists(w.order, rows)
     /\ n <= w.offset
     /\ \A s \in rows : p[s] \in Nat
     /\ \A s \in rows \ w.moved : p[s] < w.offset
     /\ \A s \in w.moved \ w.placed : p[s] >= w.offset
     /\ \A s \in rows \ w.moved, t \in w.moved : p[t] # p[s] + w.offset
     /\ w.placed # {} => w.moved = rows
     /\ \A i \in 1..n : w.order[i] \in w.placed => p[w.order[i]] = i - 1

Positioned(p, w) == Unique(p) /\ ((w = NoRewrite /\ Dense(p)) \/ Rewriting(p, w))

LEMMA NotRewriting == ASSUME NEW p, NEW w, IsFiniteSet(DOMAIN p), Rewriting(p, w) PROVE w # NoRewrite
<1>1. DOMAIN w.order = 1..Cardinality(DOMAIN p) /\ Cardinality(DOMAIN p) >= 1
  BY DEF Rewriting
<1>2. 1 \in DOMAIN w.order
  BY <1>1, FS_CardinalityType
<1>3. 1 \notin DOMAIN NoRewrite.order
  BY DEF NoRewrite
<1> QED  BY <1>2, <1>3

(* A list of rows of which each is in its place leaves them dense.            *)
LEMMA ListedDense ==
  ASSUME NEW p, NEW order, IsFiniteSet(DOMAIN p), Lists(order, DOMAIN p),
         \A i \in 1..Cardinality(DOMAIN p) : p[order[i]] = i - 1
  PROVE  Dense(p) /\ Unique(p)
<1> DEFINE n == Cardinality(DOMAIN p)
<1>1. n \in Nat
  BY FS_CardinalityType
<1>2. \A s \in DOMAIN p : \E i \in 1..n : s = order[i] /\ p[s] = i - 1
  BY DEF Lists
<1>3. \A i \in 1..n : order[i] \in DOMAIN p
  BY DEF Lists
<1> HIDE DEF n
<1>4. \A s \in DOMAIN p : p[s] \in 0..(n - 1)
  BY <1>1, <1>2
<1>5. \A k \in 0..(n - 1) : \E s \in DOMAIN p : p[s] = k
  <2> SUFFICES ASSUME NEW k \in 0..(n - 1) PROVE \E s \in DOMAIN p : p[s] = k
    OBVIOUS
  <2>1. k + 1 \in 1..n
    BY <1>1
  <2>2. p[order[k + 1]] = k
    BY <2>1 DEF n
  <2> QED  BY <1>3, <2>1, <2>2
<1>6. Unique(p)
  BY <1>1, <1>2 DEF Unique
<1> QED  BY <1>4, <1>5, <1>6 DEF Dense, n

(* A source that is added behind n dense ones.                                *)
LEMMA AppendedDense ==
  ASSUME NEW p, NEW q, NEW s, IsFiniteSet(DOMAIN p), Dense(p), Unique(p), s \notin DOMAIN p,
         DOMAIN q = DOMAIN p \cup {s}, q[s] = Cardinality(DOMAIN p),
         \A t \in DOMAIN p : q[t] = p[t]
  PROVE  Dense(q) /\ Unique(q)
<1> DEFINE n == Cardinality(DOMAIN p)
<1>1. n \in Nat
  BY FS_CardinalityType
<1>2. Cardinality(DOMAIN q) = n + 1
  BY FS_AddElement
<1>3. /\ \A t \in DOMAIN p : p[t] \in 0..(n - 1)
      /\ \A k \in 0..(n - 1) : \E t \in DOMAIN p : p[t] = k
  BY DEF Dense
<1> HIDE DEF n
<1>4. \A t \in DOMAIN q : q[t] \in 0..n
  BY <1>1, <1>3 DEF n
<1>5. \A k \in 0..n : \E t \in DOMAIN q : q[t] = k
  <2> SUFFICES ASSUME NEW k \in 0..n PROVE \E t \in DOMAIN q : q[t] = k
    OBVIOUS
  <2>1. CASE k = n
    BY <2>1 DEF n
  <2>2. CASE k # n
    <3>1. k \in 0..(n - 1)
      BY <1>1, <2>2
    <3> QED  BY <1>3, <3>1
  <2> QED  BY <2>1, <2>2
<1>6. Unique(q)
  <2>1. \A t \in DOMAIN p : q[t] # q[s]
    BY <1>1, <1>3 DEF n
  <2> QED  BY <2>1 DEF Unique
<1>7. Cardinality(DOMAIN q) - 1 = n
  BY <1>1, <1>2
<1> QED  BY <1>4, <1>5, <1>6, <1>7 DEF Dense

(* The first pass: a row moves behind the offset.                             *)
LEMMA RowMoved ==
  ASSUME NEW p, NEW q, NEW w, NEW s \in DOMAIN p, Unique(p), Rewriting(p, w), s \notin w.moved,
         DOMAIN q = DOMAIN p, q[s] = p[s] + w.offset, \A t \in DOMAIN p \ {s} : q[t] = p[t]
  PROVE  Positioned(q, [w EXCEPT !.moved = @ \cup {s}])
<1> DEFINE rows == DOMAIN p
           n == Cardinality(rows)
           v == [w EXCEPT !.moved = @ \cup {s}]
<1>1. /\ w \in [order : [1..n -> rows], offset : Nat, moved : SUBSET rows, placed : SUBSET rows]
      /\ w.placed = {}
  BY DEF Rewriting
<1>2. /\ v \in [order : [1..n -> rows], offset : Nat, moved : SUBSET rows, placed : SUBSET rows]
      /\ v.order = w.order /\ v.offset = w.offset /\ v.placed = {} /\ v.moved = w.moved \cup {s}
  BY <1>1
<1> HIDE DEF v
<1>3. /\ \A t \in rows : p[t] \in Nat
      /\ \A t \in rows \ w.moved : p[t] < w.offset
      /\ \A t \in w.moved : p[t] >= w.offset
      /\ \A t \in rows \ w.moved, u \in w.moved : p[u] # p[t] + w.offset
  BY <1>1 DEF Rewriting
<1>4. w.offset \in Nat /\ p[s] \in Nat
  BY <1>1, <1>3
<1>5. Unique(q)
  <2>1. \A t \in rows \ {s} : q[t] # q[s]
    BY <1>3, <1>4
  <2> QED  BY <2>1 DEF Unique
<1>6. \A t \in rows : q[t] \in Nat
  BY <1>3, <1>4
<1>7. \A t \in rows \ v.moved : q[t] < v.offset
  BY <1>2, <1>3
<1>8. \A t \in v.moved : q[t] >= v.offset
  <2>1. q[s] >= w.offset
    BY <1>4
  <2> QED  BY <1>1, <1>2, <1>3, <2>1
<1>9. \A t \in rows \ v.moved, u \in v.moved : q[u] # q[t] + v.offset
  <2>1. \A t \in rows \ v.moved : p[t] # p[s] /\ q[t] = p[t]
    BY <1>2 DEF Unique
  <2>2. \A t \in rows \ v.moved : q[s] # q[t] + v.offset
    BY <1>2, <1>3, <1>4, <2>1
  <2>3. \A t \in rows \ v.moved, u \in w.moved : q[u] # q[t] + v.offset
    BY <1>1, <1>2, <1>3
  <2> QED  BY <1>2, <2>2, <2>3
<1>10. n >= 1 /\ Lists(w.order, rows) /\ n <= w.offset
  BY DEF Rewriting
<1>11. Rewriting(q, v)
  BY <1>2, <1>6, <1>7, <1>8, <1>9, <1>10 DEF Rewriting
<1> QED  BY <1>5, <1>11 DEF Positioned, v

(* The second pass: a row takes its place, the last one ends the rewriting.   *)
LEMMA RowPlaced ==
  ASSUME NEW p, NEW q, NEW w, NEW i \in DOMAIN w.order, IsFiniteSet(DOMAIN p), Unique(p), Rewriting(p, w),
         w.moved = DOMAIN p, w.order[i] \notin w.placed,
         DOMAIN q = DOMAIN p, q[w.order[i]] = i - 1, \A t \in DOMAIN p \ {w.order[i]} : q[t] = p[t]
  PROVE  Positioned(q, IF w.placed \cup {w.order[i]} = DOMAIN p THEN NoRewrite
                       ELSE [w EXCEPT !.placed = @ \cup {w.order[i]}])
<1> DEFINE rows == DOMAIN p
           n == Cardinality(rows)
           s == w.order[i]
           v == [w EXCEPT !.placed = @ \cup {s}]
<1>0. n \in Nat
  BY FS_CardinalityType
<1>1. w \in [order : [1..n -> rows], offset : Nat, moved : SUBSET rows, placed : SUBSET rows]
  BY DEF Rewriting
<1>2. i \in 1..n /\ s \in rows
  BY <1>1
<1>3. /\ v \in [order : [1..n -> rows], offset : Nat, moved : SUBSET rows, placed : SUBSET rows]
      /\ v.order = w.order /\ v.offset = w.offset /\ v.moved = rows /\ v.placed = w.placed \cup {s}
  BY <1>1, <1>2
<1>4. /\ n >= 1 /\ Lists(w.order, rows) /\ n <= w.offset /\ w.offset \in Nat
      /\ \A t \in rows : p[t] \in Nat
      /\ \A t \in rows \ w.placed : p[t] >= w.offset
      /\ \A j \in 1..n : w.order[j] \in w.placed => p[w.order[j]] = j - 1
  BY <1>1 DEF Rewriting
<1>5. \A j \in 1..n : j # i => w.order[j] # s
  BY <1>2, <1>4 DEF Lists
<1>6. \A j \in 1..n : w.order[j] \in v.placed => q[w.order[j]] = j - 1
  <2> SUFFICES ASSUME NEW j \in 1..n, w.order[j] \in v.placed PROVE q[w.order[j]] = j - 1
    OBVIOUS
  <2>1. CASE j = i
    BY <2>1
  <2>2. CASE j # i
    BY <1>1, <1>3, <1>4, <1>5, <2>2
  <2> QED  BY <2>1, <2>2
<1> HIDE DEF v
<1>7. Unique(q)
  <2>1. ASSUME NEW t \in rows \ {s} PROVE q[t] # q[s]
    <3>1. PICK j \in 1..n : w.order[j] = t
      BY <1>4 DEF Lists
    <3>2. CASE t \in w.placed
      <4>1. q[t] = j - 1 /\ j # i
        BY <1>4, <3>1, <3>2, <2>1
      <4> QED  BY <1>0, <1>2, <4>1
    <3>3. CASE t \notin w.placed
      <4>1. q[t] >= w.offset /\ q[t] \in Nat
        BY <1>4, <3>3
      <4> QED  BY <1>0, <1>2, <1>4, <4>1
    <3> QED  BY <3>2, <3>3
  <2> QED  BY <2>1 DEF Unique
<1>8. \A t \in rows : q[t] \in Nat
  BY <1>0, <1>2, <1>4
<1>9. \A t \in v.moved \ v.placed : q[t] >= v.offset
  BY <1>3, <1>4
<1>10. CASE w.placed \cup {s} = rows
  <2>1. \A j \in 1..n : q[w.order[j]] = j - 1
    BY <1>1, <1>3, <1>6, <1>10
  <2> QED  BY <1>4, <1>10, <2>1, ListedDense DEF Positioned
<1>11. CASE w.placed \cup {s} # rows
  <2>1. Rewriting(q, v)
    BY <1>3, <1>4, <1>6, <1>8, <1>9 DEF Rewriting
  <2> QED  BY <1>7, <1>11, <2>1 DEF Positioned, v
<1> QED  BY <1>10, <1>11

(* A rewriting that starts: nothing has moved, or everything is in its place. *)
LEMMA RewriteStarted ==
  ASSUME NEW p, NEW order, NEW offset \in Nat, IsFiniteSet(DOMAIN p), Unique(p), Lists(order, DOMAIN p),
         \A s \in DOMAIN p : p[s] \in Nat /\ p[s] < offset,
         Cardinality(DOMAIN p) <= offset
  PROVE  Positioned(p, IF \A i \in DOMAIN order : p[order[i]] = i - 1 THEN NoRewrite
                       ELSE [order |-> order, offset |-> offset, moved |-> {}, placed |-> {}])
<1> DEFINE n == Cardinality(DOMAIN p)
           w == [order |-> order, offset |-> offset, moved |-> {}, placed |-> {}]
<1>1. n \in Nat /\ DOMAIN order = 1..n
  BY FS_CardinalityType DEF Lists
<1>2. CASE \A i \in 1..n : p[order[i]] = i - 1
  BY <1>1, <1>2, ListedDense DEF Positioned
<1>3. CASE ~(\A i \in 1..n : p[order[i]] = i - 1)
  <2>1. n >= 1
    BY <1>1, <1>3
  <2>2. w \in [order : [1..n -> DOMAIN p], offset : Nat, moved : SUBSET DOMAIN p, placed : SUBSET DOMAIN p]
    BY DEF Lists
  <2>3. w.order = order /\ w.offset = offset /\ w.moved = {} /\ w.placed = {}
    OBVIOUS
  <2> HIDE DEF w
  <2>4. Rewriting(p, w)
    BY <2>1, <2>2, <2>3 DEF Rewriting
  <2> QED  BY <1>1, <1>3, <2>4 DEF Positioned, w
<1> QED  BY <1>2, <1>3

(* The order that a merchant gives.                                           *)
LEMMA OrdersList ==
  ASSUME NEW rows, IsFiniteSet(rows), NEW order \in Orders(rows) PROVE Lists(order, rows)
<1> DEFINE n == Cardinality(rows)
<1>1. n \in Nat /\ IsFiniteSet(1..n) /\ Cardinality(1..n) = n
  <2>1. n \in Nat
    BY FS_CardinalityType
  <2> QED  BY <2>1, FS_Interval
<1>2. order \in [1..n -> rows] /\ \A i, j \in 1..n : i # j => order[i] # order[j]
  BY DEF Orders
<1>3. order \in Injection(1..n, rows)
  BY <1>2 DEF Injection, IsInjective
<1>4. order \in Surjection(1..n, rows)
  BY <1>1, <1>3, FS_Injection
<1> QED  BY <1>2, <1>4 DEF Lists, Surjection

LEMMA MaxIs ==
  ASSUME NEW S \in SUBSET Nat, NEW m \in S, \A y \in S : y <= m PROVE Max(S) = m
<1>1. \A y \in S : m >= y
  OBVIOUS
<1>2. ASSUME NEW x \in S, \A y \in S : x >= y PROVE x = m
  BY <1>2
<1>3. Max(S) \in S /\ \A y \in S : Max(S) >= y
  BY <1>1 DEF Max
<1> QED  BY <1>2, <1>3

(* How many rows are before a row among dense ones: its position says so.     *)
LEMMA BeforeCounts ==
  ASSUME NEW p, IsFiniteSet(DOMAIN p), Dense(p), Unique(p), NEW t \in DOMAIN p
  PROVE  /\ IsFiniteSet({u \in DOMAIN p : p[u] < p[t]})
         /\ Cardinality({u \in DOMAIN p : p[u] < p[t]}) = p[t]
<1> DEFINE n == Cardinality(DOMAIN p)
           B == {u \in DOMAIN p : p[u] < p[t]}
           C == 0..(p[t] - 1)
           f == [u \in B |-> p[u]]
<1>1. n \in Nat
  BY FS_CardinalityType
<1>2. /\ \A u \in DOMAIN p : p[u] \in 0..(n - 1)
      /\ \A k \in 0..(n - 1) : \E u \in DOMAIN p : p[u] = k
  BY DEF Dense
<1>3. IsFiniteSet(B)
  BY FS_Subset
<1>4. f \in [B -> C]
  BY <1>1, <1>2
<1>5. \A u, v \in B : u # v => f[u] # f[v]
  BY DEF Unique
<1>6. \A k \in C : \E u \in B : f[u] = k
  BY <1>1, <1>2
<1>7. f \in Bijection(B, C)
  BY <1>4, <1>5, <1>6 DEF Bijection, Injection, Surjection, IsInjective
<1>8. Cardinality(C) = Cardinality(B)
  BY <1>3, <1>7, FS_Bijection DEF ExistsBijection
<1>9. p[t] \in Nat
  BY <1>1, <1>2
<1>10. Cardinality(C) = p[t]
  <2>1. 0 \in Int /\ p[t] - 1 \in Int
    BY <1>9
  <2>2. Cardinality(C) = IF 0 > p[t] - 1 THEN 0 ELSE p[t] - 1 - 0 + 1
    BY <2>1, FS_Interval
  <2> QED  BY <1>9, <2>2
<1> QED  BY <1>3, <1>8, <1>10

(* An order of rows runs over the rows, each of them once.                    *)
LEMMA ListsEnumerates ==
  ASSUME NEW order, NEW rows, Lists(order, rows)
  PROVE  {order[i] : i \in DOMAIN order} = rows /\ \A i \in DOMAIN order : order[i] \in rows
<1> DEFINE I == 1..Cardinality(rows)
<1>1. order \in [I -> rows] /\ \A s \in rows : \E i \in I : order[i] = s
  BY DEF Lists
<1> HIDE DEF I
<1>2. DOMAIN order = I /\ \A i \in I : order[i] \in rows
  BY <1>1
<1> QED  BY <1>1, <1>2

(* An order that holds at i a row with i - 1 of the other rows before it.     *)
ByRank(order, p, s) ==
  LET rest == DOMAIN p \ {s}
      count(t) == Cardinality({u \in DOMAIN p : p[u] < p[t]} \ {s})
      I == 1..Cardinality(rest)
  IN /\ order \in [I -> {order[i] : i \in I}]
     /\ \A i \in I :
          (\E t \in rest : count(t) = i - 1) => order[i] \in rest /\ count(order[i]) = i - 1

(* What a deletion leaves: the rows in the order of their positions, which    *)
(* the new order numbers without a gap.                                       *)
LEMMA DeletionLists ==
  ASSUME NEW p, NEW s \in DOMAIN p, IsFiniteSet(DOMAIN p), Dense(p), Unique(p), NEW order,
         ByRank(order, p, s)
  PROVE  Lists(order, DOMAIN p \ {s})
<1> DEFINE rows == DOMAIN p \ {s}
           n == Cardinality(DOMAIN p)
           rank(t) == IF p[s] < p[t] THEN p[t] - 1 ELSE p[t]
           count(t) == Cardinality({u \in DOMAIN p : p[u] < p[t]} \ {s})
<1>1. n \in Nat /\ n >= 1 /\ Cardinality(rows) = n - 1
  BY FS_CardinalityType, FS_RemoveElement, FS_EmptySet
<1>2. /\ \A t \in DOMAIN p : p[t] \in 0..(n - 1)
      /\ \A k \in 0..(n - 1) : \E t \in DOMAIN p : p[t] = k
  BY DEF Dense
<1>3. ASSUME NEW t \in rows PROVE count(t) = rank(t)
  <2> DEFINE B == {u \in DOMAIN p : p[u] < p[t]}
  <2>1. IsFiniteSet(B) /\ Cardinality(B) = p[t]
    BY BeforeCounts
  <2>2. s \in B <=> p[s] < p[t]
    OBVIOUS
  <2> HIDE DEF B
  <2>3. Cardinality(B \ {s}) = IF s \in B THEN Cardinality(B) - 1 ELSE Cardinality(B)
    BY <2>1, FS_RemoveElement
  <2> QED  BY <2>1, <2>2, <2>3 DEF B
<1>4. \A t \in rows : p[t] # p[s]
  BY DEF Unique
<1>5. \A t, u \in rows : t # u => rank(t) # rank(u)
  <2> SUFFICES ASSUME NEW t \in rows, NEW u \in rows, t # u PROVE rank(t) # rank(u)
    OBVIOUS
  <2>1. p[t] # p[u] /\ p[t] # p[s] /\ p[u] # p[s] /\ p[t] \in Int /\ p[u] \in Int /\ p[s] \in Int
    BY <1>1, <1>2, <1>4 DEF Unique
  <2> QED  BY <2>1
<1>6. \A k \in 0..(n - 2) : \E t \in rows : rank(t) = k
  <2> SUFFICES ASSUME NEW k \in 0..(n - 2) PROVE \E t \in rows : rank(t) = k
    OBVIOUS
  <2>0. p[s] \in Int
    BY <1>1, <1>2
  <2>1. CASE k < p[s]
    <3>1. PICK t \in DOMAIN p : p[t] = k
      BY <1>1, <1>2
    <3> QED  BY <1>1, <2>0, <2>1, <3>1
  <2>2. CASE k >= p[s]
    <3>1. PICK t \in DOMAIN p : p[t] = k + 1
      BY <1>1, <1>2
    <3> QED  BY <1>1, <2>0, <2>2, <3>1
  <2> QED  BY <1>1, <2>0, <2>1, <2>2
<1>7. \A t \in rows : rank(t) \in 0..(n - 2)
  <2> SUFFICES ASSUME NEW t \in rows PROVE rank(t) \in 0..(n - 2)
    OBVIOUS
  <2>1. p[t] \in 0..(n - 1) /\ p[s] \in 0..(n - 1) /\ p[t] # p[s]
    BY <1>2, <1>4
  <2> QED  BY <1>1, <2>1
<1> HIDE DEF rank
<1>8. \A i \in 1..(n - 1) : order[i] \in rows /\ rank(order[i]) = i - 1
  <2> SUFFICES ASSUME NEW i \in 1..(n - 1) PROVE order[i] \in rows /\ rank(order[i]) = i - 1
    OBVIOUS
  <2>1. (\E t \in rows : count(t) = i - 1) => order[i] \in rows /\ count(order[i]) = i - 1
    <3>1. i \in 1..Cardinality(DOMAIN p \ {s})
      BY <1>1
    <3> QED  BY <3>1 DEF ByRank
  <2>2. \E t \in rows : rank(t) = i - 1
    BY <1>1, <1>6
  <2>3. \E t \in rows : count(t) = i - 1
    BY <1>3, <2>2
  <2> HIDE DEF count
  <2>4. order[i] \in rows /\ count(order[i]) = i - 1
    BY <2>1, <2>3
  <2> QED  BY <1>3, <2>4
<1>9. order \in [1..(n - 1) -> rows]
  <2> DEFINE I == 1..(n - 1)
  <2>1. order \in [I -> {order[i] : i \in I}]
    BY <1>1 DEF ByRank
  <2>2. \A i \in I : order[i] \in rows
    BY <1>8
  <2> HIDE DEF I, rows
  <2>3. {order[i] : i \in I} \subseteq rows
    BY <2>2
  <2>4. order \in [I -> rows]
    BY <2>1, <2>3
  <2> QED  BY <2>4 DEF I
<1> HIDE DEF rows, n, count
<1>10. \A i, j \in 1..(n - 1) : i # j => order[i] # order[j]
  <2> SUFFICES ASSUME NEW i \in 1..(n - 1), NEW j \in 1..(n - 1), order[i] = order[j] PROVE i = j
    OBVIOUS
  <2>1. rank(order[i]) = i - 1 /\ rank(order[j]) = j - 1
    BY <1>8
  <2>2. i - 1 = j - 1
    BY <2>1, Zenon
  <2> QED  BY <1>1, <2>2
<1>11. \A t \in rows : \E i \in 1..(n - 1) : order[i] = t
  <2> SUFFICES ASSUME NEW t \in rows PROVE \E i \in 1..(n - 1) : order[i] = t
    OBVIOUS
  <2>1. \E j \in 1..(n - 1) : j - 1 = rank(t)
    <3>1. rank(t) \in 0..(n - 2)
      BY <1>7
    <3>2. rank(t) + 1 \in 1..(n - 1) /\ (rank(t) + 1) - 1 = rank(t)
      BY <1>1, <3>1
    <3> QED  BY <3>2
  <2>2. PICK j \in 1..(n - 1) : j - 1 = rank(t)
    BY <2>1
  <2>3. order[j] \in rows /\ rank(order[j]) = rank(t)
    BY <1>8, <2>2
  <2> QED  BY <1>5, <2>3
<1>12. Lists(order, rows)
  BY <1>1, <1>9, <1>10, <1>11 DEF Lists
<1> QED  BY <1>12 DEF rows

-----------------------------------------------------------------------------
(* The invariant.                                                             *)
Held == [s \in Live |-> Position(s)]

SourceRows ==
  [at : {"unused", "live", "deleted"}, type : Types, position : Nat, generation : 0..MaxGeneration]

SourceOK(row) ==
  /\ row.at = "live" => row.generation >= 1
  /\ row.at = "unused" => row = NoSource
  /\ row.at = "deleted" => row = Deleted

SourcesOK == sources \in [Sources -> SourceRows] /\ \A s \in Sources : SourceOK(sources[s])

Reasons == {"CREATE", "URL_CHANGE", "REFRESH", "REPROCESS", "FILE_REPLACE"}

Uses(r) == r.reason \in {"CREATE", "FILE_REPLACE"}

Available(a) == assets[a].status = "AVAILABLE"

(* A revision is one of a live source, and a file's has an upload that was    *)
(* finalized.                                                                 *)
RevisionOK(r) ==
  /\ r \in [source : Sources, generation : 1..MaxGeneration, reason : Reasons, input : Urls \cup Assets]
  /\ sources[r.source].at = "live"
  /\ r.generation <= sources[r.source].generation
  /\ r.reason = "CREATE" <=> r.generation = 1
  /\ r.input \in Assets <=> sources[r.source].type = "FILE"
  /\ r.input \in Assets => Available(r.input)

RevisionsOK ==
  /\ \A r \in revisions : RevisionOK(r)
  /\ \A r, q \in revisions : r.source = q.source /\ r.generation = q.generation => r = q
  /\ \A s \in Live : \A g \in 1..sources[s].generation :
       \E r \in revisions : r.source = s /\ r.generation = g
  /\ \A r, q \in revisions : Uses(r) /\ Uses(q) /\ r.input = q.input /\ r.input \in Assets => r = q

AssetRows == [status : {"unused", "PENDING_UPLOAD", "AVAILABLE"}, expired : BOOLEAN, stored : BOOLEAN]

(* The file that an upload is to replace: it was one, and may be gone.        *)
TargetOK(t, rows) ==
  \/ t = None
  \/ t \in Sources /\ rows[t].at = "live" /\ rows[t].type = "FILE"
  \/ t \in Sources /\ rows[t] = Deleted

FormOK(form, rows) ==
  /\ form \in [stage : {"idle", "uploading", "finalizing", "waiting"}, asset : Assets \cup {None},
               target : Sources \cup {None}]
  /\ form.stage # "idle" => form.asset \in Assets /\ TargetOK(form.target, rows)

Durable(r, rows, written) == r \in written \/ (r.source \in Sources /\ rows[r.source] = Deleted)

HandlerOK(h, rows, written) ==
  /\ h \in [asset : Assets, target : Sources \cup {None}, copy : {1, 2}, at : {"read", "commit", "publish"},
            revision : {h.revision}]
  /\ TargetOK(h.target, rows)
  /\ h.at = "publish" => Durable(h.revision, rows, written)

PlanOK == plan \in [entitled : BOOLEAN, types : SUBSET Types, max : 1..MaxAdmitted]

AssetsOK == assets \in [Assets -> AssetRows]

FormsOK == DOMAIN forms = Forms /\ \A f \in Forms : FormOK(forms[f], sources)

HandlersOK == \A h \in handlers : HandlerOK(h, sources, revisions)

ContentOK == SourcesOK /\ Positioned(Held, rewrite) /\ RevisionsOK

KnowledgeIInv == PlanOK /\ ContentOK /\ AssetsOK /\ FormsOK /\ HandlersOK

-----------------------------------------------------------------------------
LEMMA LiveFinite == IsFiniteSet(Live) /\ Cardinality(Live) \in Nat /\ DOMAIN Held = Live
<1>1. IsFiniteSet(Live)
  BY SourcesFinite, FS_Subset DEF Live
<1> QED  BY <1>1, FS_CardinalityType DEF Held

LEMMA KnowledgeInitHolds == Init => KnowledgeIInv
<1> SUFFICES ASSUME Init PROVE KnowledgeIInv
  OBVIOUS
<1>1. Live = {} /\ \A s \in Sources : sources[s] = NoSource
  BY DEF Init, Live, NoSource
<1>2. PlanOK
  BY BoundsPositive DEF Init, PlanOK
<1>3. SourcesOK
  <2>1. NoSource \in SourceRows /\ NoSource.at = "unused"
    BY BoundsPositive DEF NoSource, SourceRows, Types
  <2> QED  BY <2>1 DEF Init, SourcesOK, SourceOK
<1>4. Positioned(Held, rewrite)
  <2>1. DOMAIN Held = {} /\ Cardinality(DOMAIN Held) = 0
    BY <1>1, FS_EmptySet DEF Held
  <2>2. Dense(Held)
    BY <2>1 DEF Dense
  <2> QED  BY <2>1, <2>2 DEF Positioned, Unique, Init
<1>5. RevisionsOK
  BY <1>1 DEF Init, RevisionsOK
<1>6. AssetsOK /\ FormsOK /\ HandlersOK
  BY DEF Init, AssetsOK, NoAsset, AssetRows, FormsOK, FormOK, Idle, HandlersOK
<1> QED  BY <1>2, <1>3, <1>4, <1>5, <1>6 DEF KnowledgeIInv, ContentOK

(* Steps that leave the sources, their revisions and their order alone.       *)
LEMMA SameContent ==
  ASSUME KnowledgeIInv, UNCHANGED <<sources, revisions, rewrite>>,
         \A a \in Assets : Available(a) => assets'[a].status = "AVAILABLE"
  PROVE  ContentOK'
<1>1. SourcesOK' /\ Held' = Held /\ Live' = Live
  BY DEF KnowledgeIInv, ContentOK, SourcesOK, Held, Live, Position
<1>2. Positioned(Held, rewrite)'
  BY <1>1 DEF KnowledgeIInv, ContentOK
<1>3. \A r \in revisions : RevisionOK(r)'
  BY DEF KnowledgeIInv, ContentOK, RevisionsOK, RevisionOK, Available
<1>4. RevisionsOK'
  BY <1>1, <1>3 DEF KnowledgeIInv, ContentOK, RevisionsOK
<1> QED  BY <1>1, <1>2, <1>4 DEF ContentOK

LEMMA UploadIntentKeeps ==
  ASSUME KnowledgeIInv, NEW f \in Forms, NEW a \in Assets, NEW target \in Sources \cup {None},
         UploadIntent(f, a, target)
  PROVE  KnowledgeIInv'
<1>1. TargetOK(target, sources)
  BY DEF UploadIntent, TargetOK, Live
<1>2. AssetsOK' /\ \A b \in Assets : Available(b) => assets'[b].status = "AVAILABLE"
  <2>1. CASE RequireAllowed("FILE")
    <3>1. assets' = [assets EXCEPT ![a].status = "PENDING_UPLOAD"] /\ ~Available(a)
      BY <2>1 DEF UploadIntent, NoAsset, Available
    <3> QED  BY <3>1 DEF KnowledgeIInv, AssetsOK, AssetRows, Available
  <2>2. CASE ~RequireAllowed("FILE")
    BY <2>2 DEF UploadIntent, KnowledgeIInv, AssetsOK, Available
  <2> QED  BY <2>1, <2>2
<1>3. FormsOK'
  <2> DEFINE next == [stage |-> "uploading", asset |-> a, target |-> target]
  <2>1. FormOK(next, sources) /\ FormOK(Idle, sources)
    BY <1>1 DEF FormOK, Idle
  <2>2. forms' = [forms EXCEPT ![f] = next] \/ forms' = [forms EXCEPT ![f] = Idle]
    BY DEF UploadIntent, Fail
  <2> HIDE DEF next
  <2> QED  BY <2>1, <2>2 DEF UploadIntent, KnowledgeIInv, FormsOK
<1> QED  BY <1>2, <1>3, SameContent DEF UploadIntent, KnowledgeIInv, PlanOK, HandlersOK

LEMMA FormMoves ==
  ASSUME KnowledgeIInv, NEW f \in Forms, NEW stage \in {"uploading", "finalizing", "waiting"},
         forms[f].stage # "idle", Stage(f, stage) \/ Fail(f), UNCHANGED sources
  PROVE  FormsOK'
<1> DEFINE next == [forms[f] EXCEPT !.stage = stage]
<1>1. FormOK(forms[f], sources) /\ FormOK(Idle, sources)
  BY DEF KnowledgeIInv, FormsOK, FormOK, Idle
<1>2. FormOK(next, sources)
  BY <1>1 DEF FormOK
<1>3. forms' = [forms EXCEPT ![f] = next] \/ forms' = [forms EXCEPT ![f] = Idle]
  BY DEF Stage, Fail
<1> HIDE DEF next
<1> QED  BY <1>1, <1>2, <1>3 DEF KnowledgeIInv, FormsOK

LEMMA PutKeeps ==
  ASSUME KnowledgeIInv, NEW f \in Forms, Put(f) PROVE KnowledgeIInv'
<1>1. FormsOK'
  BY FormMoves DEF Put
<1>2. AssetsOK' /\ \A b \in Assets : Available(b) => assets'[b].status = "AVAILABLE"
  <2>1. PICK a \in Assets : a = forms[f].asset
    BY DEF Put, KnowledgeIInv, FormsOK, FormOK
  <2> DEFINE new == [assets[a] EXCEPT !.stored = TRUE]
  <2>2. new \in AssetRows /\ new.status = assets[a].status
    BY DEF KnowledgeIInv, AssetsOK, AssetRows
  <2>3. UNCHANGED assets \/ assets' = [assets EXCEPT ![a] = new]
    BY <2>1 DEF Put
  <2> HIDE DEF new
  <2> QED  BY <2>2, <2>3 DEF KnowledgeIInv, AssetsOK, Available
<1> QED  BY <1>1, <1>2, SameContent DEF Put, KnowledgeIInv, PlanOK, HandlersOK

(* Nothing moves but the forms and the finalizations.                         *)
LEMMA SameRows ==
  ASSUME KnowledgeIInv, FormsOK', HandlersOK', UNCHANGED <<plan, sources, revisions, assets, rewrite>>
  PROVE  KnowledgeIInv'
<1>1. ContentOK'
  BY SameContent DEF Available
<1> QED  BY <1>1 DEF KnowledgeIInv, PlanOK, AssetsOK

LEMMA FinalizeKeeps ==
  ASSUME KnowledgeIInv, NEW f \in Forms, Finalize(f) PROVE KnowledgeIInv'
<1>1. FormsOK'
  BY FormMoves DEF Finalize
<1>2. FormOK(forms[f], sources) /\ forms[f].stage # "idle"
  BY DEF KnowledgeIInv, FormsOK, Finalize
<1>22. forms[f].asset \in Assets /\ forms[f].target \in Sources \cup {None} /\ TargetOK(forms[f].target, sources)
  BY <1>2 DEF FormOK
<1>3. \A copy \in {1, 2} : HandlerOK(Handler(forms[f].asset, forms[f].target, copy), sources, revisions)
  BY <1>22 DEF HandlerOK, Handler
<1>4. \A h \in handlers' : h \in handlers \/ \E copy \in {1, 2} : h = Handler(forms[f].asset, forms[f].target, copy)
  BY DEF Finalize
<1>5. HandlersOK'
  BY <1>3, <1>4 DEF Finalize, KnowledgeIInv, HandlersOK
<1> QED  BY <1>1, <1>5, SameRows DEF Finalize

LEMMA LoseReplyKeeps ==
  ASSUME KnowledgeIInv, NEW f \in Forms, LoseReply(f) PROVE KnowledgeIInv'
<1>1. FormsOK'
  BY FormMoves DEF LoseReply
<1> QED  BY <1>1, SameRows DEF LoseReply, KnowledgeIInv, HandlersOK

LEMMA ReplyOK ==
  ASSUME KnowledgeIInv, NEW a, Reply(a), UNCHANGED sources PROVE FormsOK'
<1>1. FormOK(Idle, sources)
  BY DEF FormOK, Idle
<1> QED  BY <1>1 DEF Reply, KnowledgeIInv, FormsOK

LEMMA RefusedKeeps ==
  ASSUME KnowledgeIInv, NEW h \in handlers, Refused(h), UNCHANGED <<plan, sources, revisions, assets, rewrite>>
  PROVE  KnowledgeIInv'
BY ReplyOK, SameRows DEF Refused, KnowledgeIInv, HandlersOK

LEMMA FinalizeReadKeeps ==
  ASSUME KnowledgeIInv, NEW h \in handlers, FinalizeRead(h) PROVE KnowledgeIInv'
<1>1. CASE Refused(h)
  BY <1>1, RefusedKeeps DEF FinalizeRead
<1>2. CASE ~Refused(h)
  <2> DEFINE next == [h EXCEPT !.at = "commit"]
  <2>1. HandlerOK(h, sources, revisions)
    BY DEF KnowledgeIInv, HandlersOK
  <2>2. HandlerOK(next, sources, revisions)
    BY <2>1 DEF HandlerOK
  <2>3. handlers' = (handlers \ {h}) \cup {next} /\ UNCHANGED forms
    BY <1>2 DEF FinalizeRead
  <2> HIDE DEF next
  <2>4. HandlersOK' /\ FormsOK'
    BY <2>2, <2>3 DEF FinalizeRead, KnowledgeIInv, HandlersOK, FormsOK
  <2> QED  BY <2>4, SameRows DEF FinalizeRead
<1> QED  BY <1>1, <1>2

LEMMA PublishKeeps ==
  ASSUME KnowledgeIInv, NEW h \in handlers, Publish(h) PROVE KnowledgeIInv'
BY ReplyOK, SameRows DEF Publish, KnowledgeIInv, HandlersOK

LEMMA ExpireKeeps ==
  ASSUME KnowledgeIInv, NEW a \in Assets, Expire(a) PROVE KnowledgeIInv'
<1>1. AssetsOK' /\ \A b \in Assets : Available(b) => assets'[b].status = "AVAILABLE"
  BY DEF Expire, KnowledgeIInv, AssetsOK, AssetRows, Available
<1> QED  BY <1>1, SameContent DEF Expire, KnowledgeIInv, PlanOK, FormsOK, HandlersOK

LEMMA PlanMovesKeeps == ASSUME KnowledgeIInv, PlanMoves PROVE KnowledgeIInv'
<1>1. PlanOK'
  <2>1. [plan EXCEPT !.entitled = FALSE] \in [entitled : BOOLEAN, types : SUBSET Types, max : 1..MaxAdmitted]
    BY DEF KnowledgeIInv, PlanOK
  <2>2. \A types \in {Types, {"FILE"}}, max \in 1..MaxAdmitted :
          [entitled |-> TRUE, types |-> types, max |-> max]
            \in [entitled : BOOLEAN, types : SUBSET Types, max : 1..MaxAdmitted]
    BY DEF Types
  <2> QED  BY <2>1, <2>2 DEF PlanMoves, PlanOK
<1>2. ContentOK'
  BY SameContent DEF PlanMoves, Available
<1> QED  BY <1>1, <1>2 DEF PlanMoves, KnowledgeIInv, AssetsOK, FormsOK, HandlersOK

-----------------------------------------------------------------------------
(* A revision is written: the first one of a new source, or the next one.     *)
LEMMA RevisionAdded ==
  ASSUME KnowledgeIInv, NEW s \in Sources, NEW g \in 1..MaxGeneration, NEW reason \in Reasons,
         NEW input \in Urls \cup Assets,
         \A t \in Sources \ {s} : sources'[t] = sources[t],
         sources'[s].at = "live", sources'[s].generation = g,
         \/ s \notin Live /\ g = 1
         \/ s \in Live /\ g = sources[s].generation + 1 /\ sources'[s].type = sources[s].type,
         reason = "CREATE" <=> g = 1,
         input \in Assets <=> sources'[s].type = "FILE",
         \A a \in Assets : Available(a) => assets'[a].status = "AVAILABLE",
         input \in Assets => /\ assets'[input].status = "AVAILABLE"
                             /\ reason \in {"CREATE", "FILE_REPLACE"} => ~Available(input),
         revisions' = revisions \cup {Revision(s, g, reason, input)}
  PROVE  RevisionsOK' /\ Revision(s, g, reason, input) \notin revisions
<1> DEFINE new == Revision(s, g, reason, input)
<1>1. /\ new \in [source : Sources, generation : 1..MaxGeneration, reason : Reasons, input : Urls \cup Assets]
      /\ new.source = s /\ new.generation = g /\ new.reason = reason /\ new.input = input
  BY DEF Revision
<1>2. revisions' = revisions \cup {new}
  OBVIOUS
<1> HIDE DEF new
<1>3. \A r \in revisions : RevisionOK(r)
  BY DEF KnowledgeIInv, ContentOK, RevisionsOK
<1>4. \A t \in Sources : sources[t] \in SourceRows
  BY DEF KnowledgeIInv, ContentOK, SourcesOK
<1>5. Live' = Live \cup {s}
  BY DEF Live
<1>6. \A r \in revisions : r.source = s => s \in Live /\ r.generation < g
  <2> SUFFICES ASSUME NEW r \in revisions, r.source = s PROVE s \in Live /\ r.generation < g
    OBVIOUS
  <2>1. s \in Live /\ r.generation <= sources[s].generation /\ r.generation \in 1..MaxGeneration
    BY <1>3 DEF RevisionOK, Live
  <2>2. sources[s].generation \in 0..MaxGeneration
    BY <1>4 DEF SourceRows
  <2> QED  BY <2>1, <2>2, BoundsPositive
<1>7. \A r \in revisions' : RevisionOK(r)'
  <2>1. RevisionOK(new)'
    BY <1>1, BoundsPositive DEF RevisionOK, Available
  <2>2. ASSUME NEW r \in revisions PROVE RevisionOK(r)'
    <3>1. RevisionOK(r)
      BY <1>3
    <3>2. CASE r.source # s
      BY <3>1, <3>2 DEF RevisionOK, Available
    <3>3. CASE r.source = s
      <4>1. r.generation < g /\ s \in Live
        BY <1>6, <3>3
      <4>2. sources'[s].type = sources[s].type
        BY <4>1
      <4>3. r.generation <= g
        BY <3>1, <4>1, BoundsPositive DEF RevisionOK
      <4> QED  BY <3>1, <3>3, <4>2, <4>3 DEF RevisionOK, Available
    <3> QED  BY <3>2, <3>3
  <2> QED  BY <1>2, <2>1, <2>2
<1>8. \A r, q \in revisions' : r.source = q.source /\ r.generation = q.generation => r = q
  <2>1. \A r \in revisions : r.source = s => r.generation # g
    BY <1>3, <1>6, BoundsPositive DEF RevisionOK
  <2> QED  BY <1>1, <1>2, <2>1 DEF KnowledgeIInv, ContentOK, RevisionsOK
<1>9. \A t \in Live' : \A k \in 1..sources'[t].generation :
        \E r \in revisions' : r.source = t /\ r.generation = k
  <2> SUFFICES ASSUME NEW t \in Live', NEW k \in 1..sources'[t].generation
               PROVE  \E r \in revisions' : r.source = t /\ r.generation = k
    OBVIOUS
  <2>1. CASE t # s
    <3>1. t \in Live /\ sources'[t] = sources[t]
      BY <1>5, <2>1 DEF Live
    <3> QED  BY <1>2, <3>1 DEF KnowledgeIInv, ContentOK, RevisionsOK
  <2>2. CASE t = s /\ k = g
    BY <1>1, <1>2, <2>2
  <2>3. CASE t = s /\ k # g
    <3>1. s \in Live /\ k \in 1..sources[s].generation
      <4>1. s \in Live => sources[s].generation \in 0..MaxGeneration
        BY <1>4 DEF SourceRows
      <4> QED  BY <2>3, <4>1, BoundsPositive
    <3> QED  BY <1>2, <2>3, <3>1 DEF KnowledgeIInv, ContentOK, RevisionsOK
  <2> QED  BY <2>1, <2>2, <2>3
<1>10. \A r, q \in revisions' : Uses(r) /\ Uses(q) /\ r.input = q.input /\ r.input \in Assets => r = q
  <2>1. \A r \in revisions : r.input \in Assets => Available(r.input)
    BY <1>3 DEF RevisionOK
  <2> QED  BY <1>1, <1>2, <2>1 DEF Uses, KnowledgeIInv, ContentOK, RevisionsOK
<1>11. new \notin revisions
  BY <1>1, <1>3, <1>6, BoundsPositive
<1> QED  BY <1>7, <1>8, <1>9, <1>10, <1>11 DEF RevisionsOK, new

(* The rows that forms and finalizations refer to.                            *)
LEMMA ReferencesKept ==
  ASSUME KnowledgeIInv,
         \A t \in Sources : sources[t].at = "live" =>
           (sources'[t].at = "live" /\ sources'[t].type = sources[t].type) \/ sources'[t] = Deleted,
         \A t \in Sources : sources[t] = Deleted => sources'[t] = Deleted,
         \A r \in revisions : r \in revisions' \/ (r.source \in Sources /\ sources'[r.source] = Deleted)
  PROVE  /\ \A f \in Forms : FormOK(forms[f], sources')
         /\ \A h \in handlers : HandlerOK(h, sources', revisions')
<1>1. \A t : TargetOK(t, sources) => TargetOK(t, sources')
  BY DEF TargetOK
<1>2. \A f \in Forms : FormOK(forms[f], sources')
  BY <1>1 DEF KnowledgeIInv, FormsOK, FormOK
<1>3. \A r : Durable(r, sources, revisions) => Durable(r, sources', revisions')
  BY DEF Durable
<1>4. \A h \in handlers : HandlerOK(h, sources', revisions')
  BY <1>1, <1>3 DEF KnowledgeIInv, HandlersOK, HandlerOK
<1> QED  BY <1>2, <1>4

(* A next revision leaves the positions alone.                                *)
LEMMA Revised ==
  ASSUME KnowledgeIInv, NEW s \in Live, NEW reason \in Reasons \ {"CREATE"}, NEW input \in Urls \cup Assets,
         sources[s].generation < MaxGeneration, Revise(s, reason, input), UNCHANGED rewrite,
         input \in Assets <=> sources[s].type = "FILE",
         \A a \in Assets : Available(a) => assets'[a].status = "AVAILABLE",
         input \in Assets => assets'[input].status = "AVAILABLE" /\ (reason = "FILE_REPLACE" => ~Available(input))
  PROVE  /\ ContentOK'
         /\ \A f \in Forms : FormOK(forms[f], sources')
         /\ \A h \in handlers : HandlerOK(h, sources', revisions')
         /\ \A r \in revisions' \ revisions : Durable(r, sources', revisions')
<1> DEFINE g == sources[s].generation + 1
           row == [sources[s] EXCEPT !.generation = g]
<1>1. s \in Sources /\ sources[s].at = "live" /\ sources[s] \in SourceRows /\ sources[s].generation >= 1
  BY DEF Live, KnowledgeIInv, ContentOK, SourcesOK, SourceOK
<1>2. g \in 1..MaxGeneration /\ g # 1
  BY <1>1, BoundsPositive DEF SourceRows
<1>3. sources' = [sources EXCEPT ![s] = row] /\ revisions' = revisions \cup {Revision(s, g, reason, input)}
  BY DEF Revise
<1> HIDE DEF g
<1>4. /\ row \in SourceRows /\ row.at = "live" /\ row.generation = g
      /\ row.type = sources[s].type /\ row.position = sources[s].position
  BY <1>1, <1>2 DEF SourceRows
<1> HIDE DEF row
<1>5. /\ DOMAIN sources' = Sources /\ sources'[s] = row
      /\ \A t \in Sources \ {s} : sources'[t] = sources[t]
  BY <1>1, <1>3 DEF KnowledgeIInv, ContentOK, SourcesOK
<1>6. SourcesOK'
  <2>1. SourceOK(row)
    BY <1>2, <1>4 DEF SourceOK
  <2> QED  BY <1>3, <1>4, <1>5, <2>1 DEF KnowledgeIInv, ContentOK, SourcesOK
<1>7. Live' = Live /\ Held' = Held
  <2>1. Live' = Live
    BY <1>1, <1>4, <1>5 DEF Live
  <2>2. \A t \in Live : sources'[t].position = sources[t].position
    BY <1>4, <1>5 DEF Live
  <2> QED  BY <2>1, <2>2 DEF Held, Position
<1>8. Positioned(Held, rewrite)'
  BY <1>7 DEF KnowledgeIInv, ContentOK
<1>9. RevisionsOK'
  BY <1>1, <1>2, <1>3, <1>4, <1>5, RevisionAdded DEF g
<1>10. /\ \A f \in Forms : FormOK(forms[f], sources')
       /\ \A h \in handlers : HandlerOK(h, sources', revisions')
  <2>1. sources[s] # Deleted
    BY <1>1 DEF Deleted, NoSource
  <2> QED  BY <1>3, <1>4, <1>5, <2>1, ReferencesKept
<1> QED  BY <1>6, <1>8, <1>9, <1>10 DEF ContentOK, Durable

(* What Latest finds.                                                         *)
LEMMA LatestIs ==
  ASSUME KnowledgeIInv, NEW s \in Live
  PROVE  /\ Latest(s) \in revisions /\ Latest(s).source = s
         /\ Latest(s).input \in Urls \cup Assets
         /\ Latest(s).input \in Assets <=> sources[s].type = "FILE"
         /\ Latest(s).input \in Assets => Available(Latest(s).input)
<1>1. sources[s].generation \in 1..sources[s].generation
  BY BoundsPositive DEF KnowledgeIInv, ContentOK, SourcesOK, SourceOK, SourceRows, Live
<1>2. \E r \in revisions : r.source = s /\ r.generation = sources[s].generation
  BY <1>1 DEF KnowledgeIInv, ContentOK, RevisionsOK
<1>3. Latest(s) \in revisions /\ Latest(s).source = s
  BY <1>2 DEF Latest
<1>4. RevisionOK(Latest(s))
  BY <1>3 DEF KnowledgeIInv, ContentOK, RevisionsOK
<1> QED  BY <1>3, <1>4 DEF RevisionOK

(* The rest of a step that revises a source.                                  *)
LEMMA EditKeeps ==
  ASSUME KnowledgeIInv, NEW s \in Sources, Edited(s),
         NEW reason \in {"URL_CHANGE", "REFRESH", "REPROCESS"}, NEW input \in Urls \cup Assets,
         input \in Assets <=> sources[s].type = "FILE", input \in Assets => Available(input),
         Revise(s, reason, input)
  PROVE  KnowledgeIInv'
<1>1. s \in Live /\ sources[s].generation < MaxGeneration /\ UNCHANGED <<plan, rewrite, handlers, assets, forms>>
  BY DEF Edited, uploads
<1>2. reason \in Reasons \ {"CREATE"}
  BY DEF Reasons
<1>3. /\ ContentOK'
      /\ \A f \in Forms : FormOK(forms[f], sources')
      /\ \A h \in handlers : HandlerOK(h, sources', revisions')
  BY <1>1, <1>2, Revised DEF Available
<1> QED  BY <1>1, <1>3 DEF KnowledgeIInv, PlanOK, AssetsOK, FormsOK, HandlersOK

LEMMA EditWebPageKeeps ==
  ASSUME KnowledgeIInv, NEW s \in Sources, NEW url \in Urls, EditWebPage(s, url) PROVE KnowledgeIInv'
<1>1. url \notin Assets /\ sources[s].type # "FILE"
  BY KindsDiffer DEF EditWebPage
<1> QED  BY <1>1, EditKeeps DEF EditWebPage

LEMMA RefreshWebPageKeeps ==
  ASSUME KnowledgeIInv, NEW s \in Sources, RefreshWebPage(s) PROVE KnowledgeIInv'
<1>1. s \in Live
  BY DEF RefreshWebPage, Edited
<1> QED  BY <1>1, LatestIs, EditKeeps DEF RefreshWebPage

LEMMA ReprocessKeeps ==
  ASSUME KnowledgeIInv, NEW s \in Sources, Reprocess(s) PROVE KnowledgeIInv'
<1>1. s \in Live
  BY DEF Reprocess, Edited
<1> QED  BY <1>1, LatestIs, EditKeeps DEF Reprocess

-----------------------------------------------------------------------------
(* A source that is added goes behind all others.                             *)
LEMMA BehindLive ==
  ASSUME Dense(Held), Unique(Held) PROVE Behind(Live) = Cardinality(Live)
<1> DEFINE n == Cardinality(Live)
           S == {Position(s) : s \in Live}
<1>1. n \in Nat /\ IsFiniteSet(Live) /\ DOMAIN Held = Live
  BY LiveFinite
<1>2. /\ \A s \in Live : Position(s) \in 0..(n - 1)
      /\ \A k \in 0..(n - 1) : \E s \in Live : Position(s) = k
  BY <1>1 DEF Dense, Held
<1>3. CASE Live = {}
  BY <1>3, FS_EmptySet DEF Behind
<1>4. CASE Live # {}
  <2>1. n # 0
    BY <1>1, <1>4, FS_EmptySet
  <2>2. n - 1 \in S
    BY <1>1, <1>2, <2>1
  <2>3. S \in SUBSET Nat /\ \A y \in S : y <= n - 1
    BY <1>1, <1>2
  <2>4. Max(S) = n - 1
    BY <2>2, <2>3, MaxIs
  <2>5. Behind(Live) = Max(S) + 1
    BY <1>4 DEF Behind
  <2> QED  BY <1>1, <2>4, <2>5
<1> QED  BY <1>3, <1>4

LEMMA UnlockedDense ==
  ASSUME KnowledgeIInv, Unlocked PROVE Dense(Held) /\ Unique(Held)
BY LiveFinite, NotRewriting DEF KnowledgeIInv, ContentOK, Positioned, Unlocked

LEMMA Created ==
  ASSUME KnowledgeIInv, Unlocked, NEW s \in Sources, NEW type \in Types, NEW input \in Urls \cup Assets,
         sources[s] = NoSource, Create(s, type, input), UNCHANGED rewrite,
         input \in Assets <=> type = "FILE",
         \A a \in Assets : Available(a) => assets'[a].status = "AVAILABLE",
         input \in Assets => assets'[input].status = "AVAILABLE" /\ ~Available(input)
  PROVE  /\ ContentOK'
         /\ Live' = Live \cup {s} /\ s \notin Live
         /\ sources'[s].type = type
         /\ \A t \in Sources \ {s} : sources'[t] = sources[t]
         /\ \A f \in Forms : FormOK(forms[f], sources')
         /\ \A h \in handlers : HandlerOK(h, sources', revisions')
         /\ \A r \in revisions' \ revisions : Durable(r, sources', revisions')
<1> DEFINE n == Cardinality(Live)
           row == [at |-> "live", type |-> type, position |-> Behind(Live), generation |-> 1]
<1>1. Dense(Held) /\ Unique(Held) /\ Behind(Live) = n
  BY UnlockedDense, BehindLive
<1>2. n \in Nat /\ IsFiniteSet(Live) /\ DOMAIN Held = Live
  BY LiveFinite
<1>3. /\ row \in SourceRows /\ row.at = "live" /\ row.generation = 1 /\ row.type = type /\ row.position = n
  BY <1>1, <1>2, BoundsPositive DEF SourceRows
<1>4. sources' = [sources EXCEPT ![s] = row] /\ revisions' = revisions \cup {Revision(s, 1, "CREATE", input)}
  BY DEF Create
<1> HIDE DEF row
<1>5. /\ DOMAIN sources' = Sources /\ sources'[s] = row
      /\ \A t \in Sources \ {s} : sources'[t] = sources[t]
  BY <1>4 DEF KnowledgeIInv, ContentOK, SourcesOK
<1>6. SourcesOK'
  <2>1. SourceOK(row)
    BY <1>3 DEF SourceOK
  <2> QED  BY <1>3, <1>4, <1>5, <2>1 DEF KnowledgeIInv, ContentOK, SourcesOK
<1>7. s \notin Live /\ Live' = Live \cup {s}
  BY <1>3, <1>5 DEF Live, NoSource
<1>8. Dense(Held') /\ Unique(Held')
  <2>1. DOMAIN Held' = DOMAIN Held \cup {s}
    BY <1>7 DEF Held
  <2>2. Held'[s] = n
    BY <1>3, <1>5, <1>7 DEF Held, Position
  <2>3. \A t \in DOMAIN Held : Held'[t] = Held[t]
    BY <1>5, <1>7 DEF Held, Position, Live
  <2> QED  BY <1>1, <1>2, <1>7, <2>1, <2>2, <2>3, AppendedDense
<1>9. Positioned(Held, rewrite)'
  BY <1>8 DEF Positioned, Unlocked
<1>10. RevisionsOK'
  <2>1. 1 \in 1..MaxGeneration /\ "CREATE" \in Reasons
    BY BoundsPositive DEF Reasons
  <2> QED  BY <1>3, <1>4, <1>5, <1>7, <2>1, RevisionAdded
<1>11. /\ \A f \in Forms : FormOK(forms[f], sources')
       /\ \A h \in handlers : HandlerOK(h, sources', revisions')
  <2>1. sources[s].at # "live" /\ sources[s] # Deleted
    BY DEF NoSource, Deleted
  <2> QED  BY <1>4, <1>5, <2>1, ReferencesKept
<1> QED  BY <1>3, <1>5, <1>6, <1>7, <1>9, <1>10, <1>11 DEF ContentOK, Durable

LEMMA CreateWebPageKeeps ==
  ASSUME KnowledgeIInv, NEW s \in Sources, NEW url \in Urls, CreateWebPage(s, url) PROVE KnowledgeIInv'
<1>1. UNCHANGED <<plan, rewrite, handlers, assets, forms>>
  BY DEF CreateWebPage, uploads
<1>2. url \notin Assets /\ "WEB_PAGE" \in Types
  BY KindsDiffer DEF Types
<1>3. /\ ContentOK'
      /\ \A f \in Forms : FormOK(forms[f], sources')
      /\ \A h \in handlers : HandlerOK(h, sources', revisions')
  BY <1>1, <1>2, Created DEF CreateWebPage, Available
<1> QED  BY <1>1, <1>3 DEF KnowledgeIInv, PlanOK, AssetsOK, FormsOK, HandlersOK

(* The transaction of a finalization: the upload becomes available together   *)
(* with the one revision that uses it.                                        *)
LEMMA FinalizeCommitKeeps ==
  ASSUME KnowledgeIInv, NEW h \in handlers, NEW s \in Sources, FinalizeCommit(h, s) PROVE KnowledgeIInv'
<1>1. CASE ~Finalizable(h)
  BY <1>1, RefusedKeeps DEF FinalizeCommit
<1>2. CASE Finalizable(h)
  <2> DEFINE asset == [assets[h.asset] EXCEPT !.status = "AVAILABLE"]
  <2>1. HandlerOK(h, sources, revisions) /\ h.asset \in Assets
    BY DEF KnowledgeIInv, HandlersOK, HandlerOK
  <2>2. /\ assets' = [assets EXCEPT ![h.asset] = asset] /\ UNCHANGED <<plan, rewrite, forms>> /\ Unlocked
        /\ handlers' = (handlers \ {h}) \cup
             {[h EXCEPT !.at = "publish", !.revision = r] : r \in revisions' \ revisions}
    BY <1>2 DEF FinalizeCommit
  <2>3. asset \in AssetRows /\ asset.status = "AVAILABLE" /\ ~Available(h.asset)
    BY <1>2, <2>1 DEF KnowledgeIInv, AssetsOK, AssetRows, Finalizable, Pending, Available
  <2> HIDE DEF asset
  <2>4. AssetsOK' /\ assets'[h.asset] = asset /\ \A a \in Assets : Available(a) => assets'[a].status = "AVAILABLE"
    BY <2>1, <2>2, <2>3 DEF KnowledgeIInv, AssetsOK, Available
  <2>5. /\ ContentOK'
        /\ \A f \in Forms : FormOK(forms[f], sources')
        /\ \A k \in handlers : HandlerOK(k, sources', revisions')
        /\ \A r \in revisions' \ revisions : Durable(r, sources', revisions')
    <3>1. CASE h.target = None
      <4>1. sources[s] = NoSource /\ Create(s, "FILE", h.asset)
        BY <1>2, <3>1 DEF FinalizeCommit
      <4>2. "FILE" \in Types
        BY DEF Types
      <4> QED  BY <2>1, <2>2, <2>3, <2>4, <4>1, <4>2, Created
    <3>2. CASE h.target # None
      <4>1. s \in Live /\ sources[s].generation < MaxGeneration /\ Revise(s, "FILE_REPLACE", h.asset) /\ s = h.target
        BY <1>2, <3>2 DEF FinalizeCommit, Finalizable, Replace
      <4>2. sources[s].type = "FILE"
        BY <2>1, <3>2, <4>1 DEF HandlerOK, TargetOK, Live, Deleted, NoSource
      <4>3. "FILE_REPLACE" \in Reasons \ {"CREATE"}
        BY DEF Reasons
      <4> QED  BY <2>1, <2>2, <2>3, <2>4, <4>1, <4>2, <4>3, Revised
    <3> QED  BY <3>1, <3>2
  <2>6. HandlersOK'
    <3>1. ASSUME NEW r \in revisions' \ revisions
          PROVE  HandlerOK([h EXCEPT !.at = "publish", !.revision = r], sources', revisions')
      <4> DEFINE k == [h EXCEPT !.at = "publish", !.revision = r]
      <4>1. /\ k \in [asset : Assets, target : Sources \cup {None}, copy : {1, 2},
                      at : {"read", "commit", "publish"}, revision : {r}]
            /\ k.target = h.target /\ k.revision = r
        BY <2>1 DEF HandlerOK
      <4>2. HandlerOK(h, sources', revisions')
        BY <2>5
      <4> HIDE DEF k
      <4>3. HandlerOK(k, sources', revisions')
        BY <2>5, <4>1, <4>2 DEF HandlerOK
      <4> QED  BY <4>3 DEF k
    <3> QED  BY <2>2, <2>5, <3>1 DEF HandlersOK
  <2>7. FormsOK'
    BY <2>2, <2>5 DEF KnowledgeIInv, FormsOK
  <2> QED  BY <2>2, <2>4, <2>5, <2>6, <2>7 DEF KnowledgeIInv, PlanOK
<1> QED  BY <1>1, <1>2

-----------------------------------------------------------------------------
(* A statement writes the position of one live row.                           *)
LEMMA PositionWritten ==
  ASSUME KnowledgeIInv, NEW s \in Live, NEW position \in Nat,
         sources' = [sources EXCEPT ![s].position = position],
         UNCHANGED <<plan, revisions, assets, forms, handlers>>
  PROVE  /\ DOMAIN Held' = DOMAIN Held /\ Held'[s] = position
         /\ \A t \in DOMAIN Held \ {s} : Held'[t] = Held[t]
         /\ Positioned(Held', rewrite') => KnowledgeIInv'
<1> DEFINE row == [sources[s] EXCEPT !.position = position]
<1>1. s \in Sources /\ sources[s].at = "live" /\ sources[s] \in SourceRows /\ SourceOK(sources[s])
  BY DEF Live, KnowledgeIInv, ContentOK, SourcesOK
<1>2. /\ row \in SourceRows /\ row.position = position
      /\ row.at = "live" /\ row.type = sources[s].type /\ row.generation = sources[s].generation
  BY <1>1 DEF SourceRows
<1> HIDE DEF row
<1>3. sources' = [sources EXCEPT ![s] = row]
  BY DEF row
<1>4. /\ DOMAIN sources' = Sources /\ sources'[s] = row
      /\ \A t \in Sources \ {s} : sources'[t] = sources[t]
  BY <1>1, <1>3 DEF KnowledgeIInv, ContentOK, SourcesOK
<1>5. SourcesOK'
  <2>1. SourceOK(row)
    BY <1>1, <1>2 DEF SourceOK
  <2> QED  BY <1>2, <1>3, <1>4, <2>1 DEF KnowledgeIInv, ContentOK, SourcesOK
<1>6. Live' = Live
  BY <1>1, <1>2, <1>4 DEF Live
<1>7. \A t \in Sources : /\ sources'[t].at = sources[t].at /\ sources'[t].type = sources[t].type
                         /\ sources'[t].generation = sources[t].generation
  BY <1>2, <1>4
<1>8. RevisionsOK'
  <2>1. \A r \in revisions : RevisionOK(r)'
    BY <1>7 DEF KnowledgeIInv, ContentOK, RevisionsOK, RevisionOK, Available
  <2>2. \A t \in Live : t \in Sources
    BY DEF Live
  <2> QED  BY <1>6, <1>7, <2>1, <2>2 DEF KnowledgeIInv, ContentOK, RevisionsOK
<1>9. FormsOK' /\ HandlersOK'
  <2>1. sources[s] # Deleted
    BY <1>1 DEF Deleted, NoSource
  <2>2. /\ \A f \in Forms : FormOK(forms[f], sources')
        /\ \A h \in handlers : HandlerOK(h, sources', revisions')
    BY <1>4, <1>7, <2>1, ReferencesKept
  <2> QED  BY <2>2 DEF KnowledgeIInv, FormsOK, HandlersOK
<1>10. /\ DOMAIN Held' = DOMAIN Held /\ Held'[s] = position
       /\ \A t \in DOMAIN Held \ {s} : Held'[t] = Held[t]
  BY <1>2, <1>4, <1>6 DEF Held, Position, Live
<1> QED  BY <1>5, <1>8, <1>9, <1>10 DEF KnowledgeIInv, ContentOK, PlanOK, AssetsOK

(* While rows are rewritten, they are all live rows.                          *)
LEMMA RewrittenRows ==
  ASSUME KnowledgeIInv, Rows # {}
  PROVE  Unique(Held) /\ Rewriting(Held, rewrite) /\ Rows = Live
<1>1. rewrite # NoRewrite
  BY DEF Rows, NoRewrite
<1>2. Unique(Held) /\ Rewriting(Held, rewrite)
  BY <1>1 DEF KnowledgeIInv, ContentOK, Positioned
<1>3. Lists(rewrite.order, Live)
  BY <1>2, LiveFinite DEF Rewriting
<1>4. Rows = Live
  BY <1>3, ListsEnumerates DEF Rows
<1> QED  BY <1>2, <1>4

LEMMA MoveRowKeeps ==
  ASSUME KnowledgeIInv, NEW s \in Sources, MoveRow(s) PROVE KnowledgeIInv'
<1>1. s \in Rows /\ s \notin rewrite.moved
  BY DEF MoveRow
<1>2. Unique(Held) /\ Rewriting(Held, rewrite) /\ s \in Live /\ DOMAIN Held = Live
  BY <1>1, RewrittenRows, LiveFinite
<1> DEFINE position == sources[s].position + rewrite.offset
<1>3. position \in Nat /\ Held[s] = sources[s].position
  BY <1>2 DEF Rewriting, Held, Position
<1>4. sources' = [sources EXCEPT ![s].position = position]
  BY DEF MoveRow
<1>5. position = Held[s] + rewrite.offset
  BY <1>3
<1> HIDE DEF position
<1>6. UNCHANGED <<plan, revisions, assets, forms, handlers>>
  BY DEF MoveRow, uploads
<1>7. /\ DOMAIN Held' = DOMAIN Held /\ Held'[s] = position
      /\ \A t \in DOMAIN Held \ {s} : Held'[t] = Held[t]
      /\ Positioned(Held', rewrite') => KnowledgeIInv'
  BY <1>2, <1>3, <1>4, <1>6, PositionWritten
<1>8. Positioned(Held', [rewrite EXCEPT !.moved = @ \cup {s}])
  BY <1>1, <1>2, <1>5, <1>7, RowMoved
<1> QED  BY <1>7, <1>8 DEF MoveRow

LEMMA PlaceRowKeeps ==
  ASSUME KnowledgeIInv, NEW i, PlaceRow(i) PROVE KnowledgeIInv'
<1> DEFINE s == rewrite.order[i]
<1>1. /\ i \in DOMAIN rewrite.order /\ s \in Rows /\ s \notin rewrite.placed /\ rewrite.moved = Rows
      /\ sources' = [sources EXCEPT ![s].position = i - 1]
      /\ rewrite' = IF rewrite.placed \cup {s} = Rows THEN NoRewrite
                    ELSE [rewrite EXCEPT !.placed = @ \cup {s}]
  BY DEF PlaceRow, Rows
<1>2. Unique(Held) /\ Rewriting(Held, rewrite) /\ Rows = Live /\ DOMAIN Held = Live /\ IsFiniteSet(DOMAIN Held)
  BY <1>1, RewrittenRows, LiveFinite
<1>3. i - 1 \in Nat
  BY <1>1, <1>2, LiveFinite DEF Rewriting
<1>4. UNCHANGED <<plan, revisions, assets, forms, handlers>>
  BY DEF PlaceRow, uploads
<1>5. s \in Live
  BY <1>1, <1>2
<1>6. /\ DOMAIN Held' = DOMAIN Held /\ Held'[s] = i - 1
      /\ \A t \in DOMAIN Held \ {s} : Held'[t] = Held[t]
      /\ Positioned(Held', rewrite') => KnowledgeIInv'
  BY <1>1, <1>3, <1>4, <1>5, PositionWritten
<1>7. Positioned(Held', IF rewrite.placed \cup {s} = DOMAIN Held THEN NoRewrite
                        ELSE [rewrite EXCEPT !.placed = @ \cup {s}])
  BY <1>1, <1>2, <1>6, RowPlaced
<1> QED  BY <1>1, <1>2, <1>6, <1>7

LEMMA ReorderKeeps == ASSUME KnowledgeIInv, Reorder PROVE KnowledgeIInv'
<1> DEFINE n == Cardinality(Live)
<1>1. PICK order \in Orders(Live) : UNCHANGED sources /\ StartRewrite(order)
  BY DEF Reorder
<1>2. Dense(Held) /\ Unique(Held) /\ Behind(Live) = n
  BY UnlockedDense, BehindLive DEF Reorder
<1>3. IsFiniteSet(Live) /\ n \in Nat /\ DOMAIN Held = Live
  BY LiveFinite
<1>4. Lists(order, Live)
  BY <1>3, OrdersList
<1>5. {order[i] : i \in DOMAIN order} = Live /\ \A i \in DOMAIN order : order[i] \in Live
  BY <1>4 DEF Lists
<1>6. rewrite' = IF \A i \in DOMAIN order : Held[order[i]] = i - 1 THEN NoRewrite
                 ELSE [order |-> order, offset |-> n, moved |-> {}, placed |-> {}]
  BY <1>1, <1>2, <1>5 DEF StartRewrite, Held, Position
<1>7. \A s \in DOMAIN Held : Held[s] \in Nat /\ Held[s] < n
  BY <1>2, <1>3 DEF Dense
<1>8. Positioned(Held, rewrite')
  BY <1>2, <1>3, <1>4, <1>6, <1>7, RewriteStarted
<1>9. UNCHANGED <<plan, sources, revisions, assets, forms, handlers>>
  BY <1>1 DEF Reorder, uploads
<1>10. Held' = Held /\ Live' = Live
  BY <1>9 DEF Held, Live, Position
<1>11. RevisionsOK'
  <2>1. \A r \in revisions : RevisionOK(r)'
    BY <1>9 DEF KnowledgeIInv, ContentOK, RevisionsOK, RevisionOK, Available
  <2> QED  BY <1>9, <1>10, <2>1 DEF KnowledgeIInv, ContentOK, RevisionsOK
<1> QED
  BY <1>8, <1>9, <1>10, <1>11 DEF KnowledgeIInv, ContentOK, SourcesOK, PlanOK, AssetsOK, FormsOK, HandlersOK

(* The highest position of the rows that a deletion leaves.                   *)
LEMMA BehindRest ==
  ASSUME Dense(Held), Unique(Held), NEW s \in Live, Live \ {s} # {}
  PROVE  /\ Behind(Live \ {s}) \in Nat
         /\ Cardinality(Live \ {s}) <= Behind(Live \ {s})
         /\ \A t \in Live \ {s} : Position(t) < Behind(Live \ {s})
<1> DEFINE n == Cardinality(Live)
           rest == Live \ {s}
           S == {Position(t) : t \in rest}
<1>1. n \in Nat /\ IsFiniteSet(Live) /\ DOMAIN Held = Live
  BY LiveFinite
<1>2. /\ \A t \in Live : Position(t) \in 0..(n - 1)
      /\ \A k \in 0..(n - 1) : \E t \in Live : Position(t) = k
      /\ \A t \in rest : Position(t) # Position(s)
  BY <1>1 DEF Dense, Unique, Held
<1>3. Cardinality(rest) = n - 1 /\ Cardinality(rest) \in Nat /\ Cardinality(rest) # 0
  BY <1>1, FS_RemoveElement, FS_CardinalityType, FS_EmptySet
<1>4. S \in SUBSET Nat
  BY <1>1, <1>2
<1>5. Behind(rest) = Max(S) + 1
  BY DEF Behind
<1>6. CASE Position(s) = n - 1
  <2>1. n - 2 \in S
    <3>1. PICK t \in Live : Position(t) = n - 2
      BY <1>1, <1>2, <1>3
    <3>2. t \in rest
      BY <1>1, <1>6, <3>1
    <3> QED  BY <3>1, <3>2
  <2>2. \A y \in S : y <= n - 2
    BY <1>1, <1>2, <1>6
  <2>3. Max(S) = n - 2
    BY <1>4, <2>1, <2>2, MaxIs
  <2> QED  BY <1>1, <1>2, <1>3, <1>5, <1>6, <2>3
<1>7. CASE Position(s) # n - 1
  <2>1. n - 1 \in S
    <3>1. PICK t \in Live : Position(t) = n - 1
      BY <1>1, <1>2, <1>3
    <3>2. t \in rest
      BY <1>7, <3>1
    <3> QED  BY <3>1, <3>2
  <2>2. \A y \in S : y <= n - 1
    BY <1>1, <1>2
  <2>3. Max(S) = n - 1
    BY <1>4, <2>1, <2>2, MaxIs
  <2> QED  BY <1>1, <1>2, <1>3, <1>5, <2>3
<1> QED  BY <1>6, <1>7

LEMMA DeleteKeeps ==
  ASSUME KnowledgeIInv, NEW s \in Sources, Delete(s) PROVE KnowledgeIInv'
<1> DEFINE rest == Live \ {s}
           order == [i \in 1..Cardinality(rest) |->
                       CHOOSE t \in rest : Cardinality(Before(t) \ {s}) = i - 1]
<1>1. /\ Unlocked /\ s \in Live
      /\ sources' = [sources EXCEPT ![s] = Deleted]
      /\ revisions' = {r \in revisions : r.source # s}
      /\ StartRewrite(order)
      /\ UNCHANGED <<plan, assets, forms, handlers>>
  BY DEF Delete, uploads
<1>2. Dense(Held) /\ Unique(Held)
  BY <1>1, UnlockedDense
<1>3. IsFiniteSet(Live) /\ DOMAIN Held = Live /\ IsFiniteSet(rest) /\ Cardinality(rest) \in Nat
  BY LiveFinite, FS_RemoveElement, FS_CardinalityType
<1>4. /\ DOMAIN sources' = Sources /\ sources'[s] = Deleted
      /\ \A t \in Sources \ {s} : sources'[t] = sources[t]
  BY <1>1 DEF KnowledgeIInv, ContentOK, SourcesOK
<1>5. Live' = rest
  BY <1>4 DEF Live, Deleted, NoSource
<1>6. /\ DOMAIN Held' = rest
      /\ \A t \in rest : Held'[t] = Held[t] /\ sources'[t].position = Held[t] /\ Held[t] = Position(t)
  BY <1>4, <1>5 DEF Held, Position, Live
<1>7. Lists(order, rest)
  <2>1. \A t \in rest : Before(t) = {u \in DOMAIN Held : Held[u] < Held[t]}
    BY <1>3 DEF Before, Held
  <2>2. \A i \in 1..Cardinality(rest) :
          (\E t \in rest : Cardinality(Before(t) \ {s}) = i - 1)
            => order[i] \in rest /\ Cardinality(Before(order[i]) \ {s}) = i - 1
    <3> SUFFICES ASSUME NEW i \in 1..Cardinality(rest),
                        \E t \in rest : Cardinality(Before(t) \ {s}) = i - 1
                 PROVE  order[i] \in rest /\ Cardinality(Before(order[i]) \ {s}) = i - 1
      OBVIOUS
    <3>1. order[i] = CHOOSE t \in rest : Cardinality(Before(t) \ {s}) = i - 1
      OBVIOUS
    <3> HIDE DEF order, rest
    <3> QED  BY <3>1, Zenon
  <2>3. order \in [1..Cardinality(rest) -> {order[i] : i \in 1..Cardinality(rest)}]
    OBVIOUS
  <2> HIDE DEF order
  <2>4. ASSUME NEW i \in 1..Cardinality(rest), NEW t \in rest,
               Cardinality({u \in DOMAIN Held : Held[u] < Held[t]} \ {s}) = i - 1
        PROVE  /\ order[i] \in rest
               /\ Cardinality({u \in DOMAIN Held : Held[u] < Held[order[i]]} \ {s}) = i - 1
    <3>1. Cardinality(Before(t) \ {s}) = i - 1
      BY <2>1, <2>4
    <3>2. order[i] \in rest /\ Cardinality(Before(order[i]) \ {s}) = i - 1
      BY <2>2, <3>1
    <3> QED  BY <2>1, <3>2
  <2>5. rest = DOMAIN Held \ {s} /\ s \in DOMAIN Held
    BY <1>1, <1>3
  <2>6. ByRank(order, Held, s)
    BY <2>3, <2>4, <2>5 DEF ByRank
  <2> HIDE DEF rest
  <2> QED  BY <1>2, <1>3, <2>5, <2>6, DeletionLists
<1> HIDE DEF order
<1>8. {order[i] : i \in DOMAIN order} = rest /\ \A i \in DOMAIN order : order[i] \in rest
  BY <1>7, ListsEnumerates
<1>9. rewrite' = IF \A i \in DOMAIN order : Held'[order[i]] = i - 1 THEN NoRewrite
                 ELSE [order |-> order, offset |-> Behind(rest), moved |-> {}, placed |-> {}]
  BY <1>1, <1>6, <1>8 DEF StartRewrite
<1>10. Unique(Held')
  BY <1>2, <1>3, <1>6 DEF Unique
<1>11. Positioned(Held', rewrite')
  <2>1. CASE rest = {}
    <3>1. DOMAIN order = {}
      BY <1>8, <2>1
    <3>2. Cardinality(rest) = 0
      BY <2>1, FS_EmptySet
    <3>3. Dense(Held')
      BY <1>6, <2>1, <3>2 DEF Dense
    <3>4. rewrite' = NoRewrite
      BY <1>9, <3>1
    <3> QED  BY <1>10, <3>3, <3>4 DEF Positioned
  <2>2. CASE rest # {}
    <3>1. /\ Behind(rest) \in Nat /\ Cardinality(rest) <= Behind(rest)
          /\ \A t \in rest : Held'[t] \in Nat /\ Held'[t] < Behind(rest)
      BY <1>1, <1>2, <1>3, <1>6, <2>2, BehindRest, LiveFinite DEF Dense
    <3> QED  BY <1>3, <1>6, <1>7, <1>9, <1>10, <3>1, RewriteStarted
  <2> QED  BY <2>1, <2>2
<1>12. SourcesOK'
  <2>1. Deleted \in SourceRows /\ SourceOK(Deleted)
    BY BoundsPositive DEF Deleted, NoSource, SourceRows, SourceOK, Types
  <2> QED  BY <1>1, <1>4, <2>1 DEF KnowledgeIInv, ContentOK, SourcesOK
<1>13. RevisionsOK'
  <2>1. \A r \in revisions' : RevisionOK(r)'
    <3> SUFFICES ASSUME NEW r \in revisions' PROVE RevisionOK(r)'
      OBVIOUS
    <3>1. RevisionOK(r) /\ r.source # s
      BY <1>1 DEF KnowledgeIInv, ContentOK, RevisionsOK
    <3>2. r.source \in Sources
      BY <3>1 DEF RevisionOK
    <3>3. sources'[r.source] = sources[r.source]
      BY <1>4, <3>1, <3>2
    <3> QED  BY <1>1, <3>1, <3>3 DEF RevisionOK, Available
  <2>2. \A t \in Live' : t \in Live /\ t # s /\ sources'[t] = sources[t]
    BY <1>4, <1>5 DEF Live
  <2> QED  BY <1>1, <2>1, <2>2 DEF KnowledgeIInv, ContentOK, RevisionsOK
<1>14. FormsOK' /\ HandlersOK'
  <2>1. \A r \in revisions : r \in revisions' \/ (r.source \in Sources /\ sources'[r.source] = Deleted)
    BY <1>1, <1>4
  <2>2. /\ \A f \in Forms : FormOK(forms[f], sources')
        /\ \A h \in handlers : HandlerOK(h, sources', revisions')
    BY <1>4, <2>1, ReferencesKept
  <2> QED  BY <1>1, <2>2 DEF KnowledgeIInv, FormsOK, HandlersOK
<1> QED  BY <1>1, <1>11, <1>12, <1>13, <1>14 DEF KnowledgeIInv, ContentOK, PlanOK, AssetsOK

-----------------------------------------------------------------------------
LEMMA KnowledgeNextKeeps == ASSUME KnowledgeIInv, [Next]_vars PROVE KnowledgeIInv'
<1>1. CASE UNCHANGED vars
  <2>1. ContentOK'
    BY <1>1, SameContent DEF vars, Available
  <2> QED  BY <1>1, <2>1 DEF vars, KnowledgeIInv, PlanOK, AssetsOK, FormsOK, HandlersOK
<1>2. ASSUME NEW s \in Sources, OnSource(s) PROVE KnowledgeIInv'
  BY <1>2, CreateWebPageKeeps, EditWebPageKeeps, RefreshWebPageKeeps, ReprocessKeeps, DeleteKeeps, MoveRowKeeps
     DEF OnSource
<1>3. ASSUME NEW f \in Forms, Upload(f) PROVE KnowledgeIInv'
  BY <1>3, UploadIntentKeeps, PutKeeps, FinalizeKeeps, LoseReplyKeeps DEF Upload
<1>4. ASSUME NEW h \in handlers, Handle(h) PROVE KnowledgeIInv'
  BY <1>4, FinalizeReadKeeps, FinalizeCommitKeeps, PublishKeeps DEF Handle
<1> QED
  BY <1>1, <1>2, <1>3, <1>4, ReorderKeeps, PlaceRowKeeps, ExpireKeeps, PlanMovesKeeps DEF Next

LEMMA KnowledgeInvariance == Spec => []KnowledgeIInv
<1>1. KnowledgeIInv /\ [Next]_vars => KnowledgeIInv'
  BY KnowledgeNextKeeps
<1> QED  BY <1>1, KnowledgeInitHolds, PTL DEF Spec

LEMMA KnowledgeInvImplied == ASSUME KnowledgeIInv PROVE KnowledgeInv
<1>1. \A r \in revisions : RevisionOK(r)
  BY DEF KnowledgeIInv, ContentOK, RevisionsOK
<1>2. TypeOK
  <2>1. \A s \in Live : sources[s].type \in Types /\ sources[s].generation \in 1..MaxGeneration
    BY BoundsPositive DEF KnowledgeIInv, ContentOK, SourcesOK, SourceOK, SourceRows, Live
  <2>2. \A a \in Assets : assets[a].status \in {"unused", "PENDING_UPLOAD", "AVAILABLE"}
    BY DEF KnowledgeIInv, AssetsOK, AssetRows
  <2> QED  BY <1>1, <2>1, <2>2 DEF TypeOK, RevisionOK
<1>3. PositionsUnique
  BY LiveFinite DEF PositionsUnique, KnowledgeIInv, ContentOK, Positioned, Unique, Held
<1>4. PositionsDense
  <2> SUFFICES ASSUME Unlocked
               PROVE  {Position(s) : s \in Live} = {i - 1 : i \in 1..Cardinality(Live)}
    BY DEF PositionsDense
  <2> DEFINE n == Cardinality(Live)
  <2>1. n \in Nat /\ DOMAIN Held = Live
    BY LiveFinite
  <2>2. /\ \A s \in Live : Position(s) \in 0..(n - 1)
        /\ \A k \in 0..(n - 1) : \E s \in Live : Position(s) = k
    BY <2>1, UnlockedDense DEF Dense, Held
  <2> HIDE DEF n
  <2>3. {i - 1 : i \in 1..n} = 0..(n - 1)
    <3>1. \A k \in 0..(n - 1) : k + 1 \in 1..n /\ (k + 1) - 1 = k
      BY <2>1
    <3> QED  BY <2>1, <3>1
  <2>4. {Position(s) : s \in Live} = 0..(n - 1)
    BY <2>2
  <2> QED  BY <2>3, <2>4 DEF n
<1>5. RevisionOfEachGeneration
  <2> SUFFICES ASSUME NEW s \in Live, NEW g \in 1..MaxGeneration
               PROVE  Cardinality({r \in revisions : r.source = s /\ r.generation = g})
                        = IF g <= sources[s].generation THEN 1 ELSE 0
    BY DEF RevisionOfEachGeneration
  <2> DEFINE these == {r \in revisions : r.source = s /\ r.generation = g}
  <2>1. sources[s].generation \in 1..MaxGeneration
    BY BoundsPositive DEF KnowledgeIInv, ContentOK, SourcesOK, SourceOK, SourceRows, Live
  <2>2. CASE g <= sources[s].generation
    <3>1. g \in 1..sources[s].generation
      BY <2>1, <2>2, BoundsPositive
    <3>2. PICK r \in revisions : r.source = s /\ r.generation = g
      BY <3>1 DEF KnowledgeIInv, ContentOK, RevisionsOK
    <3>3. these = {r}
      BY <3>2 DEF KnowledgeIInv, ContentOK, RevisionsOK
    <3> QED  BY <2>2, <3>3, FS_Singleton
  <2>3. CASE ~(g <= sources[s].generation)
    <3>1. these = {}
      BY <1>1, <2>3 DEF RevisionOK
    <3> QED  BY <2>3, <3>1, FS_EmptySet
  <2> QED  BY <2>2, <2>3
<1>6. HintIsDurable
  BY DEF HintIsDurable, KnowledgeIInv, HandlersOK, HandlerOK, Durable
<1> QED  BY <1>2, <1>3, <1>4, <1>5, <1>6 DEF KnowledgeInv

(* The positions stay distinct between any two rows of a statement and count  *)
(* from 0 after it, each generation has its revision, and the worker hears of *)
(* no revision that was not written (rewritePositions, the transactions of    *)
(* merchant-knowledge.server).                                                *)
THEOREM KnowledgeAlwaysHolds == Spec => []KnowledgeInv
<1>1. KnowledgeIInv => KnowledgeInv
  BY KnowledgeInvImplied
<1> QED  BY <1>1, KnowledgeInvariance, PTL

(* An upload becomes part of one source at most, however often its            *)
(* finalization arrives: its row leaves PENDING_UPLOAD with the revision.     *)
THEOREM AssetAlwaysUsedOnce == Spec => []AssetUsedOnce
<1>1. KnowledgeIInv => AssetUsedOnce
  <2> SUFFICES ASSUME KnowledgeIInv, NEW a \in Assets
               PROVE  Cardinality({r \in revisions : r.input = a /\ r.reason \in {"CREATE", "FILE_REPLACE"}}) <= 1
    BY DEF AssetUsedOnce
  <2> DEFINE these == {r \in revisions : r.input = a /\ r.reason \in {"CREATE", "FILE_REPLACE"}}
  <2>1. \A r, q \in these : r = q
    BY DEF KnowledgeIInv, ContentOK, RevisionsOK, Uses
  <2>2. CASE these = {}
    <3>1. Cardinality(these) = 0
      BY <2>2, FS_EmptySet
    <3> QED  BY <3>1
  <2>3. CASE these # {}
    <3>1. PICK r : these = {r}
      BY <2>1, <2>3
    <3>2. Cardinality(these) = 1
      BY <3>1, FS_Singleton
    <3> QED  BY <3>2
  <2> QED  BY <2>2, <2>3
<1> QED  BY <1>1, KnowledgeInvariance, PTL

(* The requests count the sources before one as the page does, so they refuse *)
(* what it enables exactly where it has counted a source out or the plan is   *)
(* full, and an admitted file still has its upload                            *)
(* (requireCurrentlyPlanEntitledSource, MerchantKnowledgeSection).            *)
THEOREM AlwaysRefusedAsCounted == Spec => []RefusedAsCounted
<1>1. KnowledgeIInv => RefusedAsCounted
  <2> SUFFICES ASSUME KnowledgeIInv, Unlocked PROVE RefusedAsCounted
    BY DEF RefusedAsCounted
  <2>1. (MayAdd => Room("WEB_PAGE")) /\ (MayUpload => (Room("FILE") <=> RoomShown))
    BY DEF MayAdd, MayUpload, RoomShown, Room, RequireAllowed
  <2>2. ASSUME NEW s \in Live
        PROVE  RequireAllowed(sources[s].type) /\ PlanEntitled(s) <=> CurrentlyPlanEntitled(s)
    <3>1. Before(s) \cap Eligible = {t \in Eligible : Position(t) < Position(s)}
      BY DEF Before, Eligible
    <3> QED  BY <3>1 DEF CurrentlyPlanEntitled, WithinCount, PlanEntitled, RequireAllowed, Eligible
  <2>3. ASSUME NEW s \in Live, CurrentlyPlanEntitled(s), sources[s].type = "FILE" PROVE ~ReprocessRefused(s)
    BY <2>2, <2>3, LatestIs DEF ReprocessRefused, Available
  <2> QED  BY <2>1, <2>2, <2>3 DEF RefusedAsCounted
<1> QED  BY <1>1, KnowledgeInvariance, PTL

(* No request adds a source beyond what the plan admits: the count is taken   *)
(* again in the transaction that adds (Room).                                 *)
LEMMA AddsWithinPlan ==
  ASSUME KnowledgeIInv, [Next]_vars, Live' \ Live # {} PROVE Cardinality(Eligible') <= plan.max
<1>1. PICK s \in Sources, type \in Types, input \in Urls \cup Assets :
        /\ Unlocked /\ sources[s] = NoSource /\ Room(type) /\ Create(s, type, input) /\ UNCHANGED plan
  <2>1. sources' # sources
    BY DEF Live
  <2>2. ~(\E f \in Forms : Upload(f)) /\ ~Reorder /\ ~PlanMoves /\ ~(\E a \in Assets : Expire(a)) /\ ~UNCHANGED vars
    BY <2>1 DEF Upload, UploadIntent, Put, Finalize, LoseReply, Reorder, PlanMoves, Expire, vars
  <2>3. ASSUME NEW i, PlaceRow(i) PROVE FALSE
    <3>1. rewrite.order[i] \in Live /\ i - 1 \in Nat
      <4>1. i \in DOMAIN rewrite.order /\ rewrite.order[i] \in Rows
        BY <2>3 DEF PlaceRow, Rows
      <4>2. Rewriting(Held, rewrite) /\ Rows = Live
        BY <4>1, RewrittenRows
      <4> QED  BY <4>1, <4>2, LiveFinite DEF Rewriting
    <3>2. UNCHANGED <<plan, revisions, assets, forms, handlers>>
      BY <2>3 DEF PlaceRow, uploads
    <3>3. sources' = [sources EXCEPT ![rewrite.order[i]].position = i - 1]
      BY <2>3 DEF PlaceRow
    <3>4. DOMAIN Held' = DOMAIN Held
      BY <3>1, <3>2, <3>3, PositionWritten
    <3> QED  BY <3>4 DEF Held
  <2>4. ASSUME NEW s \in Sources, OnSource(s)
        PROVE  \E url \in Urls : CreateWebPage(s, url)
    <3>1. ASSUME NEW reason, NEW input, Revise(s, reason, input), s \in Live PROVE FALSE
      <4> DEFINE g == sources[s].generation + 1
      <4>1. sources' = [sources EXCEPT ![s].generation = g] /\ sources \in [Sources -> SourceRows]
        BY <3>1 DEF Revise, KnowledgeIInv, ContentOK, SourcesOK
      <4> HIDE DEF g
      <4>2. \A t \in Sources : sources'[t].at = sources[t].at
        BY <4>1 DEF SourceRows
      <4> QED  BY <4>2 DEF Live
    <3>2. ASSUME MoveRow(s) PROVE FALSE
      <4>1. s \in Rows
        BY <3>2 DEF MoveRow
      <4>2. Rewriting(Held, rewrite) /\ Rows = Live
        BY <4>1, RewrittenRows
      <4> DEFINE position == sources[s].position + rewrite.offset
      <4>3. position \in Nat /\ s \in Live
        BY <4>1, <4>2 DEF Rewriting, Held, Position
      <4>4. sources' = [sources EXCEPT ![s].position = position] /\ UNCHANGED <<plan, revisions, assets, forms, handlers>>
        BY <3>2 DEF MoveRow, uploads
      <4> HIDE DEF position
      <4>5. DOMAIN Held' = DOMAIN Held
        BY <4>3, <4>4, PositionWritten
      <4> QED  BY <4>5 DEF Held
    <3>3. ASSUME Delete(s) PROVE FALSE
      <4>1. sources' = [sources EXCEPT ![s] = Deleted] /\ sources \in [Sources -> SourceRows]
        BY <3>3 DEF Delete, KnowledgeIInv, ContentOK, SourcesOK
      <4> QED  BY <4>1 DEF Live, Deleted, NoSource
    <3> QED  BY <2>4, <3>1, <3>2, <3>3 DEF OnSource, EditWebPage, RefreshWebPage, Reprocess, Edited
  <2>5. ASSUME NEW s \in Sources, NEW url \in Urls, CreateWebPage(s, url)
        PROVE  /\ Unlocked /\ sources[s] = NoSource /\ Room("WEB_PAGE") /\ Create(s, "WEB_PAGE", url)
               /\ UNCHANGED plan /\ "WEB_PAGE" \in Types
    BY <2>5 DEF CreateWebPage, Types
  <2>6. ASSUME NEW h \in handlers, Handle(h)
        PROVE  \E s \in Sources : /\ Unlocked /\ sources[s] = NoSource /\ Room("FILE") /\ Create(s, "FILE", h.asset)
                                  /\ UNCHANGED plan /\ h.asset \in Assets
    <3>1. PICK s \in Sources : FinalizeCommit(h, s)
      BY <2>1, <2>6 DEF Handle, FinalizeRead, Publish
    <3>2. Finalizable(h) /\ Unlocked /\ UNCHANGED plan /\ h.asset \in Assets
      BY <2>1, <3>1 DEF FinalizeCommit, KnowledgeIInv, HandlersOK, HandlerOK
    <3>3. h.target = None
      <4> SUFFICES ASSUME h.target # None PROVE FALSE
        OBVIOUS
      <4>1. s \in Live /\ Revise(s, "FILE_REPLACE", h.asset)
        BY <3>1, <3>2 DEF FinalizeCommit, Finalizable, Replace
      <4> DEFINE g == sources[s].generation + 1
      <4>2. sources' = [sources EXCEPT ![s].generation = g] /\ sources \in [Sources -> SourceRows]
        BY <4>1 DEF Revise, KnowledgeIInv, ContentOK, SourcesOK
      <4> HIDE DEF g
      <4>3. \A t \in Sources : sources'[t].at = sources[t].at
        BY <4>2 DEF SourceRows
      <4> QED  BY <4>3 DEF Live
    <3> QED  BY <3>1, <3>2, <3>3 DEF FinalizeCommit, Finalizable
  <2>7. "FILE" \in Types
    BY DEF Types
  <2> QED  BY <2>2, <2>3, <2>4, <2>5, <2>6, <2>7 DEF Next
<1>2. /\ \A t \in Sources \ {s} : sources'[t] = sources[t]
      /\ sources'[s].type = type
      /\ Live' = Live \cup {s}
  <2> DEFINE row == [at |-> "live", type |-> type, position |-> Behind(Live), generation |-> 1]
  <2>1. sources' = [sources EXCEPT ![s] = row] /\ row.at = "live" /\ row.type = type
    BY <1>1 DEF Create
  <2> HIDE DEF row
  <2> QED  BY <2>1 DEF Live, KnowledgeIInv, ContentOK, SourcesOK
<1>3. Eligible' \subseteq Eligible \cup {s}
  BY <1>1, <1>2 DEF Eligible, Live
<1>4. IsFiniteSet(Eligible) /\ Cardinality(Eligible) \in Nat
  <2>1. IsFiniteSet(Eligible)
    BY LiveFinite, FS_Subset DEF Eligible
  <2> QED  BY <2>1, FS_CardinalityType
<1>5. IsFiniteSet(Eligible \cup {s}) /\ Cardinality(Eligible \cup {s}) <= Cardinality(Eligible) + 1
  <2> DEFINE E == Eligible
  <2>1. IsFiniteSet(E) /\ Cardinality(E) \in Nat
    BY <1>4
  <2> HIDE DEF E
  <2>2. /\ IsFiniteSet(E \cup {s})
        /\ Cardinality(E \cup {s}) = IF s \in E THEN Cardinality(E) ELSE Cardinality(E) + 1
    BY <2>1, FS_AddElement
  <2>3. IsFiniteSet(E \cup {s}) /\ Cardinality(E \cup {s}) <= Cardinality(E) + 1
    BY <2>1, <2>2
  <2> QED  BY <2>3 DEF E
<1>6. Cardinality(Eligible') <= Cardinality(Eligible \cup {s}) /\ Cardinality(Eligible') \in Nat
  BY <1>3, <1>5, FS_Subset, FS_CardinalityType
<1>7. Cardinality(Eligible) < plan.max /\ plan.max \in Nat
  BY <1>1 DEF Room, KnowledgeIInv, PlanOK
<1>8. Cardinality(Eligible \cup {s}) \in Nat
  BY <1>5, FS_CardinalityType
<1> QED  BY <1>4, <1>5, <1>6, <1>7, <1>8

(* No request adds a source beyond what the plan admits, whatever room there  *)
(* was when its upload began (createKnowledge and finalize, under the lock).  *)
THEOREM AlwaysAddedWithinPlan == Spec => AddedWithinPlan
<1> DEFINE A == Live' \ Live # {} => Cardinality(Eligible') <= plan.max
<1>1. KnowledgeIInv /\ [Next]_vars => [A]_vars
  BY AddsWithinPlan
<1> HIDE DEF A
<1>2. Spec => [][A]_vars
  BY <1>1, KnowledgeInvariance, PTL DEF Spec
<1> QED  BY <1>2 DEF A, AddedWithinPlan
=============================================================================

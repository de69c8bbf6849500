------------------------ MODULE PriorityQueueProofs -------------------------
(***************************************************************************)
(* The heap for any number of tasks, any priorities and any length: the    *)
(* invariants of its two loops, that the array keeps its entries, and that *)
(* it implements TaskQueue.                                                *)
(***************************************************************************)
EXTENDS PriorityQueue, FiniteSetTheorems, SequenceTheorems, TLAPS

\* Among the first n entries of h none is Less than its parent.
Ordered(h, n) == \A j \in 2 .. n : ~Less(h, j, j \div 2)

\* None is, except that the entry at a may be Less than its own parent: up has
\* still to move it.  Its children already are not Less than that parent, to
\* which they will pass.
UpHeap(h, a, n) ==
  /\ \A j \in 2 .. n : j # a => ~Less(h, j, j \div 2)
  /\ a > 1 => \A j \in 2 .. n : j \div 2 = a => ~Less(h, j, a \div 2)

\* ... except that children of a may be Less than the entry at a: down has still
\* to move it.  They are not Less than the parent of a, to which one will pass.
DownHeap(h, a, n) ==
  /\ \A j \in 2 .. n : j \div 2 # a => ~Less(h, j, j \div 2)
  /\ a > 1 => \A j \in 2 .. n : j \div 2 = a => ~Less(h, j, a \div 2)

\* b counts the entries of h.
Counted(h, b) == \A t \in Tasks : Cardinality(Positions(h, t)) = b[t]

\* None of the entries before the last is Less than it.
LastIsLeast(h) == \A i \in 1 .. Len(h) - 1 : ~Less(h, i, Len(h))

\* The loop invariants.  While down runs, the entry that Pop will cut off is
\* behind the heap, and none of those in the heap is Less than it.
HeapInv ==
  /\ pq \in Seq(Tasks) /\ bag \in [Tasks -> Nat]
  /\ op \in {"idle", "up", "down"} /\ at \in Nat
  /\ Counted(pq, bag)
  /\ op = "idle" => Ordered(pq, Len(pq))
  /\ op = "up" => at \in 1 .. Len(pq) /\ UpHeap(pq, at, Len(pq))
  /\ op = "down" =>
       /\ Len(pq) > 0 /\ at \in 1 .. Len(pq)
       /\ DownHeap(pq, at, Len(pq) - 1)
       /\ LastIsLeast(pq)
-----------------------------------------------------------------------------
(* Facts about the order, the indices and the array. *)

\* Less orders tasks by priority and age; tasks alike in both are unordered.
LEMMA LessOrders ==
  ASSUME NEW a \in Tasks, NEW b \in Tasks, NEW c \in Tasks
  PROVE  /\ ~Before(a, a)
         /\ Before(a, b) => ~Before(b, a)
         /\ ~Before(a, b) /\ ~Before(b, c) => ~Before(a, c)
         /\ Before(a, b) /\ ~Before(c, b) => ~Before(c, a)
<1>1. /\ Priority[a] \in Int /\ Priority[b] \in Int /\ Priority[c] \in Int
      /\ CreatedAt[a] \in Int /\ CreatedAt[b] \in Int /\ CreatedAt[c] \in Int
  BY HeapAssumption
<1> QED
  BY <1>1 DEF Before

\* The parent of j, and the children of i.
LEMMA Parents ==
  ASSUME NEW j \in Nat, j > 1
  PROVE  /\ j \div 2 \in Nat /\ 1 <= j \div 2 /\ j \div 2 < j
         /\ \A i \in Nat : j \div 2 = i <=> j = 2 * i \/ j = 2 * i + 1
  OBVIOUS

\* A set of natural numbers that is not empty has a least element.
LEMMA LeastNumber ==
  ASSUME NEW S \in SUBSET Nat, S # {}
  PROVE  \E m \in S : \A k \in S : m <= k
<1> DEFINE lt == {ss \in Nat \X Nat : ss[1] < ss[2]}
<1>1. IsWellFoundedOn(lt, Nat)
  BY NatLessThanWellFounded DEF OpToRel
<1> HIDE DEF lt
<1>2. PICK m \in S : \A k \in S : <<k, m>> \notin lt
  BY <1>1, WFMin
<1>3. ASSUME NEW k \in S PROVE m <= k
  <2>1. <<k, m>> \in Nat \X Nat /\ <<k, m>> \notin lt
    BY <1>2
  <2> QED
    BY <2>1 DEF lt
<1> QED
  BY <1>3

\* No entry of a heap is Less than its root: a first one that is would have a
\* parent that is not, and would not be Less than that.
LEMMA RootIsLeast ==
  ASSUME NEW h \in Seq(Tasks), NEW n \in 0 .. Len(h), Ordered(h, n)
  PROVE  \A j \in 1 .. n : ~Less(h, j, 1)
<1> DEFINE bad == {j \in 1 .. n : Less(h, j, 1)}
<1>0. Len(h) \in Nat /\ \A j \in 1 .. n : h[j] \in Tasks
  BY LenProperties, ElementOfSeq
<1> SUFFICES ASSUME bad # {} PROVE FALSE
  OBVIOUS
<1>1. PICK m \in bad : \A k \in bad : m <= k
  <2>1. bad \in SUBSET Nat
    BY <1>0
  <2> HIDE DEF bad
  <2> QED
    BY <2>1, LeastNumber
<1>2. m \in 1 .. n /\ Less(h, m, 1) /\ m # 1
  BY <1>0, LessOrders DEF Less
<1>3. m \div 2 \in 1 .. n /\ m \div 2 < m
  BY <1>0, <1>2, Parents
<1>4. ~Less(h, m \div 2, 1)
  BY <1>1, <1>3
<1>5. ~Less(h, m, m \div 2)
  BY <1>0, <1>2 DEF Ordered
<1> QED
  BY <1>0, <1>2, <1>3, <1>4, <1>5, LessOrders DEF Less

\* g is h with the entries at i and j exchanged.
Exchanged(g, h, i, j) ==
  /\ g \in Seq(Tasks) /\ Len(g) = Len(h)
  /\ g[i] = h[j] /\ g[j] = h[i]
  /\ \A k \in 1 .. Len(h) : k # i /\ k # j => g[k] = h[k]

LEMMA Swapped ==
  ASSUME NEW h \in Seq(Tasks), NEW i \in 1 .. Len(h), NEW j \in 1 .. Len(h)
  PROVE  Exchanged(Swap(h, i, j), h, i, j)
<1> DEFINE g == [h EXCEPT ![i] = h[j]]
<1>1. h[i] \in Tasks /\ h[j] \in Tasks
  BY ElementOfSeq
<1>2. /\ g \in Seq(Tasks) /\ Len(g) = Len(h)
      /\ \A k \in 1 .. Len(h) : g[k] = IF k = i THEN h[j] ELSE h[k]
  BY <1>1, ExceptSeq
<1>3. Swap(h, i, j) = [g EXCEPT ![j] = h[i]]
  BY DEF Swap
<1> HIDE DEF g
<1>4. /\ Swap(h, i, j) \in Seq(Tasks) /\ Len(Swap(h, i, j)) = Len(h)
      /\ \A k \in 1 .. Len(h) : Swap(h, i, j)[k] = IF k = j THEN h[i] ELSE g[k]
  BY <1>1, <1>2, <1>3, ExceptSeq
<1> QED
  BY <1>2, <1>4 DEF Exchanged

\* The positions of a task are finitely many.
LEMMA PositionsFinite ==
  ASSUME NEW h \in Seq(Tasks), NEW t
  PROVE  IsFiniteSet(Positions(h, t)) /\ Cardinality(Positions(h, t)) \in Nat
<1>1. Len(h) \in Nat
  BY LenProperties
<1>2. IsFiniteSet(1 .. Len(h)) /\ Positions(h, t) \in SUBSET (1 .. Len(h))
  BY <1>1, FS_Interval DEF Positions
<1> QED
  BY <1>2, FS_Subset, FS_CardinalityType

\* An exchange loses no entry and duplicates none.
LEMMA ExchangeKeepsEntries ==
  ASSUME NEW h \in Seq(Tasks), NEW i \in 1 .. Len(h), NEW j \in 1 .. Len(h),
         NEW g, Exchanged(g, h, i, j), NEW b, Counted(h, b)
  PROVE  Counted(g, b)
<1> SUFFICES ASSUME NEW t \in Tasks
             PROVE  Cardinality(Positions(g, t)) = Cardinality(Positions(h, t))
  BY DEF Counted
<1> DEFINE S == Positions(h, t)
           T == Positions(g, t)
           f == [k \in S |-> IF k = i THEN j ELSE IF k = j THEN i ELSE k]
<1>1. f \in [S -> T]
  BY DEF Positions, Exchanged
<1>2. \A k, l \in S : f[k] = f[l] => k = l
  OBVIOUS
<1>3. ASSUME NEW l \in T PROVE \E k \in S : f[k] = l
  <2> DEFINE k == IF l = i THEN j ELSE IF l = j THEN i ELSE l
  <2>1. k \in S
    BY DEF Positions, Exchanged
  <2> QED
    BY <2>1
<1>4. ExistsBijection(S, T)
  <2> HIDE DEF f, S, T
  <2>1. f \in Bijection(S, T)
    BY <1>1, <1>2, <1>3 DEF Bijection, Injection, Surjection, IsInjective
  <2> QED
    BY <2>1 DEF ExistsBijection
<1> QED
  BY <1>4, PositionsFinite, FS_Bijection

-----------------------------------------------------------------------------
(* The loops. *)

\* A round of up.
LEMMA UpRound ==
  ASSUME NEW h \in Seq(Tasks), NEW a \in 2 .. Len(h),
         UpHeap(h, a, Len(h)), Less(h, a, a \div 2)
  PROVE  /\ a \div 2 \in 1 .. Len(h)
         /\ UpHeap(Swap(h, a, a \div 2), a \div 2, Len(h))
<1> DEFINE p == a \div 2
           g == Swap(h, a, p)
           n == Len(h)
<1>0. n \in Nat /\ \A k \in 1 .. n : h[k] \in Tasks
  BY LenProperties, ElementOfSeq
<1>1. p \in 1 .. n /\ p < a /\ p # a
  BY <1>0, Parents
<1>2. \A j \in 2 .. n : j \div 2 \in 1 .. n /\ j \div 2 < j
  BY <1>0, Parents
<1>3. g[a] = h[p] /\ g[p] = h[a] /\ \A k \in 1 .. n : k # a /\ k # p => g[k] = h[k]
  <2>1. a \in 1 .. Len(h) /\ p \in 1 .. Len(h)
    BY <1>0, <1>1
  <2>2. Exchanged(g, h, a, p)
    BY <2>1, Swapped
  <2> QED
    BY <2>2 DEF Exchanged
<1>4. Before(h[a], h[p])
  BY DEF Less
<1>5. p > 1 => p \in 2 .. n /\ ~Before(h[p], h[p \div 2])
  BY <1>0, <1>1 DEF UpHeap, Less
<1> HIDE DEF p, g
<1>6. ASSUME NEW j \in 2 .. n, j # p PROVE ~Before(g[j], g[j \div 2])
  <2>0. j \div 2 \in 1 .. n /\ j \div 2 # j
    BY <1>0, <1>2
  <2>1. CASE j = a
    BY <1>0, <1>1, <1>3, <1>4, <2>1, LessOrders DEF p
  <2>2. CASE j # a /\ j \div 2 = a
    <3>1. ~Before(h[j], h[p])
      BY <2>2 DEF UpHeap, Less, p
    <3> QED
      BY <1>0, <1>3, <1>6, <2>2, <3>1
  <2>3. CASE j # a /\ j \div 2 = p
    <3>1. ~Before(h[j], h[p])
      BY <2>3 DEF UpHeap, Less
    <3>2. g[j] = h[j] /\ g[j \div 2] = h[a]
      BY <1>0, <1>3, <1>6, <2>3
    <3> QED
      BY <1>0, <1>1, <1>4, <3>1, <3>2, LessOrders
  <2>4. CASE j # a /\ j \div 2 # a /\ j \div 2 # p
    <3>1. ~Before(h[j], h[j \div 2])
      BY <2>4 DEF UpHeap, Less
    <3> QED
      BY <1>0, <1>3, <1>6, <2>0, <2>4, <3>1
  <2> QED
    BY <2>1, <2>2, <2>3, <2>4
<1>7. ASSUME p > 1, NEW j \in 2 .. n, j \div 2 = p
      PROVE  ~Before(g[j], g[p \div 2])
  <2>1. p \div 2 \in 1 .. n /\ p \div 2 # p /\ p \div 2 # a
    BY <1>0, <1>1, <1>2, <1>5, <1>7
  <2>2. g[p \div 2] = h[p \div 2]
    BY <1>3, <2>1
  <2>3. CASE j = a
    BY <1>3, <1>5, <1>7, <2>2, <2>3
  <2>4. CASE j # a
    <3>1. ~Before(h[j], h[p])
      BY <1>7, <2>4 DEF UpHeap, Less
    <3>2. j \in 1 .. n /\ j # p
      BY <1>0, <1>2, <1>7
    <3>3. g[j] = h[j]
      BY <1>3, <2>4, <3>2
    <3> QED
      BY <1>0, <1>1, <1>5, <1>7, <2>1, <2>2, <3>1, <3>2, <3>3, LessOrders
  <2> QED
    BY <2>3, <2>4
<1>8. UpHeap(g, p, n)
  BY <1>6, <1>7 DEF UpHeap, Less
<1> QED
  BY <1>1, <1>8 DEF g, p

\* A round of down, among the first n entries.
LEMMA DownRound ==
  ASSUME NEW h \in Seq(Tasks), NEW n \in 0 .. Len(h), NEW a \in 1 .. n, 2 * a <= n,
         DownHeap(h, a, n), Less(h, Child(h, a, n), a)
  PROVE  /\ Child(h, a, n) \in 2 .. n
         /\ DownHeap(Swap(h, a, Child(h, a, n)), Child(h, a, n), n)
<1> DEFINE c == Child(h, a, n)
           g == Swap(h, a, c)
<1>0. Len(h) \in Nat /\ n \in Nat /\ n <= Len(h) /\ \A k \in 1 .. n : h[k] \in Tasks
  BY LenProperties, ElementOfSeq
<1>1. c \in 2 .. n /\ c \div 2 = a /\ c # a
  <2>1. c \in {2 * a, 2 * a + 1} /\ c <= n
    BY <1>0 DEF Child
  <2> QED
    BY <1>0, <2>1, Parents
<1>2. \A j \in 2 .. n : j \div 2 = a => ~Before(h[j], h[c])
  <2> SUFFICES ASSUME NEW j \in 2 .. n, j \div 2 = a PROVE ~Before(h[j], h[c])
    OBVIOUS
  <2>1. j \in Nat /\ (j = 2 * a \/ j = 2 * a + 1)
    BY <1>0, Parents
  <2>2. 2 * a \in 1 .. n /\ (2 * a + 1 <= n => 2 * a + 1 \in 1 .. n)
    BY <1>0
  <2>3. h[j] \in Tasks /\ h[c] \in Tasks /\ h[2 * a] \in Tasks
    BY <1>0, <1>1, <2>2
  <2>4. CASE c = j
    BY <2>3, <2>4, LessOrders
  <2>5. CASE c = 2 * a /\ j = 2 * a + 1
    BY <1>0, <2>5 DEF Child, Less
  <2>6. CASE c = 2 * a + 1 /\ j = 2 * a
    <3>1. Before(h[c], h[j])
      BY <1>0, <2>6 DEF Child, Less
    <3> QED
      BY <2>3, <3>1, LessOrders
  <2>7. c \in {2 * a, 2 * a + 1}
    BY DEF Child
  <2> QED
    BY <2>1, <2>4, <2>5, <2>6, <2>7
<1>3. Before(h[c], h[a])
  BY DEF Less
<1>4. a > 1 => a \in 2 .. n /\ ~Before(h[c], h[a \div 2])
  BY <1>0, <1>1 DEF DownHeap, Less
<1> HIDE DEF c
<1>5. g[a] = h[c] /\ g[c] = h[a] /\ \A k \in 1 .. n : k # a /\ k # c => g[k] = h[k]
  <2>1. a \in 1 .. Len(h) /\ c \in 1 .. Len(h) /\ 1 .. n \subseteq 1 .. Len(h)
    BY <1>0, <1>1
  <2>2. Exchanged(g, h, a, c)
    BY <2>1, Swapped
  <2> QED
    BY <2>1, <2>2 DEF Exchanged
<1> HIDE DEF g
<1>6. \A j \in 2 .. n : j \div 2 \in 1 .. n /\ j \div 2 # j
  BY <1>0, Parents
<1>7. ASSUME NEW j \in 2 .. n, j \div 2 # c PROVE ~Before(g[j], g[j \div 2])
  <2>1. CASE j = c
    BY <1>0, <1>1, <1>3, <1>5, <2>1, LessOrders
  <2>2. CASE j # c /\ j \div 2 = a
    <3>1. j \in 1 .. n /\ j # a
      BY <1>0, <1>6, <2>2
    <3>2. g[j] = h[j]
      BY <1>5, <2>2, <3>1
    <3> QED
      BY <1>2, <1>5, <2>2, <3>2
  <2>3. CASE j = a
    BY <1>0, <1>4, <1>5, <1>6, <1>7, <2>3
  <2>4. CASE j # c /\ j # a /\ j \div 2 # a
    <3>1. ~Before(h[j], h[j \div 2])
      BY <2>4 DEF DownHeap, Less
    <3> QED
      BY <1>0, <1>5, <1>6, <1>7, <2>4, <3>1
  <2> QED
    BY <2>1, <2>2, <2>3, <2>4
<1>8. ASSUME NEW j \in 2 .. n, j \div 2 = c PROVE ~Before(g[j], g[c \div 2])
  <2>1. j # c /\ j # a
    <3>1. j > c /\ c > a
      BY <1>0, <1>1, <1>8, Parents
    <3> QED
      BY <1>0, <1>1, <3>1
  <2>2. ~Before(h[j], h[c])
    BY <1>1, <1>8 DEF DownHeap, Less
  <2> QED
    BY <1>0, <1>1, <1>5, <2>1, <2>2
<1>9. DownHeap(g, c, n)
  BY <1>7, <1>8 DEF DownHeap, Less
<1> QED
  BY <1>1, <1>9 DEF g, c
-----------------------------------------------------------------------------
(* The calls. *)

\* Push appends one entry, and the new entry is the only one out of place.
LEMMA PushKeeps ==
  ASSUME HeapInv, NEW t \in Tasks, Push(t)
  PROVE  HeapInv'
<1> DEFINE n == Len(pq)
<1>1. /\ pq \in Seq(Tasks) /\ bag \in [Tasks -> Nat]
      /\ op = "idle" /\ op' = "up" /\ at' = n + 1
      /\ pq' = Append(pq, t) /\ bag' = [bag EXCEPT ![t] = @ + 1]
      /\ Ordered(pq, n) /\ Counted(pq, bag)
  BY DEF HeapInv, Push
<1>2. /\ n \in Nat /\ pq' \in Seq(Tasks) /\ Len(pq') = n + 1
      /\ \A k \in 1 .. n : pq'[k] = pq[k]
      /\ pq'[n + 1] = t
  BY <1>1, LenProperties, AppendProperties
<1>3. UpHeap(pq', n + 1, n + 1)
  <2>1. ASSUME NEW j \in 2 .. n + 1
        PROVE  /\ j \div 2 \in 1 .. n /\ j \div 2 # n + 1
               /\ j # n + 1 => j \in 2 .. n /\ pq'[j] = pq[j]
    BY <1>2, Parents
  <2>2. \A j \in 2 .. n + 1 : j # n + 1 => ~Less(pq', j, j \div 2)
    BY <1>1, <1>2, <2>1 DEF Less, Ordered
  <2> QED
    BY <2>1, <2>2 DEF UpHeap
<1>4. ASSUME NEW u \in Tasks PROVE Cardinality(Positions(pq', u)) = bag'[u]
  <2>1. bag[u] \in Nat /\ Cardinality(Positions(pq, u)) = bag[u]
    BY <1>1 DEF Counted
  <2>2. IsFiniteSet(Positions(pq, u))
    BY <1>1, PositionsFinite
  <2>3. CASE u = t
    <3>1. /\ Positions(pq', u) = Positions(pq, u) \cup {n + 1}
          /\ n + 1 \notin Positions(pq, u)
      BY <1>2, <2>3 DEF Positions
    <3>2. Cardinality(Positions(pq', u)) = Cardinality(Positions(pq, u)) + 1
      BY <2>2, <3>1, FS_AddElement
    <3>3. bag'[u] = bag[u] + 1
      BY <1>1, <2>3
    <3> QED
      BY <2>1, <3>2, <3>3
  <2>4. CASE u # t
    <3>1. Positions(pq', u) = Positions(pq, u)
      BY <1>2, <2>4 DEF Positions
    <3>2. bag'[u] = bag[u]
      BY <1>1, <2>4
    <3> QED
      BY <2>1, <3>1, <3>2
  <2> QED
    BY <2>3, <2>4
<1>5. bag' \in [Tasks -> Nat] /\ Counted(pq', bag')
  BY <1>1, <1>4 DEF Counted
<1> QED
  BY <1>1, <1>2, <1>3, <1>5 DEF HeapInv

\* A round of up moves the entry, or finds it in place.
LEMMA UpKeeps ==
  ASSUME HeapInv, Up
  PROVE  HeapInv'
<1>1. /\ pq \in Seq(Tasks) /\ bag \in [Tasks -> Nat] /\ bag' = bag
      /\ op = "up" /\ at \in 1 .. Len(pq) /\ UpHeap(pq, at, Len(pq))
      /\ Counted(pq, bag)
      /\ Len(pq) \in Nat
  BY LenProperties DEF HeapInv, Up
<1>2. CASE at > 1 /\ Less(pq, at, at \div 2)
  <2>1. pq' = Swap(pq, at, at \div 2) /\ at' = at \div 2 /\ op' = op
    BY <1>2 DEF Up
  <2>2. at \in 2 .. Len(pq)
    BY <1>1, <1>2
  <2>3. at \div 2 \in 1 .. Len(pq) /\ UpHeap(pq', at', Len(pq))
    BY <1>1, <1>2, <2>1, <2>2, UpRound
  <2>4. Exchanged(pq', pq, at, at \div 2)
    BY <1>1, <2>1, <2>3, Swapped
  <2>5. Counted(pq', bag)
    BY <1>1, <2>3, <2>4, ExchangeKeepsEntries
  <2>6. pq' \in Seq(Tasks) /\ Len(pq') = Len(pq)
    BY <2>4 DEF Exchanged
  <2> QED
    BY <1>1, <2>1, <2>3, <2>5, <2>6 DEF HeapInv
<1>3. CASE ~(at > 1 /\ Less(pq, at, at \div 2))
  <2>1. pq' = pq /\ at' = 0 /\ op' = "idle"
    BY <1>3 DEF Up
  <2>2. ASSUME NEW j \in 2 .. Len(pq) PROVE ~Less(pq, j, j \div 2)
    <3>1. CASE j # at
      BY <1>1, <3>1 DEF UpHeap
    <3>2. CASE j = at
      <4>1. at > 1
        BY <1>1, <3>2
      <4> QED
        BY <1>3, <3>2, <4>1
    <3> QED
      BY <3>1, <3>2
  <2>3. Ordered(pq, Len(pq))
    BY <2>2 DEF Ordered
  <2> QED
    BY <1>1, <2>1, <2>3 DEF HeapInv
<1> QED
  BY <1>2, <1>3

\* heap.Pop puts the root, the least entry, behind the heap, and the last entry
\* at the root, where it is the only one out of place.
LEMMA PopRootKeeps ==
  ASSUME HeapInv, PopRoot
  PROVE  HeapInv'
<1> DEFINE n == Len(pq)
<1>1. /\ pq \in Seq(Tasks) /\ bag \in [Tasks -> Nat] /\ bag' = bag
      /\ op = "idle" /\ op' = "down" /\ at' = 1 /\ pq' = Swap(pq, 1, n)
      /\ Ordered(pq, n) /\ Counted(pq, bag)
      /\ n \in Nat \ {0}
  BY EmptySeq DEF HeapInv, PopRoot
<1>2. 1 \in 1 .. n /\ n \in 1 .. n /\ n \in 0 .. n
  BY <1>1
<1>3. Exchanged(pq', pq, 1, n)
  BY <1>1, <1>2, Swapped
<1>4. Counted(pq', bag)
  BY <1>1, <1>2, <1>3, ExchangeKeepsEntries
<1>5. /\ pq' \in Seq(Tasks) /\ Len(pq') = n /\ pq'[1] = pq[n] /\ pq'[n] = pq[1]
      /\ \A k \in 1 .. n : k # 1 /\ k # n => pq'[k] = pq[k]
  BY <1>3 DEF Exchanged
<1>6. \A k \in 1 .. n : ~Less(pq, k, 1)
  BY <1>1, <1>2, RootIsLeast
<1>7. LastIsLeast(pq')
  <2> SUFFICES ASSUME NEW i \in 1 .. n - 1 PROVE ~Before(pq'[i], pq'[n])
    BY <1>5 DEF LastIsLeast, Less
  <2>1. i \in 1 .. n /\ i # n
    BY <1>1
  <2> QED
    BY <1>2, <1>5, <1>6, <2>1 DEF Less
<1>8. DownHeap(pq', 1, n - 1)
  <2> SUFFICES ASSUME NEW j \in 2 .. n - 1, j \div 2 # 1 PROVE ~Less(pq', j, j \div 2)
    BY DEF DownHeap
  <2>1. j \in 2 .. n /\ j \in 1 .. n /\ j \div 2 \in 1 .. n
        /\ j # n /\ j # 1 /\ j \div 2 # n
    BY <1>1, Parents
  <2>2. ~Less(pq, j, j \div 2)
    BY <1>1, <2>1 DEF Ordered
  <2>3. pq'[j] = pq[j] /\ pq'[j \div 2] = pq[j \div 2]
    BY <1>5, <2>1
  <2> QED
    BY <2>2, <2>3 DEF Less
<1>9. n > 0
  BY <1>1
<1> QED
  BY <1>1, <1>2, <1>4, <1>5, <1>7, <1>8, <1>9 DEF HeapInv

\* A round of down moves the entry one level further.
LEMMA DownKeeps ==
  ASSUME HeapInv, Down
  PROVE  HeapInv'
<1> DEFINE n == Len(pq) - 1
           c == Child(pq, at, n)
<1>1. /\ pq \in Seq(Tasks) /\ bag \in [Tasks -> Nat] /\ bag' = bag
      /\ op = "down" /\ op' = "down" /\ at' = c /\ pq' = Swap(pq, at, c)
      /\ 2 * at <= n /\ Less(pq, c, at)
      /\ at \in 1 .. Len(pq) /\ DownHeap(pq, at, n)
      /\ LastIsLeast(pq) /\ Counted(pq, bag)
      /\ Len(pq) \in Nat \ {0}
  BY LenProperties DEF HeapInv, Down, MoreDown
<1>2. n \in 0 .. Len(pq) /\ at \in 1 .. n
  BY <1>1
<1>3. c \in 2 .. n /\ DownHeap(pq', c, n)
  BY <1>1, <1>2, DownRound
<1> HIDE DEF c
<1>4. /\ c \in 1 .. n /\ c \in 1 .. Len(pq) /\ c # Len(pq) /\ at # Len(pq)
      /\ Len(pq) \in 1 .. Len(pq) /\ Len(pq) > 0 /\ c \in Nat
      /\ 1 .. n \subseteq 1 .. Len(pq)
  <2>1. Len(pq) \in Nat \ {0} /\ at \in 1 .. n /\ c \in 2 .. n
    BY <1>1, <1>2, <1>3
  <2> QED
    BY <2>1
<1>5. Exchanged(pq', pq, at, c)
  BY <1>1, <1>4, Swapped
<1>6. Counted(pq', bag)
  BY <1>1, <1>4, <1>5, ExchangeKeepsEntries
<1>7. /\ pq' \in Seq(Tasks) /\ Len(pq') = Len(pq) /\ pq'[at] = pq[c] /\ pq'[c] = pq[at]
      /\ \A k \in 1 .. Len(pq) : k # at /\ k # c => pq'[k] = pq[k]
  BY <1>5 DEF Exchanged
<1>8. LastIsLeast(pq')
  <2>1. pq'[Len(pq)] = pq[Len(pq)]
    BY <1>4, <1>7
  <2>2. ASSUME NEW i \in 1 .. n PROVE \E k \in 1 .. n : pq'[i] = pq[k]
    <3>1. CASE i = at
      BY <1>4, <1>7, <3>1
    <3>2. CASE i = c
      BY <1>2, <1>7, <3>2
    <3>3. CASE i # at /\ i # c
      <4>1. pq'[i] = pq[i]
        BY <1>4, <1>7, <3>3
      <4> QED
        BY <4>1
    <3> QED
      BY <3>1, <3>2, <3>3
  <2>3. \A k \in 1 .. n : ~Before(pq[k], pq[Len(pq)])
    BY <1>1 DEF LastIsLeast, Less
  <2>4. \A i \in 1 .. n : ~Before(pq'[i], pq'[Len(pq)])
    BY <2>1, <2>2, <2>3
  <2> QED
    BY <1>7, <2>4 DEF LastIsLeast, Less
<1> QED
  BY <1>1, <1>3, <1>4, <1>6, <1>7, <1>8 DEF HeapInv

\* Pop takes the last entry off and leaves a heap.
LEMMA PopKeeps ==
  ASSUME HeapInv, Pop
  PROVE  HeapInv'
<1> DEFINE n == Len(pq) - 1
           t == pq[Len(pq)]
           c == Child(pq, at, n)
<1>1. /\ pq \in Seq(Tasks) /\ bag \in [Tasks -> Nat]
      /\ op = "down" /\ op' = "idle" /\ at' = 0 /\ pq' = SubSeq(pq, 1, n)
      /\ bag' = [bag EXCEPT ![t] = @ - 1]
      /\ ~(2 * at <= n /\ Less(pq, c, at))
      /\ at \in 1 .. Len(pq) /\ DownHeap(pq, at, n)
      /\ Counted(pq, bag)
      /\ Len(pq) \in Nat \ {0}
  BY LenProperties DEF HeapInv, Pop, MoreDown
<1>2. \A k \in 1 .. Len(pq) : pq[k] \in Tasks
  BY <1>1, ElementOfSeq
<1>3. n \in Nat /\ 1 .. n \subseteq 1 .. Len(pq) /\ t \in Tasks
  BY <1>1, <1>2
<1>4. /\ pq' \in Seq(Tasks) /\ Len(pq') = n
      /\ \A k \in 1 .. n : pq'[k] = pq[k]
  <2>1. \A k \in 1 .. n : pq[k] \in Tasks
    BY <1>2, <1>3
  <2> HIDE DEF n
  <2>2. /\ SubSeq(pq, 1, n) \in Seq(Tasks)
        /\ Len(SubSeq(pq, 1, n)) = IF 1 <= n THEN n - 1 + 1 ELSE 0
        /\ \A k \in 1 .. n - 1 + 1 : SubSeq(pq, 1, n)[k] = pq[1 + k - 1]
    BY <1>3, <2>1, SubSeqProperties
  <2> QED
    BY <1>1, <1>3, <2>2
<1>5. ASSUME NEW j \in 2 .. n PROVE ~Less(pq, j, j \div 2)
  <2>1. CASE j \div 2 # at
    BY <1>1, <2>1 DEF DownHeap
  <2>2. CASE j \div 2 = at
    <3>1. j \in Nat /\ j <= n /\ at \in Nat /\ (j = 2 * at \/ j = 2 * at + 1)
      BY <1>1, <1>3, <2>2, Parents
    <3>2. 2 * at \in 1 .. n /\ j \in 1 .. n /\ c \in 1 .. n /\ at \in 1 .. n
      BY <1>1, <1>3, <3>1 DEF Child
    <3>3. /\ pq[2 * at] \in Tasks /\ pq[j] \in Tasks /\ pq[at] \in Tasks
          /\ pq[c] \in Tasks
      BY <1>2, <1>3, <3>2
    <3>4. ~Before(pq[c], pq[at])
      BY <1>1, <1>3, <3>2 DEF Less
    <3>5. ~Before(pq[j], pq[c])
      BY <3>1, <3>3, LessOrders DEF Child, Less
    <3> QED
      BY <2>2, <3>3, <3>4, <3>5, LessOrders DEF Less
  <2> QED
    BY <2>1, <2>2
<1>6. Ordered(pq', n)
  <2> SUFFICES ASSUME NEW j \in 2 .. n PROVE ~Less(pq', j, j \div 2)
    BY DEF Ordered
  <2>1. j \in 1 .. n /\ j \div 2 \in 1 .. n
    BY <1>3, Parents
  <2> QED
    BY <1>4, <1>5, <2>1 DEF Less
<1>7. ASSUME NEW u \in Tasks
      PROVE  bag'[u] \in Nat /\ Cardinality(Positions(pq', u)) = bag'[u]
  <2>1. bag[u] \in Nat /\ Cardinality(Positions(pq, u)) = bag[u]
    BY <1>1 DEF Counted
  <2>2. IsFiniteSet(Positions(pq, u))
    BY <1>1, PositionsFinite
  <2>3. Len(pq) = n + 1 /\ \A k : k \in 1 .. Len(pq) <=> k \in 1 .. n \/ k = Len(pq)
    BY <1>1
  <2>4. CASE u = t
    <3>1. Len(pq) \in Positions(pq, u)
      BY <1>1, <2>3, <2>4 DEF Positions
    <3>2. Len(pq) \notin 1 .. n
      BY <1>1
    <3>3. Positions(pq', u) = Positions(pq, u) \ {Len(pq)}
      BY <1>4, <2>3, <3>2 DEF Positions
    <3>4. /\ IsFiniteSet(Positions(pq', u))
          /\ Cardinality(Positions(pq', u)) = bag[u] - 1
      BY <2>1, <2>2, <3>1, <3>3, FS_RemoveElement
    <3>5. Cardinality(Positions(pq', u)) \in Nat
      BY <3>4, FS_CardinalityType
    <3>6. bag'[u] = bag[u] - 1
      BY <1>1, <2>4
    <3> QED
      BY <3>4, <3>5, <3>6
  <2>5. CASE u # t
    <3>1. Positions(pq', u) = Positions(pq, u)
      BY <1>4, <2>3, <2>5 DEF Positions
    <3>2. bag'[u] = bag[u]
      BY <1>1, <2>5
    <3> QED
      BY <2>1, <3>1, <3>2
  <2> QED
    BY <2>4, <2>5
<1>8. bag' \in [Tasks -> Nat] /\ Counted(pq', bag')
  BY <1>1, <1>7 DEF Counted
<1> QED
  BY <1>1, <1>4, <1>6, <1>8 DEF HeapInv
-----------------------------------------------------------------------------
\* The empty array is a heap.
LEMMA HeapInitially == Init => HeapInv
<1> SUFFICES ASSUME Init PROVE HeapInv
  OBVIOUS
<1>1. pq \in Seq(Tasks) /\ Len(pq) = 0 /\ bag \in [Tasks -> Nat]
  BY EmptySeq DEF Init
<1>2. \A t \in Tasks : Positions(pq, t) = {} /\ bag[t] = 0
  BY <1>1 DEF Init, Positions
<1>3. Counted(pq, bag)
  BY <1>2, FS_EmptySet DEF Counted
<1>4. Ordered(pq, Len(pq))
  BY <1>1 DEF Ordered
<1> QED
  BY <1>1, <1>3, <1>4 DEF Init, HeapInv

\* Every step of every call keeps the loop invariants.
LEMMA HeapNext == HeapInv /\ [Next]_vars => HeapInv'
<1> SUFFICES ASSUME HeapInv, [Next]_vars PROVE HeapInv'
  OBVIOUS
<1>1. CASE UNCHANGED vars
  BY <1>1 DEF vars, HeapInv, Ordered, UpHeap, DownHeap, LastIsLeast, Counted,
              Less, Positions
<1> QED
  BY <1>1, PushKeeps, UpKeeps, PopRootKeeps, DownKeeps, PopKeeps DEF Next

\* For any tasks, priorities and lengths, and through any mix of pushes and pops,
\* the array is a heap between calls and holds exactly the entries that were
\* pushed and not popped, a task that is queued twice included.
THEOREM HeapKept == Spec => []HeapOrder
<1>1. HeapInv => HeapOrder
  BY DEF HeapInv, HeapOrder, Ordered, Counted
<1> QED
  BY <1>1, HeapInitially, HeapNext, PTL DEF Spec

\* What Pop returns is in the bag, and nothing in the bag is Less than it.
LEMMA PopTakesFront ==
  ASSUME HeapInv, Pop
  PROVE  pq[Len(pq)] \in Queue!Front
<1> DEFINE t == pq[Len(pq)]
<1>1. /\ pq \in Seq(Tasks) /\ bag \in [Tasks -> Nat] /\ Len(pq) \in Nat \ {0}
      /\ Counted(pq, bag) /\ LastIsLeast(pq)
  BY LenProperties DEF HeapInv, Pop
<1>2. Len(pq) \in 1 .. Len(pq) /\ t \in Tasks
  <2>1. Len(pq) \in 1 .. Len(pq)
    BY <1>1
  <2> QED
    BY <1>1, <2>1, ElementOfSeq
<1>3. \A u \in Tasks : bag[u] > 0 <=> Positions(pq, u) # {}
  <2> SUFFICES ASSUME NEW u \in Tasks PROVE bag[u] > 0 <=> Positions(pq, u) # {}
    OBVIOUS
  <2>1. IsFiniteSet(Positions(pq, u))
    BY <1>1, PositionsFinite
  <2>2. bag[u] = 0 <=> Positions(pq, u) = {}
    BY <1>1, <2>1, FS_EmptySet DEF Counted
  <2>3. bag[u] \in Nat
    BY <1>1
  <2> QED
    BY <2>2, <2>3
<1>4. bag[t] > 0
  BY <1>2, <1>3 DEF Positions
<1>5. ASSUME NEW u \in Tasks, bag[u] > 0 PROVE ~Before(u, t)
  <2>1. PICK i \in 1 .. Len(pq) : pq[i] = u
    BY <1>3, <1>5 DEF Positions
  <2>2. CASE i = Len(pq)
    BY <1>2, <2>1, <2>2, LessOrders
  <2>3. CASE i # Len(pq)
    BY <1>1, <2>1, <2>3 DEF Less, LastIsLeast
  <2> QED
    BY <2>2, <2>3
<1>6. t \in Queue!Queued
  BY <1>2, <1>4 DEF Queue!Queued
<1>7. ASSUME NEW u \in Queue!Queued
      PROVE  \/ Priority[t] > Priority[u]
             \/ Priority[t] = Priority[u] /\ CreatedAt[t] <= CreatedAt[u]
  <2>1. u \in Tasks /\ ~Before(u, t)
    BY <1>5 DEF Queue!Queued
  <2>2. /\ Priority[t] \in Int /\ Priority[u] \in Int
        /\ CreatedAt[t] \in Int /\ CreatedAt[u] \in Int
    BY <1>2, <2>1, HeapAssumption
  <2> QED
    BY <2>1, <2>2 DEF Before
<1> QED
  BY <1>6, <1>7 DEF Queue!Front

\* The heap implements the bag that the scheduler's model builds on: of the steps
\* of a call exactly one changes the bag, the append of Push as Put and the cut of
\* Pop as Take of an entry of highest priority, the oldest of that priority.
THEOREM HeapImplementsBag == Spec => ImplementsTaskQueue
<1>1. Init => bag = [t \in Tasks |-> 0]
  BY DEF Init
<1>2. ASSUME HeapInv, [Next]_vars
      PROVE  [\E t \in Tasks : Queue!Put(t) \/ Queue!Take(t)]_bag
  <2>0. bag \in [Tasks -> Nat]
    BY <1>2 DEF HeapInv
  <2>1. ASSUME NEW t \in Tasks, Push(t) PROVE Queue!Put(t)
    <3>1. bag' = [bag EXCEPT ![t] = @ + 1]
      BY <2>1 DEF Push
    <3> QED
      BY <2>0, <3>1 DEF Queue!Put, Queue!Push
  <2>2. CASE Pop
    <3> DEFINE t == pq[Len(pq)]
    <3>1. t \in Queue!Front /\ bag' = [bag EXCEPT ![t] = @ - 1]
      BY <1>2, <2>2, PopTakesFront DEF Pop
    <3>2. t \in Tasks
      BY <3>1 DEF Queue!Front, Queue!Queued
    <3> QED
      BY <3>1, <3>2 DEF Queue!Take
  <2>3. CASE Up \/ PopRoot \/ Down \/ UNCHANGED vars
    BY <2>3 DEF Up, PopRoot, Down, vars
  <2> QED
    BY <1>2, <2>1, <2>2, <2>3 DEF Next
<1> QED
  BY <1>1, <1>2, HeapInitially, HeapNext, PTL
     DEF Spec, ImplementsTaskQueue, Queue!QueueSpec
=============================================================================

--------------------------- MODULE ReceiptLog_proofs ---------------------------
(***************************************************************************)
(* The receipt log never shows two histories: for any number of processes, *)
(* any journal left behind, and any plan of deleted lock files, torn lines *)
(* and failed writes, two signed heads agree, and a receipt once handed    *)
(* out stays in the tree of whoever holds the lock.                        *)
(***************************************************************************)
EXTENDS ReceiptLog, FiniteSetTheorems, WellFoundedInduction, TLAPS

-----------------------------------------------------------------------------
\* Counting the leaf lines of a journal

\* The leaves among the first lines are finitely many, and none of no line.
LEMMA CountType ==
    ASSUME NEW j, NEW n \in Nat
    PROVE  /\ IsFiniteSet({i \in 1 .. n : IsLeaf(j[i])})
           /\ LeafCount(j, n) \in Nat
           /\ n = 0 => LeafCount(j, n) = 0
<1>1. IsFiniteSet(1 .. n)
    BY FS_Interval
<1>2. IsFiniteSet({i \in 1 .. n : IsLeaf(j[i])})
    BY <1>1, FS_Subset
<1>3. n = 0 => {i \in 1 .. n : IsLeaf(j[i])} = {}
    OBVIOUS
<1> QED
    BY <1>2, <1>3, FS_CardinalityType, FS_EmptySet DEF LeafCount

\* One more line adds one leaf, or none.
LEMMA CountNext ==
    ASSUME NEW j, NEW n \in Nat
    PROVE  LeafCount(j, n + 1) = IF IsLeaf(j[n + 1]) THEN LeafCount(j, n) + 1
                                                     ELSE LeafCount(j, n)
<1> DEFINE S == {i \in 1 .. n : IsLeaf(j[i])}
           T == {i \in 1 .. n + 1 : IsLeaf(j[i])}
<1>1. IsFiniteSet(S) /\ n + 1 \notin S
    BY CountType
<1>2. CASE IsLeaf(j[n + 1])
  <2>1. T = S \cup {n + 1}
      BY <1>2
  <2> QED
      BY <1>1, <1>2, <2>1, FS_AddElement DEF LeafCount
<1>3. CASE ~IsLeaf(j[n + 1])
  <2>1. T = S
    <3>1. \A i \in 1 .. n + 1 : i = n + 1 \/ i \in 1 .. n
        OBVIOUS
    <3> QED
        BY <1>3, <3>1
  <2> QED
      BY <1>3, <2>1 DEF LeafCount
<1> QED
    BY <1>2, <1>3

\* More lines, no fewer leaves.
LEMMA CountMono ==
    ASSUME NEW j, NEW m \in Nat, NEW n \in Nat, m <= n
    PROVE  LeafCount(j, m) <= LeafCount(j, n)
<1>1. {i \in 1 .. m : IsLeaf(j[i])} \in SUBSET {i \in 1 .. n : IsLeaf(j[i])}
    OBVIOUS
<1> QED
    BY <1>1, CountType, FS_Subset DEF LeafCount

\* The count depends on the lines counted only.
LEMMA CountSame ==
    ASSUME NEW j, NEW k, NEW n \in Nat, \A i \in 1 .. n : j[i] = k[i]
    PROVE  LeafCount(j, n) = LeafCount(k, n)
<1>1. {i \in 1 .. n : IsLeaf(j[i])} = {i \in 1 .. n : IsLeaf(k[i])}
    OBVIOUS
<1> QED
    BY <1>1 DEF LeafCount

\* Two leaf lines have two counts.
LEMMA CountOnce ==
    ASSUME NEW j, NEW m \in Nat \ {0}, NEW n \in Nat \ {0},
           IsLeaf(j[m]), IsLeaf(j[n]), LeafCount(j, m) = LeafCount(j, n)
    PROVE  m = n
<1>1. ASSUME NEW a \in Nat \ {0}, NEW b \in Nat \ {0}, IsLeaf(j[b]), a < b
      PROVE  LeafCount(j, a) < LeafCount(j, b)
  <2>1. b - 1 \in Nat /\ (b - 1) + 1 = b /\ a <= b - 1
      BY <1>1
  <2>2. LeafCount(j, b) = LeafCount(j, b - 1) + 1
      BY <1>1, <2>1, CountNext
  <2>3. LeafCount(j, a) <= LeafCount(j, b - 1)
      BY <2>1, CountMono
  <2>4. LeafCount(j, a) \in Nat /\ LeafCount(j, b - 1) \in Nat
      BY <2>1, CountType
  <2> QED
      BY <2>2, <2>3, <2>4
<1>2. LeafCount(j, m) \in Nat /\ LeafCount(j, n) \in Nat
    BY CountType
<1>3. ~(m < n)
    BY <1>1, <1>2
<1>4. ~(n < m)
    BY <1>1, <1>2
<1> QED
    BY <1>3, <1>4

\* The k-th leaf has a line.
LEMMA LeafLineIs ==
    ASSUME NEW j, Len(j) \in Nat, NEW k \in 1 .. LeafCount(j, Len(j))
    PROVE  /\ LeafLine(j, k) \in 1 .. Len(j)
           /\ IsLeaf(j[LeafLine(j, k)])
           /\ LeafCount(j, LeafLine(j, k)) = k
<1> DEFINE T == {n \in Nat : k <= LeafCount(j, n)}
           R == {ij \in Nat \X Nat : ij[1] < ij[2]}
<1>0. \A n \in Nat : LeafCount(j, n) \in Nat /\ LeafCount(j, 0) = 0
    BY CountType
<1>1. Len(j) \in T /\ k \in Nat /\ k # 0
    BY <1>0
<1>2. IsWellFoundedOn(R, Nat)
    BY NatLessThanWellFounded DEF OpToRel
<1>3. \A a, b \in Nat : a < b => <<a, b>> \in R
    OBVIOUS
<1> HIDE DEF R
<1>4. PICK n \in T : \A m \in T : ~(<<m, n>> \in R)
  <2>1. T \subseteq Nat /\ T # {}
      BY <1>1
  <2> HIDE DEF T
  <2> QED
      BY <1>2, <2>1, WFMin
<1>5. ASSUME NEW m \in T PROVE n <= m
  <2>1. m \in Nat /\ n \in Nat /\ ~(m < n)
      BY <1>3, <1>4
  <2> QED
      BY <2>1
<1>6. n \in Nat /\ n # 0 /\ k <= LeafCount(j, n)
    BY <1>0, <1>1
<1>7. n - 1 \in Nat /\ (n - 1) + 1 = n
    BY <1>6
<1>8. n - 1 \notin T
    BY <1>5, <1>6, <1>7
<1>9. LeafCount(j, n - 1) < k
    BY <1>0, <1>1, <1>7, <1>8
<1>10. LeafCount(j, n) = IF IsLeaf(j[n]) THEN LeafCount(j, n - 1) + 1 ELSE LeafCount(j, n - 1)
    BY <1>7, CountNext
<1>11. IsLeaf(j[n]) /\ LeafCount(j, n) = k
  <2>1. LeafCount(j, n) \in Nat /\ LeafCount(j, n - 1) \in Nat
      BY <1>0, <1>6, <1>7
  <2>2. CASE IsLeaf(j[n])
      BY <1>1, <1>6, <1>9, <1>10, <2>1, <2>2
  <2>3. CASE ~IsLeaf(j[n])
      BY <1>1, <1>6, <1>9, <1>10, <2>1, <2>3
  <2> QED
      BY <2>2, <2>3
<1>12. n \in 1 .. Len(j)
    BY <1>1, <1>5, <1>6
<1> QED
    BY <1>11, <1>12 DEF LeafLine

\* A leaf line is the line of its count.
LEMMA LeafLineOf ==
    ASSUME NEW j, Len(j) \in Nat, NEW n \in 1 .. Len(j), IsLeaf(j[n])
    PROVE  /\ LeafCount(j, n) \in 1 .. LeafCount(j, Len(j))
           /\ LeafLine(j, LeafCount(j, n)) = n
<1>1. n - 1 \in Nat /\ (n - 1) + 1 = n /\ n \in Nat \ {0}
    OBVIOUS
<1>2. LeafCount(j, n) = LeafCount(j, n - 1) + 1
    BY <1>1, CountNext
<1>3. LeafCount(j, n) \in 1 .. LeafCount(j, Len(j))
  <2>1. LeafCount(j, n) <= LeafCount(j, Len(j))
      BY <1>1, CountMono
  <2>2. LeafCount(j, n - 1) \in Nat /\ LeafCount(j, Len(j)) \in Nat
      BY <1>1, CountType
  <2> QED
      BY <1>2, <2>1, <2>2
<1> DEFINE m == LeafLine(j, LeafCount(j, n))
<1>4. m \in 1 .. Len(j) /\ IsLeaf(j[m]) /\ LeafCount(j, m) = LeafCount(j, n)
    BY <1>3, LeafLineIs
<1>5. m \in Nat \ {0}
    BY <1>4
<1>6. m = n
    BY <1>1, <1>4, <1>5, CountOnce
<1> QED
    BY <1>3, <1>6
-----------------------------------------------------------------------------
\* Histories

\* The sequence s is the beginning of t.
Below(s, t) == Len(s) <= Len(t) /\ \A i \in 1 .. Len(s) : s[i] = t[i]

\* Beginnings of beginnings; two beginnings of one sequence are comparable.
LEMMA BelowOrder ==
    ASSUME NEW S, NEW s \in Seq(S), NEW t \in Seq(S), NEW u \in Seq(S)
    PROVE  /\ Below(s, s)
           /\ Below(s, t) /\ Below(t, u) => Below(s, u)
           /\ Below(s, u) /\ Below(t, u) => Below(s, t) \/ Below(t, s)
<1>1. Len(s) \in Nat /\ Len(t) \in Nat /\ Len(u) \in Nat
    OBVIOUS
<1>2. Below(s, s)
    BY <1>1 DEF Below
<1>3. ASSUME Below(s, t), Below(t, u) PROVE Below(s, u)
  <2>1. Len(s) <= Len(t) /\ Len(t) <= Len(u) /\ Len(s) <= Len(u)
      BY <1>1, <1>3 DEF Below
  <2>2. ASSUME NEW i \in 1 .. Len(s) PROVE s[i] = u[i]
    <3>1. i \in 1 .. Len(t)
        BY <1>1, <2>1
    <3> QED
        BY <1>3, <3>1 DEF Below
  <2> QED
      BY <2>1, <2>2 DEF Below
<1>4. ASSUME Below(s, u), Below(t, u) PROVE Below(s, t) \/ Below(t, s)
  <2>1. \A i \in 1 .. Len(s) : s[i] = u[i]
      BY <1>4 DEF Below
  <2>2. \A i \in 1 .. Len(t) : t[i] = u[i]
      BY <1>4 DEF Below
  <2>3. CASE Len(s) <= Len(t)
    <3>1. \A i \in 1 .. Len(s) : i \in 1 .. Len(t)
        BY <1>1, <2>3
    <3> QED
        BY <2>1, <2>2, <2>3, <3>1 DEF Below
  <2>4. CASE Len(t) <= Len(s)
    <3>1. \A i \in 1 .. Len(t) : i \in 1 .. Len(s)
        BY <1>1, <2>4
    <3> QED
        BY <2>1, <2>2, <2>4, <3>1 DEF Below
  <2> QED
      BY <1>1, <2>3, <2>4
<1> QED
    BY <1>2, <1>3, <1>4

\* A beginning of the same length is the whole.
LEMMA BelowWhole ==
    ASSUME NEW S, NEW s \in Seq(S), NEW t \in Seq(S), Below(s, t), Len(s) = Len(t)
    PROVE  s = t
    BY DEF Below

\* What is appended comes after what was there.
LEMMA BelowAppend ==
    ASSUME NEW S, NEW s \in Seq(S), NEW e \in S
    PROVE  /\ Append(s, e) \in Seq(S)
           /\ Len(Append(s, e)) = Len(s) + 1
           /\ Below(s, Append(s, e))
           /\ Append(s, e)[Len(s) + 1] = e
    BY DEF Below

\* A true head is the root of a beginning, and stays one as the tree grows.
LEMMA TrueHeadIs ==
    ASSUME NEW h \in Heads, NEW s \in Roots, NEW t \in Roots
    PROVE  /\ TrueHead(h, s) => h.size = Len(h.root) /\ Below(h.root, s)
           /\ h.size = Len(h.root) /\ Below(h.root, s) => TrueHead(h, s)
           /\ TrueHead(h, s) /\ Below(s, t) => TrueHead(h, t)
<1>1. h.size \in Nat /\ h.root \in Seq(Tasks) /\ s \in Seq(Tasks) /\ t \in Seq(Tasks)
    BY DEF Heads, Roots
<1>2. ASSUME NEW u \in Seq(Tasks), TrueHead(h, u)
      PROVE  h.size = Len(h.root) /\ Below(h.root, u)
    BY <1>1, <1>2 DEF TrueHead, Prefix, Below
<1>3. ASSUME NEW u \in Seq(Tasks), h.size = Len(h.root), Below(h.root, u)
      PROVE  TrueHead(h, u)
  <2>1. h.size <= Len(u)
      BY <1>3 DEF Below
  <2>2. SubSeq(u, 1, h.size) \in Seq(Tasks) /\ Len(SubSeq(u, 1, h.size)) = h.size
      BY <1>1, <2>1
  <2>3. \A i \in 1 .. h.size : SubSeq(u, 1, h.size)[i] = h.root[i]
      BY <1>1, <1>3, <2>1 DEF Below
  <2>4. h.root = SubSeq(u, 1, h.size)
      BY <1>1, <1>3, <2>2, <2>3
  <2> QED
      BY <2>1, <2>4 DEF TrueHead, Prefix
<1>4. Below(h.root, s) /\ Below(s, t) => Below(h.root, t)
    BY <1>1, BelowOrder
<1> QED
    BY <1>1, <1>2, <1>3, <1>4

\* What a line of the journal is.
LEMMA RecordShape ==
    ASSUME NEW r \in Records
    PROVE  /\ IsLeaf(r) => r.task \in Tasks /\ r.index \in Nat
           /\ r.op = "head" => r \in Heads
           /\ r = Torn => ~IsLeaf(r)
           /\ r \in Heads => ~IsLeaf(r) /\ r # Torn
    BY DEF Records, Heads, Torn, IsLeaf

\* The leaves of a journal are a sequence of tasks.
LEMMA LeavesType ==
    ASSUME NEW j \in Seq(Records)
    PROVE  /\ LeavesOf(j) \in Roots
           /\ Len(LeavesOf(j)) = LeafCount(j, Len(j))
           /\ \A k \in 1 .. LeafCount(j, Len(j)) : LeavesOf(j)[k] = j[LeafLine(j, k)].task
<1> DEFINE n == LeafCount(j, Len(j))
<1>1. Len(j) \in Nat /\ n \in Nat
  <2>1. Len(j) \in Nat
      OBVIOUS
  <2> QED
      BY <2>1, CountType
<1>2. ASSUME NEW k \in 1 .. n PROVE j[LeafLine(j, k)].task \in Tasks
  <2>1. LeafLine(j, k) \in 1 .. Len(j) /\ IsLeaf(j[LeafLine(j, k)])
      BY <1>1, LeafLineIs
  <2>2. j[LeafLine(j, k)] \in Records
      BY <2>1
  <2> QED
      BY <2>1, <2>2, RecordShape
<1>3. LeavesOf(j) = [k \in 1 .. n |-> j[LeafLine(j, k)].task]
    BY DEF LeavesOf
<1>4. LeavesOf(j) \in [1 .. n -> Tasks]
    BY <1>2, <1>3
<1> HIDE DEF n
<1>5. LeavesOf(j) \in Seq(Tasks) /\ Len(LeavesOf(j)) = n
    BY <1>1, <1>4
<1>6. \A k \in 1 .. n : LeavesOf(j)[k] = j[LeafLine(j, k)].task
    BY <1>3
<1> QED
    BY <1>5, <1>6 DEF Roots, n

\* The leaves of the first lines are the first leaves.
LEMMA LeavesPrefix ==
    ASSUME NEW j \in Seq(Records), NEW m \in Seq(Records), Below(m, j)
    PROVE  Below(LeavesOf(m), LeavesOf(j))
<1>1. Len(m) \in Nat /\ Len(j) \in Nat /\ Len(m) <= Len(j)
    BY DEF Below
<1>2. ASSUME NEW n \in Nat, n <= Len(m) PROVE LeafCount(m, n) = LeafCount(j, n)
    BY <1>1, <1>2, CountSame DEF Below
<1>3. LeafCount(m, Len(m)) <= LeafCount(j, Len(j))
    BY <1>1, <1>2, CountMono
<1>4. ASSUME NEW k \in 1 .. LeafCount(m, Len(m))
      PROVE  LeavesOf(m)[k] = LeavesOf(j)[k]
  <2> DEFINE i == LeafLine(m, k)
  <2>1. i \in 1 .. Len(m) /\ IsLeaf(m[i]) /\ LeafCount(m, i) = k
      BY <1>1, LeafLineIs
  <2>2. m[i] = j[i]
      BY <2>1 DEF Below
  <2>3. i \in 1 .. Len(j) /\ LeafCount(j, i) = k
      BY <1>1, <1>2, <2>1
  <2> HIDE DEF i
  <2>4. LeafLine(j, k) = i
      BY <1>1, <2>1, <2>2, <2>3, LeafLineOf
  <2>5. k \in 1 .. LeafCount(j, Len(j))
      BY <1>1, <2>1, <2>2, <2>3, LeafLineOf
  <2>6. LeavesOf(m)[k] = m[i].task
      BY LeavesType DEF i
  <2>7. LeavesOf(j)[k] = j[i].task
      BY <2>4, <2>5, LeavesType
  <2> QED
      BY <2>2, <2>6, <2>7
<1>5. /\ Len(LeavesOf(m)) = LeafCount(m, Len(m))
      /\ Len(LeavesOf(j)) = LeafCount(j, Len(j))
    BY LeavesType
<1> QED
    BY <1>3, <1>4, <1>5 DEF Below

\* One more line: a leaf is pushed, another line changes no leaf; and if the
\* journal is still in order it was so before, the leaf having the next index.
LEMMA OneMoreLine ==
    ASSUME NEW j \in Seq(Records), NEW r \in Records
    PROVE  LET jr == Append(j, r)
           IN  /\ jr \in Seq(Records)
               /\ LeavesOf(jr) = IF IsLeaf(r) THEN Append(LeavesOf(j), r.task)
                                              ELSE LeavesOf(j)
               /\ Below(LeavesOf(j), LeavesOf(jr))
               /\ InOrder(jr) <=> /\ InOrder(j) /\ r # Torn
                                  /\ IsLeaf(r) => r.index = Len(LeavesOf(j))
<1> DEFINE jr == Append(j, r)
           n == Len(j)
<1>1. /\ jr \in Seq(Records) /\ n \in Nat /\ Len(jr) = n + 1
      /\ jr[n + 1] = r /\ \A i \in 1 .. n : jr[i] = j[i]
    OBVIOUS
<1> HIDE DEF jr
<1>2. Below(j, jr)
    BY <1>1 DEF Below
<1>3. Below(LeavesOf(j), LeavesOf(jr))
    BY <1>1, <1>2, LeavesPrefix
<1>4. ASSUME NEW i \in 1 .. n PROVE LeafCount(jr, i) = LeafCount(j, i)
    BY <1>1, CountSame
<1>5. LeafCount(jr, n) = LeafCount(j, n)
    BY <1>1, CountSame
<1>6. LeafCount(jr, n + 1) = IF IsLeaf(r) THEN LeafCount(j, n) + 1 ELSE LeafCount(j, n)
    BY <1>1, <1>5, CountNext
<1>7. /\ LeavesOf(j) \in Seq(Tasks) /\ Len(LeavesOf(j)) = LeafCount(j, n)
      /\ LeavesOf(jr) \in Seq(Tasks) /\ Len(LeavesOf(jr)) = LeafCount(jr, n + 1)
    BY <1>1, LeavesType DEF Roots
<1>8. LeavesOf(jr) = IF IsLeaf(r) THEN Append(LeavesOf(j), r.task) ELSE LeavesOf(j)
  <2>1. CASE IsLeaf(r)
    <3>1. n + 1 \in 1 .. Len(jr) /\ IsLeaf(jr[n + 1])
        BY <1>1, <2>1
    <3>2. LeafLine(jr, LeafCount(jr, n + 1)) = n + 1
        BY <1>1, <3>1, LeafLineOf
    <3>3. LeafCount(jr, n + 1) \in 1 .. LeafCount(jr, Len(jr))
        BY <1>1, <3>1, LeafLineOf
    <3>4. LeavesOf(jr)[LeafCount(jr, n + 1)] = r.task
        BY <1>1, <3>2, <3>3, LeavesType
    <3>5. LeavesOf(jr)[Len(LeavesOf(j)) + 1] = r.task
        BY <1>6, <1>7, <2>1, <3>4
    <3>6. r.task \in Tasks
        BY <2>1, RecordShape
    <3>7. Len(LeavesOf(jr)) = Len(LeavesOf(j)) + 1
        BY <1>6, <1>7, <2>1
    <3> QED
        BY <1>3, <1>7, <2>1, <3>5, <3>6, <3>7 DEF Below
  <2>2. CASE ~IsLeaf(r)
    <3>1. Len(LeavesOf(jr)) = Len(LeavesOf(j))
        BY <1>6, <1>7, <2>2
    <3>2. LeavesOf(jr) = LeavesOf(j)
        BY <1>3, <1>7, <3>1 DEF Below
    <3> QED
        BY <2>2, <3>2
  <2> QED
      BY <2>1, <2>2
<1>9. InOrder(jr) <=> InOrder(j) /\ r # Torn /\ (IsLeaf(r) => r.index = Len(LeavesOf(j)))
  <2>1. \A i \in 1 .. n + 1 : i \in 1 .. n \/ i = n + 1
      BY <1>1
  <2>2. 1 .. n \subseteq 1 .. n + 1 /\ n + 1 \in 1 .. n + 1
      BY <1>1
  <2>3. LeafCount(j, n) \in Nat /\ (IsLeaf(r) => LeafCount(jr, n + 1) - 1 = LeafCount(j, n))
    <3>1. LeafCount(j, n) \in Nat
        BY <1>1, CountType
    <3> QED
        BY <1>6, <3>1
  <2> DEFINE Fits(k, i) == k[i] # Torn /\ (IsLeaf(k[i]) => k[i].index = LeafCount(k, i) - 1)
  <2>4. InOrder(j) <=> \A i \in 1 .. n : Fits(j, i)
      BY DEF InOrder
  <2>5. InOrder(jr) <=> \A i \in 1 .. n + 1 : Fits(jr, i)
      BY <1>1 DEF InOrder
  <2>6. \A i \in 1 .. n : Fits(jr, i) <=> Fits(j, i)
      BY <1>1, <1>4
  <2>7. Fits(jr, n + 1) <=> r # Torn /\ (IsLeaf(r) => r.index = Len(LeavesOf(j)))
      BY <1>1, <1>7, <2>3
  <2> HIDE DEF Fits
  <2> QED
      BY <2>1, <2>2, <2>4, <2>5, <2>6, <2>7
<1> QED
    BY <1>1, <1>3, <1>8, <1>9 DEF jr

\* What the bucket held when a line was read is a beginning of what it holds.
LEMMA BeforeBelow ==
    ASSUME NEW j \in Seq(Records), NEW i \in 1 .. Len(j)
    PROVE  /\ Before(j, i) \in Roots
           /\ Below(Before(j, i), LeavesOf(j))
<1>1. /\ SubSeq(j, 1, i - 1) \in Seq(Records)
      /\ Len(SubSeq(j, 1, i - 1)) = i - 1
      /\ \A k \in 1 .. i - 1 : SubSeq(j, 1, i - 1)[k] = j[k]
    OBVIOUS
<1>2. Below(SubSeq(j, 1, i - 1), j)
    BY <1>1 DEF Below
<1> QED
    BY <1>1, <1>2, LeavesPrefix, LeavesType DEF Before, Prefix
-----------------------------------------------------------------------------
\* The inductive invariant

\* The process that may write.
Holder(p) == pc[p] = "up" /\ LockKept(p)

\* A process that shows its tree: it loaded it under its lock, it may write,
\* it has joined the publish chain, or it has pushed a leaf and is about to
\* answer.
Showing(p) ==
    /\ pc[p] = "up"
    /\ \/ underLock[p] \/ LockKept(p) \/ pub[p] # None
       \/ write[p].stage \in {"pushed", "snapshot"}

\* The histories the world has seen or may see without another look at the
\* lock.
Views ==
    {h.root : h \in issued}
        \cup {pub[p].root : p \in {q \in Procs : pub[q] \in Heads}}
        \cup {leaves[p] : p \in {q \in Procs : Showing(q)}}

\* A lock file has one owner.
OneHolder ==
    \A p, q \in Procs : inode[p] # 0 /\ inode[p] = inode[q] => p = q

\* The line being written has the index of the next leaf; once it is pushed
\* the tree has it.  While the lock is kept, a journal in order has the line
\* where the tree will have it.
WriteFits(p) ==
    /\ write[p].stage \in {"checked", "written"} /\ IsLeaf(write[p].rec)
          => write[p].rec.index = Len(leaves[p])
    /\ write[p].stage \in {"pushed", "snapshot"} /\ IsLeaf(write[p].rec)
          => HasLeaf(leaves[p], write[p].rec)
    /\ write[p].stage = "written" /\ IsLeaf(write[p].rec) /\ LockKept(p) /\ InOrder(journal)
          => Below(Append(leaves[p], write[p].rec.task), LeavesOf(journal))

\* The books of a process: nothing is under way unless it is up, the head it
\* publishes and the heads it serves belong to its tree, and once it wrote a
\* line behind its successor's back it writes no more.
ProcBook(p) ==
    /\ pc[p] # "up" => pub[p] = None /\ write[p] = NoWrite
    /\ WriteFits(p)
    /\ pub[p] \in Heads => TrueHead(pub[p], leaves[p])
    /\ pc[p] = "up" => \A h \in heads[p] : TrueHead(h, leaves[p])
    /\ stray[p] <= 1
    /\ pc[p] = "up" /\ stray[p] = 1 => ~LockKept(p) /\ write[p].stage # "checked"

\* One history: the views are comparable; whoever may write has the longest,
\* and so has a journal in order.
OneHistory ==
    /\ \A v, w \in Views : Below(v, w) \/ Below(w, v)
    /\ \A p \in Procs : Holder(p) => \A v \in Views : Below(v, leaves[p])
    /\ InOrder(journal) => \A v \in Views : Below(v, LeavesOf(journal))

\* So have they every receipt.
ReceiptsIn ==
    /\ ReceiptsKept
    /\ InOrder(journal) => \A r \in receipted : HasLeaf(LeavesOf(journal), r)

RInv ==
    /\ TypeOK
    /\ OneHolder
    /\ \A p \in Procs : ProcBook(p)
    /\ \A h \in issued : h.size = Len(h.root)
    /\ OneHistory
    /\ ReceiptsIn

-----------------------------------------------------------------------------
\* Type correctness

\* What the write of a process is.
LEMMA WriteShape ==
    ASSUME TypeOK, NEW p \in Procs
    PROVE  /\ write[p] = NoWrite \/ write[p].stage \in Stages
           /\ write[p].stage \in Stages => write[p] # NoWrite /\ write[p].rec \in Records
           /\ write[p] # NoWrite => write[p].rec \in Records
           /\ NoWrite.stage = "idle"
<1>1. write[p] \in {NoWrite} \cup [stage : Stages, rec : Records]
    BY DEF TypeOK
<1>2. NoWrite.stage = "idle" /\ "idle" \notin Stages
    BY DEF NoWrite, Stages
<1> QED
    BY <1>1, <1>2

\* A record to be written.
LEMMA WritingType ==
    ASSUME NEW stage \in Stages, NEW rec \in Records
    PROVE  /\ Writing(stage, rec) \in [stage : Stages, rec : Records]
           /\ Writing(stage, rec).stage = stage /\ Writing(stage, rec).rec = rec
           /\ Writing(stage, rec) # NoWrite
    BY DEF Writing, NoWrite, Stages

\* Leaves and heads are records.
LEMMA RecordTypes ==
    /\ \A t \in Tasks, n \in Nat :
          /\ Leaf(n, t) \in Records /\ IsLeaf(Leaf(n, t))
          /\ Leaf(n, t).index = n /\ Leaf(n, t).task = t
    /\ \A r \in Roots, n \in Nat :
          /\ TreeHead(n, r) \in Heads /\ TreeHead(n, r).size = n /\ TreeHead(n, r).root = r
    /\ Heads \subseteq Records /\ Torn \in Records
    /\ None \notin Heads /\ Queued \notin Heads /\ Queued # None
  <1>1. None \notin Heads /\ Queued # None
      BY ReceiptLogAssumption
  <1>2. Queued \notin Heads
      BY DEF Queued, Heads
  <1> QED
      BY <1>1, <1>2 DEF Records, Heads, Leaf, TreeHead, IsLeaf

\* Types after a step of the lock.
LEMMA LockType ==
    ASSUME TypeOK, UNCHANGED faults,
           UnlinkLock \/ \E p \in Procs : BootLock(p) \/ BootRefused(p)
    PROVE  TypeOK'
<1>1. ASSUME NEW p \in Procs, BootLock(p) PROVE TypeOK'
    BY <1>1 DEF TypeOK, BootLock, diskVars, treeVars, history
<1>2. CASE UnlinkLock
    BY <1>2 DEF TypeOK, UnlinkLock, diskVars, treeVars, history
<1>3. ASSUME NEW p \in Procs, BootRefused(p) PROVE TypeOK'
    BY <1>3 DEF TypeOK, BootRefused, diskVars, treeVars
<1> QED
    BY <1>1, <1>2, <1>3

\* Types after a boot.
LEMMA LoadType ==
    ASSUME TypeOK, NEW p \in Procs, BootLoad(p), UNCHANGED faults
    PROVE  TypeOK'
<1>1. journal \in Seq(Records)
    BY DEF TypeOK
<1>2. LeavesOf(journal) \in Roots
    BY <1>1, LeavesType
<1>3. StoredHeads(journal) \subseteq Heads /\ RacedHeads(journal) \subseteq Heads
    BY <1>1, RecordShape DEF StoredHeads, RacedHeads, HeadLines
<1>4. underLock' \in [Procs -> BOOLEAN]
  <2>1. LockKept(p) \in BOOLEAN
      BY DEF LockKept
  <2> QED
      BY <2>1 DEF TypeOK, BootLoad
<1> QED
    BY <1>2, <1>3, <1>4 DEF TypeOK, BootLoad, diskVars, lockVars

\* Types after a crash.
LEMMA CrashType ==
    ASSUME TypeOK, NEW p \in Procs, Crash(p), UNCHANGED faults
    PROVE  TypeOK'
<1>1. journal' \in Seq(Records)
  <2>1. journal \in Seq(Records) /\ Torn \in Records
      BY RecordTypes DEF TypeOK
  <2>2. journal' = journal \/ journal' = Append(journal, Torn)
      BY DEF Crash
  <2> QED
      BY <2>1, <2>2
<1>2. <<>> \in Roots
    BY DEF Roots
<1> QED
    BY <1>1, <1>2 DEF TypeOK, Crash

\* Types after the steps of a write.
LEMMA WriteType ==
    ASSUME TypeOK, NEW p \in Procs, UNCHANGED faults,
           \/ \E t \in Tasks \cup {None} : AppendStart(p, t)
           \/ Writes(p) \/ JournalFails(p) \/ SnapshotFails(p)
    PROVE  TypeOK'
<1>0. /\ journal \in Seq(Records) /\ leaves[p] \in Roots /\ Len(leaves[p]) \in Nat
      /\ write[p] # NoWrite => write[p].rec \in Records
      /\ write[p].stage \in Stages => write[p].rec \in Records
    BY WriteShape DEF TypeOK, Roots
<1>1. CASE \E t \in Tasks \cup {None} : AppendStart(p, t)
  <2>1. PICK t \in Tasks \cup {None} : AppendStart(p, t)
      BY <1>1
  <2>2. Leaf(Len(leaves[p]), t) \in Records /\ "checked" \in Stages
      BY <1>0, <2>1, RecordTypes DEF AppendStart, Stages
  <2>3. Writing("checked", Leaf(Len(leaves[p]), t)) \in [stage : Stages, rec : Records]
      BY <2>2, WritingType
  <2>4. write' \in [Procs -> {NoWrite} \cup [stage : Stages, rec : Records]]
      BY <2>1, <2>3 DEF TypeOK, AppendStart
  <2>5. UNCHANGED <<diskVars, lockVars, pc, treeVars, pub, history>>
      BY <2>1 DEF AppendStart
  <2> QED
      BY <2>4, <2>5 DEF TypeOK, diskVars, lockVars, treeVars, history
<1>2. CASE JournalWrite(p)
  <2>1. "checked" \in Stages /\ "written" \in Stages
      BY DEF Stages
  <2>2. write[p].rec \in Records
      BY <1>0, <1>2, <2>1 DEF JournalWrite
  <2>3. Writing("written", write[p].rec) \in [stage : Stages, rec : Records]
      BY <2>1, <2>2, WritingType
  <2>4. journal' \in Seq(Records)
      BY <1>0, <1>2, <2>2 DEF JournalWrite
  <2>5. stray[p] \in Nat /\ stray' \in [Procs -> Nat]
      BY <1>2 DEF JournalWrite, TypeOK
  <2>6. write' \in [Procs -> {NoWrite} \cup [stage : Stages, rec : Records]]
      BY <1>2, <2>3 DEF TypeOK, JournalWrite, Stage
  <2>7. UNCHANGED <<checkpoint, lockVars, pc, treeVars, pub, issued, receipted, underLock, crashes>>
      BY <1>2 DEF JournalWrite
  <2> QED
      BY <2>4, <2>5, <2>6, <2>7 DEF TypeOK, lockVars, treeVars
<1>3. CASE Push(p)
  <2>1. "pushed" \in Stages /\ "written" \in Stages
      BY DEF Stages
  <2>2. write[p].rec \in Records
      BY <1>0, <1>3, <2>1 DEF Push
  <2>3. Writing("pushed", write[p].rec) \in [stage : Stages, rec : Records]
      BY <2>1, <2>2, WritingType
  <2>4. leaves' \in [Procs -> Roots]
    <3>1. IsLeaf(write[p].rec) => Append(leaves[p], write[p].rec.task) \in Roots
        BY <1>0, <2>2, RecordShape DEF Roots
    <3> QED
        BY <1>3, <3>1 DEF Push, TypeOK
  <2>5. write' \in [Procs -> {NoWrite} \cup [stage : Stages, rec : Records]]
      BY <1>3, <2>3 DEF TypeOK, Push, Stage, Abandon
  <2>6. UNCHANGED <<journal, checkpoint, lockFile, inodes, inode, pc, heads, quarantined, pub,
                    issued, receipted, underLock, stray, crashes>>
      BY <1>3 DEF Push, diskVars, lockVars, history
  <2> QED
      BY <2>4, <2>5, <2>6 DEF TypeOK
<1>4. CASE SnapshotCheck(p)
  <2>1. "pushed" \in Stages /\ "snapshot" \in Stages
      BY DEF Stages
  <2>2. Writing("snapshot", write[p].rec) \in [stage : Stages, rec : Records]
      BY <1>0, <1>4, <2>1, WritingType DEF SnapshotCheck
  <2>3. write' \in [Procs -> {NoWrite} \cup [stage : Stages, rec : Records]]
      BY <1>4, <2>2 DEF TypeOK, SnapshotCheck, Stage, Abandon
  <2>4. UNCHANGED <<diskVars, lockVars, pc, treeVars, pub, history>>
      BY <1>4 DEF SnapshotCheck
  <2> QED
      BY <2>3, <2>4 DEF TypeOK, diskVars, lockVars, treeVars, history
<1>5. CASE Snapshot(p)
  <2>1. "snapshot" \in Stages
      BY DEF Stages
  <2>2. IsLeaf(write[p].rec) => write[p].rec.task \in Tasks /\ write[p].rec.index \in Nat
      BY <1>0, <1>5, <2>1, RecordShape DEF Snapshot
  <2>3. receipted' \in SUBSET [task : Tasks, index : Nat]
      BY <1>5, <2>2 DEF Snapshot, TypeOK, Inclusion
  <2>4. write' \in [Procs -> {NoWrite} \cup [stage : Stages, rec : Records]]
      BY <1>5 DEF TypeOK, Snapshot, Abandon
  <2>5. checkpoint' \in [size : Nat, root : Roots]
      BY <1>0, <1>5 DEF Snapshot
  <2>6. UNCHANGED <<journal, lockVars, pc, treeVars, pub, issued, underLock, stray, crashes>>
      BY <1>5 DEF Snapshot
  <2> QED
      BY <2>3, <2>4, <2>5, <2>6 DEF TypeOK, lockVars, treeVars
<1>6. CASE JournalFails(p)
  <2>1. "checked" \in Stages
      BY DEF Stages
  <2>2. journal' \in Seq(Records)
    <3>1. write[p].rec \in Records /\ Torn \in Records
        BY <1>0, <1>6, <2>1, RecordTypes DEF JournalFails
    <3>2. \/ journal' = journal \/ journal' = Append(journal, Torn)
          \/ journal' = Append(journal, write[p].rec)
        BY <1>6 DEF JournalFails
    <3>3. \A r \in Records : Append(journal, r) \in Seq(Records)
        BY <1>0
    <3> QED
        BY <1>0, <3>1, <3>2, <3>3
  <2>3. write' \in [Procs -> {NoWrite} \cup [stage : Stages, rec : Records]]
      BY <1>6 DEF TypeOK, JournalFails, Abandon
  <2>4. UNCHANGED <<checkpoint, lockVars, pc, treeVars, pub, history>>
      BY <1>6 DEF JournalFails
  <2> QED
      BY <2>2, <2>3, <2>4 DEF TypeOK, lockVars, treeVars, history
<1>7. CASE SnapshotFails(p)
  <2>1. write' \in [Procs -> {NoWrite} \cup [stage : Stages, rec : Records]]
      BY <1>7 DEF TypeOK, SnapshotFails, Abandon
  <2>2. checkpoint' \in [size : Nat, root : Roots]
    <3>1. [size |-> Len(leaves[p]), root |-> leaves[p]] \in [size : Nat, root : Roots]
        BY <1>0
    <3>2. checkpoint \in [size : Nat, root : Roots]
        BY DEF TypeOK
    <3> QED
        BY <1>7, <3>1, <3>2 DEF SnapshotFails
  <2>3. UNCHANGED <<journal, lockVars, pc, treeVars, pub, history>>
      BY <1>7 DEF SnapshotFails
  <2> QED
      BY <2>1, <2>2, <2>3 DEF TypeOK, lockVars, treeVars, history
<1> QED
    BY <1>1, <1>2, <1>3, <1>4, <1>5, <1>6, <1>7 DEF Writes

\* Types after an answer from the tree, and after the steps of a publish.
LEMMA PublishType ==
    ASSUME TypeOK, NEW p \in Procs, UNCHANGED faults,
           \/ \E t \in Tasks \cup {None} : AppendKnown(p, t)
           \/ PublishCall(p) \/ PublishStart(p) \/ PublishSign(p) \/ PublishFails(p)
    PROVE  TypeOK'
<1>0. leaves[p] \in Roots /\ Len(leaves[p]) \in Nat
    BY DEF TypeOK, Roots
<1>1. CASE \E t \in Tasks \cup {None} : AppendKnown(p, t)
  <2>1. PICK t \in Tasks \cup {None} : AppendKnown(p, t)
      BY <1>1
  <2>2. IndexOf(p, t) \in 1 .. Len(leaves[p]) /\ leaves[p][IndexOf(p, t)] = t
      BY <2>1 DEF AppendKnown, InTree, IndexOf
  <2>3. t \in Tasks /\ IndexOf(p, t) - 1 \in Nat
      BY <1>0, <2>2 DEF Roots
  <2>4. receipted' \in SUBSET [task : Tasks, index : Nat]
      BY <2>1, <2>3 DEF AppendKnown, TypeOK, Inclusion
  <2> QED
      BY <2>1, <2>4 DEF TypeOK, AppendKnown, diskVars, lockVars, treeVars
<1>2. CASE PublishCall(p)
    BY <1>2 DEF TypeOK, PublishCall, diskVars, lockVars, treeVars, history
<1>3. CASE PublishStart(p)
  <2>1. TreeHead(Len(leaves[p]), leaves[p]) \in Heads
      BY <1>0, RecordTypes
  <2> QED
      BY <1>3, <2>1 DEF TypeOK, PublishStart, diskVars, lockVars, treeVars, history
<1>4. CASE PublishSign(p)
  <2>1. pub[p] \in Heads
      BY <1>4 DEF PublishSign, TypeOK
  <2>2. "checked" \in Stages /\ pub[p] \in Records
      BY <2>1, RecordTypes DEF Stages
  <2>3. Writing("checked", pub[p]) \in [stage : Stages, rec : Records]
      BY <2>2, WritingType
  <2>4. write' \in [Procs -> {NoWrite} \cup [stage : Stages, rec : Records]]
      BY <1>4, <2>3 DEF TypeOK, PublishSign
  <2>5. /\ heads' \in [Procs -> SUBSET Heads] /\ issued' \in SUBSET Heads
        /\ pub' \in [Procs -> {None, Queued} \cup Heads]
      BY <1>4, <2>1 DEF TypeOK, PublishSign
  <2>6. UNCHANGED <<diskVars, lockVars, pc, leaves, quarantined, receipted, underLock, stray, crashes>>
      BY <1>4 DEF PublishSign
  <2> QED
      BY <2>4, <2>5, <2>6 DEF TypeOK, diskVars, lockVars
<1>5. CASE PublishFails(p)
    BY <1>5 DEF TypeOK, PublishFails, diskVars, lockVars, treeVars
<1> QED
    BY <1>1, <1>2, <1>3, <1>4, <1>5

\* Every step keeps the types.
LEMMA TypeStep ==
    ASSUME TypeOK, [Next]_vars
    PROVE  TypeOK'
<1>1. CASE UNCHANGED vars
    BY <1>1 DEF TypeOK, vars, logVars, diskVars, lockVars, treeVars, history
<1>2. CASE Next
    BY <1>2, LockType, LoadType, CrashType, WriteType, PublishType DEF Next, Step
<1> QED
    BY <1>1, <1>2

-----------------------------------------------------------------------------
\* Steps that show nothing new

\* A lost lock stays lost: a new lock file has a new inode, and only a boot
\* takes a lock.
LEMMA LockStaysLost ==
    ASSUME TypeOK, OneHolder, [Next]_vars
    PROVE  /\ OneHolder'
           /\ \A q \in Procs : LockKept(q)' => \/ LockKept(q)
                                               \/ pc[q] = "down" /\ pc'[q] = "locked"
<1>1. CASE UNCHANGED <<lockFile, inode>>
    BY <1>1 DEF OneHolder, LockKept
<1>2. CASE UnlinkLock
    BY <1>2 DEF OneHolder, LockKept, UnlinkLock
<1>3. ASSUME NEW p \in Procs, BootLock(p)
      PROVE  /\ OneHolder'
             /\ \A q \in Procs : LockKept(q)' => \/ LockKept(q)
                                                 \/ pc[q] = "down" /\ pc'[q] = "locked"
  <2>1. pc[p] = "down" /\ pc'[p] = "locked"
      BY <1>3 DEF BootLock, TypeOK
  <2>2. \A q \in Procs : inode[q] \in Nat /\ inode[q] <= inodes /\ lockFile \in Nat /\ inodes \in Nat
      BY DEF TypeOK
  <2>3. \A q \in Procs : inode'[q] = IF q = p THEN lockFile' ELSE inode[q]
      BY <1>3 DEF BootLock, TypeOK
  <2>4. \A q \in Procs : lockFile' # inode[q] \/ inode[q] = 0
    <3>1. CASE lockFile = 0
        BY <1>3, <2>2, <3>1 DEF BootLock
    <3>2. CASE lockFile # 0
        BY <1>3, <3>2 DEF BootLock
    <3> QED
        BY <3>1, <3>2
  <2>5. OneHolder'
      BY <2>3, <2>4 DEF OneHolder
  <2>6. \A q \in Procs : LockKept(q)' => q = p
      BY <2>3, <2>4 DEF LockKept
  <2> QED
      BY <2>1, <2>5, <2>6
<1>4. ASSUME NEW p \in Procs, inode' = [inode EXCEPT ![p] = 0], UNCHANGED lockFile
      PROVE  OneHolder' /\ \A q \in Procs : LockKept(q)' => LockKept(q)
  <2>1. \A q \in Procs : inode'[q] = IF q = p THEN 0 ELSE inode[q]
      BY <1>4 DEF TypeOK
  <2> QED
      BY <1>4, <2>1 DEF OneHolder, LockKept
<1>5. CASE UNCHANGED vars
    BY <1>1, <1>5 DEF vars, logVars, lockVars
<1>6. CASE Next
  <2>1. ASSUME NEW p \in Procs, BootRefused(p) \/ Crash(p)
        PROVE  inode' = [inode EXCEPT ![p] = 0] /\ UNCHANGED lockFile
      BY <2>1 DEF BootRefused, Crash
  <2>2. ASSUME NEW p \in Procs, BootLoad(p) \/ Writes(p) \/ JournalFails(p) \/ SnapshotFails(p)
                   \/ PublishCall(p) \/ PublishStart(p) \/ PublishSign(p) \/ PublishFails(p)
        PROVE  UNCHANGED <<lockFile, inode>>
      BY <2>2 DEF BootLoad, Writes, JournalWrite, Push, SnapshotCheck, Snapshot,
                  JournalFails, SnapshotFails, PublishCall, PublishStart, PublishSign,
                  PublishFails, lockVars
  <2>3. ASSUME NEW p \in Procs, NEW t, AppendStart(p, t) \/ AppendKnown(p, t)
        PROVE  UNCHANGED <<lockFile, inode>>
      BY <2>3 DEF AppendStart, AppendKnown, lockVars
  <2> QED
      BY <1>1, <1>2, <1>3, <1>4, <1>6, <2>1, <2>2, <2>3 DEF Next, Step
<1> QED
    BY <1>5, <1>6

\* The journal grows, or is no longer in order.
Grows == InOrder(journal') => InOrder(journal) /\ Below(LeavesOf(journal), LeavesOf(journal'))

\* A step that writes one line, or none, lets the journal grow.
LEMMA GrowsStep ==
    ASSUME TypeOK,
           \/ UNCHANGED journal
           \/ \E r \in Records : journal' = Append(journal, r)
    PROVE  Grows
<1>1. journal \in Seq(Records) /\ LeavesOf(journal) \in Seq(Tasks)
    BY LeavesType DEF TypeOK, Roots
<1>2. CASE UNCHANGED journal
    BY <1>1, <1>2, BelowOrder DEF Grows
<1>3. ASSUME NEW r \in Records, journal' = Append(journal, r)
      PROVE  Grows
    BY <1>1, <1>3, OneMoreLine DEF Grows
<1> QED
    BY <1>2, <1>3

\* The variables of one process.
Still(q) ==
    /\ pc'[q] = pc[q] /\ write'[q] = write[q] /\ pub'[q] = pub[q]
    /\ leaves'[q] = leaves[q] /\ heads'[q] = heads[q]
    /\ underLock'[q] = underLock[q] /\ stray'[q] = stray[q]

\* The books of a process that does not move.
LEMMA StillBook ==
    ASSUME TypeOK, TypeOK', NEW q \in Procs, ProcBook(q), Still(q), Grows,
           LockKept(q)' => LockKept(q)
    PROVE  ProcBook(q)'
<1>1. WriteFits(q)'
  <2>1. CASE write[q].stage = "written" /\ IsLeaf(write[q].rec) /\ LockKept(q)' /\ InOrder(journal')
    <3>1. /\ leaves[q] \in Seq(Tasks) /\ LeavesOf(journal) \in Seq(Tasks)
          /\ LeavesOf(journal') \in Seq(Tasks)
        BY LeavesType DEF TypeOK, Roots
    <3>2. write[q].rec.task \in Tasks
      <4>1. "written" \in Stages
          BY DEF Stages
      <4> QED
          BY <2>1, <4>1, WriteShape, RecordShape
    <3>3. Append(leaves[q], write[q].rec.task) \in Seq(Tasks)
        BY <3>1, <3>2, BelowAppend
    <3>4. Below(Append(leaves[q], write[q].rec.task), LeavesOf(journal))
        BY <2>1 DEF ProcBook, WriteFits, Grows
    <3>5. Below(Append(leaves[q], write[q].rec.task), LeavesOf(journal'))
        BY <2>1, <3>1, <3>3, <3>4, BelowOrder DEF Grows
    <3> QED
        BY <2>1, <3>5 DEF ProcBook, WriteFits, Still
  <2>2. CASE ~(write[q].stage = "written" /\ IsLeaf(write[q].rec) /\ LockKept(q)' /\ InOrder(journal'))
      BY <2>2 DEF ProcBook, WriteFits, Still
  <2> QED
      BY <2>1, <2>2
<1> QED
    BY <1>1 DEF ProcBook, Still

\* What is in a view is in every view above it.
LEMMA HasLeafAbove ==
    ASSUME NEW s \in Roots, NEW t \in Roots, NEW r, r.index \in Nat, Below(s, t), HasLeaf(s, r)
    PROVE  HasLeaf(t, r)
<1>1. r.index + 1 \in 1 .. Len(s)
    BY DEF HasLeaf, Roots
<1> QED
    BY <1>1 DEF HasLeaf, Below, Roots

\* Views are sequences of tasks.
LEMMA ViewsType ==
    ASSUME TypeOK
    PROVE  Views \subseteq Roots
    BY DEF Views, TypeOK, Heads

\* A step that shows nothing new leaves one history, and every receipt in it.
LEMMA CalmHistory ==
    ASSUME TypeOK, TypeOK', OneHistory, ReceiptsIn, Grows, Views' \subseteq Views,
           \A p \in Procs : Holder(p)' => Holder(p) /\ leaves'[p] = leaves[p],
           \A r \in receipted' : r \in receipted \/ \E v \in Views : HasLeaf(v, r)
    PROVE  OneHistory' /\ ReceiptsIn'
<1>1. /\ Views \subseteq Roots /\ LeavesOf(journal) \in Roots /\ LeavesOf(journal') \in Roots
      /\ \A p \in Procs : leaves[p] \in Roots
      /\ \A r \in receipted' : r.index \in Nat
    BY ViewsType, LeavesType DEF TypeOK
<1>2. ASSUME InOrder(journal'), NEW v \in Views PROVE Below(v, LeavesOf(journal'))
  <2>1. Below(v, LeavesOf(journal)) /\ Below(LeavesOf(journal), LeavesOf(journal'))
      BY <1>2 DEF OneHistory, Grows
  <2> QED
      BY <1>1, <2>1, BelowOrder DEF Roots
<1>3. OneHistory'
    BY <1>2 DEF OneHistory
<1>4. ASSUME NEW r \in receipted', NEW p \in Procs, Holder(p)
      PROVE  HasLeaf(leaves[p], r)
  <2>1. CASE r \in receipted
      BY <1>4, <2>1 DEF ReceiptsIn, ReceiptsKept, Holder
  <2>2. ASSUME NEW v \in Views, HasLeaf(v, r) PROVE HasLeaf(leaves[p], r)
      BY <1>1, <1>4, <2>2, HasLeafAbove DEF OneHistory
  <2> QED
      BY <2>1, <2>2
<1>5. ASSUME NEW r \in receipted', InOrder(journal')
      PROVE  HasLeaf(LeavesOf(journal'), r)
  <2>1. CASE r \in receipted
      BY <1>1, <1>5, <2>1, HasLeafAbove DEF ReceiptsIn, Grows
  <2>2. ASSUME NEW v \in Views, HasLeaf(v, r) PROVE HasLeaf(LeavesOf(journal'), r)
      BY <1>1, <1>2, <1>5, <2>2, HasLeafAbove
  <2> QED
      BY <2>1, <2>2
<1>6. ReceiptsIn'
    BY <1>4, <1>5 DEF ReceiptsIn, ReceiptsKept, Holder
<1> QED
    BY <1>3, <1>6

\* Where the views come from.
LEMMA ViewsAre ==
    /\ \A h \in issued : h.root \in Views
    /\ \A p \in Procs : pub[p] \in Heads => pub[p].root \in Views
    /\ \A p \in Procs : Showing(p) => leaves[p] \in Views
    /\ \A p \in Procs : Holder(p) => Showing(p)
    BY DEF Views, Showing, Holder

\* A step of the processes in P that shows nothing new keeps the invariant if
\* it keeps their books.
LEMMA CalmStep ==
    ASSUME RInv, [Next]_vars, NEW P \in SUBSET Procs,
           \A q \in Procs \ P : Still(q),
           Grows,
           \A h \in issued' : h \in issued \/ (h.size = Len(h.root) /\ h.root \in Views),
           \A p \in P : pub'[p] \in Heads => pub'[p].root \in Views,
           \A p \in P : Showing(p)' => leaves'[p] \in Views,
           \A p \in P : Holder(p)' => Holder(p) /\ leaves'[p] = leaves[p],
           \A r \in receipted' : r \in receipted \/ \E v \in Views : HasLeaf(v, r),
           \A p \in P : ProcBook(p)'
    PROVE  RInv'
<1>1. TypeOK /\ TypeOK' /\ OneHolder /\ OneHistory /\ ReceiptsIn
    BY TypeStep DEF RInv
<1>2. OneHolder'
    BY <1>1, LockStaysLost
<1>3. ASSUME NEW q \in Procs \ P PROVE LockKept(q)' => LockKept(q)
  <2>1. pc'[q] = pc[q]
      BY DEF Still
  <2> QED
      BY <1>1, <2>1, LockStaysLost
<1>4. ASSUME NEW q \in Procs PROVE ProcBook(q)'
  <2>1. CASE q \in P
      BY <2>1
  <2>2. CASE q \notin P
      BY <1>1, <1>3, <2>2, StillBook DEF RInv
  <2> QED
      BY <2>1, <2>2
<1>5. ASSUME NEW q \in Procs, Showing(q)' PROVE leaves'[q] \in Views
  <2>1. CASE q \in P
      BY <1>5, <2>1
  <2>2. CASE q \notin P
    <3>1. Showing(q) /\ leaves'[q] = leaves[q]
        BY <1>3, <1>5, <2>2 DEF Showing, Still
    <3> QED
        BY <3>1, ViewsAre
  <2> QED
      BY <2>1, <2>2
<1>6. ASSUME NEW q \in Procs, pub'[q] \in Heads PROVE pub'[q].root \in Views
  <2>1. CASE q \in P
      BY <1>6, <2>1
  <2>2. CASE q \notin P
      BY <1>6, <2>2, ViewsAre DEF Still
  <2> QED
      BY <2>1, <2>2
<1>7. Views' \subseteq Views
  <2>1. \A h \in issued' : h.root \in Views
      BY ViewsAre
  <2> QED
      BY <1>5, <1>6, <2>1 DEF Views
<1>8. ASSUME NEW q \in Procs, Holder(q)' PROVE Holder(q) /\ leaves'[q] = leaves[q]
    BY <1>3, <1>8 DEF Holder, Still
<1>9. OneHistory' /\ ReceiptsIn'
    BY <1>1, <1>7, <1>8, CalmHistory
<1>10. \A h \in issued' : h.size = Len(h.root)
    BY DEF RInv
<1> QED
    BY <1>1, <1>2, <1>4, <1>9, <1>10 DEF RInv

\* The books of a process that is not up.
LEMMA DownBook ==
    ASSUME NEW p \in Procs, pc'[p] # "up", pub'[p] = None, write'[p] = NoWrite, stray'[p] <= 1
    PROVE  ProcBook(p)' /\ ~Showing(p)' /\ ~Holder(p)' /\ pub'[p] \notin Heads
<1>1. NoWrite.stage = "idle"
    BY DEF NoWrite
<1>2. WriteFits(p)'
    BY <1>1 DEF WriteFits
<1> QED
    BY <1>2, RecordTypes DEF ProcBook, Showing, Holder

\* The lock file is deleted.
LEMMA UnlinkStep ==
    ASSUME RInv, [Next]_vars, UnlinkLock
    PROVE  RInv'
<1>1. TypeOK
    BY DEF RInv
<1>2. UNCHANGED <<diskVars, inode, pc, treeVars, write, pub, history>>
    BY DEF UnlinkLock
<1>3. Grows
    BY <1>1, <1>2, GrowsStep DEF diskVars
<1>4. \A q \in Procs : Still(q)
    BY <1>2 DEF Still, treeVars, history
<1>5. issued' = issued /\ receipted' = receipted
    BY <1>2 DEF history
<1> DEFINE P == {}
<1>6. P \in SUBSET Procs
    OBVIOUS
<1> QED
    BY <1>3, <1>4, <1>5, <1>6, CalmStep

\* A process starts, is refused, or dies.
LEMMA DownStep ==
    ASSUME RInv, [Next]_vars, NEW p \in Procs, BootLock(p) \/ BootRefused(p) \/ Crash(p)
    PROVE  RInv'
<1>1. TypeOK /\ ProcBook(p)
    BY DEF RInv
<1>2. pc'[p] # "up" /\ pub'[p] = None /\ write'[p] = NoWrite /\ stray'[p] <= 1
    BY <1>1 DEF BootLock, BootRefused, Crash, TypeOK, ProcBook, history
<1>3. ProcBook(p)' /\ ~Showing(p)' /\ ~Holder(p)' /\ pub'[p] \notin Heads
    BY <1>2, DownBook
<1>4. \A q \in Procs \ {p} : Still(q)
    BY <1>1 DEF BootLock, BootRefused, Crash, TypeOK, Still, treeVars, history
<1>5. issued' = issued /\ receipted' = receipted
    BY DEF BootLock, BootRefused, Crash, history
<1>6. Grows
  <2>1. journal' = journal \/ journal' = Append(journal, Torn)
      BY DEF BootLock, BootRefused, Crash, diskVars
  <2> QED
      BY <1>1, <2>1, GrowsStep, RecordTypes
<1> DEFINE P == {p}
<1>7. P \in SUBSET Procs
    OBVIOUS
<1> QED
    BY <1>3, <1>4, <1>5, <1>6, <1>7, CalmStep

\* The same for a step of one process that keeps its tree.
LEMMA CalmProc ==
    ASSUME RInv, [Next]_vars, NEW p \in Procs,
           \A q \in Procs \ {p} : Still(q),
           pc'[p] = pc[p], leaves'[p] = leaves[p], UNCHANGED <<lockFile, inode>>,
           Grows,
           \A h \in issued' : h \in issued \/ (h.size = Len(h.root) /\ h.root \in Views),
           pub'[p] \in Heads => pub'[p].root \in Views,
           Showing(p)' => Showing(p),
           \A r \in receipted' : r \in receipted \/ \E v \in Views : HasLeaf(v, r),
           ProcBook(p)'
    PROVE  RInv'
<1>1. Showing(p)' => leaves'[p] \in Views
    BY ViewsAre
<1>2. Holder(p)' => Holder(p)
    BY DEF Holder, LockKept
<1> DEFINE P == {p}
<1>3. P \in SUBSET Procs
    OBVIOUS
<1> QED
    BY <1>1, <1>2, <1>3, CalmStep

\* A process that is writing, or publishing, is up.
LEMMA BusyIsUp ==
    ASSUME RInv, NEW p \in Procs
    PROVE  /\ write[p] # NoWrite => pc[p] = "up"
           /\ write[p].stage \in Stages => pc[p] = "up" /\ write[p].rec \in Records
           /\ pub[p] # None => pc[p] = "up"
           /\ pc[p] = "up" /\ LockKept(p) => stray[p] = 0
<1>1. TypeOK /\ ProcBook(p) /\ stray[p] \in Nat
    BY DEF RInv, TypeOK
<1>2. stray[p] = 0 \/ stray[p] = 1
    BY <1>1 DEF ProcBook
<1> QED
    BY <1>1, <1>2, WriteShape DEF ProcBook

\* appendReceipt up to the write.
LEMMA AppendStartStep ==
    ASSUME RInv, [Next]_vars, NEW p \in Procs, NEW t \in Tasks \cup {None}, AppendStart(p, t)
    PROVE  RInv'
<1>1. TypeOK /\ ProcBook(p) /\ leaves[p] \in Seq(Tasks) /\ Len(leaves[p]) \in Nat
    BY DEF RInv, TypeOK, Roots
<1>2. /\ pc[p] = "up" /\ LockKept(p) /\ t \in Tasks
      /\ UNCHANGED <<diskVars, lockVars, pc, treeVars, pub, history>>
      /\ write' = [write EXCEPT ![p] = Writing("checked", Leaf(Len(leaves[p]), t))]
    BY DEF AppendStart, Running
<1>3. UNCHANGED <<journal, lockFile, inode, pc, leaves, heads, pub, issued, receipted, underLock, stray>>
    BY <1>2 DEF diskVars, lockVars, treeVars, history
<1>4. \A q \in Procs \ {p} : Still(q)
    BY <1>1, <1>2, <1>3 DEF Still, TypeOK
<1>5. Grows
    BY <1>1, <1>3, GrowsStep
<1>6. /\ write'[p].stage = "checked" /\ IsLeaf(write'[p].rec)
      /\ write'[p].rec.index = Len(leaves[p])
  <2>1. "checked" \in Stages /\ Leaf(Len(leaves[p]), t) \in Records
      BY <1>1, <1>2, RecordTypes DEF Stages
  <2>2. write'[p] = Writing("checked", Leaf(Len(leaves[p]), t))
      BY <1>1, <1>2 DEF TypeOK
  <2> QED
      BY <1>1, <1>2, <2>1, <2>2, WritingType, RecordTypes
<1>7. WriteFits(p)'
    BY <1>3, <1>6 DEF WriteFits
<1>8. stray[p] = 0
    BY <1>2, BusyIsUp
<1>9. ProcBook(p)'
    BY <1>1, <1>2, <1>3, <1>7, <1>8 DEF ProcBook
<1>10. Showing(p)
    BY <1>2 DEF Showing
<1> QED
    BY <1>3, <1>4, <1>5, <1>9, <1>10, CalmProc, ViewsAre

\* A known task is answered.
LEMMA AppendKnownStep ==
    ASSUME RInv, [Next]_vars, NEW p \in Procs, NEW t \in Tasks \cup {None}, AppendKnown(p, t)
    PROVE  RInv'
<1>1. TypeOK /\ ProcBook(p) /\ leaves[p] \in Seq(Tasks) /\ Len(leaves[p]) \in Nat
    BY DEF RInv, TypeOK, Roots
<1>2. /\ pc[p] = "up"
      /\ UNCHANGED <<journal, lockFile, inode, pc, leaves, heads, write, pub, issued, underLock, stray>>
    BY DEF AppendKnown, Running, diskVars, lockVars, treeVars
<1>3. \A q \in Procs : Still(q)
    BY <1>2 DEF Still
<1>4. Grows
    BY <1>1, <1>2, GrowsStep
<1>5. ProcBook(p)' /\ (Showing(p)' => Showing(p))
    BY <1>1, <1>2 DEF ProcBook, WriteFits, LockKept, Showing
<1>6. ASSUME NEW r \in receipted'
      PROVE  r \in receipted \/ \E v \in Views : HasLeaf(v, r)
  <2>1. CASE r \in receipted
      BY <2>1
  <2>2. CASE underLock[p] /\ r = Inclusion(t, IndexOf(p, t) - 1)
    <3>1. leaves[p] \in Views
        BY <1>2, <2>2, ViewsAre DEF Showing
    <3>2. IndexOf(p, t) \in 1 .. Len(leaves[p]) /\ leaves[p][IndexOf(p, t)] = t
        BY DEF AppendKnown, InTree, IndexOf
    <3>3. r.index = IndexOf(p, t) - 1 /\ r.task = t
        BY <2>2 DEF Inclusion
    <3>4. HasLeaf(leaves[p], r)
        BY <1>1, <3>2, <3>3 DEF HasLeaf
    <3> QED
        BY <3>1, <3>4
  <2> QED
      BY <1>6, <2>1, <2>2 DEF AppendKnown
<1> QED
    BY <1>2, <1>3, <1>4, <1>5, <1>6, CalmProc, ViewsAre

\* The line is written.  If the journal is in order with it, and the lock was
\* kept, the journal's leaves are the tree's and the new one.
LEMMA JournalWriteStep ==
    ASSUME RInv, [Next]_vars, NEW p \in Procs, JournalWrite(p)
    PROVE  RInv'
<1> DEFINE rec == write[p].rec
<1>1. TypeOK /\ ProcBook(p) /\ leaves[p] \in Seq(Tasks) /\ journal \in Seq(Records)
    BY DEF RInv, TypeOK, Roots
<1>2. pc[p] = "up" /\ rec \in Records
    BY BusyIsUp DEF JournalWrite, Stages
<1>3. /\ UNCHANGED <<lockFile, inode, pc, leaves, heads, pub, issued, receipted, underLock>>
      /\ write[p].stage = "checked" /\ journal' = Append(journal, rec)
      /\ write' = [write EXCEPT ![p] = Writing("written", rec)]
      /\ stray' = [stray EXCEPT ![p] = @ + IF LockKept(p) THEN 0 ELSE 1]
    BY DEF JournalWrite, Stage, lockVars, treeVars
<1> HIDE DEF rec
<1>4. \A q \in Procs \ {p} : Still(q)
    BY <1>1, <1>3 DEF Still, TypeOK
<1>5. Grows
    BY <1>1, <1>2, <1>3, GrowsStep
<1>6. write'[p].stage = "written" /\ write'[p].rec = rec
  <2>1. "written" \in Stages
      BY DEF Stages
  <2>2. write'[p] = Writing("written", rec)
      BY <1>1, <1>3 DEF TypeOK
  <2> QED
      BY <1>2, <2>1, <2>2, WritingType
<1>7. IsLeaf(rec) => rec.index = Len(leaves[p])
    BY <1>1, <1>3 DEF ProcBook, WriteFits, rec
<1>8. ASSUME IsLeaf(rec), LockKept(p), InOrder(journal')
      PROVE  Below(Append(leaves[p], rec.task), LeavesOf(journal'))
  <2>1. /\ InOrder(journal) /\ rec.index = Len(LeavesOf(journal))
        /\ LeavesOf(journal') = Append(LeavesOf(journal), rec.task)
      BY <1>1, <1>2, <1>3, <1>8, OneMoreLine
  <2>2. leaves[p] \in Views
      BY <1>2, <1>8, ViewsAre DEF Showing
  <2>3. Below(leaves[p], LeavesOf(journal))
      BY <2>1, <2>2 DEF RInv, OneHistory
  <2>4. LeavesOf(journal) \in Seq(Tasks)
      BY <1>1, LeavesType DEF Roots
  <2>5. leaves[p] = LeavesOf(journal)
      BY <1>1, <1>7, <1>8, <2>1, <2>3, <2>4, BelowWhole
  <2>6. rec.task \in Tasks
      BY <1>2, <1>8, RecordShape
  <2>7. Append(leaves[p], rec.task) \in Seq(Tasks)
      BY <1>1, <2>6
  <2> QED
      BY <2>1, <2>5, <2>7, BelowOrder
<1>9. WriteFits(p)'
    BY <1>3, <1>6, <1>7, <1>8 DEF WriteFits, LockKept
<1>10. stray'[p] \in Nat /\ stray'[p] <= 1 /\ (stray'[p] = 1 => ~LockKept(p))
  <2>1. stray[p] = 0
    <3>1. stray[p] \in Nat /\ stray[p] <= 1 /\ stray[p] # 1
        BY <1>1, <1>2, <1>3 DEF TypeOK, ProcBook
    <3> QED
        BY <3>1
  <2>2. stray'[p] = stray[p] + IF LockKept(p) THEN 0 ELSE 1
      BY <1>1, <1>3 DEF TypeOK
  <2> QED
      BY <2>1, <2>2
<1>11. ProcBook(p)'
    BY <1>1, <1>2, <1>3, <1>6, <1>9, <1>10 DEF ProcBook, LockKept
<1>12. Showing(p)' => Showing(p)
    BY <1>3, <1>6 DEF Showing, LockKept
<1> QED
    BY <1>3, <1>4, <1>5, <1>11, <1>12, CalmProc, ViewsAre

\* A process that abandons its write, its tree as it is.
LEMMA AbandonBook ==
    ASSUME RInv, NEW p \in Procs, Abandon(p), pc[p] = "up",
           UNCHANGED <<lockFile, inode, pc, leaves, heads, pub, underLock, stray>>
    PROVE  ProcBook(p)' /\ (Showing(p)' => Showing(p)) /\ \A q \in Procs \ {p} : Still(q)
<1>1. TypeOK /\ ProcBook(p)
    BY DEF RInv
<1>2. write'[p] = NoWrite /\ NoWrite.stage = "idle"
    BY <1>1 DEF Abandon, TypeOK, NoWrite
<1>3. WriteFits(p)'
    BY <1>2 DEF WriteFits
<1>4. ProcBook(p)'
    BY <1>1, <1>2, <1>3 DEF ProcBook, LockKept
<1>5. Showing(p)' => Showing(p)
    BY <1>2 DEF Showing, LockKept
<1>6. \A q \in Procs \ {p} : Still(q)
    BY <1>1 DEF Abandon, TypeOK, Still
<1> QED
    BY <1>4, <1>5, <1>6

\* The line fails to be written.
LEMMA JournalFailsStep ==
    ASSUME RInv, [Next]_vars, NEW p \in Procs, JournalFails(p)
    PROVE  RInv'
<1>1. TypeOK
    BY DEF RInv
<1>2. pc[p] = "up" /\ write[p].rec \in Records
    BY BusyIsUp DEF JournalFails, Stages
<1>3. /\ UNCHANGED <<lockFile, inode, pc, leaves, heads, pub, underLock, stray, issued, receipted>>
      /\ Abandon(p)
      /\ \/ UNCHANGED journal
         \/ journal' = Append(journal, Torn)
         \/ journal' = Append(journal, write[p].rec)
    BY DEF JournalFails, lockVars, treeVars, history
<1>4. Grows
    BY <1>1, <1>2, <1>3, GrowsStep, RecordTypes
<1>5. ProcBook(p)' /\ (Showing(p)' => Showing(p)) /\ \A q \in Procs \ {p} : Still(q)
    BY <1>2, <1>3, AbandonBook
<1> QED
    BY <1>3, <1>4, <1>5, CalmProc, ViewsAre

\* The lock is checked before the checkpoint.
LEMMA SnapshotCheckStep ==
    ASSUME RInv, [Next]_vars, NEW p \in Procs, SnapshotCheck(p)
    PROVE  RInv'
<1>1. TypeOK /\ ProcBook(p)
    BY DEF RInv
<1>2. pc[p] = "up" /\ write[p].rec \in Records
    BY BusyIsUp DEF SnapshotCheck, Stages
<1>3. UNCHANGED <<journal, lockFile, inode, pc, leaves, heads, pub, underLock, stray, issued, receipted>>
    BY DEF SnapshotCheck, diskVars, lockVars, treeVars, history
<1>4. Grows
    BY <1>1, <1>3, GrowsStep
<1>5. CASE Abandon(p)
  <2>1. ProcBook(p)' /\ (Showing(p)' => Showing(p)) /\ \A q \in Procs \ {p} : Still(q)
      BY <1>2, <1>3, <1>5, AbandonBook
  <2> QED
      BY <1>3, <1>4, <2>1, CalmProc, ViewsAre
<1>6. CASE Stage(p, "snapshot")
  <2>1. write[p].stage = "pushed"
      BY DEF SnapshotCheck
  <2>2. write'[p].stage = "snapshot" /\ write'[p].rec = write[p].rec
    <3>1. "snapshot" \in Stages
        BY DEF Stages
    <3>2. write'[p] = Writing("snapshot", write[p].rec)
        BY <1>1, <1>6 DEF TypeOK, Stage
    <3> QED
        BY <1>2, <3>1, <3>2, WritingType
  <2>3. WriteFits(p)'
      BY <1>1, <1>3, <2>1, <2>2 DEF ProcBook, WriteFits
  <2>4. ProcBook(p)'
      BY <1>1, <1>2, <1>3, <2>2, <2>3 DEF ProcBook, LockKept
  <2>5. Showing(p)
      BY <1>2, <2>1 DEF Showing
  <2>6. \A q \in Procs \ {p} : Still(q)
      BY <1>1, <1>3, <1>6 DEF Stage, TypeOK, Still
  <2> QED
      BY <1>3, <1>4, <2>4, <2>5, <2>6, CalmProc, ViewsAre
<1> QED
    BY <1>5, <1>6 DEF SnapshotCheck

\* The checkpoint is written and the inclusion handed out, or neither: the
\* leaf is in a tree that was shown when the lock was checked.
LEMMA SnapshotStep ==
    ASSUME RInv, [Next]_vars, NEW p \in Procs, Snapshot(p) \/ SnapshotFails(p)
    PROVE  RInv'
<1> DEFINE rec == write[p].rec
<1>1. TypeOK /\ ProcBook(p)
    BY DEF RInv
<1>2. pc[p] = "up" /\ rec \in Records /\ write[p].stage = "snapshot"
    BY BusyIsUp DEF Snapshot, SnapshotFails, Stages
<1>3. /\ UNCHANGED <<journal, lockFile, inode, pc, leaves, heads, pub, underLock, stray, issued>>
      /\ Abandon(p)
    BY DEF Snapshot, SnapshotFails, lockVars, treeVars, history
<1>4. Grows
    BY <1>1, <1>3, GrowsStep
<1>5. ProcBook(p)' /\ (Showing(p)' => Showing(p)) /\ \A q \in Procs \ {p} : Still(q)
    BY <1>2, <1>3, AbandonBook
<1>6. ASSUME NEW r \in receipted'
      PROVE  r \in receipted \/ \E v \in Views : HasLeaf(v, r)
  <2>1. CASE r \in receipted
      BY <2>1
  <2>2. CASE IsLeaf(rec) /\ r = Inclusion(rec.task, rec.index)
    <3>1. leaves[p] \in Views
        BY <1>2, ViewsAre DEF Showing
    <3>2. HasLeaf(leaves[p], rec)
        BY <1>1, <1>2, <2>2 DEF ProcBook, WriteFits
    <3>3. HasLeaf(leaves[p], r)
        BY <2>2, <3>2 DEF HasLeaf, Inclusion
    <3> QED
        BY <3>1, <3>3
  <2> QED
      BY <1>6, <2>1, <2>2 DEF Snapshot, SnapshotFails, history
<1> QED
    BY <1>3, <1>4, <1>5, <1>6, CalmProc, ViewsAre

-----------------------------------------------------------------------------
\* Publishing

\* The publish joins the chain: the tree is shown from here on.
LEMMA PublishCallStep ==
    ASSUME RInv, [Next]_vars, NEW p \in Procs, PublishCall(p)
    PROVE  RInv'
<1>1. TypeOK /\ ProcBook(p)
    BY DEF RInv
<1>2. /\ pc[p] = "up" /\ LockKept(p)
      /\ UNCHANGED <<journal, lockFile, inode, pc, leaves, heads, write, underLock, stray, issued, receipted>>
    BY DEF PublishCall, Running, diskVars, lockVars, treeVars, history
<1>3. pub'[p] = Queued /\ pub'[p] \notin Heads
    BY <1>1, RecordTypes DEF PublishCall, TypeOK
<1>4. \A q \in Procs \ {p} : Still(q)
    BY <1>1, <1>2 DEF PublishCall, TypeOK, Still
<1>5. Grows
    BY <1>1, <1>2, GrowsStep
<1>6. ProcBook(p)'
    BY <1>1, <1>2, <1>3 DEF ProcBook, WriteFits, LockKept
<1>7. Showing(p)
    BY <1>2 DEF Showing
<1> QED
    BY <1>2, <1>3, <1>4, <1>5, <1>6, <1>7, CalmProc, ViewsAre

\* Root and size are taken from the tree together.
LEMMA PublishStartStep ==
    ASSUME RInv, [Next]_vars, NEW p \in Procs, PublishStart(p)
    PROVE  RInv'
<1>1. TypeOK /\ ProcBook(p) /\ leaves[p] \in Roots /\ Len(leaves[p]) \in Nat
    BY DEF RInv, TypeOK, Roots
<1>2. /\ pc[p] = "up" /\ pub[p] = Queued
      /\ UNCHANGED <<journal, lockFile, inode, pc, leaves, heads, write, underLock, stray, issued, receipted>>
    BY DEF PublishStart, Running, diskVars, lockVars, treeVars, history
<1>3. Showing(p)
    BY <1>2, RecordTypes DEF Showing
<1>4. /\ pub'[p] \in Heads /\ pub'[p].root = leaves[p]
      /\ pub'[p].size = Len(leaves[p])
  <2>1. pub'[p] = TreeHead(Len(leaves[p]), leaves[p])
      BY <1>1 DEF PublishStart, TypeOK
  <2> QED
      BY <1>1, <2>1, RecordTypes
<1>5. TrueHead(pub'[p], leaves[p])
  <2>1. Below(leaves[p], leaves[p])
      BY <1>1, BelowOrder DEF Roots
  <2> QED
      BY <1>1, <1>4, <2>1, TrueHeadIs
<1>6. \A q \in Procs \ {p} : Still(q)
    BY <1>1, <1>2 DEF PublishStart, TypeOK, Still
<1>7. Grows
    BY <1>1, <1>2, GrowsStep
<1>8. ProcBook(p)'
    BY <1>1, <1>2, <1>5 DEF ProcBook, WriteFits, LockKept
<1> QED
    BY <1>2, <1>3, <1>4, <1>6, <1>7, <1>8, CalmProc, ViewsAre

\* The head is signed: it is a view already, and true of the tree.
LEMMA PublishSignStep ==
    ASSUME RInv, [Next]_vars, NEW p \in Procs, PublishSign(p)
    PROVE  RInv'
<1>1. TypeOK /\ ProcBook(p) /\ leaves[p] \in Roots
    BY DEF RInv, TypeOK
<1>2. /\ pc[p] = "up" /\ pub[p] \in Heads /\ write[p] = NoWrite
      /\ UNCHANGED <<journal, lockFile, inode, pc, leaves, underLock, stray, receipted>>
      /\ issued' = issued \cup {pub[p]}
    BY <1>1 DEF PublishSign, Running, TypeOK, diskVars, lockVars
<1>3. pub'[p] = None /\ None \notin Heads
    BY <1>1, RecordTypes DEF PublishSign, TypeOK
<1>4. heads'[p] = heads[p] \cup {pub[p]}
    BY <1>1 DEF PublishSign, TypeOK
<1>5. /\ TrueHead(pub[p], leaves[p]) /\ pub[p].size = Len(pub[p].root)
      /\ pub[p].root \in Views
    BY <1>1, <1>2, TrueHeadIs, ViewsAre DEF ProcBook
<1>6. \/ write'[p] = NoWrite
      \/ LockKept(p) /\ write'[p].stage = "checked" /\ ~IsLeaf(write'[p].rec)
  <2>1. CASE LockKept(p)
    <3>1. "checked" \in Stages /\ pub[p] \in Records /\ ~IsLeaf(pub[p])
        BY <1>2, RecordTypes, RecordShape DEF Stages
    <3>2. write'[p] = Writing("checked", pub[p])
        BY <1>1, <2>1 DEF PublishSign, TypeOK
    <3> QED
        BY <2>1, <3>1, <3>2, WritingType
  <2>2. CASE ~LockKept(p)
      BY <1>2, <2>2 DEF PublishSign
  <2> QED
      BY <2>1, <2>2
<1>7. WriteFits(p)' /\ write'[p].stage \notin {"pushed", "snapshot"}
    BY <1>6 DEF WriteFits, NoWrite
<1>8. stray[p] <= 1 /\ (stray[p] = 1 => ~LockKept(p) /\ write'[p].stage # "checked")
    BY <1>1, <1>2, <1>6 DEF ProcBook, NoWrite
<1>9. ProcBook(p)'
    BY <1>1, <1>2, <1>3, <1>4, <1>5, <1>7, <1>8 DEF ProcBook, LockKept
<1>10. Showing(p)' => Showing(p)
    BY <1>2, <1>3, <1>7 DEF Showing, LockKept
<1>11. \A q \in Procs \ {p} : Still(q)
    BY <1>1, <1>2 DEF PublishSign, TypeOK, Still
<1>12. Grows
    BY <1>1, <1>2, GrowsStep
<1>13. \A h \in issued' : h \in issued \/ (h.size = Len(h.root) /\ h.root \in Views)
    BY <1>2, <1>5
<1> QED
    BY <1>2, <1>3, <1>9, <1>10, <1>11, <1>12, <1>13, CalmProc

\* The publish fails.
LEMMA PublishFailsStep ==
    ASSUME RInv, [Next]_vars, NEW p \in Procs, PublishFails(p)
    PROVE  RInv'
<1>1. TypeOK /\ ProcBook(p)
    BY DEF RInv
<1>2. /\ pc[p] = "up"
      /\ UNCHANGED <<journal, lockFile, inode, pc, leaves, heads, write, underLock, stray, issued, receipted>>
    BY DEF PublishFails, Running, diskVars, lockVars, treeVars
<1>3. pub'[p] = None /\ None \notin Heads
    BY <1>1, RecordTypes DEF PublishFails, TypeOK
<1>4. \A q \in Procs \ {p} : Still(q)
    BY <1>1, <1>2 DEF PublishFails, TypeOK, Still
<1>5. Grows
    BY <1>1, <1>2, GrowsStep
<1>6. ProcBook(p)' /\ (Showing(p)' => Showing(p))
    BY <1>1, <1>2, <1>3 DEF ProcBook, WriteFits, LockKept, Showing
<1> QED
    BY <1>2, <1>3, <1>4, <1>5, <1>6, CalmProc, ViewsAre

-----------------------------------------------------------------------------
\* Steps that show something new: a boot under the lock, and a push

\* A view above all others, in the tree of the only process that may write.
LEMMA TopHistory ==
    ASSUME TypeOK, TypeOK', OneHolder', OneHistory, ReceiptsIn, UNCHANGED <<journal, receipted>>,
           NEW p \in Procs, Holder(p)',
           Views' \subseteq Views \cup {leaves'[p]},
           \A v \in Views : Below(v, leaves'[p]),
           InOrder(journal) => Below(leaves'[p], LeavesOf(journal)),
           \A r \in receipted : HasLeaf(leaves'[p], r)
    PROVE  OneHistory' /\ ReceiptsIn'
<1>1. leaves'[p] \in Seq(Tasks)
    BY DEF TypeOK, Roots
<1>2. Below(leaves'[p], leaves'[p])
    BY <1>1, BelowOrder
<1>3. \A q \in Procs : Holder(q)' => q = p
    BY DEF Holder, LockKept, OneHolder
<1>4. \A v \in Views' : v \in Views \/ v = leaves'[p]
    OBVIOUS
<1>5. \A v \in Views' : Below(v, leaves'[p])
    BY <1>2, <1>4
<1>6. \A v, w \in Views' : Below(v, w) \/ Below(w, v)
    BY <1>4, <1>5 DEF OneHistory
<1>7. InOrder(journal') => \A v \in Views' : Below(v, LeavesOf(journal'))
    BY <1>4 DEF OneHistory
<1>8. OneHistory'
    BY <1>3, <1>5, <1>6, <1>7 DEF OneHistory
<1>9. ReceiptsIn'
    BY <1>3 DEF ReceiptsIn, ReceiptsKept, Holder
<1> QED
    BY <1>8, <1>9

\* The books of the others, and their views, after a step of p alone.
LEMMA OthersKeep ==
    ASSUME RInv, [Next]_vars, NEW p \in Procs, \A q \in Procs \ {p} : Still(q), Grows,
           ProcBook(p)', UNCHANGED issued, pub'[p] = pub[p]
    PROVE  /\ TypeOK' /\ OneHolder'
           /\ \A q \in Procs : ProcBook(q)'
           /\ \A h \in issued' : h.size = Len(h.root)
           /\ Views' \subseteq Views \cup {leaves'[p]}
<1>1. TypeOK /\ TypeOK' /\ OneHolder /\ OneHolder'
    BY TypeStep, LockStaysLost DEF RInv
<1>2. ASSUME NEW q \in Procs \ {p} PROVE LockKept(q)' => LockKept(q)
  <2>1. pc'[q] = pc[q]
      BY DEF Still
  <2> QED
      BY <1>1, <2>1, LockStaysLost
<1>3. ASSUME NEW q \in Procs PROVE ProcBook(q)'
    BY <1>1, <1>2, StillBook DEF RInv
<1>4. \A h \in issued' : h.size = Len(h.root) /\ h.root \in Views
    BY ViewsAre DEF RInv
<1>5. ASSUME NEW q \in Procs, pub'[q] \in Heads PROVE pub'[q].root \in Views
    BY <1>5, ViewsAre DEF Still
<1>6. ASSUME NEW q \in Procs, Showing(q)' PROVE leaves'[q] \in Views \cup {leaves'[p]}
  <2>1. CASE q = p
      BY <2>1
  <2>2. CASE q # p
    <3>1. Showing(q) /\ leaves'[q] = leaves[q]
        BY <1>2, <1>6, <2>2 DEF Showing, Still
    <3> QED
        BY <3>1, ViewsAre
  <2> QED
      BY <2>1, <2>2
<1>7. Views' \subseteq Views \cup {leaves'[p]}
    BY <1>4, <1>5, <1>6 DEF Views
<1> QED
    BY <1>1, <1>3, <1>4, <1>7

\* A boot replays a journal in order, which is above every view.  A boot
\* whose lock file is gone shows nothing.
LEMMA BootLoadStep ==
    ASSUME RInv, [Next]_vars, NEW p \in Procs, BootLoad(p)
    PROVE  RInv'
<1>1. TypeOK /\ ProcBook(p) /\ journal \in Seq(Records) /\ LeavesOf(journal) \in Roots
    BY LeavesType DEF RInv, TypeOK
<1>2. /\ UNCHANGED <<journal, lockFile, inode, write, pub, issued, receipted>>
      /\ pub[p] = None /\ write[p] = NoWrite /\ InOrder(journal)
    BY <1>1 DEF BootLoad, ProcBook, Replays, diskVars, lockVars
<1>3. /\ pc'[p] = "up" /\ leaves'[p] = LeavesOf(journal)
      /\ heads'[p] = StoredHeads(journal) /\ stray'[p] = 0
    BY <1>1 DEF BootLoad, TypeOK
<1>4. ASSUME NEW h \in StoredHeads(journal) PROVE TrueHead(h, LeavesOf(journal))
  <2>1. PICK i \in 1 .. Len(journal) :
            h = journal[i] /\ h.op = "head" /\ TrueHead(h, Before(journal, i))
      BY <1>4 DEF StoredHeads, HeadLines
  <2>2. h \in Heads
      BY <1>1, <2>1, RecordShape
  <2> QED
      BY <1>1, <2>1, <2>2, BeforeBelow, TrueHeadIs
<1>5. ProcBook(p)'
  <2>1. NoWrite.stage = "idle" /\ None \notin Heads
      BY RecordTypes DEF NoWrite
  <2> QED
      BY <1>2, <1>3, <1>4, <2>1 DEF ProcBook, WriteFits
<1>6. \A q \in Procs \ {p} : Still(q)
    BY <1>1, <1>2 DEF BootLoad, TypeOK, Still
<1>7. Grows
    BY <1>1, <1>2, GrowsStep
<1>8. CASE LockKept(p)
  <2>1. /\ TypeOK' /\ OneHolder' /\ \A q \in Procs : ProcBook(q)'
        /\ \A h \in issued' : h.size = Len(h.root)
        /\ Views' \subseteq Views \cup {leaves'[p]}
      BY <1>2, <1>5, <1>6, <1>7, OthersKeep
  <2>2. Holder(p)'
      BY <1>2, <1>3, <1>8 DEF Holder, LockKept
  <2>3. Below(leaves'[p], LeavesOf(journal))
      BY <1>1, <1>3, BelowOrder DEF Roots
  <2>4. /\ \A v \in Views : Below(v, leaves'[p])
        /\ \A r \in receipted : HasLeaf(leaves'[p], r)
      BY <1>2, <1>3 DEF RInv, OneHistory, ReceiptsIn
  <2>5. OneHistory' /\ ReceiptsIn'
      BY <1>1, <1>2, <2>1, <2>2, <2>3, <2>4, TopHistory DEF RInv
  <2> QED
      BY <2>1, <2>5 DEF RInv
<1>9. CASE ~LockKept(p)
  <2>1. ~Showing(p)' /\ ~Holder(p)' /\ pub'[p] \notin Heads
    <3>1. ~underLock'[p]
        BY <1>1, <1>9 DEF BootLoad, TypeOK
    <3> QED
        BY <1>2, <1>9, <3>1, RecordTypes DEF Showing, Holder, LockKept, NoWrite
  <2> DEFINE P == {p}
  <2>2. P \in SUBSET Procs
      OBVIOUS
  <2> QED
      BY <1>2, <1>5, <1>6, <1>7, <2>1, <2>2, CalmStep
<1> QED
    BY <1>8, <1>9

\* A head stays true of a tree that grows.
LEMMA TrueHeadsGrow ==
    ASSUME NEW H, H \subseteq Heads, NEW s \in Roots, NEW t \in Roots, Below(s, t),
           \A h \in H : TrueHead(h, s)
    PROVE  \A h \in H : TrueHead(h, t)
    BY TrueHeadIs

\* After the second look at the lock the tree grows by the written line.
LEMMA PushLeaf ==
    ASSUME RInv, [Next]_vars, NEW p \in Procs, Push(p), LockKept(p), IsLeaf(write[p].rec)
    PROVE  RInv'
<1> DEFINE rec == write[p].rec
           new == Append(leaves[p], rec.task)
<1>1. TypeOK /\ ProcBook(p) /\ leaves[p] \in Roots /\ leaves[p] \in Seq(Tasks)
    BY DEF RInv, TypeOK, Roots
<1>2. pc[p] = "up" /\ rec \in Records /\ write[p].stage = "written"
    BY BusyIsUp DEF Push, Stages
<1>3. rec.task \in Tasks
    BY <1>2, RecordShape
<1>4. new \in Roots /\ Below(leaves[p], new) /\ new[Len(leaves[p]) + 1] = rec.task
      /\ Len(new) = Len(leaves[p]) + 1 /\ Len(leaves[p]) \in Nat
    BY <1>1, <1>3, BelowAppend DEF Roots
<1>5. /\ UNCHANGED <<journal, lockFile, inode, pc, heads, pub, underLock, stray, issued, receipted>>
      /\ leaves' = [leaves EXCEPT ![p] = new]
      /\ write' = [write EXCEPT ![p] = Writing("pushed", rec)]
    BY DEF Push, Stage, diskVars, lockVars, history
<1>6. rec.index = Len(leaves[p]) /\ (InOrder(journal) => Below(new, LeavesOf(journal)))
    BY <1>1, <1>2 DEF ProcBook, WriteFits
<1> HIDE DEF rec, new
<1>7. leaves'[p] = new /\ write'[p].stage = "pushed" /\ write'[p].rec = rec
  <2>1. "pushed" \in Stages
      BY DEF Stages
  <2>2. write'[p] = Writing("pushed", rec) /\ leaves'[p] = new
      BY <1>1, <1>5 DEF TypeOK
  <2> QED
      BY <1>2, <2>1, <2>2, WritingType
<1>8. \A q \in Procs \ {p} : Still(q)
    BY <1>1, <1>5 DEF TypeOK, Still
<1>9. Grows
    BY <1>1, <1>5, GrowsStep
<1>10. HasLeaf(new, rec)
    BY <1>4, <1>6 DEF HasLeaf
<1>11. WriteFits(p)'
    BY <1>7, <1>10 DEF WriteFits
<1>12. pub[p] \in Heads => TrueHead(pub[p], new)
    BY <1>1, <1>4, TrueHeadIs DEF ProcBook
<1>13. \A h \in heads[p] : TrueHead(h, new)
  <2>1. heads[p] \subseteq Heads /\ \A h \in heads[p] : TrueHead(h, leaves[p])
      BY <1>1, <1>2 DEF TypeOK, ProcBook
  <2> QED
      BY <1>1, <1>4, <2>1, TrueHeadsGrow
<1>14. ProcBook(p)'
    BY <1>1, <1>2, <1>5, <1>7, <1>11, <1>12, <1>13 DEF ProcBook, LockKept
<1>15. /\ TypeOK' /\ OneHolder' /\ \A q \in Procs : ProcBook(q)'
       /\ \A h \in issued' : h.size = Len(h.root)
       /\ Views' \subseteq Views \cup {leaves'[p]}
    BY <1>5, <1>8, <1>9, <1>14, OthersKeep
<1>16. Holder(p) /\ Holder(p)'
    BY <1>2, <1>5 DEF Holder, LockKept
<1>17. ASSUME NEW v \in Views PROVE Below(v, new)
  <2>1. Below(v, leaves[p]) /\ v \in Seq(Tasks)
      BY <1>1, <1>16, ViewsType DEF RInv, OneHistory, Roots
  <2> QED
      BY <1>1, <1>4, <2>1, BelowOrder DEF Roots
<1>18. ASSUME NEW r \in receipted PROVE HasLeaf(new, r)
  <2>1. HasLeaf(leaves[p], r) /\ r.index \in Nat
      BY <1>1, <1>16 DEF RInv, ReceiptsIn, ReceiptsKept, Holder, TypeOK
  <2> QED
      BY <1>1, <1>4, <2>1, HasLeafAbove
<1>19. OneHistory' /\ ReceiptsIn'
    BY <1>1, <1>5, <1>6, <1>7, <1>15, <1>16, <1>17, <1>18, TopHistory DEF RInv
<1> QED
    BY <1>15, <1>19 DEF RInv

\* _assertLockKeptAfterWrite and _push.
LEMMA PushStep ==
    ASSUME RInv, [Next]_vars, NEW p \in Procs, Push(p)
    PROVE  RInv'
<1>1. TypeOK /\ ProcBook(p)
    BY DEF RInv
<1>2. pc[p] = "up" /\ write[p].rec \in Records /\ write[p].stage = "written"
    BY BusyIsUp DEF Push, Stages
<1>3. UNCHANGED <<journal, lockFile, inode, pc, heads, pub, underLock, stray, issued, receipted>>
    BY DEF Push, diskVars, lockVars, history
<1>4. Grows
    BY <1>1, <1>3, GrowsStep
<1>5. CASE ~LockKept(p)
  <2>1. Abandon(p) /\ UNCHANGED leaves
      BY <1>5 DEF Push
  <2>2. ProcBook(p)' /\ (Showing(p)' => Showing(p)) /\ \A q \in Procs \ {p} : Still(q)
      BY <1>2, <1>3, <2>1, AbandonBook
  <2> QED
      BY <1>3, <1>4, <2>1, <2>2, CalmProc, ViewsAre
<1>6. CASE LockKept(p) /\ ~IsLeaf(write[p].rec)
  <2>1. Stage(p, "pushed") /\ UNCHANGED leaves
      BY <1>6 DEF Push
  <2>2. write'[p].stage = "pushed" /\ write'[p].rec = write[p].rec
    <3>1. "pushed" \in Stages
        BY DEF Stages
    <3>2. write'[p] = Writing("pushed", write[p].rec)
        BY <1>1, <2>1 DEF TypeOK, Stage
    <3> QED
        BY <1>2, <3>1, <3>2, WritingType
  <2>3. WriteFits(p)'
      BY <1>6, <2>2 DEF WriteFits
  <2>4. ProcBook(p)'
      BY <1>1, <1>2, <1>3, <2>1, <2>2, <2>3 DEF ProcBook, LockKept
  <2>5. Showing(p)
      BY <1>2, <1>6 DEF Showing
  <2>6. \A q \in Procs \ {p} : Still(q)
      BY <1>1, <1>3, <2>1 DEF Stage, TypeOK, Still
  <2> QED
      BY <1>3, <1>4, <2>1, <2>4, <2>5, <2>6, CalmProc, ViewsAre
<1>7. CASE LockKept(p) /\ IsLeaf(write[p].rec)
    BY <1>7, PushLeaf
<1> QED
    BY <1>5, <1>6, <1>7

-----------------------------------------------------------------------------
\* The theorems

\* Nothing is up, nothing is shown, nothing is receipted at first.
LEMMA InitRInv == Init => RInv
<1> SUFFICES ASSUME Init PROVE RInv
    OBVIOUS
<1>1. TypeOK
  <2>1. journal \in Seq(Records)
      BY ReceiptLogAssumption DEF Init
  <2>2. checkpoint \in [size : Nat, root : Roots] /\ <<>> \in Roots
      BY DEF Init, NoCheckpoint, Roots
  <2> QED
      BY <2>1, <2>2 DEF Init, TypeOK
<1>2. OneHolder
    BY DEF Init, OneHolder
<1>3. \A p \in Procs : ProcBook(p) /\ ~Showing(p) /\ pub[p] \notin Heads
    BY RecordTypes DEF Init, ProcBook, WriteFits, Showing, NoWrite
<1>4. Views = {}
    BY <1>3 DEF Views, Init
<1>5. OneHistory /\ ReceiptsIn
    BY <1>4 DEF OneHistory, ReceiptsIn, ReceiptsKept, Init
<1> QED
    BY <1>1, <1>2, <1>3, <1>5 DEF RInv, Init

\* Every step keeps the invariant.
LEMMA NextRInv == RInv /\ [Next]_vars => RInv'
<1> SUFFICES ASSUME RInv, [Next]_vars PROVE RInv'
    OBVIOUS
<1>1. CASE UNCHANGED vars
  <2>1. UNCHANGED <<journal, checkpoint, lockFile, inodes, inode, pc, leaves, heads, quarantined,
                    write, pub, issued, receipted, underLock, stray, crashes, faults>>
      BY <1>1 DEF vars, logVars, diskVars, lockVars, treeVars, history
  <2> QED
      BY <2>1 DEF RInv, TypeOK, OneHolder, ProcBook, WriteFits, ServedHeadsTrue, OneHistory,
                  ReceiptsIn, ReceiptsKept, Views, Showing, Holder, LockKept
<1>2. CASE Next
    BY <1>2, UnlinkStep, DownStep, BootLoadStep, AppendStartStep, AppendKnownStep,
       JournalWriteStep, PushStep, SnapshotCheckStep, SnapshotStep, JournalFailsStep,
       PublishCallStep, PublishStartStep, PublishSignStep, PublishFailsStep
       DEF Next, Step, Writes
<1> QED
    BY <1>1, <1>2

\* The invariant holds in every run.
THEOREM LogInvariant == Spec => []RInv
    BY InitRInv, NextRInv, PTL DEF Spec

\* The types hold in every run.
THEOREM LogTypeCorrect == Spec => []TypeOK
<1>1. RInv => TypeOK
    BY DEF RInv
<1> QED
    BY <1>1, LogInvariant, PTL

\* No split view: any two heads the log ever signed agree, whoever signed
\* them, whatever lock files were deleted and whatever writes failed.
THEOREM LogHeadsAgree == Spec => []HeadsAgree
<1>1. RInv => HeadsAgree
  <2> SUFFICES ASSUME RInv, NEW a \in issued, NEW b \in issued, a.size <= b.size
               PROVE  TrueHead(a, b.root)
      BY DEF HeadsAgree
  <2>1. /\ a \in Heads /\ b \in Heads /\ a.root \in Seq(Tasks) /\ b.root \in Seq(Tasks)
        /\ a.size = Len(a.root) /\ b.size = Len(b.root)
      BY DEF RInv, TypeOK, Heads, Roots
  <2>2. Below(a.root, b.root) \/ Below(b.root, a.root)
      BY ViewsAre DEF RInv, OneHistory
  <2>3. CASE Below(a.root, b.root)
      BY <2>1, <2>3, TrueHeadIs DEF Roots
  <2>4. CASE Below(b.root, a.root)
    <3>1. Len(a.root) = Len(b.root)
        BY <2>1, <2>4 DEF Below
    <3>2. Below(a.root, b.root)
        BY <2>1, <2>4, <3>1, BelowWhole, BelowOrder
    <3> QED
        BY <2>1, <3>2, TrueHeadIs DEF Roots
  <2> QED
      BY <2>2, <2>3, <2>4
<1> QED
    BY <1>1, LogInvariant, PTL

\* What a process serves is true of its own tree.
THEOREM LogServedHeadsTrue == Spec => []ServedHeadsTrue
<1>1. RInv => ServedHeadsTrue
    BY DEF RInv, ProcBook, ServedHeadsTrue
<1> QED
    BY <1>1, LogInvariant, PTL

\* Whoever holds the lock has every leaf for which a process that loaded under
\* its lock handed out an inclusion, then or later, at the index it named.
THEOREM LogReceiptsKept == Spec => []ReceiptsKept
<1>1. RInv => ReceiptsKept
    BY DEF RInv, ReceiptsIn
<1> QED
    BY <1>1, LogInvariant, PTL

\* At most one line of a writer lands behind its successor's back.
THEOREM LogOneStray == Spec => []AtMostOneStray
<1>1. RInv => AtMostOneStray
    BY DEF RInv, ProcBook, AtMostOneStray
<1> QED
    BY <1>1, LogInvariant, PTL

-----------------------------------------------------------------------------
\* With its files and its lock left alone: the log is append-only

\* The lock of a living process is never lost.  Between its writes the tree
\* is what the journal replays to; a leaf to be written is not in it, a head
\* to be written is true of it.
Tended(p) ==
    /\ IF pc[p] = "down" THEN inode[p] = 0 ELSE LockKept(p)
    /\ pc[p] = "up" =>
          LeavesOf(journal) = IF write[p].stage = "written" /\ IsLeaf(write[p].rec)
                              THEN Append(leaves[p], write[p].rec.task) ELSE leaves[p]
    /\ pc[p] = "up" => leaves[p] # <<>>
    /\ write[p].stage = "checked" =>
          IF IsLeaf(write[p].rec) THEN ~InTree(p, write[p].rec.task)
          ELSE write[p].rec \in Heads /\ TrueHead(write[p].rec, leaves[p])
    /\ pub[p] \in Heads => pub[p].size # 0

\* The head lines of a journal are true or raced.
HeadsSorted(j) ==
    \A i \in HeadLines(j) : TrueHead(j[i], Before(j, i)) \/ RacedHead(j[i], Before(j, i))

FilesFit ==
    /\ InOrder(journal) /\ HeadsSorted(journal) /\ LeavesOf(journal) # <<>>
    /\ checkpoint.size = Len(checkpoint.root) /\ Below(checkpoint.root, LeavesOf(journal))

TendedInv ==
    /\ RInv
    /\ faults = {}
    /\ \A p \in Procs : Tended(p)
    /\ FilesFit

\* Such files replay.
LEMMA FilesReplay ==
    ASSUME TypeOK, FilesFit
    PROVE  JournalReplays
<1>1. LeavesOf(journal) \in Seq(Tasks) /\ checkpoint.root \in Seq(Tasks)
    BY LeavesType DEF TypeOK, Roots
<1>2. checkpoint.size <= Len(LeavesOf(journal))
    BY DEF FilesFit, Below
<1>3. checkpoint.size = Len(LeavesOf(journal)) => checkpoint.root = LeavesOf(journal)
    BY <1>1, BelowWhole DEF FilesFit
<1> QED
    BY <1>2, <1>3 DEF JournalReplays, Replays, FilesFit, HeadsSorted

\* One process at a time.
LEMMA OneAlive ==
    ASSUME TendedInv, NEW p \in Procs, NEW q \in Procs \ {p}, pc[p] # "down" \/ BootLock(p)
    PROVE  pc[q] = "down" /\ inode[q] = 0
<1>1. Tended(p) /\ Tended(q) /\ OneHolder
    BY DEF TendedInv, RInv
<1>2. CASE pc[p] # "down"
    BY <1>1, <1>2 DEF Tended, OneHolder, LockKept
<1>3. CASE BootLock(p)
    BY <1>1, <1>3 DEF Tended, LockKept, BootLock
<1> QED
    BY <1>2, <1>3

\* A process that stays down.
LEMMA DownTended ==
    ASSUME RInv, NEW q \in Procs, pc[q] = "down", Still(q), inode'[q] = 0
    PROVE  Tended(q)'
<1>1. write[q] = NoWrite /\ pub[q] = None
    BY DEF RInv, ProcBook
<1>2. write'[q].stage = "idle" /\ pub'[q] \notin Heads
    BY <1>1, RecordTypes DEF Still, NoWrite
<1> QED
    BY <1>2 DEF Tended, Still

\* A step of one process.
LEMMA OneMoves ==
    ASSUME TendedInv, NEW p \in Procs, pc[p] # "down" \/ BootLock(p),
           \A q \in Procs \ {p} : Still(q) /\ inode'[q] = inode[q],
           Tended(p)'
    PROVE  \A q \in Procs : Tended(q)'
<1>1. ASSUME NEW q \in Procs \ {p} PROVE Tended(q)'
    BY OneAlive, DownTended DEF TendedInv
<1> QED
    BY <1>1

\* The files are not touched.
LEMMA FilesAlone ==
    ASSUME TendedInv, UNCHANGED <<journal, checkpoint>>
    PROVE  FilesFit'
    BY DEF TendedInv, FilesFit

\* A process starts, loads the journal, is refused, or dies.
LEMMA BootTended ==
    ASSUME TendedInv, NEW p \in Procs,
           BootLock(p) \/ BootLoad(p) \/ BootRefused(p) \/ Crash(p)
    PROVE  (\A q \in Procs : Tended(q)') /\ FilesFit' /\ UNCHANGED <<journal, issued>>
<1>1. TypeOK /\ ProcBook(p) /\ Tended(p)
    BY DEF TendedInv, RInv
<1>2. UNCHANGED <<journal, checkpoint, issued>>
    BY DEF BootLock, BootLoad, BootRefused, Crash, TendedInv, diskVars, history
<1>3. FilesFit'
    BY <1>2, FilesAlone
<1>4. \A q \in Procs \ {p} : Still(q) /\ inode'[q] = inode[q]
    BY <1>1 DEF BootLock, BootLoad, BootRefused, Crash, TypeOK, Still, treeVars, lockVars, history
<1>5. pc[p] # "down" \/ BootLock(p)
    BY DEF BootLoad, BootRefused, Crash
<1>6. CASE BootLock(p)
  <2>1. /\ pc'[p] = "locked" /\ inode'[p] = lockFile' /\ lockFile' # 0
        /\ UNCHANGED <<write, pub>> /\ write[p] = NoWrite /\ pub[p] = None
    <3>1. inodes \in Nat
        BY <1>1 DEF TypeOK
    <3> QED
        BY <1>1, <1>6, <3>1 DEF BootLock, TypeOK, ProcBook
  <2>2. Tended(p)'
      BY <2>1, RecordTypes DEF Tended, LockKept, NoWrite
  <2> QED
      BY <1>2, <1>3, <1>4, <1>6, <2>2, OneMoves
<1>7. CASE BootLoad(p)
  <2>1. /\ pc'[p] = "up" /\ leaves'[p] = LeavesOf(journal) /\ pc[p] = "locked"
        /\ UNCHANGED <<write, pub, inode, lockFile>> /\ write[p] = NoWrite /\ pub[p] = None
      BY <1>1, <1>7 DEF BootLoad, TypeOK, ProcBook, lockVars
  <2>2. LeavesOf(journal) # <<>>
      BY DEF TendedInv, FilesFit
  <2>3. Tended(p)'
      BY <1>1, <1>2, <2>1, <2>2, RecordTypes DEF Tended, LockKept, NoWrite
  <2> QED
      BY <1>2, <1>3, <1>4, <1>5, <2>3, OneMoves
<1>8. CASE BootRefused(p) \/ Crash(p)
  <2>1. pc'[p] = "down" /\ inode'[p] = 0 /\ write'[p] = NoWrite /\ pub'[p] = None
      BY <1>1, <1>8 DEF BootRefused, Crash, TypeOK, ProcBook
  <2>2. Tended(p)'
      BY <2>1, RecordTypes DEF Tended, NoWrite
  <2> QED
      BY <1>2, <1>3, <1>4, <1>5, <2>2, OneMoves
<1> QED
    BY <1>6, <1>7, <1>8

\* A write is started, or the lock is looked at again.
LEMMA AppendTended ==
    ASSUME TendedInv, NEW p \in Procs,
           \/ \E t \in Tasks \cup {None} : AppendStart(p, t) \/ AppendKnown(p, t)
           \/ SnapshotCheck(p)
    PROVE  (\A q \in Procs : Tended(q)') /\ FilesFit' /\ UNCHANGED <<journal, issued>>
<1>1. TypeOK /\ ProcBook(p) /\ Tended(p) /\ RInv
    BY DEF TendedInv, RInv
<1>2. UNCHANGED <<journal, checkpoint, issued, lockFile, inode, pc, leaves, heads, pub, underLock, stray>>
    BY DEF AppendStart, AppendKnown, SnapshotCheck, diskVars, lockVars, treeVars, history
<1>3. FilesFit'
    BY <1>2, FilesAlone
<1>4. \A q \in Procs \ {p} : Still(q) /\ inode'[q] = inode[q]
    BY <1>1, <1>2 DEF AppendStart, AppendKnown, SnapshotCheck, Stage, Abandon, TypeOK, Still
<1>5. pc[p] = "up"
    BY <1>1, BusyIsUp DEF AppendStart, AppendKnown, SnapshotCheck, Running, Stages
<1>6. ASSUME NEW t \in Tasks \cup {None}, AppendStart(p, t) PROVE Tended(p)'
  <2>1. leaves[p] \in Seq(Tasks) /\ Len(leaves[p]) \in Nat /\ t \in Tasks
      BY <1>1, <1>6 DEF TypeOK, Roots, AppendStart
  <2>2. Leaf(Len(leaves[p]), t) \in Records /\ "checked" \in Stages
      BY <2>1, RecordTypes DEF Stages
  <2>3. write'[p] = Writing("checked", Leaf(Len(leaves[p]), t)) /\ ~InTree(p, t) /\ write[p] = NoWrite
      BY <1>1, <1>6 DEF AppendStart, Running, TypeOK
  <2>4. write'[p].stage = "checked" /\ IsLeaf(write'[p].rec) /\ write'[p].rec.task = t
      BY <2>1, <2>2, <2>3, WritingType, RecordTypes
  <2>5. ~ \E i \in 1 .. Len(leaves[p]) : leaves[p][i] = write'[p].rec.task
      BY <2>3, <2>4 DEF InTree
  <2>6. LeavesOf(journal) = leaves[p] /\ leaves[p] # <<>>
      BY <1>1, <1>5, <2>3 DEF Tended, NoWrite
  <2> QED
      BY <1>1, <1>2, <1>5, <2>4, <2>5, <2>6 DEF Tended, LockKept, InTree
<1>7. ASSUME NEW t \in Tasks \cup {None}, AppendKnown(p, t) PROVE Tended(p)'
    BY <1>1, <1>2, <1>7 DEF AppendKnown, Tended, LockKept, InTree
<1>8. CASE SnapshotCheck(p)
  <2>1. LockKept(p) /\ write[p].stage = "pushed" /\ write[p].rec \in Records
      BY <1>1, <1>5, <1>8, BusyIsUp DEF Tended, SnapshotCheck, Stages
  <2>2. "snapshot" \in Stages /\ write'[p] = Writing("snapshot", write[p].rec)
      BY <1>1, <1>8, <2>1 DEF SnapshotCheck, Stage, TypeOK, Stages
  <2>3. write'[p].stage = "snapshot"
      BY <2>1, <2>2, WritingType
  <2>4. Tended(p)'
      BY <1>1, <1>2, <2>1, <2>3 DEF Tended, LockKept
  <2> QED
      BY <1>2, <1>3, <1>4, <1>5, <2>4, OneMoves
<1> QED
    BY <1>2, <1>3, <1>4, <1>5, <1>6, <1>7, <1>8, OneMoves

\* The tree takes the line the journal has.
LEMMA PushTended ==
    ASSUME TendedInv, NEW p \in Procs, Push(p)
    PROVE  (\A q \in Procs : Tended(q)') /\ FilesFit' /\ UNCHANGED <<journal, issued>>
<1>1. TypeOK /\ ProcBook(p) /\ Tended(p) /\ RInv
    BY DEF TendedInv, RInv
<1>2. UNCHANGED <<journal, checkpoint, issued, lockFile, inode, pc, heads, pub, underLock, stray>>
    BY DEF Push, diskVars, lockVars, history
<1>3. FilesFit'
    BY <1>2, FilesAlone
<1>4. pc[p] = "up" /\ LockKept(p) /\ write[p].stage = "written" /\ write[p].rec \in Records
    BY <1>1, BusyIsUp DEF Push, Stages, Tended
<1>5. \A q \in Procs \ {p} : Still(q) /\ inode'[q] = inode[q]
    BY <1>1, <1>2, <1>4 DEF Push, Stage, TypeOK, Still
<1>6. write'[p].stage = "pushed"
  <2>1. "pushed" \in Stages /\ write'[p] = Writing("pushed", write[p].rec)
      BY <1>1, <1>4 DEF Push, Stage, TypeOK, Stages
  <2> QED
      BY <1>4, <2>1, WritingType
<1>7. leaves'[p] = LeavesOf(journal)
    BY <1>1, <1>4 DEF Push, Tended, TypeOK
<1>8. leaves'[p] # <<>>
    BY <1>7 DEF TendedInv, FilesFit
<1>9. Tended(p)'
    BY <1>1, <1>2, <1>4, <1>6, <1>7, <1>8 DEF Tended, LockKept
<1> QED
    BY <1>2, <1>3, <1>4, <1>5, <1>9, OneMoves

\* The checkpoint is the tree, and the tree is the journal's.
LEMMA SnapshotTended ==
    ASSUME TendedInv, NEW p \in Procs, Snapshot(p)
    PROVE  (\A q \in Procs : Tended(q)') /\ FilesFit' /\ UNCHANGED <<journal, issued>>
<1>1. TypeOK /\ ProcBook(p) /\ Tended(p) /\ RInv
    BY DEF TendedInv, RInv
<1>2. /\ UNCHANGED <<journal, issued, lockFile, inode, pc, leaves, heads, pub, underLock, stray>>
      /\ checkpoint' = [size |-> Len(leaves[p]), root |-> leaves[p]]
      /\ write[p].stage = "snapshot" /\ Abandon(p)
    BY DEF Snapshot, lockVars, treeVars
<1>3. pc[p] = "up" /\ LeavesOf(journal) = leaves[p]
    BY <1>1, <1>2, BusyIsUp DEF Stages, Tended
<1>4. FilesFit'
  <2>1. leaves[p] \in Seq(Tasks)
      BY <1>1 DEF TypeOK, Roots
  <2>2. Below(leaves[p], leaves[p])
      BY <2>1, BelowOrder
  <2> QED
      BY <1>2, <1>3, <2>2 DEF TendedInv, FilesFit
<1>5. \A q \in Procs \ {p} : Still(q) /\ inode'[q] = inode[q]
    BY <1>1, <1>2 DEF Abandon, TypeOK, Still
<1>6. write'[p].stage = "idle"
    BY <1>1, <1>2 DEF Abandon, TypeOK, NoWrite
<1>7. Tended(p)'
    BY <1>1, <1>2, <1>3, <1>6 DEF Tended, LockKept
<1> QED
    BY <1>2, <1>3, <1>4, <1>5, <1>7, OneMoves

\* The steps of a publish; a signed head is a nonempty beginning of the log.
LEMMA PublishTended ==
    ASSUME TendedInv, NEW p \in Procs,
           PublishCall(p) \/ PublishStart(p) \/ PublishSign(p) \/ PublishFails(p)
    PROVE  /\ \A q \in Procs : Tended(q)'
           /\ FilesFit' /\ UNCHANGED journal
           /\ \/ UNCHANGED issued
              \/ \E h \in Heads : /\ issued' = issued \cup {h}
                                  /\ TrueHead(h, LeavesOf(journal)) /\ h.size # 0
<1>1. TypeOK /\ ProcBook(p) /\ Tended(p) /\ RInv
    BY DEF TendedInv, RInv
<1>2. /\ UNCHANGED <<journal, checkpoint, lockFile, inode, pc, leaves, underLock, stray>>
      /\ pc[p] = "up" /\ write[p] = NoWrite
    BY DEF PublishCall, PublishStart, PublishSign, PublishFails, Running,
           diskVars, lockVars, treeVars, history
<1>3. FilesFit'
    BY <1>2, FilesAlone
<1>4. LeavesOf(journal) = leaves[p] /\ leaves[p] # <<>> /\ LockKept(p)
    BY <1>1, <1>2 DEF Tended, NoWrite
<1>5. \A q \in Procs \ {p} : Still(q) /\ inode'[q] = inode[q]
    BY <1>1, <1>2 DEF PublishCall, PublishStart, PublishSign, PublishFails, TypeOK, Still,
                      treeVars, history
<1>6. CASE PublishCall(p) \/ PublishFails(p)
  <2>1. pub'[p] \notin Heads /\ UNCHANGED <<write, issued>>
      BY <1>1, <1>6, RecordTypes DEF PublishCall, PublishFails, TypeOK, history
  <2>2. Tended(p)'
      BY <1>1, <1>2, <1>4, <2>1 DEF Tended, LockKept, NoWrite
  <2> QED
      BY <1>2, <1>3, <1>5, <2>1, <2>2, OneMoves
<1>7. CASE PublishStart(p)
  <2>1. pub'[p] = TreeHead(Len(leaves[p]), leaves[p]) /\ UNCHANGED <<write, issued>>
      BY <1>1, <1>7 DEF PublishStart, TypeOK, history
  <2>2. leaves[p] \in Seq(Tasks) /\ Len(leaves[p]) # 0
      BY <1>1, <1>4 DEF TypeOK, Roots
  <2>3. pub'[p].size # 0
      BY <2>1, <2>2 DEF TreeHead
  <2>4. Tended(p)'
      BY <1>1, <1>2, <1>4, <2>1, <2>3 DEF Tended, LockKept, NoWrite
  <2> QED
      BY <1>2, <1>3, <1>5, <2>1, <2>4, OneMoves
<1>8. CASE PublishSign(p)
  <2>1. /\ pub[p] \in Heads /\ issued' = issued \cup {pub[p]}
        /\ write'[p] = Writing("checked", pub[p]) /\ pub'[p] = None
      BY <1>1, <1>4, <1>8 DEF PublishSign, TypeOK
  <2>2. "checked" \in Stages /\ pub[p] \in Records /\ ~IsLeaf(pub[p]) /\ None \notin Heads
      BY <2>1, RecordTypes, RecordShape DEF Stages
  <2>3. write'[p].stage = "checked" /\ write'[p].rec = pub[p]
      BY <2>1, <2>2, WritingType
  <2>4. TrueHead(pub[p], leaves[p]) /\ pub[p].size # 0
      BY <1>1, <2>1 DEF ProcBook, Tended
  <2>5. Tended(p)'
      BY <1>1, <1>2, <1>4, <2>1, <2>2, <2>3, <2>4 DEF Tended, LockKept
  <2> QED
      BY <1>2, <1>3, <1>4, <1>5, <2>1, <2>4, <2>5, OneMoves
<1> QED
    BY <1>6, <1>7, <1>8

\* One more head line that is true of the leaves, or one more leaf line.
LEMMA OneMoreSorted ==
    ASSUME NEW j \in Seq(Records), NEW r \in Records, HeadsSorted(j),
           r.op = "head" => TrueHead(r, LeavesOf(j))
    PROVE  HeadsSorted(Append(j, r))
<1> DEFINE jr == Append(j, r)
<1>1. /\ jr \in Seq(Records) /\ Len(j) \in Nat /\ Len(jr) = Len(j) + 1
      /\ jr[Len(j) + 1] = r /\ \A i \in 1 .. Len(j) : jr[i] = j[i]
    OBVIOUS
<1>2. ASSUME NEW i \in 1 .. Len(j) + 1 PROVE SubSeq(jr, 1, i - 1) = SubSeq(j, 1, i - 1)
    BY <1>1
<1>3. SubSeq(j, 1, (Len(j) + 1) - 1) = j
    BY <1>1
<1> HIDE DEF jr
<1>4. \A i \in 1 .. Len(j) + 1 : Before(jr, i) = Before(j, i)
    BY <1>2 DEF Before, Prefix
<1>5. Before(j, Len(j) + 1) = LeavesOf(j)
    BY <1>3 DEF Before, Prefix
<1>6. ASSUME NEW i \in HeadLines(jr)
      PROVE  TrueHead(jr[i], Before(jr, i)) \/ RacedHead(jr[i], Before(jr, i))
  <2>1. i \in 1 .. Len(j) + 1 /\ jr[i].op = "head"
      BY <1>1, <1>6 DEF HeadLines
  <2>2. CASE i = Len(j) + 1
      BY <1>1, <1>4, <1>5, <2>1, <2>2
  <2>3. CASE i # Len(j) + 1
    <3>1. i \in 1 .. Len(j)
        BY <1>1, <2>1, <2>3
    <3>2. i \in HeadLines(j)
        BY <1>1, <2>1, <3>1 DEF HeadLines
    <3> QED
        BY <1>1, <1>4, <2>1, <3>1, <3>2 DEF HeadsSorted
  <2> QED
      BY <2>2, <2>3
<1> QED
    BY <1>6 DEF HeadsSorted, jr

\* A line is written: the log is extended by a new entry, or not at all.
LEMMA JournalTended ==
    ASSUME TendedInv, NEW p \in Procs, JournalWrite(p)
    PROVE  /\ \A q \in Procs : Tended(q)'
           /\ FilesFit' /\ UNCHANGED issued
           /\ \/ LeavesOf(journal') = LeavesOf(journal)
              \/ \E t \in Tasks :
                    /\ ~ \E i \in 1 .. Len(LeavesOf(journal)) : LeavesOf(journal)[i] = t
                    /\ LeavesOf(journal') = Append(LeavesOf(journal), t)
<1> DEFINE rec == write[p].rec
<1>1. /\ TypeOK /\ ProcBook(p) /\ Tended(p) /\ RInv /\ FilesFit
      /\ journal \in Seq(Records) /\ LeavesOf(journal) \in Seq(Tasks)
    BY LeavesType DEF TendedInv, RInv, TypeOK, Roots
<1>2. pc[p] = "up" /\ rec \in Records /\ write[p].stage = "checked"
    BY <1>1, BusyIsUp DEF JournalWrite, Stages
<1>3. /\ UNCHANGED <<checkpoint, lockFile, inode, pc, leaves, heads, pub, issued, underLock>>
      /\ journal' = Append(journal, rec)
      /\ write' = [write EXCEPT ![p] = Writing("written", rec)]
      /\ stray' = [stray EXCEPT ![p] = @ + IF LockKept(p) THEN 0 ELSE 1]
    BY DEF JournalWrite, Stage, lockVars, treeVars
<1>4. /\ LeavesOf(journal) = leaves[p] /\ leaves[p] # <<>>
      /\ IF IsLeaf(rec) THEN ~InTree(p, rec.task) ELSE rec \in Heads /\ TrueHead(rec, leaves[p])
    BY <1>1, <1>2 DEF Tended
<1>5. IsLeaf(rec) => rec.index = Len(leaves[p])
    BY <1>1, <1>2 DEF ProcBook, WriteFits
<1> HIDE DEF rec
<1>6. write'[p].stage = "written" /\ write'[p].rec = rec
  <2>1. "written" \in Stages /\ write'[p] = Writing("written", rec)
      BY <1>1, <1>3 DEF TypeOK, Stages
  <2> QED
      BY <1>2, <2>1, WritingType
<1>7. rec # Torn
    BY <1>2, <1>4, RecordShape
<1>8. /\ LeavesOf(journal') = IF IsLeaf(rec) THEN Append(LeavesOf(journal), rec.task)
                              ELSE LeavesOf(journal)
      /\ Below(LeavesOf(journal), LeavesOf(journal'))
      /\ InOrder(journal')
      /\ journal' \in Seq(Records)
    BY <1>1, <1>2, <1>3, <1>4, <1>5, <1>7, OneMoreLine DEF FilesFit
<1>9. HeadsSorted(journal')
  <2>1. rec.op = "head" => TrueHead(rec, LeavesOf(journal))
      BY <1>4 DEF IsLeaf
  <2> QED
      BY <1>1, <1>2, <1>3, <2>1, OneMoreSorted DEF FilesFit
<1>10. LeavesOf(journal') \in Seq(Tasks)
    BY <1>8, LeavesType DEF Roots
<1>11. FilesFit'
  <2>1. checkpoint.root \in Seq(Tasks)
      BY <1>1 DEF TypeOK, Roots
  <2>2. Below(checkpoint.root, LeavesOf(journal'))
      BY <1>1, <1>8, <1>10, <2>1, BelowOrder DEF FilesFit
  <2>3. LeavesOf(journal') # <<>>
    <3>1. Len(LeavesOf(journal)) \in Nat /\ Len(LeavesOf(journal)) # 0
        BY <1>1, <1>4
    <3>2. Len(LeavesOf(journal)) <= Len(LeavesOf(journal')) /\ Len(LeavesOf(journal')) \in Nat
        BY <1>8, <1>10 DEF Below
    <3>3. Len(LeavesOf(journal')) # 0
        BY <3>1, <3>2
    <3> QED
        BY <3>3
  <2> QED
      BY <1>1, <1>3, <1>8, <1>9, <2>2, <2>3 DEF FilesFit
<1>12. Tended(p)'
    BY <1>1, <1>2, <1>3, <1>4, <1>6, <1>8 DEF Tended, LockKept
<1>13. \A q \in Procs \ {p} : Still(q) /\ inode'[q] = inode[q]
    BY <1>1, <1>3 DEF TypeOK, Still
<1>14. \A q \in Procs : Tended(q)'
    BY <1>2, <1>12, <1>13, OneMoves
<1>15. CASE IsLeaf(rec)
  <2>1. rec.task \in Tasks
      BY <1>2, <1>15, RecordShape
  <2>2. ~ \E i \in 1 .. Len(LeavesOf(journal)) : LeavesOf(journal)[i] = rec.task
      BY <1>4, <1>15 DEF InTree
  <2> QED
      BY <1>3, <1>8, <1>11, <1>14, <1>15, <2>1, <2>2
<1>16. CASE ~IsLeaf(rec)
    BY <1>3, <1>8, <1>11, <1>14, <1>16
<1> QED
    BY <1>15, <1>16

\* The signed heads as the abstract log sees them.
Signed == {[size |-> h.size, root |-> h.root] : h \in issued}

\* What a step does to the log and to its signed heads.
LogStep ==
    \/ UNCHANGED <<LeavesOf(journal), Signed>>
    \/ \E t \in Tasks :
          /\ ~ \E i \in 1 .. Len(LeavesOf(journal)) : LeavesOf(journal)[i] = t
          /\ LeavesOf(journal)' = Append(LeavesOf(journal), t)
          /\ UNCHANGED Signed
    \/ \E n \in 1 .. Len(LeavesOf(journal)) :
          /\ Signed' = Signed \cup {[size |-> n, root |-> SubSeq(LeavesOf(journal), 1, n)]}
          /\ UNCHANGED LeavesOf(journal)

\* At first the log is a journal that a first boot accepts.
LEMMA InitTended ==
    ASSUME Init, faults = {}
    PROVE  TendedInv
<1>1. RInv /\ TypeOK
    BY InitRInv DEF RInv
<1>2. \A p \in Procs : Tended(p)
    BY RecordTypes DEF Init, Tended, NoWrite
<1>3. journal \in InitialJournals /\ checkpoint = NoCheckpoint
    BY DEF Init
<1>4. /\ LeavesOf(journal) # <<>> /\ InOrder(journal) /\ HeadsSorted(journal)
    BY <1>3, FirstBootAssumption DEF Replays, HeadsSorted
<1>5. checkpoint.size = Len(checkpoint.root) /\ Below(checkpoint.root, LeavesOf(journal))
  <2>1. LeavesOf(journal) \in Seq(Tasks)
      BY <1>1, LeavesType DEF TypeOK, Roots
  <2>2. checkpoint.size = 0 /\ checkpoint.root = <<>> /\ Len(checkpoint.root) = 0
      BY <1>3 DEF NoCheckpoint
  <2> QED
      BY <2>1, <2>2 DEF Below
<1> QED
    BY <1>1, <1>2, <1>4, <1>5 DEF TendedInv, FilesFit

\* Every step keeps the files in order, and is a step of the abstract log.
LEMMA NextTended ==
    ASSUME TendedInv, [Next]_vars
    PROVE  TendedInv' /\ LogStep
<1>0. RInv'
    BY NextRInv DEF TendedInv
<1>1. CASE UNCHANGED vars
  <2>1. UNCHANGED <<journal, checkpoint, lockFile, inode, pc, leaves, write, pub, issued, faults>>
      BY <1>1 DEF vars, logVars, diskVars, lockVars, treeVars, history
  <2>2. \A p \in Procs : Tended(p)'
      BY <2>1 DEF TendedInv, Tended, LockKept, InTree
  <2> QED
      BY <1>0, <2>1, <2>2, FilesAlone DEF TendedInv, LogStep, Signed
<1>2. CASE Next
  <2>1. faults' = {} /\ ~UnlinkLock /\ \A p \in Procs : ~JournalFails(p) /\ ~SnapshotFails(p)
      BY <1>2 DEF Next, TendedInv, UnlinkLock, JournalFails, SnapshotFails
  <2>2. ASSUME NEW p \in Procs,
               \/ BootLock(p) \/ BootLoad(p) \/ BootRefused(p) \/ Crash(p)
               \/ \E t \in Tasks \cup {None} : AppendStart(p, t) \/ AppendKnown(p, t)
               \/ SnapshotCheck(p) \/ Push(p) \/ Snapshot(p)
        PROVE  TendedInv' /\ LogStep
    <3>1. (\A q \in Procs : Tended(q)') /\ FilesFit' /\ UNCHANGED <<journal, issued>>
        BY <2>2, BootTended, AppendTended, PushTended, SnapshotTended
    <3> QED
        BY <1>0, <2>1, <3>1 DEF TendedInv, LogStep, Signed
  <2>3. ASSUME NEW p \in Procs, JournalWrite(p) PROVE TendedInv' /\ LogStep
      BY <1>0, <2>1, <2>3, JournalTended DEF TendedInv, LogStep, Signed
  <2>4. ASSUME NEW p \in Procs,
               PublishCall(p) \/ PublishStart(p) \/ PublishSign(p) \/ PublishFails(p)
        PROVE  TendedInv' /\ LogStep
    <3>1. /\ \A q \in Procs : Tended(q)'
          /\ FilesFit' /\ UNCHANGED journal
        BY <2>4, PublishTended
    <3>2. TendedInv'
        BY <1>0, <2>1, <3>1 DEF TendedInv
    <3>3. CASE UNCHANGED issued
        BY <3>1, <3>2, <3>3 DEF LogStep, Signed
    <3>4. ASSUME NEW h \in Heads, issued' = issued \cup {h},
                 TrueHead(h, LeavesOf(journal)), h.size # 0
          PROVE  LogStep
      <4>1. h.size \in 1 .. Len(LeavesOf(journal)) /\ h.root = SubSeq(LeavesOf(journal), 1, h.size)
        <5>1. LeavesOf(journal) \in Seq(Tasks) /\ h.size \in Nat
            BY LeavesType DEF TendedInv, RInv, TypeOK, Roots, Heads
        <5> QED
            BY <3>4, <5>1 DEF TrueHead, Prefix
      <4>2. Signed' = Signed \cup {[size |-> h.size, root |-> SubSeq(LeavesOf(journal), 1, h.size)]}
          BY <3>4, <4>1 DEF Signed
      <4> QED
          BY <3>1, <4>1, <4>2 DEF LogStep
    <3> QED
        BY <2>4, <3>2, <3>3, <3>4, PublishTended
  <2> QED
      BY <1>2, <2>1, <2>2, <2>3, <2>4 DEF Next, Step, Writes
<1> QED
    BY <1>1, <1>2

\* With its files and its lock left alone, the log replays whatever instant
\* its processes die at.
THEOREM LogReplays == Spec /\ faults = {} => []JournalReplays
<1>1. Init /\ faults = {} => TendedInv
    BY InitTended
<1>2. TendedInv /\ [Next]_vars => TendedInv'
    BY NextTended
<1>3. TendedInv => JournalReplays
    BY FilesReplay DEF TendedInv, RInv
<1> QED
    BY <1>1, <1>2, <1>3, PTL DEF Spec

\* Under the same condition the log is one append-only sequence of which
\* beginnings are signed: the detailed specification implements
\* AppendOnlyLog.
THEOREM LogIsAppendOnly == Spec /\ faults = {} => IsAppendOnlyLog
<1>1. Init /\ faults = {} => TendedInv
    BY InitTended
<1>2. TendedInv /\ [Next]_vars => TendedInv'
    BY NextTended
<1>3. Init => Abstract!LogInit
    BY DEF Init, Abstract!LogInit
<1>4. TendedInv /\ [Next]_vars => [Abstract!LogNext]_(Abstract!logVars)
  <2> SUFFICES ASSUME TendedInv, [Next]_vars PROVE [Abstract!LogNext]_(Abstract!logVars)
      OBVIOUS
  <2>1. LogStep
      BY NextTended
  <2> QED
      BY <2>1 DEF LogStep, Signed, Abstract!LogNext, Abstract!Extend, Abstract!Sign,
                  Abstract!Contains, Abstract!logVars
<1> QED
    BY <1>1, <1>2, <1>3, <1>4, PTL DEF Spec, IsAppendOnlyLog, Abstract!LogSpec
=============================================================================

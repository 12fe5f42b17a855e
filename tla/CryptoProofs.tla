---------------------------- MODULE CryptoProofs ----------------------------
(***************************************************************************)
(* The cache of CryptoCache for every capacity, every number of replicas   *)
(* and every interleaving of the goroutines that share it.                 *)
(***************************************************************************)
EXTENDS CryptoCache, TLAPS, FiniteSetTheorems

\* The list order has every key of the map keys once, and has room.
Holds(order, keys) ==
    /\ order \in Seq(keys)
    /\ \A key \in keys : \E i \in 1..Len(order) : order[i] = key
    /\ \A i, j \in 1..Len(order) : order[i] = order[j] => i = j
    /\ Len(order) <= Capacity

CacheInv == Holds(accessOrder, entries)

\* The map and the list have the same size.
LEMMA SameSize ==
    ASSUME NEW order, NEW keys, Holds(order, keys)
    PROVE  IsFiniteSet(keys) /\ Cardinality(keys) = Len(order)
<1> DEFINE n == Len(order)
<1>1. n \in Nat /\ order \in [1..n -> keys]
  BY DEF Holds
<1>2. order \in Bijection(1..n, keys)
  BY <1>1, Zenon DEF Holds, Bijection, Injection, Surjection, IsInjective
<1>3. ExistsBijection(1..n, keys)
  BY <1>2, Zenon DEF ExistsBijection
<1>4. IsFiniteSet(1..n) /\ Cardinality(1..n) = n
  BY <1>1, FS_Interval
<1> QED
  BY <1>3, <1>4, FS_Bijection, Zenon

\* A key that is in the map moves to the front of the list.
LEMMA Moved ==
    ASSUME CacheInv, NEW key \in entries
    PROVE  Holds(MoveToFront(key), entries)
<1> DEFINE s == accessOrder
           n == Len(s)
           at == CHOOSE i \in DOMAIN s : s[i] = key
           t == <<key>> \o SubSeq(s, 1, at - 1) \o SubSeq(s, at + 1, n)
<1>1. s \in Seq(entries) /\ n \in Nat /\ n <= Capacity
  BY DEF CacheInv, Holds
<1>a. \A k \in entries : \E i \in 1..n : s[i] = k
  BY Zenon DEF CacheInv, Holds
<1>b. \A i, j \in 1..n : s[i] = s[j] => i = j
  BY Zenon DEF CacheInv, Holds
<1>2. at \in 1..n /\ s[at] = key
  <2>1. \E i \in DOMAIN s : s[i] = key
    <3>1. \E i \in 1..n : s[i] = key
      BY <1>a, Zenon
    <3>2. DOMAIN s = 1..n
      BY <1>1
    <3> QED
      BY <3>1, <3>2, Zenon
  <2>2. at \in DOMAIN s /\ s[at] = key
    BY <2>1, Zenon
  <2> QED
    BY <1>1, <2>2
<1>3. MoveToFront(key) = t
  BY Zenon DEF MoveToFront
<1> HIDE DEF at, s
<1>4. /\ SubSeq(s, 1, at - 1) \in Seq(entries) /\ Len(SubSeq(s, 1, at - 1)) = at - 1
      /\ \A i \in 1..(at - 1) : SubSeq(s, 1, at - 1)[i] = s[i]
  BY <1>1, <1>2
<1>5. /\ SubSeq(s, at + 1, n) \in Seq(entries) /\ Len(SubSeq(s, at + 1, n)) = n - at
      /\ \A i \in 1..(n - at) : SubSeq(s, at + 1, n)[i] = s[at + i]
  BY <1>1, <1>2
<1> DEFINE u == SubSeq(s, 1, at - 1)
           w == SubSeq(s, at + 1, n)
<1> HIDE DEF u, w
<1> DEFINE v == <<key>> \o u
<1>6. t = v \o w
  BY Zenon DEF u, w
<1>7. /\ v \in Seq(entries) /\ Len(v) = at
      /\ \A i \in 1..at : v[i] = IF i = 1 THEN key ELSE s[i - 1]
  BY <1>2, <1>4 DEF u
<1> HIDE DEF v, t
<1>8. /\ w \in Seq(entries) /\ Len(w) = n - at
      /\ \A i \in 1..(n - at) : w[i] = s[at + i]
  BY <1>5, Zenon DEF w
<1>9. /\ t \in Seq(entries) /\ Len(t) = n
      /\ \A i \in 1..n : t[i] = IF i = 1 THEN key ELSE IF i <= at THEN s[i - 1] ELSE s[i]
  <2>1. /\ t \in Seq(entries) /\ Len(t) = at + (n - at)
        /\ \A i \in 1..(at + (n - at)) : t[i] = IF i <= at THEN v[i] ELSE w[i - at]
    <3>1. v \in Seq(entries) /\ w \in Seq(entries) /\ Len(v) = at /\ Len(w) = n - at
      BY <1>7, <1>8, Zenon
    <3>2. /\ t \in Seq(entries) /\ Len(t) = Len(v) + Len(w)
          /\ \A i \in 1..(Len(v) + Len(w)) : t[i] = IF i <= Len(v) THEN v[i] ELSE w[i - Len(v)]
      BY <1>6, <3>1
    <3> QED
      BY <3>1, <3>2, Zenon
  <2>2. at + (n - at) = n
    BY <1>1, <1>2
  <2>3. \A i \in 1..n : i > at => i - at \in 1..(n - at) /\ at + (i - at) = i /\ i # 1
    BY <1>1, <1>2
  <2> QED
    BY <1>1, <1>2, <1>7, <1>8, <2>1, <2>2, <2>3
<1>10. ASSUME NEW k \in entries PROVE \E i \in 1..n : t[i] = k
  <2>1. PICK j \in 1..n : s[j] = k
    BY <1>a, Zenon
  <2>2. CASE j = at
    BY <1>1, <1>2, <1>9, <2>1, <2>2
  <2>3. CASE j < at
    <3>1. j + 1 \in 1..n /\ t[j + 1] = s[j]
      BY <1>1, <1>2, <1>9, <2>3
    <3> QED
      BY <2>1, <3>1, Zenon
  <2>4. CASE j > at
    BY <1>1, <1>2, <1>9, <2>1, <2>4
  <2> QED
    BY <1>1, <1>2, <2>2, <2>3, <2>4
<1>11. ASSUME NEW i \in 1..n, NEW j \in 1..n, t[i] = t[j] PROVE i = j
  <2> DEFINE o(l) == IF l = 1 THEN at ELSE IF l <= at THEN l - 1 ELSE l
  <2>1. o(i) \in 1..n /\ o(j) \in 1..n /\ t[i] = s[o(i)] /\ t[j] = s[o(j)]
    BY <1>1, <1>2, <1>9
  <2>2. o(i) = o(j)
    BY <1>b, <1>11, <2>1, Zenon
  <2> QED
    BY <1>1, <1>2, <2>2
<1> QED
  BY <1>1, <1>3, <1>9, <1>10, <1>11, Zenon DEF Holds

\* A new key is put at the front; if there is no room, the last key goes.
LEMMA Pushed ==
    ASSUME CacheInv, NEW key, key \notin entries, PushFront(key)
    PROVE  CacheInv'
<1> DEFINE s == accessOrder
           n == Len(s)
           m == n - (IF IsFull THEN 1 ELSE 0)
           t == <<key>> \o SubSeq(s, 1, m)
           gone == IF IsFull THEN {s[n]} ELSE {}
<1>1. s \in Seq(entries) /\ n \in Nat /\ n <= Capacity /\ Capacity \in Nat \ {0}
  BY CacheAssumption DEF CacheInv, Holds
<1>a. \A k \in entries : \E i \in 1..n : s[i] = k
  BY Zenon DEF CacheInv, Holds
<1>b. \A i, j \in 1..n : s[i] = s[j] => i = j
  BY Zenon DEF CacheInv, Holds
<1>2. accessOrder' = t /\ entries' = {key} \cup (entries \ gone)
  BY Zenon DEF PushFront
<1>3. IsFull <=> n = Capacity
  <2>1. Cardinality(entries) = n
    BY SameSize, Zenon DEF CacheInv
  <2> QED
    BY <1>1, <2>1 DEF IsFull
<1>4. m \in Nat /\ m <= n /\ m + 1 <= Capacity
  BY <1>1, <1>3
<1>5. \A i \in 1..n : i \in 1..m <=> s[i] \notin gone
  BY <1>1, <1>b, <1>3
<1> HIDE DEF s, m, gone
<1>6. /\ SubSeq(s, 1, m) \in Seq(entries) /\ Len(SubSeq(s, 1, m)) = m
      /\ \A i \in 1..m : SubSeq(s, 1, m)[i] = s[i]
  BY <1>1, <1>4
<1>7. /\ t \in Seq({key} \cup entries) /\ Len(t) = m + 1
      /\ \A i \in 1..(m + 1) : t[i] = IF i = 1 THEN key ELSE s[i - 1]
  BY <1>1, <1>4, <1>6
<1> DEFINE keys == {key} \cup (entries \ gone)
<1> HIDE DEF t
<1>8. ASSUME NEW i \in 2..(m + 1) PROVE t[i] = s[i - 1] /\ i - 1 \in 1..n /\ t[i] \in entries \ gone
  <2>1. i - 1 \in 1..m /\ i - 1 \in 1..n /\ t[i] = s[i - 1]
    BY <1>1, <1>4, <1>7
  <2>2. s[i - 1] \in entries /\ s[i - 1] \notin gone
    BY <1>1, <1>5, <2>1
  <2> QED
    BY <2>1, <2>2, Zenon
<1>9. t \in Seq(keys)
  <2>1. \A i \in 1..(m + 1) : t[i] \in keys
    BY <1>4, <1>7, <1>8
  <2> QED
    BY <1>4, <1>7, <2>1
<1>10. ASSUME NEW k \in keys PROVE \E i \in 1..(m + 1) : t[i] = k
  <2>1. CASE k = key
    BY <1>4, <1>7, <2>1
  <2>2. CASE k \in entries \ gone
    <3>1. PICK j \in 1..n : s[j] = k
      BY <1>a, <2>2, Zenon
    <3>2. j \in 1..m
      BY <1>5, <2>2, <3>1, Zenon
    <3>3. j + 1 \in 1..(m + 1) /\ t[j + 1] = s[j]
      BY <1>4, <1>7, <3>2
    <3> QED
      BY <3>1, <3>3, Zenon
  <2> QED
    BY <2>1, <2>2, Zenon
<1>11. ASSUME NEW i \in 1..(m + 1), NEW j \in 1..(m + 1), t[i] = t[j] PROVE i = j
  <2>1. \A l \in 1..(m + 1) : l # 1 => l \in 2..(m + 1)
    BY <1>4
  <2>2. t[1] = key /\ 1 \in 1..(m + 1)
    BY <1>4, <1>7
  <2>3. CASE i = 1 \/ j = 1
    BY <1>8, <1>11, <2>1, <2>2, <2>3, Zenon
  <2>4. CASE i # 1 /\ j # 1
    BY <1>b, <1>8, <1>11, <2>1, <2>4
  <2> QED
    BY <2>3, <2>4, Zenon
<1>12. Holds(t, keys)
  BY <1>4, <1>7, <1>9, <1>10, <1>11, Zenon DEF Holds
<1> QED
  BY <1>2, <1>12, Zenon DEF CacheInv

\* The operations of the cache, each under its mutex.
LEMMA CacheOperations ==
    ASSUME CacheInv, NEW key, Insert(key) \/ Hit(key) \/ Miss(key)
    PROVE  CacheInv'
<1>1. CASE Miss(key)
  BY <1>1, Zenon DEF Miss, CacheInv
<1>2. CASE key \in entries /\ accessOrder' = MoveToFront(key) /\ UNCHANGED entries
  BY <1>2, Moved, Zenon DEF CacheInv
<1>3. CASE key \notin entries /\ PushFront(key)
  BY <1>3, Pushed, Zenon
<1> QED
  BY <1>1, <1>2, <1>3, Zenon DEF Insert, Hit

\* The cache starts empty.
LEMMA CacheInit == Init => CacheInv
<1> SUFFICES ASSUME Init PROVE CacheInv
  BY Zenon
<1>1. entries = {} /\ accessOrder = <<>>
  BY Zenon DEF Init
<1>2. Capacity \in Nat
  BY CacheAssumption, Zenon
<1> QED
  BY <1>1, <1>2 DEF CacheInv, Holds

\* Whoever takes a step, the cache changes by one of its operations only.
LEMMA CacheStep == CacheInv /\ [Next]_vars => CacheInv'
<1> SUFFICES ASSUME CacheInv, [Next]_vars PROVE CacheInv'
  BY Zenon
<1> DEFINE Same == UNCHANGED <<entries, accessOrder>>
           Used == \E key : Insert(key) \/ Hit(key) \/ Miss(key)
<1>1. Same \/ Used => CacheInv'
  <2>1. Same => CacheInv'
    BY Zenon DEF CacheInv
  <2> QED
    BY <2>1, CacheOperations, Zenon
<1>2. SignOwn => Used
  BY Zenon DEF SignOwn
<1>3. \A id \in Senders : Arrive(id) => Same
  BY Zenon DEF Arrive
<1>4. \A call \in running : VerifyHit(call) => Used
  BY Zenon DEF VerifyHit
<1>5. \A call \in running : VerifyMiss(call) => Used
  BY Zenon DEF VerifyMiss
<1>6. \A call \in running : VerifyReturns(call) => Same \/ Used
  BY Zenon DEF VerifyReturns
<1>7. StartCreate => Same
  BY Zenon DEF StartCreate
<1>8. \A part : StartPart(part) => Same
  BY Zenon DEF StartPart
<1>9. EndCreate => Same \/ Used
  BY Zenon DEF EndCreate
<1>10. StartVerify => Same
  BY Zenon DEF StartVerify
<1>11. Lookup => Same \/ Used
  BY Zenon DEF Lookup
<1>12. EndVerify => Same \/ Used
  BY Zenon DEF EndVerify
<1>13. UNCHANGED vars => Same
  BY Zenon DEF vars
<1> HIDE DEF Same, Used
<1> QED
  BY <1>1, <1>2, <1>3, <1>4, <1>5, <1>6, <1>7, <1>8, <1>9, <1>10, <1>11, <1>12, <1>13, Zenon
     DEF Next

\* The map and the list of the cache stay together, and within the capacity,
\* also when several goroutines miss the same key and then insert it.
THEOREM CacheIsConsistent == Spec => []CacheConsistent
<1>1. CacheInv => CacheConsistent
  <2> SUFFICES ASSUME CacheInv PROVE CacheConsistent
    BY Zenon
  <2>1. Cardinality(entries) = Len(accessOrder)
    BY SameSize, Zenon DEF CacheInv
  <2>2. entries = {accessOrder[i] : i \in 1..Len(accessOrder)}
    BY DEF CacheInv, Holds
  <2> QED
    BY <2>1, <2>2, Zenon DEF CacheConsistent, CacheInv, Holds
<1> QED
  BY <1>1, CacheInit, CacheStep, PTL DEF Spec
=============================================================================

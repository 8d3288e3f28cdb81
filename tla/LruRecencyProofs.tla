-------------------------- MODULE LruRecencyProofs --------------------------
(***************************************************************************)
(* Proofs about LruRecency: lru_cache is an LRU cache, for any keys and    *)
(* any number of uses.                                                     *)
(***************************************************************************)
EXTENDS LruRecency, DataLemmas

(* No use is later than the clock. *)
UsedBefore == \A k \in Key : lastUse[k] <= clock

(* The inductive invariant. *)
IInv == TypeOK /\ UsedBefore /\ DanglesUntilErased /\ RecencyOrder

(* What DanglesUntilErased says of the places of the list. *)
LEMMA ListedAt ==
  ASSUME NEW l \in Seq(Key), NEW k
  PROVE  LruListed(l, k) <=> \E i \in DOMAIN l : l[i] = k
BY DEF LruListed, Contains

(* A list in the order of use holds no key twice. *)
LEMMA OrderedOnce ==
  ASSUME TypeOK, RecencyOrder
  PROVE  IsInjective(m_list)
<1>1. /\ Len(m_list) \in Nat /\ DOMAIN m_list = 1..Len(m_list)
      /\ \A i \in DOMAIN m_list : lastUse[m_list[i]] \in Nat
  BY ElementOfSeq, UsesAssumption DEF TypeOK
<1>2. ASSUME NEW i \in DOMAIN m_list, NEW j \in DOMAIN m_list,
             m_list[i] = m_list[j], i # j
      PROVE  FALSE
  <2>1. i < j \/ j < i
    BY <1>1, <1>2
  <2> QED
    BY <1>1, <1>2, <2>1 DEF RecencyOrder
<1> QED
  BY <1>2 DEF IsInjective

(* The initial cache is empty. *)
LEMMA InitIInv ==
  ASSUME Init
  PROVE  IInv
<1>1. TypeOK
  BY UsesAssumption DEF Init, TypeOK
<1>2. UsedBefore
  BY DEF Init, UsedBefore
<1>3. DOMAIN m_list = {} /\ m_list \in Seq(Key)
  BY DEF Init
<1>4. DanglesUntilErased
  BY <1>3, ListedAt DEF Init, DanglesUntilErased, LruMapped
<1> QED
  BY <1>1, <1>2, <1>3, <1>4 DEF IInv, RecencyOrder

(* A use gives its key the latest time of all. *)
LEMMA TickUse ==
  ASSUME IInv, NEW k \in Key, Tick(k)
  PROVE  /\ clock' \in 0..MaxUses /\ lastUse' \in [Key -> 0..MaxUses]
         /\ UsedBefore'
         /\ \A j \in Key : j # k => lastUse'[j] = lastUse[j] /\ lastUse'[k] > lastUse'[j]
<1>1. /\ clock \in 0..MaxUses /\ clock < MaxUses /\ clock' = clock + 1
      /\ lastUse \in [Key -> 0..MaxUses]
      /\ lastUse' = [lastUse EXCEPT ![k] = clock + 1]
      /\ \A j \in Key : lastUse[j] <= clock
  BY DEF IInv, TypeOK, UsedBefore, Tick
<1>2. clock + 1 \in 0..MaxUses
  BY <1>1, UsesAssumption
<1>3. lastUse'[k] = clock + 1 /\ \A j \in Key : j # k => lastUse'[j] = lastUse[j]
  BY <1>1
<1>4. \A j \in Key : lastUse[j] \in Nat
  BY <1>1, UsesAssumption
<1>5. clock \in Nat
  BY <1>1, UsesAssumption
<1>6. \A j \in Key : lastUse'[j] <= clock' /\ (j # k => lastUse'[k] > lastUse'[j])
  BY <1>1, <1>3, <1>4, <1>5
<1> QED
  BY <1>1, <1>2, <1>3, <1>6 DEF UsedBefore

(* insert() pushes the key in front of the list (my_lru.hpp:26). *)
LEMMA InsertIndex ==
  ASSUME IInv, NEW k \in Key, Insert(k)
  PROVE  /\ m_list' \in Seq(Key) /\ DOMAIN m_list' = 1..(Len(m_list) + 1)
         /\ \A i \in 1..(Len(m_list) + 1) :
              m_list'[i] = IF i = 1 THEN k ELSE m_list[i - 1]
<1>1. m_list \in Seq(Key)
  BY DEF IInv, TypeOK
<1>2. m_list' = LruPushFront(m_list, k)
  BY DEF Insert
<1>3. /\ LruPushFront(m_list, k) \in Seq(Key)
      /\ Len(LruPushFront(m_list, k)) = Len(m_list) + 1
      /\ \A i \in 1..(Len(m_list) + 1) :
           LruPushFront(m_list, k)[i] = IF i = 1 THEN k ELSE m_list[i - 1]
  BY <1>1, PushFrontIndex
<1>4. /\ m_list' \in Seq(Key) /\ Len(m_list') = Len(m_list) + 1
      /\ \A i \in 1..(Len(m_list) + 1) : m_list'[i] = IF i = 1 THEN k ELSE m_list[i - 1]
  BY <1>2, <1>3
<1>5. DOMAIN m_list' = 1..Len(m_list')
  BY <1>4
<1> QED
  BY <1>4, <1>5

(* insert() puts the key, now the most recently used, in front
   (my_lru.hpp:23-30). *)
LEMMA InsertStep ==
  ASSUME IInv, NEW k \in Key, Insert(k)
  PROVE  IInv'
<1> DEFINE n == Len(m_list)
<1>1. /\ m_list \in Seq(Key) /\ n \in Nat /\ DOMAIN m_list = 1..n
      /\ m_map \in [Key -> {"node", None}]
      /\ evicted \in SUBSET Key /\ evicted' = evicted
      /\ \A i \in 1..n : m_list[i] \in Key /\ m_map[m_list[i]] # None
      /\ m_map[k] = None
  BY ElementOfSeq, ListedAt DEF IInv, TypeOK, DanglesUntilErased, Insert, LruMapped
<1>2. /\ m_list' \in Seq(Key) /\ DOMAIN m_list' = 1..(n + 1)
      /\ \A i \in 1..(n + 1) : m_list'[i] = IF i = 1 THEN k ELSE m_list[i - 1]
  BY InsertIndex
<1>3. m_map' = [m_map EXCEPT ![k] = "node"]
  BY DEF Insert, LruInsert
<1>4. /\ clock' \in 0..MaxUses /\ lastUse' \in [Key -> 0..MaxUses] /\ UsedBefore'
      /\ \A j \in Key : j # k => lastUse'[j] = lastUse[j] /\ lastUse'[k] > lastUse'[j]
  BY TickUse DEF Insert
<1> HIDE DEF n
<1>5. TypeOK'
  BY <1>1, <1>2, <1>3, <1>4 DEF TypeOK
<1>6. DanglesUntilErased'
  <2>1. \A j \in Key : LruListed(m_list', j) <=> j = k \/ LruListed(m_list, j)
    <3>1. \A i \in 1..n : i + 1 \in 1..(n + 1) /\ m_list'[i + 1] = m_list[i]
      BY <1>1, <1>2
    <3>2. \A i \in 1..(n + 1) : i = 1 \/ (i - 1 \in 1..n /\ m_list'[i] = m_list[i - 1])
      BY <1>1, <1>2
    <3>3. 1 \in 1..(n + 1) /\ m_list'[1] = k
      BY <1>1, <1>2
    <3>4. ASSUME NEW j \in Key PROVE LruListed(m_list', j) <=> j = k \/ LruListed(m_list, j)
      <4>1. LruListed(m_list', j) <=> \E i \in 1..(n + 1) : m_list'[i] = j
        <5>1. PICK l \in Seq(Key) : l = m_list' /\ DOMAIN l = 1..(n + 1)
          BY <1>2
        <5>2. LruListed(l, j) <=> \E i \in DOMAIN l : l[i] = j
          BY ListedAt
        <5> QED
          BY <5>1, <5>2
      <4>2. LruListed(m_list, j) <=> \E i \in 1..n : m_list[i] = j
        BY <1>1, ListedAt
      <4> QED
        BY <3>1, <3>2, <3>3, <4>1, <4>2
    <3> QED
      BY <3>4
  <2>2. k \notin evicted
    BY <1>1 DEF IInv, DanglesUntilErased, LruMapped
  <2>3. ASSUME NEW j \in Key
        PROVE  /\ LruListed(m_list', j) => LruMapped(m_map', j)
               /\ LruMapped(m_map', j) /\ ~LruListed(m_list', j) <=> j \in evicted
    <3>1. CASE j = k
      BY <1>1, <1>3, <2>1, <2>2, <3>1, ValueAssumption DEF LruMapped
    <3>2. CASE j # k
      BY <1>1, <1>3, <2>1, <3>2 DEF IInv, DanglesUntilErased, LruMapped
    <3> QED
      BY <3>1, <3>2
  <2> QED
    BY <1>1, <2>3 DEF DanglesUntilErased
<1>7. RecencyOrder'
  <2>1. ASSUME NEW i \in 1..(n + 1), NEW j \in 1..(n + 1), i < j
        PROVE  lastUse'[m_list'[i]] > lastUse'[m_list'[j]]
    <3>1. j # 1 /\ j - 1 \in 1..n
      BY <1>1, <2>1
    <3>2. m_list'[j] = m_list[j - 1] /\ m_list[j - 1] \in Key /\ m_list[j - 1] # k
      BY <1>1, <1>2, <3>1
    <3>3. CASE i = 1
      BY <1>2, <1>4, <3>2, <3>3
    <3>4. CASE i # 1
      <4>1. i - 1 \in 1..n /\ i - 1 < j - 1
        BY <1>1, <2>1, <3>4
      <4>2. m_list'[i] = m_list[i - 1] /\ m_list[i - 1] \in Key /\ m_list[i - 1] # k
        BY <1>1, <1>2, <3>4, <4>1
      <4>3. lastUse[m_list[i - 1]] > lastUse[m_list[j - 1]]
        BY <1>1, <3>1, <4>1 DEF IInv, RecencyOrder
      <4> QED
        BY <1>4, <3>2, <4>2, <4>3
    <3> QED
      BY <3>3, <3>4
  <2> QED
    BY <1>2, <2>1 DEF RecencyOrder
<1> QED
  BY <1>4, <1>5, <1>6, <1>7 DEF IInv

(* get() moves the key, now the most recently used, to the front and keeps
   the others in their order (my_lru.hpp:40-49). *)
LEMMA GetStep ==
  ASSUME IInv, NEW k \in Key, Get(k)
  PROVE  IInv'
<1> DEFINE n == Len(m_list)
           p == LruPosition(m_list, k)
           from(i) == IF i <= p THEN i - 1 ELSE i
<1>1. /\ m_list \in Seq(Key) /\ n \in Nat /\ DOMAIN m_list = 1..n
      /\ m_map \in [Key -> {"node", None}]
      /\ evicted \in SUBSET Key
      /\ \A i \in 1..n : m_list[i] \in Key
      /\ LruListed(m_list, k)
  BY ElementOfSeq DEF IInv, TypeOK, Get
<1>2. IsInjective(m_list)
  BY OrderedOnce DEF IInv
<1>3. p \in 1..n /\ m_list[p] = k
  BY <1>1, PositionIndex
<1>4. /\ m_list' \in Seq(Key) /\ Len(m_list') = n
      /\ \A i \in 1..n : m_list'[i] = IF i = 1 THEN k ELSE
                                      IF i <= p THEN m_list[i - 1] ELSE m_list[i]
  BY <1>1, <1>2, TouchIndex DEF Get
<1>5. DOMAIN m_list' = 1..n
  BY <1>4
<1>6. m_map' = m_map /\ evicted' = evicted
  BY DEF Get
<1>7. /\ clock' \in 0..MaxUses /\ lastUse' \in [Key -> 0..MaxUses] /\ UsedBefore'
      /\ \A j \in Key : j # k => lastUse'[j] = lastUse[j] /\ lastUse'[k] > lastUse'[j]
  BY TickUse DEF Get
<1>8. \A i, j \in 1..n : m_list[i] = m_list[j] => i = j
  BY <1>1, <1>2 DEF IsInjective
<1> HIDE DEF n, p
(* Where the key at a place behind the first one was before. *)
<1>9. ASSUME NEW i \in 1..n, i # 1
      PROVE  /\ from(i) \in 1..n /\ m_list'[i] = m_list[from(i)]
             /\ m_list[from(i)] \in Key /\ m_list[from(i)] # k
  <2>1. from(i) \in 1..n /\ from(i) # p
    BY <1>1, <1>3, <1>9
  <2>2. m_list'[i] = m_list[from(i)]
    BY <1>4, <1>9
  <2>3. m_list[from(i)] # k
    BY <1>3, <1>8, <2>1
  <2> QED
    BY <1>1, <2>1, <2>2, <2>3
<1>10. TypeOK'
  BY <1>1, <1>4, <1>6, <1>7 DEF TypeOK
<1>11. DanglesUntilErased'
  <2>1. Range(m_list') = Range(m_list)
    BY <1>1, <1>2, TouchRange DEF Get
  <2>2. \A j : LruListed(m_list', j) <=> LruListed(m_list, j)
    BY <2>1 DEF Range, LruListed, Contains
  <2> QED
    BY <1>6, <2>2 DEF IInv, DanglesUntilErased
<1>12. RecencyOrder'
  <2>1. ASSUME NEW i \in 1..n, NEW j \in 1..n, i < j
        PROVE  lastUse'[m_list'[i]] > lastUse'[m_list'[j]]
    <3>1. j # 1
      BY <1>1, <2>1
    <3>2. /\ from(j) \in 1..n /\ m_list'[j] = m_list[from(j)]
          /\ m_list[from(j)] \in Key /\ m_list[from(j)] # k
      BY <1>9, <3>1
    <3>3. CASE i = 1
      BY <1>4, <1>7, <3>2, <3>3
    <3>4. CASE i # 1
      <4>1. /\ from(i) \in 1..n /\ m_list'[i] = m_list[from(i)]
            /\ m_list[from(i)] \in Key /\ m_list[from(i)] # k
        BY <1>9, <3>4
      <4>2. from(i) < from(j)
        BY <1>1, <1>3, <2>1
      <4> HIDE DEF from
      <4>3. lastUse[m_list[from(i)]] > lastUse[m_list[from(j)]]
        BY <1>1, <3>2, <4>1, <4>2 DEF IInv, RecencyOrder
      <4> QED
        BY <1>7, <3>2, <4>1, <4>3
    <3> QED
      BY <3>3, <3>4
  <2> QED
    BY <1>5, <2>1 DEF RecencyOrder
<1> QED
  BY <1>7, <1>10, <1>11, <1>12 DEF IInv

(* evict() takes the last list node and leaves the map node
   (my_lru.hpp:59-67). *)
LEMMA EvictIndex ==
  ASSUME IInv, Evict
  PROVE  /\ m_list # <<>> /\ m_list' \in Seq(Key)
         /\ Len(m_list) \in Nat \ {0} /\ DOMAIN m_list = 1..Len(m_list)
         /\ DOMAIN m_list' = 1..(Len(m_list) - 1)
         /\ \A i \in 1..(Len(m_list) - 1) : m_list'[i] = m_list[i]
         /\ LruVictim(m_list) = m_list[Len(m_list)]
<1>1. m_list \in Seq(Key) /\ m_list # <<>>
  BY DEF IInv, TypeOK, Evict, LruSize
<1>2. /\ m_list' \in Seq(Key) /\ Len(m_list') = Len(m_list) - 1
      /\ \A i \in 1..(Len(m_list) - 1) : m_list'[i] = m_list[i]
      /\ Len(m_list) \in Nat \ {0}
  BY <1>1, DropVictimIndex DEF Evict
<1>3. DOMAIN m_list = 1..Len(m_list) /\ DOMAIN m_list' = 1..Len(m_list')
  BY <1>1, <1>2
<1> QED
  BY <1>1, <1>2, <1>3 DEF LruVictim, Last

(* evict() leaves its victim's iterator dangling, and no other (my_lru.hpp:65). *)
LEMMA EvictDangles ==
  ASSUME IInv, Evict
  PROVE  DanglesUntilErased'
<1> DEFINE n == Len(m_list)
           v == LruVictim(m_list)
<1>1. /\ n \in Nat \ {0} /\ DOMAIN m_list = 1..n /\ DOMAIN m_list' = 1..(n - 1)
      /\ \A i \in 1..(n - 1) : m_list'[i] = m_list[i]
      /\ v = m_list[n] /\ m_list \in Seq(Key) /\ m_list' \in Seq(Key)
  BY EvictIndex DEF IInv, TypeOK
<1>2. \A i, j \in 1..n : m_list[i] = m_list[j] => i = j
  BY <1>1, OrderedOnce DEF IInv, IsInjective
<1>3. m_map' = m_map /\ evicted' = evicted \cup {v}
  BY DEF Evict
<1> HIDE DEF n, v
<1>4. ASSUME NEW j \in Key
      PROVE  LruListed(m_list', j) <=> LruListed(m_list, j) /\ j # v
  <2>1. LruListed(m_list', j) <=> \E i \in 1..(n - 1) : m_list'[i] = j
    BY <1>1, ListedAt
  <2>2. LruListed(m_list, j) <=> \E i \in 1..n : m_list[i] = j
    BY <1>1, ListedAt
  <2>3. \A i \in 1..(n - 1) : i \in 1..n /\ i # n
    BY <1>1
  <2>4. \A i \in 1..n : i # n => i \in 1..(n - 1)
    BY <1>1
  <2>5. n \in 1..n
    BY <1>1
  <2> QED
    BY <1>1, <1>2, <2>1, <2>2, <2>3, <2>4, <2>5
<1>5. LruListed(m_list, v)
  <2>1. n \in 1..n
    BY <1>1
  <2> QED
    BY <1>1, <2>1, ListedAt
<1> QED
  BY <1>3, <1>4, <1>5 DEF IInv, DanglesUntilErased

(* Every step keeps the inductive invariant. *)
LEMMA NextIInv ==
  ASSUME IInv, [Next]_vars
  PROVE  IInv'
<1>1. ASSUME Evict PROVE IInv'
  <2>1. /\ m_list' \in Seq(Key) /\ DOMAIN m_list' \subseteq DOMAIN m_list
        /\ \A i \in DOMAIN m_list' : m_list'[i] = m_list[i]
    BY <1>1, EvictIndex
  <2>2. UNCHANGED <<m_map, clock, lastUse>> /\ evicted' = evicted \cup {LruVictim(m_list)}
    BY <1>1 DEF Evict
  <2>3. LruVictim(m_list) \in Key
    BY <1>1, EvictIndex, ElementOfSeq DEF IInv, TypeOK
  <2>4. DanglesUntilErased'
    BY <1>1, EvictDangles
  <2>5. TypeOK'
    BY <2>1, <2>2, <2>3 DEF IInv, TypeOK
  <2> QED
    BY <2>1, <2>2, <2>4, <2>5 DEF IInv, UsedBefore, RecencyOrder
<1>2. ASSUME NEW k \in Key, Erase(k) PROVE IInv'
  <2>1. /\ m_map' = [m_map EXCEPT ![k] = None] /\ k \in evicted /\ evicted' = evicted \ {k}
        /\ UNCHANGED <<m_list, clock, lastUse>>
    BY <1>2 DEF Erase, LruErase
  <2>2. m_map \in [Key -> {"node", None}] /\ ~LruListed(m_list, k)
    BY <2>1 DEF IInv, TypeOK, DanglesUntilErased
  <2>3. DanglesUntilErased'
    BY <2>1, <2>2 DEF IInv, DanglesUntilErased, LruMapped
  <2>4. TypeOK'
    BY <2>1 DEF IInv, TypeOK
  <2> QED
    BY <2>1, <2>3, <2>4 DEF IInv, UsedBefore, RecencyOrder
<1>3. CASE UNCHANGED vars
  BY <1>3 DEF vars, IInv, TypeOK, UsedBefore, DanglesUntilErased, LruMapped, RecencyOrder
<1> QED
  BY <1>1, <1>2, <1>3, InsertStep, GetStep DEF Next

(* The inductive invariant holds in every reachable state. *)
THEOREM Invariance == Spec => []IInv
<1>1. IInv /\ [Next]_vars => IInv'
  BY NextIInv
<1> QED
  BY <1>1, InitIInv, PTL DEF Spec

(* The list is always in the order of last use, whatever inserts, gets,
   evictions and erasures its users mix (my_lru.hpp:23-68). *)
THEOREM AlwaysInOrder == Spec => []RecencyOrder
BY Invariance, PTL DEF IInv

(* A key's iterator dangles from its evict() to its user's erase() and at no
   other time, and evict() finds its victim's map node, whatever the users do
   in between (my_lru.hpp:62-68). *)
THEOREM DanglingIsEvicted == Spec => []DanglesUntilErased
BY Invariance, PTL DEF IInv

(* A key that leaves the list has gone unused for as long as any other one:
   evict() takes the least recently used key (my_lru.hpp:59-67). *)
THEOREM LeastRecentLeaves == Spec => EvictsLeastRecent
<1> DEFINE A == \A k \in ToSet(m_list) \ ToSet(m_list') :
                  \A j \in ToSet(m_list) : lastUse[k] <= lastUse[j]
<1>1. ASSUME IInv, [Next]_vars PROVE A
  <2>1. CASE Evict
    <3> DEFINE n == Len(m_list)
    <3>1. /\ n \in Nat \ {0} /\ DOMAIN m_list = 1..n /\ DOMAIN m_list' = 1..(n - 1)
          /\ \A i \in 1..(n - 1) : m_list'[i] = m_list[i]
      BY <1>1, <2>1, EvictIndex
    <3>2. \A i \in 1..n : lastUse[m_list[i]] \in Nat
      BY <1>1, <3>1, ElementOfSeq, UsesAssumption DEF IInv, TypeOK
    <3> HIDE DEF n
    <3>3. ASSUME NEW k \in ToSet(m_list) \ ToSet(m_list') PROVE k = m_list[n]
      <4>1. PICK i \in 1..n : k = m_list[i]
        BY <3>1 DEF ToSet
      <4>2. CASE i # n
        <5>1. i \in 1..(n - 1) /\ m_list'[i] = k
          BY <3>1, <4>1, <4>2
        <5> QED
          BY <3>1, <3>3, <5>1 DEF ToSet
      <4> QED
        BY <4>1, <4>2
    <3>4. \A i \in 1..n : lastUse[m_list[n]] <= lastUse[m_list[i]]
      <4>1. ASSUME NEW i \in 1..n PROVE lastUse[m_list[n]] <= lastUse[m_list[i]]
        <5>1. CASE i = n
          BY <3>2, <5>1
        <5>2. CASE i # n
          <6>1. i < n /\ n \in 1..n
            BY <3>1, <5>2
          <6>2. lastUse[m_list[i]] > lastUse[m_list[n]]
            BY <1>1, <3>1, <6>1 DEF IInv, RecencyOrder
          <6> QED
            BY <3>2, <6>1, <6>2
        <5> QED
          BY <5>1, <5>2
      <4> QED
        BY <4>1
    <3> QED
      BY <3>1, <3>3, <3>4 DEF ToSet
  <2>2. ASSUME ToSet(m_list) \subseteq ToSet(m_list') PROVE A
    BY <2>2
  <2>3. ASSUME NEW k \in Key, Insert(k) PROVE ToSet(m_list) \subseteq ToSet(m_list')
    <3> DEFINE n == Len(m_list)
    <3>1. n \in Nat /\ DOMAIN m_list = 1..n /\ m_list \in Seq(Key)
      BY <1>1 DEF IInv, TypeOK
    <3>2. /\ DOMAIN m_list' = 1..(n + 1)
          /\ \A i \in 1..(n + 1) : m_list'[i] = IF i = 1 THEN k ELSE m_list[i - 1]
      BY <1>1, <2>3, InsertIndex
    <3> HIDE DEF n
    <3>3. \A i \in 1..n : i + 1 \in 1..(n + 1) /\ m_list'[i + 1] = m_list[i]
      BY <3>1, <3>2
    <3> QED
      BY <3>1, <3>2, <3>3 DEF ToSet
  <2>4. ASSUME NEW k \in Key, Get(k) PROVE ToSet(m_list) \subseteq ToSet(m_list')
    <3>1. m_list \in Seq(Key) /\ IsInjective(m_list) /\ LruListed(m_list, k)
      BY <1>1, <2>4, OrderedOnce DEF IInv, TypeOK, Get
    <3>2. Range(m_list') = Range(m_list)
      BY <2>4, <3>1, TouchRange DEF Get
    <3> QED
      BY <3>2 DEF ToSet, Range
  <2>5. CASE UNCHANGED m_list
    BY <2>2, <2>5
  <2> QED
    BY <1>1, <2>1, <2>2, <2>3, <2>4, <2>5 DEF Next, Erase, vars
<1>2. IInv /\ [Next]_vars => [A]_vars
  BY <1>1
<1> QED
  BY <1>2, Invariance, PTL DEF Spec, EvictsLeastRecent
=============================================================================

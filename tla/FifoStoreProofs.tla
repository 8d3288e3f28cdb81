-------------------------- MODULE FifoStoreProofs ---------------------------
(***************************************************************************)
(* Proofs about FifoStore: the chained hash table and memList of MEM-FIFO  *)
(* mode and the accounting of used_memory, for any set of keys, however    *)
(* the hash function spreads them (nothing about it is used).              *)
(***************************************************************************)
EXTENDS FifoStore, DataLemmas

(* An entry is in the chain of its key's slot. *)
InItsChain ==
  \A s \in Slot : \A i \in 1..Len(table[s]) : Index(table[s][i].key) = s

(* A chain has a key once. *)
OncePerChain ==
  \A s \in Slot : \A i, j \in 1..Len(table[s]) :
    table[s][i].key = table[s][j].key => i = j

(* ht.used counts the entries, and memList has a node for each but for those
   being pushed. *)
Counted ==
  /\ used = Cardinality(Entries)
  /\ used = Len(memList) + Cardinality(Pushing)

(* A connection is where its request belongs; a key being pushed is in the
   table. *)
Placed(c) ==
  /\ pc[c] \notin {"spin", "destroy", "exit"}
  /\ pc[c] \notin {"accept", "recv", "closed"} => req[c] \in Request
  /\ pc[c] \in {"memcheck", "listcheck"} => req[c].cmd = "set"
  /\ pc[c] \in {"lock", "exec", "push"} => req[c].cmd \in {"set", "get"}
  /\ pc[c] \in {"evictall", "evictwait", "kill"} => req[c].cmd \notin {"set", "get"}
  /\ pc[c] = "push" => InTable(req[c].key) /\ Found(req[c].key)

InPlace == \A c \in Client : Placed(c)

(* The table has the last value of the keys in it, flash that of the others. *)
Latest ==
  /\ \A s \in Slot : \A i \in 1..Len(table[s]) : last[table[s][i].key] = table[s][i].val
  /\ \A k \in Key : (InTable(k) => ~Found(k)) => last[k] = flashed[k]

IInv ==
  /\ TypeOK /\ InItsChain /\ OncePerChain /\ Counted /\ InPlace /\ Latest
  /\ UsedMemoryExplained

(* The sizes whose sums Reachable takes. *)
EntrySizes  == [e \in Entries |-> EntryBytes(table[e[1]][e[2]])]
ClientSizes == [c \in Client |-> ClientBytes(c)]

-----------------------------------------------------------------------------
(* Requests and sizes.                                                     *)

(* The slots are finitely many (server.c:49). *)
LEMMA SlotsFinite ==
  IsFiniteSet(Slot) /\ IsFiniteSet(Slot \X (1..Cardinality(Key))) /\ Cardinality(Key) \in Nat
<1>1. Slot \in SUBSET (0..(TableSize - 1))
  BY DEF Slot
<1>2. IsFiniteSet(0..(TableSize - 1))
  <2> PICK n \in Int : n = TableSize - 1
    BY DEF TableSize
  <2> IsFiniteSet(0..n)
    BY FS_Interval
  <2> QED
    OBVIOUS
<1>3. IsFiniteSet(Slot)
  BY <1>1, <1>2, FS_Subset
<1>4. Cardinality(Key) \in Nat
  BY FifoAssumption, FS_CardinalityType
<1>5. IsFiniteSet(1..Cardinality(Key))
  BY <1>4, FS_Interval
<1> QED
  BY <1>3, <1>4, <1>5, FS_Product

(* What a request has, and the bytes of its words (util.c:247-280). *)
LEMMA RequestParts ==
  ASSUME NEW r \in Request
  PROVE  /\ r.cmd \in {"set", "get", "evict", "kill", "other"}
         /\ r.cmd \in {"set", "get"} => r.key \in Key
         /\ r.cmd = "set" => r.val \in Val /\ ValBytes(r) = SizeofObject(r.val)
         /\ r.cmd # "set" => ValBytes(r) = 0
         /\ {WordBytes(r), ValBytes(r), ArgvBytes(r), Argc(r)} \subseteq Nat
<1>1. \A k \in Key : Len(k) \in Nat
  BY FifoAssumption
<1>2. \A n \in Nat : SizeofObject(n) \in Nat
  BY DEF SizeofObject
<1>3. /\ r.cmd \in {"set", "get", "evict", "kill", "other"}
      /\ r.cmd \in {"set", "get"} => r.key \in Key
      /\ r.key \in Key \cup {None}
      /\ r.cmd = "set" => r.val \in Val
  BY DEF Request
<1>4. KeyLen(r) \in Nat /\ CmdLen(r.cmd) \in Nat /\ Argc(r) \in Nat
  BY <1>1, <1>3 DEF KeyLen, CmdLen, Argc
<1>5. WordBytes(r) \in Nat /\ ArgvBytes(r) \in Nat
  <2>1. SizeofObject(CmdLen(r.cmd)) \in Nat /\ SizeofObject(KeyLen(r)) \in Nat
    BY <1>2, <1>4
  <2> QED
    BY <1>4, <2>1 DEF WordBytes, ArgvBytes, SizeofPtr
<1>6. /\ r.cmd = "set" => ValBytes(r) = SizeofObject(r.val) /\ ValBytes(r) \in Nat
      /\ r.cmd # "set" => ValBytes(r) = 0
  BY <1>2, <1>3, FifoAssumption DEF ValBytes
<1> QED
  BY <1>3, <1>4, <1>5, <1>6

(* An int stays in its range and differs from the number by whole turns
   (util.c:314, :330). *)
LEMMA IntWraps ==
  ASSUME NEW n \in Int
  PROVE  ToInt(n) \in -IntRange..(IntRange - 1)
         /\ \E q \in Int : ToInt(n) = n - (2 * IntRange) * q
<1> DEFINE m == 2 * IntRange
           x == n + IntRange
<1>1. m \in Nat \ {0} /\ x \in Int /\ IntRange \in Nat \ {0}
  BY FifoAssumption
<1>2. ToInt(n) = (x % m) - IntRange
  BY DEF ToInt
<1>3. m = IntRange + IntRange /\ x = n + IntRange
  BY <1>1
<1> HIDE DEF m, x
<1>4. x % m \in 0..(m - 1) /\ x \div m \in Int /\ x = m * (x \div m) + (x % m)
  BY <1>1
<1>5. ToInt(n) \in -IntRange..(IntRange - 1)
  BY <1>1, <1>2, <1>3, <1>4
<1>6. PICK q \in Int : q = x \div m
  BY <1>4
<1>7. m * q \in Int /\ x = m * q + (x % m) /\ x % m \in Int
  BY <1>1, <1>4, <1>6
<1>8. ToInt(n) = n - m * q
  BY <1>1, <1>2, <1>3, <1>7
<1> QED
  BY <1>5, <1>8 DEF m

(* The bytes of an entry and of a connection (hash.c:33, bworker.c:48-51). *)
LEMMA BytesAreNat ==
  /\ \A e \in [key : Key, val : Val] : EntryBytes(e) \in Nat
  /\ \A v \in Val : SizeofObject(v) \in Nat
  /\ SizeofClient \in Nat /\ SizeofDb \in Nat
<1>1. \A k \in Key : Len(k) \in Nat
  BY FifoAssumption
<1>2. \A v \in Val : SizeofObject(v) \in Nat
  BY FifoAssumption DEF SizeofObject
<1>3. SizeofClient \in Nat /\ SizeofDb \in Nat
  BY FifoAssumption DEF SizeofClient, SizeofDb, SizeofPtr, TableSize
<1>4. ASSUME NEW e \in [key : Key, val : Val] PROVE EntryBytes(e) \in Nat
  <2>1. Len(e.key) \in Nat /\ SizeofObject(e.val) \in Nat
    BY <1>1, <1>2
  <2> QED
    BY <2>1 DEF EntryBytes, SizeofEntry
<1> QED
  BY <1>2, <1>3, <1>4

(* The modulus of used_memory: whole turns added or taken away leave a
   multiple of the int's range (util.c:314, :330). *)
LEMMA Turns ==
  ASSUME NEW u \in Int, NEW h \in Int, (u - h) % (2 * IntRange) = 0,
         NEW d \in Int
  PROVE  (ToInt(u + d) - (h + d)) % (2 * IntRange) = 0
<1>1. PICK m \in Nat \ {0} : m = 2 * IntRange
  BY FifoAssumption
<1>2. PICK q \in Int : ToInt(u + d) = u + d - m * q
  BY <1>1, IntWraps
<1>3. PICK r \in Int : u - h = m * r
  <2>1. PICK w \in Int : w = u - h
    OBVIOUS
  <2>2. w \div m \in Int /\ w = m * (w \div m) + (w % m)
    BY <1>1
  <2>3. w % m = 0
    BY <1>1, <2>1
  <2> QED
    BY <1>1, <2>1, <2>2, <2>3
<1>4. ToInt(u + d) - (h + d) = m * (r - q)
  <2>1. m * r \in Int /\ m * q \in Int /\ m * (r - q) = m * r - m * q
    BY <1>1, <1>2, <1>3
  <2> QED
    BY <1>2, <1>3, <2>1
<1>5. (m * (r - q)) % m = 0
  <2>1. PICK z \in Int : z = r - q
    BY <1>2, <1>3
  <2>2. (m * z) % m = 0
    BY <1>1
  <2> QED
    BY <2>1, <2>2
<1> QED
  BY <1>1, <1>4, <1>5

-----------------------------------------------------------------------------
(* Sums.                                                                   *)

(* What a chain has (hash.c:38-39). *)
LEMMA ChainEntry ==
  ASSUME TypeOK, NEW s \in Slot, NEW i \in 1..Len(table[s])
  PROVE  table[s][i] \in [key : Key, val : Val] /\ Len(table[s]) \in Nat
<1> DEFINE Pair == [key : Key, val : Val]
<1>1. PICK q \in Seq(Pair) : q = table[s]
  BY DEF TypeOK
<1> HIDE DEF Pair
<1>2. q[i] \in Pair /\ Len(q) \in Nat
  BY <1>1, ElementOfSeq
<1> USE DEF Pair
<1> QED
  BY <1>1, <1>2

(* The entries and their sizes (hash.c:33-39). *)
LEMMA EntryFacts ==
  TypeOK => /\ IsFiniteSet(Entries)
            /\ \A e \in Entries : table[e[1]][e[2]] \in [key : Key, val : Val]
            /\ EntrySizes \in [Entries -> Nat]
<1> SUFFICES ASSUME TypeOK
             PROVE  /\ IsFiniteSet(Entries)
                    /\ \A e \in Entries : table[e[1]][e[2]] \in [key : Key, val : Val]
                    /\ EntrySizes \in [Entries -> Nat]
  OBVIOUS
<1>1. IsFiniteSet(Entries)
  <2>1. Entries \in SUBSET (Slot \X (1..Cardinality(Key)))
    BY DEF Entries
  <2> QED
    BY <2>1, SlotsFinite, FS_Subset
<1>2. ASSUME NEW e \in Entries PROVE table[e[1]][e[2]] \in [key : Key, val : Val]
  <2>1. e[1] \in Slot /\ e[2] \in 1..Len(table[e[1]])
    BY DEF Entries, TypeOK
  <2> QED
    BY <2>1, ChainEntry
<1>3. EntrySizes \in [Entries -> Nat]
  BY <1>2, BytesAreNat DEF EntrySizes
<1> QED
  BY <1>1, <1>2, <1>3

(* The bytes of a connection (bworker.c:48-51, :13-26). *)
LEMMA ClientFacts ==
  TypeOK /\ InPlace => ClientSizes \in [Client -> Nat]
<1> SUFFICES ASSUME TypeOK, InPlace, NEW c \in Client PROVE ClientBytes(c) \in Nat
  BY DEF ClientSizes
<1>1. CASE pc[c] \in {"accept", "recv", "closed"}
  BY <1>1, BytesAreNat DEF ClientBytes
<1>2. CASE pc[c] \notin {"accept", "recv", "closed"}
  <2>1. WordBytes(req[c]) \in Nat /\ ValBytes(req[c]) \in Nat
    BY <1>2, RequestParts DEF InPlace, Placed
  <2>2. ClientBytes(c) \in {SizeofClient + WordBytes(req[c]),
                            SizeofClient + WordBytes(req[c]) + ValBytes(req[c])}
    BY <1>2 DEF ClientBytes
  <2> QED
    BY <2>1, <2>2, BytesAreNat
<1> QED
  BY <1>1, <1>2

(* The sum over the entries in Reachable is the total of their sizes
   (hash.c:33-39). *)
LEMMA EntrySum ==
  TypeOK => MapThenSumSet(LAMBDA e : EntryBytes(table[e[1]][e[2]]), Entries)
              = Total(EntrySizes)
<1> SUFFICES ASSUME TypeOK
             PROVE  MapThenSumSet(LAMBDA e : EntryBytes(table[e[1]][e[2]]), Entries)
                      = Total(EntrySizes)
  OBVIOUS
<1>0. IsFiniteSet(Entries) /\ EntrySizes \in [Entries -> Nat]
  BY EntryFacts
<1>1. PICK a : IsSum(a, EntrySizes, Entries)
  BY <1>0, SumExists
<1> DEFINE Part(it, s) ==
      IF s = {} THEN 0
      ELSE LET x == CHOOSE x \in s : TRUE IN EntryBytes(table[x[1]][x[2]]) + it[s \ {x}]
<1>2. \A it : \A s \in SUBSET Entries : PartialSum(it, EntrySizes, s) = Part(it, s)
  <2> TAKE it
  <2> TAKE s \in SUBSET Entries
  <2>1. CASE s = {}
    BY <2>1 DEF PartialSum
  <2>2. CASE s # {}
    <3> DEFINE x == CHOOSE x \in s : TRUE
    <3>1. x \in Entries
      BY <2>2
    <3>2. EntrySizes[x] = EntryBytes(table[x[1]][x[2]])
      BY <3>1 DEF EntrySizes
    <3> QED
      BY <2>2, <3>2 DEF PartialSum
  <2> QED
    BY <2>1, <2>2
<1>3. a = [s \in SUBSET Entries |-> Part(a, s)]
  BY <1>1, <1>2 DEF IsSum
<1>4. PICK it : /\ it = [s \in SUBSET Entries |-> Part(it, s)]
                /\ MapThenSumSet(LAMBDA e : EntryBytes(table[e[1]][e[2]]), Entries)
                     = it[Entries]
  BY <1>3 DEF MapThenSumSet, MapThenFoldSet
<1>5. IsSum(it, EntrySizes, Entries)
  <2> HIDE DEF Part
  <2>1. [s \in SUBSET Entries |-> Part(it, s)] = [s \in SUBSET Entries |-> PartialSum(it, EntrySizes, s)]
    BY <1>2
  <2> QED
    BY <1>4, <2>1 DEF IsSum
<1> QED
  BY <1>0, <1>4, <1>5, TotalIs

(* The same for the connections (bworker.c:48-51). *)
LEMMA ClientSum ==
  TypeOK /\ InPlace => MapThenSumSet(ClientBytes, Client) = Total(ClientSizes)
<1> SUFFICES ASSUME TypeOK, InPlace
             PROVE  MapThenSumSet(ClientBytes, Client) = Total(ClientSizes)
  OBVIOUS
<1>0. IsFiniteSet(Client) /\ ClientSizes \in [Client -> Nat]
  BY FifoAssumption, ClientFacts
<1>1. PICK a : IsSum(a, ClientSizes, Client)
  BY <1>0, SumExists
<1> DEFINE Part(it, s) ==
      IF s = {} THEN 0
      ELSE LET x == CHOOSE x \in s : TRUE IN ClientBytes(x) + it[s \ {x}]
<1>2. \A it : \A s \in SUBSET Client : PartialSum(it, ClientSizes, s) = Part(it, s)
  <2> TAKE it
  <2> TAKE s \in SUBSET Client
  <2>1. CASE s = {}
    BY <2>1 DEF PartialSum
  <2>2. CASE s # {}
    <3> DEFINE x == CHOOSE x \in s : TRUE
    <3>1. x \in Client
      BY <2>2
    <3>2. ClientSizes[x] = ClientBytes(x)
      BY <3>1 DEF ClientSizes
    <3> QED
      BY <2>2, <3>2 DEF PartialSum
  <2> QED
    BY <2>1, <2>2
<1>3. a = [s \in SUBSET Client |-> Part(a, s)]
  BY <1>1, <1>2 DEF IsSum
<1>4. PICK it : /\ it = [s \in SUBSET Client |-> Part(it, s)]
                /\ MapThenSumSet(ClientBytes, Client) = it[Client]
  BY <1>3 DEF MapThenSumSet, MapThenFoldSet
<1>5. IsSum(it, ClientSizes, Client)
  <2> HIDE DEF Part
  <2>1. [s \in SUBSET Client |-> Part(it, s)] = [s \in SUBSET Client |-> PartialSum(it, ClientSizes, s)]
    BY <1>2
  <2> QED
    BY <1>4, <2>1 DEF IsSum
<1> QED
  BY <1>0, <1>4, <1>5, TotalIs

(* The bytes that used_memory should show. *)
Owed == SizeofDb + Total(EntrySizes) + Total(ClientSizes) + unfreed + SizeofInt * mallocs

(* UsedMemoryExplained says that used_memory shows them (util.c:314, :330). *)
LEMMA OwedIs ==
  TypeOK /\ InPlace =>
    /\ UsedMemoryExplained <=> (used_memory - Owed) % (2 * IntRange) = 0
    /\ {Owed, Total(EntrySizes), Total(ClientSizes)} \subseteq Nat
<1> SUFFICES ASSUME TypeOK, InPlace
             PROVE  /\ UsedMemoryExplained <=> (used_memory - Owed) % (2 * IntRange) = 0
                    /\ {Owed, Total(EntrySizes), Total(ClientSizes)} \subseteq Nat
  OBVIOUS
<1>1. Reachable = SizeofDb + Total(EntrySizes) + Total(ClientSizes)
  BY EntrySum, ClientSum DEF Reachable
<1>2. Total(EntrySizes) \in Nat /\ Total(ClientSizes) \in Nat
  BY EntryFacts, ClientFacts, FifoAssumption, TotalIsNat
<1>3. Owed = Reachable + unfreed + SizeofInt * mallocs
  BY <1>1 DEF Owed
<1>4. Owed \in Nat
  BY <1>2, BytesAreNat DEF Owed, TypeOK, SizeofInt
<1> QED
  BY <1>2, <1>3, <1>4 DEF UsedMemoryExplained

(* A step that adds to used_memory what it adds to the bytes owed keeps the
   account (util.c:314, :330). *)
LEMMA AccountKept ==
  ASSUME IInv, TypeOK', InPlace', NEW d \in Int,
         Owed' = Owed + d,
         used_memory' = ToInt(used_memory + d) \/ (d = 0 /\ used_memory' = used_memory)
  PROVE  UsedMemoryExplained'
<1>1. (used_memory - Owed) % (2 * IntRange) = 0 /\ Owed \in Nat
  BY OwedIs DEF IInv
<1>2. used_memory \in Int
  BY FifoAssumption DEF IInv, TypeOK
<1>3. (ToInt(used_memory + d) - (Owed + d)) % (2 * IntRange) = 0
  <2>1. PICK u \in Int : u = used_memory
    BY <1>2
  <2>2. PICK h \in Int : h = Owed
    BY <1>1
  <2>3. (u - h) % (2 * IntRange) = 0
    BY <1>1, <2>1, <2>2
  <2>4. (ToInt(u + d) - (h + d)) % (2 * IntRange) = 0
    BY <2>3, Turns
  <2> QED
    BY <2>1, <2>2, <2>4
<1>4. (used_memory' - Owed') % (2 * IntRange) = 0
  BY <1>1, <1>3
<1>5. (UsedMemoryExplained <=> (used_memory - Owed) % (2 * IntRange) = 0)'
  BY OwedIs, PTL
<1> QED
  BY <1>4, <1>5

-----------------------------------------------------------------------------
(* The table.                                                              *)

(* A chain is no longer than the keys are many, so Entries has all of it
   (hash.c:19-22, :34-35). *)
LEMMA ChainShort ==
  TypeOK /\ OncePerChain =>
    /\ \A s \in Slot : Len(table[s]) \in Nat /\ Len(table[s]) <= Cardinality(Key)
    /\ \A s \in Slot, i \in Nat : <<s, i>> \in Entries <=> i \in 1..Len(table[s])
    /\ \A e \in Entries : e[1] \in Slot /\ e[2] \in 1..Len(table[e[1]]) /\ e = <<e[1], e[2]>>
<1> SUFFICES ASSUME TypeOK, OncePerChain
             PROVE  /\ \A s \in Slot : Len(table[s]) \in Nat /\ Len(table[s]) <= Cardinality(Key)
                    /\ \A s \in Slot, i \in Nat : <<s, i>> \in Entries <=> i \in 1..Len(table[s])
                    /\ \A e \in Entries : /\ e[1] \in Slot /\ e[2] \in 1..Len(table[e[1]])
                                          /\ e = <<e[1], e[2]>>
  OBVIOUS
<1>1. ASSUME NEW s \in Slot
      PROVE  Len(table[s]) \in Nat /\ Len(table[s]) <= Cardinality(Key)
  <2>1. PICK n \in Nat : n = Len(table[s])
    BY DEF TypeOK
  <2> DEFINE f == [i \in 1..n |-> table[s][i].key]
  <2>2. f \in [1..n -> Key]
    BY <2>1, ChainEntry
  <2>3. \A i, j \in 1..n : f[i] = f[j] => i = j
    BY <2>1 DEF OncePerChain
  <2> HIDE DEF f
  <2>4. f \in Injection(1..n, Key)
    BY <2>2, <2>3 DEF Injection, IsInjective
  <2>5. Cardinality(1..n) <= Cardinality(Key)
    BY <2>4, FifoAssumption, FS_Injection
  <2>6. Cardinality(1..n) = n
    BY FS_Interval
  <2> QED
    BY <2>1, <2>5, <2>6
<1>2. \A s \in Slot : DOMAIN table[s] = 1..Len(table[s])
  BY DEF TypeOK
<1>3. ASSUME NEW s \in Slot, NEW i \in Nat
      PROVE  <<s, i>> \in Entries <=> i \in 1..Len(table[s])
  BY <1>1, <1>2, SlotsFinite DEF Entries
<1>4. ASSUME NEW e \in Entries
      PROVE  e[1] \in Slot /\ e[2] \in 1..Len(table[e[1]]) /\ e = <<e[1], e[2]>>
  BY <1>2 DEF Entries
<1> QED
  BY <1>1, <1>3, <1>4

(* What entryFind returns is the one entry of the key (hash.c:54-60). *)
LEMMA FoundEntry ==
  ASSUME TypeOK, OncePerChain, NEW k \in Key, InTable(k)
  PROVE  /\ Index(k) \in Slot
         /\ Found(k) <=> \E i \in 1..Len(table[Index(k)]) : table[Index(k)][i].key = k
         /\ Found(k) => /\ EntryAt(k) \in 1..Len(table[Index(k)])
                        /\ \A i \in 1..Len(table[Index(k)]) :
                             table[Index(k)][i].key = k <=> i = EntryAt(k)
<1>1. Index(k) \in Slot
  BY DEF InTable
<1>2. DOMAIN table[Index(k)] = 1..Len(table[Index(k)]) /\ Len(table[Index(k)]) \in Nat
  BY <1>1 DEF TypeOK
<1>3. ChainMatches(k) \in SUBSET Nat
  BY <1>2 DEF ChainMatches
<1>4. Found(k) => EntryAt(k) \in ChainMatches(k)
  BY <1>3, MinIsLeast DEF Found, EntryAt
<1>5. \A i : i \in ChainMatches(k) <=> i \in 1..Len(table[Index(k)]) /\ table[Index(k)][i].key = k
  BY <1>2 DEF ChainMatches
<1>6. Found(k) <=> \E i : i \in ChainMatches(k)
  BY DEF Found
<1> QED
  BY <1>1, <1>4, <1>5, <1>6 DEF OncePerChain

(* cacheAdd of a key in the table replaces its value there (command.c:70). *)
LEMMA ReplaceTable ==
  ASSUME TypeOK, InItsChain, OncePerChain, NEW k \in Key, InTable(k), Found(k), NEW v \in Val,
         table' = [table EXCEPT ![Index(k)][EntryAt(k)].val = v]
  PROVE  /\ table' \in [Slot -> Seq([key : Key, val : Val])]
         /\ \A s \in Slot :
              /\ Len(table'[s]) = Len(table[s])
              /\ \A i \in 1..Len(table[s]) :
                   /\ table'[s][i].key = table[s][i].key
                   /\ table'[s][i].val = IF table[s][i].key = k THEN v ELSE table[s][i].val
         /\ InItsChain' /\ OncePerChain'
         /\ Entries' = Entries
<1>1. PICK x \in Slot : x = Index(k)
  BY DEF InTable
<1>2. PICK n \in 1..Len(table[x]) : /\ n = EntryAt(k)
                                    /\ \A i \in 1..Len(table[x]) : table[x][i].key = k <=> i = n
  BY <1>1, FoundEntry
<1>3. PICK q \in Seq([key : Key, val : Val]) : q = table[x]
  BY <1>1 DEF TypeOK
<1>4. q[n] \in [key : Key, val : Val] /\ Len(q) \in Nat /\ n \in 1..Len(q)
  BY <1>2, <1>3, ChainEntry
<1>5. PICK r \in [key : Key, val : Val] : r = [q[n] EXCEPT !.val = v]
  BY <1>4
<1>6. r.key = q[n].key /\ r.val = v
  BY <1>4, <1>5
<1>7. table' = [table EXCEPT ![x] = [q EXCEPT ![n] = r]]
  BY <1>1, <1>2, <1>3, <1>5
<1> DEFINE Pair == [key : Key, val : Val]
<1> HIDE DEF Pair
<1>8. q \in Seq(Pair) /\ r \in Pair /\ table \in [Slot -> Seq(Pair)]
  BY <1>3, <1>5 DEF Pair, TypeOK
<1>9. PICK p \in Seq(Pair) : /\ p = [q EXCEPT ![n] = r] /\ Len(p) = Len(q) /\ p[n] = r
                             /\ \A i \in 1..Len(q) : i # n => p[i] = q[i]
  <2>1. [q EXCEPT ![n] = r] \in Seq(Pair) /\ Len([q EXCEPT ![n] = r]) = Len(q)
    BY <1>4, <1>8, ExceptSeq
  <2>2. [q EXCEPT ![n] = r][n] = r /\ \A i \in 1..Len(q) : i # n => [q EXCEPT ![n] = r][i] = q[i]
    BY <1>4, <1>8
  <2> QED
    BY <2>1, <2>2
<1>10. table' \in [Slot -> Seq(Pair)] /\ table'[x] = p /\ \A s \in Slot : s # x => table'[s] = table[s]
  BY <1>7, <1>8, <1>9
<1>11. \A s \in Slot :
              /\ Len(table'[s]) = Len(table[s])
              /\ \A i \in 1..Len(table[s]) :
                   /\ table'[s][i].key = table[s][i].key
                   /\ table'[s][i].val = IF table[s][i].key = k THEN v ELSE table[s][i].val
  <2> SUFFICES ASSUME NEW s \in Slot
               PROVE  /\ Len(table'[s]) = Len(table[s])
                      /\ \A i \in 1..Len(table[s]) :
                           /\ table'[s][i].key = table[s][i].key
                           /\ table'[s][i].val = IF table[s][i].key = k THEN v ELSE table[s][i].val
    OBVIOUS
  <2>1. CASE s = x
    BY <1>2, <1>3, <1>6, <1>9, <1>10, <2>1
  <2>2. CASE s # x
    BY <1>1, <1>10, <2>2 DEF InItsChain
  <2> QED
    BY <2>1, <2>2
<1>12. InItsChain' /\ OncePerChain'
  BY <1>11 DEF InItsChain, OncePerChain
<1>13. Entries' = Entries
  <2>1. \A s \in Slot : DOMAIN table'[s] = DOMAIN table[s]
    BY <1>8, <1>10, <1>11
  <2> QED
    BY <2>1 DEF Entries
<1> QED
  BY <1>10, <1>11, <1>12, <1>13 DEF Pair

(* The sizes then differ by those of the two values (command.c:70). *)
LEMMA ReplaceTotal ==
  ASSUME TypeOK, InItsChain, OncePerChain, NEW k \in Key, InTable(k), Found(k), NEW v \in Val,
         table' = [table EXCEPT ![Index(k)][EntryAt(k)].val = v], TypeOK'
  PROVE  Total(EntrySizes)' + SizeofObject(table[Index(k)][EntryAt(k)].val)
           = Total(EntrySizes) + SizeofObject(v)
<1>1. PICK x \in Slot : x = Index(k)
  BY DEF InTable
<1>2. PICK n \in 1..Len(table[x]) : /\ n = EntryAt(k)
                                    /\ \A i \in 1..Len(table[x]) : table[x][i].key = k <=> i = n
  BY <1>1, FoundEntry
<1>3. PICK w \in Val : w = table[x][n].val /\ table[x][n].key = k
  BY <1>2, ChainEntry
<1>4. PICK F \in [Entries -> Nat] : F = EntrySizes
  BY EntryFacts
<1>5. (EntrySizes \in [Entries -> Nat])'
  BY EntryFacts, PTL
<1>6. /\ Entries' = Entries
      /\ \A s \in Slot : \A i \in 1..Len(table[s]) :
           /\ table'[s][i].key = table[s][i].key
           /\ table'[s][i].val = IF table[s][i].key = k THEN v ELSE table[s][i].val
  BY ReplaceTable
<1>7. PICK G \in [Entries -> Nat] : G = EntrySizes'
  BY <1>5, <1>6
<1>8. PICK e \in Entries : e = <<x, n>>
  <2>1. n \in Nat
    BY <1>2, ChainShort
  <2>2. <<x, n>> \in Entries
    BY <1>2, <2>1, ChainShort
  <2> QED
    BY <2>2
<1>9. ASSUME NEW d \in Entries, d # e PROVE F[d] = G[d]
  <2>1. d[1] \in Slot /\ d[2] \in 1..Len(table[d[1]]) /\ d = <<d[1], d[2]>>
    BY ChainShort
  <2>2. table[d[1]][d[2]].key # k
    BY <1>1, <1>2, <1>8, <1>9, <2>1 DEF InItsChain
  <2>3. /\ table'[d[1]][d[2]].key = table[d[1]][d[2]].key
        /\ table'[d[1]][d[2]].val = table[d[1]][d[2]].val
    BY <1>6, <2>1, <2>2
  <2> QED
    BY <1>4, <1>6, <1>7, <2>3 DEF EntrySizes, EntryBytes
<1>10. F[e] = SizeofEntry + Len(k) + 1 + SizeofObject(w)
  BY <1>3, <1>4, <1>8 DEF EntrySizes, EntryBytes
<1>11. G[e] = SizeofEntry + Len(k) + 1 + SizeofObject(v)
  <2>1. table'[x][n].key = k /\ table'[x][n].val = v
    BY <1>3, <1>6
  <2> QED
    BY <1>6, <1>7, <1>8, <2>1 DEF EntrySizes, EntryBytes
<1>12. Total(G) + F[e] = Total(F) + G[e] /\ Total(G) \in Nat /\ Total(F) \in Nat
  <2>1. IsFiniteSet(Entries)
    BY EntryFacts
  <2>2. Total(G) + F[e] = Total(F) + G[e]
    BY <1>9, <2>1, TotalChange
  <2>3. Total(G) \in Nat /\ Total(F) \in Nat
    BY <2>1, TotalIsNat
  <2> QED
    BY <2>2, <2>3
<1>13. Len(k) \in Nat /\ SizeofObject(w) \in Nat /\ SizeofObject(v) \in Nat /\ SizeofEntry \in Nat
  BY BytesAreNat, FifoAssumption DEF SizeofEntry
<1>14. Total(G) + SizeofObject(w) = Total(F) + SizeofObject(v)
  <2>1. PICK a \in Nat, b \in Nat : a = Total(F) /\ b = Total(G)
    BY <1>12
  <2>2. PICK h \in Nat : h = SizeofEntry + Len(k) + 1
    BY <1>13
  <2>3. PICK y \in Nat, z \in Nat : y = SizeofObject(w) /\ z = SizeofObject(v)
    BY <1>13
  <2>4. b + (h + y) = a + (h + z)
    BY <1>10, <1>11, <1>12, <2>1, <2>2, <2>3
  <2>5. b + y = a + z
    BY ONLY <2>4, a \in Nat, b \in Nat, h \in Nat, y \in Nat, z \in Nat
  <2> QED
    BY <2>1, <2>3, <2>5
<1> QED
  BY <1>1, <1>2, <1>3, <1>4, <1>7, <1>14 DEF Total

(* hashAdd puts a new key at the front of its chain (hash.c:34-39). *)
LEMMA AddTable ==
  ASSUME TypeOK, InItsChain, OncePerChain, NEW k \in Key, InTable(k), ~Found(k), NEW v \in Val,
         table' = [table EXCEPT ![Index(k)] = Chained(k, v)]
  PROVE  /\ table' \in [Slot -> Seq([key : Key, val : Val])]
         /\ \A s \in Slot : s # Index(k) => table'[s] = table[s]
         /\ Len(table'[Index(k)]) = Len(table[Index(k)]) + 1
         /\ table'[Index(k)][1] = [key |-> k, val |-> v]
         /\ \A i \in 1..Len(table[Index(k)]) : table'[Index(k)][i + 1] = table[Index(k)][i]
         /\ \A i \in 1..Len(table'[Index(k)]) : i # 1 => i - 1 \in 1..Len(table[Index(k)])
         /\ InItsChain' /\ OncePerChain'
<1>1. PICK x \in Slot : x = Index(k)
  BY DEF InTable
<1> DEFINE Pair == [key : Key, val : Val]
<1>2. PICK r \in Pair : r = [key |-> k, val |-> v]
  OBVIOUS
<1> HIDE DEF Pair
<1>3. PICK q \in Seq(Pair) : q = table[x]
  BY <1>1 DEF TypeOK, Pair
<1>4. PICK p \in Seq(Pair) : p = <<r>> \o q
  <2>1. <<r>> \in Seq(Pair)
    OBVIOUS
  <2> QED
    BY <2>1, ConcatProperties
<1>5. /\ Len(q) \in Nat /\ Len(p) = Len(q) + 1 /\ p[1] = r
      /\ \A i \in 1..Len(q) : p[i + 1] = q[i]
  BY <1>3, <1>4
<1>6. table' = [table EXCEPT ![x] = p] /\ table \in [Slot -> Seq(Pair)]
  BY <1>1, <1>2, <1>3, <1>4 DEF Chained, TypeOK, Pair
<1>7. table' \in [Slot -> Seq(Pair)] /\ table'[x] = p /\ \A s \in Slot : s # x => table'[s] = table[s]
  BY <1>6
<1>8. \A i \in 1..Len(p) : i = 1 \/ (i - 1 \in 1..Len(q) /\ p[i] = q[i - 1])
  <2> SUFFICES ASSUME NEW i \in 1..Len(p), i # 1 PROVE i - 1 \in 1..Len(q) /\ p[i] = q[i - 1]
    OBVIOUS
  <2>1. i - 1 \in 1..Len(q) /\ (i - 1) + 1 = i
    BY <1>5
  <2> QED
    BY <1>5, <2>1
<1>9. r.key = k /\ \A i \in 1..Len(q) : q[i].key # k
  BY <1>1, <1>2, <1>3, FoundEntry
<1>10. ASSUME NEW i \in 1..Len(p) PROVE Index(p[i].key) = x
  <2>1. \A j \in 1..Len(q) : Index(q[j].key) = x
    BY <1>1, <1>3 DEF InItsChain
  <2>2. CASE i = 1
    BY <1>1, <1>5, <1>9, <2>2
  <2>3. CASE i # 1
    BY <1>8, <2>1, <2>3
  <2> QED
    BY <2>2, <2>3
<1>11. ASSUME NEW i \in 1..Len(p), NEW j \in 1..Len(p), p[i].key = p[j].key PROVE i = j
  <2>1. CASE i = 1
    BY <1>5, <1>8, <1>9, <1>11, <2>1
  <2>2. CASE j = 1
    BY <1>5, <1>8, <1>9, <1>11, <2>2
  <2>3. CASE i # 1 /\ j # 1
    <3>1. \A a, b \in 1..Len(q) : q[a].key = q[b].key => a = b
      BY <1>3 DEF OncePerChain
    <3>2. /\ i - 1 \in 1..Len(q) /\ p[i] = q[i - 1]
          /\ j - 1 \in 1..Len(q) /\ p[j] = q[j - 1]
      BY <1>8, <2>3
    <3>3. i - 1 = j - 1
      BY <1>11, <3>1, <3>2
    <3> QED
      BY <3>3, <1>5
  <2> QED
    BY <2>1, <2>2, <2>3
<1>12. InItsChain'
  BY <1>7, <1>10 DEF InItsChain
<1>13. OncePerChain'
  BY <1>7, <1>11 DEF OncePerChain
<1> QED
  BY <1>1, <1>2, <1>3, <1>5, <1>7, <1>8, <1>12, <1>13 DEF Pair

(* There is then one entry more (hash.c:36). *)
LEMMA AddEntries ==
  ASSUME TypeOK, InItsChain, OncePerChain, NEW k \in Key, InTable(k), ~Found(k), NEW v \in Val,
         table' = [table EXCEPT ![Index(k)] = Chained(k, v)], TypeOK'
  PROVE  /\ Entries' = Entries \cup {<<Index(k), Len(table[Index(k)]) + 1>>}
         /\ Cardinality(Entries)' = Cardinality(Entries) + 1
<1>1. PICK x \in Slot : x = Index(k)
  BY DEF InTable
<1>2. PICK n \in Nat : n = Len(table[x])
  BY <1>1 DEF TypeOK
<1>3. /\ \A s \in Slot : s # x => table'[s] = table[s]
      /\ Len(table'[x]) = n + 1 /\ OncePerChain'
  BY <1>1, <1>2, AddTable
<1>4. /\ \A s \in Slot, i \in Nat : <<s, i>> \in Entries <=> i \in 1..Len(table[s])
      /\ \A e \in Entries : e[1] \in Slot /\ e[2] \in 1..Len(table[e[1]]) /\ e = <<e[1], e[2]>>
      /\ \A s \in Slot : Len(table[s]) \in Nat
  BY ChainShort
<1>5. (TypeOK /\ OncePerChain =>
        /\ \A s \in Slot : Len(table[s]) \in Nat /\ Len(table[s]) <= Cardinality(Key)
        /\ \A s \in Slot, i \in Nat : <<s, i>> \in Entries <=> i \in 1..Len(table[s])
        /\ \A e \in Entries : e[1] \in Slot /\ e[2] \in 1..Len(table[e[1]]) /\ e = <<e[1], e[2]>>)'
  BY ChainShort, PTL
<1>6. /\ \A s \in Slot, i \in Nat : <<s, i>> \in Entries' <=> i \in 1..Len(table'[s])
      /\ \A e \in Entries' : e[1] \in Slot /\ e[2] \in 1..Len(table'[e[1]]) /\ e = <<e[1], e[2]>>
  BY <1>3, <1>5
<1>7. PICK z : z = <<x, n + 1>>
  OBVIOUS
<1>8. z \in Entries' /\ z \notin Entries
  BY <1>2, <1>3, <1>4, <1>6, <1>7
<1>9. ASSUME NEW e \in Entries PROVE e \in Entries'
  <2>1. PICK s \in Slot, i \in Nat : e = <<s, i>> /\ i \in 1..Len(table[s])
    BY <1>4
  <2>2. i \in 1..Len(table'[s])
    BY <1>2, <1>3, <2>1
  <2> QED
    BY <1>6, <2>1, <2>2
<1>10. ASSUME NEW e \in Entries', e # z PROVE e \in Entries
  <2>1. PICK s \in Slot, i \in Nat : e = <<s, i>> /\ i \in 1..Len(table'[s])
    BY <1>3, <1>4, <1>6
  <2>2. i \in 1..Len(table[s])
    BY <1>2, <1>3, <1>7, <1>10, <2>1
  <2> QED
    BY <1>4, <2>1, <2>2
<1>11. Entries' = Entries \cup {z}
  BY <1>8, <1>9, <1>10
<1>12. Cardinality(Entries \cup {z}) = Cardinality(Entries) + 1
  BY <1>8, EntryFacts, FS_AddElement
<1> QED
  BY <1>1, <1>2, <1>7, <1>11, <1>12

(* Its bytes are added to those of the others, which move one place on in
   their chain (hash.c:34-35). *)
LEMMA AddTotal ==
  ASSUME TypeOK, InItsChain, OncePerChain, NEW k \in Key, InTable(k), ~Found(k), NEW v \in Val,
         table' = [table EXCEPT ![Index(k)] = Chained(k, v)], TypeOK'
  PROVE  Total(EntrySizes)' = Total(EntrySizes) + SizeofEntry + Len(k) + 1 + SizeofObject(v)
<1>1. PICK x \in Slot : x = Index(k)
  BY DEF InTable
<1>2. PICK n \in Nat : n = Len(table[x])
  BY <1>1 DEF TypeOK
<1>3. /\ \A s \in Slot : s # x => table'[s] = table[s]
      /\ table'[x][1] = [key |-> k, val |-> v]
      /\ \A i \in 1..n : table'[x][i + 1] = table[x][i]
  BY <1>1, <1>2, AddTable
<1>4. /\ \A i \in Nat : <<x, i>> \in Entries <=> i \in 1..n
      /\ \A e \in Entries : e[1] \in Slot /\ e[2] \in Nat /\ e = <<e[1], e[2]>>
  BY <1>2, ChainShort
<1>5. PICK S : S = Entries /\ IsFiniteSet(S)
  BY EntryFacts
<1>6. PICK T : T = Entries' /\ IsFiniteSet(T) /\ T = S \cup {<<x, n + 1>>}
  BY <1>1, <1>2, <1>5, AddEntries, FS_AddElement
<1>7. PICK F \in [S -> Nat] : F = EntrySizes
  BY <1>5, EntryFacts
<1>8. (EntrySizes \in [Entries -> Nat])'
  BY EntryFacts, PTL
<1>9. PICK G \in [T -> Nat] : G = EntrySizes'
  BY <1>6, <1>8
<1>10. \A e \in S : F[e] = EntryBytes(table[e[1]][e[2]])
  BY <1>5, <1>7 DEF EntrySizes
<1>11. \A e \in T : G[e] = EntryBytes(table'[e[1]][e[2]])
  BY <1>6, <1>9 DEF EntrySizes, EntryBytes
<1> DEFINE Moved(e) == IF e[1] = x THEN <<x, e[2] + 1>> ELSE e
           h == [e \in S |-> Moved(e)]
           z == <<x, 1>>
<1>12. ASSUME NEW e \in S
       PROVE  h[e] \in T /\ h[e] # z /\ G[h[e]] = F[e]
  <2>1. e[1] \in Slot /\ e[2] \in Nat /\ e = <<e[1], e[2]>>
    BY <1>4, <1>5
  <2>2. CASE e[1] = x
    <3>1. e[2] \in 1..n
      BY <1>4, <1>5, <2>1, <2>2
    <3>2. PICK y : y = <<x, e[2] + 1>> /\ y = h[e]
      BY <2>2
    <3>3. y \in T
      <4>1. CASE e[2] = n
        BY <1>6, <3>2, <4>1
      <4>2. CASE e[2] # n
        <5>1. e[2] + 1 \in 1..n /\ e[2] + 1 \in Nat
          BY <3>1, <4>2
        <5>2. <<x, e[2] + 1>> \in Entries
          BY <1>4, <5>1
        <5> QED
          BY <1>5, <1>6, <3>2, <5>2
      <4> QED
        BY <4>1, <4>2
    <3>4. G[y] = EntryBytes(table'[x][e[2] + 1])
      BY <1>11, <3>2, <3>3
    <3>5. G[y] = F[e]
      BY <1>3, <1>10, <2>2, <3>1, <3>4
    <3>6. y # z
      BY <3>1, <3>2
    <3> QED
      BY <3>2, <3>3, <3>5, <3>6
  <2>3. CASE e[1] # x
    BY <1>3, <1>6, <1>10, <1>11, <2>1, <2>3
  <2> QED
    BY <2>2, <2>3
<1>13. h \in [S -> T]
  BY <1>12
<1>14. ASSUME NEW d \in S, NEW e \in S, h[d] = h[e] PROVE d = e
  <2>1. /\ d[1] \in Slot /\ d[2] \in Nat /\ d = <<d[1], d[2]>>
        /\ e[1] \in Slot /\ e[2] \in Nat /\ e = <<e[1], e[2]>>
    BY <1>4, <1>5
  <2>2. Moved(d) = Moved(e)
    BY <1>14
  <2>3. d[1] = e[1]
    BY <2>1, <2>2
  <2>4. CASE d[1] = x
    <3>1. d[2] + 1 = e[2] + 1
      BY <2>2, <2>3, <2>4
    <3> QED
      BY <2>1, <2>3, <3>1
  <2>5. CASE d[1] # x
    BY <2>2, <2>3, <2>5
  <2> QED
    BY <2>4, <2>5
<1>15. z \in T
  <2>1. CASE n = 0
    BY <1>6, <2>1
  <2>2. CASE n # 0
    <3>1. <<x, 1>> \in Entries
      BY <1>4, <2>2
    <3> QED
      BY <1>5, <1>6, <3>1
  <2> QED
    BY <2>1, <2>2
<1>16. ASSUME NEW y \in T, y # z PROVE \E e \in S : y = h[e]
  <2>1. CASE y[1] = x
    <3>1. PICK i \in Nat : y = <<x, i + 1>> /\ i \in 1..n
      <4>1. CASE y = <<x, n + 1>>
        <5>1. n \in 1..n
          BY <1>16, <4>1
        <5> QED
          BY <4>1, <5>1
      <4>2. CASE y # <<x, n + 1>>
        <5>1. y \in Entries /\ y[2] \in 1..n /\ y = <<x, y[2]>>
          BY <1>4, <1>5, <1>6, <2>1, <4>2
        <5>2. y[2] # 1
          BY <1>16, <5>1
        <5>3. PICK i \in Nat : i = y[2] - 1
          BY <5>1, <5>2
        <5> QED
          BY <5>1, <5>2, <5>3
      <4> QED
        BY <4>1, <4>2
    <3>2. PICK e \in S : e = <<x, i>>
      BY <1>4, <1>5, <3>1
    <3>3. h[e] = <<x, i + 1>>
      BY <3>2
    <3> QED
      BY <3>1, <3>3
  <2>2. CASE y[1] # x
    <3>1. y \in S
      BY <1>6, <2>2
    <3>2. h[y] = y
      BY <2>2, <3>1
    <3> QED
      BY <3>1, <3>2
  <2> QED
    BY <2>1, <2>2
<1>17. G[z] = SizeofEntry + Len(k) + 1 + SizeofObject(v)
  <2>1. G[z] = EntryBytes(table'[x][1])
    BY <1>11, <1>15
  <2> QED
    BY <1>3, <2>1 DEF EntryBytes
<1> HIDE DEF h, z
<1>18. Total(G) = Total(F) + G[z]
  <2>1. \A y \in T : y # z <=> \E e \in S : y = h[e]
    BY <1>12, <1>16
  <2>2. \A d, e \in S : h[d] = h[e] => d = e
    BY <1>14
  <2>3. \A e \in S : G[h[e]] = F[e]
    BY <1>12
  <2> QED
    BY <1>5, <1>6, <1>13, <1>15, <2>1, <2>2, <2>3, TotalAdd
<1>19. Total(F) \in Nat /\ Len(k) \in Nat /\ SizeofObject(v) \in Nat /\ SizeofEntry \in Nat
  BY <1>5, TotalIsNat, BytesAreNat, FifoAssumption DEF SizeofEntry
<1>20. Total(G) = Total(F) + SizeofEntry + Len(k) + 1 + SizeofObject(v)
  BY <1>17, <1>18, <1>19
<1> QED
  BY <1>7, <1>9, <1>20 DEF Total

-----------------------------------------------------------------------------
(* Steps.                                                                  *)

(* One connection moves; keys stay in the table (bworker.c:13-26). *)
LEMMA OthersPlaced ==
  ASSUME InPlace, NEW c \in Client, Placed(c)',
         \A d \in Client : d # c => pc'[d] = pc[d] /\ req'[d] = req[d],
         \A k \in Key : InTable(k) /\ Found(k) => Found(k)'
  PROVE  InPlace'
<1> SUFFICES ASSUME NEW d \in Client, d # c PROVE Placed(d)'
  BY DEF InPlace
<1>1. Placed(d) /\ pc'[d] = pc[d] /\ req'[d] = req[d]
  BY DEF InPlace
<1>2. pc[d] = "push" => req[d].key \in Key
  BY <1>1, RequestParts DEF Placed
<1>3. pc[d] = "push" => InTable(req[d].key) /\ Found(req[d].key)'
  BY <1>1, <1>2 DEF Placed
<1>4. pc'[d] = "push" => InTable(req'[d].key) /\ Found(req[d].key)'
  BY <1>1, <1>3
<1> QED
  BY <1>1, <1>4 DEF Placed

(* The connections in the middle of a push (command.c:67-68). *)
LEMMA PushCount ==
  ASSUME TypeOK, NEW c \in Client, NEW l, pc' = [pc EXCEPT ![c] = l]
  PROVE  /\ Cardinality(Pushing) \in Nat
         /\ pc[c] # "push" /\ l # "push" => Pushing' = Pushing
         /\ pc[c] # "push" /\ l = "push" => Cardinality(Pushing)' = Cardinality(Pushing) + 1
         /\ pc[c] = "push" /\ l # "push" => Cardinality(Pushing)' = Cardinality(Pushing) - 1
<1>0. c \in DOMAIN pc
  BY DEF TypeOK, Thread
<1>1. pc'[c] = l /\ \A d \in Client : d # c => pc'[d] = pc[d]
  BY <1>0 DEF TypeOK, Thread
<1>2. IsFiniteSet(Pushing)
  <2>1. Pushing \in SUBSET Client
    BY DEF Pushing
  <2> QED
    BY <2>1, FifoAssumption, FS_Subset
<1>3. pc[c] # "push" /\ l # "push" => Pushing' = Pushing
  BY <1>1 DEF Pushing
<1>4. pc[c] # "push" /\ l = "push" => Pushing' = Pushing \cup {c} /\ c \notin Pushing
  BY <1>1 DEF Pushing
<1>5. pc[c] = "push" /\ l # "push" => Pushing' = Pushing \ {c} /\ c \in Pushing
  BY <1>1 DEF Pushing
<1> QED
  BY <1>2, <1>3, <1>4, <1>5, FS_CardinalityType, FS_AddElement, FS_RemoveElement

(* What the connections hold changes by what one of them does
   (bworker.c:13-26). *)
LEMMA ClientMove ==
  ASSUME IInv, TypeOK', InPlace', NEW c \in Client,
         \A d \in Client : d # c => pc'[d] = pc[d] /\ req'[d] = req[d]
  PROVE  /\ Total(ClientSizes)' + ClientBytes(c) = Total(ClientSizes) + ClientBytes(c)'
         /\ {Total(ClientSizes), Total(ClientSizes)', ClientBytes(c), ClientBytes(c)'} \subseteq Nat
<1>1. PICK F \in [Client -> Nat] : F = ClientSizes
  BY ClientFacts DEF IInv
<1>2. (ClientSizes \in [Client -> Nat])'
  BY ClientFacts, PTL
<1>3. PICK G \in [Client -> Nat] : G = ClientSizes'
  BY <1>2
<1>4. \A d \in Client : d # c => F[d] = G[d]
  BY <1>1, <1>3 DEF ClientSizes, ClientBytes
<1>5. F[c] = ClientBytes(c) /\ G[c] = ClientBytes(c)'
  BY <1>1, <1>3 DEF ClientSizes
<1>6. Total(G) + F[c] = Total(F) + G[c] /\ Total(F) \in Nat /\ Total(G) \in Nat
  BY <1>4, FifoAssumption, TotalChange, TotalIsNat
<1> QED
  BY <1>1, <1>3, <1>5, <1>6 DEF Total

(* So the bytes owed change by those of one connection, of the entries (x)
   and of the blocks (util.c:314, :330). *)
LEMMA OwedChange ==
  ASSUME IInv, TypeOK', InPlace', NEW c \in Client,
         \A d \in Client : d # c => pc'[d] = pc[d] /\ req'[d] = req[d],
         NEW x \in Int, Total(EntrySizes)' = Total(EntrySizes) + x
  PROVE  /\ Owed' = Owed + (x + ClientBytes(c)' - ClientBytes(c) + unfreed' - unfreed
                             + SizeofInt * (mallocs' - mallocs))
         /\ {ClientBytes(c), ClientBytes(c)', unfreed, unfreed', mallocs, mallocs'} \subseteq Nat
<1>1. PICK c0 \in Nat, c1 \in Nat, b0 \in Nat, b1 \in Nat :
        /\ c0 = Total(ClientSizes) /\ c1 = Total(ClientSizes)'
        /\ b0 = ClientBytes(c) /\ b1 = ClientBytes(c)' /\ c1 + b0 = c0 + b1
  BY ClientMove
<1>2. PICK e0 \in Nat, s \in Nat : e0 = Total(EntrySizes) /\ s = SizeofDb
  BY OwedIs, BytesAreNat DEF IInv
<1>3. PICK u0 \in Nat, u1 \in Nat, m0 \in Nat, m1 \in Nat :
        u0 = unfreed /\ u1 = unfreed' /\ m0 = mallocs /\ m1 = mallocs'
  BY DEF IInv, TypeOK
<1>4. Owed' = s + (e0 + x) + c1 + u1 + 4 * m1
  BY <1>1, <1>2, <1>3 DEF Owed, SizeofInt, SizeofDb, SizeofPtr, TableSize
<1>5. Owed = s + e0 + c0 + u0 + 4 * m0
  BY <1>1, <1>2, <1>3 DEF Owed, SizeofInt
<1>6. s + (e0 + x) + c1 + u1 + 4 * m1
        = (s + e0 + c0 + u0 + 4 * m0) + (x + b1 - b0 + u1 - u0 + 4 * (m1 - m0))
  BY <1>1
<1> QED
  BY <1>1, <1>3, <1>4, <1>5, <1>6 DEF SizeofInt

(* A step that leaves the table and its list alone, of a connection that is
   not pushing (command.c:37-61). *)
LEMMA TableKept ==
  ASSUME IInv, UNCHANGED <<table, used, memList, flashed, last>>, Pushing' = Pushing
  PROVE  /\ InItsChain' /\ OncePerChain' /\ Counted' /\ Latest'
         /\ Total(EntrySizes)' = Total(EntrySizes)
         /\ \A k \in Key : Found(k)' <=> Found(k)
<1>1. Entries' = Entries /\ \A k \in Key : Found(k)' <=> Found(k)
  BY DEF Entries, Found, ChainMatches
<1>2. EntrySizes' = EntrySizes
  BY <1>1 DEF EntrySizes, EntryBytes
<1>3. InItsChain' /\ OncePerChain'
  BY DEF IInv, InItsChain, OncePerChain
<1>4. Counted'
  BY <1>1 DEF IInv, Counted
<1>5. Latest'
  BY <1>1 DEF IInv, Latest
<1> QED
  BY <1>1, <1>2, <1>3, <1>4, <1>5 DEF Total

(* A connection goes from one place to another, and used_memory with what it
   holds then (util.c:314, :330). *)
LEMMA ConnectionStep ==
  ASSUME IInv, NEW c \in Client, NEW l, pc' = [pc EXCEPT ![c] = l],
         pc[c] # "push", l # "push",
         UNCHANGED <<table, used, memList, flashed, last>>,
         \A d \in Client : d # c => req'[d] = req[d],
         TypeOK', Placed(c)', NEW d \in Int,
         d = ClientBytes(c)' - ClientBytes(c) + unfreed' - unfreed + SizeofInt * (mallocs' - mallocs),
         used_memory' = ToInt(used_memory + d) \/ (d = 0 /\ used_memory' = used_memory)
  PROVE  IInv'
<1>0. TypeOK
  BY DEF IInv
<1>1. Pushing' = Pushing
  BY <1>0, PushCount
<1>2. /\ InItsChain' /\ OncePerChain' /\ Counted' /\ Latest'
      /\ Total(EntrySizes)' = Total(EntrySizes)
      /\ \A k \in Key : Found(k)' <=> Found(k)
  BY <1>1, TableKept
<1>3. \A e \in Client : e # c => pc'[e] = pc[e] /\ req'[e] = req[e]
  BY <1>0 DEF TypeOK, Thread
<1>4. InPlace'
  BY <1>2, <1>3, OthersPlaced DEF IInv
<1>5. Total(EntrySizes)' = Total(EntrySizes) + 0
  BY <1>2, OwedIs DEF IInv
<1>6. /\ Owed' = Owed + (0 + ClientBytes(c)' - ClientBytes(c) + unfreed' - unfreed
                          + SizeofInt * (mallocs' - mallocs))
      /\ {ClientBytes(c), ClientBytes(c)', unfreed, unfreed', mallocs, mallocs'} \subseteq Nat
  BY <1>3, <1>4, <1>5, OwedChange
<1>8. Owed' = Owed + d
  BY <1>6
<1>9. UsedMemoryExplained'
  BY <1>4, <1>8, AccountKept
<1> QED
  BY <1>2, <1>4, <1>9 DEF IInv

(* Where a thread can be. *)
Label == {"accept", "recv", "closed", "memcheck", "listcheck", "lock", "exec", "push",
          "evictall", "evictwait", "kill", "send", "spin", "destroy", "exit"}

(* A thread goes to a label (bworker.c:13-26). *)
LEMMA GoesTo ==
  ASSUME TypeOK, NEW t \in Thread, NEW l \in Label, pc' = [pc EXCEPT ![t] = l]
  PROVE  pc' \in [Thread -> Label] /\ pc'[t] = l /\ \A u \in Thread : u # t => pc'[u] = pc[u]
<1>1. pc \in [Thread -> Label]
  BY DEF TypeOK, Label
<1> QED
  BY <1>1

(* A null or stray pointer (command.c:19, hash.c:52). *)
LEMMA UndefinedStep ==
  ASSUME IInv, proc' \in {"running", "exited", "undefined"}, UNCHANGED <<pc, dataVars>>
  PROVE  IInv'
<1>0. TypeOK /\ InPlace
  BY DEF IInv
<1>1. UNCHANGED <<pc, req, reply, ops, mutex, table, used, memList, flash, fcache_mutex,
                  flashed, used_memory, mallocs, unfreed, last>>
  BY DEF dataVars, memVars, flashVars, heapVars
<1>2. TypeOK'
  BY <1>0, <1>1 DEF TypeOK
<1>3. Pushing' = Pushing
  BY <1>1 DEF Pushing
<1>4. /\ InItsChain' /\ OncePerChain' /\ Counted' /\ Latest'
      /\ Total(EntrySizes)' = Total(EntrySizes)
      /\ \A k \in Key : Found(k)' <=> Found(k)
  BY <1>1, <1>3, TableKept
<1>5. InPlace'
  BY <1>0, <1>1 DEF InPlace, Placed, Found, ChainMatches
<1>6. Owed' = Owed + 0
  <2>1. ClientSizes' = ClientSizes
    BY <1>1 DEF ClientSizes, ClientBytes
  <2>2. Owed' = Owed
    BY <1>1, <1>4, <2>1 DEF Owed, Total
  <2> QED
    BY <1>0, <2>2, OwedIs
<1>7. UsedMemoryExplained'
  BY <1>1, <1>2, <1>5, <1>6, AccountKept
<1> QED
  BY <1>2, <1>4, <1>5, <1>7 DEF IInv

(* The handler of SIGINT takes and frees no block (server.c:5-25). *)
LEMMA MainStep ==
  ASSUME IInv, NEW l, pc' = [pc EXCEPT ![Main] = l], TypeOK',
         UNCHANGED <<req, table, used, memList, flashed, last, used_memory, mallocs, unfreed>>
  PROVE  IInv'
<1>0. TypeOK /\ InPlace
  BY DEF IInv
<1>1. \A c \in Client : pc'[c] = pc[c]
  BY <1>0, FifoAssumption DEF TypeOK, Thread
<1>3. Pushing' = Pushing
  BY <1>1 DEF Pushing
<1>4. /\ InItsChain' /\ OncePerChain' /\ Counted' /\ Latest'
      /\ Total(EntrySizes)' = Total(EntrySizes)
      /\ \A k \in Key : Found(k)' <=> Found(k)
  BY <1>3, TableKept
<1>5. InPlace'
  BY <1>0, <1>1 DEF InPlace, Placed, Found, ChainMatches
<1>6. Owed' = Owed + 0
  <2>1. ClientSizes' = ClientSizes
    BY <1>1 DEF ClientSizes, ClientBytes
  <2>2. Owed' = Owed
    BY <1>4, <2>1 DEF Owed, Total
  <2> QED
    BY <1>0, <2>2, OwedIs
<1>7. UsedMemoryExplained'
  BY <1>5, <1>6, AccountKept
<1> QED
  BY <1>4, <1>5, <1>7 DEF IInv

(* A connection is accepted (bworker.c:48-51, util.c:314). *)
LEMMA AcceptStep ==
  ASSUME IInv, NEW c \in Client, Accept(c)
  PROVE  IInv'
<1>0. TypeOK /\ pc[c] = "accept"
  BY DEF IInv, Accept, At
<1>1. /\ pc' = [pc EXCEPT ![c] = "recv"]
      /\ used_memory' = ToInt(used_memory + SizeofClient + 2 * SizeofInt)
      /\ mallocs' = mallocs + 2
      /\ UNCHANGED <<proc, req, reply, ops, mutex, table, used, memList, flash, fcache_mutex,
                     flashed, unfreed, last>>
  BY DEF Accept, Malloc, Goto, memVars, flashVars
<1>2. PICK u \in Int : u = used_memory
  BY <1>0, FifoAssumption DEF TypeOK
<1>3. PICK d \in Int : d = SizeofClient + 2 * SizeofInt
  BY BytesAreNat DEF SizeofInt
<1>4. used_memory' = ToInt(used_memory + d)
  BY <1>1, <1>2, <1>3, BytesAreNat DEF SizeofInt
<1>5. used_memory' \in -IntRange..(IntRange - 1)
  BY <1>2, <1>3, <1>4, IntWraps
<1>6. pc' \in [Thread -> Label] /\ pc'[c] = "recv"
  BY <1>0, <1>1, GoesTo DEF Thread, Label
<1>7. TypeOK'
  <2>1. mallocs' \in Nat /\ unfreed' \in Nat
    BY <1>0, <1>1 DEF TypeOK
  <2> QED
    BY <1>0, <1>1, <1>5, <1>6, <2>1 DEF TypeOK, Label
<1>8. Placed(c)'
  BY <1>6 DEF Placed
<1>9. ClientBytes(c) = 0 /\ ClientBytes(c)' = SizeofClient
  BY <1>0, <1>6 DEF ClientBytes, SizeofClient
<1>10. d = ClientBytes(c)' - ClientBytes(c) + unfreed' - unfreed + SizeofInt * (mallocs' - mallocs)
  BY <1>0, <1>1, <1>3, <1>9, BytesAreNat DEF SizeofInt, TypeOK
<1> QED
  BY <1>0, <1>1, <1>4, <1>7, <1>8, <1>10, ConnectionStep

(* A connection goes on with its request and takes or frees no memory
   (command.c:37-61). *)
LEMMA QuietMove ==
  ASSUME IInv, NEW c \in Client, NEW l \in Label, pc' = [pc EXCEPT ![c] = l],
         pc[c] \notin {"accept", "recv", "closed", "push", "send"},
         l \notin {"accept", "recv", "closed", "push"}, l = "send" => req[c].cmd # "set",
         UNCHANGED <<req, table, used, memList, flashed, last, used_memory, mallocs, unfreed>>,
         TypeOK', Placed(c)'
  PROVE  IInv'
<1>0. TypeOK /\ req[c] \in Request
  BY DEF IInv, InPlace, Placed
<1>1. pc'[c] = l
  BY <1>0, GoesTo DEF Thread
<1>2. WordBytes(req[c]) \in Nat /\ ValBytes(req[c]) \in Nat /\ (l = "send" => ValBytes(req[c]) = 0)
  BY <1>0, RequestParts
<1>3. ClientBytes(c) = SizeofClient + WordBytes(req[c]) + ValBytes(req[c])
  BY DEF ClientBytes
<1>4. ClientBytes(c)' = IF l = "send" THEN SizeofClient + WordBytes(req[c])
                        ELSE SizeofClient + WordBytes(req[c]) + ValBytes(req[c])
  BY <1>1 DEF ClientBytes
<1>5. ClientBytes(c)' = ClientBytes(c) /\ ClientBytes(c) \in Nat
  BY <1>2, <1>3, <1>4, BytesAreNat
<1>6. PICK d \in Int : d = 0
  OBVIOUS
<1>7. d = ClientBytes(c)' - ClientBytes(c) + unfreed' - unfreed + SizeofInt * (mallocs' - mallocs)
  BY <1>0, <1>5, <1>6 DEF TypeOK, SizeofInt
<1>8. pc[c] # "push" /\ l # "push" /\ \A e \in Client : e # c => req'[e] = req[e]
  OBVIOUS
<1>9. used_memory' = ToInt(used_memory + d) \/ (d = 0 /\ used_memory' = used_memory)
  BY <1>6
<1>10. UNCHANGED <<table, used, memList, flashed, last>>
  OBVIOUS
<1> QED
  BY <1>7, <1>8, <1>9, <1>10, ConnectionStep

(* memUsedCheck and the lock (command.c:2-36, :40). *)
LEMMA CheckSteps ==
  ASSUME IInv, NEW c \in Client, MemUsedCheck(c) \/ ListCheck(c) \/ Lock(c)
  PROVE  IInv'
<1>0. TypeOK /\ Placed(c) /\ pc[c] \in {"memcheck", "listcheck", "lock"}
  BY DEF IInv, InPlace, MemUsedCheck, ListCheck, Lock, At
<1>1. CASE Undefined
  BY <1>1, UndefinedStep DEF Undefined
<1>2. CASE ~Undefined
  <2>1. PICK l \in {"listcheck", "lock", "exec"} :
          /\ pc' = [pc EXCEPT ![c] = l]
          /\ l = "listcheck" => pc[c] = "memcheck"
          /\ mutex' \in {mutex, c}
          /\ UNCHANGED <<proc, req, reply, ops, table, used, memList, flash, fcache_mutex,
                         flashed, used_memory, mallocs, unfreed, last>>
    <3>1. CASE MemUsedCheck(c)
      BY <3>1 DEF MemUsedCheck, At, Goto, dataVars, memVars, flashVars, heapVars
    <3>2. CASE ListCheck(c)
      BY <1>2, <3>2 DEF ListCheck, Goto, dataVars, memVars, flashVars, heapVars
    <3>3. CASE Lock(c)
      BY <3>3 DEF Lock, Goto, memVars, flashVars, heapVars
    <3> QED
      BY <3>1, <3>2, <3>3
  <2>2. pc' \in [Thread -> Label] /\ pc'[c] = l
    BY <1>0, <2>1, GoesTo DEF Thread, Label
  <2>3. TypeOK'
    BY <1>0, <2>1, <2>2 DEF TypeOK, Label
  <2>4. Placed(c)'
    BY <1>0, <2>1, <2>2 DEF Placed
  <2> QED
    BY <1>0, <2>1, <2>3, <2>4, QuietMove DEF Label
<1> QED
  BY <1>1, <1>2

(* evictAllCommand and flashCacheDestroy, by a connection or by the handler
   of SIGINT (command.c:48-53, :141-174, server.c:5-25). *)
LEMMA EvictSteps ==
  ASSUME IInv, NEW t \in Thread, EvictAll(t) \/ EvictWait(t) \/ Destroy(t)
  PROVE  IInv'
<1>0. TypeOK /\ pc[t] \in {"evictall", "evictwait", "kill", "destroy"}
  BY DEF IInv, EvictAll, EvictWait, Destroy, At
<1>1. CASE Undefined
  BY <1>1, UndefinedStep DEF Undefined
<1>2. CASE ~Undefined
  <2>1. PICK l \in {"evictwait", "destroy", "send", "exit"} :
          /\ pc' = [pc EXCEPT ![t] = l]
          /\ l \in {"destroy", "exit"} => t = Main
          /\ flash' \in {"open", "destroyed"}
          /\ UNCHANGED <<proc, req, reply, ops, mutex, table, used, memList, fcache_mutex,
                         flashed, used_memory, mallocs, unfreed, last>>
    <3>0. flash \in {"open", "destroyed"}
      BY <1>0 DEF TypeOK
    <3>1. CASE EvictAll(t)
      BY <1>2, <3>0, <3>1 DEF EvictAll, Goto, dataVars, memVars, flashVars, heapVars
    <3>2. CASE EvictWait(t)
      BY <3>0, <3>2 DEF EvictWait, Goto, dataVars, memVars, flashVars, heapVars
    <3>3. CASE Destroy(t)
      BY <1>2, <3>3 DEF Destroy, Goto, memVars, heapVars
    <3> QED
      BY <3>1, <3>2, <3>3
  <2>2. pc' \in [Thread -> Label] /\ pc'[t] = l
    BY <1>0, <2>1, GoesTo DEF Label
  <2>3. TypeOK'
    BY <1>0, <2>1, <2>2 DEF TypeOK, Label
  <2>4. CASE t = Main
    BY <2>1, <2>3, <2>4, MainStep
  <2>5. CASE t # Main
    <3>1. t \in Client /\ Placed(t)
      BY <2>5 DEF Thread, IInv, InPlace
    <3>2. Placed(t)' /\ req[t].cmd # "set"
      BY <1>0, <2>1, <2>2, <2>5, <3>1 DEF Placed
    <3> QED
      BY <1>0, <2>1, <2>3, <3>1, <3>2, QuietMove DEF Label
  <2> QED
    BY <2>4, <2>5
<1> QED
  BY <1>1, <1>2

(* tcpRecv and parsingMessage (bworker.c:14-22, util.c:247-280). *)
LEMMA RecvStep ==
  ASSUME IInv, NEW c \in Client, Recv(c)
  PROVE  IInv'
<1>0. TypeOK /\ pc[c] = "recv" /\ ops < MaxRequests /\ ops \in Nat
  <2>1. TypeOK /\ pc[c] = "recv" /\ ops < MaxRequests
    BY DEF IInv, Recv, At
  <2>2. ops \in Nat
    BY <2>1, FifoAssumption DEF TypeOK
  <2> QED
    BY <2>1, <2>2
<1>1. PICK r \in Request :
        /\ req' = [req EXCEPT ![c] = r]
        /\ Malloc(1 + Argc(r), ArgvBytes(r) + WordBytes(r) + ValBytes(r))
        /\ unfreed' = unfreed + ArgvBytes(r)
        /\ Goto(c, FirstLabel(r.cmd))
  BY DEF Recv
<1>2. /\ reply' = [reply EXCEPT ![c] = None] /\ ops' = ops + 1
      /\ UNCHANGED <<proc, mutex, table, used, memList, flash, fcache_mutex, flashed, last>>
  BY DEF Recv, memVars, flashVars
<1>3. PICK a \in Nat, w \in Nat, v \in Nat, n \in Nat :
        a = ArgvBytes(r) /\ w = WordBytes(r) /\ v = ValBytes(r) /\ n = Argc(r)
  BY RequestParts
<1>4. r.cmd # "set" => v = 0
  BY <1>3, RequestParts
<1>5. PICK d \in Int : d = a + w + v + (1 + n) * 4
  OBVIOUS
<1>6. PICK u \in Int : u = used_memory
  BY <1>0, FifoAssumption DEF TypeOK
<1>7. used_memory' = ToInt(used_memory + d)
  <2>1. used_memory' = ToInt(u + (a + w + v) + (1 + n) * 4)
    BY <1>1, <1>3, <1>6 DEF Malloc, SizeofInt
  <2>2. u + (a + w + v) + (1 + n) * 4 = u + d
    BY <1>5
  <2> QED
    BY <1>6, <2>1, <2>2
<1>8. used_memory' \in -IntRange..(IntRange - 1)
  BY <1>6, <1>7, IntWraps
<1>9. PICK l \in Label : /\ l = FirstLabel(r.cmd) /\ pc' = [pc EXCEPT ![c] = l]
                         /\ l \in {"memcheck", "lock", "evictall", "kill", "send"}
                         /\ l = "memcheck" => r.cmd = "set"
                         /\ l = "lock" => r.cmd = "get"
                         /\ l \in {"evictall", "kill", "send"} => r.cmd \notin {"set", "get"}
  BY <1>1, RequestParts DEF FirstLabel, Goto, Label
<1>10. pc' \in [Thread -> Label] /\ pc'[c] = l
  BY <1>0, <1>9, GoesTo DEF Thread
<1>11. /\ req' \in [Client -> Request \cup {None}] /\ req'[c] = r
       /\ \A e \in Client : e # c => req'[e] = req[e]
  BY <1>0, <1>1 DEF TypeOK
<1>12. mallocs' = mallocs + (1 + n) /\ unfreed' = unfreed + a /\ mallocs \in Nat /\ unfreed \in Nat
  BY <1>0, <1>1, <1>3 DEF Malloc, TypeOK
<1>13. TypeOK'
  <2>1. mallocs' \in Nat /\ unfreed' \in Nat /\ ops' \in 0..MaxRequests
    BY <1>0, <1>2, <1>12, FifoAssumption
  <2>2. reply' \in [Client -> Val \cup {None}]
    BY <1>0, <1>2 DEF TypeOK
  <2> QED
    BY <1>0, <1>2, <1>8, <1>10, <1>11, <2>1, <2>2 DEF TypeOK, Label
<1>14. Placed(c)'
  BY <1>9, <1>10, <1>11 DEF Placed
<1>15. ClientBytes(c) = SizeofClient /\ SizeofClient \in Nat
  BY <1>0, BytesAreNat DEF ClientBytes
<1>16. ClientBytes(c)' = SizeofClient + w + v
  <2>1. ClientBytes(c)' = IF l = "send" THEN SizeofClient + WordBytes(r)
                          ELSE SizeofClient + WordBytes(r) + ValBytes(r)
    BY <1>9, <1>10, <1>11 DEF ClientBytes
  <2> QED
    BY <1>3, <1>4, <1>9, <1>15, <2>1
<1>17. d = ClientBytes(c)' - ClientBytes(c) + unfreed' - unfreed + SizeofInt * (mallocs' - mallocs)
  <2>1. d = (SizeofClient + w + v) - SizeofClient + a + 4 * (1 + n)
    BY <1>5, <1>15
  <2>2. unfreed' - unfreed = a /\ mallocs' - mallocs = 1 + n
    BY <1>12
  <2> QED
    BY <1>12, <1>15, <1>16, <2>1, <2>2 DEF SizeofInt
<1>18. pc[c] # "push" /\ l # "push" /\ UNCHANGED <<table, used, memList, flashed, last>>
  BY <1>0, <1>2, <1>9
<1> QED
  BY <1>7, <1>9, <1>11, <1>13, <1>14, <1>17, <1>18, ConnectionStep

(* argv[0] and argv[1] are freed (bworker.c:24); a connection at its end
   frees its buffer and itself (bworker.c:15-20). *)
LEMMA FreeStep ==
  ASSUME IInv, NEW c \in Client, Send(c) \/ Close(c)
  PROVE  IInv'
<1>0. TypeOK /\ Placed(c) /\ pc[c] \in {"send", "recv"}
  BY DEF IInv, InPlace, Send, Close, At
<1>1. PICK b \in Nat, l \in {"recv", "closed"} :
        /\ used_memory' = ToInt(used_memory - b) /\ pc' = [pc EXCEPT ![c] = l]
        /\ ClientBytes(c) = b + (IF l = "recv" THEN SizeofClient ELSE 0)
  <2>0. SizeofClient \in Nat
    BY BytesAreNat
  <2>1. CASE Send(c)
    <3>1. pc[c] = "send" /\ WordBytes(req[c]) \in Nat
      BY <1>0, <2>1, RequestParts DEF Send, At, Placed
    <3>2. used_memory' = ToInt(used_memory - WordBytes(req[c])) /\ pc' = [pc EXCEPT ![c] = "recv"]
      BY <2>1 DEF Send, Free, Goto
    <3>3. ClientBytes(c) = WordBytes(req[c]) + SizeofClient
      BY <2>0, <3>1 DEF ClientBytes
    <3> QED
      BY <3>1, <3>2, <3>3
  <2>2. CASE Close(c)
    <3>1. pc[c] = "recv" /\ used_memory' = ToInt(used_memory - SizeofClient) /\ pc' = [pc EXCEPT ![c] = "closed"]
      BY <2>2 DEF Close, At, Free, Goto
    <3>2. ClientBytes(c) = SizeofClient + 0
      BY <2>0, <3>1 DEF ClientBytes
    <3> QED
      BY <2>0, <3>1, <3>2
  <2> QED
    BY <2>1, <2>2
<1>2. UNCHANGED <<proc, req, reply, ops, mutex, table, used, memList, flash, fcache_mutex,
                  flashed, mallocs, unfreed, last>>
  BY DEF Send, Close, memVars, flashVars
<1>3. PICK d \in Int : d = -b
  OBVIOUS
<1>4. PICK u \in Int : u = used_memory
  BY <1>0, FifoAssumption DEF TypeOK
<1>5. used_memory' = ToInt(used_memory + d)
  <2>1. u - b = u + d
    BY <1>3
  <2> QED
    BY <1>1, <1>4, <2>1
<1>6. used_memory' \in -IntRange..(IntRange - 1)
  BY <1>4, <1>5, IntWraps
<1>7. pc' \in [Thread -> Label] /\ pc'[c] = l
  BY <1>0, <1>1, GoesTo DEF Thread, Label
<1>8. TypeOK'
  BY <1>0, <1>2, <1>6, <1>7 DEF TypeOK, Label
<1>9. Placed(c)'
  BY <1>1, <1>7 DEF Placed
<1>10. ClientBytes(c)' = IF l = "recv" THEN SizeofClient ELSE 0
  BY <1>1, <1>7 DEF ClientBytes, SizeofClient
<1>11. d = ClientBytes(c)' - ClientBytes(c) + unfreed' - unfreed + SizeofInt * (mallocs' - mallocs)
  <2>1. mallocs \in Nat /\ unfreed \in Nat
    BY <1>0 DEF TypeOK
  <2>2. PICK h \in Nat : h = ClientBytes(c)' /\ ClientBytes(c) = b + h
    BY <1>1, <1>10, BytesAreNat
  <2> QED
    BY <1>2, <1>3, <2>1, <2>2 DEF SizeofInt
<1>12. /\ pc[c] # "push" /\ l # "push" /\ UNCHANGED <<table, used, memList, flashed, last>>
       /\ \A e \in Client : e # c => req'[e] = req[e]
  BY <1>0, <1>1, <1>2
<1> QED
  BY <1>1, <1>5, <1>8, <1>9, <1>11, <1>12, ConnectionStep

(* A key stays in the table when its entry or another is replaced or added
   (command.c:66-70). *)
LEMMA StillFound ==
  ASSUME TypeOK, InItsChain, OncePerChain, TypeOK', OncePerChain',
         NEW k \in Key, InTable(k), NEW v \in Val,
         \/ Found(k) /\ table' = [table EXCEPT ![Index(k)][EntryAt(k)].val = v]
         \/ ~Found(k) /\ table' = [table EXCEPT ![Index(k)] = Chained(k, v)]
  PROVE  /\ \A q \in Key : InTable(q) /\ Found(q) => Found(q)'
         /\ Found(k)'
<1>1. ASSUME NEW q \in Key, InTable(q), NEW i \in 1..Len(table'[Index(q)]),
             table'[Index(q)][i].key = q
      PROVE  Found(q)'
  <2>1. table' \in [Slot -> Seq([key : Key, val : Val])] /\ Index(q) \in Slot
    BY <1>1 DEF TypeOK, InTable
  <2>2. i \in DOMAIN table'[Index(q)]
    BY <1>1, <2>1
  <2> QED
    BY <1>1, <2>2 DEF Found, ChainMatches
<1>2. CASE Found(k) /\ table' = [table EXCEPT ![Index(k)][EntryAt(k)].val = v]
  <2>1. \A s \in Slot : /\ Len(table'[s]) = Len(table[s])
                        /\ \A i \in 1..Len(table[s]) : table'[s][i].key = table[s][i].key
    BY <1>2, ReplaceTable
  <2>2. ASSUME NEW q \in Key, InTable(q), Found(q) PROVE Found(q)'
    <3>1. PICK i \in 1..Len(table[Index(q)]) : table[Index(q)][i].key = q
      BY <2>2, FoundEntry
    <3>2. i \in 1..Len(table'[Index(q)]) /\ table'[Index(q)][i].key = q
      BY <2>1, <2>2, <3>1 DEF InTable
    <3> QED
      BY <1>1, <2>2, <3>2
  <2> QED
    BY <1>2, <2>2
<1>3. CASE ~Found(k) /\ table' = [table EXCEPT ![Index(k)] = Chained(k, v)]
  <2>1. /\ \A s \in Slot : s # Index(k) => table'[s] = table[s]
        /\ Len(table'[Index(k)]) = Len(table[Index(k)]) + 1
        /\ table'[Index(k)][1] = [key |-> k, val |-> v]
        /\ \A i \in 1..Len(table[Index(k)]) : table'[Index(k)][i + 1] = table[Index(k)][i]
    BY <1>3, AddTable
  <2>2. PICK n \in Nat : n = Len(table[Index(k)])
    BY DEF TypeOK, InTable
  <2>3. Found(k)'
    <3>1. 1 \in 1..Len(table'[Index(k)]) /\ table'[Index(k)][1].key = k
      BY <2>1, <2>2
    <3> QED
      BY <1>1, <3>1
  <2>4. ASSUME NEW q \in Key, InTable(q), Found(q) PROVE Found(q)'
    <3>1. PICK i \in 1..Len(table[Index(q)]) : table[Index(q)][i].key = q
      BY <2>4, FoundEntry
    <3>2. CASE Index(q) = Index(k)
      <4>1. i + 1 \in 1..Len(table'[Index(q)]) /\ table'[Index(q)][i + 1].key = q
        BY <2>1, <2>2, <3>1, <3>2
      <4> QED
        BY <1>1, <2>4, <4>1
    <3>3. CASE Index(q) # Index(k)
      <4>1. i \in 1..Len(table'[Index(q)]) /\ table'[Index(q)][i].key = q
        BY <2>1, <2>4, <3>1, <3>3 DEF InTable
      <4> QED
        BY <1>1, <2>4, <4>1
    <3> QED
      BY <3>2, <3>3
  <2> QED
    BY <2>3, <2>4
<1> QED
  BY <1>2, <1>3

(* A SET of a key in the table (command.c:70). *)
LEMMA ReplaceStep ==
  ASSUME IInv, NEW c \in Client, Set(c), Found(req[c].key)
  PROVE  IInv'
<1>0. TypeOK /\ InItsChain /\ OncePerChain /\ Placed(c) /\ pc[c] = "exec" /\ req[c].cmd = "set"
  BY DEF IInv, InPlace, Set, At
<1>1. PICK k \in Key, v \in Val : k = req[c].key /\ v = req[c].val
  BY <1>0, RequestParts DEF Placed
<1>2. PICK o \in Nat : o = SizeofObject(table[Index(k)][EntryAt(k)].val)
  <2>1. Index(k) \in Slot /\ EntryAt(k) \in 1..Len(table[Index(k)])
    BY <1>0, <1>1, FoundEntry DEF Set
  <2>2. table[Index(k)][EntryAt(k)].val \in Val
    BY <1>0, <2>1, ChainEntry
  <2> QED
    BY <2>2, BytesAreNat
<1>3. /\ InTable(k) /\ Found(k)
      /\ table' = [table EXCEPT ![Index(k)][EntryAt(k)].val = v]
      /\ unfreed' = unfreed + o /\ mutex' = None /\ pc' = [pc EXCEPT ![c] = "send"]
      /\ last' = [last EXCEPT ![k] = v]
      /\ UNCHANGED <<proc, req, reply, ops, memList, flash, fcache_mutex, flashed, used,
                     used_memory, mallocs>>
  BY <1>1, <1>2 DEF Set, CacheAdd, Finish, Goto, flashVars
<1>4. /\ table' \in [Slot -> Seq([key : Key, val : Val])]
      /\ \A s \in Slot :
           /\ Len(table'[s]) = Len(table[s])
           /\ \A i \in 1..Len(table[s]) :
                /\ table'[s][i].key = table[s][i].key
                /\ table'[s][i].val = IF table[s][i].key = k THEN v ELSE table[s][i].val
      /\ InItsChain' /\ OncePerChain'
      /\ Entries' = Entries
  BY <1>0, <1>3, ReplaceTable
<1>5. pc' \in [Thread -> Label] /\ pc'[c] = "send"
  BY <1>0, <1>3, GoesTo DEF Thread, Label
<1>6. last' \in [Key -> Val \cup {None}] /\ last'[k] = v /\ \A q \in Key : q # k => last'[q] = last[q]
  BY <1>0, <1>3 DEF TypeOK
<1>7. unfreed' \in Nat /\ mallocs' \in Nat /\ unfreed \in Nat /\ mallocs \in Nat
  BY <1>0, <1>3 DEF TypeOK
<1>8. TypeOK'
  BY <1>0, <1>3, <1>4, <1>5, <1>6, <1>7 DEF TypeOK, Label
<1>9. \A q \in Key : InTable(q) /\ Found(q) => Found(q)'
  BY <1>0, <1>3, <1>4, <1>8, StillFound
<1>10. \A e \in Client : e # c => pc'[e] = pc[e] /\ req'[e] = req[e]
  BY <1>0, <1>3 DEF TypeOK, Thread
<1>11. InPlace'
  <2>1. Placed(c)'
    BY <1>0, <1>3, <1>5 DEF Placed
  <2> QED
    BY <1>9, <1>10, <2>1, OthersPlaced DEF IInv
<1>12. Counted'
  <2>1. Pushing' = Pushing
    BY <1>0, <1>5, <1>10 DEF Pushing
  <2> QED
    BY <1>3, <1>4, <2>1 DEF IInv, Counted
<1>13. Latest'
  <2>1. ASSUME NEW s \in Slot, NEW i \in 1..Len(table'[s])
        PROVE  last'[table'[s][i].key] = table'[s][i].val
    <3>1. i \in 1..Len(table[s]) /\ table[s][i].key \in Key
      BY <1>0, <1>4, <2>1, ChainEntry
    <3>2. /\ table'[s][i].key = table[s][i].key
          /\ table'[s][i].val = IF table[s][i].key = k THEN v ELSE table[s][i].val
      BY <1>4, <3>1
    <3>3. last[table[s][i].key] = table[s][i].val
      BY <3>1 DEF IInv, Latest
    <3> QED
      BY <1>6, <3>1, <3>2, <3>3
  <2>2. ASSUME NEW q \in Key, InTable(q) => ~Found(q)' PROVE last'[q] = flashed'[q]
    <3>1. InTable(q) => ~Found(q)
      BY <1>9, <2>2
    <3>2. q # k
      BY <1>3, <3>1
    <3> QED
      BY <1>3, <1>6, <3>1, <3>2 DEF IInv, Latest
  <2>3. (InTable(k))' <=> InTable(k)
    OBVIOUS
  <2> QED
    BY <2>1, <2>2 DEF Latest
<1>14. Owed' = Owed + 0
  <2>1. PICK z \in Nat : z = SizeofObject(v)
    BY BytesAreNat
  <2>2. Total(EntrySizes)' = Total(EntrySizes) + (z - o)
    <3>1. Total(EntrySizes)' + o = Total(EntrySizes) + z
      BY <1>0, <1>2, <1>3, <1>8, <2>1, ReplaceTotal
    <3>2. Total(EntrySizes) \in Nat /\ Total(EntrySizes)' \in Nat
      <4>1. (TypeOK /\ InPlace => {Owed, Total(EntrySizes), Total(ClientSizes)} \subseteq Nat)'
        BY OwedIs, PTL
      <4> QED
        BY <1>8, <1>11, <4>1, OwedIs DEF IInv
    <3> QED
      BY <3>1, <3>2
  <2>3. PICK w \in Nat : w = SizeofClient + WordBytes(req[c])
    BY <1>0, RequestParts, BytesAreNat DEF Placed
  <2>4. ClientBytes(c) = w + z /\ ClientBytes(c)' = w
    <3>1. ValBytes(req[c]) = z
      BY <1>0, <1>1, <2>1, RequestParts DEF Placed
    <3>2. ClientBytes(c)' = SizeofClient + WordBytes(req[c])
      BY <1>3, <1>5 DEF ClientBytes
    <3>3. ClientBytes(c) = SizeofClient + WordBytes(req[c]) + ValBytes(req[c])
      BY <1>0 DEF ClientBytes
    <3> QED
      BY <2>3, <3>1, <3>2, <3>3
  <2>5. Owed' = Owed + ((z - o) + ClientBytes(c)' - ClientBytes(c) + unfreed' - unfreed
                         + SizeofInt * (mallocs' - mallocs))
    <3>1. z - o \in Int
      OBVIOUS
    <3> QED
      BY <1>8, <1>10, <1>11, <2>2, <3>1, OwedChange
  <2>6. unfreed' = unfreed + o /\ mallocs' = mallocs
    BY <1>3
  <2>7. (z - o) + ClientBytes(c)' - ClientBytes(c) + unfreed' - unfreed
           + SizeofInt * (mallocs' - mallocs) = 0
    BY <1>7, <2>4, <2>6 DEF SizeofInt
  <2> QED
    BY <2>5, <2>7
<1>15. UsedMemoryExplained'
  BY <1>3, <1>8, <1>11, <1>14, AccountKept
<1> QED
  BY <1>4, <1>8, <1>11, <1>12, <1>13, <1>15 DEF IInv

(* cacheAdd of a new key, by a SET or by a GET that found it in flash
   (command.c:66-67, :127-128): the object comes from argv or is a new one
   of the given bytes. *)
LEMMA AddStep ==
  ASSUME IInv, NEW c \in Client, pc[c] = "exec", NEW k \in Key, k = req[c].key, NEW v \in Val,
         InTable(k), ~Found(k), NEW blocks \in Nat, NEW bytes \in Nat,
         ValBytes(req[c]) + bytes = SizeofObject(v),
         CacheAdd(c, k, v, blocks, bytes),
         last' = [last EXCEPT ![k] = v] \/ (last' = last /\ last[k] = v),
         reply' \in [Client -> Val \cup {None}],
         UNCHANGED <<proc, req, ops, memList, flash, fcache_mutex, flashed>>
  PROVE  IInv'
<1>0. TypeOK /\ InItsChain /\ OncePerChain /\ Placed(c) /\ req[c] \in Request
  BY DEF IInv, InPlace, Placed
<1>1. /\ table' = [table EXCEPT ![Index(k)] = Chained(k, v)]
      /\ used' = used + 1
      /\ Malloc(blocks + 2, bytes + Len(k) + 1 + SizeofEntry)
      /\ pc' = [pc EXCEPT ![c] = "push"]
      /\ UNCHANGED <<unfreed, mutex>>
  BY DEF CacheAdd, Goto
<1>2. PICK n \in Nat : n = Len(k)
  BY FifoAssumption
<1>3. PICK d \in Int : d = bytes + n + 25 + (blocks + 2) * 4
  OBVIOUS
<1>4. PICK u \in Int : u = used_memory
  BY <1>0, FifoAssumption DEF TypeOK
<1>5. used_memory' = ToInt(used_memory + d)
  <2>1. used_memory' = ToInt(u + (bytes + n + 1 + 24) + (blocks + 2) * 4)
    BY <1>1, <1>2, <1>4 DEF Malloc, SizeofInt, SizeofEntry
  <2>2. u + (bytes + n + 1 + 24) + (blocks + 2) * 4 = u + d
    BY <1>3
  <2> QED
    BY <1>4, <2>1, <2>2
<1>6. used_memory' \in -IntRange..(IntRange - 1)
  BY <1>4, <1>5, IntWraps
<1>7. /\ table' \in [Slot -> Seq([key : Key, val : Val])]
      /\ \A s \in Slot : s # Index(k) => table'[s] = table[s]
      /\ Len(table'[Index(k)]) = Len(table[Index(k)]) + 1
      /\ table'[Index(k)][1] = [key |-> k, val |-> v]
      /\ \A i \in 1..Len(table[Index(k)]) : table'[Index(k)][i + 1] = table[Index(k)][i]
      /\ \A i \in 1..Len(table'[Index(k)]) : i # 1 => i - 1 \in 1..Len(table[Index(k)])
      /\ InItsChain' /\ OncePerChain'
  BY <1>0, <1>1, AddTable
<1>8. pc' \in [Thread -> Label] /\ pc'[c] = "push"
  BY <1>0, <1>1, GoesTo DEF Thread, Label
<1>9. last' \in [Key -> Val \cup {None}] /\ last'[k] = v /\ \A q \in Key : q # k => last'[q] = last[q]
  <2>1. last \in [Key -> Val \cup {None}]
    BY <1>0 DEF TypeOK
  <2> QED
    BY <2>1
<1>10. /\ unfreed' = unfreed /\ mallocs' = mallocs + (blocks + 2) /\ unfreed \in Nat /\ mallocs \in Nat
       /\ used' \in Nat /\ used \in Nat
  BY <1>0, <1>1 DEF TypeOK, Malloc
<1>11. TypeOK'
  <2>1. mallocs' \in Nat /\ unfreed' \in Nat
    BY <1>10
  <2> QED
    BY <1>0, <1>1, <1>6, <1>7, <1>8, <1>9, <1>10, <2>1 DEF TypeOK, Label
<1>12. (\A q \in Key : InTable(q) /\ Found(q) => Found(q)') /\ Found(k)'
  BY <1>0, <1>1, <1>7, <1>11, StillFound
<1>13. \A e \in Client : e # c => pc'[e] = pc[e] /\ req'[e] = req[e]
  BY <1>0, <1>1 DEF TypeOK, Thread
<1>14. InPlace'
  <2>1. req'[c] = req[c] /\ InTable(req'[c].key) /\ Found(req[c].key)'
    BY <1>12
  <2>2. req'[c].cmd \in {"set", "get"} /\ req'[c] \in Request
    BY <1>0, <2>1 DEF Placed
  <2>3. Placed(c)'
    BY <1>8, <2>1, <2>2 DEF Placed
  <2> QED
    BY <1>12, <1>13, <2>3, OthersPlaced DEF IInv
<1>15. Counted'
  <2>1. Cardinality(Pushing)' = Cardinality(Pushing) + 1 /\ Cardinality(Pushing) \in Nat
    BY <1>0, <1>1, PushCount
  <2>2. Cardinality(Entries)' = Cardinality(Entries) + 1
    BY <1>0, <1>1, <1>11, AddEntries
  <2>3. Len(memList) \in Nat /\ memList' = memList /\ used' = used + 1
    BY <1>0, <1>1 DEF TypeOK
  <2>4. used = Cardinality(Entries) /\ used = Len(memList) + Cardinality(Pushing)
    BY DEF IInv, Counted
  <2>5. used' = Len(memList') + Cardinality(Pushing)'
    BY <2>1, <2>3, <2>4
  <2> QED
    BY <2>2, <2>3, <2>4, <2>5 DEF Counted
<1>16. Latest'
  <2>1. ASSUME NEW s \in Slot, NEW i \in 1..Len(table'[s])
        PROVE  last'[table'[s][i].key] = table'[s][i].val
    <3>1. CASE s = Index(k) /\ i = 1
      BY <1>7, <1>9, <3>1
    <3>2. CASE ~(s = Index(k) /\ i = 1)
      <4>1. PICK j \in 1..Len(table[s]) : table'[s][i] = table[s][j]
        <5>1. CASE s = Index(k)
          <6>1. PICK j \in 1..Len(table[s]) : j = i - 1
            BY <1>7, <2>1, <3>2, <5>1
          <6>2. j + 1 = i
            BY <6>1, <2>1
          <6> QED
            BY <1>7, <5>1, <6>1, <6>2
        <5>2. CASE s # Index(k)
          BY <1>7, <2>1, <5>2
        <5> QED
          BY <5>1, <5>2
      <4>2. table[s][j].key \in Key /\ table[s][j].key # k
        <5>1. table[s][j].key \in Key
          BY <1>0, ChainEntry
        <5>2. ASSUME table[s][j].key = k PROVE FALSE
          <6>1. s = Index(k)
            BY <1>0, <5>2 DEF InItsChain
          <6> QED
            BY <1>0, <5>2, <6>1, FoundEntry
        <5> QED
          BY <5>1, <5>2
      <4>3. last[table[s][j].key] = table[s][j].val
        BY DEF IInv, Latest
      <4> QED
        BY <1>9, <4>1, <4>2, <4>3
    <3> QED
      BY <3>1, <3>2
  <2>2. ASSUME NEW q \in Key, InTable(q) => ~Found(q)' PROVE last'[q] = flashed'[q]
    <3>1. (InTable(q) => ~Found(q)) /\ q # k
      BY <1>12, <2>2
    <3> QED
      BY <1>9, <3>1 DEF IInv, Latest
  <2> QED
    BY <2>1, <2>2 DEF Latest
<1>17. Owed' = Owed + d
  <2>1. PICK z \in Nat : z = SizeofObject(v)
    BY BytesAreNat
  <2>2. Total(EntrySizes)' = Total(EntrySizes) + (25 + n + z)
    <3>1. Total(EntrySizes)' = Total(EntrySizes) + 24 + n + 1 + z
      BY <1>0, <1>1, <1>2, <1>11, <2>1, AddTotal DEF SizeofEntry
    <3>2. Total(EntrySizes) \in Nat
      BY OwedIs DEF IInv
    <3> QED
      BY <3>1, <3>2
  <2>3. PICK w \in Nat, y \in Nat : w = SizeofClient + WordBytes(req[c]) /\ y = ValBytes(req[c])
    BY <1>0, RequestParts, BytesAreNat
  <2>4. ClientBytes(c) = w + y /\ ClientBytes(c)' = w
    <3>1. ClientBytes(c)' = SizeofClient + WordBytes(req[c])
      BY <1>8 DEF ClientBytes
    <3>2. ClientBytes(c) = SizeofClient + WordBytes(req[c]) + ValBytes(req[c])
      BY DEF ClientBytes
    <3> QED
      BY <2>3, <3>1, <3>2
  <2>5. Owed' = Owed + ((25 + n + z) + ClientBytes(c)' - ClientBytes(c) + unfreed' - unfreed
                         + SizeofInt * (mallocs' - mallocs))
    <3>1. 25 + n + z \in Int
      OBVIOUS
    <3> QED
      BY <1>11, <1>13, <1>14, <2>2, <3>1, OwedChange
  <2>6. y + bytes = z
    BY <2>1, <2>3
  <2>7. (25 + n + z) + ClientBytes(c)' - ClientBytes(c) + unfreed' - unfreed
           + SizeofInt * (mallocs' - mallocs) = d
    BY <1>3, <1>10, <2>4, <2>6 DEF SizeofInt
  <2> QED
    BY <2>5, <2>7
<1>18. UsedMemoryExplained'
  BY <1>5, <1>11, <1>14, <1>17, AccountKept
<1> QED
  BY <1>7, <1>11, <1>14, <1>15, <1>16, <1>18 DEF IInv

(* A SET (command.c:85-97). *)
LEMMA SetStep ==
  ASSUME IInv, NEW c \in Client, Set(c)
  PROVE  IInv'
<1>0. TypeOK /\ Placed(c) /\ pc[c] = "exec" /\ req[c].cmd = "set"
  BY DEF IInv, InPlace, Set, At
<1>1. PICK k \in Key, v \in Val : /\ k = req[c].key /\ v = req[c].val
                                  /\ ValBytes(req[c]) = SizeofObject(v)
  BY <1>0, RequestParts DEF Placed
<1>2. CASE Found(k)
  BY <1>1, <1>2, ReplaceStep
<1>3. CASE ~Found(k)
  <2>1. /\ InTable(k) /\ CacheAdd(c, k, v, 0, 0) /\ last' = [last EXCEPT ![k] = v]
        /\ UNCHANGED <<proc, req, reply, ops, memList, flash, fcache_mutex, flashed>>
    BY <1>1 DEF Set, flashVars
  <2>2. reply' \in [Client -> Val \cup {None}]
    BY <1>0, <2>1 DEF TypeOK
  <2>3. ValBytes(req[c]) + 0 = SizeofObject(v)
    BY <1>1, BytesAreNat
  <2> QED
    BY <1>0, <1>1, <1>3, <2>1, <2>2, <2>3, AddStep
<1> QED
  BY <1>2, <1>3

(* A GET of a key in the table, or of one that is nowhere
   (command.c:119-121, :133-136). *)
LEMMA AnswerStep ==
  ASSUME IInv, NEW c \in Client, pc[c] = "exec", req[c].cmd = "get",
         NEW v \in Val \cup {None}, reply' = [reply EXCEPT ![c] = v], Finish(c),
         fcache_mutex' \in {fcache_mutex, c},
         UNCHANGED <<proc, req, ops, table, used, memList, flash, flashed, used_memory, mallocs,
                     unfreed, last>>
  PROVE  IInv'
<1>0. TypeOK /\ Placed(c)
  BY DEF IInv, InPlace
<1>1. mutex' = None /\ pc' = [pc EXCEPT ![c] = "send"]
  BY DEF Finish, Goto
<1>2. pc' \in [Thread -> Label] /\ pc'[c] = "send"
  BY <1>0, <1>1, GoesTo DEF Thread, Label
<1>3. reply' \in [Client -> Val \cup {None}]
  BY <1>0 DEF TypeOK
<1>4. TypeOK'
  BY <1>0, <1>1, <1>2, <1>3 DEF TypeOK, Label
<1>5. Placed(c)'
  BY <1>0, <1>2 DEF Placed
<1>6. "send" \in Label /\ req[c].cmd # "set"
  BY DEF Label
<1> QED
  BY <1>1, <1>4, <1>5, <1>6, QuietMove

(* A GET (command.c:111-137). *)
LEMMA GetStep ==
  ASSUME IInv, NEW c \in Client, GetMem(c) \/ GetFlash(c)
  PROVE  IInv'
<1>0. TypeOK /\ OncePerChain /\ Placed(c) /\ pc[c] = "exec" /\ req[c].cmd = "get"
  BY DEF IInv, InPlace, GetMem, GetFlash, At
<1>1. PICK k \in Key : k = req[c].key /\ InTable(k)
  BY <1>0, RequestParts DEF Placed, GetMem, GetFlash
<1>2. CASE GetMem(c)
  <2>1. PICK v \in Val : v = table[Index(k)][EntryAt(k)].val
    <3>1. Index(k) \in Slot /\ EntryAt(k) \in 1..Len(table[Index(k)])
      BY <1>0, <1>1, <1>2, FoundEntry DEF GetMem
    <3> QED
      BY <1>0, <3>1, ChainEntry
  <2>2. /\ reply' = [reply EXCEPT ![c] = v] /\ Finish(c)
        /\ UNCHANGED <<proc, req, ops, table, used, memList, flash, fcache_mutex, flashed,
                       used_memory, mallocs, unfreed, last>>
    BY <1>1, <1>2, <2>1 DEF GetMem, memVars, flashVars, heapVars
  <2> QED
    BY <1>0, <2>2, AnswerStep
<1>3. CASE GetFlash(c)
  <2>1. CASE Undefined
    BY <2>1, UndefinedStep DEF Undefined
  <2>2. CASE ~Undefined
    <3>1. PICK v \in Val \cup {None} : v = flashed[k]
      BY <1>0 DEF TypeOK
    <3>2. /\ ~Found(k) /\ reply' = [reply EXCEPT ![c] = v]
          /\ UNCHANGED <<proc, req, ops, memList, flash, flashed, last>>
          /\ \/ v # None /\ CacheAdd(c, k, v, 1, SizeofObject(v)) /\ UNCHANGED fcache_mutex
             \/ /\ v = None /\ fcache_mutex' = c /\ Finish(c)
                /\ UNCHANGED <<table, used, used_memory, mallocs, unfreed>>
      BY <1>1, <1>3, <2>2, <3>1 DEF GetFlash, heapVars
    <3>3. CASE v # None /\ CacheAdd(c, k, v, 1, SizeofObject(v)) /\ UNCHANGED fcache_mutex
      <4>1. reply' \in [Client -> Val \cup {None}]
        BY <1>0, <3>2 DEF TypeOK
      <4>2. v \in Val /\ SizeofObject(v) \in Nat /\ ValBytes(req[c]) = 0
        BY <1>0, <3>3, BytesAreNat, RequestParts DEF Placed
      <4>3. ValBytes(req[c]) + SizeofObject(v) = SizeofObject(v)
        BY <4>2
      <4>4. last' = last /\ last[k] = v
        BY <3>1, <3>2 DEF IInv, Latest
      <4> QED
        BY <1>0, <1>1, <3>2, <3>3, <4>1, <4>2, <4>3, <4>4, AddStep
    <3>4. CASE /\ v = None /\ fcache_mutex' = c /\ Finish(c)
               /\ UNCHANGED <<table, used, used_memory, mallocs, unfreed>>
      BY <1>0, <3>2, <3>4, AnswerStep
    <3> QED
      BY <3>2, <3>3, <3>4
  <2> QED
    BY <2>1, <2>2
<1> QED
  BY <1>2, <1>3

(* ListPushFront, and the promoted key leaves the index
   (command.c:68, :129). *)
LEMMA PushStep ==
  ASSUME IInv, NEW c \in Client, Push(c)
  PROVE  IInv'
<1>0. TypeOK /\ InPlace /\ Placed(c) /\ pc[c] = "push"
  BY DEF IInv, InPlace, Push, At
<1>1. CASE Undefined
  BY <1>1, UndefinedStep DEF Undefined
<1>2. CASE ~Undefined
  <2>1. PICK k \in Key : k = req[c].key /\ InTable(k) /\ Found(k)
    BY <1>0, RequestParts DEF Placed
  <2>2. /\ memList' = <<None>> \o memList
        /\ flashed' \in {flashed, [flashed EXCEPT ![k] = None]}
        /\ mutex' = None /\ pc' = [pc EXCEPT ![c] = "send"]
        /\ UNCHANGED <<proc, req, reply, ops, table, used, flash, fcache_mutex, used_memory,
                       mallocs, unfreed, last>>
    BY <1>2, <2>1 DEF Push, Finish, Goto, heapVars
  <2>3. memList' \in Seq({None}) /\ Len(memList') = Len(memList) + 1 /\ Len(memList) \in Nat
    BY <1>0, <2>2 DEF TypeOK
  <2>4. flashed' \in [Key -> Val \cup {None}] /\ \A q \in Key : q # k => flashed'[q] = flashed[q]
    BY <1>0, <2>2 DEF TypeOK
  <2>5. pc' \in [Thread -> Label] /\ pc'[c] = "send"
    BY <1>0, <2>2, GoesTo DEF Thread, Label
  <2>6. TypeOK'
    BY <1>0, <2>2, <2>3, <2>4, <2>5 DEF TypeOK, Label
  <2>7. \A e \in Client : e # c => pc'[e] = pc[e] /\ req'[e] = req[e]
    BY <1>0, <2>2 DEF TypeOK, Thread
  <2>8. Entries' = Entries /\ \A q \in Key : Found(q)' <=> Found(q)
    BY <2>2 DEF Entries, Found, ChainMatches
  <2>9. InPlace'
    <3>1. Placed(c)'
      BY <1>0, <2>2, <2>5 DEF Placed
    <3> QED
      BY <1>0, <2>7, <2>8, <3>1, OthersPlaced
  <2>10. InItsChain' /\ OncePerChain'
    BY <2>2 DEF IInv, InItsChain, OncePerChain
  <2>11. Counted'
    <3>1. Cardinality(Pushing)' = Cardinality(Pushing) - 1 /\ Cardinality(Pushing) \in Nat
      <4>1. PICK l : l = "send" /\ pc' = [pc EXCEPT ![c] = l]
        BY <2>2
      <4>2. TypeOK
        BY <1>0
      <4>3. /\ Cardinality(Pushing) \in Nat
            /\ pc[c] = "push" /\ l # "push" => Cardinality(Pushing)' = Cardinality(Pushing) - 1
        BY <4>1, <4>2, PushCount
      <4> QED
        BY <1>0, <4>1, <4>3
    <3>2. used = Cardinality(Entries) /\ used = Len(memList) + Cardinality(Pushing) /\ used' = used
      BY <2>2 DEF IInv, Counted
    <3>3. used' = Len(memList') + Cardinality(Pushing)'
      BY <2>3, <3>1, <3>2
    <3> QED
      BY <2>8, <3>2, <3>3 DEF Counted
  <2>12. Latest'
    <3>1. ASSUME NEW q \in Key, InTable(q) => ~Found(q)' PROVE last'[q] = flashed'[q]
      <4>1. (InTable(q) => ~Found(q)) /\ q # k
        BY <2>1, <2>8, <3>1
      <4> QED
        BY <2>2, <2>4, <4>1 DEF IInv, Latest
    <3>2. \A s \in Slot : \A i \in 1..Len(table'[s]) : last'[table'[s][i].key] = table'[s][i].val
      BY <2>2 DEF IInv, Latest
    <3> QED
      BY <3>1, <3>2 DEF Latest
  <2>13. Owed' = Owed + 0
    <3>1. EntrySizes' = EntrySizes
      BY <2>2, <2>8 DEF EntrySizes, EntryBytes
    <3>2. ClientBytes(c)' = ClientBytes(c)
      BY <1>0, <2>2, <2>5 DEF ClientBytes
    <3>3. ClientSizes' = ClientSizes
      BY <2>7, <3>2 DEF ClientSizes, ClientBytes
    <3>4. Owed' = Owed
      BY <2>2, <3>1, <3>3 DEF Owed, Total
    <3> QED
      BY <1>0, <3>4, OwedIs
  <2>14. UsedMemoryExplained'
    BY <2>2, <2>6, <2>9, <2>13, AccountKept
  <2> QED
    BY <2>6, <2>9, <2>10, <2>11, <2>12, <2>14 DEF IInv
<1> QED
  BY <1>1, <1>2

-----------------------------------------------------------------------------
(* The invariant.                                                          *)

(* The server as it starts: an empty table, and the database's blocks on the
   account (server.c:40-61). *)
LEMMA InitIInv == Init => IInv
<1> SUFFICES ASSUME Init PROVE IInv
  OBVIOUS
<1>0. SizeofDb + 2 * SizeofInt \in Int /\ 2 * SizeofInt = 8 /\ SizeofDb \in Nat
  BY BytesAreNat DEF SizeofInt
<1>1. TypeOK
  <2>1. used_memory \in -IntRange..(IntRange - 1)
    BY <1>0, IntWraps DEF Init
  <2>2. table \in [Slot -> Seq([key : Key, val : Val])] /\ memList \in Seq({None})
    BY DEF Init
  <2>3. ops \in 0..MaxRequests
    BY FifoAssumption DEF Init
  <2> QED
    BY <2>1, <2>2, <2>3 DEF Init, TypeOK
<1>2. \A s \in Slot : table[s] = <<>> /\ Len(table[s]) = 0
  BY DEF Init
<1>3. InItsChain /\ OncePerChain
  BY <1>2 DEF InItsChain, OncePerChain
<1>4. \A c \in Client : pc[c] = "accept"
  BY FifoAssumption DEF Init, Thread
<1>5. InPlace
  BY <1>4 DEF InPlace, Placed
<1>6. Entries = {} /\ Pushing = {}
  <2>1. \A s \in Slot : DOMAIN table[s] = {}
    BY <1>2
  <2> QED
    BY <1>4, <2>1 DEF Entries, Pushing
<1>7. Counted
  BY <1>6, FS_EmptySet DEF Init, Counted
<1>8. Latest
  BY <1>2 DEF Init, Latest
<1>9. UsedMemoryExplained
  <2>1. Total(EntrySizes) = 0
    BY <1>1, <1>6, EntryFacts, TotalZero
  <2>2. Total(ClientSizes) = 0
    <3>1. \A c \in Client : ClientSizes[c] = 0
      BY <1>4 DEF ClientSizes, ClientBytes
    <3> QED
      BY <1>1, <1>5, <3>1, ClientFacts, FifoAssumption, TotalZero
  <2>3. PICK h \in Int : h = SizeofDb + 8
    BY <1>0
  <2>4. Owed = h + 0
    BY <1>0, <2>1, <2>2, <2>3 DEF Owed, SizeofInt, Init
  <2>5. used_memory = ToInt(h + 0)
    BY <1>0, <2>3 DEF Init
  <2>6. (h - h) % (2 * IntRange) = 0
    BY FifoAssumption
  <2>7. (ToInt(h + 0) - (h + 0)) % (2 * IntRange) = 0
    BY <2>6, Turns
  <2> QED
    BY <1>1, <1>5, <2>4, <2>5, <2>7, OwedIs
<1> QED
  BY <1>1, <1>3, <1>5, <1>7, <1>8, <1>9 DEF IInv

(* Every step keeps the invariant (bworker.c:13-26). *)
LEMMA NextIInv == IInv /\ [Next]_vars => IInv'
<1> SUFFICES ASSUME IInv, [Next]_vars PROVE IInv'
  OBVIOUS
<1>1. ASSUME NEW c \in Client, ClientStep(c) PROVE IInv'
  <2>1. CASE StraySlot(c)
    BY <2>1, UndefinedStep DEF StraySlot, Undefined
  <2>2. CASE Accept(c) \/ Recv(c) \/ Close(c) \/ Send(c)
    BY <2>2, AcceptStep, RecvStep, FreeStep
  <2>3. CASE MemUsedCheck(c) \/ ListCheck(c) \/ Lock(c)
    BY <2>3, CheckSteps
  <2>4. CASE Set(c) \/ GetMem(c) \/ GetFlash(c) \/ Push(c)
    BY <2>4, SetStep, GetStep, PushStep
  <2> QED
    BY <1>1, <2>1, <2>2, <2>3, <2>4 DEF ClientStep
<1>2. ASSUME NEW t \in Thread, EvictAll(t) \/ EvictWait(t) \/ Destroy(t) PROVE IInv'
  BY <1>2, EvictSteps
<1>3. CASE Sigint
  <2>1. /\ pc' = [pc EXCEPT ![Main] = "evictall"]
        /\ UNCHANGED <<proc, req, reply, ops, mutex, table, used, memList, flash, fcache_mutex,
                       flashed, used_memory, mallocs, unfreed, last>>
    BY <1>3 DEF Sigint, Goto, dataVars, memVars, flashVars, heapVars
  <2>2. TypeOK /\ Main \in Thread
    BY DEF IInv, Thread
  <2>3. pc' \in [Thread -> Label]
    BY <2>1, <2>2, GoesTo DEF Label
  <2>4. TypeOK'
    BY <2>1, <2>2, <2>3 DEF TypeOK, Label
  <2> QED
    BY <2>1, <2>4, MainStep
<1>4. CASE Exit
  BY <1>4, UndefinedStep DEF Exit
<1>5. CASE UNCHANGED vars
  <2>1. UNCHANGED <<pc, dataVars>> /\ proc' = proc
    BY <1>5 DEF vars
  <2>2. proc' \in {"running", "exited", "undefined"}
    BY <2>1 DEF IInv, TypeOK
  <2> QED
    BY <2>1, <2>2, UndefinedStep
<1> QED
  BY <1>1, <1>2, <1>3, <1>4, <1>5 DEF Next

(* Hence the invariant holds in every run of the server (bworker.c:13-26). *)
LEMMA Invariant == Spec => []IInv
<1> QED
  BY InitIInv, NextIInv, PTL DEF Spec

-----------------------------------------------------------------------------
(* Results.                                                                *)

(* Every variable keeps its type: used_memory that of an int however it
   wraps (util.c:314, :330). *)
THEOREM TypeCorrect == Spec => []TypeOK
<1>1. IInv => TypeOK
  BY DEF IInv
<1> QED
  BY <1>1, Invariant, PTL

(* Each key is once in the table, in the chain of its slot; ht.used counts
   the entries, and memList has a node for each but those being pushed
   (hash.c:28-39, command.c:67-68), for any keys and any number of
   connections. *)
THEOREM TableRight == Spec => []TableCounted
<1>1. IInv => TableCounted
  <2> SUFFICES ASSUME IInv PROVE TableCounted
    OBVIOUS
  <2>1. \A e \in Entries : e[1] \in Slot /\ e[2] \in 1..Len(table[e[1]]) /\ e = <<e[1], e[2]>>
    BY ChainShort DEF IInv
  <2>2. \A e \in Entries : Index(table[e[1]][e[2]].key) = e[1]
    BY <2>1 DEF IInv, InItsChain
  <2>3. ASSUME NEW e \in Entries, NEW f \in Entries,
               table[e[1]][e[2]].key = table[f[1]][f[2]].key
        PROVE  e = f
    <3>1. e[1] = f[1]
      BY <2>2, <2>3
    <3>2. e[2] = f[2]
      BY <2>1, <2>3, <3>1 DEF IInv, OncePerChain
    <3> QED
      BY <2>1, <3>1, <3>2
  <2> QED
    BY <2>2, <2>3 DEF TableCounted, IInv, Counted
<1> QED
  BY <1>1, Invariant, PTL

(* used_memory is explained by what the server can reach, what it has lost
   and the size words that chfree keeps, up to whole turns of an int
   (util.c:314, :330). *)
THEOREM MemoryExplained == Spec => []UsedMemoryExplained
<1>1. IInv => UsedMemoryExplained
  BY DEF IInv
<1> QED
  BY <1>1, Invariant, PTL

(* A GET answers the last value SET for its key or the recovered one
   (command.c:111-137). *)
THEOREM GetCurrent == Spec => GetReturnsLastSet
<1>1. IInv /\ [Next]_vars =>
        \A c \in Client :
          pc[c] = "exec" /\ pc'[c] # "exec" /\ req[c].cmd = "get" => reply'[c] = last[req[c].key]
  <2> SUFFICES ASSUME IInv, [Next]_vars, NEW c \in Client,
                      pc[c] = "exec", pc'[c] # "exec", req[c].cmd = "get"
               PROVE  reply'[c] = last[req[c].key]
    OBVIOUS
  <2>0. TypeOK /\ OncePerChain /\ Placed(c)
    BY DEF IInv, InPlace
  <2>1. GetMem(c) \/ GetFlash(c)
    <3>1. pc' # pc /\ c # Main /\ ~Undefined
      BY FifoAssumption DEF Undefined
    <3>2. ASSUME NEW d \in Client, ClientStep(d) PROVE GetMem(c) \/ GetFlash(c)
      <4>1. pc[d] = "exec" => GetMem(d) \/ GetFlash(d) \/ Set(d) \/ StraySlot(d)
        BY <3>2 DEF ClientStep, Accept, Recv, Close, MemUsedCheck, ListCheck, Lock, Push, Send, At
      <4>2. d = c
        <5>1. PICK l : pc' = [pc EXCEPT ![d] = l]
          BY <3>1, <3>2 DEF ClientStep, Accept, Recv, Close, MemUsedCheck, ListCheck, Lock, Set,
             GetMem, GetFlash, CacheAdd, Finish, Push, StraySlot, Send, Goto
        <5> QED
          BY <2>0, <5>1 DEF TypeOK, Thread
      <4> QED
        BY <3>1, <4>1, <4>2 DEF Set, StraySlot
    <3>3. ASSUME NEW t \in Thread, EvictAll(t) \/ EvictWait(t) \/ Destroy(t) PROVE FALSE
      <4>1. pc[t] # "exec"
        BY <3>3 DEF EvictAll, EvictWait, Destroy, At
      <4>2. PICK l : pc' = [pc EXCEPT ![t] = l]
        BY <3>1, <3>3 DEF EvictAll, EvictWait, Destroy, Goto
      <4> QED
        BY <2>0, <4>1, <4>2 DEF TypeOK, Thread
    <3>4. CASE Sigint
      BY <2>0, <3>1, <3>4 DEF Sigint, Goto, TypeOK, Thread
    <3>5. CASE Exit
      BY <3>1, <3>5 DEF Exit
    <3>6. CASE UNCHANGED vars
      BY <3>1, <3>6 DEF vars
    <3> QED
      BY <3>2, <3>3, <3>4, <3>5, <3>6 DEF Next
  <2>2. PICK k \in Key : k = req[c].key /\ InTable(k)
    BY <2>0, <2>1, RequestParts DEF Placed, GetMem, GetFlash
  <2>3. CASE GetMem(c)
    <3>1. Found(k) /\ reply' = [reply EXCEPT ![c] = table[Index(k)][EntryAt(k)].val]
      BY <2>2, <2>3 DEF GetMem
    <3>2. /\ Index(k) \in Slot /\ EntryAt(k) \in 1..Len(table[Index(k)])
          /\ table[Index(k)][EntryAt(k)].key = k
      BY <2>0, <2>2, <3>1, FoundEntry
    <3>3. last[k] = table[Index(k)][EntryAt(k)].val
      BY <3>2 DEF IInv, Latest
    <3>4. reply'[c] = table[Index(k)][EntryAt(k)].val
      BY <2>0, <3>1 DEF TypeOK
    <3> QED
      BY <2>2, <3>3, <3>4
  <2>4. CASE GetFlash(c)
    <3>1. ~Found(k) /\ reply' = [reply EXCEPT ![c] = flashed[k]]
      BY <2>2, <2>4 DEF GetFlash, Undefined
    <3>2. last[k] = flashed[k]
      BY <2>2, <3>1 DEF IInv, Latest
    <3>3. reply'[c] = flashed[k]
      BY <2>0, <3>1 DEF TypeOK
    <3> QED
      BY <2>2, <3>2, <3>3
  <2> QED
    BY <2>1, <2>3, <2>4
<1> QED
  BY <1>1, Invariant, PTL DEF Spec, GetReturnsLastSet
=============================================================================

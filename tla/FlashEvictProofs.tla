-------------------------- MODULE FlashEvictProofs --------------------------
(***************************************************************************)
(* Proofs about the flash cache at its capacity, for every set of keys,    *)
(* every capacity, size of a record, a buffer and a file, every number of  *)
(* files, every spacing of the floats, and every value that the            *)
(* uninitialised size_ may start with.                                     *)
(***************************************************************************)
EXTENDS FlashEvict, DataLemmas

-----------------------------------------------------------------------------
(* The inductive invariant.                                                *)

(* A file that is open: its WriteableCacheFile is allocated. *)
Open(f) == writer[f] \notin {"none", "gone"}

Listed(f) == f \in Range(lru)

(* The user is inside Insert, after the Append. *)
Inserting == user \in {"mark", "index"}

(* fcache_mutex: who holds it.  One writer at a time is inside the part of
   Evict that it guards. *)
MutexHeld ==
  /\ mutex = "user" <=> Inserting
  /\ mutex = "evict" <=> \E f \in Files : writer[f] = "join"
  /\ \A f, g \in Files : writer[f] = "join" /\ writer[g] = "join" => f = g
  /\ user # "idle" => key \in Keys
  /\ ~ Inserting => rec = 0

(* Files are created in the order of their ids, and empty. *)
CreatedInOrder ==
  \A f \in Files :
    /\ f > current <=> writer[f] = "none"
    /\ writer[f] = "none" => off[f] = 0 /\ disk[f] = 0 /\ ~eof[f]

(* Who joins has a victim: another file, still open. *)
VictimOpen ==
  \A f \in Files :
    /\ victim[f] # None <=> writer[f] = "join"
    /\ victim[f] # None => victim[f] # f /\ Open(victim[f])

(* cache_file_index_ holds the open files without the one being deleted. *)
ListIsOpen ==
  /\ IsInjective(lru)
  /\ \A f \in Files : Listed(f) <=> Open(f) /\ \A g \in Files : victim[g] # f

(* The index leads to an open file that has a record of the key, and so does
   the Insert that has appended it. *)
IndexHome ==
  /\ \A k \in Keys : index[k] # None => k \in keys[index[k]] /\ Open(index[k])
  /\ Inserting => key \in keys[current] /\ Open(current)

Fetched(f) == writer[f] \in {"evict", "lock", "join", "write"}

(* The buffers of a file: what was written is what lies before buf_doff_ at
   most, buf_woff_ counts full buffers until the file is full, and the
   buffer that the writer has fetched is there, and full or the last one. *)
BuffersFit ==
  \A f \in Files :
    /\ disk[f] <= Start(f)
    /\ writer[f] # "gone" => disk[f] <= off[f]
    /\ ~eof[f] => woff[f] * BufSize <= off[f]
    /\ Fetched(f) => Start(f) < off[f] /\ (eof[f] \/ Start(f) + BufSize <= off[f])

Occupied == [f \in Files |-> Occupies(f)]

(* NeverUndercounts, in any state of the process. *)
Counted == size + rec >= Total(Occupied)

(* What a file takes or is about to take: its writer has passed Evict. *)
Commits(f) == IF writer[f] = "write" THEN disk[f] + Used(f) ELSE disk[f]

Committed == [f \in Files |-> Commits(f)]

(* The writers that have passed Evict all fit, also those that have not
   written yet. *)
CommittedFits == Total(Committed) <= CacheSize + Excess

IInv ==
  /\ TypeOK /\ MutexHeld /\ CreatedInOrder /\ VictimOpen /\ ListIsOpen
  /\ IndexHome /\ BuffersFit /\ Counted /\ CommittedFits

-----------------------------------------------------------------------------
(* Buffers and floats.                                                     *)

(* Where the next buffer begins (flashcache.cc:201, :220). *)
LEMMA NextBuffer ==
  ASSUME NEW a \in Nat
  PROVE  a * BufSize \in Nat /\ (a + 1) * BufSize = a * BufSize + BufSize
<1>1. PICK m \in Nat \ {0} : m = BufSize
  BY CapacityAssumption
<1>2. a * m \in Nat /\ (a + 1) * m = a * m + m
  BY SMT
<1> QED
  BY <1>1, <1>2

(* A buffer before buffer b ends where b begins or earlier
   (flashcache.cc:200). *)
LEMMA BufferBefore ==
  ASSUME NEW a \in Nat, NEW b \in Nat, a < b
  PROVE  a * BufSize + BufSize <= b * BufSize
<1>1. PICK m \in Nat \ {0} : m = BufSize
  BY CapacityAssumption
<1>2. PICK d \in Nat : b = a + 1 + d
  <2>1. b - a - 1 \in Nat /\ b = a + 1 + (b - a - 1)
    OBVIOUS
  <2> QED
    BY <2>1
<1>3. d * m \in Nat /\ a * m \in Nat /\ (a + 1 + d) * m = a * m + m + d * m
  BY SMT
<1> QED
  BY <1>1, <1>2, <1>3

(* The full buffers of n bytes (flashcache.cc:76-98). *)
LEMMA FilledBuffers ==
  ASSUME NEW n \in Nat
  PROVE  n \div BufSize \in Nat /\ (n \div BufSize) * BufSize <= n
<1>1. PICK m \in Nat \ {0} : m = BufSize
  BY CapacityAssumption
<1>2. n % m \in 0..(m - 1) /\ n \div m \in Int /\ n = m * (n \div m) + (n % m)
  BY <1>1
<1>3. n \div m \in Nat
  BY <1>1
<1>4. PICK q \in Nat : q = n \div m
  BY <1>3
<1>5. m * q = q * m /\ q * m \in Int
  BY <1>1, <1>4
<1>6. q * m <= n
  BY <1>2, <1>4, <1>5
<1> QED
  BY <1>1, <1>3, <1>4, <1>6

(* A float is away from the number by half of the spacing at most
   (flashcache.cc:569). *)
LEMMA FloatNear ==
  ASSUME NEW n \in Nat
  PROVE  /\ Float(n) \in Int
         /\ n <= Float(n) + (FloatUnit \div 2)
         /\ Float(n) <= n + (FloatUnit \div 2)
<1>1. PICK u \in Nat \ {0} : u = FloatUnit
  BY CapacityAssumption
<1>2. PICK h \in Nat : h = u \div 2 /\ u <= 2 * h + 1 /\ u >= 2 * h
  OBVIOUS
<1>3. n % u \in 0..(u - 1) /\ n \div u \in Int /\ n = u * (n \div u) + (n % u)
  BY <1>1
<1>4. PICK q \in Int, r \in 0..(u - 1) : q = n \div u /\ r = n % u
  BY <1>3
<1>5. u * q \in Int /\ u * (q + 1) = u * q + u
  BY <1>1, <1>4, SMT
<1>6. n = u * q + r
  BY <1>3, <1>4
<1> DEFINE up == 2 * r > u \/ (2 * r = u /\ q % 2 = 1)
<1>7. Float(n) = u * (IF up THEN q + 1 ELSE q)
  BY <1>1, <1>4 DEF Float
<1>8. CASE up
  <2>1. Float(n) = u * q + u
    BY <1>5, <1>7, <1>8
  <2>2. 2 * r >= u
    BY <1>4, <1>8
  <2> HIDE DEF up
  <2>3. PICK b \in Int : b = u * q
    BY <1>5
  <2>4. Float(n) = b + u /\ n = b + r
    BY <1>6, <2>1, <2>3
  <2>5. u - r <= h
    BY <1>2, <1>4, <2>2
  <2> QED
    BY <1>1, <1>2, <1>4, <2>3, <2>4, <2>5
<1>9. CASE ~ up
  <2>1. Float(n) = u * q
    BY <1>7, <1>9
  <2>2. 2 * r <= u
    BY <1>4, <1>9
  <2> HIDE DEF up
  <2>3. PICK b \in Int : b = u * q
    BY <1>5
  <2>4. Float(n) = b /\ n = b + r
    BY <1>6, <2>1, <2>3
  <2>5. r <= h
    BY <1>2, <1>4, <2>2
  <2> QED
    BY <1>1, <1>2, <1>4, <2>3, <2>4, <2>5
<1> QED
  BY <1>8, <1>9

(* What a writer that passes the test may bring size_ to (flashcache.cc:569). *)
LEMMA FloatTest ==
  ASSUME NEW n \in Nat, ~ (Float(n) > Float(CacheSize))
  PROVE  n <= CacheSize + 2 * (FloatUnit \div 2)
<1>1. PICK h \in Nat : h = FloatUnit \div 2
  <2>1. PICK u \in Nat \ {0} : u = FloatUnit
    BY CapacityAssumption
  <2>2. u \div 2 \in Nat
    OBVIOUS
  <2> QED
    BY <2>1, <2>2
<1>2. /\ Float(n) \in Int /\ n <= Float(n) + h
      /\ Float(CacheSize) \in Int /\ Float(CacheSize) <= CacheSize + h
  BY <1>1, FloatNear, CapacityAssumption
<1> QED
  BY <1>1, <1>2, CapacityAssumption

(* The excess is a number of bytes (flashcache.cc:569). *)
LEMMA ExcessIsNat == Excess \in Nat /\ Excess = MaxRecord - 1 + 2 * (FloatUnit \div 2)
<1>1. PICK u \in Nat \ {0} : u = FloatUnit
  BY CapacityAssumption
<1>2. u \div 2 \in Nat
  OBVIOUS
<1> QED
  BY <1>1, <1>2, CapacityAssumption DEF Excess

-----------------------------------------------------------------------------
(* Sums over the files.                                                    *)

(* There are finitely many cache files (flashcache.cc:519). *)
LEMMA FilesFinite == IsFiniteSet(Files)
BY CapacityAssumption, FS_Interval DEF Files

(* Where buf_doff_ points to is a number of bytes (flashcache.cc:201). *)
LEMMA StartIsNat == TypeOK => \A f \in Files : Start(f) \in Nat
BY NextBuffer DEF TypeOK, Start

(* What a file occupies, and what its writer is committed to, is a number of
   bytes (flashcache.cc:537, :575). *)
LEMMA SizesAreNat ==
  /\ TypeOK => /\ Occupied \in [Files -> Nat] /\ disk \in [Files -> Nat]
               /\ \A f \in Files : off[f] \in Nat /\ disk[f] \in Nat
  /\ TypeOK /\ BuffersFit => /\ Committed \in [Files -> Nat]
                            /\ \A f \in Files : Commits(f) \in Nat
<1>1. ASSUME TypeOK
      PROVE  /\ Occupied \in [Files -> Nat] /\ disk \in [Files -> Nat]
             /\ \A f \in Files : off[f] \in Nat /\ disk[f] \in Nat
  BY <1>1 DEF TypeOK, Occupied, Occupies
<1>2. ASSUME TypeOK, BuffersFit, NEW f \in Files PROVE Commits(f) \in Nat
  <2>1. disk[f] \in Nat /\ off[f] \in Nat /\ Start(f) \in Nat
    BY <1>2, StartIsNat DEF TypeOK
  <2>2. writer[f] = "write" => Start(f) < off[f]
    BY <1>2 DEF BuffersFit, Fetched
  <2> QED
    BY <2>1, <2>2, CapacityAssumption DEF Commits, Used
<1>3. ASSUME TypeOK, BuffersFit PROVE Committed \in [Files -> Nat]
  BY <1>2, <1>3 DEF Committed
<1> QED
  BY <1>1, <1>2, <1>3

(* The sum of NeverUndercounts is the total of Occupied (flashcache.cc:537). *)
LEMMA OccupiedSum ==
  ASSUME TypeOK
  PROVE  MapThenSumSet(Occupies, Files) = Total(Occupied)
<1>1. PICK a : IsSum(a, Occupied, Files)
  BY FilesFinite, SumExists
<1> DEFINE Occ(it, s) == IF s = {} THEN 0
                         ELSE LET x == CHOOSE x \in s : TRUE IN Occupies(x) + it[s \ {x}]
<1>2. \A it : \A s \in SUBSET Files : PartialSum(it, Occupied, s) = Occ(it, s)
  <2> TAKE it
  <2> TAKE s \in SUBSET Files
  <2>1. CASE s = {}
    BY <2>1 DEF PartialSum
  <2>2. CASE s # {}
    <3> DEFINE x == CHOOSE x \in s : TRUE
    <3>1. x \in Files
      BY <2>2
    <3>2. Occupied[x] = Occupies(x)
      BY <3>1 DEF Occupied
    <3> QED
      BY <2>2, <3>2 DEF PartialSum
  <2> QED
    BY <2>1, <2>2
<1>3. a = [s \in SUBSET Files |-> Occ(a, s)]
  BY <1>1, <1>2 DEF IsSum
<1>4. PICK it : it = [s \in SUBSET Files |-> Occ(it, s)] /\ MapThenSumSet(Occupies, Files) = it[Files]
  BY <1>3 DEF MapThenSumSet, MapThenFoldSet
<1>5. IsSum(it, Occupied, Files)
  <2> HIDE DEF Occ
  <2>1. \A s \in SUBSET Files : PartialSum(it, Occupied, s) = Occ(it, s)
    BY <1>2
  <2>2. it = [s \in SUBSET Files |-> PartialSum(it, Occupied, s)]
    BY <1>4, <2>1
  <2> QED
    BY <2>2 DEF IsSum
<1>6. Total(Occupied) = it[Files]
  BY <1>5, FilesFinite, SizesAreNat, TotalIs
<1> QED
  BY <1>4, <1>6

(* The sum of CapacityKept is the total of disk (flashcache.cc:569). *)
LEMMA DiskSum ==
  ASSUME TypeOK
  PROVE  MapThenSumSet(LAMBDA f : disk[f], Files) = Total(disk)
<1>1. \E it : IsSum(it, disk, Files)
  BY FilesFinite, SumExists
<1>2. PICK it : IsSum(it, disk, Files) /\ MapThenSumSet(LAMBDA f : disk[f], Files) = it[Files]
  BY <1>1 DEF IsSum, PartialSum, MapThenSumSet, MapThenFoldSet
<1>3. Total(disk) = it[Files]
  BY <1>2, FilesFinite, SizesAreNat, TotalIs
<1> QED
  BY <1>2, <1>3

(* A step that changes what one file occupies changes the sum by as much
   (flashcache.cc:537, :575). *)
LEMMA OccupiedStep ==
  ASSUME TypeOK, TypeOK', NEW g \in Files,
         \A f \in Files : f # g => Occupies(f)' = Occupies(f)
  PROVE  /\ Total(Occupied)' + Occupies(g) = Total(Occupied) + Occupies(g)'
         /\ Total(Occupied) \in Nat /\ Total(Occupied)' \in Nat
         /\ Occupies(g) \in Nat /\ Occupies(g)' \in Nat
         /\ Occupies(g) <= Total(Occupied)
<1> DEFINE F == Occupied
           G == Occupied'
<1>1. F \in [Files -> Nat] /\ G \in [Files -> Nat]
  <2>1. (Occupied \in [Files -> Nat])'
    BY SizesAreNat, PTL
  <2> QED
    BY <2>1, SizesAreNat
<1>2. \A f \in Files : F[f] = Occupies(f) /\ G[f] = Occupies(f)'
  BY DEF Occupied
<1>3. \A f \in Files : f # g => F[f] = G[f]
  BY <1>2
<1> HIDE DEF F, G
<1>4. Total(G) + F[g] = Total(F) + G[g]
  BY <1>1, <1>3, FilesFinite, TotalChange
<1>5. Total(F) \in Nat /\ Total(G) \in Nat /\ F[g] <= Total(F)
  BY <1>1, FilesFinite, TotalIsNat
<1>6. Total(Occupied)' = Total(G) /\ Total(Occupied) = Total(F)
  BY DEF F, G
<1>7. F[g] \in Nat /\ G[g] \in Nat
  BY <1>1
<1> QED
  BY <1>2, <1>4, <1>5, <1>6, <1>7

(* A step that changes nothing that the files occupy (flashcache.cc:569). *)
LEMMA OccupiedSame ==
  ASSUME \A f \in Files : Occupies(f)' = Occupies(f)
  PROVE  Total(Occupied)' = Total(Occupied)
<1>1. Occupied' = Occupied
  BY DEF Occupied
<1> QED
  BY <1>1 DEF Total

(* No file is committed to more than before (flashcache.cc:205). *)
LEMMA CommittedStep ==
  ASSUME TypeOK, BuffersFit, TypeOK', BuffersFit', CommittedFits,
         \A f \in Files : Commits(f)' <= Commits(f)
  PROVE  CommittedFits'
<1> DEFINE F == Committed
           G == Committed'
<1>1. F \in [Files -> Nat] /\ G \in [Files -> Nat]
  <2>1. (Committed \in [Files -> Nat])'
    BY SizesAreNat, PTL
  <2> QED
    BY <2>1, SizesAreNat
<1>2. \A f \in Files : G[f] <= F[f]
  BY DEF Committed
<1> HIDE DEF F, G
<1>3. Total(G) <= Total(F)
  BY <1>1, <1>2, FilesFinite, TotalMonotone
<1>4. Total(F) \in Nat /\ Total(G) \in Nat
  BY <1>1, FilesFinite, TotalIsNat
<1>5. Total(F) <= CacheSize + Excess
  BY DEF CommittedFits, F
<1>6. Total(G) <= CacheSize + Excess
  BY <1>3, <1>4, <1>5, CapacityAssumption, ExcessIsNat
<1> QED
  BY <1>6 DEF CommittedFits, G

(* A step that changes nothing that the files are committed to
   (flashcache.cc:537). *)
LEMMA CommittedSame ==
  ASSUME CommittedFits, \A f \in Files : Commits(f)' = Commits(f)
  PROVE  CommittedFits'
<1>1. Committed' = Committed
  BY DEF Committed
<1> QED
  BY <1>1 DEF CommittedFits, Total

-----------------------------------------------------------------------------
(* The initial states, and the steps that keep almost everything.          *)

(* FlashCache::Open on an empty directory (flashcache.cc:462, :515). *)
LEMMA InitInv == Init => IInv
<1> SUFFICES ASSUME Init PROVE IInv
  OBVIOUS
<1>0. 1 \in Files
  BY CapacityAssumption DEF Files
<1>1. TypeOK
  BY <1>0, CapacityAssumption DEF Init, TypeOK, Files, Places
<1>2. MutexHeld /\ VictimOpen
  BY <1>0, CapacityAssumption DEF Init, MutexHeld, Inserting, VictimOpen, Files
<1>3. CreatedInOrder
  BY <1>0, CapacityAssumption DEF Init, CreatedInOrder, Files
<1>4. ListIsOpen
  <2>1. DOMAIN lru = {1} /\ lru[1] = 1
    BY DEF Init
  <2>2. \A f \in Files : writer[f] = (IF f = 1 THEN "wait" ELSE "none") /\ victim[f] = None
    BY DEF Init
  <2>3. None \notin Files
    BY CapacityAssumption DEF Files
  <2> QED
    BY <2>1, <2>2, <2>3 DEF ListIsOpen, IsInjective, Listed, Open, Range
<1>5. IndexHome
  BY DEF Init, IndexHome, Inserting
<1>6. BuffersFit
  <2>1. 0 * BufSize = 0
    <3>1. PICK m \in Nat \ {0} : m = BufSize
      BY CapacityAssumption
    <3> QED
      BY <3>1
  <2>2. \A f \in Files : disk[f] = 0 /\ woff[f] = 0 /\ doff[f] = 0 /\ off[f] = 0
    BY DEF Init
  <2>3. \A f \in Files : ~ Fetched(f)
    BY DEF Init, Fetched
  <2> QED
    BY <2>1, <2>2, <2>3 DEF BuffersFit, Start
<1>7. \A f \in Files : Occupied[f] = 0 /\ Committed[f] = 0
  BY DEF Init, Occupied, Committed, Occupies, Commits
<1>8. Total(Occupied) = 0 /\ Total(Committed) = 0
  BY <1>1, <1>6, <1>7, FilesFinite, SizesAreNat, TotalZero
<1>9. Counted /\ CommittedFits
  BY <1>8, CapacityAssumption, ExcessIsNat DEF Init, Counted, CommittedFits
<1> QED
  BY <1>1, <1>2, <1>3, <1>4, <1>5, <1>6, <1>9 DEF IInv

(* What the files are about, their order, their buffers and the sums over
   them, does not change in a step of the user that appends nothing
   (flashcache.cc:537-538, :542-587). *)
LEMMA FilesSame ==
  ASSUME IInv, UNCHANGED <<current, doff, writer, victim, disk, fileVars>>
  PROVE  /\ CreatedInOrder' /\ VictimOpen' /\ BuffersFit' /\ CommittedFits'
         /\ Total(Occupied)' = Total(Occupied)
         /\ \A f : Open(f)' = Open(f)
<1> USE DEF fileVars
<1>1. CreatedInOrder' /\ VictimOpen' /\ \A f : Open(f)' = Open(f)
  BY DEF IInv, CreatedInOrder, VictimOpen, Open
<1>2. \A f : /\ Start(f)' = Start(f) /\ Used(f)' = Used(f)
             /\ Occupies(f)' = Occupies(f) /\ Commits(f)' = Commits(f)
  BY DEF Start, Used, Occupies, Commits
<1>3. BuffersFit'
  BY <1>2 DEF IInv, BuffersFit, Fetched
<1>4. CommittedFits'
  BY <1>2, CommittedSame DEF IInv
<1>5. Total(Occupied)' = Total(Occupied)
  BY <1>2, OccupiedSame
<1> QED
  BY <1>1, <1>3, <1>4, <1>5

(* The end of the process, by exit(-1), an exception or undefined behaviour,
   changes no container (flashcache.cc:214). *)
LEMMA FrozenStep ==
  ASSUME IInv, proc' \in {"running", "exited", "aborted", "undefined"},
         UNCHANGED <<mutex, lru, index, size, doff, running, sem, writer, victim,
                     disk, userVars, fileVars>>
  PROVE  IInv'
<1> USE DEF userVars, fileVars
<1>1. TypeOK' /\ MutexHeld'
  BY DEF IInv, TypeOK, MutexHeld, Inserting
<1>2. /\ CreatedInOrder' /\ VictimOpen' /\ BuffersFit' /\ CommittedFits'
      /\ Total(Occupied)' = Total(Occupied)
  BY FilesSame
<1>3. ListIsOpen' /\ IndexHome'
  BY DEF IInv, ListIsOpen, IndexHome, Open, Listed, Inserting
<1>4. Counted'
  BY <1>2 DEF IInv, Counted
<1> QED
  BY <1>1, <1>2, <1>3, <1>4 DEF IInv

(* A crash is such a step (flashcache.cc:214, :525). *)
LEMMA CrashStep ==
  ASSUME IInv, NEW how \in {"exited", "aborted", "undefined"}, Crash(how)
  PROVE  IInv'
BY FrozenStep DEF Crash

-----------------------------------------------------------------------------
(* The list of files.                                                      *)

(* A new file is put in front (flashcache.cc:515). *)
LEMMA ListPush ==
  ASSUME lru \in Seq(Files), IsInjective(lru), NEW f \in Files, ~ Listed(f),
         lru' = LruPushFront(lru, f)
  PROVE  lru' \in Seq(Files) /\ IsInjective(lru') /\ \A j : Listed(j)' <=> j = f \/ Listed(j)
<1>1. f \notin Range(lru)
  BY DEF Listed
<1>2. IsInjective(LruPushFront(lru, f)) /\ Range(LruPushFront(lru, f)) = Range(lru) \cup {f}
  BY <1>1, PushFrontRange
<1>3. LruPushFront(lru, f) \in Seq(Files)
  BY PushFrontIndex
<1> QED
  BY <1>2, <1>3 DEF Listed

(* A file that is looked up keeps its node (flashcache.cc:551). *)
LEMMA ListTouch ==
  ASSUME lru \in Seq(Files), IsInjective(lru), NEW f \in Files, LruListed(lru, f),
         lru' = LruTouch(lru, f)
  PROVE  lru' \in Seq(Files) /\ IsInjective(lru') /\ \A j : Listed(j)' <=> Listed(j)
<1>1. IsInjective(LruTouch(lru, f)) /\ Range(LruTouch(lru, f)) = Range(lru)
  BY TouchRange
<1>2. LruTouch(lru, f) \in Seq(Files)
  BY TouchIndex
<1> QED
  BY <1>1, <1>2 DEF Listed

(* The victim's node goes, and no other (flashcache.cc:575). *)
LEMMA ListDrop ==
  ASSUME lru \in Seq(Files), IsInjective(lru), lru # <<>>, lru' = LruDropVictim(lru)
  PROVE  /\ lru' \in Seq(Files) /\ IsInjective(lru')
         /\ LruVictim(lru) \in Files /\ Listed(LruVictim(lru))
         /\ \A j : Listed(j)' <=> j # LruVictim(lru) /\ Listed(j)
<1>1. /\ IsInjective(LruDropVictim(lru)) /\ LruVictim(lru) \in Range(lru)
      /\ Range(LruDropVictim(lru)) = Range(lru) \ {LruVictim(lru)}
  BY DropVictimRange
<1>2. LruDropVictim(lru) \in Seq(Files) /\ LruVictim(lru) \in Files
  BY DropVictimIndex
<1> QED
  BY <1>1, <1>2 DEF Listed

-----------------------------------------------------------------------------
(* The user.                                                               *)

(* What Append does to the files: one gets longer, and its buf_woff_ counts
   its full buffers unless it is full (flashcache.cc:294-318). *)
LEMMA AppendFiles ==
  ASSUME TypeOK, NEW f \in Files, NEW k \in Keys, NEW n \in 1..MaxRecord, AppendTo(f, k, n)
  PROVE  /\ keys' \in [Files -> SUBSET Keys] /\ keys'[f] = keys[f] \cup {k}
         /\ off' \in [Files -> Nat] /\ off'[f] = off[f] + n
         /\ eof' \in [Files -> BOOLEAN]
         /\ woff' \in [Files -> Nat] /\ sem' \in [Files -> Nat]
         /\ ~eof'[f] => woff'[f] * BufSize <= off'[f]
         /\ \A g \in Files : g # f => /\ keys'[g] = keys[g] /\ off'[g] = off[g]
                                      /\ eof'[g] = eof[g] /\ woff'[g] = woff[g]
         /\ user' \in {"mark", "index"} /\ key' = k /\ rec' = n /\ mutex' = "user"
<1> DEFINE filled == (off[f] + n) \div BufSize
           full == off[f] + n >= FileSize
<1>1. /\ keys' = [keys EXCEPT ![f] = keys[f] \cup {k}]
      /\ off' = [off EXCEPT ![f] = off[f] + n]
      /\ eof' = [eof EXCEPT ![f] = full]
      /\ key' = k /\ rec' = n /\ mutex' = "user"
  BY DEF AppendTo
<1>2. \/ woff' = [woff EXCEPT ![f] = filled] /\ sem' = sem /\ user' = "index"
      \/ /\ woff' = [woff EXCEPT ![f] = IF full THEN filled + 1 ELSE filled]
         /\ sem' = [sem EXCEPT ![f] = sem[f] + 1]
         /\ user' = "mark"
  BY DEF AppendTo
<1>3. off[f] + n \in Nat
  BY CapacityAssumption DEF TypeOK
<1>4. filled \in Nat /\ filled * BufSize <= off[f] + n
  BY <1>3, FilledBuffers
<1>5. full \in BOOLEAN
  OBVIOUS
<1> HIDE DEF filled, full
<1>6. /\ keys' \in [Files -> SUBSET Keys] /\ keys'[f] = keys[f] \cup {k}
      /\ \A g \in Files : g # f => keys'[g] = keys[g]
  BY <1>1 DEF TypeOK
<1>7. /\ off' \in [Files -> Nat] /\ off'[f] = off[f] + n
      /\ \A g \in Files : g # f => off'[g] = off[g]
  BY <1>1, <1>3 DEF TypeOK
<1>8. /\ eof' \in [Files -> BOOLEAN] /\ eof'[f] = full
      /\ \A g \in Files : g # f => eof'[g] = eof[g]
  BY <1>1, <1>5, Zenon DEF TypeOK
<1>9. /\ woff' \in [Files -> Nat] /\ sem' \in [Files -> Nat]
      /\ ~ full => woff'[f] = filled
      /\ \A g \in Files : g # f => woff'[g] = woff[g]
  <2>1. CASE woff' = [woff EXCEPT ![f] = filled] /\ sem' = sem
    BY <1>4, <2>1 DEF TypeOK
  <2>2. CASE /\ woff' = [woff EXCEPT ![f] = IF full THEN filled + 1 ELSE filled]
             /\ sem' = [sem EXCEPT ![f] = sem[f] + 1]
    <3>1. woff \in [Files -> Nat] /\ sem \in [Files -> Nat]
      BY DEF TypeOK
    <3>2. sem' \in [Files -> Nat]
      BY <2>2, <3>1
    <3>3. PICK w \in Nat : w = IF full THEN filled + 1 ELSE filled
      BY <1>4
    <3>4. woff' = [woff EXCEPT ![f] = w]
      BY <2>2, <3>3
    <3> QED
      BY <3>1, <3>2, <3>3, <3>4
  <2> QED
    BY <1>2, <2>1, <2>2
<1>10. ~eof'[f] => woff'[f] * BufSize <= off'[f]
  BY <1>4, <1>7, <1>8, <1>9
<1> QED
  BY <1>1, <1>2, <1>6, <1>7, <1>8, <1>9, <1>10

(* Insert appends to an open file that is not full, the current one or the
   one just created (flashcache.cc:525-535). *)
LEMMA AppendStep ==
  ASSUME IInv, NEW k \in Keys, NEW n \in 1..MaxRecord, NEW f \in Files, ~eof[f],
         mutex = "free", user = "idle", writer[f] # "gone",
         AppendTo(f, k, n), current' = f,
         writer' \in [Files -> Places],
         writer'[f] = IF writer[f] = "none" THEN "wait" ELSE writer[f],
         \A g \in Files : g # f => writer'[g] = writer[g],
         lru' \in Seq(Files), UNCHANGED <<proc, index, size, doff, running, victim, disk>>
  PROVE  /\ TypeOK' /\ MutexHeld' /\ VictimOpen' /\ IndexHome'
         /\ BuffersFit' /\ Counted' /\ CommittedFits'
<1>0. TypeOK
  BY DEF IInv
<1>1. /\ keys' \in [Files -> SUBSET Keys] /\ keys'[f] = keys[f] \cup {k}
      /\ off' \in [Files -> Nat] /\ off'[f] = off[f] + n
      /\ eof' \in [Files -> BOOLEAN]
      /\ woff' \in [Files -> Nat] /\ sem' \in [Files -> Nat]
      /\ ~eof'[f] => woff'[f] * BufSize <= off'[f]
      /\ \A g \in Files : g # f => /\ keys'[g] = keys[g] /\ off'[g] = off[g]
                                   /\ eof'[g] = eof[g] /\ woff'[g] = woff[g]
      /\ user' \in {"mark", "index"} /\ key' = k /\ rec' = n /\ mutex' = "user"
  BY <1>0, AppendFiles
<1>2. TypeOK'
  <2>1. rec' \in 0..MaxRecord /\ key' \in Keys \cup {None} /\ current' \in Files
    BY <1>1, CapacityAssumption
  <2>2. /\ proc' = proc /\ index' = index /\ size' = size /\ doff' = doff
        /\ running' = running /\ victim' = victim /\ disk' = disk
    OBVIOUS
  <2> QED
    BY <1>0, <1>1, <2>1, <2>2 DEF TypeOK
<1>3. /\ \A g \in Files : writer'[g] = "join" <=> writer[g] = "join"
      /\ \A g \in Files : Open(g) => Open(g)'
      /\ \A g \in Files : Fetched(g)' <=> Fetched(g)
      /\ \A g \in Files : writer'[g] = "write" <=> writer[g] = "write"
      /\ \A g \in Files : writer'[g] = "gone" <=> writer[g] = "gone"
      /\ Open(f)'
  BY DEF Open, Fetched
<1>4. MutexHeld'
  <2>1. Inserting' /\ ~ Inserting
    BY <1>1 DEF Inserting
  <2> QED
    BY <1>1, <1>3, <2>1 DEF IInv, MutexHeld
<1>5. VictimOpen'
  <2>1. \A g \in Files : victim'[g] = victim[g] /\ victim[g] \in Files \cup {None}
    BY <1>0 DEF TypeOK
  <2> QED
    BY <1>3, <2>1 DEF IInv, VictimOpen
<1>6. IndexHome'
  <2>1. ASSUME NEW j \in Keys, index'[j] # None
        PROVE  j \in keys'[index'[j]] /\ Open(index[j])'
    <3>1. index[j] \in Files /\ index'[j] = index[j]
      BY <1>0, <2>1 DEF TypeOK
    <3>2. j \in keys[index[j]] /\ Open(index[j])
      BY <2>1, <3>1 DEF IInv, IndexHome
    <3> QED
      BY <1>1, <1>3, <3>1, <3>2 DEF Open
  <2>2. key' \in keys'[current'] /\ Open(current)'
    BY <1>1, <1>3 DEF Open
  <2> QED
    BY <2>1, <2>2 DEF IndexHome, Open
<1>7. \A g \in Files : Start(g)' = Start(g) /\ Start(g) \in Nat
  BY <1>0, StartIsNat DEF Start
<1>8. off[f] \in Nat /\ disk[f] \in Nat /\ disk'[f] = disk[f] /\ n \in Nat /\ n >= 1
  BY <1>0, CapacityAssumption DEF TypeOK
<1>9. disk[f] <= Start(f) /\ disk[f] <= off[f]
  BY DEF IInv, BuffersFit
<1>10. Fetched(f) => Start(f) + BufSize <= off[f] /\ Start(f) < off[f]
  BY DEF IInv, BuffersFit
<1>11. BuffersFit'
  <2>1. /\ disk'[f] <= Start(f)' /\ disk'[f] <= off'[f]
        /\ Fetched(f)' => Start(f)' < off'[f] /\ Start(f)' + BufSize <= off'[f]
    <3> DEFINE st == Start(f)
               dk == disk[f]
    <3>1. st \in Nat /\ dk \in Nat /\ BufSize \in Nat
      BY <1>7, <1>8, CapacityAssumption
    <3>2. /\ disk'[f] = dk /\ Start(f)' = st /\ dk <= st /\ dk <= off[f]
          /\ Fetched(f)' => st + BufSize <= off[f] /\ st < off[f]
      BY <1>3, <1>7, <1>8, <1>9, <1>10
    <3>3. off'[f] = off[f] + n /\ off[f] \in Nat /\ n \in Nat
      BY <1>1, <1>8
    <3> HIDE DEF st, dk
    <3> QED
      BY ONLY <3>1, <3>2, <3>3
  <2>2. ASSUME NEW g \in Files, g # f
        PROVE  /\ disk'[g] <= Start(g)'
               /\ writer'[g] # "gone" => disk'[g] <= off'[g]
               /\ ~eof'[g] => woff'[g] * BufSize <= off'[g]
               /\ Fetched(g)' => Start(g)' < off'[g] /\ (eof'[g] \/ Start(g)' + BufSize <= off'[g])
    BY <1>1, <1>3, <1>7, <2>2 DEF IInv, BuffersFit
  <2> QED
    BY <1>1, <2>1, <2>2 DEF BuffersFit
<1>12. Counted'
  <2>1. \A g \in Files : g # f => Occupies(g)' = Occupies(g)
    BY <1>1 DEF Occupies
  <2>2. Occupies(f)' = Occupies(f) + n
    BY <1>1, <1>3 DEF Occupies
  <2>3. /\ Total(Occupied)' + Occupies(f) = Total(Occupied) + Occupies(f)'
        /\ Total(Occupied) \in Nat /\ Total(Occupied)' \in Nat /\ Occupies(f) \in Nat
    BY <1>0, <1>2, <2>1, OccupiedStep
  <2>4. size \in Nat /\ size' = size /\ size >= Total(Occupied)
    <3>1. rec = 0
      BY DEF IInv, MutexHeld, Inserting
    <3> QED
      BY <1>0, <3>1 DEF IInv, TypeOK, Counted
  <2> HIDE DEF IInv
  <2>5. size' + n >= Total(Occupied)'
    BY <1>8, <2>2, <2>3, <2>4
  <2> QED
    BY <1>1, <2>5 DEF Counted
<1>13. CommittedFits'
  <2>1. Fetched(f) => Used(f) = BufSize /\ Used(f)' = BufSize
    BY <1>1, <1>7, <1>8, <1>10, CapacityAssumption DEF Used
  <2>2. \A g \in Files : g # f => Used(g)' = Used(g)
    BY <1>1, <1>7 DEF Used
  <2>3. \A g \in Files : Commits(g)' = Commits(g)
    BY <1>3, <2>1, <2>2 DEF Commits, Fetched
  <2> QED
    BY <2>3, CommittedSame DEF IInv
<1> QED
  BY <1>2, <1>4, <1>5, <1>6, <1>11, <1>12, <1>13

(* Insert up to the Append (flashcache.cc:525-535). *)
LEMMA InsertAppendStep ==
  ASSUME IInv, NEW k \in Keys, NEW n \in RecordSizes, InsertAppend(k, n)
  PROVE  IInv'
<1>0. /\ TypeOK /\ mutex = "free" /\ user = "idle" /\ current \in Files
      /\ \A f \in Files : writer[f] \in Places
      /\ n \in 1..MaxRecord
  BY CapacityAssumption DEF IInv, TypeOK, InsertAppend, UserAt
<1>1. writer[current] # "none"
  BY <1>0 DEF IInv, CreatedInOrder, Files
<1>2. CASE /\ writer[current] # "gone" /\ ~eof[current]
           /\ AppendTo(current, k, n)
           /\ UNCHANGED <<proc, current, lru, index, size, doff, running, writer,
                          victim, disk>>
  <2>1. /\ writer' \in [Files -> Places] /\ lru' \in Seq(Files) /\ current' = current
        /\ \A g \in Files : writer'[g] = writer[g]
    BY <1>0, <1>2 DEF TypeOK
  <2>2. /\ TypeOK' /\ MutexHeld' /\ VictimOpen' /\ IndexHome'
        /\ BuffersFit' /\ Counted' /\ CommittedFits'
    BY <1>0, <1>1, <1>2, <2>1, AppendStep
  <2>3. \A f \in Files : f # current => off'[f] = off[f] /\ eof'[f] = eof[f]
    BY <1>0, <1>2, AppendFiles
  <2>4. CreatedInOrder'
    BY <1>0, <1>1, <1>2, <2>1, <2>3 DEF IInv, CreatedInOrder
  <2>5. ListIsOpen'
    BY <1>2 DEF IInv, ListIsOpen, Listed, Open
  <2> QED
    BY <2>2, <2>4, <2>5 DEF IInv
<1>3. CASE /\ writer[current] # "gone" /\ eof[current]
           /\ current < MaxFiles
           /\ current' = current + 1
           /\ lru' = LruPushFront(lru, current + 1)
           /\ writer' = [writer EXCEPT ![current + 1] = "wait"]
           /\ AppendTo(current + 1, k, n)
           /\ UNCHANGED <<proc, index, size, doff, running, victim, disk>>
  <2> DEFINE c == current + 1
  <2>1. c \in Files /\ c > current
    BY <1>0, <1>3, CapacityAssumption DEF Files
  <2>2. writer[c] = "none" /\ ~eof[c]
    BY <2>1 DEF IInv, CreatedInOrder
  <2>3. lru \in Seq(Files) /\ IsInjective(lru) /\ ~ Listed(c)
    BY <1>0, <2>1, <2>2 DEF IInv, TypeOK, ListIsOpen, Open
  <2>4. /\ lru' = LruPushFront(lru, c) /\ current' = c /\ AppendTo(c, k, n)
        /\ writer' = [writer EXCEPT ![c] = "wait"]
    BY <1>3
  <2>5. \A f \in Files : f > c <=> f > current /\ f # c
    BY <1>0 DEF Files
  <2> HIDE DEF c
  <2>6. /\ lru' \in Seq(Files) /\ IsInjective(lru')
        /\ \A j : Listed(j)' <=> j = c \/ Listed(j)
    BY <2>1, <2>3, <2>4, ListPush
  <2>7. /\ writer' \in [Files -> Places] /\ writer'[c] = "wait"
        /\ \A f \in Files : f # c => writer'[f] = writer[f]
    BY <1>0, <2>1, <2>4 DEF TypeOK, Places
  <2>8. /\ TypeOK' /\ MutexHeld' /\ VictimOpen' /\ IndexHome'
        /\ BuffersFit' /\ Counted' /\ CommittedFits'
    BY <1>0, <1>3, <2>1, <2>2, <2>4, <2>6, <2>7, AppendStep
  <2>9. \A f \in Files : f # c => off'[f] = off[f] /\ eof'[f] = eof[f]
    BY <1>0, <2>1, <2>4, AppendFiles
  <2>10. disk' = disk
    BY <1>3
  <2>11. CreatedInOrder'
    BY <2>4, <2>5, <2>7, <2>9, <2>10 DEF IInv, CreatedInOrder
  <2>12. \A g \in Files : victim'[g] = victim[g] /\ victim[g] # c
    <3>1. c # None
      BY <2>1, CapacityAssumption DEF Files
    <3>2. ~ Open(c)
      BY <2>2 DEF Open
    <3> QED
      BY <1>3, <3>1, <3>2 DEF IInv, VictimOpen
  <2>13. ListIsOpen'
    BY <2>6, <2>7, <2>12 DEF IInv, ListIsOpen, Open
  <2> QED
    BY <2>8, <2>11, <2>13 DEF IInv
<1>4. CASE Crash("undefined")
  BY <1>4, CrashStep
<1> QED
  BY <1>2, <1>3, <1>4 DEF InsertAppend

(* The end of DispatchBuffer (flashcache.cc:291). *)
LEMMA MarkRunningStep ==
  ASSUME IInv, MarkRunning
  PROVE  IInv'
<1>0. TypeOK /\ user = "mark" /\ current \in Files
  BY DEF IInv, TypeOK, MarkRunning, UserAt
<1>1. /\ running' = [running EXCEPT ![current] = TRUE] /\ user' = "index"
      /\ UNCHANGED <<proc, mutex, lru, index, size, doff, sem, writer, victim,
                     disk, key, rec, current, fileVars>>
  BY DEF MarkRunning
<1>2. running' \in [Files -> BOOLEAN]
  BY <1>0, <1>1, Zenon DEF TypeOK
<1>3. TypeOK'
  BY <1>0, <1>1, <1>2 DEF TypeOK, fileVars
<1>4. /\ CreatedInOrder' /\ VictimOpen' /\ BuffersFit' /\ CommittedFits'
      /\ Total(Occupied)' = Total(Occupied)
  BY <1>1, FilesSame
<1>5. Inserting /\ Inserting'
  BY <1>0, <1>1 DEF Inserting
<1>6. MutexHeld'
  BY <1>0, <1>1, <1>5 DEF IInv, MutexHeld
<1>7. ListIsOpen' /\ IndexHome'
  BY <1>1, <1>5 DEF IInv, ListIsOpen, IndexHome, Open, Listed, fileVars
<1>8. Counted'
  BY <1>1, <1>4 DEF IInv, Counted
<1> QED
  BY <1>3, <1>4, <1>6, <1>7, <1>8 DEF IInv

(* The rest of Insert (flashcache.cc:537-539). *)
LEMMA InsertIndexStep ==
  ASSUME IInv, InsertIndex
  PROVE  IInv'
<1>0. /\ TypeOK /\ user = "index" /\ Inserting /\ mutex = "user" /\ key \in Keys
      /\ current \in Files
  BY DEF IInv, TypeOK, MutexHeld, InsertIndex, UserAt, Inserting
<1>1. /\ size' = size + rec /\ user' = "idle" /\ key' = None /\ rec' = 0 /\ mutex' = "free"
      /\ index' = IF index[key] = None THEN [index EXCEPT ![key] = current] ELSE index
      /\ UNCHANGED <<proc, lru, doff, running, sem, writer, victim, disk, current,
                     fileVars>>
  BY DEF InsertIndex
<1>2. TypeOK'
  <2>1. size' \in Nat /\ rec' \in 0..MaxRecord
    BY <1>0, <1>1, CapacityAssumption DEF TypeOK
  <2>2. index' \in [Keys -> Files \cup {None}]
    BY <1>0, <1>1 DEF TypeOK
  <2> QED
    BY <1>0, <1>1, <2>1, <2>2 DEF TypeOK, fileVars
<1>3. /\ CreatedInOrder' /\ VictimOpen' /\ BuffersFit' /\ CommittedFits'
      /\ Total(Occupied)' = Total(Occupied) /\ \A f : Open(f)' = Open(f)
  BY <1>1, FilesSame
<1>4. MutexHeld'
  BY <1>0, <1>1 DEF IInv, MutexHeld, Inserting
<1>5. ListIsOpen'
  BY <1>1 DEF IInv, ListIsOpen, Listed, Open
<1>6. IndexHome'
  <2>1. key \in keys[current] /\ Open(current)
    BY <1>0 DEF IInv, IndexHome
  <2>2. ASSUME NEW j \in Keys, index'[j] # None
        PROVE  j \in keys[index'[j]] /\ Open(index'[j])
    <3>1. CASE index'[j] = index[j]
      BY <2>2, <3>1 DEF IInv, IndexHome
    <3>2. CASE index'[j] # index[j]
      <4>1. j = key /\ index'[j] = current
        BY <1>0, <1>1, <3>2 DEF TypeOK
      <4> QED
        BY <2>1, <4>1
    <3> QED
      BY <3>1, <3>2
  <2>3. ~ Inserting'
    BY <1>1 DEF Inserting
  <2> QED
    BY <1>1, <2>2, <2>3 DEF IndexHome, Open, fileVars
<1>7. Counted'
  <2>1. size' + rec' = size + rec
    BY <1>0, <1>1 DEF TypeOK
  <2> QED
    BY <1>3, <2>1 DEF IInv, Counted
<1> QED
  BY <1>2, <1>3, <1>4, <1>5, <1>6, <1>7 DEF IInv

(* Lookup makes a file the most recently used one, or keeps the lock
   (flashcache.cc:542-566). *)
LEMMA LookupStep ==
  ASSUME IInv, NEW k \in Keys, Lookup(k)
  PROVE  IInv'
<1>0. TypeOK /\ mutex = "free" /\ user = "idle"
  BY DEF IInv, TypeOK, Lookup, UserAt
<1>1. UNCHANGED <<proc, index, size, doff, running, sem, writer, victim, disk,
                  rec, current, fileVars>>
  BY DEF Lookup
<1>2. /\ lru' \in Seq(Files) /\ IsInjective(lru') /\ \A j : Listed(j)' <=> Listed(j)
      /\ \/ mutex' \in {"free", "kept"} /\ user' = "idle" /\ key' = key
         \/ mutex' = "free" /\ user' = "promote" /\ key' = k
  <2>1. CASE mutex' = "kept" /\ UNCHANGED <<lru, user, key>>
    BY <1>0, <2>1 DEF IInv, TypeOK, ListIsOpen, Listed
  <2>2. CASE /\ index[k] # None /\ LruListed(lru, index[k])
             /\ lru' = LruTouch(lru, index[k])
             /\ \/ user' = "promote" /\ key' = k
                \/ UNCHANGED <<user, key>>
             /\ UNCHANGED mutex
    <3>1. lru \in Seq(Files) /\ IsInjective(lru) /\ index[k] \in Files
      BY <1>0, <2>2 DEF IInv, TypeOK, ListIsOpen
    <3>2. lru' \in Seq(Files) /\ IsInjective(lru') /\ \A j : Listed(j)' <=> Listed(j)
      BY <2>2, <3>1, ListTouch
    <3> QED
      BY <1>0, <2>2, <3>2
  <2> QED
    BY <2>1, <2>2 DEF Lookup
<1>3. TypeOK'
  BY <1>0, <1>1, <1>2 DEF TypeOK, fileVars
<1>4. /\ CreatedInOrder' /\ VictimOpen' /\ BuffersFit' /\ CommittedFits'
      /\ Total(Occupied)' = Total(Occupied)
  BY <1>1, FilesSame
<1>5. MutexHeld'
  BY <1>0, <1>1, <1>2 DEF IInv, MutexHeld, Inserting
<1>6. ListIsOpen' /\ IndexHome'
  BY <1>1, <1>2 DEF IInv, ListIsOpen, IndexHome, Open, Inserting, fileVars
<1>7. Counted'
  BY <1>1, <1>4 DEF IInv, Counted
<1> QED
  BY <1>3, <1>4, <1>5, <1>6, <1>7 DEF IInv

(* DeleteMetaData erases the promoted key (flashcache.cc:587). *)
LEMMA DeleteMetaDataStep ==
  ASSUME IInv, DeleteMetaData
  PROVE  IInv'
<1>0. TypeOK /\ user = "promote" /\ key \in Keys
  BY DEF IInv, TypeOK, MutexHeld, DeleteMetaData, UserAt
<1>1. /\ index' = [index EXCEPT ![key] = None] /\ user' = "idle" /\ key' = None
      /\ UNCHANGED <<proc, mutex, lru, size, doff, running, sem, writer, victim,
                     disk, rec, current, fileVars>>
  BY DEF DeleteMetaData
<1>2. TypeOK'
  BY <1>0, <1>1 DEF TypeOK, fileVars
<1>3. /\ CreatedInOrder' /\ VictimOpen' /\ BuffersFit' /\ CommittedFits'
      /\ Total(Occupied)' = Total(Occupied)
  BY <1>1, FilesSame
<1>4. MutexHeld'
  BY <1>0, <1>1 DEF IInv, MutexHeld, Inserting
<1>5. ListIsOpen'
  BY <1>1 DEF IInv, ListIsOpen, Listed, Open
<1>6. IndexHome'
  <2>1. \A j \in Keys : index'[j] # None => index'[j] = index[j]
    BY <1>0, <1>1 DEF TypeOK
  <2> QED
    BY <1>1, <2>1 DEF IInv, IndexHome, Open, Inserting, fileVars
<1>7. Counted'
  BY <1>1, <1>3 DEF IInv, Counted
<1> QED
  BY <1>2, <1>3, <1>4, <1>5, <1>6, <1>7 DEF IInv

-----------------------------------------------------------------------------
(* A writer.                                                               *)

(* Where a writer is that neither joins nor has gone. *)
Moving == {"wait", "loop", "evict", "lock", "write", "stop", "check", "done"}

(* A writer that only moves on, and writes to its own file at most
   (flashcache.cc:195-252). *)
LEMMA MoveStep ==
  ASSUME IInv, NEW f \in Files, NEW place \in Moving, writer[f] \in Moving,
         writer' = [writer EXCEPT ![f] = place],
         sem' \in [Files -> Nat], running' \in [Files -> BOOLEAN],
         doff' \in [Files -> Nat], disk' \in [Files -> Nat],
         \A g \in Files : g # f => doff'[g] = doff[g] /\ disk'[g] = disk[g],
         UNCHANGED <<proc, mutex, lru, index, size, victim, userVars, fileVars>>
  PROVE  /\ TypeOK' /\ MutexHeld' /\ CreatedInOrder' /\ VictimOpen' /\ ListIsOpen'
         /\ IndexHome' /\ Counted'
         /\ writer'[f] = place /\ \A g \in Files : g # f => writer'[g] = writer[g]
<1> USE DEF userVars, fileVars
<1>0. TypeOK
  BY DEF IInv
<1>1. /\ writer' \in [Files -> Places] /\ writer'[f] = place
      /\ \A g \in Files : g # f => writer'[g] = writer[g]
  BY <1>0 DEF TypeOK, Places, Moving
<1>2. TypeOK'
  <2>1. /\ proc' = proc /\ mutex' = mutex /\ lru' = lru /\ index' = index /\ size' = size
        /\ victim' = victim /\ user' = user /\ key' = key /\ rec' = rec
        /\ current' = current /\ keys' = keys /\ off' = off /\ eof' = eof /\ woff' = woff
    OBVIOUS
  <2> QED
    BY <1>0, <1>1, <2>1 DEF TypeOK
<1>3. /\ \A g \in Files : writer'[g] = "join" <=> writer[g] = "join"
      /\ \A g \in Files : writer'[g] = "none" <=> writer[g] = "none"
      /\ \A g \in Files : writer'[g] = "gone" <=> writer[g] = "gone"
      /\ \A g \in Files : Open(g)' <=> Open(g)
      /\ writer[f] # "none"
  BY <1>1 DEF Open, Moving
<1>4. MutexHeld'
  BY <1>3 DEF IInv, MutexHeld, Inserting
<1>5. CreatedInOrder'
  BY <1>3 DEF IInv, CreatedInOrder
<1>6. VictimOpen'
  <2>1. \A g \in Files : victim'[g] = victim[g] /\ victim[g] \in Files \cup {None}
    BY <1>0 DEF TypeOK
  <2> QED
    BY <1>3, <2>1 DEF IInv, VictimOpen
<1>7. ListIsOpen'
  BY <1>3 DEF IInv, ListIsOpen, Listed
<1>8. IndexHome'
  <2>1. \A k \in Keys : index'[k] = index[k] /\ index[k] \in Files \cup {None}
    BY <1>0 DEF TypeOK
  <2>2. current' = current /\ current \in Files /\ keys' = keys /\ user' = user /\ key' = key
    BY <1>0 DEF TypeOK
  <2> QED
    BY <1>3, <2>1, <2>2 DEF IInv, IndexHome, Inserting
<1>9. Counted'
  <2>1. \A g \in Files : Occupies(g)' = Occupies(g)
    <3>1. writer[f] # "gone" /\ writer'[f] # "gone" /\ off' = off
      BY <1>1 DEF Moving
    <3> QED
      BY <1>1, <3>1 DEF Occupies
  <2>2. Total(Occupied)' = Total(Occupied)
    BY <2>1, OccupiedSame
  <2> QED
    BY <2>2 DEF IInv, Counted
<1> QED
  BY <1>1, <1>2, <1>4, <1>5, <1>6, <1>7, <1>8, <1>9

(* Such a step that neither fetches a buffer that is not there, nor passes
   Evict, nor writes (flashcache.cc:196-205, :222, :247). *)
LEMMA QuietStep ==
  ASSUME IInv, NEW f \in Files, NEW place \in Moving \ {"write"},
         writer[f] \in Moving \ {"write"},
         place \in {"evict", "lock"} =>
           Start(f) < off[f] /\ (eof[f] \/ Start(f) + BufSize <= off[f]),
         writer' = [writer EXCEPT ![f] = place],
         sem' \in [Files -> Nat], running' \in [Files -> BOOLEAN],
         UNCHANGED <<proc, mutex, lru, index, size, doff, victim, disk, userVars, fileVars>>
  PROVE  IInv'
<1>1. doff' \in [Files -> Nat] /\ disk' \in [Files -> Nat]
  BY DEF IInv, TypeOK
<1>2. /\ TypeOK' /\ MutexHeld' /\ CreatedInOrder' /\ VictimOpen' /\ ListIsOpen'
      /\ IndexHome' /\ Counted'
      /\ writer'[f] = place /\ \A g \in Files : g # f => writer'[g] = writer[g]
  BY <1>1, MoveStep
<1>3. \A g \in Files : Start(g)' = Start(g) /\ Used(g)' = Used(g)
  BY DEF Start, Used, fileVars
<1>4. place \notin {"write", "join", "gone"} /\ writer[f] \notin {"write", "gone"}
  BY DEF Moving
<1>5. BuffersFit'
  BY <1>2, <1>3, <1>4 DEF IInv, BuffersFit, Fetched, fileVars
<1>6. \A g \in Files : Commits(g)' = Commits(g)
  BY <1>2, <1>3, <1>4 DEF Commits
<1>7. CommittedFits'
  BY <1>6, CommittedSame DEF IInv
<1> QED
  BY <1>2, <1>5, <1>7 DEF IInv

(* A writer wakes up (flashcache.cc:196). *)
LEMMA SemWaitStep ==
  ASSUME IInv, NEW f \in Files, SemWait(f)
  PROVE  IInv'
<1>1. /\ writer[f] = "wait" /\ sem[f] > 0 /\ sem' = [sem EXCEPT ![f] = sem[f] - 1]
      /\ writer' = [writer EXCEPT ![f] = "loop"]
      /\ UNCHANGED <<proc, mutex, lru, index, size, doff, running, victim, disk,
                     userVars, fileVars>>
  BY DEF SemWait, WriterAt
<1>2. sem' \in [Files -> Nat] /\ running' \in [Files -> BOOLEAN]
  BY <1>1 DEF IInv, TypeOK
<1>3. "loop" \in Moving \ {"write"} /\ writer[f] \in Moving \ {"write"}
  BY <1>1 DEF Moving
<1> QED
  BY <1>1, <1>2, <1>3, QuietStep

(* A step that only moves a writer (flashcache.cc:200-205, :247). *)
LEMMA GoToStep ==
  ASSUME IInv, NEW f \in Files, NEW place \in Moving \ {"write"},
         writer[f] \in Moving \ {"write"},
         place \in {"evict", "lock"} =>
           Start(f) < off[f] /\ (eof[f] \/ Start(f) + BufSize <= off[f]),
         GoTo(f, place)
  PROVE  IInv'
<1>1. /\ writer' = [writer EXCEPT ![f] = place]
      /\ UNCHANGED <<proc, mutex, lru, index, size, doff, running, sem, victim,
                     disk, userVars, fileVars>>
  BY DEF GoTo
<1>2. sem' \in [Files -> Nat] /\ running' \in [Files -> BOOLEAN]
  BY <1>1 DEF IInv, TypeOK
<1> QED
  BY <1>1, <1>2, QuietStep

(* The loop of Write: before the file is full only full buffers are counted by
   buf_woff_, so a buffer that is fetched does not change any more
   (flashcache.cc:200-201). *)
LEMMA LoopTestStep ==
  ASSUME IInv, NEW f \in Files, LoopTest(f)
  PROVE  IInv'
<1>0. /\ TypeOK /\ writer[f] = "loop"
      /\ off[f] \in Nat /\ woff[f] \in Nat /\ doff[f] \in Nat /\ Start(f) \in Nat
  BY StartIsNat DEF IInv, TypeOK, LoopTest, WriterAt
<1>1. writer[f] \in Moving \ {"write"} /\ {"stop", "evict"} \subseteq Moving \ {"write"}
  BY <1>0 DEF Moving
<1>2. CASE GoTo(f, "stop")
  BY <1>1, <1>2, GoToStep
<1>3. CASE doff[f] < woff[f] /\ Start(f) < off[f] /\ GoTo(f, "evict")
  <2>1. eof[f] \/ Start(f) + BufSize <= off[f]
    <3>1. Start(f) + BufSize <= woff[f] * BufSize
      BY <1>0, <1>3, BufferBefore DEF Start
    <3>2. ~eof[f] => woff[f] * BufSize <= off[f]
      BY DEF IInv, BuffersFit
    <3>3. woff[f] * BufSize \in Nat
      BY <1>0, NextBuffer
    <3> QED
      BY <1>0, <3>1, <3>2, <3>3, CapacityAssumption
  <2> QED
    BY <1>1, <1>3, <2>1, GoToStep
<1>4. CASE Crash("undefined")
  BY <1>4, CrashStep
<1> QED
  BY <1>2, <1>3, <1>4 DEF LoopTest

(* The test of Evict.  size_ was read without the lock, and counts all that
   the files hold or will hold but for one record of an Insert in progress.
   The buffer that passes has a byte at least (flashcache.cc:569). *)
LEMMA EvictTestStep ==
  ASSUME IInv, NEW f \in Files, EvictTest(f)
  PROVE  IInv'
<1>0. TypeOK /\ BuffersFit /\ writer[f] = "evict"
  BY DEF IInv, EvictTest, WriterAt
<1>1. Start(f) < off[f] /\ (eof[f] \/ Start(f) + BufSize <= off[f])
  BY <1>0 DEF BuffersFit, Fetched
<1>2. CASE OverCapacity(f)
  <2>1. GoTo(f, "lock")
    BY <1>2 DEF EvictTest
  <2>2. "lock" \in Moving \ {"write"} /\ writer[f] \in Moving \ {"write"}
    BY <1>0 DEF Moving
  <2> QED
    BY <1>1, <2>1, <2>2, GoToStep
<1>3. CASE ~ OverCapacity(f)
  <2>1. /\ writer' = [writer EXCEPT ![f] = "write"]
        /\ UNCHANGED <<proc, mutex, lru, index, size, doff, running, sem, victim,
                       disk, userVars, fileVars>>
    BY <1>3 DEF EvictTest, GoTo
  <2>2. /\ sem' \in [Files -> Nat] /\ running' \in [Files -> BOOLEAN]
        /\ doff' \in [Files -> Nat] /\ disk' \in [Files -> Nat]
    BY <1>0, <2>1 DEF TypeOK
  <2>3. "write" \in Moving /\ writer[f] \in Moving
    BY <1>0 DEF Moving
  <2>4. /\ TypeOK' /\ MutexHeld' /\ CreatedInOrder' /\ VictimOpen' /\ ListIsOpen'
        /\ IndexHome' /\ Counted'
        /\ writer'[f] = "write" /\ \A g \in Files : g # f => writer'[g] = writer[g]
    BY <2>1, <2>2, <2>3, MoveStep
  <2>5. /\ off' = off /\ eof' = eof /\ woff' = woff /\ disk' = disk
        /\ \A g \in Files : Start(g)' = Start(g) /\ Used(g)' = Used(g)
    BY <2>1 DEF Start, Used, fileVars
  <2>6. BuffersFit'
    BY <1>0, <2>4, <2>5 DEF BuffersFit, Fetched
  <2>7. \A g \in Files : off[g] \in Nat /\ disk[g] \in Nat /\ Start(g) \in Nat
    BY <1>0, StartIsNat DEF TypeOK
  <2>8. \A g \in Files : Commits(g)' <= Occupies(g)
    <3> SUFFICES ASSUME NEW g \in Files PROVE Commits(g)' <= Occupies(g)
      OBVIOUS
    <3>1. off[g] \in Nat /\ disk[g] \in Nat /\ Start(g) \in Nat /\ disk[g] <= Start(g)
      BY <1>0, <2>7 DEF BuffersFit
    <3>2. CASE writer'[g] = "write"
      <4>1. writer[g] # "gone" /\ Start(g) < off[g]
        BY <1>0, <1>1, <2>4, <3>2 DEF BuffersFit, Fetched
      <4>2. Commits(g)' = disk[g] + Used(g) /\ Occupies(g) = off[g]
        BY <2>5, <3>2, <4>1 DEF Commits, Occupies
      <4>3. Used(g) \in Nat /\ Used(g) <= off[g] - Start(g)
        BY <3>1, <4>1, CapacityAssumption DEF Used
      <4> QED
        BY <3>1, <4>1, <4>2, <4>3
    <3>3. CASE writer'[g] # "write"
      <4>1. Commits(g)' = disk[g]
        BY <2>5, <3>3 DEF Commits
      <4>2. disk[g] <= Occupies(g)
        BY <1>0, <3>1 DEF Occupies, BuffersFit
      <4> QED
        BY <4>1, <4>2
    <3> QED
      BY <3>2, <3>3
  <2>9. CommittedFits'
    <3> DEFINE F == Committed'
               G == Occupied
    <3>1. F \in [Files -> Nat] /\ G \in [Files -> Nat]
      <4>1. (Committed \in [Files -> Nat])'
        BY <2>4, <2>6, SizesAreNat, PTL
      <4> QED
        BY <1>0, <4>1, SizesAreNat
    <3>2. \A g \in Files : F[g] <= G[g]
      BY <2>8 DEF Committed, Occupied
    <3> HIDE DEF F, G
    <3>3. Total(F) <= Total(G) /\ Total(F) \in Nat /\ Total(G) \in Nat
      BY <3>1, <3>2, FilesFinite, TotalMonotone, TotalIsNat
    <3>4. /\ size \in Nat /\ rec \in Nat /\ rec <= MaxRecord
          /\ size + rec >= Total(G)
      BY <1>0, CapacityAssumption DEF IInv, Counted, TypeOK, G
    <3>5. Used(f) \in Nat /\ Used(f) >= 1
      BY <1>1, <2>7, CapacityAssumption DEF Used
    <3>6. Used(f) + size <= CacheSize + 2 * (FloatUnit \div 2)
      <4>1. Used(f) + size \in Nat
        BY <3>4, <3>5
      <4>2. ~ (Float(Used(f) + size) > Float(CacheSize))
        BY <1>3 DEF OverCapacity
      <4> QED
        BY <4>1, <4>2, FloatTest
    <3>7. Excess \in Nat /\ Excess = MaxRecord - 1 + 2 * (FloatUnit \div 2)
      BY ExcessIsNat
    <3>8. PICK h \in Nat : h = FloatUnit \div 2
      <4>1. PICK u \in Nat \ {0} : u = FloatUnit
        BY CapacityAssumption
      <4>2. u \div 2 \in Nat
        OBVIOUS
      <4> QED
        BY <4>1, <4>2
    <3>9. PICK b \in Nat : b = Used(f)
      BY <3>5
    <3>10. Total(F) <= CacheSize + Excess
      BY <3>3, <3>4, <3>5, <3>6, <3>7, <3>8, <3>9, CapacityAssumption
    <3> QED
      BY <3>10 DEF CommittedFits, F
  <2> QED
    BY <2>4, <2>6, <2>9 DEF IInv
<1> QED
  BY <1>2, <1>3

(* Evict takes the least recently used file and closes it
   (flashcache.cc:574-575). *)
LEMMA EvictLockStep ==
  ASSUME IInv, NEW f \in Files, EvictLock(f)
  PROVE  IInv'
<1>0. TypeOK /\ writer[f] = "lock" /\ mutex = "free"
  BY DEF IInv, EvictLock, WriterAt
<1>1. CASE Crash("aborted")
  BY <1>1, CrashStep
<1>2. CASE /\ LruVictim(lru) # f
           /\ mutex' = "evict"
           /\ lru' = LruDropVictim(lru)
           /\ victim' = [victim EXCEPT ![f] = LruVictim(lru)]
           /\ CloseVictim(LruVictim(lru))
           /\ writer' = [writer EXCEPT ![f] = "join"]
           /\ UNCHANGED <<proc, index, size, doff, running, disk, userVars, keys, off>>
  <2> DEFINE v == LruVictim(lru)
  <2>1. \A g \in Files : writer[g] # "join" /\ victim[g] = None
    BY <1>0 DEF IInv, MutexHeld, VictimOpen
  <2>2. None \notin Files
    BY CapacityAssumption DEF Files
  <2>3. \A g \in Files : Listed(g) <=> Open(g)
    BY <2>1, <2>2 DEF IInv, ListIsOpen
  <2>4. lru # <<>>
    BY <1>0, <2>3 DEF Listed, Open, Range
  <2>5. /\ lru' \in Seq(Files) /\ IsInjective(lru') /\ v \in Files /\ Listed(v)
        /\ \A j : Listed(j)' <=> j # v /\ Listed(j)
    BY <1>0, <1>2, <2>4, ListDrop DEF IInv, TypeOK, ListIsOpen
  <2>6. v # f /\ Open(v) /\ victim' = [victim EXCEPT ![f] = v] /\ CloseVictim(v)
    BY <1>2, <2>3, <2>5
  <2> HIDE DEF v
  <2>7. /\ eof' \in [Files -> BOOLEAN] /\ eof'[v]
        /\ \A g \in Files : g # v => eof'[g] = eof[g]
    BY <1>0, <2>5, <2>6, Zenon DEF TypeOK, CloseVictim
  <2>8. /\ woff' \in [Files -> Nat] /\ sem' \in [Files -> Nat]
        /\ \A g \in Files : g # v => woff'[g] = woff[g]
    <3>1. woff' = [woff EXCEPT ![v] = woff[v] + 1] /\ sem' = [sem EXCEPT ![v] = sem[v] + 1]
      BY <2>6 DEF CloseVictim
    <3>2. woff \in [Files -> Nat] /\ sem \in [Files -> Nat]
      BY <1>0 DEF TypeOK
    <3> QED
      BY <2>5, <3>1, <3>2
  <2>9. /\ writer' \in [Files -> Places] /\ writer'[f] = "join"
        /\ \A g \in Files : g # f => writer'[g] = writer[g]
    BY <1>0, <1>2 DEF TypeOK, Places
  <2>10. /\ victim' \in [Files -> Files \cup {None}] /\ victim'[f] = v
         /\ \A g \in Files : g # f => victim'[g] = None
    BY <1>0, <2>1, <2>5, <2>6 DEF TypeOK
  <2>11. /\ proc' = proc /\ index' = index /\ size' = size /\ doff' = doff
         /\ running' = running /\ disk' = disk /\ mutex' = "evict"
         /\ user' = user /\ key' = key /\ rec' = rec /\ current' = current
         /\ keys' = keys /\ off' = off
    BY <1>2 DEF userVars
  <2>12. TypeOK'
    BY <1>0, <2>5, <2>7, <2>8, <2>9, <2>10, <2>11 DEF TypeOK
  <2>13. MutexHeld'
    BY <1>0, <2>1, <2>9, <2>11 DEF IInv, MutexHeld, Inserting
  <2>14. \A g \in Files : Open(g)' <=> Open(g)
    BY <1>0, <2>9 DEF Open
  <2>15. CreatedInOrder'
    <3>1. writer[v] # "none"
      BY <2>6 DEF Open
    <3> QED
      BY <1>0, <2>7, <2>9, <2>11, <3>1 DEF IInv, CreatedInOrder
  <2>16. VictimOpen'
    BY <2>1, <2>2, <2>5, <2>6, <2>9, <2>10, <2>14 DEF VictimOpen
  <2>17. ListIsOpen'
    BY <2>2, <2>3, <2>5, <2>10, <2>14 DEF ListIsOpen
  <2>18. IndexHome'
    <3>1. \A k \in Keys : index'[k] = index[k] /\ index[k] \in Files \cup {None}
      BY <1>0, <2>11 DEF TypeOK
    <3>2. current \in Files
      BY <1>0 DEF TypeOK
    <3> QED
      BY <2>11, <2>14, <3>1, <3>2 DEF IInv, IndexHome, Inserting
  <2>19. \A g \in Files : /\ Start(g)' = Start(g) /\ Used(g)' = Used(g)
                          /\ Fetched(g)' <=> Fetched(g)
    BY <1>0, <2>9, <2>11 DEF Start, Used, Fetched
  <2>20. BuffersFit'
    <3> SUFFICES ASSUME NEW g \in Files
                 PROVE  /\ disk'[g] <= Start(g)'
                        /\ writer'[g] # "gone" => disk'[g] <= off'[g]
                        /\ ~eof'[g] => woff'[g] * BufSize <= off'[g]
                        /\ Fetched(g)' =>
                             Start(g)' < off'[g] /\ (eof'[g] \/ Start(g)' + BufSize <= off'[g])
      BY DEF BuffersFit
    <3>1. writer'[g] # "gone" => writer[g] # "gone"
      BY <1>0, <2>9
    <3> QED
      BY <2>7, <2>8, <2>11, <2>19, <3>1 DEF IInv, BuffersFit
  <2>21. \A g \in Files : Occupies(g)' = Occupies(g) /\ Commits(g)' = Commits(g)
    BY <1>0, <2>9, <2>11, <2>19 DEF Occupies, Commits
  <2>22. Counted'
    <3>1. Total(Occupied)' = Total(Occupied)
      BY <2>21, OccupiedSame
    <3> QED
      BY <2>11, <3>1 DEF IInv, Counted
  <2>23. CommittedFits'
    BY <2>21, CommittedSame DEF IInv
  <2> QED
    BY <2>12, <2>13, <2>15, <2>16, <2>17, <2>18, <2>20, <2>22, <2>23 DEF IInv
<1> QED
  BY <1>1, <1>2 DEF EvictLock

(* The join has returned: the victim is unlinked or not, forgotten, and
   deleted.  size_ has what is subtracted (flashcache.cc:575-582). *)
LEMMA EvictFinishStep ==
  ASSUME IInv, NEW f \in Files, EvictFinish(f)
  PROVE  IInv'
<1>a. TypeOK /\ writer[f] = "join" /\ writer[victim[f]] = "done" /\ mutex = "evict"
  BY DEF IInv, EvictFinish, Deleted, WriterAt, MutexHeld
<1>b. victim[f] \in Files /\ victim[f] # f
  BY <1>a DEF IInv, VictimOpen, TypeOK
<1>c. PICK v \in Files : v = victim[f]
  BY <1>b
<1>0. TypeOK /\ writer[f] = "join" /\ writer[v] = "done" /\ mutex = "evict"
  BY <1>a, <1>c
<1>1. v \in Files /\ v # f
  BY <1>b, <1>c
<1>2. ~ Inserting /\ rec = 0
  BY <1>0 DEF IInv, MutexHeld
<1>3. /\ Unlink(v) /\ index' = EraseKeys(v)
      /\ writer' = [writer EXCEPT ![f] = "evict", ![v] = "gone"]
      /\ victim' = [victim EXCEPT ![f] = None]
      /\ mutex' = "free" /\ proc' = proc /\ lru' = lru /\ doff' = doff
      /\ running' = running /\ sem' = sem
      /\ user' = user /\ key' = key /\ rec' = rec /\ current' = current
      /\ keys' = keys /\ off' = off /\ eof' = eof /\ woff' = woff
  BY <1>c DEF EvictFinish, Deleted, userVars, fileVars
<1>4. /\ writer' \in [Files -> Places] /\ writer'[f] = "evict" /\ writer'[v] = "gone"
      /\ \A g \in Files : g \notin {f, v} => writer'[g] = writer[g]
  BY <1>0, <1>1, <1>3 DEF TypeOK, Places
<1>5. /\ victim' \in [Files -> Files \cup {None}]
      /\ \A g \in Files : victim'[g] = None
  <2>1. \A g \in Files : g # f => victim[g] = None
    BY <1>0 DEF IInv, MutexHeld, VictimOpen
  <2> QED
    BY <1>0, <1>3, <2>1 DEF TypeOK
<1>6. /\ \A k \in Keys : index'[k] = IF k \in keys[v] THEN None ELSE index[k]
      /\ index' \in [Keys -> Files \cup {None}]
  BY <1>0, <1>3 DEF EraseKeys, TypeOK
<1>7. disk[v] \in Nat /\ off[v] \in Nat /\ disk[v] <= off[v]
  BY <1>0, <1>1, SizesAreNat DEF IInv, BuffersFit
<1>8. /\ Total(Occupied) \in Nat /\ off[v] <= Total(Occupied)
      /\ size >= Total(Occupied) /\ size \in Nat
  <2>1. Occupied \in [Files -> Nat]
    BY <1>0, SizesAreNat
  <2>2. Total(Occupied) \in Nat /\ Occupied[v] <= Total(Occupied)
    BY <1>1, <2>1, FilesFinite, TotalIsNat
  <2>3. Occupied[v] = off[v]
    BY <1>0, <1>1 DEF Occupied, Occupies
  <2>4. size >= Total(Occupied) /\ size \in Nat
    BY <1>0, <1>2, <2>2 DEF IInv, Counted, TypeOK
  <2> QED
    BY <2>2, <2>3, <2>4
<1>9. /\ size' \in Nat /\ disk' \in [Files -> Nat]
      /\ \A g \in Files : g # v => disk'[g] = disk[g]
      /\ \/ size' = size - disk[v] /\ disk'[v] = 0
         \/ size' = size /\ disk'[v] = disk[v]
  <2>1. disk \in [Files -> Nat]
    BY <1>0 DEF TypeOK
  <2>2. CASE size' = size - disk[v] /\ disk' = [disk EXCEPT ![v] = 0]
    BY <1>1, <1>7, <1>8, <2>1, <2>2
  <2>3. CASE UNCHANGED <<size, disk>>
    BY <1>8, <2>1, <2>3
  <2> QED
    BY <1>3, <2>2, <2>3 DEF Unlink
<1>10. TypeOK'
  BY <1>0, <1>3, <1>4, <1>5, <1>6, <1>9 DEF TypeOK
<1>11. \A g \in Files : writer'[g] # "join"
  BY <1>0, <1>4 DEF IInv, MutexHeld
<1>12. MutexHeld'
  <2>1. ~ Inserting'
    BY <1>2, <1>3 DEF Inserting
  <2> QED
    BY <1>2, <1>3, <1>11, <1>0, <2>1 DEF IInv, MutexHeld
<1>13. CreatedInOrder'
  BY <1>0, <1>1, <1>3, <1>4, <1>9 DEF IInv, CreatedInOrder
<1>14. VictimOpen'
  BY <1>5, <1>11 DEF VictimOpen
<1>15. \A g \in Files : Open(g)' <=> Open(g) /\ g # v
  BY <1>0, <1>1, <1>4 DEF Open
<1>16. ListIsOpen'
  <2>1. None \notin Files
    BY CapacityAssumption DEF Files
  <2>2. \A g \in Files : g # f => victim[g] = None
    BY <1>0 DEF IInv, MutexHeld, VictimOpen
  <2>3. \A g \in Files : Listed(g) <=> Open(g) /\ g # v
    BY <1>c, <2>1, <2>2 DEF IInv, ListIsOpen
  <2> QED
    BY <1>3, <1>5, <1>15, <2>1, <2>3 DEF IInv, ListIsOpen, Listed
<1>17. IndexHome'
  <2>1. ASSUME NEW k \in Keys, index'[k] # None
        PROVE  k \in keys'[index'[k]] /\ writer'[index'[k]] \notin {"none", "gone"}
    <3>1. index'[k] = index[k] /\ index[k] \in Files /\ k \notin keys[v]
      BY <1>0, <1>6, <2>1 DEF TypeOK
    <3>2. k \in keys[index[k]] /\ Open(index[k])
      BY <2>1, <3>1 DEF IInv, IndexHome
    <3>3. index[k] # v
      BY <3>1, <3>2
    <3> QED
      BY <1>3, <1>15, <3>1, <3>2, <3>3 DEF Open
  <2>2. ~ Inserting'
    BY <1>2, <1>3 DEF Inserting
  <2> QED
    BY <2>1, <2>2 DEF IndexHome, Open
<1>18. \A g \in Files : Start(g)' = Start(g) /\ Used(g)' = Used(g) /\ Start(g) \in Nat
  BY <1>0, <1>3, StartIsNat DEF Start, Used
<1>19. BuffersFit'
  <2> SUFFICES ASSUME NEW g \in Files
               PROVE  /\ disk'[g] <= Start(g)'
                      /\ writer'[g] # "gone" => disk'[g] <= off'[g]
                      /\ ~eof'[g] => woff'[g] * BufSize <= off'[g]
                      /\ Fetched(g)' =>
                           Start(g)' < off'[g] /\ (eof'[g] \/ Start(g)' + BufSize <= off'[g])
    BY DEF BuffersFit
  <2>1. disk'[g] <= Start(g)'
    BY <1>7, <1>9, <1>18 DEF IInv, BuffersFit
  <2>2. writer'[g] # "gone" => disk'[g] <= off'[g]
    BY <1>0, <1>3, <1>4, <1>9 DEF IInv, BuffersFit
  <2>3. Fetched(g)' => Fetched(g)
    BY <1>0, <1>4 DEF Fetched
  <2> QED
    BY <1>3, <1>18, <2>1, <2>2, <2>3 DEF IInv, BuffersFit
<1>20. Counted'
  <2>1. \A g \in Files : g # v => Occupies(g)' = Occupies(g)
    BY <1>0, <1>3, <1>4, <1>9 DEF Occupies
  <2>2. /\ Total(Occupied)' + Occupies(v) = Total(Occupied) + Occupies(v)'
        /\ Total(Occupied)' \in Nat
    BY <1>0, <1>1, <1>10, <2>1, OccupiedStep
  <2>3. Occupies(v) = off[v] /\ Occupies(v)' = disk'[v]
    BY <1>0, <1>4 DEF Occupies
  <2>4. size' >= Total(Occupied)'
    BY <1>7, <1>8, <1>9, <2>2, <2>3
  <2> QED
    BY <1>2, <1>3, <1>9, <2>2, <2>4 DEF Counted
<1>21. CommittedFits'
  <2>1. \A g \in Files : Commits(g) \in Nat
    BY <1>0, SizesAreNat DEF IInv
  <2>2. ASSUME NEW g \in Files PROVE Commits(g)' <= Commits(g)
    <3>1. CASE g # v
      <4>1. Commits(g)' = Commits(g)
        BY <1>0, <1>4, <1>9, <1>18, <3>1 DEF Commits
      <4> QED
        BY <2>1, <4>1
    <3>2. CASE g = v
      <4>1. Commits(g)' = disk'[v] /\ Commits(g) = disk[v]
        BY <1>0, <1>4, <3>2 DEF Commits
      <4> QED
        BY <1>7, <1>9, <4>1
    <3> QED
      BY <3>1, <3>2
  <2> QED
    BY <1>0, <1>10, <1>19, <2>2, CommittedStep DEF IInv
<1> QED
  BY <1>10, <1>12, <1>13, <1>14, <1>16, <1>17, <1>19, <1>20, <1>21 DEF IInv

(* The write takes what the writer was committed to (flashcache.cc:206-220). *)
LEMMA WriteOutStep ==
  ASSUME IInv, NEW f \in Files, WriteOut(f)
  PROVE  IInv'
<1>0. TypeOK /\ BuffersFit /\ writer[f] = "write"
  BY DEF IInv, WriteOut, WriterAt
<1>1. CASE Crash("exited")
  BY <1>1, CrashStep
<1>2. CASE /\ disk' = [disk EXCEPT ![f] = disk[f] + Used(f)]
           /\ doff' = [doff EXCEPT ![f] = doff[f] + 1]
           /\ writer' = [writer EXCEPT ![f] = "loop"]
           /\ UNCHANGED <<proc, mutex, lru, index, size, running, sem, victim,
                          userVars, fileVars>>
  <2>1. /\ disk[f] \in Nat /\ off[f] \in Nat /\ doff[f] \in Nat
        /\ Start(f) \in Nat /\ Start(f) < off[f] /\ disk[f] <= Start(f)
    BY <1>0, StartIsNat DEF TypeOK, BuffersFit, Fetched
  <2>2. Used(f) \in Nat /\ Used(f) <= BufSize /\ Used(f) <= off[f] - Start(f)
    BY <2>1, CapacityAssumption DEF Used
  <2>3. /\ disk' \in [Files -> Nat] /\ doff' \in [Files -> Nat]
        /\ disk'[f] = disk[f] + Used(f) /\ doff'[f] = doff[f] + 1
        /\ \A g \in Files : g # f => doff'[g] = doff[g] /\ disk'[g] = disk[g]
        /\ sem' \in [Files -> Nat] /\ running' \in [Files -> BOOLEAN]
    <3>1. disk \in [Files -> Nat] /\ doff \in [Files -> Nat] /\ sem \in [Files -> Nat]
      BY <1>0 DEF TypeOK
    <3>2. running \in [Files -> BOOLEAN]
      BY <1>0 DEF TypeOK
    <3>3. disk[f] + Used(f) \in Nat /\ doff[f] + 1 \in Nat
      BY <2>1, <2>2
    <3>4. running' = running /\ sem' = sem
      BY <1>2
    <3>5. /\ disk' \in [Files -> Nat] /\ disk'[f] = disk[f] + Used(f)
          /\ \A g \in Files : g # f => disk'[g] = disk[g]
      BY <1>2, <3>1, <3>3
    <3>6. /\ doff' \in [Files -> Nat] /\ doff'[f] = doff[f] + 1
          /\ \A g \in Files : g # f => doff'[g] = doff[g]
      BY <1>2, <3>1, <3>3
    <3> QED
      BY <3>1, <3>2, <3>4, <3>5, <3>6
  <2>4. "loop" \in Moving /\ writer[f] \in Moving
    BY <1>0 DEF Moving
  <2>5. /\ TypeOK' /\ MutexHeld' /\ CreatedInOrder' /\ VictimOpen' /\ ListIsOpen'
        /\ IndexHome' /\ Counted'
        /\ writer'[f] = "loop" /\ \A g \in Files : g # f => writer'[g] = writer[g]
    BY <1>2, <2>3, <2>4, MoveStep
  <2>6. off' = off /\ eof' = eof /\ woff' = woff
    BY <1>2 DEF fileVars
  <2>7. \A g \in Files : g # f => Start(g)' = Start(g) /\ Used(g)' = Used(g)
    BY <2>3, <2>6 DEF Start, Used
  <2>8. Start(f)' = Start(f) + BufSize
    BY <2>1, <2>3, NextBuffer DEF Start
  <2>9. BuffersFit'
    <3> SUFFICES ASSUME NEW g \in Files
                 PROVE  /\ disk'[g] <= Start(g)'
                        /\ writer'[g] # "gone" => disk'[g] <= off'[g]
                        /\ ~eof'[g] => woff'[g] * BufSize <= off'[g]
                        /\ Fetched(g)' =>
                             Start(g)' < off'[g] /\ (eof'[g] \/ Start(g)' + BufSize <= off'[g])
      BY DEF BuffersFit
    <3>1. CASE g # f
      BY <1>0, <2>3, <2>5, <2>6, <2>7, <3>1 DEF BuffersFit, Fetched
    <3>2. CASE g = f
      <4>1. disk'[f] <= Start(f)' /\ disk'[f] <= off'[f]
        <5> DEFINE u == Used(f)
                   s == Start(f)
        <5>1. u \in Nat /\ u <= BufSize /\ u <= off[f] - s /\ s \in Nat /\ disk[f] <= s
          BY <2>1, <2>2
        <5>2. disk'[f] = disk[f] + u /\ Start(f)' = s + BufSize /\ off'[f] = off[f]
          BY <2>3, <2>6, <2>8
        <5>3. disk[f] \in Nat /\ off[f] \in Nat /\ BufSize \in Nat
          BY <2>1, CapacityAssumption
        <5> HIDE DEF u, s
        <5> QED
          BY ONLY <5>1, <5>2, <5>3
      <4>2. ~ Fetched(f)'
        BY <2>5 DEF Fetched
      <4> QED
        BY <1>0, <2>6, <3>2, <4>1, <4>2 DEF BuffersFit
    <3> QED
      BY <3>1, <3>2
  <2>10. CommittedFits'
    <3>1. \A g \in Files : Commits(g)' = Commits(g)
      BY <1>0, <2>3, <2>5, <2>7 DEF Commits
    <3> QED
      BY <3>1, CommittedSame DEF IInv
  <2> QED
    BY <2>5, <2>9, <2>10 DEF IInv
<1> QED
  BY <1>1, <1>2 DEF WriteOut

(* The end of Write and of writerJobs (flashcache.cc:222, :247). *)
LEMMA WriterEndStep ==
  ASSUME IInv, NEW f \in Files, WriteStops(f) \/ JobEnds(f)
  PROVE  IInv'
<1>1. CASE WriteStops(f)
  <2>1. /\ writer[f] = "stop" /\ running' = [running EXCEPT ![f] = FALSE]
        /\ writer' = [writer EXCEPT ![f] = "check"]
        /\ UNCHANGED <<proc, mutex, lru, index, size, doff, sem, victim, disk,
                       userVars, fileVars>>
    BY <1>1 DEF WriteStops, WriterAt
  <2>2. running' \in [Files -> BOOLEAN]
    BY <2>1, Zenon DEF IInv, TypeOK
  <2>3. sem' \in [Files -> Nat]
    BY <2>1 DEF IInv, TypeOK
  <2>4. "check" \in Moving \ {"write"} /\ writer[f] \in Moving \ {"write"}
    BY <2>1 DEF Moving
  <2> QED
    BY <2>1, <2>2, <2>3, <2>4, QuietStep
<1>2. CASE JobEnds(f)
  <2> DEFINE place == IF eof[f] THEN "done" ELSE "wait"
  <2>1. writer[f] = "check" /\ GoTo(f, place)
    BY <1>2 DEF JobEnds, WriterAt
  <2>2. place \in {"done", "wait"}
    OBVIOUS
  <2> HIDE DEF place
  <2>3. place \in Moving \ {"write"} /\ writer[f] \in Moving \ {"write"}
    BY <2>1, <2>2 DEF Moving
  <2> QED
    BY <2>1, <2>2, <2>3, GoToStep
<1> QED
  BY <1>1, <1>2

-----------------------------------------------------------------------------
(* The theorems.                                                           *)

(* Every step of the flash cache keeps the invariant (flashcache.cc:195-255,
   :523-587). *)
LEMMA StepInv == IInv /\ [Next]_vars => IInv'
<1> SUFFICES ASSUME IInv, [Next]_vars PROVE IInv'
  OBVIOUS
<1>1. CASE UNCHANGED vars
  <2>1. UNCHANGED <<mutex, lru, index, size, doff, running, sem, writer, victim,
                    disk, userVars, fileVars>>
    BY <1>1 DEF vars
  <2>2. proc' \in {"running", "exited", "aborted", "undefined"}
    BY <1>1 DEF vars, IInv, TypeOK
  <2> QED
    BY <2>1, <2>2, FrozenStep
<1>2. ASSUME NEW k \in Keys, NEW n \in RecordSizes, InsertAppend(k, n) PROVE IInv'
  BY <1>2, InsertAppendStep
<1>3. ASSUME NEW k \in Keys, Lookup(k) PROVE IInv'
  BY <1>3, LookupStep
<1>4. CASE UserStep
  BY <1>4, MarkRunningStep, InsertIndexStep, DeleteMetaDataStep DEF UserStep
<1>5. ASSUME NEW f \in Files, WriterStep(f) PROVE IInv'
  BY <1>5, SemWaitStep, LoopTestStep, EvictTestStep, EvictLockStep, EvictFinishStep,
     WriteOutStep, WriterEndStep
  DEF WriterStep
<1>6. CASE DataRace
  BY <1>6, CrashStep DEF DataRace
<1> QED
  BY <1>1, <1>2, <1>3, <1>4, <1>5, <1>6 DEF Next

(* So it holds in every reachable state (flashcache.cc:523-587). *)
LEMMA Invariance == Spec => []IInv
BY InitInv, StepInv, PTL DEF Spec

(* Every variable keeps its type; size_, an unsigned number, never goes below
   zero although Evict subtracts from it what another thread may not have
   added yet (flashcache.cc:537, :575). *)
THEOREM TypeCorrect == Spec => []TypeOK
<1>1. IInv => TypeOK
  BY DEF IInv
<1> QED
  BY <1>1, Invariance, PTL

(* When fcache_mutex is free every indexed key leads to a file that is in the
   table, whatever was evicted, promoted and inserted again before
   (flashcache.cc:551, :576). *)
THEOREM IndexListed == Spec => []IndexedFileListed
<1>1. IInv => IndexedFileListed
  <2> SUFFICES ASSUME IInv, mutex = "free", NEW k \in Keys, index[k] # None
               PROVE  LruListed(lru, index[k])
    BY DEF IndexedFileListed
  <2>1. index[k] \in Files /\ Open(index[k])
    BY DEF IInv, TypeOK, IndexHome
  <2>2. \A g \in Files : victim[g] = None
    BY DEF IInv, MutexHeld, VictimOpen
  <2>3. None \notin Files
    BY CapacityAssumption DEF Files
  <2>4. Listed(index[k])
    BY <2>1, <2>2, <2>3 DEF IInv, ListIsOpen
  <2>5. lru \in Seq(Files)
    BY DEF IInv, TypeOK
  <2> QED
    BY <2>4, <2>5 DEF Listed, Range, LruListed, Contains
<1> QED
  BY <1>1, Invariance, PTL

(* size_ counts at least what the files hold or will hold, but for the record
   of an Insert that has appended and not counted yet, although a file's
   writer may drop its last buffers (flashcache.cc:537, :575). *)
THEOREM SizeCounts == Spec => []NeverUndercounts
<1>1. IInv => NeverUndercounts
  <2> SUFFICES ASSUME IInv PROVE NeverUndercounts
    OBVIOUS
  <2>1. MapThenSumSet(Occupies, Files) = Total(Occupied)
    BY OccupiedSum DEF IInv
  <2> QED
    BY <2>1 DEF IInv, Counted, NeverUndercounts
<1> QED
  BY <1>1, Invariance, PTL

(* The cache files never take more than cache_size, a record less a byte and
   the rounding of the two floats, with any number of writers that test size_
   without the lock, buffer by buffer, and write later (flashcache.cc:205,
   :569). *)
THEOREM CapacityHolds == Spec => []CapacityKept
<1>1. IInv => CapacityKept
  <2> SUFFICES ASSUME IInv PROVE CapacityKept
    OBVIOUS
  <2> DEFINE F == disk
             G == Committed
  <2>0. TypeOK /\ BuffersFit
    BY DEF IInv
  <2>1. F \in [Files -> Nat] /\ G \in [Files -> Nat]
    BY <2>0, SizesAreNat
  <2>2. \A f \in Files : F[f] <= G[f]
    <3> SUFFICES ASSUME NEW f \in Files PROVE disk[f] <= Commits(f)
      BY DEF Committed
    <3>1. disk[f] \in Nat /\ off[f] \in Nat /\ Start(f) \in Nat
      BY <2>0, StartIsNat DEF TypeOK
    <3>2. writer[f] = "write" => Start(f) < off[f]
      BY <2>0 DEF BuffersFit, Fetched
    <3>3. writer[f] = "write" => Used(f) \in Nat
      BY <3>1, <3>2, CapacityAssumption DEF Used
    <3> QED
      BY <3>1, <3>3 DEF Commits
  <2>3. Total(G) <= CacheSize + Excess
    BY DEF IInv, CommittedFits
  <2> HIDE DEF F, G
  <2>4. Total(F) <= Total(G) /\ Total(F) \in Nat /\ Total(G) \in Nat
    BY <2>1, <2>2, FilesFinite, TotalMonotone, TotalIsNat
  <2>5. Total(F) <= CacheSize + Excess
    BY <2>3, <2>4, CapacityAssumption, ExcessIsNat
  <2>6. MapThenSumSet(LAMBDA f : disk[f], Files) = Total(F)
    BY <2>0, DiskSum DEF F
  <2> QED
    BY <2>5, <2>6 DEF CapacityKept
<1> QED
  BY <1>1, Invariance, PTL
=============================================================================

--------------------------- MODULE RecoveryProofs ---------------------------
(***************************************************************************)
(* The properties of Recovery for any number of keys, values, files,       *)
(* crashes and restarts.                                                   *)
(*                                                                         *)
(* What they need beyond themselves: writer_cache_id_ is past every file   *)
(* that has been read or created, and a file that does not exist yet is    *)
(* empty (FilesInOrder), so that a start, and a flush that goes to a new   *)
(* file, never meets what an earlier life has written; what Repair has     *)
(* read is indexed before the start is over (RepairedIndexed); and every   *)
(* value in memory or in a file was written by a SET of its key, or is the *)
(* empty value a torn record has left (ValuesWritten).                     *)
(***************************************************************************)
EXTENDS Recovery, DataLemmas

(* A value that a GET of k may return. *)
Genuine(k, v) ==
  v \in written[k] \/ (v = Empty /\ \E f \in dir : tail[f] # None)

(* Files that do not exist yet are empty; the ids of those that have been read
   or created are behind; no record in the current one is torn. *)
FilesInOrder ==
  /\ \A f \in Files \ dir : recs[f] = <<>> /\ tail[f] = None
  /\ todo \subseteq dir
  /\ life \in {"opening", "up"} => \A f \in dir \ todo : f < next
  /\ life = "up" => todo = {} /\ current \in dir /\ tail[current] = None

(* What a start has read so far is indexed. *)
RepairedIndexed ==
  life = "opening" =>
    \A f \in dir \ todo : \A i \in DOMAIN recs[f] : index[recs[f][i].key] # None

(* Memory and files hold what SETs have written. *)
ValuesWritten ==
  /\ \A k \in Keys : mem[k] # None => Genuine(k, mem[k])
  /\ \A f \in Files : \A i \in DOMAIN recs[f] :
       Genuine(recs[f][i].key, recs[f][i].val)

IInv ==
  /\ TypeOK
  /\ FilesInOrder /\ RepairedIndexed /\ ValuesWritten /\ CreatesNewFiles
  /\ IndexLeadsHome /\ NothingForgotten /\ ServesWritten

(* A record of a file is a record (flashcache.h:33). *)
LEMMA RecordOf ==
  ASSUME TypeOK, NEW f \in Files
  PROVE  /\ recs[f] \in Seq(Records) /\ Len(recs[f]) \in Nat
         /\ DOMAIN recs[f] = 1..Len(recs[f])
         /\ \A i \in DOMAIN recs[f] :
              recs[f][i].key \in Keys /\ recs[f][i].val \in Vals \cup {Empty}
<1>1. recs[f] \in Seq(Records)
  BY DEF TypeOK
<1>2. \A i \in DOMAIN recs[f] : recs[f][i] \in Records
  BY <1>1
<1>3. \A r \in Records : r.key \in Keys /\ r.val \in Vals \cup {Empty}
  BY DEF Records
<1> QED
  BY <1>1, <1>2, <1>3

-----------------------------------------------------------------------------
(* Open and Repair.                                                        *)

(* Repair inserts the keys of the complete records, in order, and the one it
   takes a torn record for (flashcache.cc:160-195). *)
LEMMA RepairKeysIndex ==
  ASSUME TypeOK, NEW f \in Files, NEW torn \in Keys \cup {Junk, None}
  PROVE  /\ Len(RepairKeys(f, torn)) =
              IF torn = None THEN Len(recs[f]) ELSE Len(recs[f]) + 1
         /\ DOMAIN RepairKeys(f, torn) = 1..Len(RepairKeys(f, torn))
         /\ \A i \in 1..Len(recs[f]) : RepairKeys(f, torn)[i] = recs[f][i].key
<1>1. recs[f] \in Seq(Records) /\ Len(recs[f]) \in Nat
  BY DEF TypeOK
<1> DEFINE ks == [i \in 1..Len(recs[f]) |-> recs[f][i].key]
           S == Keys \cup {Junk, None}
<1>2. \A i \in 1..Len(recs[f]) : recs[f][i] \in Records
  BY <1>1
<1>3. ks \in Seq(S) /\ Len(ks) = Len(recs[f])
  BY <1>1, <1>2 DEF Records
<1>4. \A i \in 1..Len(recs[f]) : ks[i] = recs[f][i].key
  OBVIOUS
<1>5. RepairKeys(f, torn) = ks \o (IF torn = None THEN <<>> ELSE <<torn>>)
  BY DEF RepairKeys
<1> HIDE DEF ks
<1>6. CASE torn = None
  BY <1>1, <1>3, <1>4, <1>5, <1>6
<1>7. CASE torn # None
  BY <1>1, <1>3, <1>4, <1>5, <1>7
<1> QED
  BY <1>6, <1>7

(* The index entry that Repair makes for a key leads to its first record in
   the file, or to its torn end, and a key with a complete record there gets
   one (flashcache.cc:183-190). *)
LEMMA FirstRecordLeads ==
  ASSUME TypeOK, NEW f \in Files, NEW torn \in TailKeys(f), NEW k \in Keys
  PROVE  /\ FirstRecord(k, f, torn) # None =>
              \E p \in Nat \ {0} :
                /\ FirstRecord(k, f, torn) = [file |-> f, pos |-> p]
                /\ \/ p \in DOMAIN recs[f] /\ recs[f][p].key = k
                   \/ p = Len(recs[f]) + 1 /\ tail[f] # None
         /\ (\E i \in DOMAIN recs[f] : recs[f][i].key = k)
              => FirstRecord(k, f, torn) # None
<1> DEFINE ks == RepairKeys(f, torn)
           P == {i \in DOMAIN ks : ks[i] = k}
<1>1. torn \in Keys \cup {Junk, None} /\ (torn # None => tail[f] # None)
  BY DEF TailKeys, TypeOK
<1>2. FirstRecord(k, f, torn) = IF P = {} THEN None ELSE [file |-> f, pos |-> Min(P)]
  BY DEF FirstRecord
<1>3. /\ Len(ks) = IF torn = None THEN Len(recs[f]) ELSE Len(recs[f]) + 1
      /\ DOMAIN ks = 1..Len(ks)
      /\ \A i \in 1..Len(recs[f]) : ks[i] = recs[f][i].key
  BY <1>1, RepairKeysIndex
<1>4. Len(recs[f]) \in Nat /\ DOMAIN recs[f] = 1..Len(recs[f])
  BY RecordOf
<1> HIDE DEF ks
<1>5. P \in SUBSET Nat
  BY <1>3, <1>4
<1>6. ASSUME P # {}
      PROVE  \E p \in Nat \ {0} :
               /\ FirstRecord(k, f, torn) = [file |-> f, pos |-> p]
               /\ \/ p \in DOMAIN recs[f] /\ recs[f][p].key = k
                  \/ p = Len(recs[f]) + 1 /\ tail[f] # None
  <2>1. Min(P) \in P
    <3> HIDE DEF P
    <3> QED
      BY <1>5, <1>6, MinIsLeast
  <2>2. PICK p \in 1..Len(ks) : p = Min(P) /\ ks[p] = k
    BY <1>3, <2>1
  <2>3. p \in Nat \ {0} /\ FirstRecord(k, f, torn) = [file |-> f, pos |-> p]
    BY <1>2, <1>3, <1>4, <1>6, <2>2
  <2>4. \/ p \in DOMAIN recs[f] /\ recs[f][p].key = k
        \/ p = Len(recs[f]) + 1 /\ tail[f] # None
    <3>1. CASE p \in 1..Len(recs[f])
      BY <1>3, <1>4, <2>2, <3>1
    <3>2. CASE p \notin 1..Len(recs[f])
      <4>1. torn # None /\ p = Len(recs[f]) + 1
        BY <1>3, <1>4, <2>2, <3>2
      <4> QED
        BY <1>1, <4>1
    <3> QED
      BY <3>1, <3>2
  <2> QED
    BY <2>3, <2>4
<1>7. ASSUME NEW i \in DOMAIN recs[f], recs[f][i].key = k
      PROVE  P # {}
  BY <1>3, <1>4, <1>7
<1>8. \A p \in Nat \ {0} : [file |-> f, pos |-> p] # None
  BY DataAssumption, BoundAssumption DEF Files
<1> HIDE DEF P
<1>9. CASE P = {}
  BY <1>2, <1>7, <1>9
<1>10. CASE P # {}
  BY <1>6, <1>8, <1>10
<1> QED
  BY <1>9, <1>10

-----------------------------------------------------------------------------
(* The invariant, step by step.                                            *)

(* An empty directory satisfies it (flashcache.cc:462). *)
LEMMA InitInv == Init => IInv
<1> SUFFICES ASSUME Init PROVE IInv
  OBVIOUS
<1> USE DEF Init
<1>1. TypeOK
  <2>1. <<>> \in Seq(Records) /\ 0 \in 0..MaxSets
    BY BoundAssumption
  <2>2. recs \in [Files -> Seq(Records)]
    BY <2>1
  <2> QED
    BY <2>1, <2>2 DEF TypeOK
<1>2. FilesInOrder /\ RepairedIndexed /\ CreatesNewFiles
  BY DEF FilesInOrder, RepairedIndexed, CreatesNewFiles
<1>3. ValuesWritten
  BY DEF ValuesWritten
<1>4. IndexLeadsHome /\ NothingForgotten /\ ServesWritten
  BY DEF IndexLeadsHome, NothingForgotten, ServesWritten
<1> QED
  BY <1>1, <1>2, <1>3, <1>4 DEF IInv

(* A start lists the directory (flashcache.cc:462-464). *)
LEMMA StartOpenInv == IInv /\ StartOpen => IInv'
<1> SUFFICES ASSUME IInv, StartOpen PROVE IInv'
  OBVIOUS
<1> USE DEF IInv
<1>1. /\ life = "down" /\ life' = "opening" /\ todo' = dir
      /\ UNCHANGED <<next, dir, recs, tail, current, index, mem, kept, answer, written, sets>>
  BY DEF StartOpen, fileVars
<1>2. TypeOK'
  BY <1>1 DEF TypeOK
<1>3. FilesInOrder' /\ RepairedIndexed' /\ CreatesNewFiles'
  BY <1>1 DEF FilesInOrder, RepairedIndexed, CreatesNewFiles
<1>4. ValuesWritten'
  BY <1>1 DEF ValuesWritten, Genuine
<1>5. IndexLeadsHome' /\ NothingForgotten' /\ ServesWritten'
  BY <1>1 DEF IndexLeadsHome, NothingForgotten, ServesWritten
<1> QED
  BY <1>2, <1>3, <1>4, <1>5

(* One more file is read: its keys get entries unless they have one, and
   writer_cache_id_ is past it (flashcache.cc:465-480). *)
LEMMA RepairFileInv ==
  ASSUME IInv, NEW f \in Files, RepairFile(f)
  PROVE  IInv'
<1> USE DEF IInv
<1>1. /\ life = "opening" /\ f \in todo /\ next' = NextId(f) /\ todo' = todo \ {f}
      /\ UNCHANGED <<life, dir, recs, tail, current, mem, kept, answer, written, sets>>
  BY DEF RepairFile, fileVars
<1>2. PICK torn \in TailKeys(f) :
        index' = [k \in Keys |-> IF index[k] # None THEN index[k] ELSE FirstRecord(k, f, torn)]
  BY DEF RepairFile
<1>3. /\ f \in Nat /\ next \in Nat /\ next' \in Nat /\ f < next' /\ next <= next'
      /\ f \in dir /\ dir \subseteq Files /\ \A g \in Files : g \in Nat
  <2>1. next \in Nat /\ f \in Nat /\ (\A g \in Files : g \in Nat)
    BY BoundAssumption DEF TypeOK, Files
  <2>2. next' \in Nat /\ f < next' /\ next <= next'
    BY <1>1, <2>1 DEF NextId
  <2>3. f \in dir /\ dir \subseteq Files
    BY <1>1 DEF TypeOK, FilesInOrder
  <2> QED
    BY <2>1, <2>2, <2>3
<1>4. \A k \in Keys : index'[k] = IF index[k] # None THEN index[k] ELSE FirstRecord(k, f, torn)
  BY <1>2
<1>5. \A k \in Keys : index[k] = None /\ index'[k] # None =>
        \E p \in Nat \ {0} :
          /\ index'[k] = [file |-> f, pos |-> p]
          /\ \/ p \in DOMAIN recs[f] /\ recs[f][p].key = k
             \/ p = Len(recs[f]) + 1 /\ tail[f] # None
  BY <1>4, FirstRecordLeads
<1>6. TypeOK'
  <2>1. \A k \in Keys : index'[k] \in [file : Files, pos : Nat \ {0}] \cup {None}
    <3> TAKE k \in Keys
    <3>1. CASE index[k] # None
      BY <1>4, <3>1 DEF TypeOK
    <3>2. CASE index[k] = None /\ index'[k] # None
      <4>1. PICK p \in Nat \ {0} : index'[k] = [file |-> f, pos |-> p]
        BY <1>5, <3>2
      <4> QED
        BY <4>1
    <3> QED
      BY <3>1, <3>2
  <2>2. index' \in [Keys -> [file : Files, pos : Nat \ {0}] \cup {None}]
    BY <1>2, <2>1
  <2> QED
    BY <1>1, <1>3, <2>2 DEF TypeOK
<1>7. FilesInOrder' /\ CreatesNewFiles'
  <2>1. \A g \in dir \ todo' : g < next'
    <3> TAKE g \in dir \ todo'
    <3>1. CASE g = f
      BY <1>3, <3>1
    <3>2. CASE g # f
      <4>1. g \in dir \ todo /\ g \in Nat /\ g < next
        BY <1>1, <1>3, <3>2 DEF FilesInOrder
      <4> QED
        BY <1>3, <4>1
    <3> QED
      BY <3>1, <3>2
  <2> QED
    BY <1>1, <2>1 DEF FilesInOrder, CreatesNewFiles
<1>8. RepairedIndexed'
  <2> SUFFICES ASSUME NEW g \in dir \ todo', NEW i \in DOMAIN recs[g]
               PROVE  index'[recs[g][i].key] # None
    BY <1>1 DEF RepairedIndexed
  <2>1. g \in Files /\ recs[g][i].key \in Keys
    BY <1>3, RecordOf
  <2>2. CASE g = f
    BY <1>4, <2>1, <2>2, FirstRecordLeads
  <2>3. CASE g # f
    <3>1. g \in dir \ todo
      BY <1>1, <2>3
    <3>2. index[recs[g][i].key] # None
      BY <1>1, <3>1 DEF RepairedIndexed
    <3> QED
      BY <1>4, <2>1, <3>2
  <2> QED
    BY <2>2, <2>3
<1>9. ValuesWritten'
  BY <1>1 DEF ValuesWritten, Genuine
<1>10. IndexLeadsHome'
  <2> SUFFICES ASSUME NEW k \in Keys, index'[k] # None
               PROVE  /\ index'[k].file \in dir'
                      /\ \/ /\ index'[k].pos \in DOMAIN recs'[index'[k].file]
                            /\ recs'[index'[k].file][index'[k].pos].key = k
                         \/ /\ index'[k].pos = Len(recs'[index'[k].file]) + 1
                            /\ tail'[index'[k].file] # None
                            /\ index'[k].file # current'
    BY DEF IndexLeadsHome
  <2>1. CASE index[k] # None
    BY <1>1, <1>4, <2>1 DEF IndexLeadsHome
  <2>2. CASE index[k] = None
    <3>1. PICK p \in Nat \ {0} :
            /\ index'[k] = [file |-> f, pos |-> p]
            /\ \/ p \in DOMAIN recs[f] /\ recs[f][p].key = k
               \/ p = Len(recs[f]) + 1 /\ tail[f] # None
      BY <1>5, <2>2
    <3>2. index'[k].file = f /\ index'[k].pos = p
      BY <3>1
    <3>3. current = None /\ f # None
      BY <1>1, <1>3, DataAssumption DEF TypeOK
    <3> QED
      BY <1>1, <1>3, <3>1, <3>2, <3>3
  <2> QED
    BY <2>1, <2>2
<1>11. NothingForgotten' /\ ServesWritten'
  BY <1>1 DEF NothingForgotten, ServesWritten
<1> QED
  BY <1>6, <1>7, <1>8, <1>9, <1>10, <1>11

(* The end of a start: the file it creates is a new one (flashcache.cc:483). *)
LEMMA OpenNewInv == IInv /\ OpenNew => IInv'
<1> SUFFICES ASSUME IInv, OpenNew PROVE IInv'
  OBVIOUS
<1> USE DEF IInv
<1>1. /\ life = "opening" /\ todo = {} /\ next \in Files
      /\ life' = Created(next) /\ current' = next
      /\ dir' = dir \cup {next} /\ next' = next + 1
      /\ UNCHANGED <<todo, recs, tail, index, mem, kept, answer, written, sets>>
  BY DEF OpenNew
<1>2. /\ dir \subseteq Files /\ next \in Nat /\ (\A f \in dir : f \in Nat /\ f < next)
      /\ next \notin dir /\ next # None
  BY <1>1, BoundAssumption, DataAssumption DEF TypeOK, FilesInOrder, Files
<1>3. life' = "up"
  BY <1>1, <1>2 DEF Created
<1>4. recs[next] = <<>> /\ tail[next] = None
  BY <1>1, <1>2 DEF FilesInOrder
<1>5. TypeOK'
  <2>1. next' \in Nat /\ dir' \subseteq Files /\ todo' \subseteq Files
    BY <1>1, <1>2
  <2>2. life' \notin {"down", "opening"} /\ current' # None /\ current' \in Files
    BY <1>1, <1>2, <1>3
  <2> QED
    BY <1>1, <1>3, <2>1, <2>2 DEF TypeOK
<1>6. FilesInOrder' /\ RepairedIndexed' /\ CreatesNewFiles'
  <2>1. \A f \in dir' : f < next'
    BY <1>1, <1>2
  <2>2. \A f \in Files \ dir' : recs'[f] = <<>> /\ tail'[f] = None
    BY <1>1 DEF FilesInOrder
  <2>3. todo' = {} /\ current' \in dir' /\ tail'[current'] = None
    BY <1>1, <1>4
  <2> QED
    BY <1>3, <2>1, <2>2, <2>3 DEF FilesInOrder, RepairedIndexed, CreatesNewFiles
<1>7. ValuesWritten'
  BY <1>1 DEF ValuesWritten, Genuine
<1>8. IndexLeadsHome'
  BY <1>1, <1>2 DEF IndexLeadsHome
<1>9. NothingForgotten'
  <2> SUFFICES ASSUME NEW f \in dir', NEW i \in DOMAIN recs[f]
               PROVE  index[recs[f][i].key] # None
    BY <1>1 DEF NothingForgotten
  <2>1. f \in dir
    BY <1>1, <1>4
  <2> QED
    BY <1>1, <2>1 DEF RepairedIndexed
<1>10. ServesWritten'
  BY <1>1 DEF ServesWritten
<1> QED
  BY <1>5, <1>6, <1>7, <1>8, <1>9, <1>10

(* SET changes memory only (command.c:77). *)
LEMMA SetInv ==
  ASSUME IInv, NEW k \in Keys, NEW v \in Vals, Set(k, v)
  PROVE  IInv'
<1> USE DEF IInv
<1>1. /\ life = "up" /\ sets < MaxSets /\ sets' = sets + 1 /\ answer' = None
      /\ mem' = [mem EXCEPT ![k] = v]
      /\ written' = [written EXCEPT ![k] = @ \cup {v}]
      /\ UNCHANGED <<life, todo, next, dir, recs, tail, current, index, kept>>
  BY DEF Set, fileVars
<1>2. v # None
  BY DataAssumption
<1>3. TypeOK'
  <2>1. sets' \in 0..MaxSets
    BY <1>1, BoundAssumption DEF TypeOK
  <2>2. mem' \in [Keys -> Vals \cup {Empty, None}] /\ written' \in [Keys -> SUBSET Vals]
    BY <1>1 DEF TypeOK
  <2> QED
    BY <1>1, <2>1, <2>2 DEF TypeOK
<1>4. FilesInOrder' /\ RepairedIndexed' /\ CreatesNewFiles' /\ ServesWritten'
  BY <1>1 DEF FilesInOrder, RepairedIndexed, CreatesNewFiles, ServesWritten
<1>5. \A j \in Keys : written[j] \subseteq written'[j]
  BY <1>1 DEF TypeOK
<1>6. v \in written'[k]
  BY <1>1 DEF TypeOK
<1>7. ValuesWritten'
  <2>1. ASSUME NEW j \in Keys, mem'[j] # None PROVE Genuine(j, mem[j])' 
    <3>1. CASE j = k
      BY <1>1, <1>6, <3>1 DEF Genuine, TypeOK
    <3>2. CASE j # k
      <4>1. mem'[j] = mem[j] /\ Genuine(j, mem[j])
        BY <1>1, <2>1, <3>2 DEF TypeOK, ValuesWritten
      <4> QED
        BY <1>1, <1>5, <4>1 DEF Genuine
    <3> QED
      BY <3>1, <3>2
  <2>2. ASSUME NEW f \in Files, NEW i \in DOMAIN recs[f]
        PROVE  Genuine(recs[f][i].key, recs[f][i].val)'
    <3>1. recs[f][i].key \in Keys /\ Genuine(recs[f][i].key, recs[f][i].val)
      BY RecordOf DEF ValuesWritten
    <3> QED
      BY <1>1, <1>5, <3>1 DEF Genuine
  <2> QED
    BY <1>1, <2>1, <2>2 DEF ValuesWritten
<1>8. IndexLeadsHome'
  BY <1>1 DEF IndexLeadsHome
<1>9. NothingForgotten'
  <2>1. \A j \in Keys : mem[j] # None => mem'[j] # None
    BY <1>1, <1>2 DEF TypeOK
  <2> SUFFICES ASSUME NEW f \in dir, NEW i \in DOMAIN recs[f]
               PROVE  mem'[recs[f][i].key] # None \/ index'[recs[f][i].key] # None
    BY <1>1 DEF NothingForgotten
  <2>2. recs[f][i].key \in Keys
    BY RecordOf DEF TypeOK
  <2> QED
    BY <1>1, <2>1, <2>2 DEF NothingForgotten
<1> QED
  BY <1>3, <1>4, <1>7, <1>8, <1>9

(* A GET of a key in memory returns what is there (command.c:108). *)
LEMMA GetMemInv ==
  ASSUME IInv, NEW k \in Keys, GetMem(k)
  PROVE  IInv'
<1> USE DEF IInv
<1>1. /\ life = "up" /\ mem[k] # None /\ answer' = [key |-> k, val |-> mem[k]]
      /\ UNCHANGED <<life, todo, next, dir, recs, tail, current, index, mem, kept, written, sets>>
  BY DEF GetMem, fileVars
<1>2. TypeOK'
  BY <1>1 DEF TypeOK
<1>3. /\ FilesInOrder' /\ RepairedIndexed' /\ CreatesNewFiles'
      /\ IndexLeadsHome' /\ NothingForgotten'
  BY <1>1 DEF FilesInOrder, RepairedIndexed, CreatesNewFiles, IndexLeadsHome, NothingForgotten
<1>4. ValuesWritten'
  BY <1>1 DEF ValuesWritten, Genuine
<1>5. Genuine(k, mem[k])
  BY <1>1 DEF ValuesWritten
<1>6. ServesWritten'
  BY <1>1, <1>5 DEF ServesWritten, Genuine
<1> QED
  BY <1>2, <1>3, <1>4, <1>6

(* What Lookup returns for an index entry: the value of the key's own record,
   or the empty value of a torn one (flashcache.cc:560). *)
LEMMA ValueAtGenuine ==
  ASSUME IInv, NEW k \in Keys, index[k] # None
  PROVE  Genuine(k, ValueAt(index[k])) /\ ValueAt(index[k]) \in Vals \cup {Empty}
<1> USE DEF IInv
<1> DEFINE f == index[k].file
           p == index[k].pos
<1>1. /\ f \in dir /\ f \in Files
      /\ \/ p \in DOMAIN recs[f] /\ recs[f][p].key = k
         \/ p = Len(recs[f]) + 1 /\ tail[f] # None
  BY DEF IndexLeadsHome, TypeOK
<1>2. ValueAt(index[k]) = IF p <= Len(recs[f]) THEN recs[f][p].val ELSE Empty
  BY DEF ValueAt
<1> HIDE DEF f, p
<1>3. Len(recs[f]) \in Nat /\ DOMAIN recs[f] = 1..Len(recs[f])
  BY <1>1, RecordOf
<1>4. CASE p \in DOMAIN recs[f] /\ recs[f][p].key = k
  <2>1. recs[f][p].val \in Vals \cup {Empty}
    BY <1>1, <1>4, RecordOf
  <2>2. Genuine(k, recs[f][p].val)
    BY <1>1, <1>4 DEF ValuesWritten
  <2>3. ValueAt(index[k]) = recs[f][p].val
    BY <1>2, <1>3, <1>4
  <2> QED
    BY <2>1, <2>2, <2>3
<1>5. CASE p = Len(recs[f]) + 1 /\ tail[f] # None
  <2>1. ValueAt(index[k]) = Empty
    BY <1>2, <1>3, <1>5
  <2> QED
    BY <1>1, <1>5, <2>1 DEF Genuine
<1> QED
  BY <1>1, <1>4, <1>5

(* A GET of any other key: the promotion moves it from the index to memory,
   a miss leaves everything but the lock (command.c:118-137). *)
LEMMA GetFlashInv ==
  ASSUME IInv, NEW k \in Keys, GetFlash(k)
  PROVE  IInv'
<1> USE DEF IInv
<1>1. UNCHANGED <<life, todo, next, dir, recs, tail, current, written, sets>> /\ life = "up"
  BY DEF GetFlash, fileVars
<1>2. FilesInOrder' /\ RepairedIndexed' /\ CreatesNewFiles'
  BY <1>1 DEF FilesInOrder, RepairedIndexed, CreatesNewFiles
<1>3. CASE /\ index[k] # None
           /\ answer' = [key |-> k, val |-> ValueAt(index[k])]
           /\ mem' = [mem EXCEPT ![k] = ValueAt(index[k])]
           /\ index' = [index EXCEPT ![k] = None]
           /\ UNCHANGED kept
  <2> DEFINE v == ValueAt(index[k])
  <2>1. Genuine(k, v) /\ v \in Vals \cup {Empty} /\ v # None
    BY <1>3, ValueAtGenuine, DataAssumption
  <2>2. answer' = [key |-> k, val |-> v] /\ mem' = [mem EXCEPT ![k] = v]
    BY <1>3
  <2> HIDE DEF v
  <2>3. TypeOK'
    BY <1>1, <1>3, <2>1, <2>2 DEF TypeOK
  <2>4. \A j \in Keys : mem'[j] = IF j = k THEN v ELSE mem[j]
    BY <2>2 DEF TypeOK
  <2>5. \A j \in Keys : index'[j] = IF j = k THEN None ELSE index[j]
    BY <1>3 DEF TypeOK
  <2>6. ValuesWritten'
    BY <1>1, <2>1, <2>4 DEF ValuesWritten, Genuine
  <2>7. IndexLeadsHome'
    BY <1>1, <2>5 DEF IndexLeadsHome
  <2>8. NothingForgotten'
    <3> SUFFICES ASSUME NEW f \in dir, NEW i \in DOMAIN recs[f]
                 PROVE  mem'[recs[f][i].key] # None \/ index'[recs[f][i].key] # None
      BY <1>1 DEF NothingForgotten
    <3>1. recs[f][i].key \in Keys
      BY RecordOf DEF TypeOK
    <3> QED
      BY <1>1, <2>1, <2>4, <2>5, <3>1 DEF NothingForgotten
  <2>9. ServesWritten'
    BY <1>1, <2>1, <2>2 DEF ServesWritten, Genuine
  <2> QED
    BY <1>2, <2>3, <2>6, <2>7, <2>8, <2>9
<1>4. CASE /\ index[k] = None
           /\ answer' = [key |-> k, val |-> None]
           /\ kept' = TRUE
           /\ UNCHANGED <<mem, index>>
  <2>1. TypeOK'
    BY <1>1, <1>4 DEF TypeOK
  <2>2. ValuesWritten'
    BY <1>1, <1>4 DEF ValuesWritten, Genuine
  <2>3. IndexLeadsHome' /\ NothingForgotten'
    BY <1>1, <1>4 DEF IndexLeadsHome, NothingForgotten
  <2>4. ServesWritten'
    BY <1>4 DEF ServesWritten
  <2> QED
    BY <1>2, <2>1, <2>2, <2>3, <2>4
<1> QED
  BY <1>3, <1>4 DEF GetFlash

(* The file a flush writes to is the current one or does not exist yet, and
   ends in no torn record (flashcache.cc:524-531). *)
LEMMA TargetFile ==
  ASSUME IInv, life = "up", Target \in Files
  PROVE  /\ tail[Target] = None
         /\ \/ Target = current
            \/ Target = next /\ Target \notin dir /\ recs[Target] = <<>>
<1> USE DEF IInv
<1>1. todo = {} /\ current \in dir /\ tail[current] = None /\ \A f \in dir : f < next
  BY DEF FilesInOrder
<1>2. next \in Nat
  BY DEF TypeOK
<1>3. CASE Target = current
  BY <1>1, <1>3
<1>4. CASE Target # current
  <2>1. Target = next
    BY <1>4 DEF Target
  <2>2. Target \notin dir
    BY <1>1, <1>2, <2>1
  <2> QED
    BY <2>1, <2>2 DEF FilesInOrder
<1> QED
  BY <1>3, <1>4

(* Appending a record to the target file: what every flush, finished or not,
   does to the files (flashcache.cc:111). *)
LEMMA AppendRecord ==
  ASSUME IInv, life = "up", Target \in Files, NEW k \in Keys, mem[k] # None,
         dir' = dir \cup {Target},
         recs' = [recs EXCEPT ![Target] = Append(@, [key |-> k, val |-> mem[k]])],
         UNCHANGED <<tail, written>>
  PROVE  /\ recs' \in [Files -> Seq(Records)]
         /\ \A f \in Files : f # Target => recs'[f] = recs[f]
         /\ DOMAIN recs'[Target] = 1..(Len(recs[Target]) + 1)
         /\ \A i \in 1..Len(recs[Target]) : recs'[Target][i] = recs[Target][i]
         /\ recs'[Target][Len(recs[Target]) + 1] = [key |-> k, val |-> mem[k]]
         /\ \A f \in Files : \A i \in DOMAIN recs'[f] :
              Genuine(recs[f][i].key, recs[f][i].val)'
<1> USE DEF IInv
<1> DEFINE T == Target
           r == [key |-> k, val |-> mem[k]]
<1>1. r \in Records
  BY DEF TypeOK, Records
<1>2. Len(recs[T]) \in Nat /\ recs[T] \in Seq(Records) /\ DOMAIN recs[T] = 1..Len(recs[T])
  BY RecordOf
<1>3. recs \in [Files -> Seq(Records)] /\ T \in Files
  BY DEF TypeOK
<1>4. recs' = [recs EXCEPT ![T] = Append(@, r)]
  OBVIOUS
<1>5. r.key = k /\ r.val = mem[k] /\ Genuine(k, mem[k])
  BY DEF ValuesWritten
<1> HIDE DEF T, r
<1>6. recs' \in [Files -> Seq(Records)]
  BY <1>1, <1>2, <1>3, <1>4
<1>7. \A f \in Files : f # T => recs'[f] = recs[f]
  BY <1>3, <1>4
<1>8. recs'[T] = Append(recs[T], r)
  BY <1>3, <1>4
<1>9. /\ DOMAIN recs'[T] = 1..(Len(recs[T]) + 1)
      /\ \A i \in 1..Len(recs[T]) : recs'[T][i] = recs[T][i]
      /\ recs'[T][Len(recs[T]) + 1] = r
  BY <1>1, <1>2, <1>8
<1>10. dir \subseteq dir'
  OBVIOUS
<1>11. ASSUME NEW j, NEW w, Genuine(j, w)
       PROVE  w \in written'[j] \/ (w = Empty /\ \E f \in dir' : tail'[f] # None)
  BY <1>10, <1>11 DEF Genuine
<1>12. ASSUME NEW f \in Files, NEW i \in DOMAIN recs'[f]
       PROVE  Genuine(recs[f][i].key, recs[f][i].val)'
  <2>1. CASE f = T /\ i = Len(recs[T]) + 1
    BY <1>5, <1>9, <1>11, <2>1 DEF Genuine
  <2>2. CASE ~(f = T /\ i = Len(recs[T]) + 1)
    <3>1. i \in DOMAIN recs[f] /\ recs'[f][i] = recs[f][i]
      BY <1>2, <1>7, <1>9, <2>2
    <3>2. Genuine(recs[f][i].key, recs[f][i].val)
      BY <3>1 DEF ValuesWritten
    <3> QED
      BY <1>11, <3>1, <3>2 DEF Genuine
  <2> QED
    BY <2>1, <2>2
<1> QED
  BY <1>6, <1>7, <1>9, <1>12 DEF T, r

(* A flush moves a key from memory to a file and to the index
   (bworker.c:63-75, flashcache.cc:507-538). *)
LEMMA FlushInv ==
  ASSUME IInv, NEW k \in Keys, Flush(k)
  PROVE  IInv'
<1> USE DEF IInv
<1> DEFINE T == Target
           n == Len(recs[T])
<1>1. /\ life = "up" /\ mem[k] # None /\ T \in Files
      /\ life' = (IF T = current THEN "up" ELSE Created(T))
      /\ next' = (IF T = current THEN next ELSE next + 1)
      /\ recs' = [recs EXCEPT ![T] = Append(@, [key |-> k, val |-> mem[k]])]
      /\ dir' = dir \cup {T} /\ current' = T
      /\ index' = IF index[k] # None THEN index
                  ELSE [index EXCEPT ![k] = [file |-> T, pos |-> n + 1]]
      /\ mem' = [mem EXCEPT ![k] = None] /\ answer' = None
      /\ UNCHANGED <<todo, tail, kept, written, sets>>
  BY DEF Flush
<1>2. /\ tail[T] = None
      /\ T = current \/ (T = next /\ T \notin dir /\ recs[T] = <<>>)
  BY <1>1, TargetFile
<1>a. life' = "up"
  BY <1>1, <1>2 DEF Created
<1>3. /\ recs' \in [Files -> Seq(Records)]
      /\ \A f \in Files : f # T => recs'[f] = recs[f]
      /\ DOMAIN recs'[T] = 1..(n + 1)
      /\ \A i \in 1..n : recs'[T][i] = recs[T][i]
      /\ recs'[T][n + 1] = [key |-> k, val |-> mem[k]]
      /\ \A f \in Files : \A i \in DOMAIN recs'[f] :
           Genuine(recs[f][i].key, recs[f][i].val)'
  BY <1>1, AppendRecord
<1>4. n \in Nat /\ DOMAIN recs[T] = 1..n
  BY <1>1, RecordOf
<1> HIDE DEF T, n
<1>5. dir \subseteq Files /\ dir' \subseteq Files
  BY <1>1 DEF TypeOK
<1>6. TypeOK'
  <2>1. T # None /\ current' # None
    BY <1>1, DataAssumption, BoundAssumption DEF Files
  <2>2. index' \in [Keys -> [file : Files, pos : Nat \ {0}] \cup {None}]
    BY <1>1, <1>4 DEF TypeOK
  <2>3. mem' \in [Keys -> Vals \cup {Empty, None}]
    BY <1>1 DEF TypeOK
  <2> QED
    BY <1>1, <1>a, <1>3, <1>5, <2>1, <2>2, <2>3 DEF TypeOK
<1>7. FilesInOrder' /\ RepairedIndexed' /\ CreatesNewFiles'
  <2>1. \A f \in Files \ dir' : recs'[f] = <<>> /\ tail'[f] = None
    BY <1>1, <1>3 DEF FilesInOrder
  <2>2. \A f \in dir' : f < next'
    <3>1. /\ next \in Nat /\ todo = {} /\ current \in dir
          /\ \A f \in dir : f \in Nat /\ f < next
      BY <1>1, <1>5, BoundAssumption DEF TypeOK, FilesInOrder, Files
    <3>2. CASE T = current
      BY <1>1, <3>1, <3>2
    <3>3. CASE T # current
      BY <1>1, <1>2, <3>1, <3>3
    <3> QED
      BY <3>2, <3>3
  <2> QED
    BY <1>1, <1>2, <1>a, <2>1, <2>2 DEF FilesInOrder, RepairedIndexed, CreatesNewFiles
<1>8. ValuesWritten'
  <2>1. ASSUME NEW j \in Keys, mem'[j] # None PROVE Genuine(j, mem[j])'
    <3>1. mem'[j] = mem[j] /\ Genuine(j, mem[j])
      BY <1>1, <2>1 DEF TypeOK, ValuesWritten
    <3> QED
      BY <1>1, <3>1 DEF Genuine
  <2> QED
    BY <1>3, <2>1 DEF ValuesWritten
<1>9. \A j \in Keys : index'[j] # None =>
        \/ index'[j] = index[j]
        \/ j = k /\ index'[j].file = T /\ index'[j].pos = n + 1
  BY <1>1 DEF TypeOK
<1>10. IndexLeadsHome'
  <2> SUFFICES ASSUME NEW j \in Keys, index'[j] # None
               PROVE  /\ index'[j].file \in dir'
                      /\ \/ /\ index'[j].pos \in DOMAIN recs'[index'[j].file]
                            /\ recs'[index'[j].file][index'[j].pos].key = j
                         \/ /\ index'[j].pos = Len(recs'[index'[j].file]) + 1
                            /\ tail'[index'[j].file] # None
                            /\ index'[j].file # current'
    BY DEF IndexLeadsHome
  <2>1. CASE j = k /\ index'[j].file = T /\ index'[j].pos = n + 1
    BY <1>1, <1>3, <1>4, <2>1
  <2>2. CASE index'[j] = index[j]
    <3> DEFINE f == index[j].file
               p == index[j].pos
    <3>1. /\ f \in dir /\ f \in Files
          /\ \/ p \in DOMAIN recs[f] /\ recs[f][p].key = j
             \/ p = Len(recs[f]) + 1 /\ tail[f] # None /\ f # current
      BY <1>5, <2>2 DEF IndexLeadsHome
    <3> HIDE DEF f, p
    <3>2. CASE p \in DOMAIN recs[f] /\ recs[f][p].key = j
      <4>1. p \in DOMAIN recs'[f] /\ recs'[f][p].key = j
        <5>1. CASE f # T
          BY <1>3, <3>1, <3>2, <5>1
        <5>2. CASE f = T
          <6>1. p \in 1..n /\ p \in 1..(n + 1)
            BY <1>4, <3>2, <5>2
          <6> QED
            BY <1>3, <3>2, <5>2, <6>1
        <5> QED
          BY <5>1, <5>2
      <4> QED
        BY <1>1, <2>2, <3>1, <4>1 DEF f, p
    <3>3. CASE p = Len(recs[f]) + 1 /\ tail[f] # None /\ f # current
      <4>1. f # T
        BY <1>2, <3>3
      <4>2. recs'[f] = recs[f] /\ tail'[f] = tail[f] /\ f # current'
        BY <1>1, <1>3, <3>1, <4>1
      <4> QED
        BY <1>1, <2>2, <3>1, <3>3, <4>2 DEF f, p
    <3> QED
      BY <3>1, <3>2, <3>3
  <2> QED
    BY <1>9, <2>1, <2>2
<1>11. NothingForgotten'
  <2>1. index'[k] # None
    <3>1. T \in Nat /\ n + 1 \in Nat \ {0}
      BY <1>1, <1>4, BoundAssumption DEF Files
    <3>2. [file |-> T, pos |-> n + 1] # None
      BY <3>1, DataAssumption
    <3> QED
      BY <1>1, <3>2 DEF TypeOK
  <2>2. \A j \in Keys : j # k => mem'[j] = mem[j] /\ index'[j] = index[j]
    BY <1>1 DEF TypeOK
  <2> SUFFICES ASSUME NEW f \in dir', NEW i \in DOMAIN recs'[f], recs'[f][i].key # k
               PROVE  mem'[recs'[f][i].key] # None \/ index'[recs'[f][i].key] # None
    BY <2>1 DEF NothingForgotten
  <2>3. ~(f = T /\ i = n + 1)
    BY <1>3
  <2>4. f \in dir /\ i \in DOMAIN recs[f] /\ recs'[f][i] = recs[f][i]
    <3>1. i \in DOMAIN recs[f] /\ recs'[f][i] = recs[f][i]
      <4>1. CASE f # T
        BY <1>3, <1>5, <4>1
      <4>2. CASE f = T
        <5>1. i \in 1..n
          BY <1>3, <1>4, <2>3, <4>2
        <5> QED
          BY <1>3, <1>4, <4>2, <5>1
      <4> QED
        BY <4>1, <4>2
    <3>2. CASE f \notin dir
      BY <1>5, <3>1, <3>2 DEF FilesInOrder
    <3> QED
      BY <3>1, <3>2
  <2>5. recs[f][i].key \in Keys
    BY <1>5, <2>4, RecordOf
  <2> QED
    BY <1>1, <2>2, <2>4, <2>5 DEF NothingForgotten
<1>12. ServesWritten'
  BY <1>1 DEF ServesWritten
<1> QED
  BY <1>6, <1>7, <1>8, <1>10, <1>11, <1>12

(* The end of a life leaves nothing but the files (flashcache.cc:396). *)
LEMMA DieInv ==
  ASSUME IInv, Die, FilesInOrder', recs' \in [Files -> Seq(Records)],
         dir' \subseteq Files,
         tail' \in [Files -> [key : Keys, cut : {"header", "key", "value"}] \cup {None}],
         \A f \in Files : \A i \in DOMAIN recs'[f] :
           Genuine(recs[f][i].key, recs[f][i].val)'
  PROVE  IInv'
<1> USE DEF IInv, Die
<1>1. TypeOK'
  BY DEF TypeOK
<1>2. ValuesWritten' 
  <2>1. \A k \in Keys : mem'[k] = None
    OBVIOUS
  <2> QED
    BY <2>1 DEF ValuesWritten
<1>3. /\ RepairedIndexed' /\ CreatesNewFiles'
      /\ IndexLeadsHome' /\ NothingForgotten' /\ ServesWritten'
  BY DEF RepairedIndexed, CreatesNewFiles, IndexLeadsHome, NothingForgotten, ServesWritten
<1> QED
  BY <1>1, <1>2, <1>3

(* A crash between two steps (server.c:20). *)
LEMMA CrashInv == IInv /\ Crash => IInv'
<1> SUFFICES ASSUME IInv, Crash PROVE IInv'
  OBVIOUS
<1>1. Die /\ UNCHANGED <<dir, recs, tail, written>> /\ life' = "down" /\ todo' = {}
  BY DEF Crash, Die, fileVars
<1>2. FilesInOrder'
  BY <1>1 DEF IInv, FilesInOrder
<1>3. \A f \in Files : \A i \in DOMAIN recs'[f] :
        Genuine(recs[f][i].key, recs[f][i].val)'
  BY <1>1 DEF IInv, ValuesWritten, Genuine
<1> QED
  BY <1>1, <1>2, <1>3, DieInv DEF IInv, TypeOK

(* A crash inside the write of a record tears the end of the file that was
   being written, which no later life writes to, or leaves the whole record
   there (flashcache.cc:111). *)
LEMMA CrashInWriteInv ==
  ASSUME IInv, NEW k \in Keys, CrashInWrite(k)
  PROVE  IInv'
<1> USE DEF IInv
<1> DEFINE T == Target
<1>1. /\ life = "up" /\ mem[k] # None /\ T \in Files /\ dir' = dir \cup {T}
      /\ Die /\ UNCHANGED written /\ life' = "down" /\ todo' = {}
  BY DEF CrashInWrite, Die
<1>2. tail[T] = None
  BY <1>1, TargetFile
<1>3. dir' \subseteq Files
  BY <1>1 DEF TypeOK
<1>4. CASE /\ \E cut \in {"header", "key", "value"} :
                tail' = [tail EXCEPT ![T] = [key |-> k, cut |-> cut]]
           /\ UNCHANGED recs
  <2>1. PICK cut \in {"header", "key", "value"} :
          tail' = [tail EXCEPT ![T] = [key |-> k, cut |-> cut]]
    BY <1>4
  <2> HIDE DEF T
  <2>2. tail' \in [Files -> [key : Keys, cut : {"header", "key", "value"}] \cup {None}]
    BY <1>1, <2>1 DEF TypeOK
  <2>3. \A f \in Files : f # T => tail'[f] = tail[f]
    BY <2>1 DEF TypeOK
  <2>4. FilesInOrder'
    BY <1>1, <1>4, <2>3 DEF FilesInOrder
  <2>5. \A f \in dir : tail[f] # None => tail'[f] # None
    BY <1>2, <2>3 DEF TypeOK
  <2>6. \A f \in Files : \A i \in DOMAIN recs'[f] :
          Genuine(recs[f][i].key, recs[f][i].val)'
    BY <1>1, <1>4, <2>5 DEF ValuesWritten, Genuine
  <2>7. recs' \in [Files -> Seq(Records)]
    BY <1>4 DEF TypeOK
  <2> QED
    BY <1>1, <1>3, <2>2, <2>4, <2>6, <2>7, DieInv
<1>5. CASE /\ recs' = [recs EXCEPT ![T] = Append(@, [key |-> k, val |-> mem[k]])]
           /\ UNCHANGED tail
  <2>1. /\ recs' \in [Files -> Seq(Records)]
        /\ \A f \in Files : f # T => recs'[f] = recs[f]
        /\ \A f \in Files : \A i \in DOMAIN recs'[f] :
             Genuine(recs[f][i].key, recs[f][i].val)'
    BY <1>1, <1>5, AppendRecord
  <2> HIDE DEF T
  <2>2. FilesInOrder'
    BY <1>1, <1>5, <2>1 DEF FilesInOrder
  <2>3. tail' \in [Files -> [key : Keys, cut : {"header", "key", "value"}] \cup {None}]
    BY <1>5 DEF TypeOK
  <2> QED
    BY <1>1, <1>3, <2>1, <2>2, <2>3, DieInv
<1> QED
  BY <1>4, <1>5 DEF CrashInWrite

(* IInv is an invariant of the store over any number of lives
   (flashcache.cc, command.c). *)
LEMMA Invariance == Spec => []IInv
<1>1. IInv /\ [Next]_vars => IInv'
  <2> SUFFICES ASSUME IInv, [Next]_vars PROVE IInv'
    OBVIOUS
  <2>1. CASE UNCHANGED vars
    BY <2>1 DEF IInv, vars, fileVars, TypeOK, FilesInOrder, RepairedIndexed, ValuesWritten,
                Genuine, CreatesNewFiles, IndexLeadsHome, NothingForgotten, ServesWritten
  <2>2. CASE StartOpen \/ OpenNew \/ \E f \in Files : RepairFile(f)
    BY <2>2, StartOpenInv, OpenNewInv, RepairFileInv
  <2>3. CASE Crash
    BY <2>3, CrashInv
  <2>4. ASSUME NEW k \in Keys, NEW v \in Vals, Set(k, v) PROVE IInv'
    BY <2>4, SetInv
  <2>5. ASSUME NEW k \in Keys,
               GetMem(k) \/ GetFlash(k) \/ Flush(k) \/ CrashInWrite(k)
        PROVE  IInv'
    BY <2>5, GetMemInv, GetFlashInv, FlushInv, CrashInWriteInv
  <2> QED
    BY <2>1, <2>2, <2>3, <2>4, <2>5 DEF Next
<1> QED
  BY <1>1, InitInv, PTL DEF Spec

-----------------------------------------------------------------------------
(* The theorems.                                                           *)

(* Every variable keeps its type, over any number of lives (flashcache.cc). *)
THEOREM TypeCorrect == Spec => []TypeOK
BY Invariance, PTL DEF IInv

(* In every life, an index entry leads to a complete record of its own key or
   to the torn end of a file of an earlier life (flashcache.cc:183-190). *)
THEOREM IndexCorrect == Spec => []IndexLeadsHome
BY Invariance, PTL DEF IInv

(* A key that has a complete record in a file is served in every life, from
   memory or through the index (flashcache.cc:190, command.c:129). *)
THEOREM NoneForgotten == Spec => []NothingForgotten
BY Invariance, PTL DEF IInv

(* A GET returns what a SET of its key wrote in this life or an earlier one,
   or the empty value of a torn record (flashcache.cc:560). *)
THEOREM OnlyWrittenServed == Spec => []ServesWritten
BY Invariance, PTL DEF IInv

(* No file is created under the id of one that is there: in whatever order a
   start has read the directory, it creates a file that is new, and so does a
   flush when the current one is full (flashcache.cc:108, flashcache.cc:479). *)
THEOREM NewFilesCreated == Spec => []CreatesNewFiles
BY Invariance, PTL DEF IInv

(* What a step may do to the files: nothing, or append to one that ends in no
   torn record (flashcache.cc:111). *)
LEMMA GrowStep ==
  ASSUME IInv, Next
  PROVE  \A f \in Files : /\ IsPrefix(recs[f], recs'[f])
                          /\ tail[f] # None => recs'[f] = recs[f] /\ tail'[f] = tail[f]
<1> SUFFICES ASSUME NEW f \in Files
             PROVE  /\ IsPrefix(recs[f], recs'[f])
                    /\ tail[f] # None => recs'[f] = recs[f] /\ tail'[f] = tail[f]
  OBVIOUS
<1>1. recs[f] \in Seq(Records) /\ Len(recs[f]) \in Nat
  BY RecordOf DEF IInv
<1>2. IsPrefix(recs[f], recs[f])
  BY <1>1 DEF IsPrefix
<1>3. CASE UNCHANGED <<recs, tail>>
  BY <1>2, <1>3
<1>4. ASSUME NEW k \in Keys, life = "up", Target \in Files, mem[k] # None,
             recs' = [recs EXCEPT ![Target] = Append(@, [key |-> k, val |-> mem[k]])],
             UNCHANGED tail
      PROVE  /\ IsPrefix(recs[f], recs'[f])
             /\ tail[f] # None => recs'[f] = recs[f] /\ tail'[f] = tail[f]
  <2>1. tail[Target] = None
    BY <1>4, TargetFile
  <2>2. CASE f # Target
    BY <1>2, <1>4, <2>2 DEF IInv, TypeOK
  <2>3. CASE f = Target
    <3> DEFINE r == [key |-> k, val |-> mem[k]]
    <3>1. r \in Records
      BY <1>4 DEF IInv, TypeOK, Records
    <3>2. recs'[f] = Append(recs[f], r)
      BY <1>4, <2>3 DEF IInv, TypeOK
    <3> HIDE DEF r
    <3>3. IsPrefix(recs[f], Append(recs[f], r))
      BY <1>1, <3>1 DEF IsPrefix
    <3> QED
      BY <2>1, <2>3, <3>2, <3>3
  <2> QED
    BY <2>2, <2>3
<1>5. ASSUME NEW k \in Keys, NEW t, life = "up", Target \in Files,
             tail' = [tail EXCEPT ![Target] = t], UNCHANGED recs
      PROVE  /\ IsPrefix(recs[f], recs'[f])
             /\ tail[f] # None => recs'[f] = recs[f] /\ tail'[f] = tail[f]
  <2>1. tail[Target] = None
    BY <1>5, TargetFile
  <2> QED
    BY <1>2, <1>5, <2>1 DEF IInv, TypeOK
<1>6. CASE \/ StartOpen \/ OpenNew \/ Crash \/ \E g \in Files : RepairFile(g)
           \/ \E k \in Keys : GetMem(k) \/ GetFlash(k) \/ \E v \in Vals : Set(k, v)
  BY <1>3, <1>6 DEF StartOpen, OpenNew, RepairFile, Crash, GetMem, GetFlash, Set, fileVars
<1>7. ASSUME NEW k \in Keys, Flush(k) \/ CrashInWrite(k)
      PROVE  /\ IsPrefix(recs[f], recs'[f])
             /\ tail[f] # None => recs'[f] = recs[f] /\ tail'[f] = tail[f]
  BY <1>4, <1>5, <1>7 DEF Flush, CrashInWrite
<1> QED
  BY <1>6, <1>7 DEF Next

(* The complete records of a file are never changed and never lost, by any
   crash or restart, and nothing is written after a torn one
   (flashcache.cc:111). *)
THEOREM FilesGrow == Spec => FilesOnlyGrow
<1> DEFINE A == \A f \in Files :
                  /\ IsPrefix(recs[f], recs'[f])
                  /\ tail[f] # None => recs'[f] = recs[f] /\ tail'[f] = tail[f]
<1>1. IInv /\ [Next]_vars => [A]_vars
  BY GrowStep
<1> QED
  BY <1>1, Invariance, PTL DEF Spec, FilesOnlyGrow
=============================================================================

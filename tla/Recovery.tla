------------------------------ MODULE Recovery ------------------------------
(***************************************************************************)
(* The store over several lives of the process: the cache files survive,   *)
(* the memory tier and the index of the FlashCache do not.  A start        *)
(* (FlashCache::Open) reads one file after the other, in whatever order    *)
(* readdir returns them; Repair walks each from header to header and       *)
(* indexes what it finds, the first record of a key to come winning.  The  *)
(* process may end at any time, also during a start, or inside a write,    *)
(* which leaves the beginning of a record at the end of the current file.  *)
(*                                                                         *)
(* A life is sequential here: SET and GET in MEM_LRU mode, and the flush   *)
(* of an entry that was evicted, to the files in direct-write mode.        *)
(* TieredStore has the interleavings of one life.                          *)
(***************************************************************************)
EXTENDS Integers, FiniteSets, FiniteSetsExt, SequencesExt, Absent

CONSTANTS Keys, Vals,
          Empty,        \* the value of length 0
          Junk,         \* a key that nobody uses
          RecsPerFile,  \* records that fill a file up
          MaxFiles,     \* bound: files created
          MaxSets       \* bound: SETs

ASSUME DataAssumption ==
  /\ None \notin Keys \cup Vals /\ Empty \notin Vals \cup {None}
  /\ Junk \notin Keys \cup Vals \cup {None, Empty}
  /\ None \notin Nat \cup [file : Nat, pos : Nat \ {0}]
ASSUME BoundAssumption ==
  RecsPerFile \in Nat \ {0} /\ MaxFiles \in Nat \ {0} /\ MaxSets \in Nat

Files == 0..(MaxFiles - 1)
Records == [key : Keys, val : Vals \cup {Empty}]

VARIABLES
  life,     \* "down", "opening", "up", or "undefined", which is absorbing
  todo,     \* during Open: the files it has yet to read
  next,     \* writer_cache_id_
  dir,      \* the files in the flash directory
  recs,     \* the records of each file that are complete
  tail,     \* the beginning of a record at the end of each file, or None
  current,  \* cache_file_
  index,    \* block_index_: each key's file and record number, or None
  mem,      \* the memory tier: each key's value, or None
  kept,     \* a Lookup miss has kept fcache_mutex
  answer,   \* what a GET has just returned and for which key, or None
  written,  \* the values that SETs have written
  sets      \* how many SETs there were

fileVars == <<dir, recs, tail>>
vars == <<life, todo, next, fileVars, current, index, mem, kept, answer, written, sets>>

(* No process yet, an empty directory. *)
Init ==
  /\ life = "down" /\ todo = {} /\ next = 0
  /\ dir = {}
  /\ recs = [f \in Files |-> <<>>] /\ tail = [f \in Files |-> None]
  /\ current = None
  /\ index = [k \in Keys |-> None] /\ mem = [k \in Keys |-> None]
  /\ kept = FALSE /\ answer = None
  /\ written = [k \in Keys |-> {}] /\ sets = 0

-----------------------------------------------------------------------------
(* Open and Repair.                                                        *)

(* What Repair takes for the key of a torn record.  If the header or the key
   is cut, it is what the allocation for the key happened to hold. *)
TailKeys(f) ==
  IF tail[f] = None THEN {None}
  ELSE IF tail[f].cut = "value" THEN {tail[f].key}
  ELSE Keys \cup {Junk}

(* Fault: the step to the next header leaves the last record out. *)
KeysShort(f, torn) == [i \in 1..(Len(recs[f]) - 1) |-> recs[f][i].key]

(* The keys Repair inserts for file f, in order: the walk ends when the
   position is past the file's size, which a torn record always is. *)
RepairKeys(f, torn) ==
  [i \in 1..Len(recs[f]) |-> recs[f][i].key]
    \o (IF torn = None THEN <<>> ELSE <<torn>>)

(* Fault: lba_.off_ is not advanced from record to record. *)
FirstAtStart(k, f, torn) ==
  IF Contains(RepairKeys(f, torn), k) THEN [file |-> f, pos |-> 1] ELSE None

(* The first record that Repair finds of key k in file f. *)
FirstRecord(k, f, torn) ==
  LET hits == {i \in DOMAIN RepairKeys(f, torn) : RepairKeys(f, torn)[i] = k}
  IN  IF hits = {} THEN None ELSE [file |-> f, pos |-> Min(hits)]

(* Open lists the directory. *)
StartOpen ==
  /\ life = "down"
  /\ life' = "opening" /\ todo' = dir
  /\ UNCHANGED <<next, fileVars, current, index, mem, kept, answer, written, sets>>

(* Fault: the id after the file that was read last. *)
NextIdLast(f) == f + 1

(* writer_cache_id_ after file f: past the ids of all files read so far. *)
NextId(f) == IF f >= next THEN f + 1 ELSE next

(* One turn of Open's loop, readdir's order being any: Repair of the file,
   where block_index_.insert keeps the entry that a key has. *)
RepairFile(f) ==
  /\ life = "opening" /\ f \in todo
  /\ \E torn \in TailKeys(f) :
       index' = [k \in Keys |-> IF index[k] # None THEN index[k] ELSE FirstRecord(k, f, torn)]
  /\ next' = NextId(f)
  /\ todo' = todo \ {f}
  /\ UNCHANGED <<life, fileVars, current, mem, kept, answer, written, sets>>

(* Create: a file that is there already is not opened, and fd_ is whatever
   it happens to be. *)
Created(f) == IF f \in dir THEN "undefined" ELSE "up"

(* Fault: a start goes on with the last file that it has read. *)
OpenLast ==
  /\ life = "opening" /\ todo = {} /\ next \in Files
  /\ life' = "up"
  /\ current' = IF dir = {} THEN next ELSE Max(dir)
  /\ dir' = dir \cup {current'} /\ next' = current' + 1
  /\ UNCHANGED <<todo, recs, tail, index, mem, kept, answer, written, sets>>

(* The end of Open: NewCacheFile. *)
OpenNew ==
  /\ life = "opening" /\ todo = {} /\ next \in Files
  /\ life' = Created(next)
  /\ current' = next
  /\ dir' = dir \cup {next} /\ next' = next + 1
  /\ UNCHANGED <<todo, recs, tail, index, mem, kept, answer, written, sets>>

-----------------------------------------------------------------------------
(* A life.                                                                 *)

Set(k, v) ==
  /\ life = "up" /\ sets < MaxSets
  /\ mem' = [mem EXCEPT ![k] = v]
  /\ written' = [written EXCEPT ![k] = @ \cup {v}]
  /\ sets' = sets + 1
  /\ answer' = None
  /\ UNCHANGED <<life, todo, next, fileVars, current, index, kept>>

GetMem(k) ==
  /\ life = "up" /\ mem[k] # None
  /\ answer' = [key |-> k, val |-> mem[k]]
  /\ UNCHANGED <<life, todo, next, fileVars, current, index, mem, kept, written, sets>>

(* Fault: Lookup returns the bytes of a record that does not deserialise. *)
ValueUnchecked(lba) ==
  IF lba.pos <= Len(recs[lba.file]) THEN recs[lba.file][lba.pos].val ELSE Junk

(* Read of an index entry: a torn record does not deserialise, and Lookup
   returns the empty value that Read left. *)
ValueAt(lba) ==
  IF lba.pos <= Len(recs[lba.file]) THEN recs[lba.file][lba.pos].val ELSE Empty

(* A GET that memory does not have: promoted from flash, or a miss, which
   keeps the lock. *)
GetFlash(k) ==
  /\ life = "up" /\ mem[k] = None /\ ~kept
  /\ \/ /\ index[k] # None
        /\ answer' = [key |-> k, val |-> ValueAt(index[k])]
        /\ mem' = [mem EXCEPT ![k] = ValueAt(index[k])]
        /\ index' = [index EXCEPT ![k] = None]
        /\ UNCHANGED kept
     \/ /\ index[k] = None
        /\ answer' = [key |-> k, val |-> None]
        /\ kept' = TRUE
        /\ UNCHANGED <<mem, index>>
  /\ UNCHANGED <<life, todo, next, fileVars, current, written, sets>>

(* The file that Append writes to: the current one, or a new one if it is
   full. *)
Target == IF Len(recs[current]) < RecsPerFile THEN current ELSE next

(* The tiering thread's Insert and erase. *)
Flush(k) ==
  /\ life = "up" /\ mem[k] # None /\ ~kept /\ Target \in Files
  /\ life' = IF Target = current THEN "up" ELSE Created(Target)
  /\ recs' = [recs EXCEPT ![Target] = Append(@, [key |-> k, val |-> mem[k]])]
  /\ dir' = dir \cup {Target}
  /\ current' = Target
  /\ next' = IF Target = current THEN next ELSE next + 1
  /\ index' = IF index[k] # None THEN index
              ELSE [index EXCEPT ![k] = [file |-> Target, pos |-> Len(recs[Target]) + 1]]
  /\ mem' = [mem EXCEPT ![k] = None]
  /\ answer' = None
  /\ UNCHANGED <<todo, tail, kept, written, sets>>

(* The end of a life: memory, index and locks are gone. *)
Die ==
  /\ life' = "down" /\ todo' = {} /\ next' = 0
  /\ current' = None
  /\ index' = [k \in Keys |-> None] /\ mem' = [k \in Keys |-> None]
  /\ kept' = FALSE /\ answer' = None
  /\ UNCHANGED <<written, sets>>

Crash == life \in {"opening", "up"} /\ Die /\ UNCHANGED fileVars

(* The end comes inside the write() of a flush: a part of the record is in
   the file, or all of it and nothing else has happened. *)
CrashInWrite(k) ==
  /\ life = "up" /\ mem[k] # None /\ ~kept /\ Target \in Files
  /\ Target = current \/ Created(Target) = "up"
  /\ dir' = dir \cup {Target}
  /\ \/ /\ \E cut \in {"header", "key", "value"} :
             tail' = [tail EXCEPT ![Target] = [key |-> k, cut |-> cut]]
        /\ UNCHANGED recs
     \/ /\ recs' = [recs EXCEPT ![Target] = Append(@, [key |-> k, val |-> mem[k]])]
        /\ UNCHANGED tail
  /\ Die

-----------------------------------------------------------------------------
Next ==
  \/ StartOpen \/ OpenNew \/ Crash
  \/ \E f \in Files : RepairFile(f)
  \/ \E k \in Keys :
       \/ \E v \in Vals : Set(k, v)
       \/ GetMem(k) \/ GetFlash(k) \/ Flush(k) \/ CrashInWrite(k)

Spec == Init /\ [][Next]_vars

-----------------------------------------------------------------------------
(* Properties.                                                             *)

(* The type of every variable. *)
TypeOK ==
  /\ life \in {"down", "opening", "up", "undefined"} /\ kept \in BOOLEAN
  /\ dir \subseteq Files /\ todo \subseteq Files /\ next \in Nat
  /\ recs \in [Files -> Seq(Records)]
  /\ tail \in [Files -> [key : Keys, cut : {"header", "key", "value"}] \cup {None}]
  /\ current \in Files \cup {None} /\ (life \in {"down", "opening"} <=> current = None)
  /\ index \in [Keys -> [file : Files, pos : Nat \ {0}] \cup {None}]
  /\ mem \in [Keys -> Vals \cup {Empty, None}]
  /\ answer \in [key : Keys, val : Vals \cup {Empty, None}] \cup {None}
  /\ written \in [Keys -> SUBSET Vals] /\ sets \in 0..MaxSets

(* In every life an index entry leads to a complete record of its own key, or
   to the torn end of a file of an earlier life, which no complete record
   follows (flashcache.cc:183-190). *)
IndexLeadsHome ==
  \A k \in Keys : index[k] # None =>
    LET f == index[k].file
    IN  /\ f \in dir
        /\ \/ index[k].pos \in DOMAIN recs[f] /\ recs[f][index[k].pos].key = k
           \/ index[k].pos = Len(recs[f]) + 1 /\ tail[f] # None /\ f # current

(* A key that has a complete record in a file is served: after any number of
   crashes, restarts, promotions and flushes it is in memory or in the index
   (flashcache.cc:190, command.c:129). *)
NothingForgotten ==
  life = "up" => \A f \in dir : \A i \in DOMAIN recs[f] :
    mem[recs[f][i].key] # None \/ index[recs[f][i].key] # None

(* A GET returns a value that a SET wrote under its key, in this life or an
   earlier one; the empty value, which no SET wrote, only once a record has
   been torn (flashcache.cc:560). *)
ServesWritten ==
  answer # None /\ answer.val # None =>
    \/ answer.val \in written[answer.key]
    \/ answer.val = Empty /\ \E f \in dir : tail[f] # None

(* No file is created under the id of one that is there: not by a start, in
   whatever order it has read the directory and however many starts before it
   were cut short, and not when a file is full (flashcache.cc:108,
   flashcache.cc:479). *)
CreatesNewFiles == life # "undefined"

(* The complete records of a file are never changed and never lost, and
   nothing is written after a torn one (flashcache.cc:111). *)
FilesOnlyGrow ==
  [][\A f \in Files : /\ IsPrefix(recs[f], recs'[f])
                      /\ tail[f] # None => recs'[f] = recs[f] /\ tail'[f] = tail[f]]_vars
=============================================================================

----------------------------- MODULE FlashEvict -----------------------------
(***************************************************************************)
(* The FlashCache at its capacity, in FLASH-WRITEBUFFER mode: before a     *)
(* file's writer thread writes a buffer it calls FlashCache::Evict, which  *)
(* deletes whole cache files, the least recently used one first, until     *)
(* size_ leaves room.  Three kinds of step interleave:                     *)
(*                                                                         *)
(*   - Insert and Lookup of the FlashCache's user, under fcache_mutex; the *)
(*     callers hold bworker_mutex, so there is one user at a time;         *)
(*   - DeleteMetaData after a promotion, without fcache_mutex;             *)
(*   - the writers, which test size_ without fcache_mutex and take it to   *)
(*     delete a file: close it, which joins its writer, unlink it, erase   *)
(*     its keys from the index.                                            *)
(*                                                                         *)
(* A record has 1 to MaxRecord bytes and a write buffer BufSize of them,   *)
(* so a record may end inside a buffer, fill one exactly, or span several. *)
(* Of a file's bytes the model keeps how many were appended (off): buffer  *)
(* i has the bytes from i * BufSize on.  The steps of Append up to its     *)
(* post are one step here; WriteBuffer has them, and the bytes, one by     *)
(* one.                                                                    *)
(*                                                                         *)
(* proc = "undefined" is absorbing, as in TieredStore; an exception that   *)
(* leaves a thread is proc = "aborted".                                    *)
(***************************************************************************)
EXTENDS Integers, FiniteSets, FiniteSetsExt, LruCache

CONSTANTS Keys,
          RecordSizes,  \* the bytes that a record may have
          MaxRecord,    \* bound: bytes of a record
          BufSize,      \* write_buffer_size
          FileSize,     \* cache_file_size
          CacheSize,    \* cache_size
          FloatUnit,    \* the distance of two floats from float(cache_size) on
          MaxFiles,     \* bound: files created
          StartSizes    \* what the uninitialised size_ may hold

ASSUME CapacityAssumption ==
  /\ MaxRecord \in Nat \ {0} /\ BufSize \in Nat \ {0} /\ FloatUnit \in Nat \ {0}
  /\ FileSize \in Nat \ {0} /\ CacheSize \in Nat /\ MaxFiles \in Nat \ {0}
  /\ RecordSizes \subseteq 1..MaxRecord /\ StartSizes \subseteq Nat
  /\ None \notin Keys \cup 1..MaxFiles

Files == 1..MaxFiles

VARIABLES
  proc,      \* "running", "exited", "aborted" or "undefined"
  user,      \* where the user is: "idle", "mark", "index" or "promote"
  key,       \* the key it inserts or promotes, or None
  rec,       \* lba.size_: the bytes that it has appended and not counted
  mutex,     \* fcache_mutex: "free", "user", "evict", or "kept" by a Lookup miss
  current,   \* cache_file_
  lru,       \* cache_file_index_, most recently used first
  index,     \* block_index_: the file of each key's record, or None
  size,      \* size_
  keys,      \* the keys in key_lists_ of each file
  off,       \* disk_woff_ of each file
  eof,       \* eof_ of each file
  woff,      \* buf_woff_ of each file
  doff,      \* buf_doff_ of each file
  running,   \* is_writer_running of each file
  sem,       \* sem_writer of each file
  writer,    \* where each file's writer is
  victim,    \* the file that each writer's Evict deletes, or None
  disk       \* filesize_: the bytes each file has in the directory

userVars == <<user, key, rec, current>>
fileVars == <<keys, off, eof, woff>>
vars == <<proc, mutex, lru, index, size, doff, running, sem, writer, victim,
          disk, userVars, fileVars>>

(* An empty directory and NewCacheFile; nothing initialises size_. *)
Init ==
  /\ proc = "running" /\ user = "idle" /\ key = None /\ rec = 0
  /\ mutex = "free"
  /\ current = 1 /\ lru = <<1>>
  /\ index = [k \in Keys |-> None]
  /\ size \in StartSizes
  /\ keys = [f \in Files |-> {}]
  /\ eof = [f \in Files |-> FALSE] /\ running = [f \in Files |-> FALSE]
  /\ off = [f \in Files |-> 0] /\ woff = [f \in Files |-> 0]
  /\ doff = [f \in Files |-> 0] /\ disk = [f \in Files |-> 0]
  /\ sem = [f \in Files |-> 0]
  /\ writer = [f \in Files |-> IF f = 1 THEN "wait" ELSE "none"]
  /\ victim = [f \in Files |-> None]

UserAt(label) == proc = "running" /\ user = label
WriterAt(f, label) == proc = "running" /\ writer[f] = label

Crash(how) ==
  /\ proc' = how
  /\ UNCHANGED <<mutex, lru, index, size, doff, running, sem, writer, victim,
                 disk, userVars, fileVars>>

-----------------------------------------------------------------------------
(* The user: Insert, Lookup, DeleteMetaData.                               *)

(* DispatchBuffer returns early: a writer is running, or no buffer is full
   and the file is not either. *)
Pass(f, filled, full) == running[f] \/ (~full /\ doff[f] = filled)

(* Append of n bytes to file f, and DispatchBuffer up to its post: a full
   file gets one more on buf_woff_, for its last buffer. *)
AppendTo(f, k, n) ==
  LET filled == (off[f] + n) \div BufSize
      full   == off[f] + n >= FileSize
  IN  /\ keys' = [keys EXCEPT ![f] = @ \cup {k}]
      /\ off' = [off EXCEPT ![f] = @ + n]
      /\ eof' = [eof EXCEPT ![f] = full]
      /\ key' = k /\ rec' = n /\ mutex' = "user"
      /\ \/ /\ Pass(f, filled, full)
            /\ woff' = [woff EXCEPT ![f] = filled]
            /\ user' = "index"
            /\ UNCHANGED sem
         \/ /\ ~ Pass(f, filled, full)
            /\ woff' = [woff EXCEPT ![f] = IF full THEN filled + 1 ELSE filled]
            /\ sem' = [sem EXCEPT ![f] = @ + 1]
            /\ user' = "mark"

(* Insert up to the Append that succeeds: in the current file, or in a new
   one if it is full.  If Evict has deleted the current file, cache_file_
   points at freed memory. *)
InsertAppend(k, n) ==
  /\ UserAt("idle") /\ mutex = "free"
  /\ \/ /\ writer[current] # "gone" /\ ~eof[current]
        /\ AppendTo(current, k, n)
        /\ UNCHANGED <<proc, current, lru, index, size, doff, running, writer,
                       victim, disk>>
     \/ /\ writer[current] # "gone" /\ eof[current]
        /\ current < MaxFiles
        /\ current' = current + 1
        /\ lru' = LruPushFront(lru, current + 1)
        /\ writer' = [writer EXCEPT ![current + 1] = "wait"]
        /\ AppendTo(current + 1, k, n)
        /\ UNCHANGED <<proc, index, size, doff, running, victim, disk>>
     \/ writer[current] = "gone" /\ Crash("undefined")

(* The end of DispatchBuffer: the writer that was posted may have finished. *)
MarkRunning ==
  /\ UserAt("mark")
  /\ running' = [running EXCEPT ![current] = TRUE]
  /\ user' = "index"
  /\ UNCHANGED <<proc, mutex, lru, index, size, doff, sem, writer, victim,
                 disk, key, rec, current, fileVars>>

(* The rest of Insert: size_, the index (which keeps an older entry), and
   the unlock. *)
InsertIndex ==
  /\ UserAt("index")
  /\ size' = size + rec
  /\ index' = IF index[key] = None THEN [index EXCEPT ![key] = current] ELSE index
  /\ user' = "idle" /\ key' = None /\ rec' = 0 /\ mutex' = "free"
  /\ UNCHANGED <<proc, lru, doff, running, sem, writer, victim, disk, current,
                 fileVars>>

(* Lookup: a key that is not indexed, or whose file is not, keeps the lock;
   else get() makes the file the most recently used one, and the caller
   promotes the key, or does not (ONLY_FLASH). *)
Lookup(k) ==
  /\ UserAt("idle") /\ mutex = "free"
  /\ \/ /\ index[k] = None \/ ~LruListed(lru, index[k])
        /\ mutex' = "kept"
        /\ UNCHANGED <<lru, user, key>>
     \/ /\ index[k] # None /\ LruListed(lru, index[k])
        /\ lru' = LruTouch(lru, index[k])
        /\ \/ user' = "promote" /\ key' = k
           \/ UNCHANGED <<user, key>>
        /\ UNCHANGED mutex
  /\ UNCHANGED <<proc, index, size, doff, running, sem, writer, victim, disk,
                 rec, current, fileVars>>

DeleteMetaData ==
  /\ UserAt("promote")
  /\ index' = [index EXCEPT ![key] = None]
  /\ user' = "idle" /\ key' = None
  /\ UNCHANGED <<proc, mutex, lru, size, doff, running, sem, writer, victim,
                 disk, rec, current, fileVars>>

-----------------------------------------------------------------------------
(* A writer: Write, and Evict inside it.                                   *)

(* A writer goes to a place, and nothing else changes. *)
GoTo(f, place) ==
  /\ writer' = [writer EXCEPT ![f] = place]
  /\ UNCHANGED <<proc, mutex, lru, index, size, doff, running, sem, victim,
                 disk, userVars, fileVars>>

(* Fault: the writer goes on without a post. *)
SemTryWait(f) ==
  /\ WriterAt(f, "wait")
  /\ sem' = [sem EXCEPT ![f] = @ - 1]
  /\ writer' = [writer EXCEPT ![f] = "loop"]
  /\ UNCHANGED <<proc, mutex, lru, index, size, doff, running, victim, disk,
                 userVars, fileVars>>

SemWait(f) ==
  /\ WriterAt(f, "wait") /\ sem[f] > 0
  /\ sem' = [sem EXCEPT ![f] = @ - 1]
  /\ writer' = [writer EXCEPT ![f] = "loop"]
  /\ UNCHANGED <<proc, mutex, lru, index, size, doff, running, victim, disk,
                 userVars, fileVars>>

(* Used() of the buffer at buf_doff_. *)
Start(f) == doff[f] * BufSize
Used(f) == IF off[f] - Start(f) < BufSize THEN off[f] - Start(f) ELSE BufSize

(* The loop of Write: the next buffer is fetched.  The fake increments of
   buf_woff_ lead past the last one if that is full, or if there is none. *)
LoopTest(f) ==
  /\ WriterAt(f, "loop")
  /\ \/ doff[f] >= woff[f] /\ GoTo(f, "stop")
     \/ doff[f] < woff[f] /\ Start(f) < off[f] /\ GoTo(f, "evict")
     \/ doff[f] < woff[f] /\ Start(f) >= off[f] /\ Crash("undefined")

(* A number as a float: the nearest one, and the even one of two. *)
Float(n) ==
  LET q == n \div FloatUnit
      r == n % FloatUnit
  IN  FloatUnit * (IF 2 * r > FloatUnit \/ (2 * r = FloatUnit /\ q % 2 = 1)
                   THEN q + 1 ELSE q)

(* The test of Evict's loop: the buffer's size and size_, read without the
   lock, against the capacity; 1.0f makes it a comparison of floats. *)
OverCapacity(f) == Float(Used(f) + size) > Float(CacheSize)

EvictTest(f) ==
  /\ WriterAt(f, "evict")
  /\ GoTo(f, IF OverCapacity(f) THEN "lock" ELSE "write")

(* Fault: Close does not wake the writer it joins. *)
CloseQuietly(f) ==
  /\ eof' = [eof EXCEPT ![f] = TRUE]
  /\ woff' = [woff EXCEPT ![f] = @ + 1]
  /\ UNCHANGED sem

(* Close of the victim up to its join. *)
CloseVictim(f) ==
  /\ eof' = [eof EXCEPT ![f] = TRUE]
  /\ woff' = [woff EXCEPT ![f] = @ + 1]
  /\ sem' = [sem EXCEPT ![f] = @ + 1]

(* Metadata::Evict and Close: the victim may be anyone's file.  A thread
   that joins itself gets an exception; it does before the list is empty,
   for its own file is on it. *)
EvictLock(f) ==
  /\ WriterAt(f, "lock") /\ mutex = "free"
  /\ \/ LruVictim(lru) = f /\ Crash("aborted")
     \/ /\ LruVictim(lru) # f
        /\ mutex' = "evict"
        /\ lru' = LruDropVictim(lru)
        /\ victim' = [victim EXCEPT ![f] = LruVictim(lru)]
        /\ CloseVictim(LruVictim(lru))
        /\ writer' = [writer EXCEPT ![f] = "join"]
        /\ UNCHANGED <<proc, index, size, doff, running, disk, userVars, keys, off>>

(* Fault: Delete returns the file's size also when unlink() has failed. *)
UnlinkCounted(v) ==
  /\ size' = size - disk[v]
  /\ disk' \in {disk, [disk EXCEPT ![v] = 0]}

(* Delete's unlink(), and what it returns: what was written, which may be
   less than what size_ has for the file. *)
Unlink(v) ==
  \/ size' = size - disk[v] /\ disk' = [disk EXCEPT ![v] = 0]
  \/ UNCHANGED <<size, disk>>

(* Fault: an entry is erased unless it leads to the file itself. *)
EraseOthers(v) == [k \in Keys |-> IF k \in keys[v] /\ index[k] # v THEN None ELSE index[k]]

(* Every key ever appended to the file is erased from the index, whichever
   file its entry leads to. *)
EraseKeys(v) == [k \in Keys |-> IF k \in keys[v] THEN None ELSE index[k]]

(* The join returns: the rest of Close, unlink, the index, delete, unlock,
   and the writer goes on at a place. *)
Deleted(f, place) ==
  /\ WriterAt(f, "join") /\ writer[victim[f]] = "done"
  /\ Unlink(victim[f])
  /\ index' = EraseKeys(victim[f])
  /\ writer' = [writer EXCEPT ![f] = place, ![victim[f]] = "gone"]
  /\ victim' = [victim EXCEPT ![f] = None]
  /\ mutex' = "free"
  /\ UNCHANGED <<proc, lru, doff, running, sem, userVars, fileVars>>

(* Fault: Evict deletes one file and does not test again. *)
EvictFinishOnce(f) == Deleted(f, "write")

EvictFinish(f) == Deleted(f, "evict")

(* write() until all of the buffer is written, or exit(-1). *)
WriteOut(f) ==
  /\ WriterAt(f, "write")
  /\ \/ /\ disk' = [disk EXCEPT ![f] = @ + Used(f)]
        /\ doff' = [doff EXCEPT ![f] = @ + 1]
        /\ writer' = [writer EXCEPT ![f] = "loop"]
        /\ UNCHANGED <<proc, mutex, lru, index, size, running, sem, victim,
                       userVars, fileVars>>
     \/ Crash("exited")

(* The end of Write. *)
WriteStops(f) ==
  /\ WriterAt(f, "stop")
  /\ running' = [running EXCEPT ![f] = FALSE]
  /\ writer' = [writer EXCEPT ![f] = "check"]
  /\ UNCHANGED <<proc, mutex, lru, index, size, doff, sem, victim, disk,
                 userVars, fileVars>>

(* writerJobs ends when it sees eof_, and clears the buffers, written or
   not. *)
JobEnds(f) ==
  /\ WriterAt(f, "check")
  /\ GoTo(f, IF eof[f] THEN "done" ELSE "wait")

(* DeleteMetaData and Evict inside block_index_ at the same time. *)
DataRace ==
  /\ UserAt("promote")
  /\ \E f \in Files : writer[f] = "join" /\ writer[victim[f]] = "done"
  /\ Crash("undefined")

-----------------------------------------------------------------------------
UserStep == MarkRunning \/ InsertIndex \/ DeleteMetaData

WriterStep(f) ==
  \/ SemWait(f) \/ LoopTest(f) \/ EvictTest(f) \/ EvictLock(f)
  \/ EvictFinish(f) \/ WriteOut(f) \/ WriteStops(f) \/ JobEnds(f)

Next ==
  \/ \E k \in Keys, n \in RecordSizes : InsertAppend(k, n)
  \/ \E k \in Keys : Lookup(k)
  \/ UserStep
  \/ \E f \in Files : WriterStep(f)
  \/ DataRace

Spec == Init /\ [][Next]_vars

(* Every thread runs whenever it can; nobody has to call Insert or Lookup. *)
FairSpec ==
  Spec /\ WF_vars(UserStep) /\ \A f \in Files : WF_vars(WriterStep(f))

-----------------------------------------------------------------------------
(* Properties.                                                             *)

Places == {"none", "wait", "loop", "evict", "lock", "join", "write", "stop",
           "check", "done", "gone"}

(* The type of every variable. *)
TypeOK ==
  /\ proc \in {"running", "exited", "aborted", "undefined"}
  /\ user \in {"idle", "mark", "index", "promote"} /\ key \in Keys \cup {None}
  /\ rec \in 0..MaxRecord
  /\ mutex \in {"free", "user", "evict", "kept"}
  /\ current \in Files /\ lru \in Seq(Files)
  /\ index \in [Keys -> Files \cup {None}]
  /\ size \in Nat
  /\ keys \in [Files -> SUBSET Keys] /\ off \in [Files -> Nat]
  /\ eof \in [Files -> BOOLEAN] /\ running \in [Files -> BOOLEAN]
  /\ woff \in [Files -> Nat] /\ doff \in [Files -> Nat]
  /\ sem \in [Files -> Nat]
  /\ writer \in [Files -> Places]
  /\ victim \in [Files -> Files \cup {None}]
  /\ disk \in [Files -> Nat]

(* What a file occupies or will occupy once it is written. *)
Occupies(f) == IF writer[f] = "gone" THEN disk[f] ELSE off[f]

(* size_ never counts less than the files hold or will hold, but for the
   record of an Insert in progress: it is added to after the Append, and a
   file that could not be unlinked is no longer in the table
   (flashcache.cc:537, :575). *)
NeverUndercounts ==
  proc = "running" => size + rec >= MapThenSumSet(Occupies, Files)

(* How far the files may go beyond cache_size: all but a byte of a record
   whose buffers are tested before it is counted, and the float rounding of
   both sides of the test. *)
Excess == MaxRecord - 1 + 2 * (FloatUnit \div 2)

(* The files take no more than cache_size and that excess, although every
   writer tests size_ without the lock, buffer by buffer, before its write,
   and while Insert and the other writers go on (flashcache.cc:205, :569). *)
CapacityKept ==
  MapThenSumSet(LAMBDA f : disk[f], Files) <= CacheSize + Excess

(* When fcache_mutex is free the index leads to no file that has been
   evicted; Lookup would return with the lock (flashcache.cc:551, :576). *)
IndexedFileListed ==
  proc = "running" /\ mutex = "free" =>
    \A k \in Keys : index[k] # None => LruListed(lru, index[k])

(* fcache_mutex is never unlocked again: a Lookup miss has kept it, or its
   holder joins a writer that waits for it. *)
Stuck ==
  \/ mutex = "kept"
  \/ \E f, g \in Files : victim[f] = g /\ writer[f] = "join" /\ writer[g] = "lock"

(* A writer that has a buffer to write gets through it and waits or ends,
   whatever has to be evicted before: apart from the end of the process only
   a Lookup miss and the join of another writer in Evict can stop it
   (flashcache.cc:205, :575). *)
WriterEnds ==
  \A f \in Files :
    writer[f] = "evict" ~>
      writer[f] \in {"wait", "done", "gone"} \/ proc # "running" \/ Stuck
=============================================================================

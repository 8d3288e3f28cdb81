---------------------------- MODULE TieredStore ----------------------------
(***************************************************************************)
(* The server's two storage tiers and the threads that work on them:       *)
(*                                                                         *)
(*   - one bworkerRecvJobs thread per connection (bworker.c), which runs   *)
(*     processCMD (command.c) for each request;                            *)
(*   - the tiering thread BWorker, which moves evicted entries from memory *)
(*     to flash (bworker.c, BPB_TIERING_FLASH);                            *)
(*   - the main thread Main, which idles in main() until SIGINT            *)
(*     (server.c).                                                         *)
(*                                                                         *)
(* The memory tier is an lru_cache from a key to its hashEntry.  The flash *)
(* tier is a FlashCache that writes each record straight to its file       *)
(* (flashcache-mode not FLASH-WRITEBUFFER, as in conf/server.conf).  A     *)
(* record takes one unit of a cache file, an LBA is a file and a position. *)
(* CacheMode selects server-mode MEM-LRU or ONLY-FLASH.                    *)
(*                                                                         *)
(* Undefined behaviour (a dangling iterator, a null or freed pointer, two  *)
(* conflicting unsynchronised accesses) ends in the absorbing state        *)
(* proc = "undefined": nothing is claimed about what the process does from *)
(* there on.                                                               *)
(***************************************************************************)
EXTENDS Integers, Sequences, FiniteSets, LruCache

CONSTANTS Key, Val,
          Client,        \* the connections
          Main, BWorker, \* the main and the tiering thread
          CacheMode,     \* "MEM_LRU" or "ONLY_FLASH"
          RecsPerFile,   \* flashcache-file-size in records
          MaxRequests    \* bound: requests received in a run

Evictor == Client \cup {Main}
Thread  == Evictor \cup {BWorker}

Command == {"set", "get", "evict", "kill", "other"}
Request == [cmd : {"set"}, key : Key, val : Val]
             \cup [cmd : {"get"}, key : Key, val : {None}]
             \cup [cmd : Command \ {"set", "get"}, key : {None}, val : {None}]
Entry   == [val : Val, where : {"mem", "flushing"}]
LBA     == [cache_id : Nat \ {0}, off : Nat \ {0}]
Record  == [key : Key, val : Val]
Job     == [key : Key, val : Val]

ASSUME ThreadAssumption ==
  /\ IsFiniteSet(Client)
  /\ Main \notin Client /\ BWorker \notin Client /\ Main # BWorker
  /\ None \notin Thread

ASSUME DataAssumption ==
  /\ None \notin Key /\ None \notin Val
  /\ None \notin Entry /\ None \notin LBA
  /\ None \notin Job /\ None \notin Request

ASSUME ConfigAssumption ==
  /\ CacheMode \in {"MEM_LRU", "ONLY_FLASH"}
  /\ RecsPerFile \in Nat \ {0}
  /\ MaxRequests \in Nat

VARIABLES
  proc,         \* "running", "exited" or "undefined"
  pc,           \* pc[t]: where thread t is
  req,          \* req[c]: the parsed request of connection c
  reply,        \* reply[c]: the value in c's last answer, None if it has none
  ops,          \* requests received so far
  victim,       \* victim[t]: the entry t has taken off the LRU list
  pool,         \* pool[t]: entries t still has to take (pool_size - i)
  mutex,        \* the holder of bworker_mutex
  m_map,        \* memLRU: key -> hashEntry, as its kvObject
  m_list,       \* memLRU: keys, most recently used first
  memQueue,     \* entries on their way to the tiering thread
  sem,          \* the value of sem_bworker
  job,          \* the tiering thread's evict_key and valueObj
  flash,        \* "open", or "destroyed" once the FlashCache is deleted
  fcache_mutex, \* the holder of fcache_mutex
  files,        \* the cache files, in the order of their ids; the last is
                \* cache_file_
  block_index,  \* Metadata::block_index_: key -> LBA
  written       \* history: the values SET has given to each key

reqVars   == <<req, reply, ops>>
evictVars == <<victim, pool>>
memVars   == <<m_map, m_list>>
queueVars == <<memQueue, sem, job>>
flashVars == <<flash, fcache_mutex, files, block_index>>
dataVars  == <<reqVars, evictVars, mutex, memVars, queueVars, flashVars, written>>
vars      == <<proc, pc, dataVars>>

Init ==
  /\ proc = "running"
  /\ pc = [t \in Thread |-> IF t = Main THEN "spin"
                            ELSE IF t = BWorker THEN "wait" ELSE "recv"]
  /\ req = [c \in Client |-> None]
  /\ reply = [c \in Client |-> None]
  /\ ops = 0
  /\ victim = [t \in Evictor |-> None]
  /\ pool = [t \in Evictor |-> 0]
  /\ mutex = None
  /\ m_map = [k \in Key |-> None]
  /\ m_list = <<>>
  /\ memQueue = <<>>
  /\ sem = 0
  /\ job = None
  /\ flash = "open"
  /\ fcache_mutex = None
  /\ files = << <<>> >>
  /\ block_index = [k \in Key |-> None]
  /\ written = [k \in Key |-> {}]

-----------------------------------------------------------------------------
(* Control. *)

(* A thread is at a place of the code as long as the process runs. *)
At(t, label) == proc = "running" /\ pc[t] = label
In(t, labels) == proc = "running" /\ pc[t] \in labels
Goto(t, label) == pc' = [pc EXCEPT ![t] = label]

Undefined == proc' = "undefined" /\ UNCHANGED <<pc, dataVars>>
Exit      == proc' = "exited" /\ UNCHANGED <<pc, dataVars>>

(* bworker_mutex *)
Lock(t, label) ==
  /\ At(t, "lock") /\ mutex = None
  /\ mutex' = t
  /\ Goto(t, label)
  /\ UNCHANGED <<proc, reqVars, evictVars, memVars, queueVars, flashVars, written>>

-----------------------------------------------------------------------------
(* The flash tier, FlashCache in direct-write mode.                        *)

(* Fault: Read of the last record written instead of the one at the LBA. *)
FlashReadLast(k) == Last(Last(files)).val

(* Metadata::Lookup and WriteableCacheFile::Read *)
FlashRead(k) == files[block_index[k].cache_id][block_index[k].off].val

(* The files after WriteableCacheFile::Append, in a new file if the current
   one has reached its size. *)
WithFile ==
  IF Len(Last(files)) >= RecsPerFile THEN Append(files, <<>>) ELSE files

Appended(k, v) ==
  [WithFile EXCEPT ![Len(WithFile)] = Append(@, [key |-> k, val |-> v])]

(* Fault: the file id is taken before the roll-over to a new file. *)
NextLBAOldFile == [cache_id |-> Len(files), off |-> Len(Last(WithFile)) + 1]

NextLBA == [cache_id |-> Len(WithFile), off |-> Len(Last(WithFile)) + 1]

(* FlashCache::Insert: unordered_map::insert leaves an existing index entry
   as it is. *)
FlashInsert(k, v) ==
  /\ fcache_mutex = None
  /\ files' = Appended(k, v)
  /\ block_index' = IF block_index[k] = None
                    THEN [block_index EXCEPT ![k] = NextLBA]
                    ELSE block_index
  /\ UNCHANGED <<flash, fcache_mutex>>

(* Fault: Lookup reports a miss whatever the index holds. *)
FlashMissAny(t, k) ==
  /\ fcache_mutex = None
  /\ fcache_mutex' = t
  /\ UNCHANGED <<flash, files, block_index>>

(* FlashCache::Lookup of a key that is not indexed returns with
   fcache_mutex locked. *)
FlashMiss(t, k) ==
  /\ fcache_mutex = None /\ block_index[k] = None
  /\ fcache_mutex' = t
  /\ UNCHANGED <<flash, files, block_index>>

FlashHit(k) == fcache_mutex = None /\ block_index[k] # None

-----------------------------------------------------------------------------
(* Eviction: memUsedCheck and evictAllCommand (command.c).                 *)

(* memUsedCheck, up to the choice to evict.  used_memory counts every
   allocation of the process, so the test against 90% of maxmemory may go
   either way. *)
MemUsedCheck(c) ==
  /\ At(c, "memcheck")
  /\ \/ /\ LruSize(m_map, m_list) > 0
        /\ pool' = [pool EXCEPT ![c] = 1]
        /\ Goto(c, "pop")
     \/ Goto(c, "recheck") /\ UNCHANGED pool
  /\ UNCHANGED <<proc, reqVars, victim, mutex, memVars, queueVars, flashVars, written>>

(* evictAllCommand, up to its loop.  In ONLY_FLASH mode pool_size and he
   are uninitialised: the loop does not run, or uses a stray pointer. *)
EvictAll(t) ==
  /\ At(t, "evictall")
  /\ \/ /\ CacheMode = "MEM_LRU"
        /\ pool' = [pool EXCEPT ![t] = LruSize(m_map, m_list)]
        /\ Goto(t, IF LruSize(m_map, m_list) > 0 THEN "pop" ELSE "evictwait")
        /\ UNCHANGED proc
        /\ UNCHANGED <<reqVars, victim, mutex, memVars, queueVars, flashVars, written>>
     \/ /\ CacheMode = "ONLY_FLASH"
        /\ Goto(t, "evictwait")
        /\ UNCHANGED <<proc, dataVars>>
     \/ CacheMode = "ONLY_FLASH" /\ Undefined

(* LRUCacheEvict.  The list may have become empty since its size was read:
   a null entry, or the list's end node. *)
Pop(t) ==
  /\ At(t, "pop")
  /\ IF m_list = <<>>
     THEN Undefined
     ELSE /\ victim' = [victim EXCEPT ![t] = LruVictim(m_list)]
          /\ m_list' = LruDropVictim(m_list)
          /\ Goto(t, "mark")
          /\ UNCHANGED <<proc, reqVars, pool, mutex, m_map, queueVars, flashVars, written>>

(* Where an eviction loop goes once it is done with an entry. *)
InEvictAll(t) == t = Main \/ req[t].cmd = "evict"
Continue(t) ==
  /\ pool' = [pool EXCEPT ![t] = @ - 1]
  /\ Goto(t, IF pool[t] > 1 THEN "pop"
             ELSE IF InEvictAll(t) THEN "evictwait" ELSE "recheck")

(* The entry goes to the queue if its object is still KV_LOC_MEM. *)
Mark(t) ==
  /\ At(t, "mark")
  /\ victim' = [victim EXCEPT ![t] = None]
  /\ LET k == victim[t] IN
     IF m_map[k].where = "mem"
     THEN /\ m_map' = [m_map EXCEPT ![k].where = "flushing"]
          /\ memQueue' = Append(memQueue, k)
          /\ Goto(t, "post")
          /\ UNCHANGED pool
     ELSE /\ Continue(t)
          /\ UNCHANGED <<m_map, memQueue>>
  /\ UNCHANGED <<proc, reqVars, mutex, m_list, sem, job, flashVars, written>>

(* Fault: sem_post is left out. *)
PostNothing(t) ==
  /\ At(t, "post")
  /\ Continue(t)
  /\ UNCHANGED <<proc, reqVars, victim, mutex, memVars, queueVars, flashVars, written>>

(* sem_post(sem_bworker) *)
Post(t) ==
  /\ At(t, "post")
  /\ sem' = sem + 1
  /\ Continue(t)
  /\ UNCHANGED <<proc, reqVars, victim, mutex, memVars, memQueue, job, flashVars, written>>

(* memUsedCheck's second look at used_memory: below maxmemory, or not. *)
Recheck(c) ==
  /\ At(c, "recheck")
  /\ Goto(c, "lock") \/ Goto(c, "drain")
  /\ UNCHANGED <<proc, dataVars>>

(* Over maxmemory, memUsedCheck spins until the queue is empty. *)
Drain(c) ==
  /\ At(c, "drain") /\ memQueue = <<>>
  /\ Goto(c, "lock")
  /\ UNCHANGED <<proc, dataVars>>

(* The loop at the end of evictAllCommand, which has no exit in ONLY_FLASH
   mode. *)
EvictWait(t) ==
  /\ At(t, "evictwait")
  /\ CacheMode = "MEM_LRU" /\ LruSize(m_map, m_list) = 0
  /\ Goto(t, IF t = Main THEN "destroy" ELSE "send")
  /\ UNCHANGED <<proc, dataVars>>

-----------------------------------------------------------------------------
(* A connection's thread: bworkerRecvJobs and processCMD.                  *)

(* The place of processCMD that a command starts at. *)
FirstLabel(cmd) ==
  CASE cmd = "set" -> IF CacheMode = "ONLY_FLASH" THEN "lock" ELSE "memcheck"
    [] cmd = "get" -> "lock"
    [] cmd = "evict" -> "evictall"
    [] cmd = "kill" -> "kill"
    [] cmd = "other" -> "other"

(* tcpRecv and parsingMessage *)
Recv(c) ==
  /\ At(c, "recv") /\ ops < MaxRequests
  /\ \E r \in Request :
       /\ req' = [req EXCEPT ![c] = r]
       /\ Goto(c, FirstLabel(r.cmd))
  /\ reply' = [reply EXCEPT ![c] = None]
  /\ ops' = ops + 1
  /\ UNCHANGED <<proc, evictVars, mutex, memVars, queueVars, flashVars, written>>

(* tcpRecv returned 0: the thread ends. *)
Close(c) ==
  /\ At(c, "recv")
  /\ Goto(c, "closed")
  /\ UNCHANGED <<proc, dataVars>>

Unlock == mutex' = None

NoteWritten(c) ==
  written' = [written EXCEPT ![req[c].key] = @ \cup {req[c].val}]

(* cacheAdd of a key that memLRU does not map. *)
CacheInsert(k, v) ==
  /\ m_map' = LruInsert(m_map, k, [val |-> v, where |-> "mem"])
  /\ m_list' = LruPushFront(m_list, k)

(* setCommand in MEM_LRU mode, up to LRUCacheGet inside cacheAdd.  When the
   key is mapped the entry's val is assigned in a step of its own: other
   threads evict and dequeue entries without bworker_mutex. *)
SetLru(c) ==
  LET k == req[c].key IN
  /\ At(c, "exec") /\ req[c].cmd = "set" /\ CacheMode = "MEM_LRU"
  /\ \/ /\ m_map[k] = None
        /\ CacheInsert(k, req[c].val)
        /\ NoteWritten(c)
        /\ Unlock
        /\ Goto(c, "send")
        /\ UNCHANGED <<proc, reqVars, evictVars, queueVars, flashVars>>
     \/ /\ m_map[k] # None /\ LruListed(m_list, k)
        /\ m_list' = LruTouch(m_list, k)
        /\ Goto(c, "assign")
        /\ UNCHANGED <<proc, reqVars, evictVars, mutex, m_map, queueVars, flashVars, written>>
     \/ m_map[k] # None /\ ~LruListed(m_list, k) /\ Undefined

(* Fault: bworker_mutex is not released. *)
AssignNoUnlock(c) ==
  /\ At(c, "assign")
  /\ m_map' = [m_map EXCEPT ![req[c].key] = [val |-> req[c].val, where |-> "mem"]]
  /\ NoteWritten(c)
  /\ Goto(c, "send")
  /\ UNCHANGED <<proc, reqVars, evictVars, mutex, m_list, queueVars, flashVars>>

(* he->val = val *)
Assign(c) ==
  /\ At(c, "assign")
  /\ m_map' = [m_map EXCEPT ![req[c].key] = [val |-> req[c].val, where |-> "mem"]]
  /\ NoteWritten(c)
  /\ Unlock
  /\ Goto(c, "send")
  /\ UNCHANGED <<proc, reqVars, evictVars, m_list, queueVars, flashVars>>

(* setCommand in ONLY_FLASH mode *)
SetFlash(c) ==
  /\ At(c, "exec") /\ req[c].cmd = "set" /\ CacheMode = "ONLY_FLASH"
  /\ \/ /\ flash = "open"
        /\ FlashInsert(req[c].key, req[c].val)
        /\ NoteWritten(c)
        /\ Unlock
        /\ Goto(c, "send")
        /\ UNCHANGED <<proc, reqVars, evictVars, memVars, queueVars>>
     \/ flash = "destroyed" /\ Undefined

Reply(c, v) ==
  /\ reply' = [reply EXCEPT ![c] = v]
  /\ Unlock
  /\ Goto(c, "send")
  /\ UNCHANGED <<proc, req, ops, evictVars, queueVars, written>>

(* getCommand of a key that memLRU maps *)
GetMem(c) ==
  LET k == req[c].key IN
  /\ At(c, "exec") /\ req[c].cmd = "get" /\ m_map[k] # None
  /\ \/ /\ LruListed(m_list, k)
        /\ m_list' = LruTouch(m_list, k)
        /\ Reply(c, m_map[k].val)
        /\ UNCHANGED <<m_map, flashVars>>
     \/ ~LruListed(m_list, k) /\ Undefined

(* getCommand of any other key: a value found in flash moves to memory and
   leaves the index (in MEM_LRU mode), one not found is "+Empty!". *)
GetFlash(c) ==
  LET k == req[c].key IN
  /\ At(c, "exec") /\ req[c].cmd = "get" /\ m_map[k] = None
  /\ \/ /\ flash = "open" /\ FlashHit(k)
        /\ \/ /\ CacheMode = "MEM_LRU"
              /\ CacheInsert(k, FlashRead(k))
              /\ block_index' = [block_index EXCEPT ![k] = None]
           \/ /\ CacheMode = "ONLY_FLASH"
              /\ UNCHANGED <<memVars, block_index>>
        /\ Reply(c, FlashRead(k))
        /\ UNCHANGED <<flash, fcache_mutex, files>>
     \/ /\ flash = "open" /\ FlashMiss(c, k)
        /\ Reply(c, None)
        /\ UNCHANGED memVars
     \/ flash = "destroyed" /\ Undefined

(* flashCacheDestroy, by the kill command or by the SIGINT handler.  It
   takes no lock; the second time it deletes freed memory. *)
Destroy(t, label) ==
  \/ /\ flash = "open"
     /\ flash' = "destroyed"
     /\ Goto(t, label)
     /\ UNCHANGED <<proc, reqVars, evictVars, mutex, memVars, queueVars,
                    fcache_mutex, files, block_index, written>>
  \/ flash = "destroyed" /\ Undefined

Kill(c) == At(c, "kill") /\ Destroy(c, "send")

(* scan, and any word that is no command: "+OK" at most. *)
Other(c) ==
  /\ At(c, "other")
  /\ Goto(c, "send")
  /\ UNCHANGED <<proc, dataVars>>

(* argv[0] and argv[1] are freed, then tcpSend.  A request of a single word
   has no argv[1]. *)
Send(c) ==
  /\ At(c, "send")
  /\ \/ Goto(c, "recv") /\ UNCHANGED <<proc, dataVars>>
     \/ req[c].cmd \notin {"set", "get"} /\ Undefined

-----------------------------------------------------------------------------
(* The tiering thread: bworkerProcessBackgroundJobs, BPB_TIERING_FLASH.    *)

(* Fault: the tiering thread goes on without a post. *)
SemTryWait ==
  /\ At(BWorker, "wait")
  /\ sem' = sem - 1
  /\ Goto(BWorker, "dequeue")
  /\ UNCHANGED <<proc, reqVars, evictVars, mutex, memVars, memQueue, job, flashVars, written>>

SemWait ==
  /\ At(BWorker, "wait") /\ sem > 0
  /\ sem' = sem - 1
  /\ Goto(BWorker, "dequeue")
  /\ UNCHANGED <<proc, reqVars, evictVars, mutex, memVars, memQueue, job, flashVars, written>>

(* Fault: QueueDequeue returns front() and does not pop(). *)
DequeueNoPop ==
  /\ At(BWorker, "dequeue") /\ memQueue # <<>>
  /\ job' = [key |-> Head(memQueue), val |-> m_map[Head(memQueue)].val]
  /\ Goto(BWorker, "lock")
  /\ UNCHANGED <<proc, reqVars, evictVars, mutex, memVars, memQueue, sem, flashVars, written>>

(* QueueDequeue, and he->val read before bworker_mutex is taken. *)
Dequeue ==
  /\ At(BWorker, "dequeue")
  /\ IF memQueue = <<>>
     THEN Undefined
     ELSE /\ job' = [key |-> Head(memQueue), val |-> m_map[Head(memQueue)].val]
          /\ memQueue' = Tail(memQueue)
          /\ Goto(BWorker, "lock")
          /\ UNCHANGED <<proc, reqVars, evictVars, mutex, memVars, sem, flashVars, written>>

(* flashCacheInsert, LRUCacheErase, the entry freed, bworker_mutex released *)
Flush ==
  /\ At(BWorker, "flush")
  /\ \/ /\ flash = "open"
        /\ FlashInsert(job.key, job.val)
        /\ m_map' = LruErase(m_map, job.key)
        /\ job' = None
        /\ Unlock
        /\ Goto(BWorker, "wait")
        /\ UNCHANGED <<proc, reqVars, evictVars, m_list, memQueue, sem, written>>
     \/ flash = "destroyed" /\ Undefined

-----------------------------------------------------------------------------
(* The main thread: sigShutdownHandler on SIGINT.                          *)

Sigint ==
  /\ At(Main, "spin")
  /\ Goto(Main, "evictall")
  /\ UNCHANGED <<proc, dataVars>>

DestroyFlash == At(Main, "destroy") /\ Destroy(Main, "exit")

ExitMain == At(Main, "exit") /\ Exit

-----------------------------------------------------------------------------
(* Failures.                                                               *)

(* write() fails: WriteableCacheFile::Write calls exit(-1). *)
FlashWriteError ==
  /\ flash = "open" /\ fcache_mutex = None
  /\ \/ At(BWorker, "flush")
     \/ \E c \in Client :
          At(c, "exec") /\ req[c].cmd = "set" /\ CacheMode = "ONLY_FLASH"
  /\ Exit

(* Two threads inside std::list, std::map or std::queue at once, or inside
   the FlashCache while it is deleted.  memUsedCheck and evictAllCommand
   hold no lock, nor does the tiering thread when it dequeues. *)
UsesLru(t) ==
  /\ CacheMode = "MEM_LRU"
  /\ In(t, {"pop", "exec", "flush"})
UsesQueue(t) == In(t, {"mark", "dequeue"})
Destroys(t) == In(t, {"kill", "destroy"})
UsesFlash(t) ==
  \/ At(t, "flush") \/ Destroys(t)
  \/ /\ At(t, "exec")
     /\ \/ CacheMode = "ONLY_FLASH"
        \/ req[t].cmd = "get" /\ m_map[req[t].key] = None

DataRace ==
  /\ \E t, u \in Thread :
       /\ t # u
       /\ \/ UsesLru(t) /\ UsesLru(u)
          \/ UsesQueue(t) /\ UsesQueue(u)
          \/ Destroys(t) /\ UsesFlash(u)
  /\ Undefined

-----------------------------------------------------------------------------
EvictStep(t) == EvictAll(t) \/ Pop(t) \/ Mark(t) \/ Post(t) \/ EvictWait(t)

ClientStep(c) ==
  \/ MemUsedCheck(c) \/ Recheck(c) \/ Drain(c) \/ EvictStep(c)
  \/ Lock(c, "exec") \/ SetLru(c) \/ Assign(c) \/ SetFlash(c)
  \/ GetMem(c) \/ GetFlash(c) \/ Kill(c) \/ Other(c) \/ Send(c)

BWorkerStep == SemWait \/ Dequeue \/ Lock(BWorker, "flush") \/ Flush

MainStep == EvictStep(Main) \/ DestroyFlash \/ ExitMain

Next ==
  \/ \E c \in Client : ClientStep(c) \/ Recv(c) \/ Close(c)
  \/ BWorkerStep
  \/ MainStep
  \/ Sigint
  \/ FlashWriteError
  \/ DataRace

Spec == Init /\ [][Next]_vars

(* Every thread that can run eventually runs.  Connections need not send
   requests, SIGINT and write errors need not happen. *)
Fairness ==
  /\ \A c \in Client : WF_vars(ClientStep(c))
  /\ WF_vars(BWorkerStep)
  /\ WF_vars(MainStep)

FairSpec == Spec /\ Fairness

-----------------------------------------------------------------------------
(* Properties.                                                             *)

Label == {"recv", "closed", "memcheck", "pop", "mark", "post", "recheck",
          "drain", "lock", "exec", "assign", "send", "kill", "other", "evictall",
          "evictwait", "spin", "destroy", "exit", "wait", "dequeue", "flush"}

(* The type of every variable. *)
TypeOK ==
  /\ proc \in {"running", "exited", "undefined"}
  /\ pc \in [Thread -> Label]
  /\ req \in [Client -> Request \cup {None}]
  /\ reply \in [Client -> Val \cup {None}]
  /\ ops \in 0..MaxRequests
  /\ victim \in [Evictor -> Key \cup {None}]
  /\ pool \in [Evictor -> Nat]
  /\ mutex \in Thread \cup {None}
  /\ m_map \in [Key -> Entry \cup {None}]
  /\ m_list \in Seq(Key)
  /\ memQueue \in Seq(Key)
  /\ sem \in Nat
  /\ job \in Job \cup {None}
  /\ flash \in {"open", "destroyed"}
  /\ fcache_mutex \in Thread \cup {None}
  /\ files \in Seq(Seq(Record)) /\ files # <<>>
  /\ block_index \in [Key -> LBA \cup {None}]
  /\ written \in [Key -> SUBSET Val]

(* QueueEnqueue and sem_post are two steps of any evicting thread, sem_wait
   and QueueDequeue two of the tiering thread (command.c:24, bworker.c:61).
   Whatever their order, the queue is exactly as long as the semaphore, the
   posts still to come and the dequeue under way say: QueueDequeue never
   finds it empty. *)
Posting == {t \in Evictor : pc[t] = "post"}
SemMatchesQueue ==
  Len(memQueue) = sem + Cardinality(Posting)
                      + (IF pc[BWorker] = "dequeue" THEN 1 ELSE 0)

(* evict() leaves an entry in m_map and hands it from the evicting thread to
   the queue to the tiering thread, which frees it (command.c:17,
   bworker.c:74).  Each mapped entry is in exactly one of these hands, or on
   the LRU list, and no hand holds a freed one: none is lost, queued twice
   or freed twice. *)
Listed(k)   == \E i \in DOMAIN m_list : m_list[i] = k
Taken(k)    == \E t \in Evictor : victim[t] = k
Queued(k)   == \E i \in DOMAIN memQueue : memQueue[i] = k
Flushing(k) == job # None /\ job.key = k
OneHolder ==
  /\ \A k \in Key :
       /\ m_map[k] # None <=> Listed(k) \/ Taken(k) \/ Queued(k) \/ Flushing(k)
       /\ Listed(k) => ~Taken(k) /\ ~Queued(k) /\ ~Flushing(k)
       /\ Taken(k) => ~Queued(k) /\ ~Flushing(k)
       /\ Queued(k) => ~Flushing(k)
  /\ IsInjective(m_list) /\ IsInjective(memQueue)
  /\ \A t, u \in Evictor : victim[t] = victim[u] /\ victim[t] # None => t = u

(* Every index entry leads to a record of its own key: Append's position,
   the roll-over to a new file and getCommand's removal of promoted keys
   (flashcache.cc:293, command.c:129) never leave one that does not. *)
IndexSound ==
  \A k \in Key : block_index[k] # None =>
    /\ block_index[k].cache_id \in DOMAIN files
    /\ block_index[k].off \in DOMAIN files[block_index[k].cache_id]
    /\ files[block_index[k].cache_id][block_index[k].off].key = k

(* What a GET of k would find: memory first, then flash. *)
Visible(k) ==
  IF m_map[k] # None THEN m_map[k].val
  ELSE IF block_index[k] # None THEN FlashRead(k) ELSE None

(* A key's visible value changes only when a SET of that key takes effect,
   or in one of two flushes: of a key that is still indexed, whose index
   entry keeps naming the old record (flashcache.cc:423), and of an entry
   whose val was replaced after the tiering thread had read it
   (bworker.c:65).  Eviction, promotion, roll-over and requests for other
   keys never change it. *)
SetTakesEffect(c, k) ==
  /\ pc[c] \in {"exec", "assign"} /\ pc'[c] = "send"
  /\ req[c].cmd = "set" /\ req[c].key = k
  /\ Visible(k)' = req[c].val
StaleFlush(k) ==
  /\ pc[BWorker] = "flush" /\ pc'[BWorker] = "wait"
  /\ job.key = k
  /\ block_index[k] # None \/ job.val # m_map[k].val
OnlySetsChangeValues ==
  [][\A k \in Key : Visible(k)' # Visible(k) =>
       (\E c \in Client : SetTakesEffect(c, k)) \/ StaleFlush(k)]_vars

(* The server keeps the contract of KVContract: a request is pending until
   its effect, done until its answer is sent. *)
Status(c) ==
  CASE pc[c] = "recv" -> "idle"
    [] pc[c] = "closed" -> "gone"
    [] pc[c] = "send" -> "done"
    [] OTHER -> "pending"
Contract == INSTANCE KVContract WITH
  up <- (proc = "running"),
  status <- [c \in Client |-> Status(c)]
KeepsContract == Contract!CSpec

-----------------------------------------------------------------------------
(* Liveness, under FairSpec. *)

(* The two ways in which a thread may be left waiting for good: the process
   has stopped, or a Lookup of a missing key has kept fcache_mutex
   (flashcache.cc:547-550). *)
Stuck == proc # "running" \/ fcache_mutex # None

(* A SET or GET that has been received is answered: bworker_mutex is always
   released, and the spinning wait for the tiering thread over maxmemory
   (command.c:33) ends. *)
Answered ==
  \A c \in Client :
    pc[c] \notin {"recv", "closed"} /\ req[c].cmd \in {"set", "get"}
      ~> At(c, "recv") \/ Stuck

(* An entry handed to the tiering thread is eventually flushed and freed,
   although QueueEnqueue and sem_post are separate steps of several threads
   (command.c:23-24, bworker.c:62-76). *)
EvictedIsFlushed ==
  \A k \in Key : k \in ToSet(memQueue) ~> m_map[k] = None \/ Stuck

-----------------------------------------------------------------------------
(* What the program says of itself and does not do. *)

(* command.c:134 answers a key that is in neither tier "+Empty!": a GET is
   always answered.  The Lookup of such a key keeps fcache_mutex. *)
GetAnswered ==
  \A c \in Client :
    At(c, "lock") /\ req[c].cmd = "get"
      ~> At(c, "send") \/ proc # "running"

(* server.c:21 logs "Evict all complete" between evictAllCommand and the
   deletion of the FlashCache: by then nothing is left in memory. *)
EvictAllComplete ==
  At(Main, "destroy") => \A k \in Key : m_map[k] = None
=============================================================================

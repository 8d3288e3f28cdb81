----------------------------- MODULE FifoStore ------------------------------
(***************************************************************************)
(* The server in server-mode MEM-FIFO: the chained hash table of hash.c    *)
(* with its hash function, memList, and the counter used_memory that       *)
(* chmalloc and chfree keep (util.c) and memUsedCheck tests (command.c).   *)
(*                                                                         *)
(* A key is the sequence of its character codes, because the hash reads    *)
(* them; a value is its length.  Sizes are those of the 64-bit build.      *)
(* Requests have two words or more (a shorter one is Connections' subject).*)
(*                                                                         *)
(* cacheAdd pushes the null pointer it has just got from entryFind onto    *)
(* memList (command.c:68), so memList never holds anything else, and an    *)
(* eviction dereferences null.  Hence memQueue is never fed in this mode,  *)
(* the tiering thread sleeps in sem_wait, hashDelete is not reached and    *)
(* nothing is inserted in the FlashCache: of it only the index recovered   *)
(* at the start matters, here as the value that Lookup finds for a key.    *)
(*                                                                         *)
(* proc = "undefined" is the absorbing outcome of a null or stray pointer. *)
(***************************************************************************)
EXTENDS Integers, Sequences, FiniteSets, FiniteSetsExt, SequencesExt, Absent

CONSTANTS Key,         \* a set of sequences of character codes
          Val,         \* a set of lengths
          Client,      \* the connections
          Main,        \* the main thread
          Recovered,   \* the keys that recovery may have indexed
          BufLen,      \* KV_IOBUF_LEN
          MaxMemory,   \* server.maxmemory
          IntRange,    \* an int is in -IntRange .. IntRange - 1
          MaxRequests  \* bound: requests received in a run

ASSUME FifoAssumption ==
  /\ Key \subseteq Seq(1..127) /\ Val \subseteq Nat /\ Recovered \subseteq Key
  /\ IsFiniteSet(Key) /\ IsFiniteSet(Client) /\ Main \notin Client
  /\ None \notin Key /\ None \notin Val /\ None \notin Client
  /\ {BufLen, MaxRequests} \subseteq Nat
  /\ {MaxMemory, IntRange} \subseteq Nat \ {0}

VARIABLES
  proc,          \* "running", "exited" or "undefined"
  pc,            \* pc[t]: where thread t is
  req,           \* req[c]: the parsed request of connection c
  reply,         \* reply[c]: the value in c's answer to a GET, None: +Empty!
  ops,           \* requests received so far
  mutex,         \* the holder of bworker_mutex
  table,         \* memCache->ht[0].table: slot -> chain of hashEntry
  used,          \* memCache->ht[0].used
  memList,       \* memList, front first
  flash,         \* "open", or "destroyed" once the FlashCache is deleted
  fcache_mutex,  \* the holder of fcache_mutex
  flashed,       \* flashed[k]: the value Lookup finds for k, None: not indexed
  used_memory,   \* util.c's int
  mallocs,       \* history: blocks taken with chmalloc
  unfreed,       \* history: bytes no pointer of the server leads to any more
  last           \* history: the last value SET for a key, at first flashed

memVars   == <<table, used, memList>>
flashVars == <<flash, fcache_mutex, flashed>>
heapVars  == <<used_memory, mallocs, unfreed>>
dataVars  == <<req, reply, ops, mutex, memVars, flashVars, heapVars, last>>
vars      == <<proc, pc, dataVars>>

Thread  == Client \cup {Main}
Request == [cmd : {"set"}, key : Key, val : Val]
             \cup [cmd : {"get"}, key : Key, val : {None}]
             \cup [cmd : {"evict", "kill", "other"}, key : {None}, val : {None}]

At(t, label)   == proc = "running" /\ pc[t] = label
Goto(t, label) == pc' = [pc EXCEPT ![t] = label]
Undefined      == proc' = "undefined" /\ UNCHANGED <<pc, dataVars>>

-----------------------------------------------------------------------------
(* The hash table (hash.c).                                                *)

TableSize == 100

(* get_hash_key: the loop runs while i < str[i], and the string ends in 0.
   Only the low seven bits of the unsigned code matter to the mask. *)
HashKey(str) ==
  LET Char(i) == IF i < Len(str) THEN str[i + 1] ELSE 0
      Code[i \in Nat, code \in 0..127] ==
        IF i < Char(i) THEN Code[i + 1, (code * 33 + Char(i)) % 128] ELSE code
  IN  Code[0, 5381 % 128]

(* hash_key & sizemask, where sizemask is 100, the table's size: bits 64, 32
   and 4.  Slot 100 lies past the end of the table. *)
Masked(n)  == 64 * ((n \div 64) % 2) + 32 * ((n \div 32) % 2) + 4 * ((n \div 4) % 2)
Index(k)   == Masked(HashKey(k))
Slot       == {Index(k) : k \in Key} \cap 0..(TableSize - 1)
InTable(k) == Index(k) \in Slot

(* Fault: the first entry of the chain, whatever its key. *)
ChainMatchesAny(k) == DOMAIN table[Index(k)]

(* entryFind: the positions of the chain at which strcmp agrees; the first
   is returned. *)
ChainMatches(k) == {i \in DOMAIN table[Index(k)] : table[Index(k)][i].key = k}

Found(k)   == ChainMatches(k) # {}
EntryAt(k) == Min(ChainMatches(k))

(* Fault: entry->next is left null. *)
ChainedAlone(k, v) == << [key |-> k, val |-> v] >>

(* hashAdd of a key that is not in the table: the entry goes to the front of
   its chain. *)
Chained(k, v) == << [key |-> k, val |-> v] >> \o table[Index(k)]

-----------------------------------------------------------------------------
(* Memory accounting (util.c).                                             *)

SizeofInt    == 4
SizeofPtr    == 8
SizeofEntry  == 24
SizeofObject(len) == 24 + 4 + len + 1    \* createObject: kvObject, msg, buf
SizeofClient == 56 + 4 + BufLen          \* kvClient and its querybuf
SizeofDb     == 48 + 80 + SizeofPtr * TableSize \* kvDb, hash, table; not the
                                                \* strings of the configuration

(* Fault: an int that does not wrap. *)
ToIntWide(n) == n

ToInt(n) == ((n + IntRange) % (2 * IntRange)) - IntRange

(* chmalloc of some blocks adds the hidden size word of each. *)
Malloc(blocks, bytes) ==
  /\ used_memory' = ToInt(used_memory + bytes + blocks * SizeofInt)
  /\ mallocs' = mallocs + blocks

(* Fault: chfree subtracts the hidden size words too. *)
FreeWhole(blocks, bytes) ==
  used_memory' = ToInt(used_memory - bytes - blocks * SizeofInt)

(* chfree of some blocks subtracts their sizes only. *)
Free(blocks, bytes) == used_memory' = ToInt(used_memory - bytes)

(* get_used_memory converts to size_t: a negative count is a huge one. *)
Over90 == used_memory < 0 \/ 10 * used_memory > 9 * MaxMemory

CmdLen(cmd)  == CASE cmd \in {"set", "get"} -> 3 [] cmd = "kill" -> 4 [] OTHER -> 5
Argc(r)      == IF r.cmd = "set" THEN 3 ELSE 2
ArgvBytes(r) == SizeofPtr * Argc(r)
(* argv[0] and argv[1], and the value of a SET; the second word of evict,
   kill and the rest is any word of one character *)
KeyLen(r)    == IF r.key = None THEN 1 ELSE Len(r.key)
WordBytes(r) == SizeofObject(CmdLen(r.cmd)) + SizeofObject(KeyLen(r))
ValBytes(r)  == IF r.cmd = "set" THEN SizeofObject(r.val) ELSE 0

-----------------------------------------------------------------------------
Init ==
  /\ proc = "running"
  /\ pc = [t \in Thread |-> IF t = Main THEN "spin" ELSE "accept"]
  /\ req = [c \in Client |-> None]
  /\ reply = [c \in Client |-> None]
  /\ ops = 0
  /\ mutex = None
  /\ table = [s \in Slot |-> <<>>]
  /\ used = 0
  /\ memList = <<>>
  /\ flash = "open"
  /\ fcache_mutex = None
  /\ flashed \in [Key -> Val \cup {None}]
  /\ \A k \in Key \ Recovered : flashed[k] = None
  /\ last = flashed
  /\ used_memory = ToInt(SizeofDb + 2 * SizeofInt) \* chcalloc adds no word
  /\ mallocs = 2
  /\ unfreed = 0

(* The accept thread takes a kvClient and its querybuf. *)
Accept(c) ==
  /\ At(c, "accept")
  /\ Malloc(2, SizeofClient)
  /\ Goto(c, "recv")
  /\ UNCHANGED <<proc, req, reply, ops, mutex, memVars, flashVars, unfreed, last>>

FirstLabel(cmd) ==
  CASE cmd = "set" -> "memcheck"
    [] cmd = "get" -> "lock"
    [] cmd = "evict" -> "evictall"
    [] cmd = "kill" -> "kill"
    [] cmd = "other" -> "send"

(* tcpRecv and parsingMessage.  Nothing frees the argv array. *)
Recv(c) ==
  /\ At(c, "recv") /\ ops < MaxRequests
  /\ \E r \in Request :
       /\ req' = [req EXCEPT ![c] = r]
       /\ Malloc(1 + Argc(r), ArgvBytes(r) + WordBytes(r) + ValBytes(r))
       /\ unfreed' = unfreed + ArgvBytes(r)
       /\ Goto(c, FirstLabel(r.cmd))
  /\ reply' = [reply EXCEPT ![c] = None]
  /\ ops' = ops + 1
  /\ UNCHANGED <<proc, mutex, memVars, flashVars, last>>

(* tcpRecv returned 0: querybuf and kvClient are freed, the thread ends. *)
Close(c) ==
  /\ At(c, "recv")
  /\ Free(2, SizeofClient)
  /\ Goto(c, "closed")
  /\ UNCHANGED <<proc, req, reply, ops, mutex, memVars, flashVars, mallocs, unfreed, last>>

(* memUsedCheck reads used_memory, then the list's size, without a lock.
   Over 90% with a list that is not empty it dereferences the null pointer
   it pops; otherwise it returns, memQueue being empty. *)
MemUsedCheck(c) ==
  /\ At(c, "memcheck")
  /\ Goto(c, IF Over90 THEN "listcheck" ELSE "lock")
  /\ UNCHANGED <<proc, dataVars>>

ListCheck(c) ==
  /\ At(c, "listcheck")
  /\ \/ memList # <<>> /\ Last(memList) = None /\ Undefined
     \/ memList = <<>> /\ Goto(c, "lock") /\ UNCHANGED <<proc, dataVars>>

(* bworker_mutex *)
Lock(c) ==
  /\ At(c, "lock") /\ mutex = None
  /\ mutex' = c
  /\ Goto(c, "exec")
  /\ UNCHANGED <<proc, req, reply, ops, memVars, flashVars, heapVars, last>>

Finish(c) == mutex' = None /\ Goto(c, "send")

(* cacheAdd, up to hashAdd.  A value that is replaced is not freed. *)
CacheAdd(c, k, v, blocks, bytes) ==
  IF Found(k)
  THEN /\ table' = [table EXCEPT ![Index(k)][EntryAt(k)].val = v]
       /\ unfreed' = unfreed + SizeofObject(table[Index(k)][EntryAt(k)].val)
       /\ Finish(c)
       /\ UNCHANGED <<used, used_memory, mallocs>>
  ELSE /\ table' = [table EXCEPT ![Index(k)] = Chained(k, v)]
       /\ used' = used + 1
       /\ Malloc(blocks + 2, bytes + Len(k) + 1 + SizeofEntry)
       /\ Goto(c, "push")
       /\ UNCHANGED <<unfreed, mutex>>

(* setCommand *)
Set(c) ==
  LET k == req[c].key v == req[c].val IN
  /\ At(c, "exec") /\ req[c].cmd = "set" /\ InTable(k)
  /\ CacheAdd(c, k, v, 0, 0)
  /\ last' = [last EXCEPT ![k] = v]
  /\ UNCHANGED <<proc, req, reply, ops, memList, flashVars>>

(* getCommand of a key in the table *)
GetMem(c) ==
  LET k == req[c].key IN
  /\ At(c, "exec") /\ req[c].cmd = "get" /\ InTable(k) /\ Found(k)
  /\ reply' = [reply EXCEPT ![c] = table[Index(k)][EntryAt(k)].val]
  /\ Finish(c)
  /\ UNCHANGED <<proc, req, ops, memVars, flashVars, heapVars, last>>

(* getCommand of any other key: a value found in flash is copied into the
   table; a Lookup miss keeps fcache_mutex. *)
GetFlash(c) ==
  LET k == req[c].key IN
  /\ At(c, "exec") /\ req[c].cmd = "get" /\ InTable(k) /\ ~Found(k)
  /\ \/ /\ flash = "open" /\ fcache_mutex = None
        /\ reply' = [reply EXCEPT ![c] = flashed[k]]
        /\ \/ /\ flashed[k] # None
              /\ CacheAdd(c, k, flashed[k], 1, SizeofObject(flashed[k]))
              /\ UNCHANGED fcache_mutex
           \/ /\ flashed[k] = None
              /\ fcache_mutex' = c
              /\ Finish(c)
              /\ UNCHANGED <<table, used, heapVars>>
        /\ UNCHANGED <<proc, req, ops, memList, flash, flashed, last>>
     \/ flash = "destroyed" /\ Undefined

(* ListPushFront of the null entry; a GET then removes the promoted key from
   the index. *)
Push(c) ==
  /\ At(c, "push")
  /\ \/ /\ req[c].cmd = "get" => flash = "open"
        /\ memList' = <<None>> \o memList
        /\ flashed' = IF req[c].cmd = "get" THEN [flashed EXCEPT ![req[c].key] = None]
                      ELSE flashed
        /\ Finish(c)
        /\ UNCHANGED <<proc, req, reply, ops, table, used, flash, fcache_mutex, heapVars, last>>
     \/ req[c].cmd = "get" /\ flash = "destroyed" /\ Undefined

(* entryFind reads table[100]. *)
StraySlot(c) == At(c, "exec") /\ ~InTable(req[c].key) /\ Undefined

(* evictAllCommand: it pops a null pointer, or waits for an empty table. *)
EvictAll(t) ==
  /\ At(t, "evictall")
  /\ \/ memList # <<>> /\ Last(memList) = None /\ Undefined
     \/ memList = <<>> /\ Goto(t, "evictwait") /\ UNCHANGED <<proc, dataVars>>

EvictWait(t) ==
  /\ At(t, "evictwait") /\ used = 0
  /\ Goto(t, IF t = Main THEN "destroy" ELSE "send")
  /\ UNCHANGED <<proc, dataVars>>

(* flashCacheDestroy, by the kill command or the SIGINT handler *)
Destroy(t) ==
  /\ At(t, "kill") \/ At(t, "destroy")
  /\ \/ /\ flash = "open"
        /\ flash' = "destroyed"
        /\ Goto(t, IF t = Main THEN "exit" ELSE "send")
        /\ UNCHANGED <<proc, req, reply, ops, mutex, memVars, fcache_mutex, flashed, heapVars, last>>
     \/ flash = "destroyed" /\ Undefined

(* argv[0] and argv[1] are freed, then tcpSend. *)
Send(c) ==
  /\ At(c, "send")
  /\ Free(2, WordBytes(req[c]))
  /\ Goto(c, "recv")
  /\ UNCHANGED <<proc, req, reply, ops, mutex, memVars, flashVars, mallocs, unfreed, last>>

Sigint == At(Main, "spin") /\ Goto(Main, "evictall") /\ UNCHANGED <<proc, dataVars>>

Exit == At(Main, "exit") /\ proc' = "exited" /\ UNCHANGED <<pc, dataVars>>

ClientStep(c) ==
  \/ Accept(c) \/ Recv(c) \/ Close(c) \/ MemUsedCheck(c) \/ ListCheck(c) \/ Lock(c)
  \/ Set(c) \/ GetMem(c) \/ GetFlash(c) \/ Push(c) \/ StraySlot(c) \/ Send(c)

Next ==
  \/ \E c \in Client : ClientStep(c)
  \/ \E t \in Thread : EvictAll(t) \/ EvictWait(t) \/ Destroy(t)
  \/ Sigint
  \/ Exit

Spec == Init /\ [][Next]_vars

-----------------------------------------------------------------------------
(* Properties.                                                             *)

(* The type of every variable. *)
TypeOK ==
  /\ proc \in {"running", "exited", "undefined"}
  /\ pc \in [Thread -> {"accept", "recv", "closed", "memcheck", "listcheck",
                        "lock", "exec", "push", "evictall", "evictwait", "kill",
                        "send", "spin", "destroy", "exit"}]
  /\ req \in [Client -> Request \cup {None}]
  /\ reply \in [Client -> Val \cup {None}]
  /\ ops \in 0..MaxRequests
  /\ mutex \in Client \cup {None}
  /\ table \in [Slot -> Seq([key : Key, val : Val])]
  /\ used \in Nat
  /\ memList \in Seq({None})
  /\ flash \in {"open", "destroyed"}
  /\ fcache_mutex \in Client \cup {None}
  /\ flashed \in [Key -> Val \cup {None}]
  /\ used_memory \in -IntRange..(IntRange - 1)
  /\ {mallocs, unfreed} \subseteq Nat
  /\ last \in [Key -> Val \cup {None}]

(* However keys collide (hash.c:28, :45), each is in the chain of its own
   slot and there once; ht.used counts the entries, and memList has a node
   for each, but for the one that is being pushed: evictAllCommand, which
   tests the one and then waits for the other without a lock
   (command.c:145, :169), sees them agree up to that entry. *)
Entries == {e \in Slot \X (1..Cardinality(Key)) : e[2] \in DOMAIN table[e[1]]}
Pushing == {c \in Client : pc[c] = "push"}
TableCounted ==
  /\ \A e \in Entries : Index(table[e[1]][e[2]].key) = e[1]
  /\ \A e, f \in Entries : table[e[1]][e[2]].key = table[f[1]][f[2]].key => e = f
  /\ used = Cardinality(Entries)
  /\ used = Len(memList) + Cardinality(Pushing)

(* A GET answers the last value SET for its key, or the recovered one if it
   has not been SET, and +Empty! only if there is neither: across collisions
   (hash.c:45), replacements (command.c:70) and promotions from flash
   (command.c:123-131). *)
GetReturnsLastSet ==
  [][\A c \in Client :
       pc[c] = "exec" /\ pc'[c] # "exec" /\ req[c].cmd = "get"
         => reply'[c] = last[req[c].key]]_vars

(* The blocks the server can still reach: the database, the entries with
   their key copies and objects, the connections, and the words of requests
   under way, where the object of a SET passes from argv to the table. *)
EntryBytes(e)  == SizeofEntry + Len(e.key) + 1 + SizeofObject(e.val)
ClientBytes(c) ==
  CASE pc[c] \in {"accept", "closed"} -> 0
    [] pc[c] = "recv" -> SizeofClient
    [] pc[c] \in {"push", "send"} -> SizeofClient + WordBytes(req[c])
    [] OTHER -> SizeofClient + WordBytes(req[c]) + ValBytes(req[c])
Reachable ==
  SizeofDb + MapThenSumSet(LAMBDA e : EntryBytes(table[e[1]][e[2]]), Entries)
           + MapThenSumSet(ClientBytes, Client)

(* used_memory is the reachable bytes, plus those of argv arrays and
   replaced objects, which nothing frees, plus the size word of every block
   ever taken, which chfree does not give back (util.c:314, :330), modulo
   the range of int: each request leaves it higher than it found it. *)
UsedMemoryExplained ==
  (used_memory - (Reachable + unfreed + SizeofInt * mallocs)) % (2 * IntRange) = 0
=============================================================================

# A TLA+ model of embedded_keyvalue_server

The server keeps string values under string keys in two tiers: an LRU cache in
memory and append-only cache files on flash. Connections are served by one
thread each; a tiering thread moves entries that memory evicts to flash. This
directory holds TLA+ models of that machinery, TLC configurations that check
them on small instances, and TLAPS proofs for every instance.

Source references are to the repository root (`command.c:33` is line 33 of
`src/command.c`).

## 1. The system

| Part | State | Operations | Where |
|---|---|---|---|
| Connection thread, one per connection | `kvClient`: buffer, `argv` | receive, parse, process, free `argv`, send; ends at end of stream | `bworker.c:9-27`, `net.c:68-81` |
| Request processing | none of its own | `set`, `get`, `scan`, `kill`, `evict`, anything else | `command.c:37-140` |
| Memory eviction | `used_memory`, `memQueue`, `sem_bworker` | `memUsedCheck` before a SET, `evictAllCommand` | `command.c:2-36`, `:141-175` |
| Tiering thread | the entry in hand | wait, dequeue, flush, erase, free | `bworker.c:61-79` |
| `lru_cache` | `m_map`, `m_list` | insert, get, evict, erase | `my_lru.hpp` |
| `FlashCache`, `Metadata` | `block_index_`, `cache_file_index_`, `fcache_mutex`, current file | Insert, Lookup, DeleteMetaData, Evict, Open, Close | `flashcache.cc:416-587` |
| `WriteableCacheFile` | file offset, write buffers and their two indices, `eof_`, `is_writer_running` | Append, Read, Close, Delete, Repair, the writer thread | `flashcache.cc:100-408` |
| Shutdown | none | SIGINT: evict all, delete the FlashCache, exit | `server.c:5-25` |
| MEM_FIFO's hash table and list | `ht[0]`, `memList` | add, find, delete | `hash.c`, `util_c++.cc:76-109` |
| Accept thread | `num_client`, `server.clients` | accept, start a connection thread, refuse | `bworker.c:36-60`, `net.c:46-66` |
| Parser | `querybuf`, `argv` | `parsingMessage` | `util.c:247-305` |
| Memory accounting | `used_memory` | `chmalloc`, `chcalloc`, `chfree` | `util.c:307-341` |
| Configuration, logging | settings, constant once read | | `util.c:119-245` |

How the parts interact:

* Connection threads and the tiering thread exclude each other with
  `bworker_mutex` while they execute a SET or GET or a flush. Eviction
  (`memUsedCheck`, `evictAllCommand`) and `QueueDequeue` run **outside** it, on
  the same list, map and queue.
* An evicted entry leaves `m_list`, stays in `m_map`, goes to `memQueue`, and is
  announced with `sem_post(sem_bworker)`. The tiering thread writes it to
  flash, erases it from `m_map` and frees it.
* A GET that finds its key in flash only copies the value back to memory and
  removes the index entry. Flash records are never rewritten or removed.
* `fcache_mutex` protects the FlashCache, except in `DeleteMetaData` and in the
  destructor.
* In `FLASH-WRITEBUFFER` mode each file also has a writer thread, which shares
  five members with the appending thread without a lock. Before each write it
  calls `FlashCache::Evict`, which takes `fcache_mutex`, joins the writer of the
  least recently used file and deletes the file.
* Cache files outlive the process. `FlashCache::Open` rebuilds the index from
  them, in directory order, and starts a new file.
* A connection thread reads, parses and answers in one buffer, which is never
  cleared or terminated.

What is hard here: threads that touch shared containers without the lock;
values read before a lock and used after it; two-step hand-offs (enqueue and
post, set and increment, post and mark); waiting loops that rely on another
thread; early returns that keep a lock; a shutdown racing the tiering thread;
boundaries between buffers and between files; a crash inside a write and the
repair after it; reads that split or merge requests; counters that drift. `PROJECT.json` lists these
hazards one by one, each at its line.

What makes each part correct:

* the memory tier and the hand-over: no entry is lost, queued twice or freed
  twice; the semaphore counts the queue;
* the flash tier: an index entry leads to a record of its own key;
* the server as a whole: a GET returns a value that was SET under that key, and
  `+Empty!` only if there is none; values change only by SETs; requests are
  answered and evicted entries flushed;
* `lru_cache`: the list is in order of use, the least recently used key goes;
* a buffered file: bytes reach the file in order, reads return the record's
  bytes, closing ends and writes everything;
* the flash cache at its capacity: how far the files may exceed it is bounded,
  `size_` covers the files, no index entry leads to a deleted one, writers end;
* recovery: every complete record's key is found again, no file is created
  twice, files of earlier lives are never overwritten, GETs return written
  values;
* connections: what was sent is executed, in order, and answered once each;
  only malformed input leads to a stray pointer;
* MEM_FIFO mode: each key is in its chain once, GETs return the last value, and
  `used_memory` is what the blocks explain.

## 2. Modules

| Module | Models | Used by |
|---|---|---|
| `Absent` | the constant `None`: a null pointer, a missing key, a free lock | the modules below |
| `LruCache` | `lru_cache` as operators on a map and a list | `TieredStore`, `LruRecency` |
| `LruRecency` | one `lru_cache` with a history of uses | run `lru_recency` |
| `TieredStore` | the server: all threads, memory tier, queue, flash tier in direct-write mode; modes MEM_LRU and ONLY_FLASH | `MCTieredStore` |
| `MCTieredStore` | `TieredStore` with a symmetry set for TLC | five runs |
| `KVContract` | what the server promises its clients, as an abstract specification | `TieredStore` (refinement) |
| `WriteBuffer` | one `WriteableCacheFile` in `FLASH-WRITEBUFFER` mode | two runs |
| `FlashEvict` | several files with their writers and `FlashCache::Evict`; uses `LruCache` for the table of files | run `flash_evict` |
| `Recovery`, `MCRecovery` | the store over several lives of the process | run `recovery` |
| `Connections` | accept thread, connection threads, buffers and parser | run `connections` |
| `FifoStore`, `MCFifoStore` | the server in MEM_FIFO mode with `hash.c` and the memory accounting | run `fifo_store` |
| `DataLemmas` | lemmas about lists, sums over finite sets and induction | the proof modules |
| `TieredStoreProofs`, `LruRecencyProofs`, `WriteBufferProofs`, `FlashEvictProofs`, `RecoveryProofs`, `ConnectionsProofs`, `FifoStoreProofs` | the theorems about each model | TLAPS |

The composition: `TieredStore` is the whole server of one life with whole
requests, an empty directory and the flash tier without buffers. `Recovery`
adds the lives before it, `Connections` what happens before a request is
whole, `WriteBuffer` and `FlashEvict` what happens below an `Insert` in write-buffer
mode, `FifoStore` the third cache mode.

### TieredStore

Every thread has a place in the code, `pc[t]`; an action is the code from one
place to the next. A stretch of code is one action when it touches shared state
once, or when it runs under the lock that everybody else uses for that state.

| Place | Code | Action |
|---|---|---|
| `recv` | `tcpRecv`, `parsingMessage` (`bworker.c:14-21`) | `Recv`, `Close` |
| `memcheck` | `memUsedCheck` up to its choice (`command.c:3-11`) | `MemUsedCheck` |
| `pop` | `LRUCacheEvict` (`:18`, `:157`) | `Pop` |
| `mark` | test and change of `where`, `QueueEnqueue` (`:19-23`) | `Mark` |
| `post` | `sem_post` (`:24`, `:163`) | `Post` |
| `recheck`, `drain` | the second look at `used_memory`, the loop on the queue (`:28-35`) | `Recheck`, `Drain` |
| `evictall`, `evictwait` | size of the list; the last loop (`:143-150`, `:166-173`) | `EvictAll`, `EvictWait` |
| `lock` | `pthread_mutex_lock(&bworker_mutex)` | `Lock` |
| `exec` | `setCommand`, `getCommand` under the lock | `SetLru`, `SetFlash`, `GetMem`, `GetFlash` |
| `assign` | `he->val = val` (`:81`) | `Assign` |
| `kill`, `other`, `send` | the other commands; `chfree` of `argv`, `tcpSend` | `Kill`, `Other`, `Send` |
| `wait`, `dequeue`, `lock`, `flush` | the tiering thread (`bworker.c:62-78`) | `SemWait`, `Dequeue`, `Lock`, `Flush` |
| `spin`, ..., `destroy`, `exit` | the main thread (`server.c`) | `Sigint`, the eviction actions, `DestroyFlash`, `ExitMain` |

`Assign` is separate from `SetLru` because eviction and `QueueDequeue` do not
take `bworker_mutex`: between `LRUCacheGet` and the assignment the entry may be
evicted, queued and picked up with its old value.

Faithfulness and abstraction:

* *Undefined behaviour.* A dangling iterator, a null or freed pointer, two
  threads inside one container, or the destruction of the FlashCache under a
  user lead to `proc = "undefined"`, which absorbs: the process may do anything
  from there, so nothing is claimed. These outcomes are alternatives beside the
  normal ones (a race need not do harm), so the properties speak about all
  executions in which none has struck yet.
* *Memory pressure.* `used_memory` counts all allocations of the process (and
  drifts), so each of its two tests may go either way.
* *Records.* A record is one unit; a file takes `RecsPerFile` of them, ids and
  offsets start at 1. `WithFile` is the `Append` that returns false on a full
  file followed by `NewCacheFile`.
* *Requests* arrive whole and well formed (`Connections` has the others). A value in an answer is the bytes
  that the answer's length field delimits.
* *Start.* The flash directory is empty (`Recovery` has the others), the
  semaphore 0. (The named semaphore
  of the `__APPLE__` branch, the only one that compiles as written, keeps its
  count across processes.) SIGINT arrives at most once, on the main thread.
* *Sizes read without a lock.* `QueueSize` and `LRUCacheSize` are read
  atomically. A torn read in `memUsedCheck`'s last loop could only end the loop
  early, which `Recheck` allows anyway.
* *Read failures* are `Recovery`'s, write failures exit the process
  (`FlashWriteError`) as the code does.

### KVContract

Variables: whether the server is up, the values ever written per key, and each
connection's request, status and answer. `Set` adds a value, `Get` returns one
of the key's written values, or none if there is none. It deliberately does not
say *the last* value: `Metadata::Insert` never replaces an index entry
(`flashcache.cc:423`) and the tiering thread reads a value before it locks
(`bworker.c:65`), so the server cannot promise that. How far it is from that
promise is what `OnlySetsChangeValues` says. The refinement maps `proc` to
`up` and a connection's place to its status.

### WriteBuffer

One file, two threads: the user (Append, Read, Close, which FlashCache calls one
at a time) and the writer (`writerJobs`). Bytes are their positions in the
stream of appended records. Every access to `bufs_`, `buf_woff_`, `buf_doff_`,
`eof_`, `is_writer_running` and `sem_writer` is a step. A failed assertion is
`proc = "aborted"` (the Makefile defines no `NDEBUG`). The capacity of the flash
cache is not reached. At `-O0` the compiler keeps the order and the repetition
of these accesses; the model assumes it.

### FlashEvict

The user (`InsertAppend`, `MarkRunning`, `InsertIndex`, `Lookup`,
`DeleteMetaData`) is whoever holds `bworker_mutex`; the writers are one per
file:

| Place | Code | Action |
|---|---|---|
| `wait` | `sem_wait` (`flashcache.cc:197`) | `SemWait` |
| `loop` | the loop's test and the next buffer (`:201-204`) | `LoopTest` |
| `evict` | the test of Evict's loop, without the lock (`:569`) | `EvictTest` |
| `lock` | `fcache_mutex`, `Metadata::Evict`, Close up to the join (`:572-575`) | `EvictLock` |
| `join` | the join returns; unlink, index, unlock (`:575-582`) | `EvictFinish` |
| `write` | `write()` of the buffer (`:206-220`) | `WriteOut` |
| `stop`, `check` | `is_writer_running = false`; the test of `eof_` (`:222`, `:247`) | `WriteStops`, `JobEnds` |
| `done`, `gone` | the writer has ended; the file is deleted | |

A record has any of `RecordSizes` bytes and a buffer `BufSize`, so a record may
share a buffer, fill it exactly, or span several; of a file's bytes the model
keeps how many there are, the bytes themselves and the steps inside `Append` are
`WriteBuffer`'s. `Evict` is called for each buffer with what is in it at that
moment. `Insert` is up to three steps, because the writer that `Append` wakes
may run before `is_writer_running` is set, and may test `size_` before `Insert`
adds to it. The test converts both sides to `float`; `Float` rounds to the
nearest multiple of `FloatUnit`, the distance of two floats from
`float(cache_size)` on (128 bytes for a cache of 1 to 2 GiB), ties to even. Where
floats are closer together or farther apart the result differs, the comparison
with the capacity does not.

`unlink()` and `write()` may fail. `size_`, which nothing initialises, starts at
any of `StartSizes`. A thread that joins itself ends the process with an
exception (`"aborted"`); a freed current file, an index past the buffers and the
race of `DeleteMetaData` with Evict are `"undefined"`.

*The capacity.* `cache_size` itself is not kept by the code: all the buffers of
a record that spans several can pass Evict's test before `Insert` has counted
the record. What is true, and what `CapacityKept` says, is

    bytes on disk <= cache_size + (MaxRecord - 1) + 2 * (FloatUnit div 2)

The first excess is the record that is not counted yet, of which the test always
counts at least a byte; the second is the rounding of both sides. TLC finds
the files over `cache_size`, and with buffers of one byte it finds the bound
attained, so that no smaller one holds in general.

The deadlock of this code is in the model: a writer in Evict holds
`fcache_mutex` and joins a writer that waits for it. `WriterEnds` excuses this
and the lock kept by a Lookup miss, and says that they are the only ways for a
writer not to end. `EraseKeys` also erases entries that lead to other, live
files, as the code does; `IndexedFileListed` is about the entries that must not
be left.

### Recovery

A life is sequential (SET, GET, and the flush of any entry at any time, which
over-approximates eviction) and in direct-write mode. It ends at any moment:
`Crash`, or `CrashInWrite`, which leaves a whole record that nobody indexed or
the beginning of one (`tail`), cut in the header, the key or the value. A start
is `StartOpen`, one `RepairFile` for each file, in any order, and `OpenNew`; it may
be cut short like a life. `NextId` is the running choice of
`flashcache.cc:479-480`. `Created` is `Create`: for a file that exists it neither
opens nor truncates, and the file is used with an uninitialised `fd_`
(`flashcache.cc:108-110`), which is `life = "undefined"`. `CreatesNewFiles` says
that this never happens, at a start or at a roll-over. `Repair` indexes a torn
record under its key, if the key is there, else under whatever the
uninitialised allocation held (any key, or one nobody uses). `Read` of a torn
record fails its check and `Lookup` hands out an empty value: `IndexLeadsHome` and
`ServesWritten` allow both, so a torn record that is met first hides the
complete ones of its key. Files change only by appends: damage in the middle of
a file is not modelled.

### Connections

A request is a header cell and one cell per word; a read takes any number of
cells, from part of a request to several requests. Splits inside a word, or
words of another length over old ones, are not told apart from splits between
words; a cell that a reply has overwritten is `Junk`. `Parsed` follows
`parsingMessage`: no header, no change to `argv`; a cell that is no word ends the
parse with what was found so far. `Exec` uses `argv[0]`, `argv[1]` and, for a SET,
`argv[2]`, and is undefined if they are not there; requests of no words, of one
word and a SET of two words are among those that peers send. A command may also
never end (`"stuck"`): the GET after a miss, a request behind it on
`bworker_mutex`, a drain or an evict that waits for ever. A header that announces
more words than the buffer has is not sent. A new connection's buffer may
be one that an ended connection has freed, with its content. `whole` records
that so far every read has taken exactly one request, which is what TCP gives a
client that waits for each answer and sends small requests. A reset is reported
by `read()` once, then the end of the stream. An interrupted `accept()` makes a
connection of descriptor 0 (`Stdin`), from which nothing is read here.

### FifoStore

The hash function is computed as the code does, on the characters of the key
(the low seven bits are all that the mask 100 uses); a chain is a sequence of
entries; `memList` is the sequence of pointers pushed, all of them null, because
`cacheAdd` pushes the result of the failed `entryFind` (`command.c:68`). The first
eviction dereferences one. So nothing is ever queued, the tiering thread never
wakes and `hashDelete` is never called; they are left out of this module. The
flash tier is the recovered index, from which GETs promote. Sizes are the 64-bit
build's; the allocations of one request are counted in one step. The counter
wraps at `IntRange`, which the run makes small so that it happens.

## 3. Runs

All passing runs switch deadlock checking off, because the system may stop: the
requests of a run are bounded, connections close, the process exits or is in
undefined behaviour, and a Lookup miss stops it for good (a finding). The
liveness properties say where it must not stop.

| Run | Instance | Checks | Distinct states |
|---|---|---|---|
| `tiered_safety` | MEM_LRU; 2 keys, 2 values, 2 connections, 1 record per file, 3 requests; symmetry | `TypeOK`, `SemMatchesQueue`, `OneHolder`, `IndexSound`, `OnlySetsChangeValues`, `KeepsContract` | 418,381 |
| `only_flash_safety` | ONLY_FLASH; 2 records per file, 5 requests; symmetry | `OnlySetsChangeValues`, `KeepsContract` | 295,530 |
| `tiered_liveness` | MEM_LRU; 2 keys, 1 value, 2 connections, 3 requests; no symmetry | `Answered`, `EvictedIsFlushed` | 665,639 |
| `lru_recency` | 3 keys, 6 uses | `RecencyOrder`, `DanglesUntilErased`, `EvictsLeastRecent` | 2,485 |
| `write_buffer` | buffers of 2, file of 6, records of 1 and 3 | `TypeOK`, `DiskInOrder`, `SerializeFits`, `ReadsOwnBytes`, `BufferedUntilEof`, `CloseReturns` | 63,248 |
| `flash_evict` | 1 key, 3 files of 5 bytes, buffers of 3, records of 4, capacity 7, floats 2 apart, `size_` starting at 0 or 8 | `TypeOK`, `NeverUndercounts`, `CapacityKept`, `IndexedFileListed`, `WriterEnds` | 90,041 |
| `recovery` | 2 keys, 2 values, 2 records per file, 3 files, 3 SETs; symmetry | `TypeOK`, `CreatesNewFiles`, `IndexLeadsHome`, `NothingForgotten`, `ServesWritten`, `FilesOnlyGrow` | 4,921,754 |
| `connections` | 2 peers, 2 slots, 2 requests of 0 to 3 words | `TypeOK`, `WholeRequestsServed`, `BrokenOnlyByInput`, `WholeRequestsAnswered` | 488,759 |
| `fifo_store` | keys `a`, `b` (one slot), `d`, `G` (slot 100), 2 values, 2 connections, 3 requests; symmetry | `TypeOK`, `TableCounted`, `UsedMemoryExplained`, `GetReturnsLastSet` | 921,515 |

Why the bounds are enough: three requests of two connections let an entry be
set, evicted by another request, and be set, read or evicted again while it is
in the queue or in the tiering thread's hands, with a SIGINT anywhere; one
record per file makes every append roll over. Four requests pass as well
(4.8 million states); they are not in the run for its time. With two keys every
interference between a key and another one occurs. In `WriteBuffer`, records
of 3 over buffers of 2 start at every offset of a buffer, end in partly filled
ones, span two or three of them, fill one exactly, and the file of 6 holds
several writer rounds.

In `flash_evict` a record of 4 fills a buffer of 3 and part of the next, which is
dispatched while the file takes another; the second record spans two more and
fills the file. Its buffers fit the capacity of 7 before the record is counted,
which puts the files over it, and the odd capacity is rounded. Three files let
two writers evict at once, join each other, and evict again after a failed
`unlink`; one key has records in several files and its entry in one of them.
Four files pass as well (932,425 states), and so do two keys in two files with
records of 1, 2 and 3 in buffers of 2, without the liveness property (2.2
million). In `recovery`
three files give up to three lives, or two with a roll-over, and three SETs let
a key have two values in files that are read in either order beside a torn one;
the starts in between end after any of their files.
In `connections` an interrupted accept takes a slot besides the peers, so slots run out; two
requests on one connection let a long one be followed by a short one and
the reverse, split and merged at every cell. In `fifo_store` three requests set, replace
and get colliding keys while the counter passes 90% of `maxmemory` and wraps.

Three runs expect a violation. Each states what the program says of itself at
some line, and TLC shows an execution of the code that contradicts it:

| Run | The program says | TLC shows |
|---|---|---|
| `get_answered` | a key in neither tier is answered `+Empty!` (`command.c:134`) | after one such answer `fcache_mutex` stays locked (`flashcache.cc:547-550`); the next GET waits for ever |
| `evict_all_complete` | "Evict all complete" (`server.c:21`) | entries are still queued when the FlashCache is deleted |
| `eof_writes_all` | the fake offset lets the writer work to the end (`flashcache.cc:286`) | the writer, past the test of its loop when the file fills up, sees `eof_` (`:247`) before that increment, or gets none because it is still marked running (`:283`); the last buffers are dropped |

The models also contain these, without a run that states them:

* a GET or SET of a key that is evicted and not yet flushed follows a dangling
  iterator (`my_lru.hpp:65`; the undefined outcome of `SetLru` and `GetMem`);
* `Close` sets `eof_` before it increments `buf_woff_`, so the writer may drop the
  last buffer (`flashcache.cc:146-148`; `SetEof`, `Bump`), and a read of a full
  file's last buffer fails an assertion (`flashcache.cc:347`; `ReadBuffer`);
* `evictAllCommand`'s last loop waits for the list to become empty and does not
  evict what arrives after its snapshot, so SIGINT may not end the process
  (`EvictWait`); in ONLY_FLASH mode that loop has no exit;
* `is_writer_running`, set after `sem_post`, may stay true with the writer asleep
  (`Post`, `MarkRunning`); `Close` of a file that was never appended to lets the
  writer index an empty vector (`Fetch`);
* Evict may delete the current file, join its own thread, or join a writer that
  waits for it (`FlashEvict`);
* after a restart a key may be served with its oldest value, because the first
  record found wins (`flashcache.cc:423`; `ServesWritten` does not say "last");
* a lost update: a SET between the tiering thread's read of `he->val` and its
  flush is discarded (`bworker.c:65`), and a flush or, in ONLY_FLASH mode, a SET
  under a key that is indexed leaves the older record in use
  (`flashcache.cc:423`). `OnlySetsChangeValues` names both (`StaleFlush`) and says
  that there is no third way;
* a torn record hides the complete ones of its key after a restart, and is
  promoted as an empty value (`flashcache.cc:183`, `:560`);
* the flash files exceed `cache_size` (`FlashEvict`, above);
* `num_client` is never decremented, so that after `MAX_NUM_CLIENT` connections,
  closed or not, every client is refused (`bworker.c:39`; `Full`);
* a request of fewer words than its command uses, or a read that splits a
  request, leads to a stray pointer (`Exec` of `Connections`); an answer to a closed connection raises SIGPIPE
  (`Send`);
* MEM_FIFO mode cannot evict, and a key in slot 100 is read past the table
  (`ListCheck`, `StraySlot`).

### Fairness

`FairSpec` of `TieredStore` asks for weak fairness of each thread: a thread that
can take a step eventually does, which is what a preemptive scheduler gives
(the waiting loops spin and re-read at `-O0`). It asks nothing of connections
(they need not send), of SIGINT or of write errors. A mutex is not fair, but the
requests of a run are bounded, so a thread waiting for `bworker_mutex` finds it
free for good in the end; weak fairness is enough and nothing stronger is
assumed. `Answered` covers SET and GET only: `evict` really may wait for ever.
Both properties allow `Stuck`: the process has stopped, or a Lookup miss has
kept `fcache_mutex`, the defect that `get_answered` shows. `FairSpec` of
`WriteBuffer` is weak fairness of the user's and of the writer's steps; nobody
has to call Append, Read or Close. `FlashEvict` asks the same of the user in the
middle of a call and of each writer: `fcache_mutex` is contended, but the files
of a run are bounded, so weak fairness is enough again, and `WriterEnds` names the
two ways in which the mutex is never released. `Connections` asks it of the
accept thread and of each connection thread, of no peer; `WholeRequestsAnswered`
allows the end of the process, reads that split a request, and a connection whose
command never ends: which commands those are is `TieredStore`'s question.
Bounded requests also mean that starvation by clients that never stop (the
loop at `command.c:33`) is not excluded by `Answered`.

### Mutants

For every property of a passing run `PROJECT.json` names a fault: an operator
marked `Fault:` in the modules, which changes one definition the way a
plausible bug would (a missing post, an unlock left out, an id taken before the
roll-over). TLC finds the property violated in the faulty model.

## 4. Proofs

TLAPS proves, for every value of the constants that the assumptions below allow:

| Module | Theorem | States |
|---|---|---|
| `TieredStoreProofs` | `TypeCorrect` | `Spec => []TypeOK` |
| | `SemaphoreCorrect` | `Spec => []SemMatchesQueue` |
| | `OwnershipCorrect` | `Spec => []OneHolder` |
| | `IndexCorrect` | `Spec => []IndexSound` |
| | `ContractKept` | `Spec => KeepsContract` (refinement of `KVContract`) |
| | `ValuesOnlySet` | `Spec => OnlySetsChangeValues` (action property) |
| `RecoveryProofs` | `TypeCorrect` | `Spec => []TypeOK` |
| | `IndexCorrect` | `Spec => []IndexLeadsHome` |
| | `NoneForgotten` | `Spec => []NothingForgotten` |
| | `OnlyWrittenServed` | `Spec => []ServesWritten` |
| | `NewFilesCreated` | `Spec => []CreatesNewFiles` |
| | `FilesGrow` | `Spec => FilesOnlyGrow` (action property) |
| `FlashEvictProofs` | `TypeCorrect` | `Spec => []TypeOK` |
| | `IndexListed` | `Spec => []IndexedFileListed` |
| | `SizeCounts` | `Spec => []NeverUndercounts` |
| | `CapacityHolds` | `Spec => []CapacityKept` |
| `ConnectionsProofs` | `TypeCorrect` | `Spec => []TypeOK` |
| | `RequestsServed` | `Spec => []WholeRequestsServed` |
| | `BrokenByInput` | `Spec => []BrokenOnlyByInput` |
| `FifoStoreProofs` | `TypeCorrect` | `Spec => []TypeOK` |
| | `TableRight` | `Spec => []TableCounted` |
| | `MemoryExplained` | `Spec => []UsedMemoryExplained` |
| | `GetCurrent` | `Spec => GetReturnsLastSet` (action property) |
| `WriteBufferProofs` | `TypeCorrect` | `Spec => []TypeOK` |
| | `DiskOrdered` | `Spec => []DiskInOrder` |
| | `RoomMade` | `Spec => []SerializeFits` |
| | `OwnBytesRead` | `Spec => []ReadsOwnBytes` |
| | `RecordsBuffered` | `Spec => []BufferedUntilEof` |
| `LruRecencyProofs` | `AlwaysInOrder` | `Spec => []RecencyOrder` |
| | `DanglingIsEvicted` | `Spec => []DanglesUntilErased` |
| | `LeastRecentLeaves` | `Spec => EvictsLeastRecent` (action property) |

So every invariant and every action property that a passing run checks holds
for any number of keys, values, connections, files, crashes and requests, and
not only in the run's instance.

### Assumptions

All of them are named ASSUMEs of the models, which TLC evaluates in the runs:

* `None`, `Empty`, `Junk`, `Stdin` and the threads' names are none of the data
  they are told apart from, and sizes and counts are natural numbers, not 0 where
  the program needs one (`DataAssumption`, `SizeAssumption`, `BoundAssumption`,
  `CapacityAssumption`, `ValueAssumption`, `UsesAssumption`, `ConfigAssumption`);
* `TieredStore`'s `ThreadAssumption`: finitely many connections (`MAX_NUM_CLIENT`
  of them, `server.h`), and threads that are distinct;
* `Connections`' `ConnectionAssumption`: `set`, `get` and `evict` are three
  different words;
* `FifoStore`'s `FifoAssumption`: finitely many keys. A key is a word of a request
  and a request fits into `querybuf`, so that there are finitely many. The
  cardinality of the table's entries needs it.

Nothing is assumed of the hash function, of the order of files in a directory,
of the initial value of `size_`, of the interleaving, or of what a read returns.

### The argument

Each proof module defines an inductive invariant `IInv`, has one lemma per
conjunct that a step keeps it, with one case per action inside, and derives the
theorems from `Init => IInv` and `IInv /\ [Next]_vars => IInv'`. Every `IInv` was
checked with TLC first. What they add to the properties, and why:

`TieredStore`:

* `PlacesOK`, `CommandsOK`, `HandsOK`: where each thread can be, what it is
  executing there, and what it holds. A connection in the eviction loop has a
  `set` or `evict` request, `victim[t]` is set exactly at `mark`, `job` exactly
  between dequeue and flush;
* `MutexOK`: `bworker_mutex` is held exactly at `exec`, `assign` and `flush`.
  It is why no two of these are in progress at once, so that a flush cannot
  erase the entry that a SET is about to assign (`AssignMapped`);
* `UnqueuedInMem`: an entry on the list or just taken is `KV_LOC_MEM`, so the
  test at `command.c:20` never drops one. Without it `OneHolder` fails at
  `Mark`;
* `ValuesWritten`: every value in memory, in the tiering thread's hands or in a
  file was written by a SET of its key; `NothingLost`: a key that was written
  is in memory or in the index. These two, with `IndexSound`, make every GET a
  `Get` of the contract.

`ContractKept` shows that each step of the server is the contract's step of
the same connection (`SetSeen`, `GetSeen`, ...), a stop, or no change of what
the contract sees (`Unseen`). `ValuesOnlySet` compares what a GET would find
before and after each step (`VisibleStep`); the case that matters is an `Insert`
under a key that the index already has, which changes nothing (`InsertReads`).

`Recovery`: `FilesInOrder` (a file that does not exist yet is empty, every file
that the start has read is below `next`, the current one has no torn record), so
that a start and a roll-over never meet what an earlier life has written;
`RepairedIndexed` (the files read so far are indexed, which the end of the start
turns into `NothingForgotten`); `ValuesWritten`.

`FlashEvict`: who holds `fcache_mutex` (`MutexHeld`), which files are open and
listed (`CreatedInOrder`, `VictimOpen`, `ListIsOpen`), where the index leads
(`IndexHome`), and where buffers lie (`BuffersFit`: what is on disk lies before
`buf_doff_`, and a buffer that a writer has fetched is there, and full unless the
file is). With these, `Counted` (`NeverUndercounts` in any state of the process)
is inductive. `CapacityKept` is not: a writer that has passed Evict's test has
not written yet. `CommittedFits` counts its buffer as if it had. Then a buffer
that passes the test adds to a total that `size_` and the record not yet counted
cover; the buffer is the one thing counted on both sides, it has at least a
byte, and `FloatNear` bounds the rounding.

`Connections`: slots are taken in order, peers that were not accepted are silent
(`SlotsInOrder`, `QuietPeers`), and `WholeServed`: the rest of the stream spells
the requests that were not taken yet, the buffer in `parse` begins with the
request that was read, and `argv` in `exec` is that request, whatever is left
behind it in the buffer. The lemma about `Parsed` is that it stops at the
request's length.

`FifoStore`: each entry is in its slot's chain, once (`InItsChain`,
`OncePerChain`), the counters count the set of entries (`Counted`), and the table
or, for a key not in it, flash has the last value (`Latest`). The accounting is
exact per step: a SET that replaces, for instance, moves the old object's bytes
from the reachable ones to `unfreed`.

`WriteBuffer`: with `Stream` for the number of bytes in the buffers so far,
buffer `i` holds exactly the bytes of `Stream` between `i` and `i + 1` times the
buffer size (`Layout`). Until `eof_`, `buf_woff_` is the buffer where the stream
ends and the buffers take the record being appended (`Room`): that
`ExpandBuffer`'s sum of free space is what the buffers have left is a telescoping
sum (`FreeSum`), and its loop a rounded-up division (`NewRoom`). The file ends
where buffer `buf_doff_` begins, or where the stream ends if that is before, which
is the case of the fake offsets (`Written`). ReadBuffer has the record's first
bytes and stands where they end, at the start of a buffer (`ReadSoFar`).

`LruRecency`: no key was used in the future (`UsedBefore`); the order of the list
then gives that it has no key twice, so that an evicted key is off the list, and
`DanglesUntilErased` that the erased one was.

Induction over data is done with sets: the set of the numbers, or of the
subsets of a finite set, for which a claim holds is all of them
(`NatSetInduction`, `SubsetInduction` in `DataLemmas`). This gives what is needed
of sums over sets (`SumRemove`, `TotalChange`, ...), whose library definition is a
fold.

### Only model-checked

* Liveness: `Answered`, `EvictedIsFlushed`, `CloseReturns`, `WriterEnds` and
  `WholeRequestsAnswered`. The prover has no rules for fairness and `ENABLED`.
* The three violations, which are about single executions.
* What the recursive function in `HashKey` computes for every string; nothing
  proved about `FifoStore` depends on it but that it is a function.

## 5. Not modelled, and the plan

Not modelled:

* configuration loading and logging: no state that the threads change; the
  settings that matter are CONSTANTS;
* `tcpConnect`: system calls before any thread starts;
* `hashDelete` and the tiering thread's MEM_FIFO branch: not reachable (section 2);
* `string2ll` and lengths inside a word: `Connections` takes words as wholes;
* `client-benchmark`: connects and exits;
* `lru_cache::contains` and `clear`, `ListPushBack`, `ListPopFront`,
  `NewWritableFile`, the `sds` functions: no caller on a request's path.

The modules of the plan are written, and the invariants and action properties
that the runs check are proved. What is left of the plan:

1. refinements between the models: that `WriteBuffer`'s file is the file
   of whole records that `TieredStore` appends to and reads from, as long as the
   file is neither full nor closed;
2. lemmas that state the safety part of the liveness properties, such as that a
   posted semaphore finds its writer in `wait` or at work;
3. theorems that bound where `proc = "undefined"` is reached in `TieredStore` and
   `FlashEvict`, as `BrokenByInput` does for `Connections`.

------------------------- MODULE TieredStoreProofs -------------------------
(***************************************************************************)
(* Proofs about TieredStore, for any number of connections, keys and       *)
(* values, both cache modes and any file size.                             *)
(***************************************************************************)
EXTENDS TieredStore, DataLemmas

MainLabel == {"spin", "evictall", "pop", "mark", "post", "evictwait", "destroy", "exit"}
BWorkerLabel == {"wait", "dequeue", "lock", "flush"}
ClientLabel == {"recv", "closed", "memcheck", "pop", "mark", "post", "recheck",
                "drain", "lock", "exec", "assign", "send", "kill", "other",
                "evictall", "evictwait"}

(* Where each thread can be. *)
PlacesOK ==
  /\ pc[Main] \in MainLabel
  /\ pc[BWorker] \in BWorkerLabel
  /\ \A c \in Client : pc[c] \in ClientLabel

(* The commands a connection's thread can be executing at each place. *)
CommandsOK ==
  \A c \in Client :
    /\ pc[c] \notin {"recv", "closed"} => req[c] \in Request
    /\ pc[c] \in {"memcheck", "recheck", "drain", "assign"} => req[c].cmd = "set"
    /\ pc[c] \in {"lock", "exec"} => req[c].cmd \in {"set", "get"}
    /\ pc[c] \in {"pop", "mark", "post"} => req[c].cmd \in {"set", "evict"}
    /\ pc[c] \in {"evictall", "evictwait"} => req[c].cmd = "evict"
    /\ pc[c] \in {"kill", "other"} => req[c].cmd \notin {"set", "get"}

(* What an evicting thread and the tiering thread hold at each place. *)
HandsOK ==
  /\ \A t \in Evictor : pc[t] \in {"pop", "mark", "post"} => pool[t] > 0
  /\ \A t \in Evictor : victim[t] # None <=> pc[t] = "mark"
  /\ job # None <=> pc[BWorker] \in {"lock", "flush"}

MutexOK == \A t \in Thread : mutex = t <=> pc[t] \in {"exec", "assign", "flush"}

(* An entry that has not been queued is KV_LOC_MEM. *)
UnqueuedInMem ==
  \A k \in Key : Listed(k) \/ Taken(k) => m_map[k].where = "mem"

(* An entry whose val is about to be assigned is still mapped. *)
AssignMapped ==
  \A c \in Client : pc[c] = "assign" => m_map[req[c].key] # None

(* Every value kept in memory, by the tiering thread or in a file was
   written by a SET of its key. *)
MapWritten == \A k \in Key : m_map[k] # None => m_map[k].val \in written[k]
JobWritten == job # None => job.val \in written[job.key]
FilesWritten ==
  \A f \in DOMAIN files : \A i \in DOMAIN files[f] :
    files[f][i].val \in written[files[f][i].key]
ValuesWritten == MapWritten /\ JobWritten /\ FilesWritten

(* A key that was written is in memory or in the index. *)
NothingLost ==
  \A k \in Key : written[k] # {} => m_map[k] # None \/ block_index[k] # None

(* The inductive invariant. *)
IInv == /\ TypeOK /\ PlacesOK /\ CommandsOK /\ HandsOK /\ MutexOK
        /\ SemMatchesQueue /\ OneHolder /\ UnqueuedInMem /\ AssignMapped
        /\ IndexSound
        /\ ValuesWritten /\ NothingLost

-----------------------------------------------------------------------------
(* A request has the fields its command needs (parsingMessage). *)
LEMMA RequestFields ==
  ASSUME NEW r \in Request
  PROVE  /\ r.cmd \in Command
         /\ r.cmd \in {"set", "get"} => r.key \in Key
         /\ r.cmd = "set" => r.val \in Val
BY DEF Request, Command

(* Where processCMD starts for each command. *)
LEMMA FirstLabels ==
  ASSUME NEW cmd \in Command
  PROVE  /\ FirstLabel(cmd) \in {"memcheck", "lock", "evictall", "kill", "other"}
         /\ FirstLabel(cmd) = "memcheck" => cmd = "set"
         /\ FirstLabel(cmd) = "lock" => cmd \in {"set", "get"}
         /\ FirstLabel(cmd) = "evictall" => cmd = "evict"
         /\ FirstLabel(cmd) \in {"kill", "other"} => cmd \notin {"set", "get"}
BY DEF FirstLabel, Command

(* The evicting threads between QueueEnqueue and sem_post are finitely many. *)
LEMMA PostingFinite ==
  IsFiniteSet(Posting) /\ Cardinality(Posting) \in Nat
<1>1. IsFiniteSet(Evictor)
  BY ThreadAssumption, FS_AddElement DEF Evictor
<1>2. Posting \in SUBSET Evictor
  BY DEF Posting
<1> QED
  BY <1>1, <1>2, FS_Subset, FS_CardinalityType

(* An entry at the head of the queue is mapped and has a value. *)
LEMMA HeadMapped ==
  ASSUME IInv, memQueue # <<>>
  PROVE  /\ Head(memQueue) \in Key /\ Head(memQueue) = memQueue[1]
         /\ 1 \in DOMAIN memQueue
         /\ m_map[Head(memQueue)] \in Entry
         /\ m_map[Head(memQueue)].val \in Val
<1>1. memQueue \in Seq(Key) /\ m_map \in [Key -> Entry \cup {None}] /\ OneHolder
  BY DEF IInv, TypeOK
<1>2. Head(memQueue) \in Key /\ Head(memQueue) = memQueue[1] /\ 1 \in DOMAIN memQueue
  BY <1>1
<1>3. Queued(Head(memQueue))
  BY <1>2 DEF Queued
<1>4. m_map[Head(memQueue)] \in Entry
  BY <1>1, <1>2, <1>3 DEF OneHolder
<1> QED
  BY <1>2, <1>4 DEF Entry

(* An entry taken off the list is mapped and still KV_LOC_MEM. *)
LEMMA VictimMapped ==
  ASSUME IInv, NEW t \in Evictor, pc[t] = "mark"
  PROVE  /\ victim[t] \in Key
         /\ m_map[victim[t]] \in Entry
         /\ m_map[victim[t]].where = "mem"
<1>1. /\ victim \in [Evictor -> Key \cup {None}]
      /\ m_map \in [Key -> Entry \cup {None}]
      /\ HandsOK /\ OneHolder /\ UnqueuedInMem
  BY DEF IInv, TypeOK
<1>2. victim[t] \in Key
  BY <1>1 DEF HandsOK
<1>3. Taken(victim[t])
  BY DEF Taken
<1> QED
  BY <1>1, <1>2, <1>3 DEF OneHolder, UnqueuedInMem

(* Every step leaves each thread at one of its places. *)
LEMMA PlacesStep ==
  ASSUME IInv, [Next]_vars
  PROVE  PlacesOK'
<1>0. /\ pc \in [Thread -> Label]
      /\ PlacesOK
  BY DEF IInv, TypeOK, Thread, Evictor
<1>1. ASSUME NEW c \in Client,
             \/ MemUsedCheck(c) \/ Recheck(c) \/ Drain(c)
             \/ Lock(c, "exec") \/ SetLru(c) \/ Assign(c) \/ SetFlash(c)
             \/ GetMem(c) \/ GetFlash(c) \/ Kill(c) \/ Other(c)
             \/ Send(c) \/ Close(c)
      PROVE  PlacesOK'
  BY <1>0, <1>1, ThreadAssumption DEF MemUsedCheck, Recheck, Drain, Lock,
     SetLru, Undefined, Unlock, Assign, SetFlash, GetMem, Reply, GetFlash,
     Kill, Destroy, Other, Send, Close, InEvictAll, PlacesOK, MainLabel,
     BWorkerLabel, ClientLabel, At, Goto, Evictor, Thread
<1>2. ASSUME NEW t \in Evictor,
             \/ EvictAll(t) \/ Pop(t) \/ Mark(t) \/ Post(t)
             \/ EvictWait(t)
      PROVE  PlacesOK'
  BY <1>0, <1>2, ThreadAssumption DEF EvictAll, Undefined, Pop, Mark,
     Continue, Post, EvictWait, InEvictAll, PlacesOK, MainLabel, BWorkerLabel,
     ClientLabel, At, Goto, Evictor, Thread
<1>3. ASSUME \/ SemWait \/ Dequeue \/ Lock(BWorker, "flush") \/ Flush
             \/ Sigint \/ DestroyFlash \/ ExitMain \/ FlashWriteError
             \/ DataRace
      PROVE  PlacesOK'
  BY <1>0, <1>3, ThreadAssumption DEF SemWait, Dequeue, Undefined, Lock,
     Flush, Unlock, Sigint, DestroyFlash, Destroy, ExitMain, Exit,
     FlashWriteError, DataRace, InEvictAll, PlacesOK, MainLabel, BWorkerLabel,
     ClientLabel, At, Goto, Evictor, Thread
<1>4. ASSUME NEW c \in Client, Recv(c) PROVE PlacesOK'
  BY <1>0, <1>4, ThreadAssumption, RequestFields, FirstLabels
     DEF Recv, PlacesOK, ClientLabel, At, Goto, Evictor, Thread, reqVars, evictVars, queueVars
<1>5. CASE UNCHANGED vars
  BY <1>0, <1>5, ThreadAssumption DEF vars, PlacesOK, MainLabel, BWorkerLabel,
     ClientLabel, At, Goto, Evictor, Thread
<1> QED
  BY <1>1, <1>2, <1>3, <1>4, <1>5
     DEF Next, ClientStep, EvictStep, BWorkerStep, MainStep, Evictor

(* Every step keeps the command of a connection fit for its place. *)
LEMMA CommandsStep ==
  ASSUME IInv, [Next]_vars
  PROVE  CommandsOK'
<1>0. /\ pc \in [Thread -> Label]
      /\ req \in [Client -> Request \cup {None}]
      /\ PlacesOK /\ CommandsOK
  BY DEF IInv, TypeOK, Thread, Evictor
<1>1. ASSUME NEW c \in Client,
             \/ MemUsedCheck(c) \/ Recheck(c) \/ Drain(c)
             \/ Lock(c, "exec") \/ SetLru(c) \/ Assign(c) \/ SetFlash(c)
             \/ GetMem(c) \/ GetFlash(c) \/ Kill(c) \/ Other(c)
             \/ Send(c) \/ Close(c)
      PROVE  CommandsOK'
  BY <1>0, <1>1, ThreadAssumption DEF MemUsedCheck, Recheck, Drain, Lock,
     SetLru, Undefined, Unlock, Assign, SetFlash, GetMem, Reply, GetFlash,
     Kill, Destroy, Other, Send, Close, InEvictAll, CommandsOK, At, Goto,
     dataVars, reqVars, evictVars, queueVars, Evictor, Thread
<1>2. ASSUME NEW t \in Evictor,
             \/ EvictAll(t) \/ Pop(t) \/ Mark(t) \/ Post(t)
             \/ EvictWait(t)
      PROVE  CommandsOK'
  BY <1>0, <1>2, ThreadAssumption DEF EvictAll, Undefined, Pop, Mark,
     Continue, Post, EvictWait, InEvictAll, CommandsOK, At, Goto, dataVars,
     reqVars, evictVars, queueVars, Evictor, Thread
<1>3. ASSUME \/ SemWait \/ Dequeue \/ Lock(BWorker, "flush") \/ Flush
             \/ Sigint \/ DestroyFlash \/ ExitMain \/ FlashWriteError
             \/ DataRace
      PROVE  CommandsOK'
  BY <1>0, <1>3, ThreadAssumption DEF SemWait, Dequeue, Undefined, Lock,
     Flush, Unlock, Sigint, DestroyFlash, Destroy, ExitMain, Exit,
     FlashWriteError, DataRace, InEvictAll, CommandsOK, At, Goto, dataVars,
     reqVars, evictVars, queueVars, Evictor, Thread
<1>4. ASSUME NEW c \in Client, Recv(c) PROVE CommandsOK'
  BY <1>0, <1>4, ThreadAssumption, RequestFields, FirstLabels
     DEF Recv, CommandsOK, At, Goto, Evictor, Thread, reqVars, evictVars, queueVars
<1>5. CASE UNCHANGED vars
  BY <1>0, <1>5, ThreadAssumption DEF vars, CommandsOK, At, Goto, dataVars,
     reqVars, evictVars, queueVars, Evictor, Thread
<1> QED
  BY <1>1, <1>2, <1>3, <1>4, <1>5
     DEF Next, ClientStep, EvictStep, BWorkerStep, MainStep, Evictor

(* Every step keeps what the threads hold fit for their places. *)
LEMMA HandsStep ==
  ASSUME IInv, [Next]_vars
  PROVE  HandsOK'
<1>0. /\ pc \in [Thread -> Label]
      /\ victim \in [Evictor -> Key \cup {None}]
      /\ pool \in [Evictor -> Nat]
      /\ m_list \in Seq(Key)
      /\ memQueue \in Seq(Key)
      /\ PlacesOK /\ CommandsOK /\ HandsOK
  BY DEF IInv, TypeOK, Thread, Evictor
<1>1. ASSUME NEW c \in Client,
             \/ Recheck(c) \/ Drain(c) \/ Lock(c, "exec") \/ SetLru(c)
             \/ Assign(c) \/ SetFlash(c) \/ GetMem(c) \/ GetFlash(c)
             \/ Kill(c) \/ Other(c) \/ Send(c) \/ Close(c)
      PROVE  HandsOK'
  BY <1>0, <1>1, ThreadAssumption DEF Recheck, Drain, Lock, SetLru, Undefined,
     Unlock, Assign, SetFlash, GetMem, Reply, GetFlash, Kill, Destroy, Other,
     Send, Close, HandsOK, At, Goto, dataVars, evictVars, queueVars, Evictor,
     Thread
<1>2. ASSUME NEW t \in Evictor,
             \/ EvictWait(t)
      PROVE  HandsOK'
  BY <1>0, <1>2, ThreadAssumption DEF EvictWait, HandsOK, At, Goto, dataVars,
     evictVars, queueVars, Evictor, Thread
<1>3. ASSUME \/ SemWait \/ Lock(BWorker, "flush") \/ Flush \/ Sigint
             \/ DestroyFlash \/ ExitMain \/ FlashWriteError \/ DataRace
      PROVE  HandsOK'
  BY <1>0, <1>3, ThreadAssumption DEF SemWait, Lock, Flush, Unlock, Undefined,
     Sigint, DestroyFlash, Destroy, ExitMain, Exit, FlashWriteError, DataRace,
     HandsOK, At, Goto, dataVars, evictVars, queueVars, Evictor, Thread
<1>4. ASSUME NEW c \in Client, MemUsedCheck(c) PROVE HandsOK'
  BY <1>0, <1>4, ThreadAssumption, DataAssumption DEF MemUsedCheck, LruSize,
     HandsOK, At, Goto, reqVars, evictVars, memVars, queueVars, flashVars,
     dataVars, Evictor, Thread
<1>5. ASSUME NEW t \in Evictor, EvictAll(t) PROVE HandsOK'
  BY <1>0, <1>5, ThreadAssumption, DataAssumption DEF EvictAll, Undefined,
     LruSize, HandsOK, At, Goto, reqVars, evictVars, memVars, queueVars,
     flashVars, dataVars, Evictor, Thread
<1>6. ASSUME NEW t \in Evictor, Pop(t) PROVE HandsOK'
  BY <1>0, <1>6, ThreadAssumption, DataAssumption DEF Pop, Undefined,
     LruVictim, LruDropVictim, Last, Front, HandsOK, At, Goto, reqVars,
     evictVars, memVars, queueVars, flashVars, dataVars, Evictor, Thread
<1>7. ASSUME NEW t \in Evictor, Mark(t) PROVE HandsOK'
  BY <1>0, <1>7, ThreadAssumption, DataAssumption DEF Mark, Continue, HandsOK,
     At, Goto, reqVars, evictVars, memVars, queueVars, flashVars, dataVars,
     Evictor, Thread, InEvictAll
<1>8. ASSUME NEW t \in Evictor, Post(t) PROVE HandsOK'
  BY <1>0, <1>8, ThreadAssumption, DataAssumption DEF Post, Continue, HandsOK,
     At, Goto, reqVars, evictVars, memVars, queueVars, flashVars, dataVars,
     Evictor, Thread, InEvictAll
<1>9. ASSUME NEW c \in Client, Recv(c) PROVE HandsOK'
  BY <1>0, <1>9, ThreadAssumption, DataAssumption, RequestFields, FirstLabels
     DEF Recv, HandsOK, At, Goto, reqVars, evictVars, memVars, queueVars,
     flashVars, dataVars, Evictor, Thread
<1>10. ASSUME Dequeue PROVE HandsOK'
  <2>1. CASE memQueue = <<>>
    BY <1>0, <1>10, <2>1 DEF Dequeue, Undefined, HandsOK, dataVars, evictVars, queueVars
  <2>2. CASE memQueue # <<>>
    <3>1. job' \in Job
      BY <1>10, <2>2, HeadMapped DEF Dequeue, Job
    <3> QED
      BY <1>0, <1>10, <2>2, <3>1, ThreadAssumption, DataAssumption
         DEF Dequeue, HandsOK, At, Goto, evictVars, Evictor, Thread
  <2> QED
    BY <2>1, <2>2
<1>11. CASE UNCHANGED vars
  BY <1>0, <1>11, ThreadAssumption DEF vars, HandsOK, At, Goto, dataVars,
     evictVars, queueVars, Evictor, Thread
<1> QED
  BY <1>1, <1>2, <1>3, <1>4, <1>5, <1>6, <1>7, <1>8, <1>9, <1>10, <1>11
     DEF Next, ClientStep, EvictStep, BWorkerStep, MainStep, Evictor

(* Every step keeps bworker_mutex with the thread that is inside. *)
LEMMA MutexStep ==
  ASSUME IInv, [Next]_vars
  PROVE  MutexOK'
<1>0. /\ pc \in [Thread -> Label]
      /\ mutex \in Thread \cup {None}
      /\ PlacesOK /\ MutexOK
  BY DEF IInv, TypeOK, Thread, Evictor
<1>1. ASSUME NEW c \in Client,
             \/ MemUsedCheck(c) \/ Recheck(c) \/ Drain(c)
             \/ Lock(c, "exec") \/ SetLru(c) \/ Assign(c) \/ SetFlash(c)
             \/ GetMem(c) \/ GetFlash(c) \/ Kill(c) \/ Other(c)
             \/ Send(c) \/ Close(c)
      PROVE  MutexOK'
  BY <1>0, <1>1, ThreadAssumption DEF MemUsedCheck, Recheck, Drain, Lock,
     SetLru, Undefined, Unlock, Assign, SetFlash, GetMem, Reply, GetFlash,
     Kill, Destroy, Other, Send, Close, MutexOK, At, Goto, dataVars, Evictor,
     Thread
<1>2. ASSUME NEW t \in Evictor,
             \/ EvictAll(t) \/ Pop(t) \/ Mark(t) \/ Post(t)
             \/ EvictWait(t)
      PROVE  MutexOK'
  BY <1>0, <1>2, ThreadAssumption DEF EvictAll, Undefined, Pop, Mark,
     Continue, Post, EvictWait, MutexOK, At, Goto, dataVars, Evictor, Thread
<1>3. ASSUME \/ SemWait \/ Dequeue \/ Lock(BWorker, "flush") \/ Flush
             \/ Sigint \/ DestroyFlash \/ ExitMain \/ FlashWriteError
             \/ DataRace
      PROVE  MutexOK'
  BY <1>0, <1>3, ThreadAssumption DEF SemWait, Dequeue, Undefined, Lock,
     Flush, Unlock, Sigint, DestroyFlash, Destroy, ExitMain, Exit,
     FlashWriteError, DataRace, MutexOK, At, Goto, dataVars, Evictor, Thread
<1>4. ASSUME NEW c \in Client, Recv(c) PROVE MutexOK'
  BY <1>0, <1>4, ThreadAssumption, RequestFields, FirstLabels
     DEF Recv, MutexOK, At, Goto, Evictor, Thread, reqVars, evictVars, queueVars
<1>5. CASE UNCHANGED vars
  BY <1>0, <1>5, ThreadAssumption DEF vars, MutexOK, At, Goto, dataVars,
     Evictor, Thread
<1> QED
  BY <1>1, <1>2, <1>3, <1>4, <1>5
     DEF Next, ClientStep, EvictStep, BWorkerStep, MainStep, Evictor

(* SemMatchesQueue depends on the queue, the semaphore and who is between
   the two. *)
LEMMA SemFrame ==
  ASSUME SemMatchesQueue, UNCHANGED <<memQueue, sem>>,
         pc'[BWorker] = "dequeue" <=> pc[BWorker] = "dequeue",
         \A t \in Evictor : pc'[t] = "post" <=> pc[t] = "post"
  PROVE  SemMatchesQueue'
<1>1. Posting' = Posting
  BY DEF Posting
<1> QED
  BY <1>1 DEF SemMatchesQueue

(* Every step keeps the semaphore in step with the queue. *)
LEMMA SemStep ==
  ASSUME IInv, [Next]_vars
  PROVE  SemMatchesQueue'
<1>0. /\ pc \in [Thread -> Label]
      /\ memQueue \in Seq(Key) /\ sem \in Nat
      /\ PlacesOK /\ SemMatchesQueue
  BY DEF IInv, TypeOK, Thread, Evictor
<1>1. ASSUME NEW c \in Client,
             \/ MemUsedCheck(c) \/ Recheck(c) \/ Drain(c)
             \/ Lock(c, "exec") \/ SetLru(c) \/ Assign(c) \/ SetFlash(c)
             \/ GetMem(c) \/ GetFlash(c) \/ Kill(c) \/ Other(c)
             \/ Send(c) \/ Close(c)
      PROVE  SemMatchesQueue'
  BY <1>0, <1>1, SemFrame, ThreadAssumption DEF MemUsedCheck, Recheck, Drain,
     Lock, SetLru, Undefined, Unlock, Assign, SetFlash, GetMem, Reply,
     GetFlash, Kill, Destroy, Other, Send, Close, At, Goto, dataVars,
     queueVars, Evictor, Thread
<1>2. ASSUME NEW t \in Evictor,
             \/ EvictAll(t) \/ Pop(t) \/ EvictWait(t)
      PROVE  SemMatchesQueue'
  BY <1>0, <1>2, SemFrame, ThreadAssumption DEF EvictAll, Undefined, Pop,
     EvictWait, At, Goto, dataVars, queueVars, Evictor, Thread
<1>3. ASSUME \/ Lock(BWorker, "flush") \/ Flush \/ Sigint \/ DestroyFlash
             \/ ExitMain \/ FlashWriteError \/ DataRace
      PROVE  SemMatchesQueue'
  BY <1>0, <1>3, SemFrame, ThreadAssumption DEF Lock, Flush, Unlock,
     Undefined, Sigint, DestroyFlash, Destroy, ExitMain, Exit,
     FlashWriteError, DataRace, At, Goto, dataVars, queueVars, Evictor, Thread
<1>4. ASSUME NEW t \in Evictor, Mark(t) PROVE SemMatchesQueue'
  <2>1. /\ m_map[victim[t]].where = "mem"
        /\ victim[t] \in Key
    BY <1>4, VictimMapped DEF Mark, At
  <2>2. memQueue' = Append(memQueue, victim[t]) /\ sem' = sem
    BY <1>4, <2>1 DEF Mark
  <2>3. Len(memQueue') = Len(memQueue) + 1
    BY <1>0, <2>1, <2>2
  <2>4. pc' = [pc EXCEPT ![t] = "post"] /\ pc[t] = "mark"
    BY <1>4, <2>1 DEF Mark, At, Goto
  <2>5. Posting' = Posting \cup {t} /\ t \notin Posting
    BY <1>0, <2>4 DEF Posting, Evictor, Thread
  <2>6. Cardinality(Posting') = Cardinality(Posting) + 1
    BY <2>5, PostingFinite, FS_AddElement
  <2>7. pc'[BWorker] = pc[BWorker]
    BY <1>0, <2>4, ThreadAssumption DEF Evictor, Thread
  <2> QED
    BY <1>0, <2>2, <2>3, <2>6, <2>7, PostingFinite DEF SemMatchesQueue
<1>5. ASSUME NEW t \in Evictor, Post(t) PROVE SemMatchesQueue'
  <2>1. sem' = sem + 1 /\ memQueue' = memQueue /\ pc[t] = "post"
    BY <1>5 DEF Post, At
  <2>2. PICK label \in Label : pc' = [pc EXCEPT ![t] = label] /\ label # "post"
    BY <1>5 DEF Post, Continue, Goto, Label
  <2>3. Posting' = Posting \ {t} /\ t \in Posting
    BY <1>0, <2>1, <2>2 DEF Posting, Evictor, Thread
  <2>4. Cardinality(Posting') = Cardinality(Posting) - 1
    BY <2>3, PostingFinite, FS_RemoveElement
  <2>5. pc'[BWorker] = pc[BWorker]
    BY <1>0, <2>2, ThreadAssumption DEF Evictor, Thread
  <2> QED
    BY <1>0, <2>1, <2>4, <2>5, PostingFinite DEF SemMatchesQueue
<1>6. ASSUME NEW c \in Client, Recv(c) PROVE SemMatchesQueue'
  <2>1. PICK r \in Request : pc' = [pc EXCEPT ![c] = FirstLabel(r.cmd)]
    BY <1>6 DEF Recv, Goto
  <2>2. FirstLabel(r.cmd) # "post" /\ pc[c] = "recv" /\ UNCHANGED <<memQueue, sem>>
    BY <1>6, RequestFields, FirstLabels DEF Recv, At, queueVars
  <2> QED
    BY <1>0, <2>1, <2>2, SemFrame, ThreadAssumption DEF Evictor, Thread
<1>7. ASSUME SemWait PROVE SemMatchesQueue'
  <2>1. /\ sem > 0 /\ sem' = sem - 1 /\ memQueue' = memQueue
        /\ pc[BWorker] = "wait" /\ pc' = [pc EXCEPT ![BWorker] = "dequeue"]
    BY <1>7 DEF SemWait, At, Goto
  <2>2. Posting' = Posting /\ pc'[BWorker] = "dequeue"
    BY <1>0, <2>1, ThreadAssumption DEF Posting, Evictor, Thread
  <2> QED
    BY <1>0, <2>1, <2>2, PostingFinite DEF SemMatchesQueue
<1>8. ASSUME Dequeue PROVE SemMatchesQueue'
  <2>1. CASE memQueue = <<>>
    BY <1>0, <1>8, <2>1
       DEF Dequeue, Undefined, SemMatchesQueue, Posting, dataVars, queueVars
  <2>2. CASE memQueue # <<>>
    <3>1. /\ sem' = sem /\ memQueue' = Tail(memQueue)
          /\ pc[BWorker] = "dequeue" /\ pc' = [pc EXCEPT ![BWorker] = "lock"]
      BY <1>8, <2>2 DEF Dequeue, At, Goto
    <3>2. Len(memQueue') = Len(memQueue) - 1
      BY <1>0, <2>2, <3>1
    <3>3. Posting' = Posting /\ pc'[BWorker] = "lock"
      BY <1>0, <3>1, ThreadAssumption DEF Posting, Evictor, Thread
    <3> QED
      BY <1>0, <3>1, <3>2, <3>3, PostingFinite DEF SemMatchesQueue
  <2> QED
    BY <2>1, <2>2
<1>9. CASE UNCHANGED vars
  BY <1>0, <1>9, SemFrame DEF vars, At, Goto, dataVars, queueVars, Evictor,
     Thread
<1> QED
  BY <1>1, <1>2, <1>3, <1>4, <1>5, <1>6, <1>7, <1>8, <1>9
     DEF Next, ClientStep, EvictStep, BWorkerStep, MainStep, Evictor

(* push_front adds its key to the listed ones. *)
LEMMA InsertListed ==
  ASSUME m_list \in Seq(Key), NEW k \in Key, IsInjective(m_list), ~Listed(k),
         m_list' = LruPushFront(m_list, k)
  PROVE  IsInjective(m_list') /\ \A j : Listed(j)' <=> j = k \/ Listed(j)
<1>1. ~ \E i \in DOMAIN m_list : m_list[i] = k
  BY DEF Listed
<1>2. /\ IsInjective(LruPushFront(m_list, k))
      /\ \A j : (\E i \in DOMAIN LruPushFront(m_list, k) : LruPushFront(m_list, k)[i] = j)
                  <=> j = k \/ (\E i \in DOMAIN m_list : m_list[i] = j)
  BY <1>1, PushFrontKeeps
<1> QED
  BY <1>2 DEF Listed

(* QueueEnqueue adds a key that was not queued. *)
LEMMA EnqueueKeeps ==
  ASSUME NEW S, NEW q \in Seq(S), NEW k \in S,
         ~ \E i \in DOMAIN q : q[i] = k, IsInjective(q)
  PROVE  /\ IsInjective(Append(q, k))
         /\ \A j : (\E i \in DOMAIN Append(q, k) : Append(q, k)[i] = j)
                     <=> j = k \/ (\E i \in DOMAIN q : q[i] = j)
<1> DEFINE m == Append(q, k)
           n == Len(q)
<1>1. n \in Nat /\ DOMAIN q = 1..n
  OBVIOUS
<1>2. DOMAIN m = 1..(n + 1) /\ \A i \in 1..(n + 1) : m[i] = IF i = n + 1 THEN k ELSE q[i]
  OBVIOUS
<1> HIDE DEF m, n
<1>3. IsInjective(m)
  BY <1>1, <1>2 DEF IsInjective
<1>4. n + 1 \in DOMAIN m /\ m[n + 1] = k
  BY <1>1, <1>2
<1>5. ASSUME NEW i \in 1..n PROVE i \in 1..(n + 1) /\ m[i] = q[i]
  BY <1>1, <1>2
<1>6. ASSUME NEW i \in 1..(n + 1), i # n + 1 PROVE i \in 1..n /\ m[i] = q[i]
  BY <1>1, <1>2, <1>6
<1>7. \A j : (\E i \in DOMAIN m : m[i] = j) <=> j = k \/ (\E i \in DOMAIN q : q[i] = j)
  <2> TAKE j
  <2>1. ASSUME NEW i \in DOMAIN m, m[i] = j PROVE j = k \/ \E h \in DOMAIN q : q[h] = j
    BY <1>1, <1>2, <1>4, <1>6, <2>1
  <2>2. ASSUME NEW i \in DOMAIN q, q[i] = j PROVE \E h \in DOMAIN m : m[h] = j
    BY <1>1, <1>2, <1>5, <2>2
  <2> QED
    BY <1>4, <2>1, <2>2
<1> QED
  BY <1>3, <1>7 DEF m

(* QueueDequeue removes the first key, and only that one. *)
LEMMA DequeueKeeps ==
  ASSUME NEW S, NEW q \in Seq(S), q # <<>>, IsInjective(q)
  PROVE  /\ IsInjective(Tail(q))
         /\ \A j : (\E i \in DOMAIN Tail(q) : Tail(q)[i] = j)
                     <=> j # Head(q) /\ (\E i \in DOMAIN q : q[i] = j)
<1> DEFINE m == Tail(q)
           n == Len(q)
<1>1. n \in Nat \ {0} /\ DOMAIN q = 1..n /\ Head(q) = q[1]
  OBVIOUS
<1>2. DOMAIN m = 1..(n - 1) /\ \A i \in 1..(n - 1) : m[i] = q[i + 1]
  BY HeadTailProperties
<1> HIDE DEF m, n
<1>3. IsInjective(m)
  <2> SUFFICES ASSUME NEW i \in 1..(n - 1), NEW j \in 1..(n - 1), m[i] = m[j] PROVE i = j
    BY <1>2 DEF IsInjective
  <2>1. i + 1 \in 1..n /\ j + 1 \in 1..n /\ q[i + 1] = q[j + 1]
    BY <1>1, <1>2
  <2>2. i + 1 = j + 1
    BY <1>1, <2>1 DEF IsInjective
  <2> QED
    BY <1>1, <2>2
<1>4. ASSUME NEW i \in 1..(n - 1) PROVE i + 1 \in 1..n /\ m[i] = q[i + 1] /\ q[i + 1] # q[1]
  BY <1>1, <1>2 DEF IsInjective
<1>5. ASSUME NEW i \in 1..n, q[i] # q[1] PROVE i - 1 \in 1..(n - 1) /\ m[i - 1] = q[i]
  BY <1>1, <1>2, <1>5
<1>6. \A j : (\E i \in DOMAIN m : m[i] = j) <=> j # Head(q) /\ (\E i \in DOMAIN q : q[i] = j)
  <2> TAKE j
  <2>1. ASSUME NEW i \in DOMAIN m, m[i] = j
        PROVE  j # Head(q) /\ \E h \in DOMAIN q : q[h] = j
    BY <1>1, <1>2, <1>4, <2>1
  <2>2. ASSUME NEW i \in DOMAIN q, q[i] = j, j # Head(q) PROVE \E h \in DOMAIN m : m[h] = j
    BY <1>1, <1>2, <1>5, <2>2
  <2> QED
    BY <2>1, <2>2
<1> QED
  BY <1>3, <1>6 DEF m

(* What the index leads to is a value. *)
LEMMA FlashReadType ==
  ASSUME IInv, NEW k \in Key, block_index[k] # None
  PROVE  FlashRead(k) \in Val
<1> DEFINE f == block_index[k].cache_id
           i == block_index[k].off
<1>1. /\ files \in Seq(Seq(Record))
      /\ f \in DOMAIN files /\ i \in DOMAIN files[f]
  BY DEF IInv, TypeOK, IndexSound
<1>2. files[f] \in Seq(Record)
  BY <1>1
<1> HIDE DEF f, i
<1>3. files[f][i] \in Record
  BY <1>1, <1>2
<1>4. files[f][i].val \in Val
  BY <1>3 DEF Record
<1> QED
  BY <1>4 DEF FlashRead, f, i

(* OneHolder depends on which keys are mapped and on who holds what. *)
LEMMA OneHolderFrame ==
  ASSUME OneHolder, UNCHANGED <<m_list, memQueue, victim, job>>,
         \A k \in Key : m_map'[k] # None <=> m_map[k] # None
  PROVE  OneHolder'
BY DEF OneHolder, Listed, Taken, Queued, Flushing

(* A move of a mapped key to the front of the list changes no holder. *)
LEMMA OneHolderTouch ==
  ASSUME OneHolder, m_list \in Seq(Key), NEW k \in Key, LruListed(m_list, k),
         m_list' = LruTouch(m_list, k),
         UNCHANGED <<m_map, memQueue, victim, job>>
  PROVE  OneHolder'
<1>1. IsInjective(m_list') /\ \A j : Listed(j)' <=> Listed(j)
  BY TouchKeeps DEF OneHolder, Listed
<1> QED
  BY <1>1 DEF OneHolder, Taken, Queued, Flushing

(* A new entry goes to the list. *)
LEMMA OneHolderInsert ==
  ASSUME OneHolder, m_list \in Seq(Key), m_map \in [Key -> Entry \cup {None}],
         NEW k \in Key, NEW v \in Val, m_map[k] = None, CacheInsert(k, v),
         UNCHANGED <<memQueue, victim, job>>
  PROVE  OneHolder'
<1>1. ~Listed(k) /\ ~Taken(k) /\ ~Queued(k) /\ ~Flushing(k)
  BY DEF OneHolder
<1>2. IsInjective(m_list') /\ \A j : Listed(j)' <=> j = k \/ Listed(j)
  BY <1>1, InsertListed DEF OneHolder, CacheInsert
<1>3. m_map'[k] # None /\ \A j \in Key \ {k} : m_map'[j] = m_map[j]
  BY DataAssumption DEF CacheInsert, LruInsert, Entry
<1> QED
  BY <1>1, <1>2, <1>3 DEF OneHolder, Taken, Queued, Flushing

(* Every step hands each entry from one holder to the next. *)
LEMMA OneHolderStep ==
  ASSUME IInv, [Next]_vars
  PROVE  OneHolder'
<1>0. /\ m_map \in [Key -> Entry \cup {None}]
      /\ m_list \in Seq(Key) /\ memQueue \in Seq(Key)
      /\ victim \in [Evictor -> Key \cup {None}]
      /\ job \in Job \cup {None}
      /\ req \in [Client -> Request \cup {None}]
      /\ HandsOK /\ CommandsOK /\ AssignMapped /\ OneHolder
  BY DEF IInv, TypeOK, Thread, Evictor
<1>1. ASSUME NEW c \in Client,
             \/ MemUsedCheck(c) \/ Recheck(c) \/ Drain(c)
             \/ Lock(c, "exec") \/ SetFlash(c) \/ Kill(c) \/ Other(c)
             \/ Send(c) \/ Recv(c) \/ Close(c)
      PROVE  OneHolder'
  BY <1>0, <1>1, OneHolderFrame DEF MemUsedCheck, Recheck, Drain, Lock,
     SetFlash, FlashInsert, Undefined, Kill, Destroy, Other, Send, Recv,
     Close, dataVars, reqVars, evictVars, memVars, queueVars, flashVars
<1>2. ASSUME NEW t \in Evictor,
             \/ EvictAll(t) \/ Post(t) \/ EvictWait(t)
      PROVE  OneHolder'
  BY <1>0, <1>2, OneHolderFrame DEF EvictAll, Undefined, Post, EvictWait,
     dataVars, reqVars, evictVars, memVars, queueVars, flashVars
<1>3. ASSUME \/ SemWait \/ Lock(BWorker, "flush") \/ Sigint
             \/ DestroyFlash \/ ExitMain \/ FlashWriteError \/ DataRace
      PROVE  OneHolder'
  BY <1>0, <1>3, OneHolderFrame DEF SemWait, Lock, Sigint, DestroyFlash,
     Destroy, Undefined, ExitMain, Exit, FlashWriteError, DataRace, dataVars,
     reqVars, evictVars, memVars, queueVars, flashVars
<1>4. ASSUME NEW t \in Evictor, Pop(t) PROVE OneHolder'
  <2>1. CASE m_list = <<>>
    BY <1>0, <1>4, <2>1, OneHolderFrame
       DEF Pop, Undefined, dataVars, evictVars, memVars, queueVars
  <2>2. CASE m_list # <<>>
    <3> DEFINE k == LruVictim(m_list)
    <3>1. /\ victim' = [victim EXCEPT ![t] = k] /\ m_list' = LruDropVictim(m_list)
          /\ UNCHANGED <<m_map, memQueue, job>>
          /\ victim[t] = None
      BY <1>0, <1>4, <2>2 DEF Pop, At, HandsOK, queueVars
    <3>2. k \in Key
      BY <1>0, <2>2, DropVictimIndex
    <3>3. IsInjective(m_list') /\ Listed(k) /\ \A j : Listed(j)' <=> j # k /\ Listed(j)
      <4>1. IsInjective(m_list)
        BY <1>0 DEF OneHolder
      <4>2. /\ IsInjective(LruDropVictim(m_list))
            /\ \E i \in DOMAIN m_list : m_list[i] = k
            /\ \A j : (\E i \in DOMAIN LruDropVictim(m_list) : LruDropVictim(m_list)[i] = j)
                        <=> j # k /\ (\E i \in DOMAIN m_list : m_list[i] = j)
        BY <1>0, <2>2, <4>1, DropVictimKeeps
      <4> QED
        BY <3>1, <4>2 DEF Listed
    <3> HIDE DEF k
    <3>4. ~Taken(k) /\ ~Queued(k) /\ ~Flushing(k)
      BY <1>0, <3>2, <3>3 DEF OneHolder
    <3>5. \A j \in Key : Taken(j)' <=> j = k \/ Taken(j)
      BY <1>0, <3>1, DataAssumption DEF Taken
    <3>6. \A u, w \in Evictor : victim'[u] = victim'[w] /\ victim'[u] # None => u = w
      BY <1>0, <3>1, <3>4 DEF Taken, OneHolder
    <3>7. \A j : (Queued(j)' <=> Queued(j)) /\ (Flushing(j)' <=> Flushing(j))
      BY <3>1 DEF Queued, Flushing
    <3> QED
      BY <1>0, <3>1, <3>2, <3>3, <3>4, <3>5, <3>6, <3>7 DEF OneHolder
  <2> QED
    BY <2>1, <2>2
<1>5. ASSUME NEW t \in Evictor, Mark(t) PROVE OneHolder'
  <2> DEFINE k == victim[t]
  <2>1. k \in Key /\ m_map[k] \in Entry /\ m_map[k].where = "mem"
    BY <1>5, VictimMapped DEF Mark, At
  <2>2. /\ victim' = [victim EXCEPT ![t] = None]
        /\ m_map' = [m_map EXCEPT ![k].where = "flushing"]
        /\ memQueue' = Append(memQueue, k)
        /\ UNCHANGED <<m_list, job>>
    BY <1>5, <2>1 DEF Mark
  <2>3. Taken(k) /\ ~Listed(k) /\ ~Queued(k) /\ ~Flushing(k)
    BY <1>0, <2>1 DEF OneHolder, Taken
  <2>4. \A j \in Key : Taken(j)' <=> j # k /\ Taken(j)
    BY <1>0, <2>1, <2>2, DataAssumption DEF Taken, OneHolder
  <2>5. \A u, w \in Evictor : victim'[u] = victim'[w] /\ victim'[u] # None => u = w
    BY <1>0, <2>2 DEF OneHolder
  <2>6. IsInjective(memQueue') /\ \A j : Queued(j)' <=> j = k \/ Queued(j)
    <3>1. IsInjective(memQueue) /\ ~ \E i \in DOMAIN memQueue : memQueue[i] = k
      BY <1>0, <2>3 DEF OneHolder, Queued
    <3> HIDE DEF k
    <3>2. /\ IsInjective(memQueue')
          /\ \A j : (\E i \in DOMAIN memQueue' : memQueue'[i] = j)
                      <=> j = k \/ (\E i \in DOMAIN memQueue : memQueue[i] = j)
      <4>1. k \in Key /\ memQueue \in Seq(Key) /\ memQueue' = Append(memQueue, k)
        BY <1>0, <2>1, <2>2
      <4> QED
        BY <3>1, <4>1, EnqueueKeeps
    <3> QED
      BY <3>2 DEF Queued
  <2>7. \A j : (Listed(j)' <=> Listed(j)) /\ (Flushing(j)' <=> Flushing(j))
    BY <2>2 DEF Listed, Flushing
  <2>8. \A j \in Key : m_map'[j] # None <=> m_map[j] # None
    <3>1. [m_map[k] EXCEPT !.where = "flushing"] \in Entry
      BY <2>1 DEF Entry
    <3>2. m_map[k] # None /\ m_map'[k] # None
      BY <1>0, <2>1, <2>2, <3>1, DataAssumption
    <3>3. \A j \in Key : j # k => m_map'[j] = m_map[j]
      BY <1>0, <2>2
    <3> QED
      BY <3>2, <3>3
  <2> HIDE DEF k
  <2>9. IsInjective(m_list')
    BY <1>0, <2>2 DEF OneHolder
  <2> QED
    BY <1>0, <2>1, <2>3, <2>4, <2>5, <2>6, <2>7, <2>8, <2>9 DEF OneHolder
<1>6. ASSUME NEW c \in Client, SetLru(c) PROVE OneHolder'
  <2>1. req[c].key \in Key /\ req[c].val \in Val
    BY <1>0, <1>6, RequestFields DEF SetLru, At, CommandsOK
  <2>2. CASE Undefined
    BY <1>0, <2>2, OneHolderFrame DEF Undefined, dataVars, evictVars, memVars, queueVars
  <2>3. CASE m_map[req[c].key] = None
    BY <1>0, <1>6, <2>1, <2>2, <2>3, OneHolderInsert DEF SetLru, evictVars, queueVars
  <2>4. CASE m_map[req[c].key] # None /\ LruListed(m_list, req[c].key)
    BY <1>0, <1>6, <2>1, <2>2, <2>4, OneHolderTouch DEF SetLru, evictVars, queueVars
  <2> QED
    BY <1>6, <2>2, <2>3, <2>4 DEF SetLru
<1>7. ASSUME NEW c \in Client, Assign(c) PROVE OneHolder'
  <2>1. req[c].key \in Key /\ req[c].val \in Val /\ m_map[req[c].key] # None
    BY <1>0, <1>7, RequestFields DEF Assign, At, CommandsOK, AssignMapped
  <2>2. [val |-> req[c].val, where |-> "mem"] # None
    BY <2>1, DataAssumption DEF Entry
  <2> QED
    BY <1>0, <1>7, <2>1, <2>2, OneHolderFrame DEF Assign, evictVars, queueVars
<1>8. ASSUME NEW c \in Client, GetMem(c) PROVE OneHolder'
  <2>1. req[c].key \in Key
    BY <1>0, <1>8, RequestFields DEF GetMem, At, CommandsOK
  <2>2. CASE Undefined
    BY <1>0, <2>2, OneHolderFrame DEF Undefined, dataVars, evictVars, memVars, queueVars
  <2>3. CASE ~Undefined
    BY <1>0, <1>8, <2>1, <2>3, OneHolderTouch DEF GetMem, Reply, evictVars, queueVars
  <2> QED
    BY <2>2, <2>3
<1>9. ASSUME NEW c \in Client, GetFlash(c) PROVE OneHolder'
  <2>1. req[c].key \in Key
    BY <1>0, <1>9, RequestFields DEF GetFlash, At, CommandsOK
  <2>2. CASE UNCHANGED memVars
    BY <1>0, <1>9, <2>2, OneHolderFrame
       DEF GetFlash, Reply, Undefined, dataVars, evictVars, memVars, queueVars
  <2>3. CASE ~UNCHANGED memVars
    <3>1. /\ m_map[req[c].key] = None /\ FlashHit(req[c].key)
          /\ CacheInsert(req[c].key, FlashRead(req[c].key))
          /\ UNCHANGED <<memQueue, victim, job>>
      BY <1>9, <2>3 DEF GetFlash, Reply, Undefined, dataVars, evictVars, queueVars
    <3>2. FlashRead(req[c].key) \in Val
      BY <2>1, <3>1, FlashReadType DEF FlashHit
    <3> QED
      BY <1>0, <2>1, <3>1, <3>2, OneHolderInsert
  <2> QED
    BY <2>2, <2>3
<1>10. ASSUME Dequeue PROVE OneHolder'
  <2>1. CASE memQueue = <<>>
    BY <1>0, <1>10, <2>1, OneHolderFrame
       DEF Dequeue, Undefined, dataVars, evictVars, memVars, queueVars
  <2>2. CASE memQueue # <<>>
    <3> DEFINE k == Head(memQueue)
    <3>1. /\ job' = [key |-> k, val |-> m_map[k].val] /\ memQueue' = Tail(memQueue)
          /\ UNCHANGED <<m_map, m_list, victim>>
          /\ job = None
      BY <1>0, <1>10, <2>2 DEF Dequeue, At, HandsOK, memVars, evictVars
    <3>2. k \in Key /\ Queued(k) /\ job' \in Job
      BY <2>2, <3>1, HeadMapped DEF Queued, Job
    <3>3. job' # None /\ job'.key = k
      BY <3>1, <3>2, DataAssumption
    <3>4. IsInjective(memQueue') /\ \A j : Queued(j)' <=> j # k /\ Queued(j)
      <4>1. IsInjective(memQueue)
        BY <1>0 DEF OneHolder
      <4>2. /\ IsInjective(Tail(memQueue))
            /\ \A j : (\E i \in DOMAIN Tail(memQueue) : Tail(memQueue)[i] = j)
                        <=> j # k /\ (\E i \in DOMAIN memQueue : memQueue[i] = j)
        BY <1>0, <2>2, <4>1, DequeueKeeps
      <4> QED
        BY <3>1, <4>2 DEF Queued
    <3>5. \A j : (Listed(j)' <=> Listed(j)) /\ (Taken(j)' <=> Taken(j))
      BY <3>1 DEF Listed, Taken
    <3>6. \A j \in Key : ~Flushing(j) /\ (Flushing(j)' <=> j = k)
      BY <3>1, <3>3 DEF Flushing
    <3> HIDE DEF k
    <3> QED
      BY <1>0, <3>1, <3>2, <3>4, <3>5, <3>6 DEF OneHolder
  <2> QED
    BY <2>1, <2>2
<1>11. ASSUME Flush PROVE OneHolder'
  <2>1. CASE flash = "destroyed" /\ Undefined
    BY <1>0, <2>1, OneHolderFrame DEF Undefined, dataVars, evictVars, memVars, queueVars
  <2>2. CASE ~(flash = "destroyed" /\ Undefined)
    <3> DEFINE k == job.key
    <3>1. /\ m_map' = LruErase(m_map, k) /\ job' = None
          /\ UNCHANGED <<m_list, memQueue, victim>>
          /\ job # None /\ pc[BWorker] = "flush"
      BY <1>0, <1>11, <2>2 DEF Flush, At, HandsOK, evictVars
    <3>2. k \in Key /\ Flushing(k)
      BY <1>0, <3>1 DEF Flushing, Job
    <3>3. m_map'[k] = None /\ \A j \in Key \ {k} : m_map'[j] = m_map[j]
      BY <1>0, <3>1, <3>2 DEF LruErase
    <3>4. \A j : /\ Listed(j)' <=> Listed(j)
                 /\ Taken(j)' <=> Taken(j)
                 /\ Queued(j)' <=> Queued(j)
      BY <3>1 DEF Listed, Taken, Queued
    <3>5. \A j \in Key : ~Flushing(j)' /\ (Flushing(j) <=> j = k)
      BY <3>1, <3>2 DEF Flushing
    <3> HIDE DEF k
    <3> QED
      BY <1>0, <3>1, <3>2, <3>3, <3>4, <3>5 DEF OneHolder
  <2> QED
    BY <2>1, <2>2
<1>12. CASE UNCHANGED vars
  BY <1>0, <1>12, OneHolderFrame DEF vars, dataVars, reqVars, evictVars,
     memVars, queueVars, flashVars
<1> QED
  BY <1>1, <1>2, <1>3, <1>4, <1>5, <1>6, <1>7, <1>8, <1>9, <1>10, <1>11, <1>12
     DEF Next, ClientStep, EvictStep, BWorkerStep, MainStep, Evictor

(* UnqueuedInMem depends on the map, the list and the victims. *)
LEMMA UnqueuedFrame ==
  ASSUME UnqueuedInMem, UNCHANGED <<m_map, m_list, victim>>
  PROVE  UnqueuedInMem'
BY DEF UnqueuedInMem, Listed, Taken

(* A new entry is KV_LOC_MEM, and the others stay as they are. *)
LEMMA UnqueuedInsert ==
  ASSUME UnqueuedInMem, m_list \in Seq(Key), m_map \in [Key -> Entry \cup {None}],
         OneHolder, NEW k \in Key, NEW v \in Val, m_map[k] = None, CacheInsert(k, v),
         UNCHANGED victim
  PROVE  UnqueuedInMem'
<1>1. m_map'[k].where = "mem" /\ \A j \in Key \ {k} : m_map'[j] = m_map[j]
  BY DEF CacheInsert, LruInsert
<1>2. \A j : Listed(j)' <=> j = k \/ Listed(j)
  BY InsertListed DEF OneHolder, CacheInsert
<1> QED
  BY <1>1, <1>2 DEF UnqueuedInMem, Taken

(* A move to the front changes no entry. *)
LEMMA UnqueuedTouch ==
  ASSUME UnqueuedInMem, OneHolder, m_list \in Seq(Key), NEW k \in Key,
         LruListed(m_list, k), m_list' = LruTouch(m_list, k), UNCHANGED <<m_map, victim>>
  PROVE  UnqueuedInMem'
<1>1. \A j : Listed(j)' <=> Listed(j)
  BY TouchKeeps DEF OneHolder, Listed
<1> QED
  BY <1>1 DEF UnqueuedInMem, Taken

(* Every step leaves the entries that are not queued KV_LOC_MEM. *)
LEMMA UnqueuedStep ==
  ASSUME IInv, [Next]_vars
  PROVE  UnqueuedInMem'
<1>0. /\ m_map \in [Key -> Entry \cup {None}]
      /\ m_list \in Seq(Key) /\ memQueue \in Seq(Key)
      /\ victim \in [Evictor -> Key \cup {None}]
      /\ job \in Job \cup {None}
      /\ req \in [Client -> Request \cup {None}]
      /\ HandsOK /\ CommandsOK /\ OneHolder /\ UnqueuedInMem
  BY DEF IInv, TypeOK, Thread, Evictor
<1>1. ASSUME NEW c \in Client,
             \/ MemUsedCheck(c) \/ Recheck(c) \/ Drain(c)
             \/ Lock(c, "exec") \/ SetFlash(c) \/ Kill(c) \/ Other(c)
             \/ Send(c) \/ Recv(c) \/ Close(c)
      PROVE  UnqueuedInMem'
  BY <1>0, <1>1, UnqueuedFrame DEF MemUsedCheck, Recheck, Drain, Lock,
     SetFlash, FlashInsert, Undefined, Kill, Destroy, Other, Send, Recv,
     Close, dataVars, reqVars, evictVars, memVars, queueVars, flashVars
<1>2. ASSUME NEW t \in Evictor,
             \/ EvictAll(t) \/ Post(t) \/ EvictWait(t)
      PROVE  UnqueuedInMem'
  BY <1>0, <1>2, UnqueuedFrame DEF EvictAll, Undefined, Post, EvictWait,
     dataVars, reqVars, evictVars, memVars, queueVars, flashVars
<1>3. ASSUME \/ SemWait \/ Dequeue \/ Lock(BWorker, "flush") \/ Sigint
             \/ DestroyFlash \/ ExitMain \/ FlashWriteError \/ DataRace
      PROVE  UnqueuedInMem'
  BY <1>0, <1>3, UnqueuedFrame DEF SemWait, Dequeue, Undefined, Lock, Sigint,
     DestroyFlash, Destroy, ExitMain, Exit, FlashWriteError, DataRace,
     dataVars, reqVars, evictVars, memVars, queueVars, flashVars
<1>4. ASSUME NEW t \in Evictor, Pop(t) PROVE UnqueuedInMem'
  <2>1. CASE m_list = <<>>
    BY <1>0, <1>4, <2>1, UnqueuedFrame DEF Pop, Undefined, dataVars, evictVars, memVars
  <2>2. CASE m_list # <<>>
    <3> DEFINE k == LruVictim(m_list)
    <3>1. /\ victim' = [victim EXCEPT ![t] = k] /\ m_list' = LruDropVictim(m_list)
          /\ m_map' = m_map
      BY <1>0, <1>4, <2>2 DEF Pop
    <3>2. IsInjective(m_list)
      BY <1>0 DEF OneHolder
    <3>3. Listed(k) /\ \A j : Listed(j)' <=> j # k /\ Listed(j)
      <4>1. /\ \E i \in DOMAIN m_list : m_list[i] = k
            /\ \A j : (\E i \in DOMAIN LruDropVictim(m_list) : LruDropVictim(m_list)[i] = j)
                        <=> j # k /\ (\E i \in DOMAIN m_list : m_list[i] = j)
        BY <1>0, <2>2, <3>2, DropVictimKeeps
      <4> QED
        BY <3>1, <4>1 DEF Listed
    <3> HIDE DEF k
    <3>4. \A j \in Key : Taken(j)' => j = k \/ Taken(j)
      BY <1>0, <3>1 DEF Taken
    <3> QED
      BY <1>0, <3>1, <3>3, <3>4 DEF UnqueuedInMem
  <2> QED
    BY <2>1, <2>2
<1>5. ASSUME NEW t \in Evictor, Mark(t) PROVE UnqueuedInMem'
  <2> DEFINE k == victim[t]
  <2>1. k \in Key /\ m_map[k] \in Entry /\ m_map[k].where = "mem"
    BY <1>5, VictimMapped DEF Mark, At
  <2>2. /\ victim' = [victim EXCEPT ![t] = None]
        /\ m_map' = [m_map EXCEPT ![k].where = "flushing"]
        /\ UNCHANGED m_list
    BY <1>5, <2>1 DEF Mark
  <2>3. Taken(k) /\ ~Listed(k)
    BY <1>0, <2>1 DEF OneHolder, Taken
  <2>4. \A j \in Key : Taken(j)' => j # k /\ Taken(j)
    BY <1>0, <2>1, <2>2, DataAssumption DEF Taken, OneHolder
  <2>5. \A j \in Key : j # k => m_map'[j] = m_map[j]
    BY <1>0, <2>2
  <2>6. \A j : Listed(j)' <=> Listed(j)
    BY <2>2 DEF Listed
  <2> HIDE DEF k
  <2> QED
    BY <1>0, <2>3, <2>4, <2>5, <2>6 DEF UnqueuedInMem
<1>6. ASSUME NEW c \in Client, SetLru(c) PROVE UnqueuedInMem'
  <2>1. req[c].key \in Key /\ req[c].val \in Val
    BY <1>0, <1>6, RequestFields DEF SetLru, At, CommandsOK
  <2>2. CASE Undefined
    BY <1>0, <2>2, UnqueuedFrame DEF Undefined, dataVars, evictVars, memVars
  <2>3. CASE m_map[req[c].key] = None
    BY <1>0, <1>6, <2>1, <2>2, <2>3, UnqueuedInsert DEF SetLru, evictVars
  <2>4. CASE m_map[req[c].key] # None /\ LruListed(m_list, req[c].key)
    BY <1>0, <1>6, <2>1, <2>2, <2>4, UnqueuedTouch DEF SetLru, evictVars
  <2> QED
    BY <1>6, <2>2, <2>3, <2>4 DEF SetLru
<1>7. ASSUME NEW c \in Client, Assign(c) PROVE UnqueuedInMem'
  <2> DEFINE k == req[c].key
  <2>1. k \in Key
    BY <1>0, <1>7, RequestFields DEF Assign, At, CommandsOK
  <2>2. /\ m_map' = [m_map EXCEPT ![k] = [val |-> req[c].val, where |-> "mem"]]
        /\ UNCHANGED <<m_list, victim>>
    BY <1>7 DEF Assign, evictVars
  <2>3. m_map'[k].where = "mem" /\ \A j \in Key \ {k} : m_map'[j] = m_map[j]
    BY <1>0, <2>1, <2>2
  <2> QED
    BY <1>0, <2>2, <2>3 DEF UnqueuedInMem, Listed, Taken
<1>8. ASSUME NEW c \in Client, GetMem(c) PROVE UnqueuedInMem'
  <2>1. req[c].key \in Key
    BY <1>0, <1>8, RequestFields DEF GetMem, At, CommandsOK
  <2>2. CASE Undefined
    BY <1>0, <2>2, UnqueuedFrame DEF Undefined, dataVars, evictVars, memVars
  <2>3. CASE ~Undefined
    BY <1>0, <1>8, <2>1, <2>3, UnqueuedTouch DEF GetMem, Reply, evictVars
  <2> QED
    BY <2>2, <2>3
<1>9. ASSUME NEW c \in Client, GetFlash(c) PROVE UnqueuedInMem'
  <2>1. req[c].key \in Key
    BY <1>0, <1>9, RequestFields DEF GetFlash, At, CommandsOK
  <2>2. CASE UNCHANGED memVars
    BY <1>0, <1>9, <2>2, UnqueuedFrame
       DEF GetFlash, Reply, Undefined, dataVars, evictVars, memVars
  <2>3. CASE ~UNCHANGED memVars
    <3>1. /\ m_map[req[c].key] = None /\ FlashHit(req[c].key)
          /\ CacheInsert(req[c].key, FlashRead(req[c].key))
          /\ UNCHANGED victim
      BY <1>9, <2>3 DEF GetFlash, Reply, Undefined, dataVars, evictVars
    <3>2. FlashRead(req[c].key) \in Val
      BY <2>1, <3>1, FlashReadType DEF FlashHit
    <3> QED
      BY <1>0, <2>1, <3>1, <3>2, UnqueuedInsert
  <2> QED
    BY <2>2, <2>3
<1>10. ASSUME Flush PROVE UnqueuedInMem'
  <2>1. CASE flash = "destroyed" /\ Undefined
    BY <1>0, <2>1, UnqueuedFrame DEF Undefined, dataVars, evictVars, memVars
  <2>2. CASE ~(flash = "destroyed" /\ Undefined)
    <3> DEFINE k == job.key
    <3>1. /\ m_map' = LruErase(m_map, k) /\ UNCHANGED <<m_list, victim>>
          /\ job # None
      BY <1>0, <1>10, <2>2 DEF Flush, At, HandsOK, evictVars
    <3>2. k \in Key /\ Flushing(k)
      BY <1>0, <3>1 DEF Flushing, Job
    <3>3. ~Listed(k) /\ ~Taken(k)
      BY <1>0, <3>2 DEF OneHolder
    <3>4. \A j \in Key \ {k} : m_map'[j] = m_map[j]
      BY <1>0, <3>1, <3>2 DEF LruErase
    <3>5. \A j : (Listed(j)' <=> Listed(j)) /\ (Taken(j)' <=> Taken(j))
      BY <3>1 DEF Listed, Taken
    <3> HIDE DEF k
    <3> QED
      BY <1>0, <3>3, <3>4, <3>5 DEF UnqueuedInMem
  <2> QED
    BY <2>1, <2>2
<1>11. CASE UNCHANGED vars
  BY <1>0, <1>11, UnqueuedFrame DEF vars, dataVars, reqVars, evictVars,
     memVars, queueVars, flashVars
<1> QED
  BY <1>1, <1>2, <1>3, <1>4, <1>5, <1>6, <1>7, <1>8, <1>9, <1>10, <1>11
     DEF Next, ClientStep, EvictStep, BWorkerStep, MainStep, Evictor

(* AssignMapped depends on which keys are mapped and on the requests of the
   connections that assign. *)
LEMMA AssignFrame ==
  ASSUME AssignMapped,
         \A c \in Client : pc'[c] = "assign" => pc[c] = "assign" /\ req'[c] = req[c],
         \A c \in Client : pc[c] = "assign" /\ m_map[req[c].key] # None
                             => m_map'[req[c].key] # None
  PROVE  AssignMapped'
BY DEF AssignMapped

(* Nobody assigns while another thread holds bworker_mutex. *)
LEMMA AssignAlone ==
  ASSUME MutexOK, NEW t \in Thread, pc[t] \in {"exec", "assign", "flush"},
         NEW c \in Client, pc[c] = "assign"
  PROVE  c = t
BY DEF MutexOK, Thread, Evictor

(* Every step keeps the entry that is being assigned mapped. *)
LEMMA AssignStep ==
  ASSUME IInv, [Next]_vars
  PROVE  AssignMapped'
<1>0. /\ pc \in [Thread -> Label]
      /\ req \in [Client -> Request \cup {None}]
      /\ m_map \in [Key -> Entry \cup {None}]
      /\ CommandsOK /\ MutexOK /\ AssignMapped
  BY DEF IInv, TypeOK, Thread, Evictor
<1>1. ASSUME NEW c \in Client,
             \/ MemUsedCheck(c) \/ Recheck(c) \/ Drain(c)
             \/ Lock(c, "exec") \/ SetFlash(c) \/ GetMem(c) \/ Kill(c)
             \/ Other(c) \/ Send(c) \/ Close(c)
      PROVE  AssignMapped'
  BY <1>0, <1>1, AssignFrame, ThreadAssumption DEF MemUsedCheck, Recheck,
     Drain, Lock, SetFlash, FlashInsert, Undefined, GetMem, Reply, Kill,
     Destroy, Other, Send, Close, Evictor, Thread, Goto, dataVars, reqVars,
     evictVars, memVars, queueVars, flashVars
<1>2. ASSUME NEW t \in Evictor,
             \/ EvictAll(t) \/ Pop(t) \/ Post(t) \/ EvictWait(t)
      PROVE  AssignMapped'
  BY <1>0, <1>2, AssignFrame, ThreadAssumption DEF EvictAll, Undefined, Pop,
     Post, Continue, EvictWait, Evictor, Thread, Goto, dataVars, reqVars,
     evictVars, memVars, queueVars, flashVars
<1>3. ASSUME \/ SemWait \/ Dequeue \/ Lock(BWorker, "flush") \/ Sigint
             \/ DestroyFlash \/ ExitMain \/ FlashWriteError \/ DataRace
      PROVE  AssignMapped'
  BY <1>0, <1>3, AssignFrame, ThreadAssumption DEF SemWait, Dequeue,
     Undefined, Lock, Sigint, DestroyFlash, Destroy, ExitMain, Exit,
     FlashWriteError, DataRace, Evictor, Thread, Goto, dataVars, reqVars,
     evictVars, memVars, queueVars, flashVars
<1>4. ASSUME NEW t \in Evictor, Mark(t) PROVE AssignMapped'
  <2>1. victim[t] \in Key /\ m_map[victim[t]] \in Entry /\ m_map[victim[t]].where = "mem"
    BY <1>4, VictimMapped DEF Mark, At
  <2>2. /\ m_map' = [m_map EXCEPT ![victim[t]].where = "flushing"]
        /\ pc' = [pc EXCEPT ![t] = "post"]
        /\ req' = req
    BY <1>4, <2>1 DEF Mark, Goto, reqVars
  <2>3. [m_map[victim[t]] EXCEPT !.where = "flushing"] # None
    BY <2>1, DataAssumption DEF Entry
  <2>4. ASSUME NEW k, m_map[k] # None PROVE m_map'[k] # None
    BY <1>0, <2>1, <2>2, <2>3, <2>4
  <2> QED
    BY <1>0, <2>2, <2>4, AssignFrame DEF Evictor, Thread
<1>5. ASSUME NEW c \in Client, SetLru(c) PROVE AssignMapped'
  <2>1. /\ req[c] \in Request /\ req[c].key \in Key
        /\ pc[c] = "exec" /\ c \in Thread /\ req' = req
    BY <1>0, <1>5, RequestFields
       DEF SetLru, At, CommandsOK, Undefined, dataVars, reqVars, Thread, Evictor
  <2>2. \A d \in Client : pc[d] # "assign"
    BY <1>0, <2>1, AssignAlone
  <2>3. ASSUME NEW d \in Client, pc'[d] = "assign" PROVE m_map'[req'[d].key] # None
    <3>1. d = c /\ m_map' = m_map /\ m_map[req[c].key] # None
      BY <1>0, <1>5, <2>2, <2>3 DEF SetLru, Goto, Undefined, Thread, Evictor
    <3> QED
      BY <2>1, <3>1
  <2> QED
    BY <2>3 DEF AssignMapped
<1>6. ASSUME NEW c \in Client, Assign(c) PROVE AssignMapped'
  <2>1. pc[c] = "assign" /\ c \in Thread /\ pc' = [pc EXCEPT ![c] = "send"]
    BY <1>6 DEF Assign, At, Goto, Thread, Evictor
  <2>2. \A d \in Client : pc[d] = "assign" => d = c
    BY <1>0, <2>1, AssignAlone
  <2>3. \A d \in Client : pc'[d] # "assign"
    BY <1>0, <2>1, <2>2 DEF Thread, Evictor
  <2> QED
    BY <2>3 DEF AssignMapped
<1>7. ASSUME NEW c \in Client, GetFlash(c) PROVE AssignMapped'
  <2>1. pc[c] = "exec" /\ c \in Thread /\ (pc' = pc \/ pc' = [pc EXCEPT ![c] = "send"])
    BY <1>7 DEF GetFlash, At, Goto, Reply, Undefined, Thread, Evictor
  <2>2. \A d \in Client : pc[d] # "assign"
    BY <1>0, <2>1, AssignAlone
  <2>3. \A d \in Client : pc'[d] # "assign"
    BY <1>0, <2>1, <2>2 DEF Thread, Evictor
  <2> QED
    BY <2>3 DEF AssignMapped
<1>8. ASSUME NEW c \in Client, Recv(c) PROVE AssignMapped'
  <2>1. PICK r \in Request : pc' = [pc EXCEPT ![c] = FirstLabel(r.cmd)] /\ req' = [req EXCEPT ![c] = r]
    BY <1>8 DEF Recv, Goto
  <2>2. FirstLabel(r.cmd) # "assign" /\ m_map' = m_map
    BY <1>8, RequestFields, FirstLabels DEF Recv, memVars
  <2> QED
    BY <1>0, <2>1, <2>2, AssignFrame DEF Thread, Evictor
<1>9. ASSUME Flush PROVE AssignMapped'
  <2>1. /\ pc[BWorker] = "flush" /\ BWorker \in Thread
        /\ pc' = pc \/ pc' = [pc EXCEPT ![BWorker] = "wait"]
    BY <1>9 DEF Flush, At, Goto, Undefined, Thread
  <2>2. \A d \in Client : pc[d] # "assign"
    BY <1>0, <2>1, AssignAlone, ThreadAssumption
  <2>3. \A d \in Client : pc'[d] # "assign"
    BY <1>0, <2>1, <2>2 DEF Thread, Evictor
  <2> QED
    BY <2>3 DEF AssignMapped
<1>10. CASE UNCHANGED vars
  BY <1>0, <1>10, AssignFrame DEF vars, Goto, dataVars, reqVars, evictVars,
     memVars, queueVars, flashVars
<1> QED
  BY <1>1, <1>2, <1>3, <1>4, <1>5, <1>6, <1>7, <1>8, <1>9, <1>10
     DEF Next, ClientStep, EvictStep, BWorkerStep, MainStep, Evictor

(* Append writes one record behind all others, in a file that is there or is
   created, and NextLBA is its address (flashcache.cc:293-332, :503-541). *)
LEMMA AppendedRecords ==
  ASSUME NEW k \in Key, NEW v \in Val,
         files \in Seq(Seq(Record)), files # <<>>
  PROVE  /\ Appended(k, v) \in Seq(Seq(Record)) /\ Appended(k, v) # <<>>
         /\ NextLBA \in LBA
         /\ NextLBA.cache_id \in DOMAIN Appended(k, v)
         /\ NextLBA.off \in DOMAIN Appended(k, v)[NextLBA.cache_id]
         /\ Appended(k, v)[NextLBA.cache_id][NextLBA.off] = [key |-> k, val |-> v]
         /\ \A f \in DOMAIN files : \A i \in DOMAIN files[f] :
              /\ f \in DOMAIN Appended(k, v)
              /\ i \in DOMAIN Appended(k, v)[f]
              /\ Appended(k, v)[f][i] = files[f][i]
         /\ \A f \in DOMAIN Appended(k, v) : \A i \in DOMAIN Appended(k, v)[f] :
              \/ Appended(k, v)[f][i] = [key |-> k, val |-> v]
              \/ /\ f \in DOMAIN files /\ i \in DOMAIN files[f]
                 /\ Appended(k, v)[f][i] = files[f][i]
<1> DEFINE w == WithFile
           n == Len(w)
           r == [key |-> k, val |-> v]
           l == w[n]
           a == Appended(k, v)
<1>1. /\ w \in Seq(Seq(Record)) /\ w # <<>>
      /\ \A f \in DOMAIN files : f \in DOMAIN w /\ w[f] = files[f]
      /\ \A f \in DOMAIN w : (f \in DOMAIN files /\ w[f] = files[f]) \/ w[f] = <<>>
  <2>1. CASE w = files
    BY <2>1
  <2>2. CASE w = Append(files, <<>>)
    <3>1. <<>> \in Seq(Record)
      OBVIOUS
    <3>2. w \in Seq(Seq(Record)) /\ Len(w) = Len(files) + 1
      BY <2>2, <3>1
    <3>3. \A f \in 1..Len(files) : w[f] = files[f]
      BY <2>2, <3>1
    <3>4. w[Len(files) + 1] = <<>>
      BY <2>2, <3>1
    <3>5. Len(files) \in Nat /\ DOMAIN files = 1..Len(files) /\ DOMAIN w = 1..Len(w)
      BY <3>2
    <3> HIDE DEF w
    <3>6. w # <<>>
      BY <3>2, <3>5
    <3>7. \A f \in DOMAIN files : f \in DOMAIN w /\ w[f] = files[f]
      BY <3>2, <3>3, <3>5
    <3>8. ASSUME NEW f \in DOMAIN w
          PROVE  (f \in DOMAIN files /\ w[f] = files[f]) \/ w[f] = <<>>
      <4>1. f \in 1..Len(files) \/ f = Len(files) + 1
        BY <3>2, <3>5
      <4> QED
        BY <3>3, <3>4, <3>5, <4>1
    <3> QED
      BY <3>2, <3>6, <3>7, <3>8
  <2> QED
    BY <2>1, <2>2 DEF WithFile
<1> HIDE DEF w
<1>2. n \in Nat \ {0} /\ n \in DOMAIN w /\ DOMAIN w = 1..n /\ l \in Seq(Record)
  BY <1>1
<1>3. r \in Record
  BY DEF Record
<1>4. a = [w EXCEPT ![n] = Append(l, r)] /\ NextLBA = [cache_id |-> n, off |-> Len(l) + 1]
  BY DEF Appended, NextLBA, w, Last
<1> HIDE DEF n, r, l, a
<1>5. /\ Append(l, r) \in Seq(Record)
      /\ Len(l) \in Nat
      /\ DOMAIN l = 1..Len(l)
      /\ DOMAIN Append(l, r) = 1..(Len(l) + 1)
      /\ Append(l, r)[Len(l) + 1] = r
      /\ \A i \in 1..Len(l) : Append(l, r)[i] = l[i]
  BY <1>2, <1>3
<1>6. /\ a \in Seq(Seq(Record)) /\ a # <<>>
      /\ DOMAIN a = 1..n
      /\ a[n] = Append(l, r)
      /\ \A f \in 1..n : f # n => a[f] = w[f]
  BY <1>1, <1>2, <1>4, <1>5
<1>7. NextLBA \in LBA /\ NextLBA.cache_id = n /\ NextLBA.off = Len(l) + 1
  BY <1>2, <1>4, <1>5 DEF LBA
<1>8. ASSUME NEW f \in DOMAIN files, NEW i \in DOMAIN files[f]
      PROVE  f \in DOMAIN a /\ i \in DOMAIN a[f] /\ a[f][i] = files[f][i]
  <2>1. f \in 1..n /\ w[f] = files[f]
    BY <1>1, <1>2
  <2>2. CASE f = n
    <3>1. i \in 1..Len(l) /\ l[i] = files[f][i]
      BY <1>5, <2>1, <2>2 DEF l
    <3> QED
      BY <1>5, <1>6, <2>1, <2>2, <3>1
  <2>3. CASE f # n
    BY <1>6, <2>1, <2>3
  <2> QED
    BY <2>2, <2>3
<1>9. ASSUME NEW f \in DOMAIN a, NEW i \in DOMAIN a[f]
      PROVE  \/ a[f][i] = r
             \/ f \in DOMAIN files /\ i \in DOMAIN files[f] /\ a[f][i] = files[f][i]
  <2>1. f \in 1..n
    BY <1>6
  <2>2. CASE f = n /\ i = Len(l) + 1
    BY <1>5, <1>6, <2>2
  <2>3. CASE f = n /\ i # Len(l) + 1
    <3>1. i \in 1..Len(l) /\ a[f][i] = l[i]
      BY <1>5, <1>6, <2>3
    <3>2. l # <<>>
      BY <1>5, <3>1
    <3>3. f \in DOMAIN files /\ l = files[f]
      BY <1>1, <1>2, <2>3, <3>2 DEF l
    <3> QED
      BY <1>5, <3>1, <3>3
  <2>4. CASE f # n
    <3>1. a[f] = w[f]
      BY <1>6, <2>1, <2>4
    <3>2. a[f] # <<>>
      OBVIOUS
    <3> QED
      BY <1>1, <1>2, <2>1, <3>1, <3>2
  <2> QED
    BY <2>2, <2>3, <2>4
<1>10. n \in DOMAIN a /\ Len(l) + 1 \in DOMAIN a[n] /\ a[n][Len(l) + 1] = r
  BY <1>2, <1>5, <1>6
<1> QED
  BY <1>6, <1>7, <1>8, <1>9, <1>10 DEF a, r

(* The size of the LRU cache is a natural number. *)
LEMMA SizeType ==
  ASSUME m_list \in Seq(Key)
  PROVE  LruSize(m_map, m_list) \in Nat
BY DEF LruSize

(* A step that leaves all data alone keeps its type. *)
LEMMA TypeFrame ==
  ASSUME TypeOK, UNCHANGED <<pc, dataVars>>, proc' \in {"running", "exited", "undefined"}
  PROVE  TypeOK'
BY DEF TypeOK, dataVars, reqVars, evictVars, memVars, queueVars, flashVars

(* Each eviction loop counts down to zero. *)
LEMMA ContinueType ==
  ASSUME pc \in [Thread -> Label], pool \in [Evictor -> Nat], NEW t \in Evictor,
         pool[t] > 0, Continue(t)
  PROVE  pc' \in [Thread -> Label] /\ pool' \in [Evictor -> Nat]
<1>1. pool[t] - 1 \in Nat
  OBVIOUS
<1>2. pool' \in [Evictor -> Nat]
  BY <1>1 DEF Continue
<1>3. pc' \in [Thread -> Label]
  BY DEF Continue, Goto, Label
<1> QED
  BY <1>2, <1>3

(* A new entry in the map and on the list. *)
LEMMA CacheInsertType ==
  ASSUME m_map \in [Key -> Entry \cup {None}], m_list \in Seq(Key),
         NEW k \in Key, NEW v \in Val, CacheInsert(k, v)
  PROVE  m_map' \in [Key -> Entry \cup {None}] /\ m_list' \in Seq(Key)
<1>1. [val |-> v, where |-> "mem"] \in Entry
  BY DEF Entry
<1>2. m_map' \in [Key -> Entry \cup {None}]
  BY <1>1 DEF CacheInsert, LruInsert
<1>3. m_list' \in Seq(Key)
  BY PushFrontIndex DEF CacheInsert
<1> QED
  BY <1>2, <1>3

(* A new record in the files, and perhaps in the index. *)
LEMMA FlashInsertType ==
  ASSUME files \in Seq(Seq(Record)), files # <<>>,
         block_index \in [Key -> LBA \cup {None}],
         NEW k \in Key, NEW v \in Val, FlashInsert(k, v)
  PROVE  /\ files' \in Seq(Seq(Record)) /\ files' # <<>>
         /\ block_index' \in [Key -> LBA \cup {None}]
         /\ UNCHANGED <<flash, fcache_mutex>>
<1>1. /\ Appended(k, v) \in Seq(Seq(Record)) /\ Appended(k, v) # <<>>
      /\ NextLBA \in LBA
  BY AppendedRecords
<1> QED
  BY <1>1 DEF FlashInsert

(* The request being executed has a key, and a value if it is a SET. *)
LEMMA ExecRequest ==
  ASSUME CommandsOK, NEW c \in Client, pc[c] \in {"exec", "assign"}
  PROVE  /\ req[c] \in Request /\ req[c].key \in Key
         /\ req[c].cmd = "set" => req[c].val \in Val
<1>1. req[c] \in Request /\ req[c].cmd \in {"set", "get"}
  BY DEF CommandsOK
<1> QED
  BY <1>1, RequestFields

(* Every step keeps the type of every variable. *)
LEMMA TypeStep ==
  ASSUME IInv, [Next]_vars
  PROVE  TypeOK'
<1>0. /\ TypeOK /\ HandsOK /\ CommandsOK /\ OneHolder
  BY DEF IInv, TypeOK, Thread, Evictor
<1>1. ASSUME NEW c \in Client,
             \/ Recheck(c) \/ Drain(c) \/ Lock(c, "exec") \/ Kill(c)
             \/ Other(c) \/ Send(c) \/ Close(c)
      PROVE  TypeOK'
  <2> USE ThreadAssumption DEF TypeOK, At, Goto, dataVars, reqVars, evictVars,
          memVars, queueVars, flashVars, Evictor, Thread, Label
  <2>1. CASE Recheck(c) \/ Drain(c)
    BY <1>0, <2>1 DEF Recheck, Drain, Undefined
  <2>2. CASE Lock(c, "exec") \/ Kill(c)
    BY <1>0, <2>2 DEF Lock, Kill, Destroy, Undefined
  <2>3. CASE Other(c) \/ Send(c) \/ Close(c)
    BY <1>0, <2>3 DEF Other, Send, Close, Undefined
  <2> QED
    BY <1>1, <2>1, <2>2, <2>3
<1>2. ASSUME NEW t \in Evictor,
             \/ EvictWait(t)
      PROVE  TypeOK'
  BY <1>0, <1>2, ThreadAssumption DEF EvictWait, TypeOK, At, Goto, dataVars,
     reqVars, evictVars, memVars, queueVars, flashVars, Evictor, Thread, Label
<1>3. ASSUME \/ SemWait \/ Lock(BWorker, "flush") \/ Sigint
             \/ DestroyFlash \/ ExitMain \/ FlashWriteError \/ DataRace
      PROVE  TypeOK'
  BY <1>0, <1>3, ThreadAssumption DEF SemWait, Lock, Sigint, DestroyFlash,
     Destroy, Undefined, ExitMain, Exit, FlashWriteError, DataRace, TypeOK,
     At, Goto, dataVars, reqVars, evictVars, memVars, queueVars, flashVars,
     Evictor, Thread, Label
<1>4. ASSUME NEW c \in Client, MemUsedCheck(c) PROVE TypeOK'
  <2>1. pc' \in [Thread -> Label]
    BY <1>0, <1>4 DEF MemUsedCheck, Goto, TypeOK, Label
  <2>2. pool' = pool \/ pool' = [pool EXCEPT ![c] = 1]
    BY <1>4 DEF MemUsedCheck
  <2>3. pool' \in [Evictor -> Nat]
    <3>1. pool \in [Evictor -> Nat]
      BY <1>0 DEF TypeOK
    <3>2. CASE pool' = [pool EXCEPT ![c] = 1]
      BY <3>1, <3>2
    <3> QED
      BY <2>2, <3>1, <3>2
  <2> QED
    BY <1>0, <1>4, <2>1, <2>3
       DEF MemUsedCheck, TypeOK, reqVars, memVars, queueVars, flashVars
<1>5. ASSUME NEW t \in Evictor, EvictAll(t) PROVE TypeOK'
  <2>1. CASE Undefined
    BY <1>0, <2>1, TypeFrame DEF Undefined
  <2>2. CASE ~Undefined
    <3>1. pc' \in [Thread -> Label]
      BY <1>0, <1>5, <2>2 DEF EvictAll, Goto, TypeOK, Label
    <3>2. LruSize(m_map, m_list) \in Nat
      BY <1>0, SizeType DEF TypeOK
    <3>3. pool' \in [Evictor -> Nat]
      BY <1>0, <1>5, <2>2, <3>2 DEF EvictAll, TypeOK, dataVars, evictVars
    <3> QED
      BY <1>0, <1>5, <2>2, <3>1, <3>3
         DEF EvictAll, TypeOK, dataVars, reqVars, evictVars, memVars, queueVars, flashVars
  <2> QED
    BY <2>1, <2>2
<1>6. ASSUME NEW t \in Evictor, Pop(t) PROVE TypeOK'
  <2>1. CASE Undefined
    BY <1>0, <2>1, TypeFrame DEF Undefined
  <2>2. CASE ~Undefined
    <3>1. m_list \in Seq(Key) /\ m_list # <<>> /\ victim \in [Evictor -> Key \cup {None}]
      BY <1>0, <1>6, <2>2 DEF Pop, TypeOK
    <3>2. LruVictim(m_list) \in Key /\ LruDropVictim(m_list) \in Seq(Key)
      BY <3>1, DropVictimIndex
    <3>3. m_list' \in Seq(Key) /\ victim' \in [Evictor -> Key \cup {None}]
      BY <1>6, <2>2, <3>1, <3>2 DEF Pop
    <3>4. pc' \in [Thread -> Label]
      BY <1>0, <1>6, <2>2 DEF Pop, Goto, TypeOK, Label
    <3> QED
      BY <1>0, <1>6, <2>2, <3>3, <3>4
         DEF Pop, TypeOK, reqVars, queueVars, flashVars
  <2> QED
    BY <2>1, <2>2
<1>7. ASSUME NEW t \in Evictor, Mark(t) PROVE TypeOK'
  <2> DEFINE k == victim[t]
  <2>1. k \in Key /\ m_map[k] \in Entry /\ m_map[k].where = "mem"
    BY <1>7, VictimMapped DEF Mark, At
  <2>2. /\ victim' = [victim EXCEPT ![t] = None]
        /\ m_map' = [m_map EXCEPT ![k].where = "flushing"]
        /\ memQueue' = Append(memQueue, k)
        /\ pc' = [pc EXCEPT ![t] = "post"]
        /\ pool' = pool
    BY <1>7, <2>1 DEF Mark, Goto
  <2>3. [m_map[k] EXCEPT !.where = "flushing"] \in Entry
    BY <2>1 DEF Entry
  <2>4. m_map' \in [Key -> Entry \cup {None}]
    BY <1>0, <2>1, <2>2, <2>3 DEF TypeOK
  <2>5. /\ victim' \in [Evictor -> Key \cup {None}]
        /\ pc' \in [Thread -> Label]
    BY <1>0, <2>2 DEF TypeOK, Label
  <2>6. memQueue \in Seq(Key) /\ memQueue' = Append(memQueue, k)
    BY <1>0, <2>2 DEF TypeOK
  <2>7. memQueue' \in Seq(Key)
    BY <2>1, <2>6
  <2> QED
    BY <1>0, <1>7, <2>2, <2>4, <2>5, <2>7 DEF Mark, TypeOK, reqVars, flashVars
<1>8. ASSUME NEW t \in Evictor, Post(t) PROVE TypeOK'
  <2>1. Continue(t) /\ pool[t] > 0
    BY <1>0, <1>8 DEF Post, At, HandsOK
  <2>2. pc' \in [Thread -> Label] /\ pool' \in [Evictor -> Nat]
    BY <1>0, <2>1, ContinueType DEF TypeOK
  <2> QED
    BY <1>0, <1>8, <2>2 DEF Post, TypeOK, reqVars, memVars, flashVars
<1>9. ASSUME NEW c \in Client, SetLru(c) PROVE TypeOK'
  <2>1. req[c].key \in Key /\ req[c].val \in Val
    BY <1>0, <1>9, ExecRequest DEF SetLru, At
  <2>2. CASE Undefined
    BY <1>0, <2>2, TypeFrame DEF Undefined
  <2>3. CASE m_map[req[c].key] = None
    <3>1. m_map' \in [Key -> Entry \cup {None}] /\ m_list' \in Seq(Key)
      BY <1>0, <1>9, <2>1, <2>2, <2>3, CacheInsertType DEF SetLru, TypeOK
    <3>2. pc' \in [Thread -> Label] /\ mutex' = None
      BY <1>0, <1>9, <2>3 DEF SetLru, Goto, Unlock, TypeOK, Label
    <3>3. written' = [written EXCEPT ![req[c].key] = @ \cup {req[c].val}]
      BY <1>9, <2>3 DEF SetLru, NoteWritten
    <3>4. written' \in [Key -> SUBSET Val]
      BY <1>0, <2>1, <3>3 DEF TypeOK
    <3> QED
      BY <1>0, <1>9, <2>3, <3>1, <3>2, <3>4
         DEF SetLru, TypeOK, reqVars, evictVars, queueVars, flashVars
  <2>4. CASE m_map[req[c].key] # None /\ LruListed(m_list, req[c].key)
    <3>1. IsInjective(m_list) /\ m_list \in Seq(Key)
      BY <1>0 DEF OneHolder, TypeOK
    <3>2. LruTouch(m_list, req[c].key) \in Seq(Key)
      BY <2>1, <2>4, <3>1, TouchIndex
    <3>3. m_list' \in Seq(Key) /\ pc' \in [Thread -> Label]
      BY <1>0, <1>9, <2>4, <3>2 DEF SetLru, Goto, TypeOK, Label
    <3> QED
      BY <1>0, <1>9, <2>4, <3>3
         DEF SetLru, TypeOK, reqVars, evictVars, queueVars, flashVars
  <2> QED
    BY <1>9, <2>2, <2>3, <2>4 DEF SetLru
<1>10. ASSUME NEW c \in Client, Assign(c) PROVE TypeOK'
  <2>1. req[c].key \in Key /\ req[c].val \in Val
    BY <1>0, <1>10, ExecRequest DEF Assign, At, CommandsOK
  <2>2. [val |-> req[c].val, where |-> "mem"] \in Entry
    BY <2>1 DEF Entry
  <2>3. m_map' \in [Key -> Entry \cup {None}]
    BY <1>0, <1>10, <2>2 DEF Assign, TypeOK
  <2>4. pc' \in [Thread -> Label] /\ mutex' = None /\ written' \in [Key -> SUBSET Val]
    BY <1>0, <1>10, <2>1 DEF Assign, Goto, Unlock, NoteWritten, TypeOK, Label
  <2> QED
    BY <1>0, <1>10, <2>3, <2>4
       DEF Assign, TypeOK, reqVars, evictVars, queueVars, flashVars
<1>11. ASSUME NEW c \in Client, SetFlash(c) PROVE TypeOK'
  <2>1. req[c].key \in Key /\ req[c].val \in Val
    BY <1>0, <1>11, ExecRequest DEF SetFlash, At
  <2>2. CASE Undefined
    BY <1>0, <2>2, TypeFrame DEF Undefined
  <2>3. CASE ~Undefined
    <3>1. /\ files' \in Seq(Seq(Record)) /\ files' # <<>>
          /\ block_index' \in [Key -> LBA \cup {None}]
          /\ UNCHANGED <<flash, fcache_mutex>>
      BY <1>0, <1>11, <2>1, <2>3, FlashInsertType DEF SetFlash, TypeOK
    <3>2. pc' \in [Thread -> Label] /\ mutex' = None
      BY <1>0, <1>11, <2>3 DEF SetFlash, Goto, Unlock, TypeOK, Label
    <3>3. written' = [written EXCEPT ![req[c].key] = @ \cup {req[c].val}]
      BY <1>11, <2>3 DEF SetFlash, NoteWritten
    <3>4. written' \in [Key -> SUBSET Val]
      BY <1>0, <2>1, <3>3 DEF TypeOK
    <3> QED
      BY <1>0, <1>11, <2>3, <3>1, <3>2, <3>4
         DEF SetFlash, TypeOK, reqVars, evictVars, memVars, queueVars
  <2> QED
    BY <2>2, <2>3
<1>12. ASSUME NEW c \in Client, GetMem(c) PROVE TypeOK'
  <2>1. req[c].key \in Key
    BY <1>0, <1>12, ExecRequest DEF GetMem, At
  <2>2. CASE Undefined
    BY <1>0, <2>2, TypeFrame DEF Undefined
  <2>3. CASE ~Undefined
    <3>1. IsInjective(m_list) /\ m_list \in Seq(Key) /\ LruListed(m_list, req[c].key)
      BY <1>0, <1>12, <2>3 DEF GetMem, OneHolder, TypeOK
    <3>2. LruTouch(m_list, req[c].key) \in Seq(Key)
      BY <2>1, <3>1, TouchIndex
    <3>3. m_map[req[c].key].val \in Val
      BY <1>0, <1>12, <2>1 DEF GetMem, TypeOK, Entry
    <3>4. /\ m_list' \in Seq(Key) /\ pc' \in [Thread -> Label] /\ mutex' = None
          /\ reply' \in [Client -> Val \cup {None}]
      BY <1>0, <1>12, <2>3, <3>2, <3>3 DEF GetMem, Reply, Goto, Unlock, TypeOK, Label
    <3> QED
      BY <1>0, <1>12, <2>3, <3>4
         DEF GetMem, Reply, TypeOK, evictVars, queueVars, flashVars
  <2> QED
    BY <2>2, <2>3
<1>13. ASSUME NEW c \in Client, GetFlash(c) PROVE TypeOK'
  <2>1. req[c].key \in Key
    BY <1>0, <1>13, ExecRequest DEF GetFlash, At
  <2>2. CASE Undefined
    BY <1>0, <2>2, TypeFrame DEF Undefined
  <2>3. CASE flash = "open" /\ FlashHit(req[c].key) /\ Reply(c, FlashRead(req[c].key))
    <3>1. FlashRead(req[c].key) \in Val
      BY <2>1, <2>3, FlashReadType DEF FlashHit
    <3>2. /\ pc' \in [Thread -> Label] /\ mutex' = None
          /\ reply' \in [Client -> Val \cup {None}]
          /\ UNCHANGED <<proc, req, ops, evictVars, queueVars, written>>
      BY <1>0, <2>3, <3>1 DEF Reply, Goto, Unlock, TypeOK, Label
    <3>3. UNCHANGED <<flash, fcache_mutex, files>>
      BY <1>13, <2>3 DEF GetFlash, FlashHit, FlashMiss, Undefined, dataVars, flashVars
    <3>4. \/ UNCHANGED <<memVars, block_index>>
          \/ /\ CacheInsert(req[c].key, FlashRead(req[c].key))
             /\ block_index' = [block_index EXCEPT ![req[c].key] = None]
      BY <1>13, <2>3 DEF GetFlash, FlashHit, FlashMiss
    <3>5. /\ m_map' \in [Key -> Entry \cup {None}] /\ m_list' \in Seq(Key)
          /\ block_index' \in [Key -> LBA \cup {None}]
      <4>1. CASE UNCHANGED <<memVars, block_index>>
        BY <1>0, <4>1 DEF memVars, TypeOK
      <4>2. CASE /\ CacheInsert(req[c].key, FlashRead(req[c].key))
                 /\ block_index' = [block_index EXCEPT ![req[c].key] = None]
        BY <1>0, <2>1, <3>1, <4>2, CacheInsertType DEF TypeOK
      <4> QED
        BY <3>4, <4>1, <4>2
    <3> QED
      BY <1>0, <3>2, <3>3, <3>5 DEF TypeOK, evictVars, queueVars
  <2>4. CASE flash = "open" /\ FlashMiss(c, req[c].key) /\ Reply(c, None) /\ UNCHANGED memVars
    <3>1. /\ pc' \in [Thread -> Label] /\ mutex' = None
          /\ reply' \in [Client -> Val \cup {None}]
          /\ fcache_mutex' \in Thread
      BY <1>0, <2>4 DEF Reply, FlashMiss, Goto, Unlock, TypeOK, Label, Thread, Evictor
    <3> QED
      BY <1>0, <2>4, <3>1 DEF Reply, FlashMiss, TypeOK, evictVars, memVars, queueVars
  <2> QED
    BY <1>13, <2>2, <2>3, <2>4 DEF GetFlash
<1>14. ASSUME NEW c \in Client, Recv(c) PROVE TypeOK'
  BY <1>0, <1>14, ThreadAssumption, RequestFields, FirstLabels,
     ConfigAssumption DEF Recv, TypeOK, At, Goto, dataVars, reqVars,
     evictVars, memVars, queueVars, flashVars, Evictor, Thread, Label
<1>15. ASSUME Dequeue PROVE TypeOK'
  <2>1. CASE Undefined
    BY <1>0, <2>1, TypeFrame DEF Undefined
  <2>2. CASE ~Undefined
    <3>1. memQueue # <<>> /\ memQueue \in Seq(Key)
      BY <1>0, <1>15, <2>2 DEF Dequeue, TypeOK
    <3>2. Tail(memQueue) \in Seq(Key)
      BY <3>1
    <3>3. [key |-> Head(memQueue), val |-> m_map[Head(memQueue)].val] \in Job
      BY <3>1, HeadMapped DEF Job
    <3>4. job' \in Job /\ memQueue' \in Seq(Key) /\ pc' \in [Thread -> Label]
      BY <1>0, <1>15, <2>2, <3>2, <3>3 DEF Dequeue, Goto, TypeOK, Label
    <3> QED
      BY <1>0, <1>15, <2>2, <3>4
         DEF Dequeue, TypeOK, reqVars, evictVars, memVars, flashVars
  <2> QED
    BY <2>1, <2>2
<1>16. ASSUME Flush PROVE TypeOK'
  <2>1. job.key \in Key /\ job.val \in Val
    BY <1>0, <1>16 DEF Flush, At, HandsOK, TypeOK, Job
  <2>2. CASE Undefined
    BY <1>0, <2>2, TypeFrame DEF Undefined
  <2>3. CASE ~Undefined
    <3>1. /\ files' \in Seq(Seq(Record)) /\ files' # <<>>
          /\ block_index' \in [Key -> LBA \cup {None}]
          /\ UNCHANGED <<flash, fcache_mutex>>
      BY <1>0, <1>16, <2>1, <2>3, FlashInsertType DEF Flush, TypeOK
    <3>2. /\ pc' \in [Thread -> Label] /\ mutex' = None /\ job' = None
          /\ m_map' \in [Key -> Entry \cup {None}]
      BY <1>0, <1>16, <2>3 DEF Flush, Goto, Unlock, LruErase, TypeOK, Label
    <3> QED
      BY <1>0, <1>16, <2>3, <3>1, <3>2 DEF Flush, TypeOK, reqVars, evictVars
  <2> QED
    BY <2>2, <2>3
<1>17. CASE UNCHANGED vars
  BY <1>0, <1>17, ThreadAssumption DEF vars, TypeOK, At, Goto, dataVars,
     reqVars, evictVars, memVars, queueVars, flashVars, Evictor, Thread, Label
<1> QED
  BY <1>1, <1>2, <1>3, <1>4, <1>5, <1>6, <1>7, <1>8, <1>9, <1>10, <1>11,
     <1>12, <1>13, <1>14, <1>15, <1>16, <1>17
     DEF Next, ClientStep, EvictStep, BWorkerStep, MainStep, Evictor

(* IndexSound depends on the files and the index. *)
LEMMA IndexFrame ==
  ASSUME IndexSound, UNCHANGED <<files, block_index>>
  PROVE  IndexSound'
BY DEF IndexSound

(* An insert indexes the record it appends, or leaves the index alone, and
   moves no record. *)
LEMMA IndexInsert ==
  ASSUME IndexSound, files \in Seq(Seq(Record)), files # <<>>,
         block_index \in [Key -> LBA \cup {None}],
         NEW k \in Key, NEW v \in Val, FlashInsert(k, v)
  PROVE  IndexSound'
<1> DEFINE a == Appended(k, v)
           n == NextLBA
<1>1. /\ files' = a
      /\ block_index' = block_index \/ block_index' = [block_index EXCEPT ![k] = n]
  BY DEF FlashInsert
<1>2. /\ n.cache_id \in DOMAIN a
      /\ n.off \in DOMAIN a[n.cache_id]
      /\ a[n.cache_id][n.off].key = k
      /\ \A f \in DOMAIN files : \A i \in DOMAIN files[f] :
           f \in DOMAIN a /\ i \in DOMAIN a[f] /\ a[f][i] = files[f][i]
  <2>1. /\ n.cache_id \in DOMAIN a
        /\ n.off \in DOMAIN a[n.cache_id]
        /\ a[n.cache_id][n.off] = [key |-> k, val |-> v]
        /\ \A f \in DOMAIN files : \A i \in DOMAIN files[f] :
             f \in DOMAIN a /\ i \in DOMAIN a[f] /\ a[f][i] = files[f][i]
    BY AppendedRecords
  <2> HIDE DEF a, n
  <2> QED
    BY <2>1
<1> HIDE DEF a, n
<1>3. \A j \in Key : \/ block_index'[j] = block_index[j]
                     \/ j = k /\ block_index'[j] = n
  <2>1. CASE block_index' = block_index
    BY <2>1
  <2>2. CASE block_index' = [block_index EXCEPT ![k] = n]
    BY <2>2
  <2> QED
    BY <1>1, <2>1, <2>2
<1>4. ASSUME NEW j \in Key, block_index'[j] # None
      PROVE  /\ block_index'[j].cache_id \in DOMAIN a
             /\ block_index'[j].off \in DOMAIN a[block_index'[j].cache_id]
             /\ a[block_index'[j].cache_id][block_index'[j].off].key = j
  <2>1. CASE j = k /\ block_index'[j] = n
    BY <1>2, <2>1
  <2>2. CASE block_index'[j] = block_index[j]
    BY <1>2, <1>4, <2>2 DEF IndexSound
  <2> QED
    BY <1>3, <2>1, <2>2
<1> QED
  BY <1>1, <1>4 DEF IndexSound

(* Every step keeps the index entries on records of their keys. *)
LEMMA IndexStep ==
  ASSUME IInv, [Next]_vars
  PROVE  IndexSound'
<1>0. /\ files \in Seq(Seq(Record)) /\ files # <<>>
      /\ block_index \in [Key -> LBA \cup {None}]
      /\ job \in Job \cup {None}
      /\ req \in [Client -> Request \cup {None}]
      /\ HandsOK /\ CommandsOK /\ IndexSound
  BY DEF IInv, TypeOK, Thread, Evictor
<1>1. ASSUME NEW c \in Client,
             \/ MemUsedCheck(c) \/ Recheck(c) \/ Drain(c)
             \/ Lock(c, "exec") \/ SetLru(c) \/ Assign(c) \/ GetMem(c)
             \/ Kill(c) \/ Other(c) \/ Send(c) \/ Recv(c) \/ Close(c)
      PROVE  IndexSound'
  BY <1>0, <1>1, IndexFrame DEF MemUsedCheck, Recheck, Drain, Lock, SetLru,
     Undefined, Assign, GetMem, Reply, Kill, Destroy, Other, Send, Recv,
     Close, dataVars, reqVars, evictVars, memVars, queueVars, flashVars
<1>2. ASSUME NEW t \in Evictor,
             \/ EvictAll(t) \/ Pop(t) \/ Mark(t) \/ Post(t)
             \/ EvictWait(t)
      PROVE  IndexSound'
  BY <1>0, <1>2, IndexFrame DEF EvictAll, Undefined, Pop, Mark, Post,
     EvictWait, dataVars, reqVars, evictVars, memVars, queueVars, flashVars
<1>3. ASSUME \/ SemWait \/ Dequeue \/ Lock(BWorker, "flush") \/ Sigint
             \/ DestroyFlash \/ ExitMain \/ FlashWriteError \/ DataRace
      PROVE  IndexSound'
  BY <1>0, <1>3, IndexFrame DEF SemWait, Dequeue, Undefined, Lock, Sigint,
     DestroyFlash, Destroy, ExitMain, Exit, FlashWriteError, DataRace,
     dataVars, reqVars, evictVars, memVars, queueVars, flashVars
<1>4. ASSUME NEW c \in Client, SetFlash(c) PROVE IndexSound'
  <2>1. req[c].key \in Key /\ req[c].val \in Val
    BY <1>0, <1>4, RequestFields DEF SetFlash, At, CommandsOK
  <2>2. CASE Undefined
    BY <1>0, <2>2, IndexFrame DEF Undefined, dataVars, flashVars
  <2>3. CASE ~Undefined
    BY <1>0, <1>4, <2>1, <2>3, IndexInsert DEF SetFlash
  <2> QED
    BY <2>2, <2>3
<1>5. ASSUME NEW c \in Client, GetFlash(c) PROVE IndexSound'
  <2>1. /\ files' = files
        /\ \/ block_index' = block_index
           \/ block_index' = [block_index EXCEPT ![req[c].key] = None]
    BY <1>5 DEF GetFlash, FlashMiss, Undefined, dataVars, flashVars
  <2>2. \A k \in Key : block_index'[k] # None => block_index'[k] = block_index[k]
    BY <1>0, <2>1
  <2> QED
    BY <1>0, <2>1, <2>2 DEF IndexSound
<1>6. ASSUME Flush PROVE IndexSound'
  <2>1. job.key \in Key /\ job.val \in Val
    BY <1>0, <1>6 DEF Flush, At, HandsOK, Job
  <2>2. CASE Undefined
    BY <1>0, <2>2, IndexFrame DEF Undefined, dataVars, flashVars
  <2>3. CASE ~Undefined
    BY <1>0, <1>6, <2>1, <2>3, IndexInsert DEF Flush
  <2> QED
    BY <2>2, <2>3
<1>7. CASE UNCHANGED vars
  BY <1>0, <1>7, IndexFrame DEF vars, dataVars, reqVars, evictVars, memVars,
     queueVars, flashVars
<1> QED
  BY <1>1, <1>2, <1>3, <1>4, <1>5, <1>6, <1>7
     DEF Next, ClientStep, EvictStep, BWorkerStep, MainStep, Evictor

(* ValuesWritten depends on the map, the job, the files and the history. *)
LEMMA ValuesFrame ==
  ASSUME ValuesWritten, UNCHANGED <<m_map, job, files, written>>
  PROVE  ValuesWritten'
BY DEF ValuesWritten, MapWritten, JobWritten, FilesWritten

(* What the index leads to was written by a SET of its key. *)
LEMMA FlashReadWritten ==
  ASSUME IInv, NEW k \in Key, block_index[k] # None
  PROVE  FlashRead(k) \in written[k]
<1> DEFINE f == block_index[k].cache_id
           i == block_index[k].off
<1>1. /\ f \in DOMAIN files /\ i \in DOMAIN files[f] /\ files[f][i].key = k
      /\ FilesWritten
  BY DEF IInv, IndexSound, ValuesWritten
<1> HIDE DEF f, i
<1>2. files[f][i].val \in written[k]
  BY <1>1 DEF FilesWritten
<1> QED
  BY <1>2 DEF FlashRead, f, i

(* Every record of a file has a key. *)
LEMMA RecordKeys ==
  ASSUME files \in Seq(Seq(Record)), NEW f \in DOMAIN files, NEW i \in DOMAIN files[f]
  PROVE  files[f][i].key \in Key
<1>1. files[f] \in Seq(Record)
  OBVIOUS
<1>2. files[f][i] \in Record
  BY <1>1
<1> QED
  BY <1>2 DEF Record

(* The history of SETs only grows. *)
LEMMA FilesStayWritten ==
  ASSUME files \in Seq(Seq(Record)), FilesWritten, files' = files,
         \A k \in Key : written[k] \subseteq written'[k]
  PROVE  FilesWritten'
<1>1. ASSUME NEW f \in DOMAIN files, NEW i \in DOMAIN files[f]
      PROVE  files[f][i].val \in written'[files[f][i].key]
  <2>1. files[f][i].key \in Key /\ files[f][i].val \in written[files[f][i].key]
    BY RecordKeys DEF FilesWritten
  <2> QED
    BY <2>1
<1> QED
  BY <1>1 DEF FilesWritten

(* An insert appends a record with a written value. *)
LEMMA FilesInsert ==
  ASSUME files \in Seq(Seq(Record)), files # <<>>, FilesWritten,
         NEW k \in Key, NEW v \in Val, FlashInsert(k, v), v \in written'[k],
         \A j \in Key : written[j] \subseteq written'[j]
  PROVE  FilesWritten'
<1> DEFINE a == Appended(k, v)
<1>1. files' = a
  BY DEF FlashInsert
<1>2. \A f \in DOMAIN a : \A i \in DOMAIN a[f] :
        \/ a[f][i] = [key |-> k, val |-> v]
        \/ f \in DOMAIN files /\ i \in DOMAIN files[f] /\ a[f][i] = files[f][i]
  BY AppendedRecords
<1> HIDE DEF a
<1>3. ASSUME NEW f \in DOMAIN a, NEW i \in DOMAIN a[f]
      PROVE  a[f][i].val \in written'[a[f][i].key]
  <2>1. CASE a[f][i] = [key |-> k, val |-> v]
    BY <2>1
  <2>2. CASE f \in DOMAIN files /\ i \in DOMAIN files[f] /\ a[f][i] = files[f][i]
    <3>1. files[f][i].key \in Key /\ files[f][i].val \in written[files[f][i].key]
      BY <2>2, RecordKeys DEF FilesWritten
    <3> QED
      BY <2>2, <3>1
  <2> QED
    BY <1>2, <2>1, <2>2
<1> QED
  BY <1>1, <1>3 DEF FilesWritten

(* Every step keeps every stored value one that a SET wrote. *)
LEMMA ValuesStep ==
  ASSUME IInv, [Next]_vars
  PROVE  ValuesWritten'
<1>0. /\ m_map \in [Key -> Entry \cup {None}]
      /\ files \in Seq(Seq(Record)) /\ files # <<>>
      /\ block_index \in [Key -> LBA \cup {None}]
      /\ written \in [Key -> SUBSET Val]
      /\ job \in Job \cup {None}
      /\ req \in [Client -> Request \cup {None}]
      /\ HandsOK /\ CommandsOK /\ ValuesWritten
  BY DEF IInv, TypeOK, Thread, Evictor
<1>1. ASSUME NEW c \in Client,
             \/ MemUsedCheck(c) \/ Recheck(c) \/ Drain(c)
             \/ Lock(c, "exec") \/ GetMem(c) \/ Kill(c) \/ Other(c)
             \/ Send(c) \/ Recv(c) \/ Close(c)
      PROVE  ValuesWritten'
  BY <1>0, <1>1, ValuesFrame DEF MemUsedCheck, Recheck, Drain, Lock, GetMem,
     Reply, Undefined, Kill, Destroy, Other, Send, Recv, Close, dataVars,
     reqVars, evictVars, memVars, queueVars, flashVars
<1>2. ASSUME NEW t \in Evictor,
             \/ EvictAll(t) \/ Pop(t) \/ Post(t) \/ EvictWait(t)
      PROVE  ValuesWritten'
  BY <1>0, <1>2, ValuesFrame DEF EvictAll, Undefined, Pop, Post, EvictWait,
     dataVars, reqVars, evictVars, memVars, queueVars, flashVars
<1>3. ASSUME \/ SemWait \/ Lock(BWorker, "flush") \/ Sigint
             \/ DestroyFlash \/ ExitMain \/ FlashWriteError \/ DataRace
      PROVE  ValuesWritten'
  BY <1>0, <1>3, ValuesFrame DEF SemWait, Lock, Sigint, DestroyFlash, Destroy,
     Undefined, ExitMain, Exit, FlashWriteError, DataRace, dataVars, reqVars,
     evictVars, memVars, queueVars, flashVars
<1>4. ASSUME NEW t \in Evictor, Mark(t) PROVE ValuesWritten'
  <2> DEFINE k == victim[t]
  <2>1. k \in Key /\ m_map[k] \in Entry /\ m_map[k].where = "mem"
    BY <1>4, VictimMapped DEF Mark, At
  <2>2. /\ m_map' = [m_map EXCEPT ![k].where = "flushing"]
        /\ UNCHANGED <<job, files, written>>
    BY <1>4, <2>1 DEF Mark, flashVars
  <2>3. /\ m_map'[k].val = m_map[k].val /\ m_map[k] # None
        /\ \A j \in Key \ {k} : m_map'[j] = m_map[j]
    BY <1>0, <2>1, <2>2, DataAssumption DEF Entry
  <2>4. MapWritten'
    BY <1>0, <2>2, <2>3 DEF ValuesWritten, MapWritten
  <2> QED
    BY <1>0, <2>2, <2>4 DEF ValuesWritten, JobWritten, FilesWritten
<1>5. ASSUME NEW c \in Client, SetLru(c) PROVE ValuesWritten'
  <2> DEFINE k == req[c].key
  <2>1. k \in Key /\ req[c].val \in Val
    BY <1>0, <1>5, RequestFields DEF SetLru, At, CommandsOK
  <2>2. CASE m_map[k] # None
    BY <1>0, <1>5, <2>2, ValuesFrame
       DEF SetLru, Undefined, dataVars, memVars, queueVars, flashVars
  <2>3. CASE m_map[k] = None
    <3>1. /\ m_map' = [m_map EXCEPT ![k] = [val |-> req[c].val, where |-> "mem"]]
          /\ written' = [written EXCEPT ![k] = @ \cup {req[c].val}]
          /\ UNCHANGED <<job, files>>
      BY <1>5, <2>3 DEF SetLru, CacheInsert, LruInsert, NoteWritten, queueVars, flashVars
    <3>2. /\ m_map'[k].val = req[c].val /\ req[c].val \in written'[k]
          /\ \A j \in Key \ {k} : m_map'[j] = m_map[j]
          /\ \A j \in Key : written[j] \subseteq written'[j]
      BY <1>0, <2>1, <3>1
    <3> HIDE DEF k
    <3>3. MapWritten'
      BY <1>0, <3>2 DEF ValuesWritten, MapWritten
    <3>4. JobWritten' /\ FilesWritten'
      <4>1. job # None => job.key \in Key
        BY <1>0 DEF Job
      <4> QED
        BY <1>0, <3>1, <3>2, <4>1, FilesStayWritten DEF ValuesWritten, JobWritten
    <3> QED
      BY <3>3, <3>4 DEF ValuesWritten
  <2> QED
    BY <2>2, <2>3
<1>6. ASSUME NEW c \in Client, Assign(c) PROVE ValuesWritten'
  <2> DEFINE k == req[c].key
  <2>1. k \in Key /\ req[c].val \in Val
    BY <1>0, <1>6, RequestFields DEF Assign, At, CommandsOK
  <2>2. /\ m_map' = [m_map EXCEPT ![k] = [val |-> req[c].val, where |-> "mem"]]
        /\ written' = [written EXCEPT ![k] = @ \cup {req[c].val}]
        /\ UNCHANGED <<job, files>>
    BY <1>6 DEF Assign, NoteWritten, queueVars, flashVars
  <2>3. /\ m_map'[k].val = req[c].val /\ req[c].val \in written'[k]
        /\ \A j \in Key \ {k} : m_map'[j] = m_map[j]
        /\ \A j \in Key : written[j] \subseteq written'[j]
    BY <1>0, <2>1, <2>2
  <2> HIDE DEF k
  <2>4. MapWritten'
    BY <1>0, <2>3 DEF ValuesWritten, MapWritten
  <2>5. JobWritten' /\ FilesWritten'
    <3>1. job # None => job.key \in Key
      BY <1>0 DEF Job
    <3> QED
      BY <1>0, <2>2, <2>3, <3>1, FilesStayWritten DEF ValuesWritten, JobWritten
  <2> QED
    BY <2>4, <2>5 DEF ValuesWritten
<1>7. ASSUME NEW c \in Client, SetFlash(c) PROVE ValuesWritten'
  <2> DEFINE k == req[c].key
  <2>1. k \in Key /\ req[c].val \in Val
    BY <1>0, <1>7, RequestFields DEF SetFlash, At, CommandsOK
  <2>2. CASE Undefined
    BY <1>0, <2>2, ValuesFrame DEF Undefined, dataVars, memVars, queueVars, flashVars
  <2>3. CASE ~Undefined
    <3>1. /\ FlashInsert(k, req[c].val) /\ UNCHANGED <<m_map, job>>
          /\ written' = [written EXCEPT ![k] = @ \cup {req[c].val}]
      BY <1>7, <2>3 DEF SetFlash, NoteWritten, memVars, queueVars
    <3>2. req[c].val \in written'[k] /\ \A j \in Key : written[j] \subseteq written'[j]
      BY <1>0, <2>1, <3>1
    <3> HIDE DEF k
    <3>3. FilesWritten'
      BY <1>0, <2>1, <3>1, <3>2, FilesInsert DEF ValuesWritten
    <3>4. job # None => job.key \in Key
      BY <1>0 DEF Job
    <3> QED
      BY <1>0, <3>1, <3>2, <3>3, <3>4 DEF ValuesWritten, MapWritten, JobWritten
  <2> QED
    BY <2>2, <2>3
<1>8. ASSUME NEW c \in Client, GetFlash(c) PROVE ValuesWritten'
  <2> DEFINE k == req[c].key
  <2>1. k \in Key
    BY <1>0, <1>8, RequestFields DEF GetFlash, At, CommandsOK
  <2>2. CASE UNCHANGED m_map
    BY <1>0, <1>8, <2>2, ValuesFrame
       DEF GetFlash, FlashMiss, Reply, Undefined, dataVars, queueVars, flashVars
  <2>3. CASE ~UNCHANGED m_map
    <3>1. /\ m_map' = [m_map EXCEPT ![k] = [val |-> FlashRead(k), where |-> "mem"]]
          /\ UNCHANGED <<job, files, written>> /\ block_index[k] # None
      BY <1>8, <2>3 DEF GetFlash, FlashMiss, FlashHit, Reply, CacheInsert, LruInsert,
         Undefined, dataVars, memVars, queueVars
    <3>2. FlashRead(k) \in written[k]
      BY <2>1, <3>1, FlashReadWritten
    <3>3. m_map'[k].val = FlashRead(k) /\ \A j \in Key \ {k} : m_map'[j] = m_map[j]
      BY <1>0, <2>1, <3>1
    <3> HIDE DEF k
    <3>4. MapWritten'
      BY <1>0, <3>1, <3>2, <3>3 DEF ValuesWritten, MapWritten
    <3> QED
      BY <1>0, <3>1, <3>4 DEF ValuesWritten, JobWritten, FilesWritten
  <2> QED
    BY <2>2, <2>3
<1>9. ASSUME Dequeue PROVE ValuesWritten'
  <2>1. CASE memQueue = <<>>
    BY <1>0, <1>9, <2>1, ValuesFrame
       DEF Dequeue, Undefined, dataVars, memVars, queueVars, flashVars
  <2>2. CASE memQueue # <<>>
    <3> DEFINE k == Head(memQueue)
    <3>1. k \in Key /\ m_map[k] \in Entry
      BY <2>2, HeadMapped
    <3>2. /\ job' = [key |-> k, val |-> m_map[k].val]
          /\ UNCHANGED <<m_map, files, written>>
      BY <1>9, <2>2 DEF Dequeue, memVars, flashVars
    <3>3. m_map[k].val \in written[k]
      BY <1>0, <3>1, DataAssumption DEF ValuesWritten, MapWritten
    <3> HIDE DEF k
    <3>4. JobWritten'
      BY <3>2, <3>3 DEF JobWritten
    <3> QED
      BY <1>0, <3>2, <3>4 DEF ValuesWritten, MapWritten, FilesWritten
  <2> QED
    BY <2>1, <2>2
<1>10. ASSUME Flush PROVE ValuesWritten'
  <2>1. job # None /\ job.key \in Key /\ job.val \in Val
    BY <1>0, <1>10 DEF Flush, At, HandsOK, Job
  <2>2. CASE Undefined
    BY <1>0, <2>2, ValuesFrame DEF Undefined, dataVars, memVars, queueVars, flashVars
  <2>3. CASE ~Undefined
    <3>1. /\ FlashInsert(job.key, job.val) /\ m_map' = [m_map EXCEPT ![job.key] = None]
          /\ job' = None /\ written' = written
      BY <1>10, <2>3 DEF Flush, LruErase
    <3>2. FilesWritten'
      BY <1>0, <2>1, <3>1, FilesInsert DEF ValuesWritten, JobWritten
    <3>3. MapWritten'
      BY <1>0, <3>1 DEF ValuesWritten, MapWritten
    <3> QED
      BY <3>1, <3>2, <3>3 DEF ValuesWritten, JobWritten
  <2> QED
    BY <2>2, <2>3
<1>11. CASE UNCHANGED vars
  BY <1>0, <1>11, ValuesFrame DEF vars, dataVars, reqVars, evictVars, memVars,
     queueVars, flashVars
<1> QED
  BY <1>1, <1>2, <1>3, <1>4, <1>5, <1>6, <1>7, <1>8, <1>9, <1>10, <1>11
     DEF Next, ClientStep, EvictStep, BWorkerStep, MainStep, Evictor

(* NothingLost depends on what is written, mapped and indexed. *)
LEMMA LostFrame ==
  ASSUME NothingLost, written' = written,
         \A k \in Key : m_map[k] # None \/ block_index[k] # None
                          => m_map'[k] # None \/ block_index'[k] # None
  PROVE  NothingLost'
BY DEF NothingLost

(* After FlashInsert the key is indexed, and so are all that were. *)
LEMMA InsertIndexes ==
  ASSUME files \in Seq(Seq(Record)), files # <<>>,
         block_index \in [Key -> LBA \cup {None}],
         NEW k \in Key, NEW v \in Val, FlashInsert(k, v)
  PROVE  \A j \in Key : j = k \/ block_index[j] # None => block_index'[j] # None
<1>1. NextLBA # None
  BY AppendedRecords, DataAssumption
<1>2. \/ block_index' = block_index /\ block_index[k] # None
      \/ block_index' = [block_index EXCEPT ![k] = NextLBA]
  BY DEF FlashInsert
<1> QED
  BY <1>1, <1>2

(* Every step keeps each written key in memory or in the index. *)
LEMMA LostStep ==
  ASSUME IInv, [Next]_vars
  PROVE  NothingLost'
<1>0. /\ m_map \in [Key -> Entry \cup {None}]
      /\ files \in Seq(Seq(Record)) /\ files # <<>>
      /\ block_index \in [Key -> LBA \cup {None}]
      /\ written \in [Key -> SUBSET Val]
      /\ job \in Job \cup {None}
      /\ req \in [Client -> Request \cup {None}]
      /\ HandsOK /\ CommandsOK /\ NothingLost
  BY DEF IInv, TypeOK, Thread, Evictor
<1>1. ASSUME NEW c \in Client,
             \/ MemUsedCheck(c) \/ Recheck(c) \/ Drain(c)
             \/ Lock(c, "exec") \/ GetMem(c) \/ Kill(c) \/ Other(c)
             \/ Send(c) \/ Recv(c) \/ Close(c)
      PROVE  NothingLost'
  BY <1>0, <1>1, LostFrame DEF MemUsedCheck, Recheck, Drain, Lock, GetMem,
     Reply, Undefined, Kill, Destroy, Other, Send, Recv, Close, dataVars,
     reqVars, evictVars, memVars, queueVars, flashVars
<1>2. ASSUME NEW t \in Evictor,
             \/ EvictAll(t) \/ Pop(t) \/ Post(t) \/ EvictWait(t)
      PROVE  NothingLost'
  BY <1>0, <1>2, LostFrame DEF EvictAll, Undefined, Pop, Post, EvictWait,
     dataVars, reqVars, evictVars, memVars, queueVars, flashVars
<1>3. ASSUME \/ SemWait \/ Dequeue \/ Lock(BWorker, "flush") \/ Sigint
             \/ DestroyFlash \/ ExitMain \/ FlashWriteError \/ DataRace
      PROVE  NothingLost'
  BY <1>0, <1>3, LostFrame DEF SemWait, Dequeue, Undefined, Lock, Sigint,
     DestroyFlash, Destroy, ExitMain, Exit, FlashWriteError, DataRace,
     dataVars, reqVars, evictVars, memVars, queueVars, flashVars
<1>4. ASSUME NEW t \in Evictor, Mark(t) PROVE NothingLost'
  <2> DEFINE k == victim[t]
  <2>1. k \in Key /\ m_map[k] \in Entry /\ m_map[k].where = "mem"
    BY <1>4, VictimMapped DEF Mark, At
  <2>2. /\ m_map' = [m_map EXCEPT ![k].where = "flushing"]
        /\ UNCHANGED <<block_index, written>>
    BY <1>4, <2>1 DEF Mark, flashVars
  <2>3. [m_map[k] EXCEPT !.where = "flushing"] # None
    BY <2>1, DataAssumption DEF Entry
  <2>4. \A j \in Key : m_map[j] # None => m_map'[j] # None
    BY <1>0, <2>1, <2>2, <2>3
  <2> QED
    BY <1>0, <2>2, <2>4, LostFrame
<1>5. ASSUME NEW c \in Client, SetLru(c) PROVE NothingLost'
  <2> DEFINE k == req[c].key
  <2>1. k \in Key /\ req[c].val \in Val
    BY <1>0, <1>5, RequestFields DEF SetLru, At, CommandsOK
  <2>2. [val |-> req[c].val, where |-> "mem"] # None
    BY <2>1, DataAssumption DEF Entry
  <2>3. CASE m_map[k] # None
    BY <1>0, <1>5, <2>3, LostFrame
       DEF SetLru, Undefined, dataVars, memVars, flashVars
  <2>4. CASE m_map[k] = None
    <3>1. /\ m_map' = [m_map EXCEPT ![k] = [val |-> req[c].val, where |-> "mem"]]
          /\ written' = [written EXCEPT ![k] = @ \cup {req[c].val}]
          /\ UNCHANGED block_index
      BY <1>5, <2>4 DEF SetLru, CacheInsert, LruInsert, NoteWritten, flashVars
    <3> QED
      BY <1>0, <2>1, <2>2, <3>1 DEF NothingLost
  <2> QED
    BY <2>3, <2>4
<1>6. ASSUME NEW c \in Client, Assign(c) PROVE NothingLost'
  <2> DEFINE k == req[c].key
  <2>1. k \in Key /\ req[c].val \in Val
    BY <1>0, <1>6, RequestFields DEF Assign, At, CommandsOK
  <2>2. [val |-> req[c].val, where |-> "mem"] # None
    BY <2>1, DataAssumption DEF Entry
  <2>3. /\ m_map' = [m_map EXCEPT ![k] = [val |-> req[c].val, where |-> "mem"]]
        /\ written' = [written EXCEPT ![k] = @ \cup {req[c].val}]
        /\ UNCHANGED block_index
    BY <1>6 DEF Assign, NoteWritten, flashVars
  <2> QED
    BY <1>0, <2>1, <2>2, <2>3 DEF NothingLost
<1>7. ASSUME NEW c \in Client, SetFlash(c) PROVE NothingLost'
  <2>1. req[c].key \in Key /\ req[c].val \in Val
    BY <1>0, <1>7, RequestFields DEF SetFlash, At, CommandsOK
  <2>2. CASE Undefined
    BY <1>0, <2>2, LostFrame DEF Undefined, dataVars, memVars, flashVars
  <2>3. CASE ~Undefined
    <3>1. /\ FlashInsert(req[c].key, req[c].val) /\ m_map' = m_map
          /\ written' = [written EXCEPT ![req[c].key] = @ \cup {req[c].val}]
      BY <1>7, <2>3 DEF SetFlash, NoteWritten, memVars
    <3>2. \A j \in Key : j = req[c].key \/ block_index[j] # None => block_index'[j] # None
      BY <1>0, <2>1, <3>1, InsertIndexes
    <3> QED
      BY <1>0, <2>1, <3>1, <3>2 DEF NothingLost
  <2> QED
    BY <2>2, <2>3
<1>8. ASSUME NEW c \in Client, GetFlash(c) PROVE NothingLost'
  <2> DEFINE k == req[c].key
  <2>1. k \in Key
    BY <1>0, <1>8, RequestFields DEF GetFlash, At, CommandsOK
  <2>2. CASE UNCHANGED <<m_map, block_index>>
    BY <1>0, <1>8, <2>2, LostFrame DEF GetFlash, Reply, Undefined, dataVars
  <2>3. CASE ~UNCHANGED <<m_map, block_index>>
    <3>1. /\ m_map' = [m_map EXCEPT ![k] = [val |-> FlashRead(k), where |-> "mem"]]
          /\ block_index' = [block_index EXCEPT ![k] = None] /\ written' = written
          /\ FlashHit(k)
      BY <1>8, <2>3 DEF GetFlash, FlashMiss, Reply, CacheInsert, LruInsert, Undefined,
         dataVars, memVars, flashVars
    <3>2. FlashRead(k) \in Val
      BY <2>1, <3>1, FlashReadType DEF FlashHit
    <3>3. [val |-> FlashRead(k), where |-> "mem"] # None
      BY <3>2, DataAssumption DEF Entry
    <3>4. \A j \in Key : IF j = k THEN m_map'[j] # None
                         ELSE m_map'[j] = m_map[j] /\ block_index'[j] = block_index[j]
      BY <1>0, <3>1, <3>3
    <3> QED
      BY <1>0, <3>1, <3>4, LostFrame
  <2> QED
    BY <2>2, <2>3
<1>9. ASSUME Flush PROVE NothingLost'
  <2>1. job.key \in Key /\ job.val \in Val
    BY <1>0, <1>9 DEF Flush, At, HandsOK, Job
  <2>2. CASE Undefined
    BY <1>0, <2>2, LostFrame DEF Undefined, dataVars, memVars, flashVars
  <2>3. CASE ~Undefined
    <3>1. /\ FlashInsert(job.key, job.val) /\ m_map' = [m_map EXCEPT ![job.key] = None]
          /\ written' = written
      BY <1>9, <2>3 DEF Flush, LruErase
    <3>2. \A j \in Key : j = job.key \/ block_index[j] # None => block_index'[j] # None
      BY <1>0, <2>1, <3>1, InsertIndexes
    <3> QED
      BY <1>0, <3>1, <3>2, LostFrame
  <2> QED
    BY <2>2, <2>3
<1>10. CASE UNCHANGED vars
  BY <1>0, <1>10, LostFrame DEF vars, dataVars, reqVars, evictVars, memVars,
     queueVars, flashVars
<1> QED
  BY <1>1, <1>2, <1>3, <1>4, <1>5, <1>6, <1>7, <1>8, <1>9, <1>10
     DEF Next, ClientStep, EvictStep, BWorkerStep, MainStep, Evictor

(* The initial state satisfies the inductive invariant. *)
LEMMA InitIInv ==
  ASSUME Init
  PROVE  IInv
<1>1. TypeOK
  BY ThreadAssumption, DataAssumption, ConfigAssumption
     DEF Init, TypeOK, Label, Thread, Evictor
<1>2. /\ pc[Main] = "spin" /\ pc[BWorker] = "wait"
      /\ \A c \in Client : pc[c] = "recv"
  BY ThreadAssumption DEF Init, Thread, Evictor
<1>3. PlacesOK /\ CommandsOK
  BY <1>2 DEF PlacesOK, CommandsOK, MainLabel, BWorkerLabel, ClientLabel
<1>4. HandsOK
  BY <1>2 DEF Init, HandsOK, Evictor
<1>5. MutexOK
  BY <1>2, ThreadAssumption DEF Init, MutexOK, Thread, Evictor
<1>6. SemMatchesQueue
  <2>1. Posting = {}
    BY <1>2 DEF Posting, Evictor
  <2>2. Cardinality(Posting) = 0
    BY <2>1, FS_EmptySet
  <2> QED
    BY <1>2, <2>2 DEF Init, SemMatchesQueue
<1>7. \A k \in Key : ~Listed(k) /\ ~Taken(k) /\ ~Queued(k) /\ ~Flushing(k) /\ m_map[k] = None
  BY DataAssumption DEF Init, Listed, Taken, Queued, Flushing
<1>8. OneHolder
  BY <1>7 DEF Init, OneHolder, IsInjective
<1>9. UnqueuedInMem /\ AssignMapped
  BY <1>2, <1>7 DEF UnqueuedInMem, AssignMapped
<1>10. IndexSound /\ NothingLost
  BY DEF Init, IndexSound, NothingLost
<1>11. ValuesWritten
  BY DEF Init, ValuesWritten, MapWritten, JobWritten, FilesWritten
<1> QED
  BY <1>1, <1>3, <1>4, <1>5, <1>6, <1>8, <1>9, <1>10, <1>11 DEF IInv

-----------------------------------------------------------------------------
(* The inductive invariant holds in every reachable state: each step of any
   thread keeps each of its parts. *)
THEOREM Invariance == Spec => []IInv
<1>1. Init => IInv
  BY InitIInv
<1>2. IInv /\ [Next]_vars => IInv'
  <2> SUFFICES ASSUME IInv, [Next]_vars PROVE IInv'
    OBVIOUS
  <2> QED
    BY TypeStep, PlacesStep, CommandsStep, HandsStep, MutexStep, SemStep,
       OneHolderStep, UnqueuedStep, AssignStep, IndexStep, ValuesStep, LostStep
       DEF IInv
<1> QED
  BY <1>1, <1>2, PTL DEF Spec

(* Every variable keeps its type, through every interleaving of the
   connections, the tiering thread and the SIGINT handler. *)
THEOREM TypeCorrect == Spec => []TypeOK
BY Invariance, PTL DEF IInv

(* The queue between the evicting threads and the tiering thread is exactly
   as long as sem_bworker and the steps under way say (command.c:23-24,
   bworker.c:62-66). *)
THEOREM SemaphoreCorrect == Spec => []SemMatchesQueue
BY Invariance, PTL DEF IInv

(* Each mapped entry has exactly one holder, and no holder has a freed one
   (command.c:15-25, bworker.c:63-76). *)
THEOREM OwnershipCorrect == Spec => []OneHolder
BY Invariance, PTL DEF IInv

(* Every index entry leads to a record of its own key (flashcache.cc:293,
   :416, :503-541). *)
THEOREM IndexCorrect == Spec => []IndexSound
BY Invariance, PTL DEF IInv

-----------------------------------------------------------------------------
(* The visible values.                                                     *)

(* A step that keeps what is mapped and indexed under k, and the record that
   the index names, keeps what a GET of k finds. *)
LEMMA VisibleKept ==
  ASSUME IndexSound, NEW k \in Key,
         \/ m_map'[k] = m_map[k]
         \/ m_map[k] # None /\ m_map'[k] # None /\ m_map'[k].val = m_map[k].val,
         m_map[k] = None => block_index'[k] = block_index[k],
         \A f \in DOMAIN files : \A i \in DOMAIN files[f] : files'[f][i] = files[f][i]
  PROVE  Visible(k)' = Visible(k)
<1>1. CASE m_map[k] # None
  BY <1>1 DEF Visible
<1>2. CASE m_map[k] = None /\ block_index[k] # None
  <2>1. /\ block_index[k].cache_id \in DOMAIN files
        /\ block_index[k].off \in DOMAIN files[block_index[k].cache_id]
    BY <1>2 DEF IndexSound
  <2>2. m_map'[k] = None /\ block_index'[k] = block_index[k]
    BY <1>2
  <2>3. FlashRead(k)' = FlashRead(k)
    BY <2>1, <2>2 DEF FlashRead
  <2> QED
    BY <1>2, <2>2, <2>3 DEF Visible
<1>3. CASE m_map[k] = None /\ block_index[k] = None
  <2>1. m_map'[k] = None /\ block_index'[k] = None
    BY <1>3
  <2> QED
    BY <1>3, <2>1 DEF Visible
<1> QED
  BY <1>1, <1>2, <1>3

(* FlashCache::Insert moves no record and indexes the new one if its key was
   not indexed (flashcache.cc:423, :503-541). *)
LEMMA InsertReads ==
  ASSUME files \in Seq(Seq(Record)), files # <<>>,
         block_index \in [Key -> LBA \cup {None}],
         NEW k \in Key, NEW v \in Val, FlashInsert(k, v)
  PROVE  /\ \A f \in DOMAIN files : \A i \in DOMAIN files[f] : files'[f][i] = files[f][i]
         /\ \A j \in Key : j # k => block_index'[j] = block_index[j]
         /\ block_index[k] # None => block_index'[k] = block_index[k]
         /\ block_index[k] = None => block_index'[k] # None /\ FlashRead(k)' = v
<1>1. /\ files' = Appended(k, v)
      /\ block_index[k] # None => block_index' = block_index
      /\ block_index[k] = None => block_index' = [block_index EXCEPT ![k] = NextLBA]
  BY DEF FlashInsert
<1>2. /\ NextLBA # None
      /\ Appended(k, v)[NextLBA.cache_id][NextLBA.off] = [key |-> k, val |-> v]
      /\ \A f \in DOMAIN files : \A i \in DOMAIN files[f] :
           Appended(k, v)[f][i] = files[f][i]
  BY AppendedRecords, DataAssumption
<1>3. ASSUME block_index[k] = None
      PROVE  block_index'[k] # None /\ FlashRead(k)' = v
  <2>1. block_index'[k] = NextLBA
    BY <1>1, <1>3
  <2>2. FlashRead(k)' = Appended(k, v)[NextLBA.cache_id][NextLBA.off].val
    BY <1>1, <2>1 DEF FlashRead
  <2> QED
    BY <1>2, <2>1, <2>2
<1>4. \A j \in Key : j # k => block_index'[j] = block_index[j]
  <2>1. CASE block_index[k] = None
    BY <1>1, <2>1
  <2>2. CASE block_index[k] # None
    BY <1>1, <2>2
  <2> QED
    BY <2>1, <2>2
<1> QED
  BY <1>1, <1>2, <1>3, <1>4

(* The change of a key's visible value, if there is one, is due to a SET or
   to a flush of an outdated value. *)
Explained(k) == Visible(k)' # Visible(k) =>
                  (\E c \in Client : SetTakesEffect(c, k)) \/ StaleFlush(k)

(* Every step that changes what a GET of a key finds is a SET of that key, or
   one of the two flushes of an outdated value. *)
LEMMA VisibleStep ==
  ASSUME IInv, [Next]_vars, NEW k \in Key
  PROVE  Explained(k)
<1>0. /\ pc \in [Thread -> Label]
      /\ m_map \in [Key -> Entry \cup {None}]
      /\ files \in Seq(Seq(Record)) /\ files # <<>>
      /\ block_index \in [Key -> LBA \cup {None}]
      /\ job \in Job \cup {None}
      /\ HandsOK /\ CommandsOK /\ IndexSound
  BY DEF IInv, TypeOK
<1>1. ASSUME UNCHANGED <<m_map, block_index, files>> PROVE Explained(k)
  BY <1>0, <1>1, VisibleKept DEF Explained
<1>2. ASSUME Undefined \/ Exit PROVE Explained(k)
  BY <1>1, <1>2 DEF Undefined, Exit, dataVars, memVars, flashVars
<1>3. ASSUME NEW c \in Client,
             \/ MemUsedCheck(c) \/ Recheck(c) \/ Drain(c)
             \/ Lock(c, "exec") \/ GetMem(c) \/ Kill(c) \/ Other(c)
             \/ Send(c) \/ Recv(c) \/ Close(c)
      PROVE  Explained(k)
  <2>1. UNCHANGED <<m_map, block_index, files>>
    BY <1>3 DEF MemUsedCheck, Recheck, Drain, Lock, GetMem, Undefined, Kill,
       Destroy, Other, Send, Recv, Close, dataVars, memVars, flashVars
  <2> QED
    BY <1>1, <2>1
<1>4. ASSUME NEW t \in Evictor,
             \/ EvictAll(t) \/ Pop(t) \/ Post(t) \/ EvictWait(t)
      PROVE  Explained(k)
  <2>1. UNCHANGED <<m_map, block_index, files>>
    BY <1>4 DEF EvictAll, Undefined, Pop, Post, EvictWait, dataVars, memVars, flashVars
  <2> QED
    BY <1>1, <2>1
<1>5. ASSUME \/ SemWait \/ Dequeue \/ Lock(BWorker, "flush") \/ Sigint
             \/ DestroyFlash \/ ExitMain \/ FlashWriteError \/ DataRace
      PROVE  Explained(k)
  <2>1. UNCHANGED <<m_map, block_index, files>>
    BY <1>5 DEF SemWait, Dequeue, Undefined, Lock, Sigint, DestroyFlash, Destroy,
       ExitMain, Exit, FlashWriteError, DataRace, dataVars, memVars, flashVars
  <2> QED
    BY <1>1, <2>1
<1>6. ASSUME NEW t \in Evictor, Mark(t) PROVE Explained(k)
  <2> DEFINE j == victim[t]
  <2>1. j \in Key /\ m_map[j] \in Entry /\ m_map[j].where = "mem"
    BY <1>6, VictimMapped DEF Mark, At
  <2>2. /\ m_map' = [m_map EXCEPT ![j].where = "flushing"]
        /\ UNCHANGED <<block_index, files>>
    BY <1>6, <2>1 DEF Mark, flashVars
  <2>3. [m_map[j] EXCEPT !.where = "flushing"] \in Entry
    BY <2>1 DEF Entry
  <2>4. \/ m_map'[k] = m_map[k]
        \/ m_map[k] # None /\ m_map'[k] # None /\ m_map'[k].val = m_map[k].val
    <3>1. CASE k = j
      <4>1. m_map'[j] = [m_map[j] EXCEPT !.where = "flushing"]
        BY <1>0, <2>1, <2>2
      <4>2. m_map'[j].val = m_map[j].val
        BY <2>1, <4>1 DEF Entry
      <4>3. m_map[j] # None /\ m_map'[j] # None
        BY <2>1, <2>3, <4>1, DataAssumption DEF Entry
      <4> QED
        BY <3>1, <4>2, <4>3
    <3>2. CASE k # j
      BY <1>0, <2>2, <3>2
    <3> QED
      BY <3>1, <3>2
  <2>5. Visible(k)' = Visible(k)
    BY <1>0, <2>2, <2>4, VisibleKept
  <2> QED
    BY <2>5 DEF Explained
<1>7. ASSUME NEW c \in Client, Goto(c, "send"), pc[c] \in {"exec", "assign"},
             req[c].cmd = "set",
             m_map' = [m_map EXCEPT ![req[c].key] = [val |-> req[c].val, where |-> "mem"]],
             UNCHANGED <<block_index, files>>
      PROVE  Explained(k)
  <2>1. req[c].key \in Key /\ req[c].val \in Val
    BY <1>0, <1>7, ExecRequest
  <2>2. CASE k = req[c].key
    <3>1. m_map'[k] = [val |-> req[c].val, where |-> "mem"]
      BY <1>0, <1>7, <2>1, <2>2
    <3>2. m_map'[k] # None /\ m_map'[k].val = req[c].val
      BY <2>1, <3>1, DataAssumption DEF Entry
    <3>3. Visible(k)' = req[c].val
      BY <3>2 DEF Visible
    <3>4. pc'[c] = "send"
      BY <1>0, <1>7 DEF Goto, Thread, Evictor
    <3> QED
      BY <1>7, <2>2, <3>3, <3>4 DEF Explained, SetTakesEffect
  <2>3. CASE k # req[c].key
    <3>1. m_map'[k] = m_map[k]
      BY <1>0, <1>7, <2>3
    <3>2. Visible(k)' = Visible(k)
      BY <1>0, <1>7, <3>1, VisibleKept
    <3> QED
      BY <3>2 DEF Explained
  <2> QED
    BY <2>2, <2>3
<1>8. ASSUME NEW c \in Client, SetLru(c) PROVE Explained(k)
  <2>1. CASE Undefined
    BY <1>2, <2>1
  <2>2. CASE m_map[req[c].key] = None
    <3>1. /\ Goto(c, "send") /\ pc[c] = "exec" /\ req[c].cmd = "set"
          /\ m_map' = [m_map EXCEPT ![req[c].key] = [val |-> req[c].val, where |-> "mem"]]
          /\ UNCHANGED <<block_index, files>>
      BY <1>8, <2>2 DEF SetLru, At, CacheInsert, LruInsert, flashVars
    <3> QED
      BY <1>7, <3>1
  <2>3. CASE m_map[req[c].key] # None /\ LruListed(m_list, req[c].key)
    BY <1>1, <1>8, <2>3 DEF SetLru, flashVars
  <2> QED
    BY <1>8, <2>1, <2>2, <2>3 DEF SetLru
<1>9. ASSUME NEW c \in Client, Assign(c) PROVE Explained(k)
  <2>1. /\ Goto(c, "send") /\ pc[c] = "assign" /\ req[c].cmd = "set"
        /\ m_map' = [m_map EXCEPT ![req[c].key] = [val |-> req[c].val, where |-> "mem"]]
        /\ UNCHANGED <<block_index, files>>
    BY <1>0, <1>9 DEF Assign, At, CommandsOK, flashVars
  <2> QED
    BY <1>7, <2>1
<1>10. ASSUME NEW c \in Client, SetFlash(c) PROVE Explained(k)
  <2>1. req[c].key \in Key /\ req[c].val \in Val
    BY <1>0, <1>10, ExecRequest DEF SetFlash, At
  <2>2. CASE Undefined
    BY <1>2, <2>2
  <2>3. CASE ~Undefined
    <3>1. /\ FlashInsert(req[c].key, req[c].val) /\ m_map' = m_map
          /\ Goto(c, "send") /\ pc[c] = "exec" /\ req[c].cmd = "set"
      BY <1>10, <2>3 DEF SetFlash, At, memVars
    <3>2. /\ \A f \in DOMAIN files : \A i \in DOMAIN files[f] : files'[f][i] = files[f][i]
          /\ k # req[c].key \/ block_index[k] # None => block_index'[k] = block_index[k]
          /\ k = req[c].key /\ block_index[k] = None =>
               block_index'[k] # None /\ FlashRead(k)' = req[c].val
      BY <1>0, <2>1, <3>1, InsertReads
    <3>3. CASE k = req[c].key /\ block_index[k] = None /\ m_map[k] = None
      <4>1. Visible(k)' = req[c].val
        BY <3>1, <3>2, <3>3 DEF Visible
      <4>2. pc'[c] = "send"
        BY <1>0, <3>1 DEF Goto, Thread, Evictor
      <4> QED
        BY <3>1, <3>3, <4>1, <4>2 DEF Explained, SetTakesEffect
    <3>4. CASE ~(k = req[c].key /\ block_index[k] = None /\ m_map[k] = None)
      <4>1. Visible(k)' = Visible(k)
        BY <1>0, <3>1, <3>2, <3>4, VisibleKept
      <4> QED
        BY <4>1 DEF Explained
    <3> QED
      BY <3>3, <3>4
  <2> QED
    BY <2>2, <2>3
<1>11. ASSUME NEW c \in Client, GetFlash(c) PROVE Explained(k)
  <2> DEFINE j == req[c].key
  <2>1. j \in Key /\ m_map[j] = None
    BY <1>0, <1>11, ExecRequest DEF GetFlash, At
  <2>2. files' = files
    BY <1>11 DEF GetFlash, FlashMiss, Undefined, dataVars, flashVars
  <2>3. CASE UNCHANGED <<m_map, block_index>>
    BY <1>1, <2>2, <2>3
  <2>4. CASE ~UNCHANGED <<m_map, block_index>>
    <3>1. /\ m_map' = [m_map EXCEPT ![j] = [val |-> FlashRead(j), where |-> "mem"]]
          /\ block_index' = [block_index EXCEPT ![j] = None]
          /\ block_index[j] # None
      BY <1>11, <2>4 DEF GetFlash, FlashHit, FlashMiss, Reply, CacheInsert, LruInsert,
         Undefined, dataVars, memVars, flashVars
    <3>2. FlashRead(j) \in Val
      BY <2>1, <3>1, FlashReadType
    <3> DEFINE e == [val |-> FlashRead(j), where |-> "mem"]
    <3>3. e # None /\ e.val = FlashRead(j)
      BY <3>2, DataAssumption DEF Entry
    <3> HIDE DEF e
    <3>4. m_map' = [m_map EXCEPT ![j] = e]
      BY <3>1 DEF e
    <3>5. CASE k = j
      <4>1. m_map'[k] = e
        BY <1>0, <2>1, <3>4, <3>5
      <4>2. Visible(k)' = FlashRead(k)
        BY <3>3, <3>5, <4>1 DEF Visible
      <4>3. Visible(k) = FlashRead(k)
        BY <2>1, <3>1, <3>5 DEF Visible
      <4> QED
        BY <4>2, <4>3 DEF Explained
    <3>6. CASE k # j
      <4>1. m_map'[k] = m_map[k] /\ block_index'[k] = block_index[k]
        BY <1>0, <3>1, <3>4, <3>6
      <4>2. Visible(k)' = Visible(k)
        BY <1>0, <2>2, <4>1, VisibleKept
      <4> QED
        BY <4>2 DEF Explained
    <3> QED
      BY <3>5, <3>6
  <2> QED
    BY <2>3, <2>4
<1>12. ASSUME Flush PROVE Explained(k)
  <2>1. job # None /\ job.key \in Key /\ job.val \in Val /\ pc[BWorker] = "flush"
    BY <1>0, <1>12 DEF Flush, At, HandsOK, Job
  <2>2. CASE Undefined
    BY <1>2, <2>2
  <2>3. CASE ~Undefined
    <3>1. /\ FlashInsert(job.key, job.val) /\ m_map' = [m_map EXCEPT ![job.key] = None]
          /\ Goto(BWorker, "wait")
      BY <1>12, <2>3 DEF Flush, LruErase
    <3>2. /\ \A f \in DOMAIN files : \A i \in DOMAIN files[f] : files'[f][i] = files[f][i]
          /\ k # job.key => block_index'[k] = block_index[k]
          /\ k = job.key /\ block_index[k] = None =>
               block_index'[k] # None /\ FlashRead(k)' = job.val
      BY <1>0, <2>1, <3>1, InsertReads
    <3>3. CASE k = job.key
      <4>1. Flushing(k) /\ m_map[k] # None
        BY <2>1, <3>3 DEF IInv, OneHolder, Flushing
      <4>2. pc'[BWorker] = "wait"
        BY <1>0, <3>1 DEF Goto, Thread
      <4>3. CASE block_index[k] # None \/ job.val # m_map[k].val
        BY <2>1, <3>3, <4>2, <4>3 DEF Explained, StaleFlush
      <4>4. CASE block_index[k] = None /\ job.val = m_map[k].val
        <5>1. m_map'[k] = None
          BY <1>0, <3>1, <3>3
        <5>2. Visible(k)' = job.val
          BY <3>2, <3>3, <4>4, <5>1 DEF Visible
        <5>3. Visible(k) = job.val
          BY <4>1, <4>4 DEF Visible
        <5> QED
          BY <5>2, <5>3 DEF Explained
      <4> QED
        BY <4>3, <4>4
    <3>4. CASE k # job.key
      <4>1. m_map'[k] = m_map[k]
        BY <1>0, <3>1, <3>4
      <4>2. Visible(k)' = Visible(k)
        BY <1>0, <3>2, <3>4, <4>1, VisibleKept
      <4> QED
        BY <4>2 DEF Explained
    <3> QED
      BY <3>3, <3>4
  <2> QED
    BY <2>2, <2>3
<1>13. CASE UNCHANGED vars
  BY <1>1, <1>13 DEF vars, dataVars, memVars, flashVars
<1> QED
  BY <1>3, <1>4, <1>5, <1>6, <1>8, <1>9, <1>10, <1>11, <1>12, <1>13
     DEF Next, ClientStep, EvictStep, BWorkerStep, MainStep, Evictor

(* What a GET of a key would find changes only by a SET of that key and by
   the flush of a value that was outdated when the tiering thread read it or
   that the index refuses (bworker.c:65, flashcache.cc:423): evictions,
   promotions, roll-overs and the requests for other keys leave it alone. *)
THEOREM ValuesOnlySet == Spec => OnlySetsChangeValues
<1>1. IInv /\ [Next]_vars =>
        [\A k \in Key : Visible(k)' # Visible(k) =>
           (\E c \in Client : SetTakesEffect(c, k)) \/ StaleFlush(k)]_vars
  BY VisibleStep DEF Explained
<1> QED
  BY <1>1, Invariance, PTL DEF Spec, OnlySetsChangeValues

-----------------------------------------------------------------------------
(***************************************************************************)
(* The tiered store implements KVContract.  Status (TieredStore) maps the  *)
(* place of a connection's thread to the state of its request; every step  *)
(* of the server maps to a step of the contract or to none.  The argument  *)
(* needs two parts of the inductive invariant: ValuesWritten for the value *)
(* a GET returns, NothingLost for "+Empty!".                               *)
(***************************************************************************)

(* The contract's status variable. *)
Statuses == [c \in Client |-> Status(c)]

(* A thread that moves between two places of the same kind does nothing the
   contract tells apart. *)
LEMMA Unseen ==
  ASSUME UNCHANGED <<proc, written, req, reply>>,
         \A c \in Client : Status(c)' = Status(c)
  PROVE  UNCHANGED Contract!cvars
<1>1. Statuses' = Statuses
  BY DEF Statuses
<1> QED
  BY <1>1 DEF Statuses, Contract!cvars

(* The process stops: exit, or undefined behaviour. *)
LEMMA Stops ==
  ASSUME proc = "running", Undefined \/ Exit
  PROVE  Contract!CNext
<1>1. UNCHANGED <<pc, written, req, reply>> /\ (proc' = "running") = FALSE
  BY DEF Undefined, Exit, dataVars, reqVars
<1>2. Statuses' = Statuses
  BY <1>1 DEF Statuses, Status
<1> QED
  BY <1>1, <1>2 DEF Statuses, Contract!CNext, Contract!Stop

(* A place between the receipt and the effect of a request. *)
Pending(l) == l \notin {"recv", "closed", "send"}

(* What the contract sees of the place of connection c. *)
LEMMA StatusNow ==
  ASSUME NEW c \in Client
  PROVE  /\ pc[c] = "recv" => Statuses[c] = "idle"
         /\ pc[c] = "send" => Statuses[c] = "done"
         /\ Pending(pc[c]) => Statuses[c] = "pending"
BY DEF Statuses, Status, Pending

(* What it sees of a step of c to place l. *)
LEMMA Moves ==
  ASSUME pc \in [Thread -> Label], NEW c \in Client, NEW l, pc' = [pc EXCEPT ![c] = l]
  PROVE  /\ l = "recv" => Statuses' = [Statuses EXCEPT ![c] = "idle"]
         /\ l = "closed" => Statuses' = [Statuses EXCEPT ![c] = "gone"]
         /\ l = "send" => Statuses' = [Statuses EXCEPT ![c] = "done"]
         /\ Pending(l) => Statuses' = [Statuses EXCEPT ![c] = "pending"]
<1>1. pc'[c] = l /\ \A d \in Client : d # c => pc'[d] = pc[d]
  BY DEF Thread, Evictor
<1>2. \A d \in Client : d # c => Status(d)' = Status(d)
  BY <1>1 DEF Status
<1>3. Statuses' = [Statuses EXCEPT ![c] = Status(c)']
  BY <1>2 DEF Statuses
<1>4. /\ l = "recv" => Status(c)' = "idle"
      /\ l = "closed" => Status(c)' = "gone"
      /\ l = "send" => Status(c)' = "done"
      /\ Pending(l) => Status(c)' = "pending"
  BY <1>1 DEF Status, Pending
<1> QED
  BY <1>3, <1>4

(* Steps from a pending place to a pending place, and those of the other
   threads, are not seen. *)
LEMMA PendingMoves ==
  ASSUME pc \in [Thread -> Label], NEW t \in Thread, NEW l,
         pc' = [pc EXCEPT ![t] = l],
         t \in Client => Pending(pc[t]) /\ Pending(l),
         UNCHANGED <<proc, written, req, reply>>
  PROVE  UNCHANGED Contract!cvars
<1>1. ASSUME NEW c \in Client PROVE Status(c)' = Status(c)
  <2>1. CASE c = t
    BY <2>1 DEF Status, Pending
  <2>2. CASE c # t
    <3>1. pc'[c] = pc[c]
      BY <2>2 DEF Thread, Evictor
    <3> QED
      BY <3>1 DEF Status
  <2> QED
    BY <2>1, <2>2
<1> QED
  BY <1>1, Unseen

(* A SET takes effect. *)
LEMMA SetSeen ==
  ASSUME pc \in [Thread -> Label], NEW c \in Client, proc = "running", proc' = proc,
         Pending(pc[c]), req[c].cmd = "set", Goto(c, "send"), NoteWritten(c),
         UNCHANGED <<req, reply>>
  PROVE  Contract!CNext
<1>1. Statuses' = [Statuses EXCEPT ![c] = "done"]
  BY Moves DEF Goto
<1>2. Statuses[c] = "pending"
  BY StatusNow
<1>3. Contract!Set(c)
  BY <1>1, <1>2 DEF Contract!Set, Statuses, NoteWritten
<1> QED
  BY <1>3 DEF Contract!CNext

(* A GET is answered with a value that was written, or with none if there
   is none. *)
LEMMA GetSeen ==
  ASSUME pc \in [Thread -> Label], NEW c \in Client, proc = "running", proc' = proc,
         Pending(pc[c]), req[c].cmd = "get", Goto(c, "send"),
         NEW v \in Val \cup {None}, reply' = [reply EXCEPT ![c] = v],
         IF written[req[c].key] = {} THEN v = None ELSE v \in written[req[c].key],
         UNCHANGED <<req, written>>
  PROVE  Contract!CNext
<1>1. Statuses' = [Statuses EXCEPT ![c] = "done"]
  BY Moves DEF Goto
<1>2. Statuses[c] = "pending"
  BY StatusNow
<1>3. Contract!Get(c)
  BY <1>1, <1>2 DEF Contract!Get, Statuses
<1> QED
  BY <1>3 DEF Contract!CNext

(* Any other command is over. *)
LEMMA OtherSeen ==
  ASSUME pc \in [Thread -> Label], NEW c \in Client, proc = "running", proc' = proc,
         Pending(pc[c]), req[c].cmd \notin {"set", "get"}, Goto(c, "send"),
         UNCHANGED <<written, req, reply>>
  PROVE  Contract!CNext
<1>1. Statuses' = [Statuses EXCEPT ![c] = "done"]
  BY Moves DEF Goto
<1>2. Statuses[c] = "pending"
  BY StatusNow
<1>3. Contract!Other(c)
  BY <1>1, <1>2 DEF Contract!Other, Statuses
<1> QED
  BY <1>3 DEF Contract!CNext

(* The answer is sent, or the connection ends. *)
LEMMA AnswerSeen ==
  ASSUME pc \in [Thread -> Label], NEW c \in Client, proc = "running", proc' = proc,
         \/ pc[c] = "send" /\ Goto(c, "recv")
         \/ pc[c] = "recv" /\ Goto(c, "closed"),
         UNCHANGED <<written, req, reply>>
  PROVE  Contract!CNext
<1>1. CASE pc[c] = "send" /\ Goto(c, "recv")
  <2>1. Statuses[c] = "done" /\ Statuses' = [Statuses EXCEPT ![c] = "idle"]
    BY <1>1, StatusNow, Moves DEF Goto
  <2>2. Contract!Answer(c)
    BY <2>1 DEF Contract!Answer, Statuses
  <2> QED
    BY <2>2 DEF Contract!CNext
<1>2. CASE pc[c] = "recv" /\ Goto(c, "closed")
  <2>1. Statuses[c] = "idle" /\ Statuses' = [Statuses EXCEPT ![c] = "gone"]
    BY <1>2, StatusNow, Moves DEF Goto
  <2>2. Contract!Leave(c)
    BY <2>1 DEF Contract!Leave, Statuses
  <2> QED
    BY <2>2 DEF Contract!CNext
<1> QED
  BY <1>1, <1>2

(* A step of the contract, or none. *)
Seen == Contract!CNext \/ UNCHANGED Contract!cvars

(* Every step of the server is a step of the contract, or none. *)
LEMMA ContractStep ==
  ASSUME IInv, [Next]_vars
  PROVE  Seen
<1>0. /\ pc \in [Thread -> Label]
      /\ m_map \in [Key -> Entry \cup {None}]
      /\ CommandsOK /\ ValuesWritten /\ NothingLost
  BY DEF IInv, TypeOK
<1>1. ASSUME proc = "running", Undefined \/ Exit PROVE Seen
  BY <1>1, Stops DEF Seen
<1>2. ASSUME NEW c \in Client, MemUsedCheck(c) \/ Recheck(c) \/ Drain(c) \/ Lock(c, "exec")
      PROVE  Seen
  <2>1. PICK l : /\ pc' = [pc EXCEPT ![c] = l] /\ Pending(pc[c]) /\ Pending(l)
                 /\ UNCHANGED <<proc, written, req, reply>>
    BY <1>2 DEF MemUsedCheck, Recheck, Drain, Lock, At, Goto, Pending, dataVars, reqVars
  <2> QED
    BY <1>0, <2>1, PendingMoves DEF Seen, Thread, Evictor
<1>3. ASSUME NEW t \in Evictor, EvictAll(t) \/ Pop(t) \/ Mark(t) \/ Post(t) PROVE Seen
  <2>1. CASE Undefined
    BY <1>1, <1>3, <2>1 DEF EvictAll, Pop, Mark, Post, At
  <2>2. CASE ~Undefined
    <3>1. PICK l : /\ pc' = [pc EXCEPT ![t] = l] /\ Pending(pc[t]) /\ Pending(l)
                   /\ UNCHANGED <<proc, written, req, reply>>
      BY <1>3, <2>2 DEF EvictAll, Pop, Mark, Post, Continue, At, Goto, Pending, dataVars, reqVars
    <3> QED
      BY <1>0, <3>1, PendingMoves DEF Seen, Thread
  <2> QED
    BY <2>1, <2>2
<1>4. ASSUME NEW t \in Evictor, EvictWait(t) PROVE Seen
  <2>1. CASE t = Main
    BY <1>0, <1>4, <2>1, PendingMoves, ThreadAssumption
       DEF EvictWait, Goto, Seen, Thread, Evictor, dataVars, reqVars
  <2>2. CASE t # Main
    <3>1. t \in Client /\ pc[t] = "evictwait" /\ Goto(t, "send") /\ proc = "running"
      BY <1>4, <2>2 DEF EvictWait, At, Evictor
    <3> QED
      BY <1>0, <1>4, <3>1, OtherSeen DEF EvictWait, CommandsOK, Pending, Seen, dataVars, reqVars
  <2> QED
    BY <2>1, <2>2
<1>5. ASSUME NEW c \in Client, SetLru(c) PROVE Seen
  <2>1. proc = "running" /\ pc[c] = "exec" /\ req[c].cmd = "set"
    BY <1>5 DEF SetLru, At
  <2>2. CASE Undefined
    BY <1>1, <2>1, <2>2
  <2>3. CASE m_map[req[c].key] = None
    BY <1>0, <1>5, <2>1, <2>3, SetSeen DEF SetLru, Pending, Seen, reqVars
  <2>4. CASE m_map[req[c].key] # None /\ LruListed(m_list, req[c].key)
    <3>1. Goto(c, "assign") /\ UNCHANGED <<proc, written, req, reply>>
      BY <1>5, <2>4 DEF SetLru, reqVars
    <3> QED
      BY <1>0, <2>1, <3>1, PendingMoves DEF Goto, Pending, Seen, Thread, Evictor
  <2> QED
    BY <1>5, <2>2, <2>3, <2>4 DEF SetLru
<1>6. ASSUME NEW c \in Client, Assign(c) PROVE Seen
  <2>1. proc = "running" /\ pc[c] = "assign" /\ req[c].cmd = "set"
    BY <1>0, <1>6 DEF Assign, At, CommandsOK
  <2> QED
    BY <1>0, <1>6, <2>1, SetSeen DEF Assign, Pending, Seen, reqVars
<1>7. ASSUME NEW c \in Client, SetFlash(c) PROVE Seen
  <2>1. proc = "running" /\ pc[c] = "exec" /\ req[c].cmd = "set"
    BY <1>7 DEF SetFlash, At
  <2> QED
    BY <1>0, <1>1, <1>7, <2>1, SetSeen DEF SetFlash, Pending, Seen, reqVars
<1>8. ASSUME NEW c \in Client, GetMem(c) PROVE Seen
  <2> DEFINE k == req[c].key
             v == m_map[k].val
  <2>1. proc = "running" /\ pc[c] = "exec" /\ req[c].cmd = "get" /\ m_map[k] # None
    BY <1>8 DEF GetMem, At
  <2>2. k \in Key
    BY <1>0, <2>1, ExecRequest
  <2>3. v \in Val /\ v \in written[k]
    BY <1>0, <2>1, <2>2 DEF Entry, ValuesWritten, MapWritten
  <2>4. CASE Undefined
    BY <1>1, <2>1, <2>4
  <2>5. CASE ~Undefined
    <3>1. Reply(c, v)
      BY <1>8, <2>5 DEF GetMem
    <3> QED
      BY <1>0, <2>1, <2>3, <3>1, GetSeen DEF Reply, Pending, Seen
  <2> QED
    BY <2>4, <2>5
<1>9. ASSUME NEW c \in Client, GetFlash(c) PROVE Seen
  <2> DEFINE k == req[c].key
  <2>1. proc = "running" /\ pc[c] = "exec" /\ req[c].cmd = "get" /\ m_map[k] = None
    BY <1>9 DEF GetFlash, At
  <2>2. k \in Key
    BY <1>0, <2>1, ExecRequest
  <2>3. CASE Undefined
    BY <1>1, <2>1, <2>3
  <2>4. CASE block_index[k] # None /\ Reply(c, FlashRead(k))
    <3>1. FlashRead(k) \in Val /\ FlashRead(k) \in written[k]
      BY <2>2, <2>4, FlashReadType, FlashReadWritten
    <3> HIDE DEF k
    <3> QED
      BY <1>0, <2>1, <2>4, <3>1, GetSeen DEF Reply, Pending, Seen, k
  <2>5. CASE block_index[k] = None /\ Reply(c, None)
    <3>1. written[k] = {}
      BY <1>0, <2>1, <2>2, <2>5 DEF NothingLost
    <3> QED
      BY <1>0, <2>1, <2>5, <3>1, GetSeen DEF Reply, Pending, Seen
  <2> QED
    BY <1>9, <2>3, <2>4, <2>5 DEF GetFlash, FlashHit, FlashMiss
<1>10. ASSUME NEW c \in Client, Kill(c) \/ Other(c) PROVE Seen
  <2>1. proc = "running" /\ pc[c] \in {"kill", "other"} /\ req[c].cmd \notin {"set", "get"}
    BY <1>0, <1>10 DEF Kill, Other, At, CommandsOK
  <2>2. CASE Undefined
    BY <1>1, <2>1, <2>2
  <2>3. CASE ~Undefined
    BY <1>0, <1>10, <2>1, <2>3, OtherSeen
       DEF Kill, Destroy, Other, Pending, Seen, dataVars, reqVars
  <2> QED
    BY <2>2, <2>3
<1>11. ASSUME NEW c \in Client, Send(c) \/ Close(c) PROVE Seen
  <2>1. proc = "running" /\ pc[c] \in {"send", "recv"}
    BY <1>11 DEF Send, Close, At
  <2>2. CASE Undefined
    BY <1>1, <2>1, <2>2
  <2>3. CASE ~Undefined
    BY <1>0, <1>11, <2>1, <2>3, AnswerSeen DEF Send, Close, At, Seen, dataVars, reqVars
  <2> QED
    BY <2>2, <2>3
<1>12. ASSUME NEW c \in Client, Recv(c) PROVE Seen
  <2>1. PICK r \in Request : pc' = [pc EXCEPT ![c] = FirstLabel(r.cmd)] /\ req' = [req EXCEPT ![c] = r]
    BY <1>12 DEF Recv, Goto
  <2>2. /\ FirstLabel(r.cmd) \in {"memcheck", "lock", "evictall", "kill", "other"}
        /\ pc[c] = "recv" /\ proc = "running" /\ UNCHANGED <<proc, written>>
        /\ reply' = [reply EXCEPT ![c] = None]
    BY <1>12, RequestFields, FirstLabels DEF Recv, At
  <2>3. Statuses[c] = "idle" /\ Statuses' = [Statuses EXCEPT ![c] = "pending"]
    <3>1. Pending(FirstLabel(r.cmd))
      BY <2>2 DEF Pending
    <3> QED
      BY <1>0, <2>1, <2>2, <3>1, StatusNow, Moves
  <2>4. r \in Contract!Request
    BY DEF Contract!Request, Contract!Command, Request, Command
  <2>5. Contract!Invoke(c)
    BY <2>1, <2>2, <2>3, <2>4 DEF Contract!Invoke, Statuses
  <2> QED
    BY <2>2, <2>5 DEF Contract!CNext, Seen
<1>13. ASSUME SemWait \/ Dequeue \/ Lock(BWorker, "flush") \/ Flush PROVE Seen
  <2>1. proc = "running"
    BY <1>13 DEF SemWait, Dequeue, Lock, Flush, At
  <2>2. CASE Undefined
    BY <1>1, <2>1, <2>2
  <2>3. CASE ~Undefined
    <3>1. PICK l : pc' = [pc EXCEPT ![BWorker] = l] /\ UNCHANGED <<proc, written, req, reply>>
      BY <1>13, <2>3 DEF SemWait, Dequeue, Lock, Flush, Goto, reqVars
    <3> QED
      BY <1>0, <3>1, PendingMoves, ThreadAssumption DEF Seen, Thread
  <2> QED
    BY <2>2, <2>3
<1>14. ASSUME Sigint \/ DestroyFlash PROVE Seen
  <2>1. CASE Undefined
    BY <1>1, <1>14, <2>1 DEF Sigint, DestroyFlash, At
  <2>2. CASE ~Undefined
    <3>1. PICK l : pc' = [pc EXCEPT ![Main] = l] /\ UNCHANGED <<proc, written, req, reply>>
      BY <1>14, <2>2 DEF Sigint, DestroyFlash, Destroy, Goto, dataVars, reqVars
    <3> QED
      BY <1>0, <3>1, PendingMoves, ThreadAssumption DEF Seen, Thread, Evictor
  <2> QED
    BY <2>1, <2>2
<1>15. ASSUME ExitMain \/ FlashWriteError \/ DataRace PROVE Seen
  BY <1>1, <1>15 DEF ExitMain, FlashWriteError, DataRace, At, In, UsesLru, UsesQueue, Destroys
<1>16. CASE UNCHANGED vars
  <2>1. UNCHANGED <<proc, pc, written, req, reply>>
    BY <1>16 DEF vars, dataVars, reqVars
  <2> QED
    BY <2>1, Unseen DEF Status, Seen
<1>17. ASSUME NEW c \in Client, ClientStep(c) \/ Recv(c) \/ Close(c) PROVE Seen
  <2>1. c \in Evictor
    BY DEF Evictor
  <2> QED
    BY <1>2, <1>3, <1>4, <1>5, <1>6, <1>7, <1>8, <1>9, <1>10, <1>11, <1>12, <1>17,
       <2>1 DEF ClientStep, EvictStep
<1>18. ASSUME BWorkerStep \/ MainStep \/ Sigint \/ FlashWriteError \/ DataRace PROVE Seen
  <2>1. Main \in Evictor
    BY DEF Evictor
  <2> QED
    BY <1>3, <1>4, <1>13, <1>14, <1>15, <1>18, <2>1 DEF BWorkerStep, EvictStep, MainStep
<1>19. CASE Next
  BY <1>17, <1>18, <1>19 DEF Next
<1> QED
  BY <1>16, <1>19

(* The server implements KVContract: a GET is answered with a value that a
   SET gave to its key, and with "+Empty!" only if there is none, whatever
   evictions, flushes and promotions happen in between (command.c:85-140,
   bworker.c:61-79). *)
THEOREM ContractKept == Spec => KeepsContract
<1>1. Init => Contract!CInit
  <2> SUFFICES ASSUME Init PROVE Contract!CInit
    OBVIOUS
  <2>1. \A c \in Client : Status(c) = "idle"
    BY ThreadAssumption DEF Init, Status, Thread, Evictor
  <2> QED
    BY <2>1 DEF Init, Contract!CInit
<1>2. IInv /\ [Next]_vars => [Contract!CNext]_(Contract!cvars)
  BY ContractStep DEF Seen
<1> QED
  BY <1>1, <1>2, Invariance, PTL DEF Spec, KeepsContract, Contract!CSpec
=============================================================================

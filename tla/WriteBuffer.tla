---------------------------- MODULE WriteBuffer ----------------------------
(***************************************************************************)
(* One WriteableCacheFile (flashcache.cc) in FLASH-WRITEBUFFER mode:       *)
(* Append serialises a record into a vector of write buffers, and the      *)
(* file's writer thread writes the buffers to the file.  Two threads take  *)
(* part:                                                                   *)
(*                                                                         *)
(*   - the user, whoever calls Append, Read and Close; FlashCache calls    *)
(*     them one at a time (under fcache_mutex, or from its destructor);    *)
(*   - the writer, writerJobs.                                             *)
(*                                                                         *)
(* They share bufs_, buf_woff_, buf_doff_, eof_ and is_writer_running      *)
(* without a lock, so every access to one of these is a step.  The data is *)
(* the stream of bytes appended to the file: a byte is its position in the *)
(* stream, an LBA is a position and a size.  The capacity of the flash     *)
(* cache is not reached (FlashCache::Evict does nothing).                  *)
(*                                                                         *)
(* proc = "undefined" is absorbing, as in TieredStore; a failed assertion  *)
(* is proc = "aborted".                                                    *)
(***************************************************************************)
EXTENDS Integers, Sequences, FiniteSetsExt, SequencesExt, Absent

CONSTANTS BufSize,  \* write_buffer_size_
          MaxSize,  \* max_size_
          RecSize   \* the sizes of records

ASSUME SizeAssumption ==
  /\ BufSize \in Nat \ {0} /\ MaxSize \in Nat \ {0}
  /\ RecSize \subseteq Nat \ {0}
  /\ None \notin [off : Nat, size : Nat, i : Nat, got : Seq(Nat)]

VARIABLES
  proc,      \* "running", "exited", "aborted" or "undefined"
  user,      \* where the user is
  writer,    \* where the writer is
  bufs,      \* bufs_: each buffer the bytes in it
  buf_woff, buf_doff,
  eof, running,          \* eof_, is_writer_running
  sem,       \* sem_writer
  disk_woff,
  disk,      \* the bytes of the file
  size,      \* the size of the record being appended
  left,      \* how much of it is not in a buffer yet
  recs,      \* the LBAs of the records appended
  reading,   \* ReadBuffer's lba, index and bytes so far, or None
  answer,    \* what the last Read copied to scratch, or None
  buf        \* the writer's buf_

userVars == <<disk_woff, size, left, recs>>
readVars == <<reading, answer>>
vars == <<proc, user, writer, bufs, buf_woff, buf_doff, eof, running, sem,
          disk, buf, userVars, readVars>>

(* Create: an empty file, no buffers and a writer thread. *)
Init ==
  /\ proc = "running" /\ user = "idle" /\ writer = "wait"
  /\ bufs = <<>> /\ buf_woff = 0 /\ buf_doff = 0
  /\ eof = FALSE /\ running = FALSE
  /\ sem = 0
  /\ disk_woff = 0 /\ disk = <<>>
  /\ size = 0 /\ left = 0
  /\ recs = {}
  /\ reading = None /\ answer = None
  /\ buf = <<>>

UserAt(label) == proc = "running" /\ user = label
WriterAt(label) == proc = "running" /\ writer = label

Crash(how) ==
  /\ proc' = how
  /\ UNCHANGED <<user, writer, bufs, buf_woff, buf_doff, eof, running, sem,
                 disk, buf, userVars, readVars>>

Free(b) == BufSize - Len(b)

(* The bytes [from, from + n) of the stream. *)
Bytes(from, n) == [j \in 1..n |-> from + j - 1]

-----------------------------------------------------------------------------
(* Append and DispatchBuffer.                                              *)

(* Append of a record of n bytes, up to ExpandBuffer. *)
AppendRecord(n) ==
  /\ UserAt("idle") /\ ~eof
  /\ size' = n /\ left' = n
  /\ user' = "expand"
  /\ UNCHANGED <<proc, writer, bufs, buf_woff, buf_doff, eof, running, sem,
                 disk, buf, disk_woff, recs, readVars>>

FreeIn(i) == Free(bufs[i + 1])
FreeSpace == MapThenSumSet(FreeIn, buf_woff..(Len(bufs) - 1))

(* Fault: free space is counted in the first free buffer only. *)
ExpandOnce == IF FreeSpace < size THEN 1 ELSE 0

(* How many buffers ExpandBuffer allocates. *)
NewBuffers ==
  IF FreeSpace >= size THEN 0 ELSE (size - FreeSpace + BufSize - 1) \div BufSize

ExpandBuffer ==
  /\ UserAt("expand")
  /\ bufs' = bufs \o [j \in 1..NewBuffers |-> <<>>]
  /\ user' = "fill"
  /\ UNCHANGED <<proc, writer, buf_woff, buf_doff, eof, running, sem,
                 disk, buf, userVars, readVars>>

(* CacheRecord::Serialize, as far as one buffer takes it.  It would fail
   where the buffers end: see SerializeFits. *)
Fill ==
  /\ UserAt("fill") /\ left > 0 /\ buf_woff < Len(bufs)
  /\ LET b == bufs[buf_woff + 1]
         n == IF left <= Free(b) THEN left ELSE Free(b)
     IN  /\ bufs' = [bufs EXCEPT ![buf_woff + 1] =
                       b \o Bytes(disk_woff + size - left, n)]
         /\ left' = left - n
         /\ buf_woff' = IF n = Free(b) THEN buf_woff + 1 ELSE buf_woff
  /\ UNCHANGED <<proc, user, writer, buf_doff, eof, running, sem,
                 disk, buf, disk_woff, size, recs, readVars>>

(* Fault: the LBA is taken after disk_woff_ has moved. *)
FilledLate ==
  /\ UserAt("fill") /\ left = 0
  /\ recs' = recs \cup {[off |-> disk_woff + size, size |-> size]}
  /\ disk_woff' = disk_woff + size
  /\ eof' = (disk_woff + size >= MaxSize)
  /\ user' = "dispatch"
  /\ UNCHANGED <<proc, writer, bufs, buf_woff, buf_doff, running, sem,
                 disk, buf, size, left, readVars>>

(* The rest of Append, up to DispatchBuffer. *)
Filled ==
  /\ UserAt("fill") /\ left = 0
  /\ recs' = recs \cup {[off |-> disk_woff, size |-> size]}
  /\ disk_woff' = disk_woff + size
  /\ eof' = (disk_woff + size >= MaxSize)
  /\ user' = "dispatch"
  /\ UNCHANGED <<proc, writer, bufs, buf_woff, buf_doff, running, sem,
                 disk, buf, size, left, readVars>>

(* The early returns, or the fake offset for the last buffer of a full file. *)
DispatchBuffer ==
  /\ UserAt("dispatch")
  /\ \/ /\ running \/ (~eof /\ buf_doff = buf_woff)
        /\ user' = "idle"
        /\ UNCHANGED buf_woff
     \/ /\ ~running /\ (eof \/ buf_doff # buf_woff)
        /\ buf_woff' = IF eof THEN buf_woff + 1 ELSE buf_woff
        /\ user' = "post"
  /\ UNCHANGED <<proc, writer, bufs, buf_doff, eof, running, sem,
                 disk, buf, userVars, readVars>>

(* sem_post, and only then is_writer_running = true *)
Post ==
  /\ UserAt("post")
  /\ sem' = sem + 1
  /\ user' = "mark"
  /\ UNCHANGED <<proc, writer, bufs, buf_woff, buf_doff, eof, running,
                 disk, buf, userVars, readVars>>

MarkRunning ==
  /\ UserAt("mark")
  /\ running' = TRUE
  /\ user' = "idle"
  /\ UNCHANGED <<proc, writer, bufs, buf_woff, buf_doff, eof, sem,
                 disk, buf, userVars, readVars>>

-----------------------------------------------------------------------------
(* Read and ReadBuffer.                                                    *)

(* Read from the file once the buffers are gone, else from the buffers. *)
Read(lba) ==
  /\ UserAt("idle")
  /\ \/ /\ eof /\ bufs = <<>>
        /\ answer' = [lba |-> lba,
                      bytes |-> SubSeq(disk, lba.off + 1,
                                       IF lba.off + lba.size > Len(disk) THEN Len(disk)
                                       ELSE lba.off + lba.size)]
        /\ UNCHANGED <<user, reading>>
     \/ /\ ~(eof /\ bufs = <<>>)
        /\ reading' = [off |-> lba.off, size |-> lba.size,
                       i |-> lba.off \div BufSize, got |-> <<>>]
        /\ answer' = None
        /\ user' = "readbuf"
  /\ UNCHANGED <<proc, writer, bufs, buf_woff, buf_doff, eof, running, sem,
                 disk, buf, userVars>>

(* The assertions of ReadBuffer about buffer i. *)
BufferAsserts(i) ==
  /\ i <= buf_woff
  /\ i = buf_woff \/ Free(bufs[i + 1]) = 0

(* Fault: every buffer is read from its start. *)
CopyFromStart(r) ==
  LET b == bufs[r.i + 1]
      want == r.size - Len(r.got)
  IN  SubSeq(b, 1, IF want > Len(b) THEN Len(b) ELSE want)

(* What ReadBuffer copies of buffer i: from start_off, which is 0 after the
   first buffer, what is there and still wanted. *)
CopyOf(r) ==
  LET b == bufs[r.i + 1]
      start_off == IF r.i = r.off \div BufSize THEN r.off % BufSize ELSE 0
      want == r.size - Len(r.got)
  IN  SubSeq(b, start_off + 1,
             start_off + (IF want > Len(b) - start_off THEN Len(b) - start_off
                                                       ELSE want))

(* One iteration of ReadBuffer, or what follows its loop. *)
ReadBuffer ==
  /\ UserAt("readbuf")
  /\ LET r == reading
         more == Len(r.got) < r.size /\ r.i < Len(bufs)
     IN  \/ /\ more /\ BufferAsserts(r.i)
            /\ reading' = [off |-> r.off, size |-> r.size,
                           i |-> r.i + 1, got |-> r.got \o CopyOf(r)]
            /\ UNCHANGED <<proc, user, writer, bufs, buf_woff, buf_doff, eof,
                           running, sem, disk, buf, userVars, answer>>
         \/ more /\ ~BufferAsserts(r.i) /\ Crash("aborted")
         \/ /\ ~more /\ Len(r.got) = r.size
            /\ answer' = [lba |-> [off |-> r.off, size |-> r.size], bytes |-> r.got]
            /\ reading' = None
            /\ user' = "idle"
            /\ UNCHANGED <<proc, writer, bufs, buf_woff, buf_doff, eof,
                           running, sem, disk, buf, userVars>>
         \/ ~more /\ Len(r.got) # r.size /\ Crash("aborted")

-----------------------------------------------------------------------------
(* Close.                                                                  *)

SetEof ==
  /\ UserAt("idle")
  /\ eof' = TRUE
  /\ user' = "bump"
  /\ UNCHANGED <<proc, writer, bufs, buf_woff, buf_doff, running, sem,
                 disk, buf, userVars, readVars>>

Bump ==
  /\ UserAt("bump")
  /\ buf_woff' = buf_woff + 1
  /\ user' = "closepost"
  /\ UNCHANGED <<proc, writer, bufs, buf_doff, eof, running, sem,
                 disk, buf, userVars, readVars>>

(* Fault: the writer is not woken. *)
ClosePostNothing ==
  /\ UserAt("closepost")
  /\ user' = "join"
  /\ UNCHANGED <<proc, writer, bufs, buf_woff, buf_doff, eof, running, sem,
                 disk, buf, userVars, readVars>>

ClosePost ==
  /\ UserAt("closepost")
  /\ sem' = sem + 1
  /\ user' = "join"
  /\ UNCHANGED <<proc, writer, bufs, buf_woff, buf_doff, eof, running,
                 disk, buf, userVars, readVars>>

(* tid.join() and ClearBuffers, which has nothing left to do. *)
Join ==
  /\ UserAt("join") /\ writer = "done"
  /\ bufs' = <<>>
  /\ user' = "closed"
  /\ UNCHANGED <<proc, writer, buf_woff, buf_doff, eof, running, sem,
                 disk, buf, userVars, readVars>>

-----------------------------------------------------------------------------
(* The writer: Write and writerJobs.                                       *)

(* Fault: the writer goes on without a post. *)
SemTryWait ==
  /\ WriterAt("wait")
  /\ sem' = sem - 1
  /\ writer' = "loop"
  /\ UNCHANGED <<proc, user, bufs, buf_woff, buf_doff, eof, running,
                 disk, buf, userVars, readVars>>

SemWait ==
  /\ WriterAt("wait") /\ sem > 0
  /\ sem' = sem - 1
  /\ writer' = "loop"
  /\ UNCHANGED <<proc, user, bufs, buf_woff, buf_doff, eof, running,
                 disk, buf, userVars, readVars>>

(* Fault: the loop's test lets the buffer through that Append still fills. *)
ToWriteCurrent == buf_doff <= buf_woff

(* The loop's test. *)
ToWrite == buf_doff < buf_woff

(* The loop's test, and bufs_[buf_doff_]: undefined past the end. *)
Fetch ==
  /\ WriterAt("loop")
  /\ \/ /\ ~ToWrite
        /\ writer' = "stop"
        /\ UNCHANGED <<proc, user, bufs, buf_woff, buf_doff, eof, running, sem,
                       disk, buf, userVars, readVars>>
     \/ /\ ToWrite /\ buf_doff < Len(bufs)
        /\ buf' = bufs[buf_doff + 1]
        /\ writer' = "write"
        /\ UNCHANGED <<proc, user, bufs, buf_woff, buf_doff, eof, running, sem,
                       disk, userVars, readVars>>
     \/ ToWrite /\ buf_doff >= Len(bufs) /\ Crash("undefined")

(* write() until all is written, or exit(-1) *)
WriteOut ==
  /\ WriterAt("write")
  /\ \/ /\ disk' = disk \o buf
        /\ buf_doff' = buf_doff + 1
        /\ writer' = "loop"
        /\ UNCHANGED <<proc, user, bufs, buf_woff, eof, running, sem,
                       buf, userVars, readVars>>
     \/ Crash("exited")

StopRunning ==
  /\ WriterAt("stop")
  /\ running' = FALSE
  /\ writer' = "check"
  /\ UNCHANGED <<proc, user, bufs, buf_woff, buf_doff, eof, sem,
                 disk, buf, userVars, readVars>>

CheckEof ==
  /\ WriterAt("check")
  /\ writer' = IF eof THEN "clear" ELSE "wait"
  /\ UNCHANGED <<proc, user, bufs, buf_woff, buf_doff, eof, running, sem,
                 disk, buf, userVars, readVars>>

(* ClearBuffers, one buffer at a time. *)
ClearBuffers ==
  /\ WriterAt("clear")
  /\ \/ bufs # <<>> /\ bufs' = Front(bufs) /\ UNCHANGED writer
     \/ bufs = <<>> /\ writer' = "done" /\ UNCHANGED bufs
  /\ UNCHANGED <<proc, user, buf_woff, buf_doff, eof, running, sem,
                 disk, buf, userVars, readVars>>

(* push_back moves the vector while the writer indexes it, or the writer
   deletes the buffers that ReadBuffer copies from. *)
DataRace ==
  /\ \/ /\ UserAt("expand") /\ NewBuffers > 0
        /\ writer = "loop" /\ ToWrite
     \/ UserAt("readbuf") /\ writer = "clear"
  /\ Crash("undefined")

-----------------------------------------------------------------------------
UserStep ==
  \/ ExpandBuffer \/ Fill \/ Filled \/ DispatchBuffer \/ Post \/ MarkRunning
  \/ ReadBuffer \/ Bump \/ ClosePost \/ Join

WriterStep ==
  \/ SemWait \/ Fetch \/ WriteOut \/ StopRunning \/ CheckEof \/ ClearBuffers

Next ==
  \/ \E n \in RecSize : AppendRecord(n)
  \/ \E lba \in recs : Read(lba)
  \/ SetEof
  \/ UserStep
  \/ WriterStep
  \/ DataRace

Spec == Init /\ [][Next]_vars

(* Both threads run whenever they can; nobody has to call Append, Read or
   Close. *)
FairSpec == Spec /\ WF_vars(UserStep) /\ WF_vars(WriterStep)

-----------------------------------------------------------------------------
(* Properties.                                                             *)

(* The type of every variable. *)
TypeOK ==
  /\ proc \in {"running", "exited", "aborted", "undefined"}
  /\ user \in {"idle", "expand", "fill", "dispatch", "post", "mark", "readbuf",
               "bump", "closepost", "join", "closed"}
  /\ writer \in {"wait", "loop", "write", "stop", "check", "clear", "done"}
  /\ bufs \in Seq(Seq(Nat)) /\ buf \in Seq(Nat) /\ disk \in Seq(Nat)
  /\ buf_woff \in Nat /\ buf_doff \in Nat /\ disk_woff \in Nat
  /\ eof \in BOOLEAN /\ running \in BOOLEAN
  /\ sem \in Nat /\ size \in Nat /\ left \in 0..size
  /\ recs \subseteq [off : Nat, size : Nat]
  /\ reading \in [off : Nat, size : Nat, i : Nat, got : Seq(Nat)] \cup {None}
  /\ answer \in [lba : [off : Nat, size : Nat], bytes : Seq(Nat)] \cup {None}

(* The file holds the stream from its start and without a gap, so that an
   LBA's off_ is the offset to read at (flashcache.cc:301, :387), although
   the fake offsets let the writer write buffers that are not full. *)
DiskInOrder == disk = Bytes(0, Len(disk))

(* ExpandBuffer has always made room for the record: Serialize never meets
   the end of the buffers (flashcache.cc:80, :268). *)
SerializeFits == user = "fill" /\ left > 0 => buf_woff < Len(bufs)

(* Read never copies anything but the record's own bytes, from whichever of
   the buffers and the file they come, and however far the writer is; at
   worst it copies too few (flashcache.cc:334-397). *)
ReadsOwnBytes ==
  answer # None => IsPrefix(answer.bytes, Bytes(answer.lba.off, answer.lba.size))

(* Until the file is full or closed, the buffers hold every record appended,
   where ReadBuffer looks for it, and its assertions hold
   (flashcache.cc:342-347). *)
BufferedUntilEof ==
  ~eof => \A lba \in recs : \A b \in lba.off..(lba.off + lba.size - 1) :
    LET i == b \div BufSize
    IN  /\ i < Len(bufs) /\ BufferAsserts(i)
        /\ b % BufSize < Len(bufs[i + 1])
        /\ bufs[i + 1][(b % BufSize) + 1] = b

(* Close comes to an end: whatever the writer was doing, it sees eof_ and
   tid.join() returns (flashcache.cc:145-151). *)
CloseReturns == user = "bump" ~> user = "closed" \/ proc # "running"

-----------------------------------------------------------------------------
(* What the program says of itself and does not do. *)

(* flashcache.cc:286: the fake offset lets the write thread work to the very
   end.  A writer that is still running when the file fills up gets none. *)
EofWritesAll ==
  writer \in {"clear", "done"} /\ user \notin {"bump", "closepost", "join", "closed"}
    => Len(disk) = disk_woff
=============================================================================

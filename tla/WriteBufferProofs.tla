------------------------- MODULE WriteBufferProofs -------------------------
(***************************************************************************)
(* Proofs about WriteBuffer, for any sizes of buffers, files and records   *)
(* and every interleaving of the user and the writer.                      *)
(***************************************************************************)
EXTENDS WriteBuffer, DataLemmas

(* Where buffer i (counted from 0) begins in the stream. *)
Off(i) == i * BufSize

(* The bytes of the stream that are in the buffers so far. *)
Stream == IF user = "fill" THEN disk_woff + (size - left) ELSE disk_woff

(* How many of the first n bytes of the stream belong in buffer i. *)
HeldOf(n, i) == IF n <= Off(i) THEN 0
                ELSE IF n >= Off(i) + BufSize THEN BufSize ELSE n - Off(i)
Held(i) == HeldOf(Stream, i)

(* Where the two threads can be before and after the end of the file. *)
PlacesOK ==
  /\ user \in {"expand", "fill"} => ~eof
  /\ user = "expand" => left = size
  /\ user \in {"bump", "closepost", "join", "closed"} => eof
  /\ user = "readbuf" <=> reading # None
  /\ writer \in {"clear", "done"} => eof

(* Each buffer that is still there holds its part of the stream. *)
Layout == \A j \in DOMAIN bufs : bufs[j] = Bytes(Off(j - 1), Held(j - 1))

(* Until eof_, buf_woff_ is the buffer where the stream ends, and the buffers
   take all of the record being appended. *)
Room ==
  ~eof => /\ Off(buf_woff) <= Stream /\ Stream < Off(buf_woff) + BufSize
          /\ Stream <= Off(Len(bufs))
          /\ user = "fill" => disk_woff + size <= Off(Len(bufs))

(* The file holds the first buf_doff_ buffers, as far as the stream goes; the
   writer's buffer is the next one. *)
Written ==
  /\ buf_doff <= buf_woff
  /\ writer = "write" => /\ buf_doff < buf_woff
                         /\ buf = Bytes(Off(buf_doff), Held(buf_doff))
  /\ disk = Bytes(0, IF Off(buf_doff) <= Stream THEN Off(buf_doff) ELSE Stream)

(* The records are within the stream. *)
RecsInStream == \A lba \in recs : lba.off + lba.size <= disk_woff

(* ReadBuffer has copied the record's first bytes, and goes on where they
   end, unless it has them all. *)
SoFar(r) ==
  /\ r.off + r.size <= disk_woff
  /\ Len(r.got) <= r.size /\ r.got = Bytes(r.off, Len(r.got))
  /\ \/ r.i = r.off \div BufSize /\ Len(r.got) = 0
     \/ /\ r.i > r.off \div BufSize
        /\ Len(r.got) = r.size \/ r.off + Len(r.got) = Off(r.i)
ReadSoFar == reading # None => SoFar(reading)

(* The inductive invariant. *)
IInv == /\ TypeOK /\ PlacesOK /\ Layout /\ Room /\ Written
        /\ RecsInStream /\ ReadSoFar /\ ReadsOwnBytes

-----------------------------------------------------------------------------
(* Buffers and the stream.                                                 *)

(* Buffers begin one buffer size apart (flashcache.cc:338, :374). *)
LEMMA OffStep ==
  ASSUME NEW i \in Nat
  PROVE  Off(i) \in Nat /\ Off(i + 1) = Off(i) + BufSize /\ Off(0) = 0
BY SizeAssumption DEF Off

(* Several buffers take as much as each of them. *)
LEMMA OffAdd ==
  ASSUME NEW i \in Nat, NEW j \in Nat
  PROVE  Off(i + j) = Off(i) + Off(j)
BY SizeAssumption DEF Off

(* A later buffer begins at least one buffer size later. *)
LEMMA OffLater ==
  ASSUME NEW i \in Nat, NEW j \in Nat, i < j
  PROVE  Off(i) + BufSize <= Off(j)
<1>1. PICK d \in Nat : j = i + 1 + d
  <2>1. j - i - 1 \in Nat /\ j = i + 1 + (j - i - 1)
    OBVIOUS
  <2> QED
    BY <2>1
<1>2. Off(j) = Off(i + 1) + Off(d)
  BY <1>1, OffAdd
<1>3. Off(i + 1) = Off(i) + BufSize /\ Off(d) \in Nat /\ Off(i) \in Nat
  BY OffStep
<1> QED
  BY <1>2, <1>3, SizeAssumption

(* Buffers begin in their order, so that places in the stream order them. *)
LEMMA OffOrder ==
  ASSUME NEW i \in Nat, NEW j \in Nat
  PROVE  /\ i <= j => Off(i) <= Off(j)
         /\ Off(i) < Off(j) => i < j
<1>1. Off(i) \in Nat /\ Off(j) \in Nat
  BY OffStep
<1>2. CASE i = j
  BY <1>1, <1>2
<1>3. CASE i < j
  <2>1. Off(i) + BufSize <= Off(j)
    BY <1>3, OffLater
  <2> QED
    BY <1>1, <1>3, <2>1, SizeAssumption
<1>4. CASE j < i
  <2>1. Off(j) + BufSize <= Off(i)
    BY <1>4, OffLater
  <2> QED
    BY <1>1, <1>4, <2>1, SizeAssumption
<1> QED
  BY <1>2, <1>3, <1>4

(* ReadBuffer's index and offset within the buffer (flashcache.cc:338-339). *)
LEMMA OffDiv ==
  ASSUME NEW b \in Nat
  PROVE  /\ b \div BufSize \in Nat /\ b % BufSize \in 0..(BufSize - 1)
         /\ b = Off(b \div BufSize) + (b % BufSize)
<1>1. PICK m \in Nat \ {0} : m = BufSize
  BY SizeAssumption
<1>2. b % m \in 0..(m - 1) /\ b \div m \in Int /\ b = m * (b \div m) + (b % m)
  BY <1>1
<1>3. b \div m \in Nat
  BY <1>1
<1>4. PICK q \in Nat : q = b \div m
  BY <1>3
<1>5. m * q = q * m
  BY <1>1, <1>4
<1> QED
  BY <1>1, <1>2, <1>3, <1>4, <1>5 DEF Off

(* What a stretch of the stream is, byte by byte. *)
LEMMA BytesAt ==
  ASSUME NEW f \in Nat, NEW n \in Nat
  PROVE  /\ Bytes(f, n) \in Seq(Nat) /\ Len(Bytes(f, n)) = n
         /\ DOMAIN Bytes(f, n) = 1..n
         /\ \A j \in 1..n : Bytes(f, n)[j] = f + j - 1
BY DEF Bytes

(* A stretch of n bytes and the next m bytes. *)
Joined(f, n, m) == Bytes(f, n) \o Bytes(f + n, m)

(* Appending the next bytes gives a longer stretch (flashcache.cc:68-98,
   :202). *)
LEMMA BytesConcat ==
  ASSUME NEW f \in Nat, NEW n \in Nat, NEW m \in Nat
  PROVE  Joined(f, n, m) = Bytes(f, n + m)
<1>1. PICK g \in Nat : g = f + n
  OBVIOUS
<1>2. PICK l \in Nat : l = n + m
  OBVIOUS
<1>3. PICK a \in Seq(Nat) : a = Bytes(f, n) /\ Len(a) = n /\ \A j \in 1..n : a[j] = f + j - 1
  BY BytesAt
<1>4. PICK b \in Seq(Nat) : b = Bytes(g, m) /\ Len(b) = m /\ \A j \in 1..m : b[j] = g + j - 1
  BY BytesAt
<1>5. PICK c \in Seq(Nat) : c = Bytes(f, l) /\ Len(c) = l /\ \A j \in 1..l : c[j] = f + j - 1
  BY BytesAt
<1>6. a \o b \in Seq(Nat) /\ Len(a \o b) = l
  <2>1. a \o b \in Seq(Nat) /\ Len(a \o b) = Len(a) + Len(b)
    BY ConcatProperties
  <2> QED
    BY <1>2, <1>3, <1>4, <2>1
<1>7. ASSUME NEW j \in 1..l PROVE (a \o b)[j] = c[j]
  <2>1. CASE j <= n
    BY <1>2, <1>3, <1>4, <1>5, <2>1
  <2>2. CASE ~(j <= n)
    <3>1. (a \o b)[j] = b[j - n] /\ j - n \in 1..m
      BY <1>2, <1>3, <1>4, <2>2
    <3>2. b[j - n] = g + (j - n) - 1
      BY <1>4, <3>1
    <3>3. c[j] = f + j - 1
      BY <1>5
    <3> QED
      BY <1>1, <1>2, <3>1, <3>2, <3>3
  <2> QED
    BY <2>1, <2>2
<1>8. a \o b = c
  BY <1>5, <1>6, <1>7, SeqEqual
<1> QED
  BY <1>1, <1>2, <1>3, <1>4, <1>5, <1>8 DEF Joined

(* The m bytes behind the first s of a stretch. *)
Part(f, n, s, m) == SubSeq(Bytes(f, n), s + 1, s + m)

(* A part of a stretch is a stretch (flashcache.cc:356-371). *)
LEMMA BytesPart ==
  ASSUME NEW f \in Nat, NEW n \in Nat, NEW s \in Nat, NEW m \in Nat, s + m <= n
  PROVE  Part(f, n, s, m) = Bytes(f + s, m)
<1>1. PICK g \in Nat : g = f + s
  OBVIOUS
<1>2. PICK a \in Seq(Nat) : a = Bytes(f, n) /\ Len(a) = n /\ \A j \in 1..n : a[j] = f + j - 1
  BY BytesAt
<1>3. PICK c \in Seq(Nat) : c = Bytes(g, m) /\ Len(c) = m /\ \A j \in 1..m : c[j] = g + j - 1
  BY BytesAt
<1> DEFINE b == SubSeq(a, s + 1, s + m)
<1>4. b \in Seq(Nat) /\ Len(b) = m /\ \A j \in 1..m : b[j] = a[s + j]
  <2>1. s + 1 \in 1..(Len(a) + 1) /\ s + m \in s..Len(a)
    BY <1>2
  <2>2. /\ b \in Seq(Nat) /\ Len(b) = m
        /\ \A j \in 1..m : b[j] = a[(s + 1) + j - 1]
    BY <1>2, <2>1
  <2> QED
    BY <2>2
<1> HIDE DEF b
<1>5. \A j \in 1..m : b[j] = c[j]
  BY <1>1, <1>2, <1>3, <1>4
<1>6. b = c
  BY <1>3, <1>4, <1>5, SeqEqual
<1> QED
  BY <1>1, <1>2, <1>3, <1>6 DEF b, Part

(* The beginning of a stretch is a prefix of it. *)
LEMMA BytesPrefix ==
  ASSUME NEW f \in Nat, NEW n \in Nat, NEW m \in Nat, m <= n
  PROVE  IsPrefix(Bytes(f, m), Bytes(f, n))
<1>1. PICK a \in Seq(Nat) : a = Bytes(f, n) /\ Len(a) = n /\ \A j \in 1..n : a[j] = f + j - 1
  BY BytesAt
<1>2. PICK c \in Seq(Nat) : c = Bytes(f, m) /\ Len(c) = m /\ \A j \in 1..m : c[j] = f + j - 1
  BY BytesAt
<1>3. \A j \in 1..m : SubSeq(c, 1, m)[j] = SubSeq(a, 1, m)[j]
  BY <1>1, <1>2
<1>4. /\ SubSeq(c, 1, m) \in Seq(Nat) /\ Len(SubSeq(c, 1, m)) = m
      /\ SubSeq(a, 1, m) \in Seq(Nat) /\ Len(SubSeq(a, 1, m)) = m
  BY <1>1, <1>2
<1>5. SubSeq(c, 1, m) = SubSeq(a, 1, m)
  BY <1>3, <1>4, SeqEqual
<1> QED
  BY <1>1, <1>2, <1>5 DEF IsPrefix

(* The stream is a number of bytes, of which a buffer takes at most its size. *)
LEMMA HeldType ==
  ASSUME NEW n \in Nat, NEW i \in Nat
  PROVE  HeldOf(n, i) \in 0..BufSize /\ HeldOf(n, i) \in Nat /\ BufSize - HeldOf(n, i) \in Nat
<1>1. Off(i) \in Nat
  BY OffStep
<1> QED
  BY <1>1, SizeAssumption DEF HeldOf

(* What is in the buffers is a number of bytes. *)
LEMMA StreamType ==
  ASSUME TypeOK
  PROVE  Stream \in Nat
<1>1. disk_woff \in Nat /\ size - left \in Nat
  BY DEF TypeOK
<1> QED
  BY <1>1 DEF Stream

(* A buffer before the one where the stream ends is full, one behind it is
   empty. *)
LEMMA HeldSides ==
  ASSUME NEW n \in Nat, NEW w \in Nat, Off(w) <= n, n <= Off(w) + BufSize
  PROVE  /\ \A i \in Nat : i < w => HeldOf(n, i) = BufSize
         /\ HeldOf(n, w) = n - Off(w)
         /\ \A i \in Nat : i > w => HeldOf(n, i) = 0
<1>0. BufSize \in Nat \ {0} /\ Off(w) \in Nat
  BY OffStep, SizeAssumption
<1>1. ASSUME NEW i \in Nat, i < w PROVE HeldOf(n, i) = BufSize
  <2>1. Off(i) \in Nat /\ Off(i) + BufSize <= Off(w)
    BY <1>1, OffStep, OffLater
  <2> QED
    BY <1>0, <2>1 DEF HeldOf
<1>2. HeldOf(n, w) = n - Off(w)
  BY <1>0 DEF HeldOf
<1>3. ASSUME NEW i \in Nat, i > w PROVE HeldOf(n, i) = 0
  <2>1. Off(i) \in Nat /\ Off(w) + BufSize <= Off(i)
    BY <1>3, OffStep, OffLater
  <2> QED
    BY <1>0, <2>1 DEF HeldOf
<1> QED
  BY <1>1, <1>2, <1>3

(* The buffers, counted from 0. *)
LEMMA BufferAt ==
  ASSUME TypeOK, Layout, NEW i \in Nat, i < Len(bufs)
  PROVE  /\ i + 1 \in DOMAIN bufs
         /\ bufs[i + 1] = Bytes(Off(i), Held(i)) /\ Len(bufs[i + 1]) = Held(i)
         /\ FreeIn(i) = BufSize - Held(i)
<1>1. Len(bufs) \in Nat /\ DOMAIN bufs = 1..Len(bufs)
  BY DEF TypeOK
<1>2. i + 1 \in DOMAIN bufs /\ (i + 1) - 1 = i
  BY <1>1
<1>3. bufs[i + 1] = Bytes(Off(i), Held(i))
  BY <1>2 DEF Layout
<1>4. Off(i) \in Nat /\ Held(i) \in Nat
  BY OffStep, StreamType, HeldType DEF Held
<1>5. Len(bufs[i + 1]) = Held(i)
  BY <1>3, <1>4, BytesAt
<1> QED
  BY <1>2, <1>3, <1>5 DEF FreeIn, Free

-----------------------------------------------------------------------------
(* ExpandBuffer.                                                           *)

(* Until eof_, buf_woff_ is at most the number of buffers (flashcache.cc:260). *)
LEMMA WoffWithin ==
  ASSUME TypeOK, Room, ~eof
  PROVE  buf_woff \in Nat /\ Len(bufs) \in Nat /\ buf_woff <= Len(bufs)
<1>1. buf_woff \in Nat /\ Len(bufs) \in Nat
  BY DEF TypeOK
<1>2. ASSUME Len(bufs) < buf_woff PROVE FALSE
  <2>1. /\ Off(Len(bufs)) + BufSize <= Off(buf_woff)
        /\ Off(Len(bufs)) \in Nat /\ Off(buf_woff) \in Nat /\ Stream \in Nat
    BY <1>1, <1>2, OffLater, OffStep, StreamType
  <2> QED
    BY <2>1, SizeAssumption DEF Room
<1> QED
  BY <1>1, <1>2

(* F are the differences of G on S. *)
Differences(F, G, S) == /\ G \in [Nat -> Int]
                        /\ \A k \in S : F[k] = G[k + 1] - G[k]

(* A sum over consecutive numbers of differences is the difference of the
   ends (flashcache.cc:260). *)
LEMMA Telescope ==
  ASSUME NEW w \in Nat, NEW L \in Nat, w <= L, NEW S, S = w..(L - 1),
         NEW F \in [S -> Nat], NEW it, IsSum(it, F, S),
         NEW G, Differences(F, G, S)
  PROVE  it[S] = G[L] - G[w]
<1>0. /\ it[{}] = 0 /\ \A s \in SUBSET S : \A y \in s : it[s] = F[y] + it[s \ {y}]
      /\ G \in [Nat -> Int] /\ \A k \in S : F[k] = G[k + 1] - G[k]
  <2>1. IsFiniteSet(S)
    BY FS_Interval
  <2>2. it[{}] = 0
    BY DEF IsSum, PartialSum
  <2>3. \A s \in SUBSET S : \A y \in s : it[s] = F[y] + it[s \ {y}]
    <3> TAKE s \in SUBSET S
    <3> TAKE y \in s
    <3> QED
      BY ONLY F \in [S -> Nat], IsSum(it, F, S), s \in SUBSET S, y \in s, <2>1, SumRemove
  <2> QED
    BY <2>2, <2>3 DEF Differences
<1> DEFINE T(k) == w..(k - 1)
           P == {k \in Nat : w <= k /\ k <= L => it[T(k)] = G[k] - G[w]}
<1>1. G[w] \in Int /\ T(w) = {}
  BY <1>0
<1>2. w \in P
  BY <1>0, <1>1
<1>3. 0 \in P
  BY <1>2
<1>4. ASSUME NEW k \in P PROVE k + 1 \in P
  <2>1. CASE w <= k /\ k + 1 <= L
    <3>1. /\ k \in S /\ k \in T(k + 1) /\ T(k + 1) \in SUBSET S
          /\ T(k + 1) \ {k} = T(k)
      <4>1. k \in Nat /\ (k + 1) - 1 = k
        OBVIOUS
      <4>2. k \in S /\ k \in w..k /\ \A x \in w..k : x \in S
        BY <2>1, <4>1
      <4>3. \A x : x \in (w..k) \ {k} <=> x \in w..(k - 1)
        BY <4>1
      <4> QED
        BY <4>1, <4>2, <4>3
    <3>2. it[T(k)] = G[k] - G[w]
      BY <2>1
    <3>3. it[T(k + 1)] = F[k] + it[T(k)]
      <4>1. PICK A : A = T(k + 1)
        OBVIOUS
      <4>2. PICK B : B = T(k)
        OBVIOUS
      <4>3. k \in A /\ A \in SUBSET S /\ A \ {k} = B
        BY <3>1, <4>1, <4>2
      <4> HIDE DEF T, P
      <4>4. \A s \in SUBSET S : \A y \in s : it[s] = F[y] + it[s \ {y}]
        BY <1>0
      <4>5. it[A] = F[k] + it[A \ {k}]
        BY ONLY <4>3, <4>4
      <4> QED
        BY <4>1, <4>2, <4>3, <4>5
    <3>4. F[k] = G[k + 1] - G[k] /\ G[k] \in Int /\ G[k + 1] \in Int
      BY <1>0, <3>1
    <3>5. it[T(k + 1)] = G[k + 1] - G[w]
      BY <1>1, <3>2, <3>3, <3>4
    <3> QED
      BY <3>5
  <2>2. CASE ~(w <= k /\ k + 1 <= L)
    <3>1. CASE k + 1 = w
      BY <1>2, <3>1
    <3>2. CASE k + 1 # w
      BY <2>2, <3>2
    <3> QED
      BY <3>1, <3>2
  <2> QED
    BY <2>1, <2>2
<1>5. P = Nat
  <2>1. P \in SUBSET Nat
    OBVIOUS
  <2> HIDE DEF P
  <2> QED
    BY <1>3, <1>4, <2>1, NatSetInduction
<1>6. L \in P
  <2> HIDE DEF P
  <2> QED
    BY <1>5
<1>7. it[T(L)] = G[L] - G[w] /\ T(L) = S
  BY <1>6
<1> QED
  <2> HIDE DEF P, T
  <2> QED
    BY <1>7

(* The loop of ExpandBuffer finds what the buffers have left behind the end of
   the stream (flashcache.cc:259-266). *)
LEMMA FreeSum ==
  ASSUME TypeOK, Layout, Room, ~eof
  PROVE  FreeSpace = Off(Len(bufs)) - Stream /\ FreeSpace \in Nat
<1>1. PICK w \in Nat : w = buf_woff
  BY WoffWithin
<1>2. PICK L \in Nat : L = Len(bufs) /\ w <= L
  BY <1>1, WoffWithin
<1>3. PICK n \in Nat : n = Stream
  BY StreamType
<1>4. /\ Off(w) \in Nat /\ Off(w) <= n /\ n < Off(w) + BufSize
      /\ Off(L) \in Nat /\ n <= Off(L)
  BY <1>1, <1>2, <1>3, OffStep DEF Room
<1>5. PICK S : S = w..(L - 1)
  OBVIOUS
<1> DEFINE F == [i \in S |-> FreeIn(i)]
           G == [k \in Nat |-> IF k <= w THEN n ELSE Off(k)]
<1>6. ASSUME NEW i \in S
      PROVE  i \in Nat /\ FreeIn(i) = BufSize - HeldOf(n, i) /\ FreeIn(i) \in Nat
  <2>1. i \in Nat /\ i < Len(bufs)
    BY <1>2, <1>5
  <2> QED
    BY <1>3, <2>1, BufferAt, HeldType DEF Held
<1>7. IsFiniteSet(S) /\ F \in [S -> Nat]
  <2>1. IsFiniteSet(S)
    BY <1>5, FS_Interval
  <2> QED
    BY <1>6, <2>1
<1>8. PICK it : IsSum(it, F, S) /\ FreeSpace = it[S]
  <2>1. PICK a : IsSum(a, F, S)
    BY <1>7, SumExists
  <2> DEFINE Term(b, s) == IF s = {} THEN 0
                           ELSE LET x == CHOOSE x \in s : TRUE IN FreeIn(x) + b[s \ {x}]
  <2>2. \A b : \A s \in SUBSET S : PartialSum(b, F, s) = Term(b, s)
    <3> TAKE b
    <3> TAKE s \in SUBSET S
    <3>1. CASE s = {}
      BY <3>1 DEF PartialSum
    <3>2. CASE s # {}
      <4> DEFINE x == CHOOSE x \in s : TRUE
      <4>1. x \in S
        BY <3>2
      <4>2. F[x] = FreeIn(x)
        BY <4>1
      <4> QED
        BY <3>2, <4>2 DEF PartialSum
    <3> QED
      BY <3>1, <3>2
  <2> HIDE DEF F
  <2>3. a = [s \in SUBSET S |-> Term(a, s)]
    BY <2>1, <2>2 DEF IsSum
  <2>4. FreeSpace = MapThenSumSet(FreeIn, S)
    BY <1>1, <1>2, <1>5 DEF FreeSpace
  <2>5. PICK b : b = [s \in SUBSET S |-> Term(b, s)] /\ MapThenSumSet(FreeIn, S) = b[S]
    BY <2>3 DEF MapThenSumSet, MapThenFoldSet
  <2>6. IsSum(b, F, S)
    BY <2>2, <2>5 DEF IsSum
  <2> QED
    BY <2>4, <2>5, <2>6
<1>9. ASSUME NEW k \in S PROVE F[k] = G[k + 1] - G[k]
  <2>1. k \in Nat /\ k >= w /\ k + 1 \in Nat
    BY <1>5
  <2>2. F[k] = BufSize - HeldOf(n, k)
    BY <1>6
  <2>3. Off(k) \in Nat /\ Off(k + 1) = Off(k) + BufSize
    BY <2>1, OffStep
  <2>4. G[k + 1] = Off(k) + BufSize
    BY <2>1, <2>3
  <2>5. CASE k = w
    <3>1. G[k] = n
      BY <2>1, <2>5
    <3>2. HeldOf(n, w) = n - Off(w)
      BY <1>4, HeldSides, SizeAssumption
    <3> QED
      BY <1>4, <2>2, <2>3, <2>4, <2>5, <3>1, <3>2, SizeAssumption
  <2>6. CASE k # w
    <3>1. k > w
      BY <2>1, <2>6
    <3>2. G[k] = Off(k)
      BY <2>1, <3>1
    <3>3. HeldOf(n, k) = 0
      BY <1>4, <2>1, <3>1, HeldSides, SizeAssumption
    <3> QED
      BY <2>2, <2>3, <2>4, <3>2, <3>3, SizeAssumption
  <2> QED
    BY <2>5, <2>6
<1>10. w <= L /\ S = w..(L - 1)
  BY <1>2, <1>5
<1>11. G \in [Nat -> Int] /\ G[w] = n /\ G[L] = IF L = w THEN n ELSE Off(L)
  <2>1. \A k \in Nat : Off(k) \in Int
    BY OffStep
  <2> QED
    BY <1>2, <2>1
<1> HIDE DEF F, G
<1>12. it[S] = G[L] - G[w]
  <2>1. Differences(F, G, S)
    BY <1>9, <1>11 DEF Differences
  <2> QED
    BY <1>7, <1>8, <1>10, <2>1, Telescope
<1>13. L = w => Off(L) = n
  BY <1>4
<1>14. FreeSpace = Off(L) - n
  BY <1>4, <1>8, <1>11, <1>12, <1>13
<1> QED
  BY <1>2, <1>3, <1>4, <1>14

(* ExpandBuffer makes room for the whole record (flashcache.cc:268-277). *)
LEMMA NewRoom ==
  ASSUME TypeOK, PlacesOK, Layout, Room, user = "expand"
  PROVE  /\ NewBuffers \in Nat
         /\ disk_woff + size <= Off(Len(bufs) + NewBuffers)
<1>1. ~eof /\ Stream = disk_woff
  BY DEF PlacesOK, Stream
<1>2. PICK s \in Nat : s = size
  BY DEF TypeOK
<1>3. PICK L \in Nat : L = Len(bufs)
  BY DEF TypeOK
<1>4. PICK n \in Nat : n = Stream
  BY StreamType
<1>5. PICK f \in Nat : f = FreeSpace /\ f = Off(L) - n
  BY <1>1, <1>3, <1>4, FreeSum
<1>6. Off(L) \in Nat
  BY OffStep
<1>7. CASE f >= s
  <2>1. NewBuffers = 0
    BY <1>2, <1>5, <1>7 DEF NewBuffers
  <2>2. L + 0 = L /\ n + s <= Off(L)
    BY <1>5, <1>6, <1>7
  <2> QED
    BY <1>1, <1>2, <1>3, <1>4, <2>1, <2>2
<1>8. CASE ~(f >= s)
  <2>1. PICK m \in Nat : m = BufSize /\ m > 0
    BY SizeAssumption
  <2>2. PICK a \in Nat : a = s - f + m - 1
    BY <1>8, <2>1
  <2>3. PICK q \in Nat : q = a \div BufSize
    BY OffDiv
  <2>4. PICK r \in Nat : r = a % BufSize /\ r <= m - 1
    BY <2>1, OffDiv
  <2>5. a = Off(q) + r /\ Off(q) \in Nat
    BY <2>3, <2>4, OffDiv, OffStep
  <2>6. NewBuffers = q
    BY <1>2, <1>5, <1>8, <2>1, <2>2, <2>3 DEF NewBuffers
  <2>7. Off(L + q) = Off(L) + Off(q)
    BY OffAdd
  <2>8. n + s <= Off(L + q)
    BY <1>5, <1>6, <2>1, <2>2, <2>4, <2>5, <2>7
  <2> QED
    BY <1>1, <1>2, <1>3, <1>4, <2>6, <2>8
<1> QED
  BY <1>7, <1>8

-----------------------------------------------------------------------------
(* Read.                                                                   *)

(* A Read of the file finds a prefix of the record (flashcache.cc:385-397). *)
LEMMA DiskRead ==
  ASSUME NEW d \in Nat, NEW o \in Nat, NEW s \in Nat
  PROVE  \E m \in Nat : /\ m <= s
                        /\ SubSeq(Bytes(0, d), o + 1, IF o + s > d THEN d ELSE o + s)
                             = Bytes(o, m)
<1>1. CASE o <= d
  <2>1. PICK m \in Nat : m = IF o + s > d THEN d - o ELSE s
    BY <1>1
  <2>2. o + m <= d /\ m <= s
    BY <1>1, <2>1
  <2>3. Part(0, d, o, m) = Bytes(0 + o, m)
    BY <2>2, BytesPart
  <2>4. o + m = (IF o + s > d THEN d ELSE o + s) /\ 0 + o = o
    BY <1>1, <2>1
  <2> QED
    BY <2>2, <2>3, <2>4 DEF Part
<1>2. CASE ~(o <= d)
  <2>1. PICK a \in Seq(Nat) : a = Bytes(0, d) /\ Len(a) = d
    BY BytesAt
  <2>2. (IF o + s > d THEN d ELSE o + s) = d /\ o + 1 > d
    BY <1>2
  <2>3. SubSeq(a, o + 1, d) = << >>
    BY <2>1, <2>2
  <2>4. PICK c \in Seq(Nat) : c = Bytes(o, 0) /\ Len(c) = 0
    BY BytesAt
  <2>5. c = << >>
    BY <2>4, EmptySeq
  <2> QED
    BY <2>1, <2>2, <2>3, <2>4, <2>5
<1> QED
  BY <1>1, <1>2

(* How much ReadBuffer copies of a buffer that begins at p and holds h bytes:
   the rest of the record, or the rest of a full buffer (flashcache.cc:356-362). *)
LEMMA CopyLength ==
  ASSUME NEW o \in Nat, NEW z \in Nat, NEW g \in Nat, NEW S \in Nat, NEW p \in Nat,
         NEW m \in Nat, NEW st \in Nat, NEW h \in Nat,
         o + z <= S, g < z, o + g = p + st, st < m,
         h = IF S <= p THEN 0 ELSE IF S >= p + m THEN m ELSE S - p
  PROVE  \E n \in Nat : /\ n = IF z - g > h - st THEN h - st ELSE z - g
                        /\ st + n <= h /\ g + n <= z
                        /\ g + n = z \/ o + g + n = p + m
<1>1. st < h /\ (h = m \/ h = S - p)
  OBVIOUS
<1>2. PICK n \in Nat : n = IF z - g > h - st THEN h - st ELSE z - g
  BY <1>1
<1>3. st + n <= h /\ g + n <= z /\ (g + n = z \/ o + g + n = p + m)
  BY <1>1, <1>2
<1> QED
  BY <1>2, <1>3

(* What ReadBuffer copies of a buffer continues what it has, up to the end of
   the record or of the buffer (flashcache.cc:349-377). *)
LEMMA CopyBytes ==
  ASSUME TypeOK, PlacesOK, Layout, ReadSoFar, user = "readbuf",
         NEW g \in Nat, g = Len(reading.got), g < reading.size, reading.i < Len(bufs)
  PROVE  \E n \in Nat : /\ g + n <= reading.size
                        /\ CopyOf(reading) = Bytes(reading.off + g, n)
                        /\ \/ g + n = reading.size
                           \/ reading.off + g + n = Off(reading.i + 1)
<1>1. reading # None /\ Stream = disk_woff
  BY DEF PlacesOK, Stream
<1>2. reading \in [off : Nat, size : Nat, i : Nat, got : Seq(Nat)]
  BY <1>1 DEF TypeOK
<1>3. PICK o \in Nat : o = reading.off
  BY <1>2
<1>4. PICK z \in Nat : z = reading.size
  BY <1>2
<1>5. PICK i \in Nat : i = reading.i
  BY <1>2
<1>6. PICK S \in Nat : S = Stream
  BY StreamType
<1>7. o + z <= S /\ g < z
  BY <1>1, <1>3, <1>4, <1>6 DEF ReadSoFar, SoFar
<1>8. PICK h \in Nat : h = HeldOf(S, i)
  BY HeldType
<1>9. bufs[i + 1] = Bytes(Off(i), h) /\ Len(bufs[i + 1]) = h
  BY <1>5, <1>6, <1>8, BufferAt DEF Held
<1>10. PICK m \in Nat : m = BufSize /\ m > 0
  BY SizeAssumption
<1>11. PICK p \in Nat : p = Off(i) /\ Off(i + 1) = p + m
  BY <1>10, OffStep
<1>12. PICK st \in Nat : /\ st = IF i = o \div BufSize THEN o % BufSize ELSE 0
                         /\ o + g = p + st /\ st < m
  <2>1. CASE i = o \div BufSize /\ g = 0
    <3>0. o % BufSize \in 0..(BufSize - 1)
      BY OffDiv
    <3>1. PICK st \in Nat : st = o % BufSize /\ st < m
      BY <1>10, <3>0
    <3>2. o = p + st
      BY <1>11, <2>1, <3>1, OffDiv
    <3>3. o + g = p + st
      BY <2>1, <3>2
    <3> QED
      BY <2>1, <3>1, <3>3
  <2>2. CASE i > o \div BufSize /\ o + g = p
    <3>1. o \div BufSize \in Nat
      BY OffDiv
    <3> QED
      BY <1>10, <2>2, <3>1
  <2> QED
    BY <1>1, <1>3, <1>4, <1>5, <1>7, <1>11, <2>1, <2>2 DEF ReadSoFar, SoFar
<1>13. h = IF S <= p THEN 0 ELSE IF S >= p + m THEN m ELSE S - p
  BY <1>8, <1>10, <1>11 DEF HeldOf
<1>14. PICK n \in Nat : /\ n = IF z - g > h - st THEN h - st ELSE z - g
                        /\ st + n <= h /\ g + n <= z
                        /\ g + n = z \/ o + g + n = p + m
  BY ONLY o \in Nat, z \in Nat, g \in Nat, S \in Nat, p \in Nat, m \in Nat,
     st \in Nat, h \in Nat, <1>7, <1>12, <1>13, CopyLength
<1>15. CopyOf(reading) = Bytes(o + g, n)
  <2>1. CopyOf(reading) = SubSeq(bufs[i + 1], st + 1, st + n)
    <3>1. st = IF i = o \div BufSize THEN o % BufSize ELSE 0
      BY <1>12
    <3> QED
      BY <1>3, <1>4, <1>5, <1>7, <1>9, <1>14, <3>1 DEF CopyOf
  <2>2. Part(p, h, st, n) = Bytes(p + st, n)
    <3>1. st + n <= h
      BY <1>14
    <3> QED
      BY ONLY p \in Nat, h \in Nat, st \in Nat, n \in Nat, <3>1, BytesPart
  <2>3. p + st = o + g
    BY <1>12
  <2> QED
    BY <1>9, <1>11, <2>1, <2>2, <2>3 DEF Part
<1> QED
  BY <1>3, <1>4, <1>5, <1>11, <1>14, <1>15

-----------------------------------------------------------------------------
(* The steps.                                                              *)

(* Only Serialize changes how much of the stream is in the buffers. *)
LEMMA StreamStep ==
  ASSUME TypeOK, PlacesOK, [Next]_vars, ~Fill
  PROVE  Stream' = Stream
<1>0. disk_woff \in Nat /\ size \in Nat /\ left \in Nat
  BY DEF TypeOK
<1>1. CASE UNCHANGED vars
  BY <1>1 DEF vars, userVars, Stream
<1>2. CASE \E n \in RecSize : AppendRecord(n)
  BY <1>2 DEF AppendRecord, UserAt, Stream
<1>3. CASE \E lba \in recs : Read(lba)
  BY <1>3 DEF Read, UserAt, userVars, Stream
<1>4. CASE ExpandBuffer
  BY <1>0, <1>4 DEF ExpandBuffer, UserAt, userVars, PlacesOK, Stream
<1>5. CASE Filled
  BY <1>0, <1>5 DEF Filled, UserAt, Stream
<1>6. CASE SetEof \/ DispatchBuffer \/ Post \/ MarkRunning \/ Bump \/ ClosePost \/ Join
  BY <1>6 DEF SetEof, DispatchBuffer, Post, MarkRunning, Bump, ClosePost, Join,
     UserAt, userVars, Stream
<1>7. CASE ReadBuffer
  BY <1>7 DEF ReadBuffer, UserAt, Crash, userVars, Stream
<1>8. CASE WriterStep \/ DataRace
  BY <1>8 DEF WriterStep, SemWait, Fetch, WriteOut, StopRunning, CheckEof, ClearBuffers,
     DataRace, Crash, userVars, Stream
<1> QED
  BY <1>1, <1>2, <1>3, <1>4, <1>5, <1>6, <1>7, <1>8 DEF Next, UserStep

(* Serialize puts the next bytes of the stream behind those of the buffer
   where the stream ends (flashcache.cc:68-98). *)
LEMMA FillStep ==
  ASSUME TypeOK, PlacesOK, Layout, Room, Fill
  PROVE  \E k \in Nat :
           /\ k <= left /\ left' = left - k /\ Stream' = Stream + k
           /\ Stream + k <= Off(buf_woff) + BufSize
           /\ buf_woff + 1 \in DOMAIN bufs
           /\ bufs' = [bufs EXCEPT ![buf_woff + 1] =
                         Bytes(Off(buf_woff), (Stream + k) - Off(buf_woff))]
           /\ buf_woff' = IF Stream + k = Off(buf_woff) + BufSize THEN buf_woff + 1
                                                                  ELSE buf_woff
<1>1. user = "fill" /\ ~eof /\ buf_woff < Len(bufs) /\ user' = user
      /\ disk_woff' = disk_woff /\ size' = size
  BY DEF Fill, UserAt, PlacesOK
<1>2. PICK w \in Nat : w = buf_woff
  BY DEF TypeOK
<1>3. PICK S \in Nat : S = Stream
  BY StreamType
<1>4. PICK m \in Nat : m = BufSize
  BY SizeAssumption
<1>5. PICK p \in Nat : p = Off(w)
  BY OffStep
<1>6. p <= S /\ S < p + m
  BY <1>1, <1>2, <1>3, <1>4, <1>5 DEF Room
<1>7. HeldOf(S, w) = S - p
  BY <1>3, <1>4, <1>5, <1>6, HeldSides
<1>8. PICK h \in Nat : h = S - p /\ h < m
  BY <1>6
<1>9. PICK b : b = bufs[w + 1]
  OBVIOUS
<1>10. w + 1 \in DOMAIN bufs /\ b = Bytes(p, h) /\ Len(b) = h
  BY <1>1, <1>2, <1>3, <1>5, <1>7, <1>8, <1>9, BufferAt DEF Held
<1>11. PICK l \in Nat : l = left
  BY DEF TypeOK
<1>12. PICK k \in Nat : k = IF l <= m - h THEN l ELSE m - h
  <2>1. h < m
    BY <1>8
  <2>2. (IF l <= m - h THEN l ELSE m - h) \in Nat
    BY ONLY l \in Nat, m \in Nat, h \in Nat, <2>1
  <2> QED
    BY <2>2, Zenon
<1>13. /\ bufs' = [bufs EXCEPT ![w + 1] = b \o Bytes(disk_woff + size - left, k)]
       /\ left' = l - k
       /\ buf_woff' = IF k = m - h THEN w + 1 ELSE w
  BY <1>2, <1>4, <1>9, <1>10, <1>11, <1>12 DEF Fill, Free
<1>14. disk_woff + size - left = S
  <2>1. disk_woff \in Nat /\ size \in Nat /\ left \in Nat
    BY DEF TypeOK
  <2> QED
    BY <1>1, <1>3, <2>1 DEF Stream
<1>15. Stream' = S + k
  <2>1. disk_woff \in Nat /\ size \in Nat
    BY DEF TypeOK
  <2>2. S = disk_woff + (size - l)
    BY <1>1, <1>3, <1>11 DEF Stream
  <2>3. Stream' = disk_woff + (size - left')
    BY <1>1 DEF Stream
  <2> QED
    BY <1>11, <1>12, <1>13, <2>1, <2>2, <2>3
<1>16. PICK t \in Nat : t = h + k /\ t = (S + k) - p
  BY <1>6, <1>8
<1>17. b \o Bytes(S, k) = Bytes(p, t)
  <2>1. S = p + h
    BY <1>6, <1>8
  <2>2. t = h + k /\ b = Bytes(p, h)
    BY <1>10, <1>16
  <2>3. Joined(p, h, k) = Bytes(p, h + k)
    BY ONLY p \in Nat, h \in Nat, k \in Nat, BytesConcat
  <2> QED
    BY <2>1, <2>2, <2>3 DEF Joined
<1>18. k <= l /\ S + k <= p + m /\ (k = m - h <=> S + k = p + m)
  BY <1>6, <1>8, <1>12
<1>19. bufs' = [bufs EXCEPT ![w + 1] = Bytes(p, (S + k) - p)]
  BY <1>13, <1>14, <1>16, <1>17
<1>20. buf_woff' = IF S + k = p + m THEN w + 1 ELSE w
  BY <1>13, <1>18
<1> QED
  BY <1>2, <1>3, <1>4, <1>5, <1>10, <1>11, <1>13, <1>15, <1>18, <1>19, <1>20

(* One iteration of ReadBuffer's loop (flashcache.cc:342-377). *)
LEMMA CopyStep ==
  ASSUME TypeOK, PlacesOK, Layout, ReadSoFar, user = "readbuf",
         Len(reading.got) < reading.size, reading.i < Len(bufs),
         NEW r, r = [off |-> reading.off, size |-> reading.size,
                     i |-> reading.i + 1, got |-> reading.got \o CopyOf(reading)]
  PROVE  r \in [off : Nat, size : Nat, i : Nat, got : Seq(Nat)] /\ SoFar(r)
<1>1. /\ reading \in [off : Nat, size : Nat, i : Nat, got : Seq(Nat)]
      /\ SoFar(reading)
  BY DEF PlacesOK, TypeOK, ReadSoFar
<1>2. PICK o \in Nat : o = reading.off
  BY <1>1
<1>3. PICK i \in Nat : i = reading.i
  BY <1>1
<1>4. PICK g \in Nat : g = Len(reading.got) /\ reading.got = Bytes(o, g)
  BY <1>1, <1>2 DEF SoFar
<1>5. PICK n \in Nat : /\ g + n <= reading.size
                       /\ CopyOf(reading) = Bytes(o + g, n)
                       /\ g + n = reading.size \/ o + g + n = Off(i + 1)
  <2>1. g < reading.size /\ g = Len(reading.got)
    BY <1>4
  <2> QED
    BY <1>2, <1>3, <2>1, CopyBytes
<1>6. reading.got \o CopyOf(reading) = Bytes(o, g + n)
  <2>1. Joined(o, g, n) = Bytes(o, g + n)
    BY ONLY o \in Nat, g \in Nat, n \in Nat, BytesConcat
  <2> QED
    BY <1>4, <1>5, <2>1 DEF Joined
<1>7. PICK l \in Nat : l = g + n
  OBVIOUS
<1>8. PICK c \in Seq(Nat) : c = Bytes(o, l) /\ Len(c) = l
  BY BytesAt
<1>9. PICK z \in Nat : z = reading.size
  BY <1>1
<1>10. r = [off |-> o, size |-> z, i |-> i + 1, got |-> c]
  BY <1>2, <1>3, <1>6, <1>7, <1>8, <1>9
<1>11. PICK q \in Nat : q = o \div BufSize
  BY OffDiv
<1>12. o + z <= disk_woff /\ (i = q \/ i > q)
  BY <1>1, <1>2, <1>3, <1>9, <1>11 DEF SoFar
<1>13. i + 1 > q /\ i + 1 \in Nat
  BY <1>12
<1>14. l <= z /\ (l = z \/ o + l = Off(i + 1))
  BY <1>5, <1>7, <1>9
<1>15. r.off = o /\ r.size = z /\ r.i = i + 1 /\ r.got = c
  BY <1>10
<1>16. SoFar(r)
  BY ONLY <1>8, <1>11, <1>12, <1>13, <1>14, <1>15 DEF SoFar
<1>17. r \in [off : Nat, size : Nat, i : Nat, got : Seq(Nat)]
  BY ONLY o \in Nat, z \in Nat, c \in Seq(Nat), <1>10, <1>13
<1> QED
  BY <1>16, <1>17

(* Read starts at the buffer of the record's first byte, with nothing copied,
   or copies from the file (flashcache.cc:334-340, :381-397). *)
LEMMA ReadTaken ==
  ASSUME TypeOK, Written, RecsInStream, NEW lba \in recs, Read(lba)
  PROVE  \/ /\ reading' = reading
            /\ \E m \in Nat : /\ m <= lba.size
                              /\ answer' = [lba |-> lba, bytes |-> Bytes(lba.off, m)]
         \/ /\ reading' \in [off : Nat, size : Nat, i : Nat, got : Seq(Nat)]
            /\ SoFar(reading') /\ answer' = None
<1>1. lba \in [off : Nat, size : Nat] /\ lba.off + lba.size <= disk_woff
  BY DEF TypeOK, RecsInStream
<1>2. CASE eof /\ bufs = <<>>
  <2>1. PICK d \in Nat : disk = Bytes(0, d) /\ Len(disk) = d
    <3>1. \E d \in Nat : d = IF Off(buf_doff) <= Stream THEN Off(buf_doff) ELSE Stream
      BY StreamType, OffStep DEF TypeOK
    <3> QED
      BY <3>1, BytesAt DEF Written
  <2>2. PICK m \in Nat :
          /\ m <= lba.size
          /\ SubSeq(Bytes(0, d), lba.off + 1,
                    IF lba.off + lba.size > d THEN d ELSE lba.off + lba.size)
               = Bytes(lba.off, m)
    BY <1>1, DiskRead
  <2>3. reading' = reading /\ answer' = [lba |-> lba, bytes |-> Bytes(lba.off, m)]
    BY <1>2, <2>1, <2>2 DEF Read
  <2> QED
    BY <2>2, <2>3
<1>3. CASE ~(eof /\ bufs = <<>>)
  <2>1. /\ reading' = [off |-> lba.off, size |-> lba.size,
                       i |-> lba.off \div BufSize, got |-> <<>>]
        /\ answer' = None
    BY <1>3 DEF Read
  <2>2. lba.off \div BufSize \in Nat
    BY <1>1, OffDiv
  <2>3. << >> = Bytes(lba.off, 0) /\ Len(<< >>) = 0 /\ << >> \in Seq(Nat)
    <3>1. Bytes(lba.off, 0) \in Seq(Nat) /\ Len(Bytes(lba.off, 0)) = 0
      BY <1>1, BytesAt
    <3> QED
      BY <3>1, EmptySeq
  <2> QED
    BY <1>1, <2>1, <2>2, <2>3 DEF SoFar
<1> QED
  BY <1>2, <1>3

(* ClearBuffers takes the last buffer away (flashcache.cc:155-160). *)
LEMMA FrontAt ==
  ASSUME NEW T, NEW q \in Seq(T), q # << >>
  PROVE  /\ Front(q) \in Seq(T) /\ Len(Front(q)) = Len(q) - 1 /\ Len(q) \in Nat \ {0}
         /\ \A j \in 1..(Len(q) - 1) : Front(q)[j] = q[j]
BY DropVictimIndex DEF LruDropVictim

(* The types are kept. *)
LEMMA TypeStep ==
  ASSUME IInv, [Next]_vars
  PROVE  TypeOK'
<1>0. TypeOK /\ PlacesOK /\ Layout /\ Room /\ Written /\ RecsInStream /\ ReadSoFar
  BY DEF IInv
<1>1. CASE UNCHANGED vars
  BY <1>0, <1>1 DEF TypeOK, vars, userVars, readVars
<1>2. CASE \E n \in RecSize : AppendRecord(n)
  BY <1>0, <1>2, SizeAssumption DEF AppendRecord, TypeOK, readVars
<1>3. ASSUME NEW lba \in recs, Read(lba)
      PROVE  TypeOK'
  <2>1. lba \in [off : Nat, size : Nat]
    BY <1>0 DEF TypeOK
  <2>2. \A m \in Nat : Bytes(lba.off, m) \in Seq(Nat)
    BY <2>1, BytesAt
  <2>3. /\ reading' \in [off : Nat, size : Nat, i : Nat, got : Seq(Nat)] \cup {None}
        /\ answer' \in [lba : [off : Nat, size : Nat], bytes : Seq(Nat)] \cup {None}
    <3>1. reading \in [off : Nat, size : Nat, i : Nat, got : Seq(Nat)] \cup {None}
      BY <1>0 DEF TypeOK
    <3> QED
      BY <1>0, <1>3, <2>1, <2>2, <3>1, ReadTaken
  <2>4. user' \in {"idle", "readbuf"}
    BY <1>3 DEF Read, UserAt
  <2> QED
    BY <1>0, <1>3, <2>3, <2>4 DEF Read, TypeOK, userVars
<1>4. CASE ExpandBuffer
  <2>1. NewBuffers \in Nat
    BY <1>0, <1>4, NewRoom DEF ExpandBuffer, UserAt
  <2>2. bufs' \in Seq(Seq(Nat))
    <3>1. [j \in 1..NewBuffers |-> << >>] \in Seq(Seq(Nat))
      BY <2>1
    <3>2. bufs \in Seq(Seq(Nat))
      BY <1>0 DEF TypeOK
    <3>3. bufs' = bufs \o [j \in 1..NewBuffers |-> << >>]
      BY <1>4 DEF ExpandBuffer
    <3> QED
      BY <3>1, <3>2, <3>3
  <2> QED
    BY <1>0, <1>4, <2>2 DEF ExpandBuffer, TypeOK, userVars, readVars
<1>5. CASE Fill
  <2>1. PICK k \in Nat :
           /\ k <= left /\ left' = left - k
           /\ Stream + k <= Off(buf_woff) + BufSize
           /\ buf_woff + 1 \in DOMAIN bufs
           /\ bufs' = [bufs EXCEPT ![buf_woff + 1] =
                         Bytes(Off(buf_woff), (Stream + k) - Off(buf_woff))]
           /\ buf_woff' = IF Stream + k = Off(buf_woff) + BufSize THEN buf_woff + 1
                                                                  ELSE buf_woff
    BY <1>0, <1>5, FillStep
  <2>2. Off(buf_woff) \in Nat /\ Stream \in Nat /\ Off(buf_woff) <= Stream
    <3>1. ~eof /\ buf_woff \in Nat
      BY <1>0, <1>5 DEF Fill, UserAt, PlacesOK, TypeOK
    <3> QED
      BY <1>0, <3>1, OffStep, StreamType DEF Room
  <2>3. Bytes(Off(buf_woff), (Stream + k) - Off(buf_woff)) \in Seq(Nat)
    <3>1. (Stream + k) - Off(buf_woff) \in Nat
      BY <2>2
    <3> QED
      BY <2>2, <3>1, BytesAt
  <2>4. bufs' \in Seq(Seq(Nat))
    <3>1. bufs \in Seq(Seq(Nat))
      BY <1>0 DEF TypeOK
    <3> QED
      BY <2>1, <2>3, <3>1
  <2>5. left' \in 0..size /\ buf_woff' \in Nat
    BY <1>0, <2>1 DEF TypeOK
  <2> QED
    BY <1>0, <1>5, <2>4, <2>5 DEF Fill, TypeOK, readVars
<1>6. CASE Filled
  <2>1. /\ disk_woff \in Nat /\ size \in Nat
        /\ disk_woff + size \in Nat /\ (disk_woff + size >= MaxSize) \in BOOLEAN
    BY <1>0 DEF TypeOK
  <2> QED
    BY <1>0, <1>6, <2>1 DEF Filled, TypeOK, readVars
<1>7. CASE DispatchBuffer
  BY <1>0, <1>7 DEF DispatchBuffer, TypeOK, userVars, readVars
<1>8. CASE SetEof \/ Post \/ MarkRunning \/ Bump \/ ClosePost \/ Join
  <2>1. CASE SetEof
    BY <1>0, <2>1 DEF SetEof, TypeOK, userVars, readVars
  <2>2. CASE Post
    BY <1>0, <2>2 DEF Post, TypeOK, userVars, readVars
  <2>3. CASE MarkRunning
    BY <1>0, <2>3 DEF MarkRunning, TypeOK, userVars, readVars
  <2>4. CASE Bump
    BY <1>0, <2>4 DEF Bump, TypeOK, userVars, readVars
  <2>5. CASE ClosePost
    BY <1>0, <2>5 DEF ClosePost, TypeOK, userVars, readVars
  <2>6. CASE Join
    BY <1>0, <2>6 DEF Join, TypeOK, userVars, readVars
  <2> QED
    BY <1>8, <2>1, <2>2, <2>3, <2>4, <2>5, <2>6
<1>9. CASE ReadBuffer
  <2>1. /\ user = "readbuf"
        /\ reading \in [off : Nat, size : Nat, i : Nat, got : Seq(Nat)]
    BY <1>0, <1>9 DEF ReadBuffer, UserAt, PlacesOK, TypeOK
  <2>2. CASE reading' = [off |-> reading.off, size |-> reading.size, i |-> reading.i + 1,
                         got |-> reading.got \o CopyOf(reading)]
             /\ Len(reading.got) < reading.size /\ reading.i < Len(bufs)
             /\ UNCHANGED <<proc, user, writer, bufs, buf_woff, buf_doff, eof,
                            running, sem, disk, buf, userVars, answer>>
    <3>1. reading' \in [off : Nat, size : Nat, i : Nat, got : Seq(Nat)]
      BY <1>0, <2>1, <2>2, CopyStep
    <3> QED
      BY <1>0, <2>2, <3>1 DEF TypeOK, userVars
  <2>3. CASE Crash("aborted")
    BY <1>0, <2>3 DEF Crash, TypeOK, userVars, readVars
  <2>4. CASE /\ answer' = [lba |-> [off |-> reading.off, size |-> reading.size],
                           bytes |-> reading.got]
             /\ reading' = None /\ user' = "idle"
             /\ UNCHANGED <<proc, writer, bufs, buf_woff, buf_doff, eof,
                            running, sem, disk, buf, userVars>>
    BY <1>0, <2>1, <2>4 DEF TypeOK, userVars
  <2> QED
    BY <1>9, <2>2, <2>3, <2>4 DEF ReadBuffer
<1>10. CASE SemWait \/ StopRunning \/ CheckEof
  <2>1. CASE SemWait
    <3>1. sem - 1 \in Nat
      BY <1>0, <2>1 DEF SemWait, TypeOK
    <3> QED
      BY <1>0, <2>1, <3>1 DEF SemWait, TypeOK, userVars, readVars
  <2>2. CASE StopRunning
    BY <1>0, <2>2 DEF StopRunning, TypeOK, userVars, readVars
  <2>3. CASE CheckEof
    BY <1>0, <2>3 DEF CheckEof, TypeOK, userVars, readVars
  <2> QED
    BY <1>10, <2>1, <2>2, <2>3
<1>11. CASE Fetch
  <2>1. CASE Crash("undefined")
    BY <1>0, <2>1 DEF Crash, TypeOK, userVars, readVars
  <2>2. CASE ~Crash("undefined")
    <3>1. buf' = buf \/ (buf' = bufs[buf_doff + 1] /\ buf_doff < Len(bufs))
      BY <1>11, <2>2 DEF Fetch
    <3>2. buf' \in Seq(Nat)
      <4>1. bufs \in Seq(Seq(Nat)) /\ buf \in Seq(Nat) /\ buf_doff \in Nat
        BY <1>0 DEF TypeOK
      <4>2. buf_doff < Len(bufs) => buf_doff + 1 \in 1..Len(bufs)
        BY <4>1
      <4> QED
        BY <3>1, <4>1, <4>2
    <3>3. writer' \in {"stop", "write"}
      BY <1>11, <2>2 DEF Fetch
    <3> QED
      BY <1>0, <1>11, <2>2, <3>2, <3>3 DEF Fetch, TypeOK, userVars, readVars
  <2> QED
    BY <2>1, <2>2
<1>12. CASE WriteOut
  <2>1. CASE Crash("exited")
    BY <1>0, <2>1 DEF Crash, TypeOK, userVars, readVars
  <2>2. CASE ~Crash("exited")
    <3>1. disk \o buf \in Seq(Nat) /\ buf_doff + 1 \in Nat
      BY <1>0 DEF TypeOK
    <3> QED
      BY <1>0, <1>12, <2>2, <3>1 DEF WriteOut, TypeOK, userVars, readVars
  <2> QED
    BY <2>1, <2>2
<1>13. CASE ClearBuffers
  <2>1. bufs' \in Seq(Seq(Nat))
    BY <1>0, <1>13, FrontAt DEF ClearBuffers, TypeOK
  <2>2. writer' \in {"clear", "done"}
    BY <1>13 DEF ClearBuffers, WriterAt
  <2> QED
    BY <1>0, <1>13, <2>1, <2>2 DEF ClearBuffers, TypeOK, userVars, readVars
<1>14. CASE DataRace
  BY <1>0, <1>14 DEF DataRace, Crash, TypeOK, userVars, readVars
<1> QED
  BY <1>1, <1>2, <1>3, <1>4, <1>5, <1>6, <1>7, <1>8, <1>9, <1>10, <1>11, <1>12,
     <1>13, <1>14 DEF Next, UserStep, WriterStep

(* Where the threads can be is kept. *)
LEMMA PlacesStep ==
  ASSUME IInv, [Next]_vars
  PROVE  PlacesOK'
<1>0. TypeOK /\ PlacesOK
  BY DEF IInv
<1>1. CASE UNCHANGED vars
  BY <1>0, <1>1 DEF PlacesOK, vars, userVars, readVars
<1>2. CASE \E n \in RecSize : AppendRecord(n)
  BY <1>0, <1>2 DEF AppendRecord, UserAt, PlacesOK, readVars
<1>3. ASSUME NEW lba \in recs, Read(lba)
      PROVE  PlacesOK'
  <2>1. CASE eof /\ bufs = << >>
    BY <1>0, <1>3, <2>1 DEF Read, UserAt, PlacesOK, userVars
  <2>2. CASE ~(eof /\ bufs = << >>)
    <3>1. reading' \in [off : Nat, size : Nat, i : Nat, got : Seq(Nat)]
      <4>1. lba \in [off : Nat, size : Nat]
        BY <1>0 DEF TypeOK
      <4>2. lba.off \div BufSize \in Nat
        BY <4>1, OffDiv
      <4>3. reading' = [off |-> lba.off, size |-> lba.size,
                        i |-> lba.off \div BufSize, got |-> <<>>]
        BY <1>3, <2>2 DEF Read
      <4>4. << >> \in Seq(Nat) /\ lba.off \in Nat /\ lba.size \in Nat
        BY <4>1
      <4> QED
        BY <4>2, <4>3, <4>4
    <3>2. reading' # None
      BY <3>1, SizeAssumption
    <3> QED
      BY <1>0, <1>3, <2>2, <3>2 DEF Read, UserAt, PlacesOK, userVars
  <2> QED
    BY <2>1, <2>2
<1>4. CASE ExpandBuffer \/ Filled \/ Post \/ MarkRunning \/ Bump \/ ClosePost \/ Join
  BY <1>0, <1>4 DEF ExpandBuffer, Filled, Post, MarkRunning, Bump, ClosePost, Join,
     UserAt, PlacesOK, userVars, readVars
<1>5. CASE Fill
  <2>1. /\ user = "fill" /\ user' = user /\ eof' = eof /\ writer' = writer
        /\ reading' = reading
    BY <1>5 DEF Fill, UserAt, readVars
  <2> QED
    BY <1>0, <2>1 DEF PlacesOK
<1>9. CASE DispatchBuffer \/ SetEof
  BY <1>0, <1>9 DEF DispatchBuffer, SetEof, UserAt, PlacesOK, userVars, readVars
<1>6. CASE ReadBuffer
  <2>1. CASE reading' = [off |-> reading.off, size |-> reading.size, i |-> reading.i + 1,
                         got |-> reading.got \o CopyOf(reading)]
             /\ Len(reading.got) < reading.size /\ reading.i < Len(bufs)
             /\ UNCHANGED <<proc, user, writer, bufs, buf_woff, buf_doff, eof,
                            running, sem, disk, buf, userVars, answer>>
    <3>1. reading' # None
      <4>1. reading' \in [off : Nat, size : Nat, i : Nat, got : Seq(Nat)]
        BY <1>6, <2>1, CopyStep DEF IInv, ReadBuffer, UserAt
      <4> QED
        BY <4>1, SizeAssumption
    <3> QED
      BY <1>0, <1>6, <2>1, <3>1 DEF ReadBuffer, UserAt, PlacesOK, userVars
  <2>2. CASE Crash("aborted")
    BY <1>0, <2>2 DEF Crash, PlacesOK, userVars, readVars
  <2>3. CASE /\ reading' = None /\ user' = "idle"
             /\ UNCHANGED <<proc, writer, bufs, buf_woff, buf_doff, eof,
                            running, sem, disk, buf, userVars>>
    BY <1>0, <2>3 DEF PlacesOK, userVars
  <2> QED
    BY <1>6, <2>1, <2>2, <2>3 DEF ReadBuffer
<1>7. CASE WriterStep
  BY <1>0, <1>7 DEF WriterStep, SemWait, Fetch, WriteOut, StopRunning, CheckEof,
     ClearBuffers, WriterAt, Crash, PlacesOK, userVars, readVars
<1>8. CASE DataRace
  BY <1>0, <1>8 DEF DataRace, Crash, PlacesOK, userVars, readVars
<1> QED
  BY <1>1, <1>2, <1>3, <1>4, <1>5, <1>6, <1>7, <1>8, <1>9 DEF Next, UserStep

(* Which steps change the buffers: the others leave them and the stream. *)
LEMMA BufsStep ==
  ASSUME TypeOK, PlacesOK, [Next]_vars, ~Fill, ~ExpandBuffer, ~Join, ~ClearBuffers
  PROVE  bufs' = bufs /\ Stream' = Stream
<1>1. Stream' = Stream
  BY StreamStep
<1>2. CASE UNCHANGED vars
  BY <1>1, <1>2 DEF vars
<1>3. CASE \E n \in RecSize : AppendRecord(n)
  BY <1>1, <1>3 DEF AppendRecord
<1>4. CASE \E lba \in recs : Read(lba)
  BY <1>1, <1>4 DEF Read
<1>5. CASE SetEof \/ UserStep
  BY <1>1, <1>5 DEF SetEof, UserStep, Filled, DispatchBuffer, Post, MarkRunning,
     ReadBuffer, Crash, Bump, ClosePost
<1>6. CASE WriterStep \/ DataRace
  BY <1>1, <1>6 DEF WriterStep, SemWait, Fetch, WriteOut, StopRunning, CheckEof,
     DataRace, Crash
<1> QED
  BY <1>2, <1>3, <1>4, <1>5, <1>6 DEF Next

(* Each buffer goes on holding its part of the stream. *)
LEMMA LayoutStep ==
  ASSUME IInv, [Next]_vars
  PROVE  Layout'
<1>0. TypeOK /\ PlacesOK /\ Layout /\ Room
  BY DEF IInv
<1>1. bufs \in Seq(Seq(Nat)) /\ Len(bufs) \in Nat /\ DOMAIN bufs = 1..Len(bufs)
      /\ buf_woff \in Nat
  BY <1>0 DEF TypeOK
<1>2. CASE Fill
  <2>1. PICK k \in Nat :
           /\ Stream' = Stream + k
           /\ Stream + k <= Off(buf_woff) + BufSize
           /\ buf_woff + 1 \in DOMAIN bufs
           /\ bufs' = [bufs EXCEPT ![buf_woff + 1] =
                         Bytes(Off(buf_woff), (Stream + k) - Off(buf_woff))]
    BY <1>0, <1>2, FillStep
  <2>2. PICK S \in Nat : S = Stream
    BY <1>0, StreamType
  <2>3. PICK w \in Nat : w = buf_woff
    BY <1>1
  <2>4. PICK S1 \in Nat : S1 = S + k
    OBVIOUS
  <2>5. /\ Off(w) <= S /\ S <= Off(w) + BufSize /\ Off(w) <= S1 /\ S1 <= Off(w) + BufSize
        /\ Off(w) \in Nat
    <3>1. Off(w) \in Nat /\ BufSize \in Nat
      BY OffStep, SizeAssumption
    <3>2. Off(w) <= S /\ S < Off(w) + BufSize
      BY <1>0, <1>2, <2>2, <2>3 DEF Room, Fill, UserAt, PlacesOK
    <3>3. S1 <= Off(w) + BufSize
      BY <2>1, <2>2, <2>3, <2>4
    <3> QED
      BY <2>4, <3>1, <3>2, <3>3
  <2>6. /\ \A i \in Nat : i # w => HeldOf(S1, i) = HeldOf(S, i)
        /\ HeldOf(S1, w) = S1 - Off(w)
    <3>1. /\ \A i \in Nat : i < w => HeldOf(S, i) = BufSize
          /\ \A i \in Nat : i > w => HeldOf(S, i) = 0
      BY <2>5, HeldSides
    <3>2. /\ \A i \in Nat : i < w => HeldOf(S1, i) = BufSize
          /\ HeldOf(S1, w) = S1 - Off(w)
          /\ \A i \in Nat : i > w => HeldOf(S1, i) = 0
      BY <2>5, HeldSides
    <3>3. \A i \in Nat : i # w => i < w \/ i > w
      OBVIOUS
    <3> QED
      BY <3>1, <3>2, <3>3
  <2>7. bufs' = [bufs EXCEPT ![w + 1] = Bytes(Off(w), HeldOf(S1, w))]
    BY <2>1, <2>2, <2>3, <2>4, <2>6
  <2>8. ASSUME NEW j \in DOMAIN bufs'
        PROVE  bufs'[j] = Bytes(Off(j - 1), HeldOf(S1, j - 1))
    <3>1. j \in DOMAIN bufs /\ j - 1 \in Nat
      BY <1>1, <2>7
    <3>2. CASE j = w + 1
      <4>1. j - 1 = w
        BY <3>2
      <4> QED
        BY <2>7, <3>1, <3>2, <4>1
    <3>3. CASE j # w + 1
      <4>1. j - 1 # w
        BY <1>1, <3>1, <3>3
      <4>2. bufs'[j] = bufs[j]
        BY <2>7, <3>1, <3>3
      <4>3. bufs[j] = Bytes(Off(j - 1), HeldOf(S, j - 1))
        BY <1>0, <2>2, <3>1 DEF Layout, Held
      <4> QED
        BY <2>6, <3>1, <4>1, <4>2, <4>3
    <3> QED
      BY <3>2, <3>3
  <2>9. Stream' = S1
    BY <2>1, <2>2, <2>4
  <2> QED
    BY <2>8, <2>9 DEF Layout, Held, HeldOf, Off
<1>3. CASE ExpandBuffer
  <2>1. PICK n \in Nat : n = NewBuffers
    BY <1>0, <1>3, NewRoom DEF ExpandBuffer, UserAt
  <2>2. bufs' = bufs \o [j \in 1..n |-> << >>]
    BY <1>3, <2>1 DEF ExpandBuffer
  <2>3. PICK L \in Nat : L = Len(bufs)
    BY <1>1
  <2>4. PICK S \in Nat : S = Stream /\ S <= Off(L)
    BY <1>0, <1>3, <2>3, StreamType DEF ExpandBuffer, UserAt, PlacesOK, Room
  <2>5. Stream' = S
    <3>1. ~Fill
      BY <1>3 DEF ExpandBuffer, Fill, UserAt
    <3> QED
      BY <1>0, <2>4, <3>1, StreamStep
  <2>6. PICK e \in Seq(Seq(Nat)) : e = [j \in 1..n |-> << >>] /\ Len(e) = n
    <3>1. [j \in 1..n |-> << >>] \in Seq(Seq(Nat)) /\ Len([j \in 1..n |-> << >>]) = n
      OBVIOUS
    <3> QED
      BY <3>1
  <2>7. ASSUME NEW j \in DOMAIN bufs'
        PROVE  bufs'[j] = Bytes(Off(j - 1), HeldOf(S, j - 1))
    <3>1. j \in 1..(L + n)
      BY <1>1, <2>2, <2>3, <2>6
    <3>2. CASE j <= L
      <4>1. bufs'[j] = bufs[j] /\ j \in DOMAIN bufs
        BY <1>1, <2>2, <2>3, <2>6, <3>1, <3>2
      <4> QED
        BY <1>0, <2>4, <4>1 DEF Layout, Held
    <3>3. CASE ~(j <= L)
      <4>1. bufs'[j] = e[j - L] /\ j - L \in 1..n
        BY <1>1, <2>2, <2>3, <2>6, <3>1, <3>3
      <4>2. bufs'[j] = << >>
        BY <2>6, <4>1
      <4>3. PICK i \in Nat : i = j - 1 /\ i >= L
        BY <3>1, <3>3
      <4>4. Off(L) <= Off(i) /\ Off(i) \in Nat /\ Off(L) \in Nat
        BY <4>3, OffOrder, OffStep
      <4>5. HeldOf(S, i) = 0
        BY <2>4, <4>4 DEF HeldOf
      <4>6. Bytes(Off(i), 0) = << >>
        <5>1. Bytes(Off(i), 0) \in Seq(Nat) /\ Len(Bytes(Off(i), 0)) = 0
          BY <4>4, BytesAt
        <5> QED
          BY <5>1, EmptySeq
      <4> QED
        BY <4>2, <4>3, <4>5, <4>6
    <3> QED
      BY <3>2, <3>3
  <2> QED
    BY <2>5, <2>7 DEF Layout, Held, HeldOf, Off
<1>4. CASE Join
  <2>1. bufs' = << >>
    BY <1>4 DEF Join
  <2> QED
    BY <2>1 DEF Layout
<1>5. CASE ClearBuffers
  <2>1. Stream' = Stream
    BY <1>5 DEF ClearBuffers, userVars, Stream
  <2>2. CASE bufs' = bufs
    BY <1>0, <2>1, <2>2 DEF Layout, Held
  <2>3. CASE bufs # << >> /\ bufs' = Front(bufs)
    <3>1. /\ DOMAIN bufs' = 1..(Len(bufs) - 1)
          /\ \A j \in 1..(Len(bufs) - 1) : bufs'[j] = bufs[j] /\ j \in DOMAIN bufs
      <4>1. /\ Front(bufs) \in Seq(Seq(Nat)) /\ Len(Front(bufs)) = Len(bufs) - 1
            /\ Len(bufs) \in Nat \ {0}
            /\ \A j \in 1..(Len(bufs) - 1) : Front(bufs)[j] = bufs[j]
        BY <1>1, <2>3, FrontAt
      <4> QED
        BY <1>1, <2>3, <4>1
    <3>2. \A j \in DOMAIN bufs' : bufs'[j] = Bytes(Off(j - 1), Held(j - 1))
      BY <1>0, <3>1 DEF Layout
    <3> QED
      BY <2>1, <3>2 DEF Layout, Held, HeldOf, Off
  <2> QED
    BY <1>5, <2>2, <2>3 DEF ClearBuffers
<1>6. CASE ~(Fill \/ ExpandBuffer \/ Join \/ ClearBuffers)
  <2>1. bufs' = bufs /\ Stream' = Stream
    BY <1>0, <1>6, BufsStep
  <2> QED
    BY <1>0, <2>1 DEF Layout, Held, HeldOf, Off
<1> QED
  BY <1>2, <1>3, <1>4, <1>5, <1>6

(* Until eof_ there is room for the record being appended. *)
LEMMA RoomStep ==
  ASSUME IInv, [Next]_vars
  PROVE  Room'
<1>0. TypeOK /\ PlacesOK /\ Layout /\ Room
  BY DEF IInv
<1>1. buf_woff \in Nat /\ Len(bufs) \in Nat
  BY <1>0 DEF TypeOK
<1>2. CASE Fill
  <2>1. PICK k \in Nat :
           /\ k <= left /\ left' = left - k /\ Stream' = Stream + k
           /\ Stream + k <= Off(buf_woff) + BufSize
           /\ buf_woff + 1 \in DOMAIN bufs
           /\ bufs' = [bufs EXCEPT ![buf_woff + 1] =
                         Bytes(Off(buf_woff), (Stream + k) - Off(buf_woff))]
           /\ buf_woff' = IF Stream + k = Off(buf_woff) + BufSize THEN buf_woff + 1
                                                                  ELSE buf_woff
    BY <1>0, <1>2, FillStep
  <2>2. /\ user = "fill" /\ user' = "fill" /\ ~eof
        /\ disk_woff' = disk_woff /\ size' = size
    BY <1>0, <1>2 DEF Fill, UserAt, PlacesOK
  <2>3. Len(bufs') = Len(bufs)
    BY <1>0, <2>1 DEF TypeOK
  <2>4. PICK S \in Nat : S = Stream
    BY <1>0, StreamType
  <2>5. PICK w \in Nat : w = buf_woff
    BY <1>1
  <2>6. PICK m \in Nat : m = BufSize /\ m > 0
    BY SizeAssumption
  <2>7. PICK p \in Nat : p = Off(w) /\ Off(w + 1) = p + m
    BY <2>6, OffStep
  <2>8. PICK S1 \in Nat : S1 = S + k /\ Stream' = S1
    BY <2>1, <2>4
  <2>9. p <= S /\ S1 <= p + m /\ buf_woff' = IF S1 = p + m THEN w + 1 ELSE w
    <3>1. p <= S
      BY <1>0, <2>2, <2>4, <2>5, <2>7 DEF Room
    <3> QED
      BY <2>1, <2>4, <2>5, <2>6, <2>7, <2>8, <3>1
  <2>10. Off(buf_woff') <= S1 /\ S1 < Off(buf_woff') + m
    <3>1. CASE S1 = p + m
      BY <2>6, <2>7, <2>9, <3>1
    <3>2. CASE S1 # p + m
      BY <2>7, <2>8, <2>9, <3>2
    <3> QED
      BY <3>1, <3>2
  <2>11. disk_woff + size <= Off(Len(bufs))
    BY <1>0, <2>2 DEF Room
  <2>12. S1 <= disk_woff + size
    <3>1. disk_woff \in Nat /\ size \in Nat /\ left \in Nat
      BY <1>0 DEF TypeOK
    <3>2. S = disk_woff + (size - left)
      BY <2>2, <2>4 DEF Stream
    <3> QED
      BY <2>1, <2>8, <3>1, <3>2
  <2>13. S1 <= Off(Len(bufs))
    <3>1. Off(Len(bufs)) \in Nat /\ disk_woff \in Nat /\ size \in Nat
      BY <1>0, <1>1, OffStep DEF TypeOK
    <3> QED
      BY <2>11, <2>12, <3>1
  <2> QED
    BY <2>2, <2>3, <2>6, <2>8, <2>10, <2>11, <2>13 DEF Room, Off
<1>3. CASE ExpandBuffer
  <2>1. user = "expand" /\ ~eof /\ user' = "fill" /\ buf_woff' = buf_woff
        /\ disk_woff' = disk_woff /\ size' = size
    BY <1>0, <1>3 DEF ExpandBuffer, UserAt, PlacesOK, userVars
  <2>2. PICK n \in Nat : n = NewBuffers /\ disk_woff + size <= Off(Len(bufs) + n)
    BY <1>0, <2>1, NewRoom
  <2>3. Len(bufs') = Len(bufs) + n
    <3>1. bufs' = bufs \o [j \in 1..n |-> << >>]
      BY <1>3, <2>2 DEF ExpandBuffer
    <3>2. [j \in 1..n |-> << >>] \in Seq(Seq(Nat)) /\ Len([j \in 1..n |-> << >>]) = n
      OBVIOUS
    <3>3. bufs \in Seq(Seq(Nat))
      BY <1>0 DEF TypeOK
    <3> QED
      BY <3>1, <3>2, <3>3
  <2>4. Stream' = Stream
    <3>1. ~Fill
      BY <2>1 DEF Fill, UserAt
    <3> QED
      BY <1>0, <3>1, StreamStep
  <2>5. Off(buf_woff) <= Stream /\ Stream < Off(buf_woff) + BufSize
        /\ Stream <= Off(Len(bufs))
    BY <1>0, <2>1 DEF Room
  <2>6. Stream <= Off(Len(bufs) + n)
    <3>1. PICK L \in Nat : L = Len(bufs)
      BY <1>1
    <3>2. Off(L + n) = Off(L) + Off(n) /\ Off(L) \in Nat /\ Off(n) \in Nat
      BY OffAdd, OffStep
    <3>3. Stream \in Nat
      BY <1>0, StreamType
    <3> QED
      BY <2>5, <3>1, <3>2, <3>3
  <2> QED
    BY <2>1, <2>2, <2>3, <2>4, <2>5, <2>6 DEF Room, Off
<1>4. CASE Filled
  <2>1. Stream' = Stream
    <3>1. ~Fill
      BY <1>4 DEF Filled, Fill
    <3> QED
      BY <1>0, <3>1, StreamStep
  <2>2. /\ ~eof /\ bufs' = bufs /\ buf_woff' = buf_woff /\ user' = "dispatch"
    BY <1>0, <1>4 DEF Filled, UserAt, PlacesOK
  <2> QED
    BY <1>0, <2>1, <2>2 DEF Room, Off
<1>5. CASE Join \/ ClearBuffers \/ Bump \/ SetEof
  <2>1. eof'
    BY <1>0, <1>5 DEF Join, ClearBuffers, Bump, SetEof, UserAt, WriterAt, PlacesOK
  <2> QED
    BY <2>1 DEF Room
<1>6. CASE DispatchBuffer
  <2>1. Stream' = Stream /\ bufs' = bufs
    <3>1. ~Fill /\ ~ExpandBuffer /\ ~Join
      BY <1>6 DEF DispatchBuffer, Fill, ExpandBuffer, Join, UserAt
    <3>2. ~ClearBuffers
      <4>1. user' # user
        BY <1>6 DEF DispatchBuffer, UserAt
      <4> QED
        BY <4>1 DEF ClearBuffers
    <3> QED
      BY <1>0, <3>1, <3>2, BufsStep
  <2>2. eof' = eof /\ (~eof => buf_woff' = buf_woff) /\ user' # "fill"
    BY <1>6 DEF DispatchBuffer
  <2> QED
    BY <1>0, <2>1, <2>2 DEF Room, Off
<1>7. CASE ~(Fill \/ ExpandBuffer \/ Filled \/ Join \/ ClearBuffers \/ Bump \/ SetEof
             \/ DispatchBuffer)
  <2>1. Stream' = Stream /\ bufs' = bufs
    BY <1>0, <1>7, BufsStep
  <2>2. /\ eof' = eof /\ buf_woff' = buf_woff
        /\ user' = "fill" => user = "fill" /\ disk_woff' = disk_woff /\ size' = size
    <3>1. CASE UNCHANGED vars
      BY <3>1 DEF vars, userVars
    <3>2. CASE \E n \in RecSize : AppendRecord(n)
      BY <3>2 DEF AppendRecord
    <3>3. CASE \E lba \in recs : Read(lba)
      BY <3>3 DEF Read, UserAt
    <3>4. CASE Post \/ MarkRunning \/ ClosePost
      BY <3>4 DEF Post, MarkRunning, ClosePost
    <3>5. CASE ReadBuffer
      BY <3>5 DEF ReadBuffer, UserAt, Crash, userVars
    <3>6. CASE WriterStep \/ DataRace
      BY <1>7, <3>6 DEF WriterStep, SemWait, Fetch, WriteOut, StopRunning, CheckEof,
         DataRace, Crash, userVars
    <3> QED
      BY <1>7, <3>1, <3>2, <3>3, <3>4, <3>5, <3>6 DEF Next, UserStep
  <2> QED
    BY <1>0, <2>1, <2>2 DEF Room, Off
<1> QED
  BY <1>2, <1>3, <1>4, <1>5, <1>6, <1>7

(* Writing the next buffer takes the file to the end of that buffer, or of the
   stream (flashcache.cc:202-222). *)
LEMMA WriteNext ==
  ASSUME NEW d \in Nat, NEW S \in Nat
  PROVE  Bytes(0, IF Off(d) <= S THEN Off(d) ELSE S) \o Bytes(Off(d), HeldOf(S, d))
           = Bytes(0, IF Off(d + 1) <= S THEN Off(d + 1) ELSE S)
<1>1. PICK p \in Nat : p = Off(d)
  BY OffStep
<1>2. PICK m \in Nat : m = BufSize /\ Off(d + 1) = p + m
  BY <1>1, OffStep, SizeAssumption
<1>3. CASE p <= S
  <2>1. PICK h \in Nat : h = HeldOf(S, d)
    BY HeldType
  <2>2. h = IF S >= p + m THEN m ELSE S - p
    BY <1>1, <1>2, <1>3, <2>1 DEF HeldOf
  <2>3. Joined(0, p, h) = Bytes(0, p + h)
    BY ONLY p \in Nat, h \in Nat, BytesConcat
  <2>4. p + h = IF p + m <= S THEN p + m ELSE S
    BY <1>3, <2>2
  <2>5. 0 + p = p
    OBVIOUS
  <2>6. Bytes(0, p) \o Bytes(p, h) = Bytes(0, IF p + m <= S THEN p + m ELSE S)
    BY <2>3, <2>4, <2>5 DEF Joined
  <2> QED
    BY <1>1, <1>2, <1>3, <2>1, <2>6
<1>4. CASE ~(p <= S)
  <2>1. HeldOf(S, d) = 0 /\ ~(p + m <= S)
    BY <1>1, <1>2, <1>4 DEF HeldOf
  <2>2. Bytes(p, 0) = << >>
    <3>1. Bytes(p, 0) \in Seq(Nat) /\ Len(Bytes(p, 0)) = 0
      BY BytesAt
    <3> QED
      BY <3>1, EmptySeq
  <2>3. Bytes(0, S) \o << >> = Bytes(0, S)
    BY BytesAt
  <2> QED
    BY <1>1, <1>2, <1>4, <2>1, <2>2, <2>3
<1> QED
  BY <1>3, <1>4

(* The file goes on holding the first buffers of the stream. *)
LEMMA WrittenStep ==
  ASSUME IInv, [Next]_vars
  PROVE  Written'
<1>0. TypeOK /\ PlacesOK /\ Layout /\ Room /\ Written
  BY DEF IInv
<1>1. buf_woff \in Nat /\ buf_doff \in Nat /\ Stream \in Nat
  BY <1>0, StreamType DEF TypeOK
<1>2. CASE Fill
  <2>1. PICK k \in Nat :
           /\ Stream' = Stream + k
           /\ Stream + k <= Off(buf_woff) + BufSize
           /\ buf_woff' = IF Stream + k = Off(buf_woff) + BufSize THEN buf_woff + 1
                                                                  ELSE buf_woff
    BY <1>0, <1>2, FillStep
  <2>2. ~eof /\ buf_doff' = buf_doff /\ disk' = disk /\ buf' = buf /\ writer' = writer
    BY <1>0, <1>2 DEF Fill, UserAt, PlacesOK
  <2>3. PICK S \in Nat : S = Stream
    BY <1>1
  <2>4. PICK w \in Nat : w = buf_woff
    BY <1>1
  <2>5. PICK d \in Nat : d = buf_doff /\ d <= w
    BY <1>0, <1>1, <2>4 DEF Written
  <2>6. PICK S1 \in Nat : S1 = S + k /\ Stream' = S1
    BY <2>1, <2>3
  <2>7. /\ Off(w) \in Nat /\ Off(d) \in Nat /\ Off(d) <= Off(w)
        /\ Off(w) <= S /\ S <= Off(w) + BufSize /\ S1 <= Off(w) + BufSize
    <3>1. Off(w) \in Nat /\ Off(d) \in Nat /\ Off(d) <= Off(w)
      BY <2>5, OffStep, OffOrder
    <3>2. Off(w) <= S /\ S < Off(w) + BufSize
      BY <1>0, <2>2, <2>3, <2>4 DEF Room
    <3>3. S1 <= Off(w) + BufSize
      BY <2>1, <2>3, <2>4, <2>6
    <3> QED
      BY <3>1, <3>2, <3>3, SizeAssumption
  <2>8. Off(d) <= S /\ Off(w) <= S1 /\ Off(d) <= S1
    BY <2>6, <2>7
  <2>9. disk = Bytes(0, Off(d))
    BY <1>0, <2>3, <2>5, <2>8 DEF Written
  <2>10. d <= buf_woff' /\ (d < w => d < buf_woff')
    BY <2>1, <2>4, <2>5
  <2>11. ASSUME writer = "write"
         PROVE  d < w /\ buf = Bytes(Off(d), HeldOf(S1, d))
    <3>1. d < w /\ buf = Bytes(Off(d), HeldOf(S, d))
      BY <1>0, <2>3, <2>4, <2>5, <2>11 DEF Written, Held
    <3>2. HeldOf(S, d) = BufSize
      BY <2>7, <3>1, HeldSides
    <3>3. HeldOf(S1, d) = BufSize
      BY <2>7, <2>8, <3>1, HeldSides
    <3> QED
      BY <3>1, <3>2, <3>3
  <2>12. /\ buf_doff' = d /\ Stream' = S1 /\ disk' = Bytes(0, Off(d)) /\ Off(d) <= S1
         /\ writer' = "write" => d < buf_woff' /\ buf' = Bytes(Off(d), HeldOf(S1, d))
    BY <2>2, <2>5, <2>6, <2>8, <2>9, <2>10, <2>11
  <2> QED
    BY <2>10, <2>12 DEF Written, Held, HeldOf, Off
<1>3. CASE Fetch
  <2>1. Stream' = Stream
    BY <1>3 DEF Fetch, Crash, userVars, Stream
  <2>2. buf_doff' = buf_doff /\ buf_woff' = buf_woff /\ disk' = disk
    BY <1>3 DEF Fetch, Crash
  <2>3. writer' = "write" => buf_doff < buf_woff /\ buf' = Bytes(Off(buf_doff), Held(buf_doff))
    <3>1. writer' = "write" =>
            buf_doff < buf_woff /\ buf_doff < Len(bufs) /\ buf' = bufs[buf_doff + 1]
      BY <1>3 DEF Fetch, WriterAt, Crash, ToWrite
    <3> QED
      BY <1>0, <1>1, <3>1, BufferAt
  <2> QED
    BY <1>0, <2>1, <2>2, <2>3 DEF Written, Held, HeldOf, Off
<1>4. CASE WriteOut
  <2>1. CASE Crash("exited")
    BY <1>0, <2>1 DEF Crash, Written, Held, HeldOf, Off, Stream, userVars
  <2>2. CASE ~Crash("exited")
    <3>1. /\ writer = "write" /\ disk' = disk \o buf /\ buf_doff' = buf_doff + 1
          /\ writer' = "loop" /\ buf_woff' = buf_woff /\ Stream' = Stream
      BY <1>4, <2>2 DEF WriteOut, WriterAt, userVars, Stream
    <3>2. PICK S \in Nat : S = Stream
      BY <1>1
    <3>3. PICK d \in Nat : d = buf_doff
      BY <1>1
    <3>4. /\ d < buf_woff /\ buf = Bytes(Off(d), HeldOf(S, d))
          /\ disk = Bytes(0, IF Off(d) <= S THEN Off(d) ELSE S)
      BY <1>0, <3>1, <3>2, <3>3 DEF Written, Held
    <3>5. disk' = Bytes(0, IF Off(d + 1) <= S THEN Off(d + 1) ELSE S)
      BY <3>1, <3>4, WriteNext
    <3>6. d + 1 <= buf_woff'
      BY <1>1, <3>1, <3>4
    <3> QED
      BY <3>1, <3>2, <3>3, <3>5, <3>6 DEF Written, Off
  <2> QED
    BY <2>1, <2>2
<1>5. CASE ~(Fill \/ Fetch \/ WriteOut)
  <2>1. Stream' = Stream
    BY <1>0, <1>5, StreamStep
  <2>2. /\ buf_doff' = buf_doff /\ disk' = disk /\ buf' = buf
        /\ writer' = "write" => writer = "write"
        /\ buf_woff' = buf_woff \/ buf_woff' = buf_woff + 1
    <3>1. CASE UNCHANGED vars
      BY <3>1 DEF vars
    <3>2. CASE \E n \in RecSize : AppendRecord(n)
      BY <3>2 DEF AppendRecord
    <3>3. CASE \E lba \in recs : Read(lba)
      BY <3>3 DEF Read
    <3>4. CASE SetEof \/ ExpandBuffer \/ Filled \/ DispatchBuffer \/ Post \/ MarkRunning
      BY <3>4 DEF SetEof, ExpandBuffer, Filled, DispatchBuffer, Post, MarkRunning
    <3>5. CASE Bump \/ ClosePost \/ Join
      BY <3>5 DEF Bump, ClosePost, Join
    <3>6. CASE ReadBuffer
      BY <3>6 DEF ReadBuffer, Crash
    <3>7. CASE SemWait \/ StopRunning \/ CheckEof \/ ClearBuffers \/ DataRace
      BY <3>7 DEF SemWait, StopRunning, CheckEof, ClearBuffers, DataRace, Crash, WriterAt
    <3> QED
      BY <1>5, <3>1, <3>2, <3>3, <3>4, <3>5, <3>6, <3>7 DEF Next, UserStep, WriterStep
  <2>3. buf_doff <= buf_woff' /\ (buf_doff < buf_woff => buf_doff < buf_woff')
    BY <1>0, <1>1, <2>2 DEF Written
  <2> QED
    BY <1>0, <2>1, <2>2, <2>3 DEF Written, Held, HeldOf, Off
<1> QED
  BY <1>2, <1>3, <1>4, <1>5

(* Only the end of Append moves disk_woff_ and adds a record
   (flashcache.cc:300-318). *)
LEMMA OnlyFilled ==
  ASSUME [Next]_vars, ~Filled
  PROVE  recs' = recs /\ disk_woff' = disk_woff
<1>1. CASE UNCHANGED vars
  BY <1>1 DEF vars, userVars
<1>2. CASE \E n \in RecSize : AppendRecord(n)
  BY <1>2 DEF AppendRecord
<1>3. CASE \E lba \in recs : Read(lba)
  BY <1>3 DEF Read, userVars
<1>4. CASE SetEof \/ ExpandBuffer \/ Fill \/ DispatchBuffer \/ Post \/ MarkRunning
  BY <1>4 DEF SetEof, ExpandBuffer, Fill, DispatchBuffer, Post, MarkRunning, userVars
<1>5. CASE Bump \/ ClosePost \/ Join
  BY <1>5 DEF Bump, ClosePost, Join, userVars
<1>6. CASE ReadBuffer
  BY <1>6 DEF ReadBuffer, Crash, userVars
<1>7. CASE WriterStep \/ DataRace
  BY <1>7 DEF WriterStep, SemWait, Fetch, WriteOut, StopRunning, CheckEof, ClearBuffers,
     DataRace, Crash, userVars
<1> QED
  BY <1>1, <1>2, <1>3, <1>4, <1>5, <1>6, <1>7 DEF Next, UserStep

(* Only Read and ReadBuffer change what a Read has and answers. *)
LEMMA OnlyReads ==
  ASSUME [Next]_vars, ~ReadBuffer
  PROVE  (\E lba \in recs : Read(lba)) \/ (reading' = reading /\ answer' = answer)
<1>1. CASE UNCHANGED vars
  BY <1>1 DEF vars, readVars
<1>2. CASE \E n \in RecSize : AppendRecord(n)
  BY <1>2 DEF AppendRecord, readVars
<1>3. CASE SetEof \/ ExpandBuffer \/ Fill \/ Filled \/ DispatchBuffer \/ Post
  BY <1>3 DEF SetEof, ExpandBuffer, Fill, Filled, DispatchBuffer, Post, readVars
<1>4. CASE MarkRunning \/ Bump \/ ClosePost \/ Join
  BY <1>4 DEF MarkRunning, Bump, ClosePost, Join, readVars
<1>5. CASE WriterStep \/ DataRace
  BY <1>5 DEF WriterStep, SemWait, Fetch, WriteOut, StopRunning, CheckEof, ClearBuffers,
     DataRace, Crash, readVars
<1> QED
  BY <1>1, <1>2, <1>3, <1>4, <1>5 DEF Next, UserStep

(* The records stay within the stream. *)
LEMMA RecsStep ==
  ASSUME IInv, [Next]_vars
  PROVE  RecsInStream'
<1>0. TypeOK /\ RecsInStream
  BY DEF IInv
<1>1. CASE Filled
  <2>1. /\ recs' = recs \cup {[off |-> disk_woff, size |-> size]}
        /\ disk_woff' = disk_woff + size
    BY <1>1 DEF Filled
  <2>2. disk_woff \in Nat /\ size \in Nat
    BY <1>0 DEF TypeOK
  <2>3. \A lba \in recs : lba.off + lba.size <= disk_woff + size
    <3> TAKE lba \in recs
    <3>1. lba \in [off : Nat, size : Nat] /\ lba.off + lba.size <= disk_woff
      BY <1>0 DEF TypeOK, RecsInStream
    <3> QED
      BY <2>2, <3>1
  <2>4. \A lba \in recs' : lba.off + lba.size <= disk_woff'
    BY <2>1, <2>2, <2>3
  <2> QED
    BY <2>4 DEF RecsInStream
<1>2. CASE ~Filled
  <2>1. recs' = recs /\ disk_woff' = disk_woff
    BY <1>2, OnlyFilled
  <2> QED
    BY <1>0, <2>1 DEF RecsInStream
<1> QED
  BY <1>1, <1>2

(* ReadBuffer goes on where it was, or one buffer further. *)
LEMMA ReadStep ==
  ASSUME IInv, [Next]_vars
  PROVE  ReadSoFar'
<1>0. TypeOK /\ PlacesOK /\ Layout /\ Written /\ RecsInStream /\ ReadSoFar
  BY DEF IInv
<1>1. CASE Filled
  <2>1. reading = None /\ reading' = reading
    BY <1>0, <1>1 DEF Filled, UserAt, PlacesOK, readVars
  <2> QED
    BY <2>1 DEF ReadSoFar
<1>2. CASE ~Filled
  <2>1. disk_woff' = disk_woff
    BY <1>2, OnlyFilled
  <2>2. SUFFICES reading' # None => SoFar(reading')
    BY <2>1, <2>2 DEF ReadSoFar, SoFar, Off, Bytes
  <2>3. CASE reading' = reading
    BY <1>0, <2>3 DEF ReadSoFar
  <2>4. ASSUME NEW lba \in recs, Read(lba)
        PROVE  reading' # None => SoFar(reading')
    BY <1>0, <2>4, ReadTaken DEF ReadSoFar
  <2>5. CASE ReadBuffer
    <3>1. CASE reading' = [off |-> reading.off, size |-> reading.size, i |-> reading.i + 1,
                           got |-> reading.got \o CopyOf(reading)]
               /\ Len(reading.got) < reading.size /\ reading.i < Len(bufs)
      BY <1>0, <2>5, <3>1, CopyStep DEF ReadBuffer, UserAt
    <3>2. CASE reading' = None
      BY <3>2
    <3> QED
      BY <2>3, <2>5, <3>1, <3>2 DEF ReadBuffer, Crash, readVars
  <2> QED
    BY <2>3, <2>4, <2>5, OnlyReads
<1> QED
  BY <1>1, <1>2

(* Read goes on copying a record's own bytes. *)
LEMMA OwnStep ==
  ASSUME IInv, [Next]_vars
  PROVE  ReadsOwnBytes'
<1>0. TypeOK /\ PlacesOK /\ Written /\ RecsInStream /\ ReadSoFar /\ ReadsOwnBytes
  BY DEF IInv
<1>1. SUFFICES answer' # None =>
                 IsPrefix(answer'.bytes, Bytes(answer'.lba.off, answer'.lba.size))
  BY <1>1 DEF ReadsOwnBytes, IsPrefix, Bytes
<1>2. CASE answer' = answer
  BY <1>0, <1>2 DEF ReadsOwnBytes
<1>3. ASSUME NEW lba \in recs, Read(lba), answer' # None
      PROVE  IsPrefix(answer'.bytes, Bytes(answer'.lba.off, answer'.lba.size))
  <2>1. lba \in [off : Nat, size : Nat]
    BY <1>0 DEF TypeOK
  <2>2. PICK m \in Nat : /\ m <= lba.size
                         /\ answer' = [lba |-> lba, bytes |-> Bytes(lba.off, m)]
    BY <1>0, <1>3, ReadTaken
  <2>3. IsPrefix(Bytes(lba.off, m), Bytes(lba.off, lba.size))
    BY <2>1, <2>2, BytesPrefix
  <2> QED
    BY <2>2, <2>3
<1>4. ASSUME ReadBuffer, answer' # answer
      PROVE  IsPrefix(answer'.bytes, Bytes(answer'.lba.off, answer'.lba.size))
  <2>1. /\ reading \in [off : Nat, size : Nat, i : Nat, got : Seq(Nat)]
        /\ SoFar(reading)
    BY <1>0, <1>4 DEF ReadBuffer, UserAt, PlacesOK, TypeOK, ReadSoFar
  <2>2. /\ Len(reading.got) = reading.size
        /\ answer' = [lba |-> [off |-> reading.off, size |-> reading.size],
                      bytes |-> reading.got]
    BY <1>4 DEF ReadBuffer, Crash, readVars
  <2>3. reading.got = Bytes(reading.off, reading.size)
    BY <2>1, <2>2 DEF SoFar
  <2>4. IsPrefix(Bytes(reading.off, reading.size), Bytes(reading.off, reading.size))
    BY <2>1, BytesPrefix
  <2> QED
    BY <2>2, <2>3, <2>4
<1> QED
  BY <1>2, <1>3, <1>4, OnlyReads

(* The invariant is kept by every step. *)
LEMMA Invariance == IInv /\ [Next]_vars => IInv'
BY TypeStep, PlacesStep, LayoutStep, RoomStep, WrittenStep, RecsStep, ReadStep, OwnStep
   DEF IInv

(* A new file satisfies the invariant (flashcache.cc:105-130). *)
LEMMA InitHolds == Init => IInv
<1> SUFFICES ASSUME Init PROVE IInv
  OBVIOUS
<1>1. TypeOK
  <2>1. << >> \in Seq(Nat) /\ << >> \in Seq(Seq(Nat)) /\ 0 \in Nat /\ 0 \in 0..0
    OBVIOUS
  <2> QED
    BY <2>1 DEF Init, TypeOK
<1>2. PlacesOK
  BY DEF Init, PlacesOK
<1>3. Stream = 0 /\ Off(0) = 0
  BY OffStep DEF Init, Stream
<1>4. Layout
  BY DEF Init, Layout
<1>5. Room
  BY <1>3, SizeAssumption DEF Init, Room
<1>6. Written
  <2>1. Bytes(0, 0) = << >>
    <3>1. Bytes(0, 0) \in Seq(Nat) /\ Len(Bytes(0, 0)) = 0
      BY BytesAt
    <3> QED
      BY <3>1, EmptySeq
  <2> QED
    BY <1>3, <2>1 DEF Init, Written
<1>7. RecsInStream /\ ReadSoFar /\ ReadsOwnBytes
  BY DEF Init, RecsInStream, ReadSoFar, ReadsOwnBytes
<1> QED
  BY <1>1, <1>2, <1>4, <1>5, <1>6, <1>7 DEF IInv

-----------------------------------------------------------------------------
(* What the invariant gives.                                               *)

(* The file is the beginning of the stream. *)
LEMMA DiskOK ==
  ASSUME IInv
  PROVE  DiskInOrder
<1>1. TypeOK /\ Written
  BY DEF IInv
<1>2. PICK n \in Nat : n = IF Off(buf_doff) <= Stream THEN Off(buf_doff) ELSE Stream
  <2>1. Off(buf_doff) \in Nat /\ Stream \in Nat
    BY <1>1, OffStep, StreamType DEF TypeOK
  <2> QED
    BY <2>1
<1>3. disk = Bytes(0, n) /\ Len(disk) = n
  BY <1>1, <1>2, BytesAt DEF Written
<1> QED
  BY <1>3 DEF DiskInOrder

(* While a part of the record is left, there is a buffer for it. *)
LEMMA RoomOK ==
  ASSUME IInv
  PROVE  SerializeFits
<1>1. TypeOK /\ PlacesOK /\ Room
  BY DEF IInv
<1>2. SUFFICES ASSUME user = "fill", left > 0 PROVE buf_woff < Len(bufs)
  BY DEF SerializeFits
<1>3. disk_woff \in Nat /\ size \in Nat /\ left \in Nat
      /\ buf_woff \in Nat /\ Len(bufs) \in Nat
  BY <1>1 DEF TypeOK
<1>4. PICK S \in Nat : S = Stream
  BY <1>1, StreamType
<1>5. S < disk_woff + size
  BY <1>2, <1>3, <1>4 DEF Stream
<1>6. Off(buf_woff) <= S /\ disk_woff + size <= Off(Len(bufs))
  BY <1>1, <1>2, <1>4 DEF PlacesOK, Room
<1>7. Off(buf_woff) \in Nat /\ Off(Len(bufs)) \in Nat
  BY <1>3, OffStep
<1>8. Off(buf_woff) < Off(Len(bufs))
  BY <1>3, <1>5, <1>6, <1>7
<1> QED
  BY <1>3, <1>8, OffOrder

(* Until eof_, each byte of a record is in its buffer. *)
LEMMA BufferedOK ==
  ASSUME IInv
  PROVE  BufferedUntilEof
<1>1. TypeOK /\ PlacesOK /\ Layout /\ Room /\ RecsInStream
  BY DEF IInv
<1>2. SUFFICES ASSUME ~eof, NEW lba \in recs, NEW b \in lba.off..(lba.off + lba.size - 1),
                      NEW i, i = b \div BufSize
               PROVE  /\ i < Len(bufs) /\ BufferAsserts(i)
                      /\ b % BufSize < Len(bufs[i + 1])
                      /\ bufs[i + 1][(b % BufSize) + 1] = b
  BY DEF BufferedUntilEof
<1>3. lba \in [off : Nat, size : Nat] /\ lba.off + lba.size <= disk_woff
  BY <1>1 DEF TypeOK, RecsInStream
<1>4. b \in Nat /\ b < lba.off + lba.size
  BY <1>3
<1>5. PICK q \in Nat : q = b \div BufSize /\ q = i
  BY <1>2, <1>4, OffDiv
<1>6. PICK m \in Nat : m = BufSize
  BY SizeAssumption
<1>7. PICK r \in Nat : r = b % BufSize /\ r < m
  <2>1. b % BufSize \in 0..(BufSize - 1)
    BY <1>4, OffDiv
  <2> QED
    BY <1>6, <2>1
<1>8. PICK p \in Nat : p = Off(q)
  BY OffStep
<1>9. b = p + r
  BY <1>4, <1>5, <1>7, <1>8, OffDiv
<1>10. PICK S \in Nat : S = Stream /\ b < S
  <2>1. disk_woff \in Nat /\ size - left \in Nat /\ Stream \in Nat
    BY <1>1, StreamType DEF TypeOK
  <2>2. disk_woff <= Stream
    BY <2>1 DEF Stream
  <2>3. b < disk_woff
    BY <1>3, <1>4, <2>1
  <2> QED
    BY <1>4, <2>1, <2>2, <2>3
<1>11. PICK w \in Nat : w = buf_woff
  BY <1>1 DEF TypeOK
<1>12. PICK L \in Nat : L = Len(bufs)
  BY <1>1 DEF TypeOK
<1>13. /\ Off(w) \in Nat /\ Off(L) \in Nat
       /\ Off(w) <= S /\ S < Off(w) + m /\ S <= Off(L)
  BY <1>1, <1>2, <1>6, <1>10, <1>11, <1>12, OffStep DEF Room
<1>14. q < L
  <2>1. Off(q) < Off(L)
    BY <1>8, <1>9, <1>10, <1>13
  <2> QED
    BY <2>1, OffOrder
<1>15. q <= w
  <2>1. Off(w + 1) = Off(w) + m
    BY <1>6, OffStep
  <2>2. Off(q) < Off(w + 1)
    BY <1>8, <1>9, <1>10, <1>13, <2>1
  <2>3. q < w + 1
    BY <2>2, OffOrder
  <2> QED
    BY <2>3
<1>16. PICK h \in Nat : h = HeldOf(S, q)
  BY HeldType
<1>17. bufs[q + 1] = Bytes(p, h) /\ Len(bufs[q + 1]) = h
  BY <1>1, <1>8, <1>10, <1>12, <1>14, <1>16, BufferAt DEF Held
<1>18. r < h /\ (q < w => h = m)
  <2>1. CASE q = w
    <3>1. h = S - p
      BY <1>6, <1>8, <1>13, <1>16, <2>1, HeldSides
    <3> QED
      BY <1>9, <1>10, <2>1, <3>1
  <2>2. CASE q < w
    <3>1. h = m
      BY <1>6, <1>13, <1>16, <2>2, HeldSides
    <3> QED
      BY <1>7, <3>1
  <2> QED
    BY <1>15, <2>1, <2>2
<1>19. bufs[q + 1][r + 1] = b
  <2>1. r + 1 \in 1..h /\ p + (r + 1) - 1 = b
    BY <1>9, <1>18
  <2>2. \A j \in 1..h : Bytes(p, h)[j] = p + j - 1
    BY BytesAt
  <2>3. Bytes(p, h)[r + 1] = p + (r + 1) - 1
    BY <2>1, <2>2
  <2> QED
    BY <1>17, <2>1, <2>3
<1>20. BufferAsserts(q)
  BY <1>6, <1>11, <1>15, <1>17, <1>18 DEF BufferAsserts, Free
<1> QED
  BY <1>5, <1>7, <1>12, <1>14, <1>17, <1>18, <1>19, <1>20

-----------------------------------------------------------------------------
(* The theorems.                                                           *)

(* The inductive invariant holds in every reachable state. *)
THEOREM InvariantHolds == Spec => []IInv
BY InitHolds, Invariance, PTL DEF Spec

(* Every variable keeps its type: NewBuffers, sem_writer and what ReadBuffer
   copies are never negative (flashcache.cc:268, :356). *)
THEOREM TypeCorrect == Spec => []TypeOK
<1>1. IInv => TypeOK
  BY DEF IInv
<1> QED
  BY <1>1, InvariantHolds, PTL

(* The file always holds the stream from its start and without a gap, so an
   LBA's off_ is the offset to read at (flashcache.cc:301, :387). *)
THEOREM DiskOrdered == Spec => []DiskInOrder
<1>1. IInv => DiskInOrder
  BY DiskOK
<1> QED
  BY <1>1, InvariantHolds, PTL

(* ExpandBuffer has made room for what Serialize writes, whatever the sizes of
   the record and of the buffers (flashcache.cc:259-277, :80). *)
THEOREM RoomMade == Spec => []SerializeFits
<1>1. IInv => SerializeFits
  BY RoomOK
<1> QED
  BY <1>1, InvariantHolds, PTL

(* Read copies nothing but the record's own bytes, whichever of the buffers
   and the file they come from (flashcache.cc:334-397). *)
THEOREM OwnBytesRead == Spec => []ReadsOwnBytes
<1>1. IInv => ReadsOwnBytes
  BY DEF IInv
<1> QED
  BY <1>1, InvariantHolds, PTL

(* Until the file is full or closed, every record is in the buffers where
   ReadBuffer looks for it, and its assertions hold (flashcache.cc:342-347). *)
THEOREM RecordsBuffered == Spec => []BufferedUntilEof
<1>1. IInv => BufferedUntilEof
  BY BufferedOK
<1> QED
  BY <1>1, InvariantHolds, PTL
=============================================================================

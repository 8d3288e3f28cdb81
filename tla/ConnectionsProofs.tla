-------------------------- MODULE ConnectionsProofs -------------------------
(***************************************************************************)
(* Proofs about the accept thread and the connection threads, for every    *)
(* set of peers, every number of slots and any number of requests.         *)
(***************************************************************************)
EXTENDS Connections, DataLemmas

-----------------------------------------------------------------------------
(* The inductive invariant.                                                *)

(* The cells s are those of the requests of rs after the first k: o[j] is
   where the j-th one ends. *)
Spells(s, rs, k) ==
  \E o \in [k..Len(rs) -> 0..Len(s)] :
    /\ o[k] = 0 /\ o[Len(rs)] = Len(s)
    /\ \A i, j \in k..Len(rs) : i <= j => o[i] <= o[j]
    /\ \A j \in (k + 1)..Len(rs) :
         /\ o[j] = o[j - 1] + Len(Cells(rs[j]))
         /\ \A c \in 1..Len(Cells(rs[j])) : s[o[j - 1] + c] = Cells(rs[j])[c]

(* The buffer b begins with the request r. *)
Holds(b, r) == Len(Cells(r)) <= BufLen /\ \A c \in 1..Len(Cells(r)) : b[c] = Cells(r)[c]

(* The requests that connection i has taken from its stream. *)
Taken(i) == Len(executed[i]) + (IF place[i] \in {"parse", "exec", "stuck"} THEN 1 ELSE 0)

(* Slots are taken in order; a thread beyond its read has a peer. *)
SlotsInOrder ==
  \A i \in Slots :
    /\ place[i] = "none" <=> i > Len(clients)
    /\ place[i] = "none" => executed[i] = <<>> /\ answers[i] = 0
    /\ place[i] \in {"parse", "exec", "send"} => clients[i] \in Peers

(* No two slots are the same peer's. *)
OwnSlots ==
  \A i, j \in DOMAIN clients : i # j => clients[i] # clients[j] \/ clients[i] = Stdin

(* A peer that has not been accepted has no slot and has sent nothing; of one
   that was reset nothing is left to read. *)
QuietPeers ==
  \A p \in Peers :
    /\ status[p] \in {"idle", "waiting", "refused"} =>
         /\ \A i \in DOMAIN clients : clients[i] # p
         /\ sent[p] = <<>> /\ stream[p] = <<>>
    /\ status[p] = "reset" => stream[p] = <<>>

(* Every request that was executed is answered, but for the one whose answer
   is about to be sent. *)
AnswerEach ==
  \A i \in Slots :
    answers[i] = Len(executed[i]) - (IF place[i] = "send" THEN 1 ELSE 0)

(* A connection whose reads each took one request has executed what its peer
   p has sent, holds the next one, and has the others before it. *)
Served(i, p) ==
  /\ Taken(i) <= Len(sent[p])
  /\ \A j \in 1..Len(executed[i]) : executed[i][j] = sent[p][j]
  /\ place[i] = "parse" => Holds(buf[i], sent[p][Len(executed[i]) + 1])
  /\ place[i] = "exec" => argv[i] = sent[p][Len(executed[i]) + 1]
  /\ status[p] # "reset" => Spells(stream[p], sent[p], Taken(i))

WholeServed ==
  \A i \in DOMAIN clients : clients[i] \in Peers /\ whole[i] => Served(i, clients[i])

IInv ==
  /\ TypeOK /\ SlotsInOrder /\ OwnSlots /\ QuietPeers /\ AnswerEach
  /\ WholeServed /\ BrokenOnlyByInput

-----------------------------------------------------------------------------
(* Requests and cells.                                                     *)

(* A request has at most three words (util.c:247-280). *)
LEMMA RequestWords ==
  ASSUME NEW r \in Requests
  PROVE  /\ r \in Seq(Words) /\ Len(r) \in 0..3
         /\ \A c \in 1..Len(r) : r[c] \in Words
<1>1. CASE \E v \in Vals : r = <<SetCmd, Key, v>>
  <2>1. PICK v \in Vals : r = <<SetCmd, Key, v>>
    BY <1>1
  <2>2. SetCmd \in Words /\ Key \in Words /\ v \in Words
    BY DEF Words
  <2> QED
    BY <2>1, <2>2
<1>2. CASE r \in {<<EvictCmd, Key>>, <<GetCmd, Key>>, <<SetCmd, Key>>}
  <2>1. EvictCmd \in Words /\ GetCmd \in Words /\ SetCmd \in Words /\ Key \in Words
    BY DEF Words
  <2>2. PICK c \in Words : r = <<c, Key>>
    BY <1>2, <2>1
  <2> QED
    BY <2>1, <2>2
<1>3. CASE r = <<EvictCmd>>
  <2>1. EvictCmd \in Words
    BY DEF Words
  <2> QED
    BY <1>3, <2>1
<1>4. CASE r = <<>>
  BY <1>4
<1> QED
  BY <1>1, <1>2, <1>3, <1>4 DEF Requests

(* Its cells are its header and its words (util.c:247-280). *)
LEMMA CellsOf ==
  ASSUME NEW r \in Requests
  PROVE  /\ Cells(r) \in Seq(0..3 \cup Words) /\ Len(Cells(r)) = Len(r) + 1
         /\ Len(Cells(r)) \in 1..4
         /\ Cells(r)[1] = Len(r)
         /\ \A c \in 1..Len(r) : Cells(r)[c + 1] = r[c]
<1> DEFINE S == 0..3 \cup Words
           h == Len(r)
<1>1. r \in Seq(Words) /\ h \in 0..3
  BY RequestWords
<1>2. h \in S /\ \A c \in 1..h : r[c] \in S
  BY <1>1
<1>3. Len(r) = h
  OBVIOUS
<1> HIDE DEF S, h
<1>4. r \in Seq(S)
  BY <1>1, <1>2, <1>3
<1>5. <<h>> \in Seq(S) /\ Len(<<h>>) = 1 /\ <<h>>[1] = h
  BY <1>2
<1>6. /\ <<h>> \o r \in Seq(S) /\ Len(<<h>> \o r) = 1 + h
      /\ (<<h>> \o r)[1] = h /\ \A c \in 1..h : (<<h>> \o r)[c + 1] = r[c]
  BY <1>1, <1>3, <1>4, <1>5
<1>7. Cells(r) = <<h>> \o r
  BY DEF Cells, h
<1>8. 1 + h = h + 1 /\ h + 1 \in 1..4
  BY <1>1
<1> QED
  BY <1>3, <1>6, <1>7, <1>8 DEF S

(* What is sent is put behind what has not been read (net.c:70). *)
LEMMA SpellsAppend ==
  ASSUME NEW S, NEW s \in Seq(S), NEW rs \in Seq(Requests), NEW k \in 0..Len(rs),
         NEW r \in Requests, Cells(r) \in Seq(S), Spells(s, rs, k)
  PROVE  Spells(s \o Cells(r), Append(rs, r), k)
<1> DEFINE n == Len(rs)
           m == Len(s)
           q == Cells(r)
           t == s \o q
           ss == Append(rs, r)
<1>1. PICK o \in [k..n -> 0..m] :
        /\ o[k] = 0 /\ o[n] = m
        /\ \A i, j \in k..n : i <= j => o[i] <= o[j]
        /\ \A j \in (k + 1)..n :
             /\ o[j] = o[j - 1] + Len(Cells(rs[j]))
             /\ \A c \in 1..Len(Cells(rs[j])) : s[o[j - 1] + c] = Cells(rs[j])[c]
  BY DEF Spells
<1>2. n \in Nat /\ m \in Nat /\ Len(q) \in Nat /\ k \in 0..n
  OBVIOUS
<1>3. /\ Len(t) = m + Len(q) /\ \A x \in 1..m : t[x] = s[x]
      /\ \A x \in 1..Len(q) : t[m + x] = q[x]
  OBVIOUS
<1>4. Len(ss) = n + 1 /\ ss[n + 1] = r /\ \A j \in 1..n : ss[j] = rs[j] /\ rs[j] \in Requests
  OBVIOUS
<1>5. \A j \in 1..n : Len(Cells(rs[j])) \in Nat
  BY <1>4, CellsOf
<1> DEFINE u == [j \in k..(n + 1) |-> IF j <= n THEN o[j] ELSE m + Len(q)]
<1> HIDE DEF n, m, q, t, ss
<1>6. /\ u \in [k..(n + 1) -> 0..(m + Len(q))]
      /\ \A j \in k..n : u[j] = o[j] /\ o[j] \in 0..m
      /\ u[n + 1] = m + Len(q) 
  BY <1>2
<1> HIDE DEF u
<1>7. u[k] = 0 /\ \A i, j \in k..(n + 1) : i <= j => u[i] <= u[j]
  <2>1. \A j \in k..(n + 1) : j \in k..n \/ j = n + 1
    BY <1>2
  <2>2. u[k] = 0
    BY <1>1, <1>2, <1>6
  <2>3. ASSUME NEW i \in k..(n + 1), NEW j \in k..(n + 1), i <= j PROVE u[i] <= u[j]
    <3>1. CASE j = n + 1
      BY <1>2, <1>6, <3>1
    <3>2. CASE j \in k..n
      <4>1. i \in k..n
        BY <1>2, <2>3, <3>2
      <4> QED
        BY <1>1, <1>6, <2>3, <3>2, <4>1
    <3> QED
      BY <2>1, <3>1, <3>2
  <2> QED
    BY <2>2, <2>3
<1>8. ASSUME NEW j \in (k + 1)..(n + 1)
      PROVE  /\ u[j] = u[j - 1] + Len(Cells(ss[j]))
             /\ \A c \in 1..Len(Cells(ss[j])) : t[u[j - 1] + c] = Cells(ss[j])[c]
  <2>1. j - 1 \in k..n /\ u[j - 1] = o[j - 1]
    BY <1>2, <1>6
  <2>2. CASE j = n + 1
    <3>1. u[j - 1] = m /\ ss[j] = r
      BY <1>1, <1>2, <1>4, <2>1, <2>2
    <3> QED
      BY <1>2, <1>3, <1>6, <2>2, <3>1 DEF q
  <2>3. CASE j \in (k + 1)..n
    <3>1. j \in k..n /\ ss[j] = rs[j] /\ u[j] = o[j] /\ j \in 1..n
      BY <1>2, <1>4, <1>6, <2>3
    <3>2. u[j] = u[j - 1] + Len(Cells(ss[j]))
      BY <1>1, <2>1, <2>3, <3>1
    <3>3. ASSUME NEW c \in 1..Len(Cells(ss[j])) PROVE t[u[j - 1] + c] = Cells(ss[j])[c]
      <4>1. o[j - 1] \in 0..m /\ o[j] \in 0..m /\ Len(Cells(rs[j])) \in Nat
        BY <1>5, <2>1, <3>1
      <4>2. o[j - 1] + c \in 1..m
        BY <1>1, <1>2, <2>3, <3>1, <4>1
      <4> QED
        BY <1>1, <1>3, <2>1, <2>3, <3>1, <4>2
    <3> QED
      BY <3>2, <3>3
  <2> QED
    BY <1>2, <2>2, <2>3
<1>9. /\ u \in [k..Len(ss) -> 0..Len(t)] /\ u[Len(ss)] = Len(t)
      /\ \A i, j \in k..Len(ss) : i <= j => u[i] <= u[j]
      /\ \A j \in (k + 1)..Len(ss) :
           /\ u[j] = u[j - 1] + Len(Cells(ss[j]))
           /\ \A c \in 1..Len(Cells(ss[j])) : t[u[j - 1] + c] = Cells(ss[j])[c]
  BY <1>3, <1>4, <1>6, <1>7, <1>8
<1>10. Spells(t, ss, k)
  BY <1>7, <1>9 DEF Spells
<1> QED
  BY <1>10 DEF t, ss, q

(* A read that takes exactly one request takes the next one, and leaves the
   others (net.c:70). *)
LEMMA SpellsDrop ==
  ASSUME NEW S, NEW s \in Seq(S), NEW rs \in Seq(Requests), NEW k \in Nat, k < Len(rs),
         Spells(s, rs, k)
  PROVE  /\ Len(Cells(rs[k + 1])) <= Len(s)
         /\ \A c \in 1..Len(Cells(rs[k + 1])) : s[c] = Cells(rs[k + 1])[c]
         /\ Spells(SubSeq(s, Len(Cells(rs[k + 1])) + 1, Len(s)), rs, k + 1)
<1> DEFINE n == Len(rs)
           m == Len(s)
           l == Len(Cells(rs[k + 1]))
           t == SubSeq(s, l + 1, m)
<1>1. PICK o \in [k..n -> 0..m] :
        /\ o[k] = 0 /\ o[n] = m
        /\ \A i, j \in k..n : i <= j => o[i] <= o[j]
        /\ \A j \in (k + 1)..n :
             /\ o[j] = o[j - 1] + Len(Cells(rs[j]))
             /\ \A c \in 1..Len(Cells(rs[j])) : s[o[j - 1] + c] = Cells(rs[j])[c]
  BY DEF Spells
<1>2. n \in Nat /\ m \in Nat /\ k \in 0..n /\ k + 1 \in 1..n /\ k + 1 \in (k + 1)..n
  OBVIOUS
<1>3. \A j \in 1..n : Len(Cells(rs[j])) \in Nat
  <2>1. \A j \in 1..n : rs[j] \in Requests
    OBVIOUS
  <2> QED
    BY <2>1, CellsOf
<1>4. l \in Nat
  BY <1>2, <1>3
<1> HIDE DEF n, l
<1>5. o[k + 1] = l /\ l \in 0..m /\ \A c \in 1..l : s[c] = Cells(rs[k + 1])[c]
  <2>1. (k + 1) - 1 = k
    OBVIOUS
  <2>2. o[k + 1] = o[k] + l /\ \A c \in 1..l : s[o[k] + c] = Cells(rs[k + 1])[c]
    BY <1>1, <1>2, <2>1 DEF l
  <2>3. o[k] = 0 /\ o[k + 1] \in 0..m
    BY <1>1, <1>2
  <2> QED
    BY <1>4, <2>2, <2>3
<1>6. t \in Seq(S) /\ Len(t) = m - l /\ \A x \in 1..(m - l) : t[x] = s[l + x]
  <2>1. l + 1 \in 1..(m + 1) /\ m \in l..m
    BY <1>2, <1>5
  <2>2. \A x \in (l + 1)..m : s[x] \in S
    BY <1>4
  <2> QED
    BY <1>2, <1>4, <1>5, <2>1, <2>2, SubSeqProperties
<1> DEFINE u == [j \in (k + 1)..n |-> o[j] - l]
<1> HIDE DEF m, t
<1>7. \A j \in (k + 1)..n : o[j] \in l..m
  <2> TAKE j \in (k + 1)..n
  <2>1. j \in k..n /\ k + 1 \in k..n /\ k + 1 <= j
    BY <1>2
  <2> QED
    BY <1>1, <1>2, <1>5, <2>1
<1>8. /\ u \in [(k + 1)..n -> 0..(m - l)]
      /\ \A j \in (k + 1)..n : u[j] = o[j] - l
  BY <1>2, <1>5, <1>7
<1> HIDE DEF u
<1>9. u[k + 1] = 0 /\ u[n] = m - l
  <2>1. n \in (k + 1)..n
    BY <1>2
  <2> QED
    BY <1>1, <1>2, <1>5, <1>8, <2>1
<1>10. ASSUME NEW i \in (k + 1)..n, NEW j \in (k + 1)..n, i <= j PROVE u[i] <= u[j]
  <2>1. i \in k..n /\ j \in k..n /\ o[i] \in l..m /\ o[j] \in l..m
    BY <1>2, <1>7
  <2>2. o[i] <= o[j]
    BY <1>1, <1>10, <2>1
  <2> QED
    BY <1>4, <1>8, <1>10, <2>1, <2>2
<1>11. ASSUME NEW j \in ((k + 1) + 1)..n
       PROVE  /\ u[j] = u[j - 1] + Len(Cells(rs[j]))
              /\ \A c \in 1..Len(Cells(rs[j])) : t[u[j - 1] + c] = Cells(rs[j])[c]
  <2>1. j \in (k + 1)..n /\ j - 1 \in (k + 1)..n /\ j \in 1..n
    BY <1>2
  <2>2. /\ u[j] = o[j] - l /\ u[j - 1] = o[j - 1] - l
        /\ o[j] \in l..m /\ o[j - 1] \in l..m /\ Len(Cells(rs[j])) \in Nat
    BY <1>3, <1>7, <1>8, <2>1
  <2>3. o[j] = o[j - 1] + Len(Cells(rs[j]))
    BY <1>1, <2>1
  <2>4. ASSUME NEW c \in 1..Len(Cells(rs[j])) PROVE t[u[j - 1] + c] = Cells(rs[j])[c]
    <3>1. u[j - 1] + c \in 1..(m - l) /\ l + (u[j - 1] + c) = o[j - 1] + c
      <4> DEFINE a == o[j - 1]
                 b == o[j]
                 w == u[j - 1]
                 e == Len(Cells(rs[j]))
      <4>1. w = a - l /\ a \in l..m /\ b \in l..m /\ b = a + e /\ e \in Nat /\ c \in 1..e
        BY <2>2, <2>3
      <4> HIDE DEF a, b, w, e
      <4>2. w + c \in 1..(m - l) /\ l + (w + c) = a + c
        BY <1>2, <1>4, <4>1
      <4> QED
        BY <4>2 DEF a, w
    <3>2. t[u[j - 1] + c] = s[o[j - 1] + c]
      BY <1>6, <3>1
    <3> QED
      BY <1>1, <2>1, <3>2
  <2> QED
    BY <1>2, <1>4, <2>2, <2>3, <2>4
<1>12. /\ u \in [(k + 1)..n -> 0..Len(t)] /\ u[k + 1] = 0 /\ u[n] = Len(t)
       /\ \A i, j \in (k + 1)..n : i <= j => u[i] <= u[j]
       /\ \A j \in ((k + 1) + 1)..n :
            /\ u[j] = u[j - 1] + Len(Cells(rs[j]))
            /\ \A c \in 1..Len(Cells(rs[j])) : t[u[j - 1] + c] = Cells(rs[j])[c]
  BY <1>6, <1>8, <1>9, <1>10, <1>11
<1>13. Spells(t, rs, k + 1)
  BY <1>12, Zenon DEF Spells, n
<1> QED
  BY <1>5, <1>13 DEF t, l, m

Buffers == [1..BufLen -> 0..3 \cup Words \cup {Junk}]

(* The words that parsingMessage takes from a buffer with a header
   (util.c:247-280). *)
LEMMA ParsedHeader ==
  ASSUME NEW b \in Buffers, NEW old, b[1] \in 0..3
  PROVE  \E n \in 0..3 :
           /\ n <= b[1]
           /\ \A i \in 1..n : b[i + 1] \in Words
           /\ \A j \in 0..b[1] : (\A i \in 1..j : b[i + 1] \in Words) => j <= n
           /\ Parsed(b, old) = SubSeq(b, 2, n + 1)
<1> DEFINE h == b[1]
           good == {j \in 0..h : \A i \in 1..j : b[i + 1] \in Words}
           n == Max(good)
<1>1. h \in 0..3
  OBVIOUS
<1>2. Parsed(b, old) = SubSeq(b, 2, n + 1)
  <2>1. b[1] \in 0..(BufLen - 1)
    BY DEF BufLen
  <2>2. Parsed(b, old) = IF b[1] \in 0..(BufLen - 1) THEN SubSeq(b, 2, n + 1) ELSE old
    BY Zenon DEF Parsed
  <2> QED
    BY <2>1, <2>2
<1> HIDE DEF h
<1>3. good \in SUBSET Nat /\ 0 \in good /\ \A j \in good : j <= h
  BY <1>1
<1>4. n \in good /\ \A j \in good : n >= j
  <2> HIDE DEF good
  <2> QED
    BY <1>1, <1>3, MaxIsGreatest
<1>5. n \in 0..3 /\ n <= h /\ (\A i \in 1..n : b[i + 1] \in Words)
  <2> HIDE DEF n
  <2> QED
    BY <1>1, <1>4
<1>6. ASSUME NEW j \in 0..h, \A i \in 1..j : b[i + 1] \in Words PROVE j <= n
  <2>1. j \in good
    BY <1>6
  <2> HIDE DEF n, good
  <2> QED
    BY <1>1, <1>4, <1>5, <2>1
<1> HIDE DEF n, good
<1> QED
  BY <1>2, <1>5, <1>6 DEF h

(* parsingMessage fills argv with words only (util.c:262-275). *)
LEMMA ParsedWords ==
  ASSUME NEW b \in Buffers, NEW old \in Seq(Words)
  PROVE  Parsed(b, old) \in Seq(Words)
<1>1. CASE b[1] \in 0..3
  <2>1. PICK n \in 0..3 : (\A i \in 1..n : b[i + 1] \in Words) /\ Parsed(b, old) = SubSeq(b, 2, n + 1)
    BY <1>1, ParsedHeader
  <2>2. \A i \in 2..(n + 1) : b[i] \in Words
    <3> TAKE i \in 2..(n + 1)
    <3>1. i - 1 \in 1..n /\ (i - 1) + 1 = i
      OBVIOUS
    <3> QED
      BY <2>1, <3>1
  <2>3. SubSeq(b, 2, n + 1) \in Seq(Words)
    BY <2>2, SubSeqProperties
  <2> QED
    BY <2>1, <2>3
<1>2. CASE b[1] \notin 0..3
  BY <1>2 DEF Parsed, BufLen
<1> QED
  BY <1>1, <1>2

(* A request at the front of the buffer is parsed as it was sent, whatever
   the cells behind it hold (util.c:247-280). *)
LEMMA ParsedRequest ==
  ASSUME NEW b \in Buffers, NEW old, NEW r \in Requests, Holds(b, r)
  PROVE  Parsed(b, old) = r
<1> DEFINE l == Len(r)
<1>1. /\ l \in 0..3 /\ r \in Seq(Words) /\ \A c \in 1..l : r[c] \in Words
  BY RequestWords
<1>2. Len(Cells(r)) = l + 1 /\ Cells(r)[1] = l /\ \A c \in 1..l : Cells(r)[c + 1] = r[c]
  BY CellsOf
<1>3. r = [c \in 1..l |-> r[c]] /\ Len(r) = l
  BY <1>1
<1> HIDE DEF l
<1>4. b[1] = l /\ \A c \in 1..l : b[c + 1] = r[c]
  <2>1. 1 \in 1..(l + 1) /\ \A c \in 1..l : c + 1 \in 1..(l + 1)
    BY <1>1
  <2> QED
    BY <1>2, <2>1 DEF Holds
<1>5. PICK n \in 0..3 :
           /\ n <= b[1]
           /\ \A j \in 0..b[1] : (\A i \in 1..j : b[i + 1] \in Words) => j <= n
           /\ Parsed(b, old) = SubSeq(b, 2, n + 1)
  BY <1>1, <1>4, ParsedHeader
<1>6. n = l
  <2>1. l \in 0..b[1] /\ \A i \in 1..l : b[i + 1] \in Words
    BY <1>1, <1>4
  <2>2. l <= n
    BY <1>5, <2>1
  <2> QED
    BY <1>1, <1>4, <1>5, <2>2
<1>7. \A i \in 2..(l + 1) : b[i] \in Words
  <2> TAKE i \in 2..(l + 1)
  <2>1. i - 1 \in 1..l /\ (i - 1) + 1 = i
    BY <1>1
  <2> QED
    BY <1>1, <1>4, <2>1
<1>8. /\ SubSeq(b, 2, l + 1) \in Seq(Words) /\ Len(SubSeq(b, 2, l + 1)) = l
      /\ \A i \in 1..l : SubSeq(b, 2, l + 1)[i] = b[i + 1]
  <2> DEFINE e == l + 1
             q == SubSeq(b, 2, e)
  <2>1. e \in Int /\ e - 2 + 1 = l /\ (IF 2 <= e THEN e - 2 + 1 ELSE 0) = l /\ \A i \in 1..l : 2 + i - 1 = i + 1
    BY <1>1
  <2>2. /\ q \in Seq(Words) /\ Len(q) = IF 2 <= e THEN e - 2 + 1 ELSE 0
        /\ \A i \in 1..(e - 2 + 1) : q[i] = b[2 + i - 1]
    <3>1. e \in Int /\ 2 \in Int /\ \A i \in 2..e : b[i] \in Words
      BY <1>7, <2>1
    <3> HIDE DEF e
    <3> QED
      BY <3>1, SubSeqProperties
  <2> HIDE DEF e, q
  <2>3. q \in Seq(Words) /\ Len(q) = l /\ \A i \in 1..l : q[i] = b[i + 1]
    BY <2>1, <2>2
  <2> QED
    BY <2>3 DEF q, e
<1>9. SubSeq(b, 2, l + 1) = r
  <2> DEFINE q == SubSeq(b, 2, l + 1)
  <2>1. q \in Seq(Words) /\ Len(q) = l /\ \A i \in 1..l : q[i] = r[i]
    BY <1>4, <1>8
  <2> HIDE DEF q
  <2>2. q = r
    BY <1>1, <1>3, <2>1
  <2> QED
    BY <2>2 DEF q
<1> QED
  BY <1>5, <1>6, <1>9

(* What is read or written over a buffer leaves it one (net.c:70,
   command.c:95). *)
LEMMA OverBuffer ==
  ASSUME NEW b \in Buffers, NEW s \in Seq(0..3 \cup Words \cup {Junk})
  PROVE  /\ Over(b, s) \in Buffers
         /\ \A c \in 1..Len(s) : c <= BufLen => Over(b, s)[c] = s[c]
BY DEF Over, Buffers, BufLen

(* A request that is read whole is at the front of the buffer (net.c:70). *)
LEMMA OverHolds ==
  ASSUME NEW b \in Buffers, NEW s \in Seq(0..3 \cup Words \cup {Junk}), NEW r \in Requests,
         Len(s) = Len(Cells(r)), \A c \in 1..Len(Cells(r)) : s[c] = Cells(r)[c]
  PROVE  Holds(Over(b, s), r)
<1> DEFINE l == Len(Cells(r))
<1>1. l \in 1..4
  BY CellsOf
<1>2. \A c \in 1..l : Over(b, s)[c] = s[c]
  <2> HIDE DEF l
  <2>1. Len(s) = l /\ \A c \in 1..l : c <= BufLen
    BY <1>1 DEF BufLen, l
  <2> QED
    BY <2>1, OverBuffer
<1> QED
  BY <1>1, <1>2 DEF Holds, BufLen

(* A peer that has sent nothing (bworker.c:14). *)
LEMMA SpellsEmpty == Spells(<<>>, <<>>, 0)
<1> DEFINE o == [j \in 0..0 |-> 0]
<1>1. /\ o \in [0..Len(<<>>) -> 0..Len(<<>>)] /\ o[0] = 0 /\ o[Len(<<>>)] = Len(<<>>)
      /\ \A i, j \in 0..Len(<<>>) : i <= j => o[i] <= o[j]
      /\ (0 + 1)..Len(<<>>) = {}
  OBVIOUS
<1> HIDE DEF o
<1> QED
  BY <1>1 DEF Spells

-----------------------------------------------------------------------------
(* The initial states, and the frame.                                      *)

(* No connection yet (bworker.c:29-34). *)
LEMMA InitInv == Init => IInv
<1> SUFFICES ASSUME Init PROVE IInv
  OBVIOUS
<1>0. clients = <<>> /\ Len(clients) = 0 /\ DOMAIN clients = {}
  BY DEF Init
<1>1. TypeOK
  <2>1. Blank \in [1..BufLen -> 0..3 \cup Words \cup {Junk}]
    BY DEF Blank
  <2> QED
    BY <1>0, <2>1, ConnectionAssumption DEF Init, TypeOK
<1>2. SlotsInOrder
  BY <1>0, ConnectionAssumption DEF Init, SlotsInOrder, Slots
<1>3. OwnSlots /\ QuietPeers /\ WholeServed /\ BrokenOnlyByInput
  BY <1>0 DEF Init, OwnSlots, QuietPeers, WholeServed, BrokenOnlyByInput
<1>4. AnswerEach
  BY DEF Init, AnswerEach
<1> QED
  BY <1>1, <1>2, <1>3, <1>4 DEF IInv

(* A connection that a step does not touch, or whose peer is reset, is served
   as before (bworker.c:13-26). *)
LEMMA ServedFrame ==
  ASSUME NEW i \in Slots, NEW p \in Peers, Served(i, p),
         executed'[i] = executed[i], place'[i] = place[i], buf'[i] = buf[i], argv'[i] = argv[i],
         sent'[p] = sent[p],
         status'[p] # "reset" => status[p] # "reset" /\ stream'[p] = stream[p]
  PROVE  Served(i, p)'
BY DEF Served, Taken

(* The end of the process changes nothing else; if it is undefined, input was
   broken (bworker.c:24). *)
LEMMA FrozenStep ==
  ASSUME IInv, proc' \in {"running", "killed", "undefined"},
         UNCHANGED <<clients, peerVars, threadVars>>,
         proc' = "undefined" /\ proc # "undefined" =>
           \E i \in DOMAIN clients : clients[i] \in Peers /\
             \/ ~whole[i]
             \/ \E j \in DOMAIN sent[clients[i]] :
                  Len(sent[clients[i]][j]) < Used(sent[clients[i]][j])
  PROVE  IInv'
<1> USE DEF peerVars, threadVars
<1>1. TypeOK' /\ SlotsInOrder' /\ AnswerEach'
  BY DEF IInv, TypeOK, SlotsInOrder, AnswerEach
<1>2. OwnSlots' /\ QuietPeers'
  BY DEF IInv, OwnSlots, QuietPeers
<1>3. WholeServed'
  BY DEF IInv, WholeServed, Served, Taken
<1>4. BrokenOnlyByInput'
  BY DEF IInv, BrokenOnlyByInput
<1> QED
  BY <1>1, <1>2, <1>3, <1>4 DEF IInv

(* A slot that is in use (bworker.c:52). *)
LEMMA SlotOf ==
  ASSUME IInv
  PROVE  /\ DOMAIN clients = 1..Len(clients) /\ Len(clients) \in Nat
         /\ \A i \in DOMAIN clients : i \in Slots /\ clients[i] \in Peers \cup {Stdin}
         /\ \A i \in Slots : place[i] # "none" => i \in DOMAIN clients
<1>1. clients \in Seq(Peers \cup {Stdin}) /\ Len(clients) <= MaxClients
  BY DEF IInv, TypeOK
<1>2. DOMAIN clients = 1..Len(clients) /\ Len(clients) \in Nat
  BY <1>1
<1>3. \A i \in DOMAIN clients : i \in Slots /\ clients[i] \in Peers \cup {Stdin}
  BY <1>1, <1>2, ConnectionAssumption DEF Slots
<1>4. ASSUME NEW i \in Slots, place[i] # "none" PROVE i \in DOMAIN clients
  <2>1. ~ (i > Len(clients)) /\ i \in Nat /\ i >= 1
    BY <1>4 DEF IInv, SlotsInOrder, Slots
  <2> QED
    BY <1>2, <2>1
<1> QED
  BY <1>2, <1>3, <1>4

-----------------------------------------------------------------------------
(* The peers.                                                              *)

(* connect() (net.c:53). *)
LEMMA ConnectStep ==
  ASSUME IInv, NEW p \in Peers, Connect(p)
  PROVE  IInv'
<1>0. TypeOK /\ proc = "running" /\ status[p] = "idle"
  BY DEF IInv, Connect, Running
<1>1. /\ status' = [status EXCEPT ![p] = "waiting"]
      /\ UNCHANGED <<proc, clients, sent, stream, place, buf, argv, executed, answers, whole>>
  BY DEF Connect, threadVars
<1>2. status'[p] = "waiting" /\ \A q \in Peers : q # p => status'[q] = status[q]
  BY <1>0, <1>1 DEF TypeOK
<1>3. TypeOK' /\ SlotsInOrder' /\ AnswerEach'
  BY <1>0, <1>1 DEF IInv, TypeOK, SlotsInOrder, AnswerEach
<1>4. OwnSlots' /\ QuietPeers'
  BY <1>0, <1>1, <1>2 DEF IInv, OwnSlots, QuietPeers
<1>5. WholeServed'
  <2> SUFFICES ASSUME NEW j \in DOMAIN clients, clients[j] \in Peers, whole[j]
               PROVE  Served(j, clients[j])'
    BY <1>1 DEF WholeServed
  <2>1. PICK q \in Peers : q = clients[j]
    OBVIOUS
  <2>2. Served(j, q) /\ j \in Slots
    BY <2>1, SlotOf DEF IInv, WholeServed
  <2>3. Served(j, q)'
    BY <1>0, <1>1, <1>2, <2>2, ServedFrame
  <2> QED
    BY <1>1, <2>1, <2>3 DEF Served, Taken
<1>6. BrokenOnlyByInput'
  BY <1>0, <1>1 DEF BrokenOnlyByInput
<1> QED
  BY <1>3, <1>4, <1>5, <1>6 DEF IInv

(* A request is sent (net.c:70). *)
LEMMA RequestStep ==
  ASSUME IInv, NEW p \in Peers, NEW r \in Requests, Request(p, r)
  PROVE  IInv'
<1>0. TypeOK /\ proc = "running" /\ status[p] = "open"
  BY DEF IInv, Request, Running
<1>1. /\ sent' = [sent EXCEPT ![p] = Append(sent[p], r)]
      /\ stream' = [stream EXCEPT ![p] = stream[p] \o Cells(r)]
      /\ UNCHANGED <<proc, clients, status, place, buf, argv, executed, answers, whole>>
  BY DEF Request, threadVars
<1>2. sent[p] \in Seq(Requests) /\ stream[p] \in Seq(0..3 \cup Words) /\ Cells(r) \in Seq(0..3 \cup Words)
  BY <1>0, CellsOf DEF TypeOK
<1>3. /\ sent' \in [Peers -> Seq(Requests)] /\ sent'[p] = Append(sent[p], r)
      /\ \A q \in Peers : q # p => sent'[q] = sent[q]
  BY <1>0, <1>1, <1>2 DEF TypeOK
<1>4. /\ stream' \in [Peers -> Seq(0..3 \cup Words)] /\ stream'[p] = stream[p] \o Cells(r)
      /\ \A q \in Peers : q # p => stream'[q] = stream[q]
  <2>1. stream[p] \o Cells(r) \in Seq(0..3 \cup Words)
    BY <1>2, ConcatProperties
  <2> QED
    BY <1>0, <1>1, <2>1 DEF TypeOK
<1>5. TypeOK' /\ SlotsInOrder' /\ AnswerEach'
  BY <1>0, <1>1, <1>3, <1>4 DEF IInv, TypeOK, SlotsInOrder, AnswerEach
<1>6. OwnSlots' /\ QuietPeers'
  BY <1>0, <1>1, <1>3, <1>4 DEF IInv, OwnSlots, QuietPeers
<1>7. WholeServed'
  <2> SUFFICES ASSUME NEW j \in DOMAIN clients, clients[j] \in Peers, whole[j]
               PROVE  Served(j, clients[j])'
    BY <1>1 DEF WholeServed
  <2>1. PICK q \in Peers : q = clients[j]
    OBVIOUS
  <2>2. Served(j, q) /\ j \in Slots
    BY <2>1, SlotOf DEF IInv, WholeServed
  <2>3. CASE q # p
    <3>1. Served(j, q)'
      BY <1>1, <1>3, <1>4, <2>2, <2>3, ServedFrame
    <3> QED
      BY <1>1, <2>1, <3>1 DEF Served, Taken
  <2>4. CASE q = p
    <3> DEFINE n == Len(executed[j])
    <3>1. n \in Nat /\ Taken(j)' = Taken(j) /\ Taken(j) \in {n, n + 1}
      BY <1>0, <1>1, <2>2 DEF TypeOK, Taken
    <3>2. place[j] \in {"parse", "exec"} => Taken(j) = n + 1
      BY DEF Taken
    <3> HIDE DEF n
    <3>3. /\ Len(sent[p]) \in Nat /\ Len(sent'[p]) = Len(sent[p]) + 1
          /\ \A c \in 1..Len(sent[p]) : sent'[p][c] = sent[p][c]
      BY <1>2, <1>3
    <3>4. Taken(j) \in 0..Len(sent[p])
      BY <2>2, <2>4, <3>1, <3>3 DEF Served
    <3>5. Spells(stream'[p], sent'[p], Taken(j))
      <4>1. Spells(stream[p], sent[p], Taken(j))
        BY <1>0, <2>2, <2>4 DEF Served
      <4>2. Spells(stream[p] \o Cells(r), Append(sent[p], r), Taken(j))
        BY <1>2, <3>4, <4>1, SpellsAppend
      <4> QED
        BY <1>3, <1>4, <4>2
    <3>6. Taken(j)' <= Len(sent'[p])
      BY <3>1, <3>3, <3>4
    <3>7. \A c \in 1..n : executed'[j][c] = sent'[p][c]
      <4>1. \A c \in 1..n : executed[j][c] = sent[p][c]
        BY <2>2, <2>4 DEF Served, n
      <4>2. \A c \in 1..n : c \in 1..Len(sent[p])
        BY <3>1, <3>3, <3>4
      <4> QED
        BY <1>1, <3>3, <4>1, <4>2
    <3>8. place[j] \in {"parse", "exec"} => sent'[p][n + 1] = sent[p][n + 1]
      BY <3>1, <3>2, <3>3, <3>4
    <3> QED
      BY <1>1, <2>1, <2>2, <2>4, <3>1, <3>5, <3>6, <3>7, <3>8 DEF Served, n
  <2> QED
    BY <2>3, <2>4
<1>8. BrokenOnlyByInput'
  BY <1>0, <1>1 DEF BrokenOnlyByInput
<1> QED
  BY <1>5, <1>6, <1>7, <1>8 DEF IInv

(* A peer closes its connection, or it is reset (net.c:70). *)
LEMMA HangupStep ==
  ASSUME IInv, NEW p \in Peers, Hangup(p)
  PROVE  IInv'
<1>0. TypeOK /\ proc = "running" /\ status[p] = "open"
  BY DEF IInv, Hangup, Running
<1>1. /\ UNCHANGED <<proc, clients, sent, place, buf, argv, executed, answers, whole>>
      /\ \/ status' = [status EXCEPT ![p] = "closed"] /\ stream' = stream
         \/ /\ status' = [status EXCEPT ![p] = "reset"]
            /\ stream' = [stream EXCEPT ![p] = <<>>]
  BY DEF Hangup, threadVars
<1>2. /\ stream' \in [Peers -> Seq(0..3 \cup Words)]
      /\ status' \in [Peers -> {"idle", "waiting", "open", "refused", "closed", "reset"}]
      /\ \A q \in Peers : q # p => stream'[q] = stream[q] /\ status'[q] = status[q]
      /\ \/ status'[p] = "closed" /\ stream'[p] = stream[p]
         \/ status'[p] = "reset" /\ stream'[p] = <<>>
  <2>1. <<>> \in Seq(0..3 \cup Words)
    BY EmptySeq
  <2>2. stream \in [Peers -> Seq(0..3 \cup Words)]
    BY <1>0 DEF TypeOK
  <2>3. status \in [Peers -> {"idle", "waiting", "open", "refused", "closed", "reset"}]
    BY <1>0 DEF TypeOK
  <2>4. CASE status' = [status EXCEPT ![p] = "closed"] /\ stream' = stream
    BY <2>2, <2>3, <2>4
  <2>5. CASE status' = [status EXCEPT ![p] = "reset"] /\ stream' = [stream EXCEPT ![p] = <<>>]
    BY <2>1, <2>2, <2>3, <2>5
  <2> QED
    BY <1>1, <2>4, <2>5
<1>3. TypeOK' /\ SlotsInOrder' /\ AnswerEach'
  BY <1>0, <1>1, <1>2 DEF IInv, TypeOK, SlotsInOrder, AnswerEach
<1>4. OwnSlots' /\ QuietPeers'
  BY <1>0, <1>1, <1>2 DEF IInv, OwnSlots, QuietPeers
<1>5. WholeServed'
  <2> SUFFICES ASSUME NEW j \in DOMAIN clients, clients[j] \in Peers, whole[j]
               PROVE  Served(j, clients[j])'
    BY <1>1 DEF WholeServed
  <2>1. PICK q \in Peers : q = clients[j]
    OBVIOUS
  <2>2. Served(j, q) /\ j \in Slots
    BY <2>1, SlotOf DEF IInv, WholeServed
  <2>3. Served(j, q)'
    BY <1>0, <1>1, <1>2, <2>2, ServedFrame
  <2> QED
    BY <1>1, <2>1, <2>3 DEF Served, Taken
<1>6. BrokenOnlyByInput'
  BY <1>0, <1>1 DEF BrokenOnlyByInput
<1> QED
  BY <1>3, <1>4, <1>5, <1>6 DEF IInv

-----------------------------------------------------------------------------
(* The accept thread.                                                      *)

(* A slot and a thread for a peer that has not been accepted before, or for
   an interrupted accept (bworker.c:47-60). *)
LEMMA StartStep ==
  ASSUME IInv, proc = "running", ~ Full, NEW p \in Peers \cup {Stdin}, Start(p),
         p \in Peers => status[p] = "waiting" /\ status' = [status EXCEPT ![p] = "open"],
         p \notin Peers => UNCHANGED status
  PROVE  IInv'
<1> DEFINE n == Len(clients) + 1
<1>0. TypeOK
  BY DEF IInv
<1>1. clients \in Seq(Peers \cup {Stdin}) /\ n \in Slots /\ Len(clients) \in Nat /\ n <= MaxClients
  BY <1>0, ConnectionAssumption DEF TypeOK, Full, Slots
<1>2. /\ clients' = Append(clients, p) /\ place' = [place EXCEPT ![n] = "recv"]
      /\ \E b \in {Blank} \cup {buf[j] : j \in {j \in Slots : place[j] = "ended"}} :
           buf' = [buf EXCEPT ![n] = b]
      /\ UNCHANGED <<proc, sent, stream, argv, executed, answers, whole>>
  BY DEF Start
<1>3. /\ clients' \in Seq(Peers \cup {Stdin}) /\ Len(clients') = n /\ clients'[n] = p
      /\ \A j \in 1..Len(clients) : clients'[j] = clients[j]
  BY <1>1, <1>2, AppendProperties
<1>4. buf' \in [Slots -> Buffers] /\ \A j \in Slots : j # n => buf'[j] = buf[j]
  <2>1. buf \in [Slots -> Buffers] /\ Blank \in Buffers
    BY <1>0 DEF TypeOK, Buffers, Blank
  <2>2. PICK b \in {Blank} \cup {buf[j] : j \in {j \in Slots : place[j] = "ended"}} :
          buf' = [buf EXCEPT ![n] = b]
    BY <1>2
  <2>3. b \in Buffers
    BY <2>1
  <2> HIDE DEF n
  <2> QED
    BY <1>1, <2>1, <2>2, <2>3
<1>5. /\ place' \in [Slots -> {"none", "recv", "parse", "exec", "stuck", "send", "ended"}]
      /\ place'[n] = "recv" /\ \A j \in Slots : j # n => place'[j] = place[j]
  BY <1>0, <1>1, <1>2 DEF TypeOK
<1>6. /\ status' \in [Peers -> {"idle", "waiting", "open", "refused", "closed", "reset"}]
      /\ \A q \in Peers : q # p => status'[q] = status[q]
      /\ p \in Peers => status'[p] = "open"
  BY <1>0 DEF TypeOK
<1>7. n > Len(clients) /\ DOMAIN clients = 1..Len(clients) /\ DOMAIN clients' = 1..n
      /\ \A j \in 1..n : j \in 1..Len(clients) \/ j = n
  BY <1>1, <1>3
<1>8. place[n] = "none" /\ executed[n] = <<>> /\ answers[n] = 0
  BY <1>1, <1>7 DEF IInv, SlotsInOrder
<1> HIDE DEF n
<1>9. TypeOK'
  BY <1>0, <1>1, <1>2, <1>3, <1>4, <1>5, <1>6 DEF TypeOK, Buffers
<1>10. SlotsInOrder'
  <2>1. \A j \in Slots : j > n <=> j > Len(clients) /\ j # n
    BY <1>1 DEF n, Slots
  <2>2. \A j \in Slots : place[j] \in {"parse", "exec", "send"} => j \in 1..Len(clients)
    BY <1>7, SlotOf
  <2> QED
    BY <1>2, <1>3, <1>5, <2>1, <2>2 DEF IInv, SlotsInOrder
<1>11. p \in Peers => sent[p] = <<>> /\ stream[p] = <<>> /\ \A j \in DOMAIN clients : clients[j] # p
  BY DEF IInv, QuietPeers
<1>12. OwnSlots'
  <2>2. ASSUME NEW i \in 1..n, NEW j \in 1..n, i # j
        PROVE  clients'[i] # clients'[j] \/ clients'[i] = Stdin
    <3>1. CASE i = n
      BY <1>3, <1>7, <1>11, <2>2, <3>1
    <3>2. CASE j = n
      BY <1>3, <1>7, <1>11, <2>2, <3>2
    <3>3. CASE i # n /\ j # n
      BY <1>3, <1>7, <2>2, <3>3 DEF IInv, OwnSlots
    <3> QED
      BY <3>1, <3>2, <3>3
  <2> QED
    BY <1>7, <2>2 DEF OwnSlots
<1>13. QuietPeers'
  BY <1>2, <1>3, <1>6, <1>7 DEF IInv, QuietPeers
<1>14. AnswerEach'
  BY <1>2, <1>5, <1>8 DEF IInv, AnswerEach
<1>15. WholeServed'
  <2> SUFFICES ASSUME NEW j \in 1..n, clients'[j] \in Peers, whole'[j]
               PROVE  Served(j, clients[j])'
    BY <1>7 DEF WholeServed
  <2>1. PICK q \in Peers : q = clients'[j]
    OBVIOUS
  <2>2. CASE j # n
    <3>1. j \in DOMAIN clients /\ j \in Slots /\ clients[j] = q
      BY <1>3, <1>7, <2>1, <2>2, SlotOf
    <3>2. Served(j, q)
      BY <1>2, <3>1 DEF IInv, WholeServed
    <3>3. q # p
      BY <1>11, <3>1
    <3>4. Served(j, q)'
      BY <1>2, <1>4, <1>5, <1>6, <2>2, <3>1, <3>2, <3>3, ServedFrame
    <3> QED
      BY <2>1, <3>4 DEF Served, Taken
  <2>3. CASE j = n
    <3>1. q = p /\ sent'[q] = <<>> /\ stream'[q] = <<>>
      BY <1>2, <1>3, <1>11, <2>1, <2>3
    <3>2. place'[j] = "recv" /\ executed'[j] = <<>>
      BY <1>2, <1>5, <1>8, <2>3
    <3>3. Len(<<>>) = 0 /\ 1..0 = {}
      OBVIOUS
    <3>4. Taken(j)' = 0
      BY <3>2, <3>3 DEF Taken
    <3>5. Served(j, q)'
      BY <3>1, <3>2, <3>3, <3>4, SpellsEmpty DEF Served
    <3> QED
      BY <2>1, <3>5 DEF Served, Taken
  <2> QED
    BY <2>2, <2>3
<1>16. BrokenOnlyByInput'
  BY <1>2 DEF BrokenOnlyByInput
<1> QED
  BY <1>9, <1>10, <1>12, <1>13, <1>14, <1>15, <1>16 DEF IInv

(* A connection is accepted or refused (bworker.c:37-46). *)
LEMMA AcceptStep ==
  ASSUME IInv, NEW p \in Peers, Accept(p)
  PROVE  IInv'
<1>0. TypeOK /\ proc = "running" /\ status[p] = "waiting"
  BY DEF IInv, Accept, Running
<1>1. CASE ~ Full
  BY <1>0, <1>1, StartStep DEF Accept
<1>2. CASE Full
  <2>1. /\ status' = [status EXCEPT ![p] = "refused"]
        /\ UNCHANGED <<proc, clients, sent, stream, place, buf, argv, executed, answers, whole>>
    BY <1>2 DEF Accept, threadVars
  <2>2. status'[p] = "refused" /\ \A q \in Peers : q # p => status'[q] = status[q]
    BY <1>0, <2>1 DEF TypeOK
  <2>3. TypeOK' /\ SlotsInOrder' /\ AnswerEach'
    BY <1>0, <2>1 DEF IInv, TypeOK, SlotsInOrder, AnswerEach
  <2>4. OwnSlots' /\ QuietPeers'
    BY <1>0, <1>2, <2>1, <2>2 DEF IInv, OwnSlots, QuietPeers, Full
  <2>5. WholeServed'
    <3> SUFFICES ASSUME NEW j \in DOMAIN clients, clients[j] \in Peers, whole[j]
                 PROVE  Served(j, clients[j])'
      BY <2>1 DEF WholeServed
    <3>1. PICK q \in Peers : q = clients[j]
      OBVIOUS
    <3>2. Served(j, q) /\ j \in Slots
      BY <3>1, SlotOf DEF IInv, WholeServed
    <3>3. Served(j, q)'
      BY <1>0, <2>1, <2>2, <3>2, ServedFrame
    <3> QED
      BY <2>1, <3>1, <3>3 DEF Served, Taken
  <2>6. BrokenOnlyByInput'
    BY <1>0, <2>1 DEF BrokenOnlyByInput
  <2> QED
    BY <2>3, <2>4, <2>5, <2>6 DEF IInv
<1> QED
  BY <1>1, <1>2

(* accept() is interrupted (net.c:54-56). *)
LEMMA AcceptInterruptedStep ==
  ASSUME IInv, AcceptInterrupted
  PROVE  IInv'
BY StartStep, ConnectionAssumption DEF AcceptInterrupted, Running

-----------------------------------------------------------------------------
(* A connection thread.                                                    *)

(* A thread touches its own connection and the stream of its own peer
   (bworker.c:13-26). *)
LEMMA OthersServed ==
  ASSUME IInv, NEW i \in DOMAIN clients, NEW p \in Peers, clients[i] = p,
         UNCHANGED <<clients, sent>>,
         \A j \in Slots : j # i =>
           /\ place'[j] = place[j] /\ buf'[j] = buf[j] /\ argv'[j] = argv[j]
           /\ executed'[j] = executed[j] /\ whole'[j] = whole[j],
         \A q \in Peers : q # p => stream'[q] = stream[q] /\ status'[q] = status[q],
         whole'[i] => Served(i, p)'
  PROVE  WholeServed'
<1> SUFFICES ASSUME NEW j \in DOMAIN clients, clients[j] \in Peers, whole'[j]
             PROVE  Served(j, clients[j])'
  BY DEF WholeServed
<1>1. PICK q \in Peers : q = clients[j]
  OBVIOUS
<1>2. CASE j = i
  BY <1>1, <1>2 DEF Served, Taken
<1>3. CASE j # i
  <2>1. q # p
    BY <1>1, <1>3, ConnectionAssumption DEF IInv, OwnSlots
  <2>2. j \in Slots /\ whole[j]
    BY <1>3, SlotOf
  <2>3. Served(j, q)
    BY <1>1, <2>2 DEF IInv, WholeServed
  <2>4. Served(j, q)'
    BY <1>3, <2>1, <2>2, <2>3, ServedFrame
  <2> QED
    BY <1>1, <2>4 DEF Served, Taken
<1> QED
  BY <1>2, <1>3

(* A thread that moves from one place to another, its peer's status the same
   (bworker.c:13-26). *)
LEMMA MoveStep ==
  ASSUME IInv, proc' = "running", NEW i \in DOMAIN clients, clients[i] \in Peers,
         UNCHANGED <<clients, sent, status>>,
         place' \in [Slots -> {"none", "recv", "parse", "exec", "stuck", "send", "ended"}],
         place'[i] # "none",
         \A j \in Slots : j # i =>
           place'[j] = place[j] /\ executed'[j] = executed[j] /\ answers'[j] = answers[j],
         \A q \in Peers : stream[q] = <<>> => stream'[q] = <<>>
  PROVE  SlotsInOrder' /\ OwnSlots' /\ QuietPeers' /\ BrokenOnlyByInput'
<1>1. i \in Slots /\ ~ (i > Len(clients))
  BY SlotOf
<1>2. SlotsInOrder'
  BY <1>1 DEF IInv, SlotsInOrder
<1>3. OwnSlots' /\ QuietPeers'
  BY DEF IInv, OwnSlots, QuietPeers
<1>4. BrokenOnlyByInput'
  BY DEF BrokenOnlyByInput
<1> QED
  BY <1>2, <1>3, <1>4

(* read() takes the first cells that have arrived (net.c:70). *)
LEMMA RecvStep ==
  ASSUME IInv, NEW i \in Slots, NEW m \in 1..BufLen, Recv(i, m)
  PROVE  IInv'
<1>0. TypeOK /\ proc = "running" /\ place[i] = "recv" /\ clients[i] \in Peers
  BY DEF IInv, Recv, At, Running
<1>1. PICK p \in Peers : p = clients[i]
  BY <1>0
<1>2. i \in DOMAIN clients
  BY <1>0, SlotOf
<1> DEFINE s == SubSeq(stream[p], 1, m)
           t == SubSeq(stream[p], m + 1, Len(stream[p]))
<1>3. /\ m \in 1..Len(stream[p])
      /\ buf' = [buf EXCEPT ![i] = Over(buf[i], s)]
      /\ stream' = [stream EXCEPT ![p] = t]
      /\ whole' = [whole EXCEPT ![i] =
           whole[i] /\ Len(executed[i]) < Len(sent[p])
             /\ m = Len(Cells(sent[p][Len(executed[i]) + 1]))]
      /\ place' = [place EXCEPT ![i] = "parse"]
      /\ UNCHANGED <<proc, clients, status, sent, argv, executed, answers>>
  BY <1>1 DEF Recv
<1>4. stream[p] \in Seq(0..3 \cup Words) /\ buf[i] \in Buffers
  BY <1>0 DEF TypeOK, Buffers
<1>5. /\ s \in Seq(0..3 \cup Words) /\ s \in Seq(0..3 \cup Words \cup {Junk})
      /\ Len(s) = m /\ \A c \in 1..m : s[c] = stream[p][c]
  <2> DEFINE S == 0..3 \cup Words
             q == stream[p]
  <2>1. q \in Seq(S) /\ m \in 1..Len(q)
    BY <1>3, <1>4
  <2> HIDE DEF S, q
  <2>2. \A c \in 1..m : q[c] \in S
    BY <2>1
  <2>3. m - 1 + 1 = m /\ \A c \in 1..m : 1 + c - 1 = c
    OBVIOUS
  <2>4. /\ SubSeq(q, 1, m) \in Seq(S) /\ Len(SubSeq(q, 1, m)) = IF 1 <= m THEN m - 1 + 1 ELSE 0
        /\ \A c \in 1..(m - 1 + 1) : SubSeq(q, 1, m)[c] = q[1 + c - 1]
    BY <2>2, SubSeqProperties
  <2>5. SubSeq(q, 1, m) \in Seq(S) /\ Len(SubSeq(q, 1, m)) = m /\ \A c \in 1..m : SubSeq(q, 1, m)[c] = q[c]
    BY <2>3, <2>4
  <2>6. SubSeq(q, 1, m) \in Seq(S \cup {Junk})
    BY <2>5
  <2> QED
    BY <2>5, <2>6 DEF S, q
<1>6. t \in Seq(0..3 \cup Words)
  <2>1. \A c \in (m + 1)..Len(stream[p]) : stream[p][c] \in 0..3 \cup Words
    BY <1>4
  <2> QED
    BY <1>4, <2>1, SubSeqProperties
<1> HIDE DEF s, t
<1>7. /\ stream' \in [Peers -> Seq(0..3 \cup Words)] /\ stream'[p] = t
      /\ \A q \in Peers : q # p => stream'[q] = stream[q]
  BY <1>0, <1>3, <1>6 DEF TypeOK
<1>8. Over(buf[i], s) \in Buffers
  BY <1>4, <1>5, OverBuffer
<1>9. /\ buf' \in [Slots -> Buffers] /\ buf'[i] = Over(buf[i], s)
      /\ \A j \in Slots : j # i => buf'[j] = buf[j]
  BY <1>0, <1>3, <1>8 DEF TypeOK, Buffers
<1>10. /\ place' \in [Slots -> {"none", "recv", "parse", "exec", "stuck", "send", "ended"}]
       /\ place'[i] = "parse" /\ \A j \in Slots : j # i => place'[j] = place[j]
  BY <1>0, <1>3 DEF TypeOK
<1>11. /\ whole' \in [Slots -> BOOLEAN] /\ \A j \in Slots : j # i => whole'[j] = whole[j]
       /\ whole'[i] => /\ whole[i] /\ Len(executed[i]) < Len(sent[p])
                       /\ m = Len(Cells(sent[p][Len(executed[i]) + 1]))
  BY <1>0, <1>3, Zenon DEF TypeOK
<1>12. TypeOK'
  BY <1>0, <1>3, <1>7, <1>9, <1>10, <1>11 DEF TypeOK, Buffers
<1>13. SlotsInOrder' /\ OwnSlots' /\ QuietPeers' /\ BrokenOnlyByInput'
  <2>1. \A q \in Peers : stream[q] = <<>> => stream'[q] = <<>>
    <3>1. stream[p] # <<>>
      BY <1>3
    <3> QED
      BY <1>7, <3>1
  <2> QED
    BY <1>0, <1>2, <1>3, <1>10, <2>1, MoveStep
<1>14. AnswerEach'
  BY <1>0, <1>3, <1>10 DEF IInv, AnswerEach
<1>15. ASSUME whole'[i] PROVE Served(i, p)'
  <2> DEFINE n == Len(executed[i])
             r == sent[p][n + 1]
  <2>1. whole[i] /\ n < Len(sent[p]) /\ m = Len(Cells(r))
    BY <1>11, <1>15
  <2>2. Served(i, p)
    BY <1>1, <1>2, <2>1 DEF IInv, WholeServed
  <2>3. n \in Nat /\ sent[p] \in Seq(Requests) /\ n + 1 \in 1..Len(sent[p])
    BY <1>0, <2>1 DEF TypeOK
  <2>4. Taken(i) = n /\ Taken(i)' = n + 1
    BY <1>0, <1>3, <1>10, <2>3 DEF Taken
  <2>5. r \in Requests
    BY <2>3
  <2> HIDE DEF n
  <2>6. CASE status[p] # "reset"
    <3>1. Spells(stream[p], sent[p], n)
      BY <2>2, <2>4, <2>6 DEF Served
    <3>2. /\ \A c \in 1..Len(Cells(r)) : stream[p][c] = Cells(r)[c]
          /\ Spells(SubSeq(stream[p], Len(Cells(r)) + 1, Len(stream[p])), sent[p], n + 1)
      BY <1>4, <2>1, <2>3, <3>1, SpellsDrop
    <3>3. Spells(t, sent[p], n + 1)
      BY <2>1, <3>2 DEF t
    <3>4. Holds(Over(buf[i], s), r)
      <4>1. Len(s) = Len(Cells(r)) /\ \A c \in 1..Len(Cells(r)) : s[c] = Cells(r)[c]
        BY <1>5, <2>1, <3>2
      <4> HIDE DEF r
      <4> QED
        BY <1>4, <1>5, <2>5, <4>1, OverHolds
    <3>5. n + 1 <= Len(sent[p]) /\ \A j \in 1..n : executed[i][j] = sent[p][j]
      BY <2>2, <2>3 DEF Served, n
    <3> QED
      BY <1>3, <1>7, <1>9, <1>10, <2>4, <3>3, <3>4, <3>5 DEF Served, n
  <2>7. CASE status[p] = "reset"
    <3>1. stream[p] = <<>>
      BY <2>7 DEF IInv, QuietPeers
    <3> QED
      BY <1>3, <3>1
  <2> QED
    BY <2>6, <2>7
<1>16. WholeServed'
  BY <1>1, <1>2, <1>3, <1>7, <1>9, <1>10, <1>11, <1>15, OthersServed
<1> QED
  BY <1>12, <1>13, <1>14, <1>16 DEF IInv

(* read() fails: the thread goes on with what the buffer holds
   (bworker.c:14-15, net.c:71). *)
LEMMA RecvErrorStep ==
  ASSUME IInv, NEW i \in Slots, RecvError(i)
  PROVE  IInv'
<1>0. /\ TypeOK /\ proc = "running" /\ place[i] = "recv" /\ clients[i] \in Peers
      /\ status[clients[i]] = "reset"
  BY DEF IInv, RecvError, At, Running
<1>1. PICK p \in Peers : p = clients[i]
  BY <1>0
<1>2. i \in DOMAIN clients
  BY <1>0, SlotOf
<1>3. /\ status' = [status EXCEPT ![p] = "closed"]
      /\ whole' = [whole EXCEPT ![i] = FALSE]
      /\ place' = [place EXCEPT ![i] = "parse"]
      /\ UNCHANGED <<proc, clients, sent, stream, buf, argv, executed, answers>>
  BY <1>1 DEF RecvError
<1>4. status'[p] = "closed" /\ \A q \in Peers : q # p => status'[q] = status[q]
  BY <1>0, <1>3 DEF TypeOK
<1>5. /\ place' \in [Slots -> {"none", "recv", "parse", "exec", "stuck", "send", "ended"}]
      /\ place'[i] = "parse" /\ \A j \in Slots : j # i => place'[j] = place[j]
  BY <1>0, <1>3 DEF TypeOK
<1>6. /\ whole' \in [Slots -> BOOLEAN] /\ ~ whole'[i]
      /\ \A j \in Slots : j # i => whole'[j] = whole[j]
  BY <1>0, <1>3, Zenon DEF TypeOK
<1>7. TypeOK'
  BY <1>0, <1>3, <1>5, <1>6 DEF TypeOK
<1>8. SlotsInOrder' /\ AnswerEach'
  BY <1>0, <1>3, <1>5 DEF IInv, SlotsInOrder, AnswerEach
<1>9. OwnSlots' /\ QuietPeers'
  BY <1>0, <1>3, <1>4 DEF IInv, OwnSlots, QuietPeers
<1>10. BrokenOnlyByInput'
  BY <1>0, <1>3 DEF BrokenOnlyByInput
<1>11. WholeServed'
  <2>1. whole'[i] => Served(i, p)'
    BY <1>6
  <2>2. \A j \in Slots : j # i =>
          /\ place'[j] = place[j] /\ buf'[j] = buf[j] /\ argv'[j] = argv[j]
          /\ executed'[j] = executed[j] /\ whole'[j] = whole[j]
    BY <1>3, <1>5, <1>6, Zenon
  <2>3. \A q \in Peers : q # p => stream'[q] = stream[q] /\ status'[q] = status[q]
    BY <1>3, <1>4
  <2>4. UNCHANGED <<clients, sent>> /\ clients[i] = p
    BY <1>1, <1>3
  <2> QED
    BY <1>2, <2>1, <2>2, <2>3, <2>4, OthersServed
<1> QED
  BY <1>7, <1>8, <1>9, <1>10, <1>11 DEF IInv

(* End of stream (bworker.c:15-20). *)
LEMMA RecvEndStep ==
  ASSUME IInv, NEW i \in Slots, RecvEnd(i)
  PROVE  IInv'
<1>0. TypeOK /\ proc = "running" /\ place[i] = "recv" /\ clients[i] \in Peers
  BY DEF IInv, RecvEnd, At, Running
<1>1. PICK p \in Peers : p = clients[i]
  BY <1>0
<1>2. i \in DOMAIN clients
  BY <1>0, SlotOf
<1>3. /\ place' = [place EXCEPT ![i] = "ended"]
      /\ UNCHANGED <<proc, clients, status, sent, stream, buf, argv, executed, answers, whole>>
  BY DEF RecvEnd, peerVars
<1>4. /\ place' \in [Slots -> {"none", "recv", "parse", "exec", "stuck", "send", "ended"}]
      /\ place'[i] = "ended" /\ \A j \in Slots : j # i => place'[j] = place[j]
  BY <1>0, <1>3 DEF TypeOK
<1>5. TypeOK'
  BY <1>0, <1>3, <1>4 DEF TypeOK
<1>6. SlotsInOrder' /\ OwnSlots' /\ QuietPeers' /\ BrokenOnlyByInput'
  BY <1>0, <1>2, <1>3, <1>4, MoveStep
<1>7. AnswerEach'
  BY <1>0, <1>3, <1>4 DEF IInv, AnswerEach
<1>8. whole'[i] => Served(i, p)'
  <2> SUFFICES ASSUME whole'[i] PROVE Served(i, p)'
    OBVIOUS
  <2>1. Served(i, p)
    BY <1>1, <1>2, <1>3 DEF IInv, WholeServed
  <2>2. Taken(i)' = Taken(i)
    BY <1>0, <1>3, <1>4 DEF Taken
  <2> QED
    BY <1>3, <1>4, <2>1, <2>2 DEF Served
<1>9. WholeServed'
  BY <1>1, <1>2, <1>3, <1>4, <1>8, OthersServed
<1> QED
  BY <1>5, <1>6, <1>7, <1>9 DEF IInv

(* parsingMessage (util.c:247-280). *)
LEMMA ParseStep ==
  ASSUME IInv, NEW i \in Slots, Parse(i)
  PROVE  IInv'
<1>0. TypeOK /\ proc = "running" /\ place[i] = "parse" /\ clients[i] \in Peers
  BY DEF IInv, Parse, At, Running, SlotsInOrder
<1>1. PICK p \in Peers : p = clients[i]
  BY <1>0
<1>2. i \in DOMAIN clients
  BY <1>0, SlotOf
<1>3. /\ argv' = [argv EXCEPT ![i] = Parsed(buf[i], argv[i])]
      /\ place' = [place EXCEPT ![i] = "exec"]
      /\ UNCHANGED <<proc, clients, status, sent, stream, buf, executed, answers, whole>>
  BY DEF Parse, peerVars
<1>4. buf[i] \in Buffers /\ argv[i] \in Seq(Words)
  BY <1>0 DEF TypeOK, Buffers
<1>5. Parsed(buf[i], argv[i]) \in Seq(Words)
  BY <1>4, ParsedWords
<1>6. /\ argv' \in [Slots -> Seq(Words)] /\ argv'[i] = Parsed(buf[i], argv[i])
      /\ \A j \in Slots : j # i => argv'[j] = argv[j]
  BY <1>0, <1>3, <1>5 DEF TypeOK
<1>7. /\ place' \in [Slots -> {"none", "recv", "parse", "exec", "stuck", "send", "ended"}]
      /\ place'[i] = "exec" /\ \A j \in Slots : j # i => place'[j] = place[j]
  BY <1>0, <1>3 DEF TypeOK
<1>8. TypeOK'
  BY <1>0, <1>3, <1>6, <1>7 DEF TypeOK
<1>9. SlotsInOrder' /\ OwnSlots' /\ QuietPeers' /\ BrokenOnlyByInput'
  BY <1>0, <1>2, <1>3, <1>7, MoveStep
<1>10. AnswerEach'
  BY <1>0, <1>3, <1>7 DEF IInv, AnswerEach
<1>11. whole'[i] => Served(i, p)'
  <2> SUFFICES ASSUME whole'[i] PROVE Served(i, p)'
    OBVIOUS
  <2> DEFINE n == Len(executed[i])
  <2>1. Served(i, p)
    BY <1>1, <1>2, <1>3 DEF IInv, WholeServed
  <2>2. Taken(i)' = Taken(i) /\ Taken(i) = n + 1 /\ n \in Nat
    BY <1>0, <1>3, <1>7 DEF Taken, TypeOK
  <2> HIDE DEF n
  <2>3. sent[p] \in Seq(Requests) /\ n + 1 \in 1..Len(sent[p])
    BY <1>0, <2>1, <2>2 DEF Served, TypeOK
  <2>4. Holds(buf[i], sent[p][n + 1]) /\ sent[p][n + 1] \in Requests
    BY <1>0, <2>1, <2>3 DEF Served, n
  <2>5. argv'[i] = sent[p][n + 1]
    BY <1>4, <1>6, <2>4, ParsedRequest
  <2> QED
    BY <1>3, <1>7, <2>1, <2>2, <2>5 DEF Served, n
<1>12. WholeServed'
  BY <1>1, <1>2, <1>3, <1>6, <1>7, <1>11, OthersServed
<1> QED
  BY <1>8, <1>9, <1>10, <1>12 DEF IInv

(* processCMD and the frees (bworker.c:22-24). *)
LEMMA ExecStep ==
  ASSUME IInv, NEW i \in Slots, Exec(i)
  PROVE  IInv'
<1>0. TypeOK /\ proc = "running" /\ place[i] = "exec" /\ clients[i] \in Peers
  BY DEF IInv, Exec, At, Running, SlotsInOrder
<1>1. PICK p \in Peers : p = clients[i]
  BY <1>0
<1>2. i \in DOMAIN clients
  BY <1>0, SlotOf
<1> DEFINE n == Len(executed[i])
<1>3. n \in Nat /\ executed[i] \in Seq(Seq(Words)) /\ argv[i] \in Seq(Words) /\ Taken(i) = n + 1
  BY <1>0 DEF TypeOK, Taken
<1>4. ASSUME whole[i]
      PROVE  /\ n + 1 \in 1..Len(sent[p]) /\ argv[i] = sent[p][n + 1] /\ sent[p][n + 1] \in Requests
             /\ \A j \in 1..n : executed[i][j] = sent[p][j]
             /\ status[p] # "reset" => Spells(stream[p], sent[p], n + 1)
  <2>1. Served(i, p)
    BY <1>1, <1>2, <1>4 DEF IInv, WholeServed
  <2>2. sent[p] \in Seq(Requests)
    BY <1>0 DEF TypeOK
  <2>3. n + 1 \in 1..Len(sent[p])
    BY <1>3, <2>1, <2>2 DEF Served
  <2> HIDE DEF n
  <2> QED
    BY <1>0, <1>3, <2>1, <2>2, <2>3 DEF Served, n
<1> HIDE DEF n
<1>5. CASE Len(argv[i]) < Used(argv[i]) /\ Crash("undefined")
  <2>1. ~ whole[i] \/ \E j \in DOMAIN sent[p] : Len(sent[p][j]) < Used(sent[p][j])
    <3> SUFFICES ASSUME whole[i] PROVE \E j \in DOMAIN sent[p] : Len(sent[p][j]) < Used(sent[p][j])
      OBVIOUS
    <3>1. PICK r \in Requests : r = argv[i]
      BY <1>4
    <3>3. Len(r) < Used(r)
      BY <1>5, <3>1
    <3>4. n + 1 \in DOMAIN sent[p] /\ sent[p][n + 1] = r
      <4>1. sent[p] \in Seq(Requests)
        BY <1>0 DEF TypeOK
      <4> QED
        BY <1>4, <3>1, <4>1
    <3> QED
      BY <3>3, <3>4
  <2> QED
    BY <1>1, <1>2, <1>5, <2>1, FrozenStep DEF Crash
<1>a. CASE /\ place' = [place EXCEPT ![i] = "stuck"]
           /\ UNCHANGED <<proc, clients, peerVars, buf, argv, executed, answers, whole>>
  <2> USE DEF peerVars
  <2>1. /\ place' \in [Slots -> {"none", "recv", "parse", "exec", "stuck", "send", "ended"}]
        /\ place'[i] = "stuck" /\ \A j \in Slots : j # i => place'[j] = place[j]
    BY <1>0, <1>a DEF TypeOK
  <2>2. TypeOK'
    BY <1>0, <1>a, <2>1 DEF TypeOK
  <2>3. SlotsInOrder' /\ OwnSlots' /\ QuietPeers' /\ BrokenOnlyByInput'
    BY <1>0, <1>2, <1>a, <2>1, MoveStep
  <2>4. AnswerEach'
    BY <1>0, <1>a, <2>1 DEF IInv, AnswerEach
  <2>5. whole'[i] => Served(i, p)'
    <3> SUFFICES ASSUME whole[i] PROVE Served(i, p)'
      BY <1>a
    <3>1. Served(i, p)
      BY <1>1, <1>2 DEF IInv, WholeServed
    <3>2. Taken(i)' = Taken(i)
      BY <1>0, <1>a, <2>1 DEF Taken
    <3> QED
      BY <1>a, <2>1, <3>1, <3>2 DEF Served
  <2>6. WholeServed'
    BY <1>1, <1>2, <1>a, <2>1, <2>5, OthersServed
  <2> QED
    BY <2>2, <2>3, <2>4, <2>6 DEF IInv
<1>6. CASE /\ executed' = [executed EXCEPT ![i] = Append(executed[i], argv[i])]
           /\ \/ \E c \in 2..BufLen : buf' = [buf EXCEPT ![i] = Over(buf[i], [j \in 1..c |-> Junk])]
              \/ buf' = buf
           /\ argv' = [argv EXCEPT ![i] = <<>>]
           /\ place' = [place EXCEPT ![i] = "send"]
           /\ UNCHANGED <<proc, clients, peerVars, answers, whole>>
  <2>1. /\ executed' = [executed EXCEPT ![i] = Append(executed[i], argv[i])]
        /\ \/ \E c \in 2..BufLen : buf' = [buf EXCEPT ![i] = Over(buf[i], [j \in 1..c |-> Junk])]
           \/ buf' = buf
        /\ argv' = [argv EXCEPT ![i] = <<>>]
        /\ place' = [place EXCEPT ![i] = "send"]
        /\ UNCHANGED <<proc, clients, status, sent, stream, answers, whole>>
    BY <1>6 DEF peerVars
  <2>2. buf' \in [Slots -> Buffers] /\ \A j \in Slots : j # i => buf'[j] = buf[j]
    <3>1. buf \in [Slots -> Buffers]
      BY <1>0 DEF TypeOK, Buffers
    <3>2. CASE buf' = buf
      BY <3>1, <3>2
    <3>3. CASE \E c \in 2..BufLen : buf' = [buf EXCEPT ![i] = Over(buf[i], [j \in 1..c |-> Junk])]
      <4>1. PICK c \in 2..BufLen : buf' = [buf EXCEPT ![i] = Over(buf[i], [j \in 1..c |-> Junk])]
        BY <3>3
      <4> DEFINE x == [j \in 1..c |-> Junk]
      <4>2. x \in Seq(0..3 \cup Words \cup {Junk})
        <5>1. c \in Nat
          BY DEF BufLen
        <5> QED
          BY <5>1
      <4> HIDE DEF x
      <4>3. Over(buf[i], x) \in Buffers
        BY <3>1, <4>2, OverBuffer
      <4> QED
        BY <3>1, <4>1, <4>3 DEF x
    <3> QED
      BY <2>1, <3>2, <3>3
  <2>3. /\ executed' \in [Slots -> Seq(Seq(Words))] /\ executed'[i] = Append(executed[i], argv[i])
        /\ \A j \in Slots : j # i => executed'[j] = executed[j]
    <3>1. Append(executed[i], argv[i]) \in Seq(Seq(Words))
      BY <1>3
    <3> QED
      BY <1>0, <2>1, <3>1 DEF TypeOK
  <2>4. /\ argv' \in [Slots -> Seq(Words)] /\ \A j \in Slots : j # i => argv'[j] = argv[j]
    <3>1. <<>> \in Seq(Words)
      BY EmptySeq
    <3> QED
      BY <1>0, <2>1, <3>1 DEF TypeOK
  <2>5. /\ place' \in [Slots -> {"none", "recv", "parse", "exec", "stuck", "send", "ended"}]
        /\ place'[i] = "send" /\ \A j \in Slots : j # i => place'[j] = place[j]
    BY <1>0, <2>1 DEF TypeOK
  <2>6. TypeOK'
    BY <1>0, <2>1, <2>2, <2>3, <2>4, <2>5 DEF TypeOK, Buffers
  <2>7. SlotsInOrder' /\ OwnSlots' /\ QuietPeers' /\ BrokenOnlyByInput'
    BY <1>0, <1>2, <2>1, <2>3, <2>5, MoveStep
  <2>8. /\ Len(executed'[i]) = n + 1 /\ executed'[i][n + 1] = argv[i]
        /\ \A j \in 1..n : executed'[i][j] = executed[i][j]
    BY <1>3, <2>3, AppendProperties DEF n
  <2>9. AnswerEach'
    <3>1. answers[i] = n
      <4>1. answers[i] = n - (IF place[i] = "send" THEN 1 ELSE 0)
        BY DEF IInv, AnswerEach, n
      <4> QED
        BY <1>0, <1>3, <4>1
    <3>2. answers'[i] = Len(executed'[i]) - 1
      BY <1>3, <2>1, <2>8, <3>1
    <3>3. ASSUME NEW j \in Slots, j # i
          PROVE  answers'[j] = Len(executed'[j]) - (IF place'[j] = "send" THEN 1 ELSE 0)
      <4>1. answers[j] = Len(executed[j]) - (IF place[j] = "send" THEN 1 ELSE 0)
        BY DEF IInv, AnswerEach
      <4>2. answers'[j] = answers[j] /\ executed'[j] = executed[j] /\ place'[j] = place[j]
        BY <2>1, <2>3, <2>5, <3>3
      <4> QED
        BY <4>1, <4>2
    <3> QED
      BY <2>5, <3>2, <3>3 DEF AnswerEach
  <2>10. whole'[i] => Served(i, p)'
    <3> SUFFICES ASSUME whole[i] PROVE Served(i, p)'
      BY <2>1
    <3>1. Taken(i)' = n + 1
      BY <1>3, <2>5, <2>8 DEF Taken
    <3>2. \A j \in 1..(n + 1) : executed'[i][j] = sent[p][j]
      <4>1. \A j \in 1..(n + 1) : j \in 1..n \/ j = n + 1
        BY <1>3
      <4> QED
        BY <1>4, <2>8, <4>1
    <3>3. n + 1 <= Len(sent[p])
      BY <1>4
    <3> QED
      BY <1>4, <2>1, <2>5, <2>8, <3>1, <3>2, <3>3 DEF Served
  <2>11. WholeServed'
    BY <1>1, <1>2, <2>1, <2>2, <2>3, <2>4, <2>5, <2>10, OthersServed
  <2> QED
    BY <2>6, <2>7, <2>9, <2>11 DEF IInv
<1> QED
  BY <1>5, <1>a, <1>6 DEF Exec

(* tcpSend (net.c:78). *)
LEMMA SendStep ==
  ASSUME IInv, NEW i \in Slots, Send(i)
  PROVE  IInv'
<1>0. TypeOK /\ proc = "running" /\ place[i] = "send" /\ clients[i] \in Peers
  BY DEF IInv, Send, At, Running, SlotsInOrder
<1>1. PICK p \in Peers : p = clients[i]
  BY <1>0
<1>2. i \in DOMAIN clients
  BY <1>0, SlotOf
<1>3. CASE Crash("killed")
  BY <1>3, FrozenStep DEF Crash
<1>4. CASE /\ answers' = [answers EXCEPT ![i] = @ + 1]
           /\ place' = [place EXCEPT ![i] = "recv"]
           /\ UNCHANGED <<proc, clients, peerVars, buf, argv, executed, whole>>
  <2> USE DEF peerVars
  <2>1. /\ place' \in [Slots -> {"none", "recv", "parse", "exec", "stuck", "send", "ended"}]
        /\ place'[i] = "recv" /\ \A j \in Slots : j # i => place'[j] = place[j]
    BY <1>0, <1>4 DEF TypeOK
  <2>2. /\ answers' \in [Slots -> Nat] /\ answers'[i] = answers[i] + 1
        /\ \A j \in Slots : j # i => answers'[j] = answers[j]
    BY <1>0, <1>4 DEF TypeOK
  <2>3. TypeOK'
    BY <1>0, <1>4, <2>1, <2>2 DEF TypeOK
  <2>4. SlotsInOrder' /\ OwnSlots' /\ QuietPeers' /\ BrokenOnlyByInput'
    BY <1>0, <1>2, <1>4, <2>1, <2>2, MoveStep
  <2>5. AnswerEach'
    <3>1. answers[i] = Len(executed[i]) - 1 /\ Len(executed[i]) \in Nat
      BY <1>0 DEF IInv, AnswerEach, TypeOK
    <3>2. answers'[i] = Len(executed'[i]) - 0
      BY <1>4, <2>2, <3>1
    <3> QED
      BY <1>4, <2>1, <2>2, <3>2 DEF IInv, AnswerEach
  <2>6. whole'[i] => Served(i, p)'
    <3> SUFFICES ASSUME whole[i] PROVE Served(i, p)'
      BY <1>4
    <3>1. Served(i, p)
      BY <1>1, <1>2 DEF IInv, WholeServed
    <3>2. Taken(i)' = Taken(i)
      BY <1>0, <1>4, <2>1 DEF Taken
    <3> QED
      BY <1>4, <2>1, <3>1, <3>2 DEF Served
  <2>7. WholeServed'
    BY <1>1, <1>2, <1>4, <2>1, <2>6, OthersServed
  <2> QED
    BY <2>3, <2>4, <2>5, <2>7 DEF IInv
<1> QED
  BY <1>3, <1>4 DEF Send

-----------------------------------------------------------------------------
(* The theorems.                                                           *)

(* Every step keeps the invariant (bworker.c:13-60). *)
LEMMA StepInv == IInv /\ [Next]_vars => IInv'
<1> SUFFICES ASSUME IInv, [Next]_vars PROVE IInv'
  OBVIOUS
<1>1. CASE UNCHANGED vars
  <2>1. UNCHANGED <<clients, peerVars, threadVars>> /\ proc' = proc
    BY <1>1 DEF vars
  <2>2. proc \in {"running", "killed", "undefined"}
    BY DEF IInv, TypeOK
  <2> QED
    BY <2>1, <2>2, FrozenStep
<1>2. ASSUME NEW p \in Peers,
             Connect(p) \/ Hangup(p) \/ Accept(p) \/ \E r \in Requests : Request(p, r)
      PROVE  IInv'
  BY <1>2, ConnectStep, HangupStep, AcceptStep, RequestStep
<1>3. CASE AcceptInterrupted
  BY <1>3, AcceptInterruptedStep
<1>4. ASSUME NEW i \in Slots, ThreadStep(i) PROVE IInv'
  BY <1>4, RecvStep, RecvErrorStep, RecvEndStep, ParseStep, ExecStep, SendStep DEF ThreadStep
<1> QED
  BY <1>1, <1>2, <1>3, <1>4 DEF Next

(* So it holds in every reachable state (bworker.c:13-60). *)
LEMMA Invariance == Spec => []IInv
BY InitInv, StepInv, PTL DEF Spec

(* Every variable keeps its type; argv holds words only, whatever a read has
   left in the buffer (util.c:247-280). *)
THEOREM TypeCorrect == Spec => []TypeOK
<1>1. IInv => TypeOK
  BY DEF IInv
<1> QED
  BY <1>1, Invariance, PTL

(* As long as every read takes one request, a connection executes exactly
   what its peer has sent, in order, and answers each once, however often its
   buffer was used before (bworker.c:13-26, util.c:247-280). *)
THEOREM RequestsServed == Spec => []WholeRequestsServed
<1>1. IInv => WholeRequestsServed
  <2> SUFFICES ASSUME IInv, NEW i \in DOMAIN clients, clients[i] \in Peers, whole[i]
               PROVE  /\ IsPrefix(executed[i], sent[clients[i]])
                      /\ answers[i] \in {Len(executed[i]) - 1, Len(executed[i])}
    BY DEF WholeRequestsServed
  <2>1. i \in Slots
    BY SlotOf
  <2>2. Served(i, clients[i])
    BY DEF IInv, WholeServed
  <2> DEFINE a == executed[i]
             b == sent[clients[i]]
             n == Len(a)
  <2>3. a \in Seq(Seq(Words)) /\ b \in Seq(Requests)
    BY <2>1 DEF IInv, TypeOK
  <2>4. n \in Nat /\ Len(b) \in Nat
    BY <2>3
  <2>a. answers[i] = n - (IF place[i] = "send" THEN 1 ELSE 0)
    BY <2>1 DEF IInv, AnswerEach
  <2>b. /\ n + (IF place[i] \in {"parse", "exec", "stuck"} THEN 1 ELSE 0) <= Len(b)
        /\ \A j \in 1..n : a[j] = b[j]
    BY <2>2 DEF Served, Taken
  <2> HIDE DEF a, b, n
  <2>5. n <= Len(b) /\ \A j \in 1..n : a[j] = b[j]
    BY <2>4, <2>b
  <2>6. answers[i] \in {n - 1, n}
    BY <2>4, <2>a
  <2>7. SubSeq(a, 1, n) = [j \in 1..n |-> a[j]] /\ SubSeq(b, 1, n) = [j \in 1..n |-> b[j]]
    BY <2>3, <2>4, <2>5 DEF n
  <2>8. [j \in 1..n |-> a[j]] = [j \in 1..n |-> b[j]]
    BY <2>5
  <2>9. IsPrefix(a, b)
    BY <2>5, <2>7, <2>8 DEF IsPrefix, n
  <2> QED
    BY <2>6, <2>9 DEF a, b, n
<1> QED
  BY <1>1, Invariance, PTL

(* Undefined behaviour of a connection has its cause in the input: a read that
   has not taken exactly one request, or a request with fewer words than its
   command uses (bworker.c:24, command.c:41). *)
THEOREM BrokenByInput == Spec => []BrokenOnlyByInput
<1>1. IInv => BrokenOnlyByInput
  BY DEF IInv
<1> QED
  BY <1>1, Invariance, PTL
=============================================================================

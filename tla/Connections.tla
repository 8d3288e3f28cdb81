---------------------------- MODULE Connections ----------------------------
(***************************************************************************)
(* The accept thread (bworkerProcessBackgroundJobs, BPB_TCP_WORKER) and    *)
(* the connection threads (bworkerRecvJobs): from connect() to the answer. *)
(* What a command does to the store is TieredStore's; here it is a reply   *)
(* written over the request in the connection's buffer, or it never ends.  *)
(*                                                                         *)
(* A request is a header, which says how many words follow, and the words. *)
(* The buffer is a row of cells, each holding a header, a word or          *)
(* something that is neither (Junk).  One read() takes the first cells of  *)
(* what has arrived, however many, and leaves the cells behind them as     *)
(* they were; nothing terminates what was read.  parsingMessage goes by    *)
(* the cells alone.                                                        *)
(*                                                                         *)
(* proc = "undefined" is absorbing, as in TieredStore.                     *)
(***************************************************************************)
EXTENDS Integers, SequencesExt

CONSTANTS Peers,       \* the connections that clients open
          Stdin,       \* what accept() is taken to return when interrupted
          SetCmd, GetCmd, EvictCmd,   \* command words
          Key, Vals,   \* the other words
          Junk,        \* what is neither a header nor a word
          MaxClients,  \* MAX_NUM_CLIENT
          MaxSent      \* bound: requests sent

Words == {SetCmd, GetCmd, EvictCmd, Key} \cup Vals
BufLen == 4   \* the longest request

ASSUME ConnectionAssumption ==
  /\ Stdin \notin Peers /\ Junk \notin Words
  /\ SetCmd \notin {GetCmd, EvictCmd} /\ GetCmd # EvictCmd
  /\ MaxClients \in Nat \ {0} /\ MaxSent \in Nat

(* Requests of each length, whether their command can do with it or not. *)
Requests ==
  {<<SetCmd, Key, v>> : v \in Vals}
    \cup {<<>>, <<EvictCmd>>, <<EvictCmd, Key>>, <<GetCmd, Key>>, <<SetCmd, Key>>}

Cells(r) == <<Len(r)>> \o r

Slots == 1..MaxClients

VARIABLES
  proc,     \* "running", "killed" or "undefined"
  status,   \* each peer: "idle", "waiting", "open", "refused", "closed" or "reset"
  sent,     \* the requests each peer has sent
  stream,   \* the cells of them that have not been read
  clients,  \* server.clients: the peers in the order of their acceptance
  place,    \* where each connection thread is
  buf,      \* querybuf of each connection
  argv,     \* the words of argv that can be used
  executed, \* the requests that each connection has executed
  answers,  \* how many answers it has sent
  whole     \* every read so far has taken exactly one request

peerVars == <<status, sent, stream>>
threadVars == <<place, buf, argv, executed, answers, whole>>
vars == <<proc, clients, peerVars, threadVars>>

Blank == [j \in 1..BufLen |-> Junk]

Init ==
  /\ proc = "running"
  /\ status = [p \in Peers |-> "idle"]
  /\ sent = [p \in Peers |-> <<>>] /\ stream = [p \in Peers |-> <<>>]
  /\ clients = <<>>
  /\ place = [i \in Slots |-> "none"]
  /\ buf = [i \in Slots |-> Blank]
  /\ argv = [i \in Slots |-> <<>>]
  /\ executed = [i \in Slots |-> <<>>] /\ answers = [i \in Slots |-> 0]
  /\ whole = [i \in Slots |-> TRUE]

Running == proc = "running"
At(i, label) == Running /\ place[i] = label

Crash(how) == proc' = how /\ UNCHANGED <<clients, peerVars, threadVars>>

-----------------------------------------------------------------------------
(* The peers.  They need not wait for an answer before they go on.         *)

Connect(p) ==
  /\ Running /\ status[p] = "idle"
  /\ status' = [status EXCEPT ![p] = "waiting"]
  /\ UNCHANGED <<proc, clients, sent, stream, threadVars>>

SentTotal == FoldFunction(LAMBDA s, n : Len(s) + n, 0, sent)

Request(p, r) ==
  /\ Running /\ status[p] = "open" /\ SentTotal < MaxSent
  /\ sent' = [sent EXCEPT ![p] = Append(@, r)]
  /\ stream' = [stream EXCEPT ![p] = @ \o Cells(r)]
  /\ UNCHANGED <<proc, clients, status, threadVars>>

(* A peer ends its connection, or it is reset and what was on its way lost. *)
Hangup(p) ==
  /\ Running /\ status[p] = "open"
  /\ \/ status' = [status EXCEPT ![p] = "closed"] /\ UNCHANGED stream
     \/ /\ status' = [status EXCEPT ![p] = "reset"]
        /\ stream' = [stream EXCEPT ![p] = <<>>]
  /\ UNCHANGED <<proc, clients, sent, threadVars>>

-----------------------------------------------------------------------------
(* The accept thread.                                                      *)

(* Fault: the limit is one too high. *)
FullLate == Len(clients) > MaxClients

(* num_client only ever grows. *)
Full == Len(clients) = MaxClients

(* A slot, a thread, and a buffer from malloc, which may hold what the
   buffer of a connection that has ended held. *)
Start(p) ==
  LET i == Len(clients) + 1
  IN  /\ clients' = Append(clients, p)
      /\ place' = [place EXCEPT ![i] = "recv"]
      /\ \E b \in {Blank} \cup {buf[j] : j \in {j \in Slots : place[j] = "ended"}} :
           buf' = [buf EXCEPT ![i] = b]
      /\ UNCHANGED <<proc, sent, stream, argv, executed, answers, whole>>

Accept(p) ==
  /\ Running /\ status[p] = "waiting"
  /\ \/ /\ Full
        /\ status' = [status EXCEPT ![p] = "refused"]
        /\ UNCHANGED <<proc, clients, sent, stream, threadVars>>
     \/ /\ ~Full
        /\ status' = [status EXCEPT ![p] = "open"]
        /\ Start(p)

(* accept() is interrupted and tcpAccept returns 0, a valid descriptor. *)
AcceptInterrupted == Running /\ ~Full /\ Start(Stdin) /\ UNCHANGED status

-----------------------------------------------------------------------------
(* A connection thread.                                                    *)

(* What is written over the front of a buffer. *)
Over(b, s) == [j \in 1..BufLen |-> IF j <= Len(s) THEN s[j] ELSE b[j]]

(* tcpRecv of m cells; a read longer than the buffer does not happen. *)
Recv(i, m) ==
  LET p == clients[i]
  IN  /\ At(i, "recv") /\ p \in Peers
      /\ m \in 1..Len(stream[p]) /\ m <= BufLen
      /\ buf' = [buf EXCEPT ![i] = Over(@, SubSeq(stream[p], 1, m))]
      /\ stream' = [stream EXCEPT ![p] = SubSeq(@, m + 1, Len(@))]
      /\ whole' = [whole EXCEPT ![i] =
           @ /\ Len(executed[i]) < Len(sent[p])
             /\ m = Len(Cells(sent[p][Len(executed[i]) + 1]))]
      /\ place' = [place EXCEPT ![i] = "parse"]
      /\ UNCHANGED <<proc, clients, status, sent, argv, executed, answers>>

(* read() reports a reset once, then the end of the stream: the thread goes
   on with what the buffer holds. *)
RecvError(i) ==
  /\ At(i, "recv") /\ clients[i] \in Peers /\ status[clients[i]] = "reset"
  /\ status' = [status EXCEPT ![clients[i]] = "closed"]
  /\ whole' = [whole EXCEPT ![i] = FALSE]
  /\ place' = [place EXCEPT ![i] = "parse"]
  /\ UNCHANGED <<proc, clients, sent, stream, buf, argv, executed, answers>>

(* Fault: a thread ends when its peer has closed, read or not. *)
RecvEndEarly(i) ==
  /\ At(i, "recv") /\ clients[i] \in Peers
  /\ status[clients[i]] = "closed"
  /\ place' = [place EXCEPT ![i] = "ended"]
  /\ UNCHANGED <<proc, clients, peerVars, buf, argv, executed, answers, whole>>

(* End of stream: the buffer and the client are freed; the descriptor is not
   closed and the slot not given back. *)
RecvEnd(i) ==
  /\ At(i, "recv") /\ clients[i] \in Peers
  /\ status[clients[i]] = "closed" /\ stream[clients[i]] = <<>>
  /\ place' = [place EXCEPT ![i] = "ended"]
  /\ UNCHANGED <<proc, clients, peerVars, buf, argv, executed, answers, whole>>

(* Faults: one word too few is taken; words are taken as long as there are
   any. *)
ParsedShort(b, old) ==
  IF b[1] \in 0..(BufLen - 1)
  THEN SelectSeq(SubSeq(b, 2, b[1]), LAMBDA w : w \in Words) ELSE old
ParsedAll(b, old) ==
  IF b[1] \in 0..(BufLen - 1) THEN SelectSeq(Tail(b), LAMBDA w : w \in Words) ELSE old

(* parsingMessage: what argv holds afterwards.  Without a header argv is the
   old one; else it is a new array, filled up to the first cell that is not
   a word. *)
Parsed(b, old) ==
  LET n == b[1]
      good == {j \in 0..n : \A i \in 1..j : b[i + 1] \in Words}
  IN  IF b[1] \in 0..(BufLen - 1)
      THEN SubSeq(b, 2, Max(good) + 1) ELSE old

Parse(i) ==
  /\ At(i, "parse")
  /\ argv' = [argv EXCEPT ![i] = Parsed(buf[i], @)]
  /\ place' = [place EXCEPT ![i] = "exec"]
  /\ UNCHANGED <<proc, clients, peerVars, buf, executed, answers, whole>>

(* The words of argv that a command and the two frees after it use. *)
Used(a) == IF Len(a) > 0 /\ a[1] = SetCmd THEN 3 ELSE 2

(* processCMD and the frees of argv[0] and argv[1], undefined if they are
   not there.  A command may wait for ever: for the mutex of the flash cache
   that a GET has kept, for one held by such a GET, for the queue or for the
   table to empty.  The reply covers the header, the command and possibly
   more; evict writes none.  After the frees argv holds nothing to use. *)
Exec(i) ==
  /\ At(i, "exec")
  /\ \/ Len(argv[i]) < Used(argv[i]) /\ Crash("undefined")
     \/ /\ Len(argv[i]) >= Used(argv[i])
        /\ place' = [place EXCEPT ![i] = "stuck"]
        /\ UNCHANGED <<proc, clients, peerVars, buf, argv, executed, answers, whole>>
     \/ /\ Len(argv[i]) >= Used(argv[i])
        /\ executed' = [executed EXCEPT ![i] = Append(@, argv[i])]
        /\ \/ /\ argv[i][1] # EvictCmd
              /\ \E n \in 2..BufLen :
                   buf' = [buf EXCEPT ![i] = Over(@, [j \in 1..n |-> Junk])]
           \/ argv[i][1] = EvictCmd /\ UNCHANGED buf
        /\ argv' = [argv EXCEPT ![i] = <<>>]
        /\ place' = [place EXCEPT ![i] = "send"]
        /\ UNCHANGED <<proc, clients, peerVars, answers, whole>>

(* tcpSend: once the peer has closed, write() may raise SIGPIPE, which
   nobody handles. *)
Send(i) ==
  /\ At(i, "send")
  /\ \/ /\ answers' = [answers EXCEPT ![i] = @ + 1]
        /\ place' = [place EXCEPT ![i] = "recv"]
        /\ UNCHANGED <<proc, clients, peerVars, buf, argv, executed, whole>>
     \/ status[clients[i]] \in {"closed", "reset"} /\ Crash("killed")

-----------------------------------------------------------------------------
ThreadStep(i) ==
  \/ \E m \in 1..BufLen : Recv(i, m)
  \/ RecvError(i) \/ RecvEnd(i)
  \/ Parse(i) \/ Exec(i) \/ Send(i)

Next ==
  \/ \E p \in Peers :
       \/ Connect(p) \/ Hangup(p) \/ Accept(p)
       \/ \E r \in Requests : Request(p, r)
  \/ AcceptInterrupted
  \/ \E i \in Slots : ThreadStep(i)

Spec == Init /\ [][Next]_vars

(* The threads run whenever they can; peers do as they like. *)
FairSpec ==
  /\ Spec
  /\ \A p \in Peers : WF_vars(Accept(p))
  /\ \A i \in Slots : WF_vars(ThreadStep(i))

-----------------------------------------------------------------------------
(* Properties.                                                             *)

(* The type of every variable. *)
TypeOK ==
  /\ proc \in {"running", "killed", "undefined"}
  /\ status \in [Peers -> {"idle", "waiting", "open", "refused", "closed", "reset"}]
  /\ sent \in [Peers -> Seq(Requests)] /\ stream \in [Peers -> Seq(0..3 \cup Words)]
  /\ clients \in Seq(Peers \cup {Stdin}) /\ Len(clients) <= MaxClients
  /\ place \in [Slots -> {"none", "recv", "parse", "exec", "stuck", "send", "ended"}]
  /\ buf \in [Slots -> [1..BufLen -> 0..3 \cup Words \cup {Junk}]]
  /\ argv \in [Slots -> Seq(Words)]
  /\ executed \in [Slots -> Seq(Seq(Words))]
  /\ answers \in [Slots -> Nat] /\ whole \in [Slots -> BOOLEAN]

(* As long as every read takes one request, a connection executes exactly
   what its peer has sent, in order, whatever an earlier and longer request,
   a reply or another connection has left in its buffer, and sends one
   answer for each (bworker.c:13-26, util.c:247-280). *)
WholeRequestsServed ==
  \A i \in DOMAIN clients : clients[i] \in Peers /\ whole[i] =>
    /\ IsPrefix(executed[i], sent[clients[i]])
    /\ answers[i] \in {Len(executed[i]) - 1, Len(executed[i])}

(* Only a read that does not take exactly one request, or a request with
   fewer words than its command uses, can lead to a use of argv that is
   undefined (bworker.c:24, command.c:41). *)
BrokenOnlyByInput ==
  proc = "undefined" =>
    \E i \in DOMAIN clients : clients[i] \in Peers /\
      \/ ~whole[i]
      \/ \E j \in DOMAIN sent[clients[i]] : Len(sent[clients[i]][j]) < Used(sent[clients[i]][j])

(* Every request of a connection is answered, if each read takes one request,
   its command ends and the process lives (bworker.c:13-26). *)
WholeRequestsAnswered ==
  \A i \in Slots : \A n \in 1..MaxSent :
    (i \in DOMAIN clients /\ clients[i] \in Peers /\ Len(sent[clients[i]]) >= n)
      ~> (answers[i] >= n \/ ~whole[i] \/ place[i] = "stuck" \/ proc # "running")
=============================================================================

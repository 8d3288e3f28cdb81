----------------------------- MODULE KVContract -----------------------------
(***************************************************************************)
(* What a connection of the server may rely on, whatever the cache mode:   *)
(*                                                                         *)
(*   - a GET is answered with a value that some SET gave to that very key; *)
(*   - it is answered "+Empty!" only when no SET of that key has taken     *)
(*     effect;                                                             *)
(*   - the other commands change no key.                                   *)
(*                                                                         *)
(* It is not a linearizable map: the value a GET returns need not be the   *)
(* last one written.  The program does not promise more (Metadata::Insert  *)
(* never replaces an index entry), so neither does the contract.           *)
(* The server may stop at any moment (exit, or undefined behaviour), after *)
(* which the contract says nothing.                                        *)
(***************************************************************************)
CONSTANTS Key, Val, Client, None

VARIABLES up,       \* the server still runs
          written,  \* written[k]: the values SET has given to k so far
          status,   \* status[c]: "idle", "pending", "done" or "gone"
          req,      \* req[c]: the request connection c is waiting for
          reply     \* reply[c]: the value in c's last answer, None if none

cvars == <<up, written, status, req, reply>>

Command == {"set", "get", "evict", "kill", "other"}
Request == [cmd : {"set"}, key : Key, val : Val]
             \cup [cmd : {"get"}, key : Key, val : {None}]
             \cup [cmd : Command \ {"set", "get"}, key : {None}, val : {None}]

CInit ==
  /\ up = TRUE
  /\ written = [k \in Key |-> {}]
  /\ status = [c \in Client |-> "idle"]
  /\ req = [c \in Client |-> None]
  /\ reply = [c \in Client |-> None]

Invoke(c) ==
  /\ status[c] = "idle"
  /\ \E r \in Request : req' = [req EXCEPT ![c] = r]
  /\ reply' = [reply EXCEPT ![c] = None]
  /\ status' = [status EXCEPT ![c] = "pending"]
  /\ UNCHANGED <<up, written>>

Set(c) ==
  /\ status[c] = "pending" /\ req[c].cmd = "set"
  /\ written' = [written EXCEPT ![req[c].key] = @ \cup {req[c].val}]
  /\ status' = [status EXCEPT ![c] = "done"]
  /\ UNCHANGED <<up, req, reply>>

Get(c) ==
  /\ status[c] = "pending" /\ req[c].cmd = "get"
  /\ \E v \in Val \cup {None} :
       /\ IF written[req[c].key] = {} THEN v = None
                                     ELSE v \in written[req[c].key]
       /\ reply' = [reply EXCEPT ![c] = v]
  /\ status' = [status EXCEPT ![c] = "done"]
  /\ UNCHANGED <<up, written, req>>

Other(c) ==
  /\ status[c] = "pending" /\ req[c].cmd \notin {"set", "get"}
  /\ status' = [status EXCEPT ![c] = "done"]
  /\ UNCHANGED <<up, written, req, reply>>

Answer(c) ==
  /\ status[c] = "done"
  /\ status' = [status EXCEPT ![c] = "idle"]
  /\ UNCHANGED <<up, written, req, reply>>

Leave(c) ==
  /\ status[c] = "idle"
  /\ status' = [status EXCEPT ![c] = "gone"]
  /\ UNCHANGED <<up, written, req, reply>>

Stop ==
  /\ up' = FALSE
  /\ UNCHANGED <<written, status, req, reply>>

CNext ==
  /\ up
  /\ \/ \E c \in Client : \/ Invoke(c) \/ Set(c) \/ Get(c) \/ Other(c)
                          \/ Answer(c) \/ Leave(c)
     \/ Stop

CSpec == CInit /\ [][CNext]_cvars
=============================================================================

----------------------------- MODULE LruRecency -----------------------------
(***************************************************************************)
(* One lru_cache object (my_lru.hpp) in the hands of its two users, the    *)
(* memory tier and Metadata's table of cache files: every operation, in    *)
(* every order the users call them in.  Both users erase the keys that     *)
(* evict() has given them, sooner or later, and no others (bworker.c:73,   *)
(* flashcache.cc:457); a get() through a dangling iterator is undefined    *)
(* and not a step of this module (TieredStore has it).                     *)
(* lastUse is a history variable: the time of a key's last insert or get.  *)
(***************************************************************************)
EXTENDS Naturals, Sequences, LruCache

CONSTANTS Key,
          MaxUses   \* bound: inserts and gets in a run

ASSUME UsesAssumption == MaxUses \in Nat
ASSUME ValueAssumption == None # "node"

VARIABLES m_map, m_list,
          evicted,    \* the keys a user has from evict() and has not erased yet
          clock,      \* inserts and gets so far
          lastUse     \* history: lastUse[k] is the clock at k's last use

vars == <<m_map, m_list, evicted, clock, lastUse>>

Init ==
  /\ m_map = [k \in Key |-> None]
  /\ m_list = <<>> /\ evicted = {}
  /\ clock = 0
  /\ lastUse = [k \in Key |-> 0]

Tick(k) ==
  /\ clock < MaxUses
  /\ clock' = clock + 1
  /\ lastUse' = [lastUse EXCEPT ![k] = clock + 1]

(* insert(), which does nothing if the key is mapped *)
Insert(k) ==
  /\ ~LruMapped(m_map, k)
  /\ m_map' = LruInsert(m_map, k, "node")
  /\ m_list' = LruPushFront(m_list, k)
  /\ Tick(k)
  /\ UNCHANGED evicted

(* get() of a key whose iterator is valid *)
Get(k) ==
  /\ LruMapped(m_map, k) /\ LruListed(m_list, k)
  /\ m_list' = LruTouch(m_list, k)
  /\ Tick(k)
  /\ UNCHANGED <<m_map, evicted>>

(* evict() *)
Evict ==
  /\ LruSize(m_map, m_list) > 0
  /\ m_list' = LruDropVictim(m_list)
  /\ evicted' = evicted \cup {LruVictim(m_list)}
  /\ UNCHANGED <<m_map, clock, lastUse>>

(* erase(), which the users call for what evict() gave them *)
Erase(k) ==
  /\ k \in evicted
  /\ m_map' = LruErase(m_map, k)
  /\ evicted' = evicted \ {k}
  /\ UNCHANGED <<m_list, clock, lastUse>>

Next ==
  \/ \E k \in Key : Insert(k) \/ Get(k) \/ Erase(k)
  \/ Evict

Spec == Init /\ [][Next]_vars

-----------------------------------------------------------------------------
(* The type of every variable. *)
TypeOK ==
  /\ m_map \in [Key -> {"node", None}]
  /\ m_list \in Seq(Key) /\ evicted \in SUBSET Key
  /\ clock \in 0..MaxUses
  /\ lastUse \in [Key -> 0..MaxUses]

(* The list is ordered by last use, most recent first, and so holds no key
   twice: get()'s move to the front, evict() and erase() keep that order
   (my_lru.hpp:31-68). *)
RecencyOrder ==
  \A i, j \in DOMAIN m_list :
    i < j => lastUse[m_list[i]] > lastUse[m_list[j]]

(* An iterator dangles from the evict() of its key to the user's erase() and at
   no other time, however many keys are evicted, inserted and used in between;
   and evict() finds a map node for its victim, although erase() does not look
   at the list (my_lru.hpp:62-68). *)
DanglesUntilErased ==
  \A k \in Key :
    /\ LruListed(m_list, k) => LruMapped(m_map, k)
    /\ LruMapped(m_map, k) /\ ~LruListed(m_list, k) <=> k \in evicted

(* A key leaves the list only when no listed key has gone unused for longer:
   evict() picks the least recently used key
   (my_lru.hpp:59-67). *)
EvictsLeastRecent ==
  [][\A k \in ToSet(m_list) \ ToSet(m_list') :
       \A j \in ToSet(m_list) : lastUse[k] <= lastUse[j]]_vars
=============================================================================

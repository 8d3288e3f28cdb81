------------------------------ MODULE LruCache ------------------------------
(***************************************************************************)
(* The template class lru_cache<Key, Value> of my_lru.hpp, which keeps the *)
(* memory tier (behind the LRUCache* wrappers of util_c++.cc) and the      *)
(* flash tier's table of cache files.                                      *)
(*                                                                         *)
(* The class holds two containers: m_map, from a key to its value and to   *)
(* an iterator into m_list, and m_list, the keys from the most to the      *)
(* least recently used one.  m_map is a total function here, with None     *)
(* where the map has no node.  A key occurs at most once in m_list, so the *)
(* iterator of a key is its position there, and an iterator is dangling    *)
(* exactly when its key is mapped and not listed: evict() unlinks the list *)
(* node and leaves the map node, erase() removes the map node and leaves   *)
(* the list alone.                                                         *)
(***************************************************************************)
EXTENDS SequencesExt, Absent

(* m_map.find(key) != m_map.end() *)
LruMapped(m, k) == m[k] # None

(* The iterator stored for k still points into the list. *)
LruListed(l, k) == Contains(l, k)

(* The list node that k's iterator points at. *)
LruPosition(l, k) == CHOOSE i \in DOMAIN l : l[i] = k

(* insert() of a key that is not mapped: push_front and a new map node. *)
LruInsert(m, k, v) == [m EXCEPT ![k] = v]
LruPushFront(l, k) == Cons(k, l)

(* Fault: get() that returns the value and leaves the list alone. *)
LruTouchNot(l, k) == l

(* get() of a mapped key whose iterator is valid: to the front. *)
LruTouch(l, k) ==
  IF Head(l) = k THEN l ELSE Cons(k, RemoveAt(l, LruPosition(l, k)))

(* Faults: evict() that keeps the list node, or removes the first one. *)
LruKeepVictim(l) == l
LruDropFirst(l) == Tail(l)

(* evict(): the last list node goes, its key's map node stays. *)
LruVictim(l) == Last(l)
LruDropVictim(l) == Front(l)

(* Fault: erase() of every node. *)
LruEraseAll(m, k) == [j \in DOMAIN m |-> None]

(* erase(): the map node goes, the list is not looked at. *)
LruErase(m, k) == [m EXCEPT ![k] = None]

(* LRUCacheSize: the length of the list, or 0 when the map is empty. *)
LruSize(m, l) == IF \E k \in DOMAIN m : m[k] # None THEN Len(l) ELSE 0
=============================================================================

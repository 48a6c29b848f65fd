------------------------------ MODULE LruCache ------------------------------
(***************************************************************************)
(* A cache of hexa/lru_cache.hpp under any sequence of its operations.     *)
(* The value of a pair does not matter here: it is the key.                *)
(***************************************************************************)
EXTENDS LruOps

CONSTANT Keys

VARIABLES
    lru,         \* the cache
    history      \* what a cache that is never pruned has: its keys, the latest first

lruVars == <<lru, history>>

LruTypeOK ==
    /\ \A i \in DOMAIN lru.list : lru.list[i] \in [key : Keys, value : Keys]
    /\ lru.map \in SUBSET Keys /\ lru.size \in Nat
    /\ \A i \in DOMAIN history : history[i] \in [key : Keys]

LruInit == lru = EmptyCache /\ history = <<>>

Used(k) == history' = <<[key |-> k]>> \o Without(history, k)

\* operator[]: an element that does not exist is made.
Index(k) ==
    /\ lru' = IF Has(lru, k) THEN Touched(lru, k) ELSE Assigned(lru, k, k)
    /\ Used(k)

\* touch() and try_get()
Touch(k) ==
    /\ Has(lru, k)
    /\ lru' = Touched(lru, k)
    /\ Used(k)

Remove(k) ==
    /\ lru' = Removed(lru, k)
    /\ history' = Without(history, k)

PruneIf(n, droppable) ==
    /\ lru' = PrunedIf(lru, n, droppable)
    /\ UNCHANGED history

Prune(n) ==
    /\ lru' = Pruned(lru, n)
    /\ UNCHANGED history

\* clear()
Clear == lru' = EmptyCache /\ history' = <<>>

Sizes == 0 .. Len(history)

LruNext ==
    \/ \E k \in Keys : Index(k) \/ Touch(k) \/ Remove(k)
    \/ \E n \in Sizes, droppable \in SUBSET Keys : PruneIf(n, droppable)
    \/ \E n \in Sizes : Prune(n)
    \/ Clear

LruSpec == LruInit /\ [][LruNext]_lruVars

-----------------------------------------------------------------------------
(***************************************************************************)
(* Properties.                                                             *)
(***************************************************************************)

\* The list, the map and the count keep to each other, and the list to the
\* order of use: else an iterator points to a pair that is gone, or the loop
\* of prune() takes from an empty list.
ListMapAgree ==
    /\ KeysOf(lru.list) = lru.map /\ Len(lru.list) = lru.size
    /\ \A i, j \in DOMAIN lru.list :
          lru.list[i].key = lru.list[j].key => i = j
    /\ \A i \in DOMAIN lru.list : lru.list[i].value = lru.list[i].key

Age(k) == At(history, k)

\* What was dropped, when at most n should have stayed and only what is in
\* droppable could go, are the least recently used of those that could, and
\* no more than had to.
DroppedOldest(n, droppable) ==
    LET could == lru.map \cap droppable
        gone  == lru.map \ lru'.map
        stays == could \ gone
    IN  /\ gone \subseteq could
        /\ \A k \in gone, j \in stays : Age(k) > Age(j)
        /\ gone # {} => lru'.size >= n
        /\ lru'.size > n => stays = {}

\* Both kinds of prune() drop the oldest elements that may go.  In a cache
\* that is only pruned this leaves the n elements used last.
PruneDropsOldest ==
    [][/\ \A n \in Sizes, droppable \in SUBSET Keys :
             PruneIf(n, droppable) => DroppedOldest(n, droppable)
       /\ \A n \in Sizes : Prune(n) => DroppedOldest(n, Keys)]_lruVars
=============================================================================

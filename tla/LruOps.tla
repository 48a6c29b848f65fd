------------------------------- MODULE LruOps -------------------------------
(***************************************************************************)
(* hexa/lru_cache.hpp: a list of pairs, the most recent one first, a map   *)
(* from keys into the list, and a count of its own.  An iterator of the    *)
(* map is modelled by the key: it finds the pair of that key in the list.  *)
(* Every operation is an operator on the record of the three members.      *)
(***************************************************************************)
EXTENDS Naturals, Sequences

EmptyCache == [list |-> <<>>, map |-> {}, size |-> 0]

KeysOf(list) == {list[i].key : i \in DOMAIN list}

\* Where the iterator of k points to.
At(list, k) == CHOOSE i \in DOMAIN list : list[i].key = k

\* erase() of the pair of k
Without(list, k) ==
    IF k \in KeysOf(list)
    THEN LET i == At(list, k)
         IN  SubSeq(list, 1, i - 1) \o SubSeq(list, i + 1, Len(list))
    ELSE list

PairOf(c, k) == c.list[At(c.list, k)]

\* find() != end(), also count()
Has(c, k) == k \in c.map

\* get()
Value(c, k) == PairOf(c, k).value

\* list_.splice() to the front: touch(), and try_get() of what is found
Touched(c, k) == [c EXCEPT !.list = <<PairOf(c, k)>> \o Without(@, k)]

\* cache[k] = v
Assigned(c, k, v) ==
    [list |-> <<[key |-> k, value |-> v]>> \o Without(c.list, k),
     map  |-> c.map \cup {k},
     size |-> IF Has(c, k) THEN c.size ELSE c.size + 1]

\* (Slip: the map keeps its iterator.)
ErasedFromList(c, k) ==
    [list |-> Without(c.list, k), map |-> c.map, size |-> c.size - 1]

\* The pair of k goes from the list and the map.
Erased(c, k) ==
    [list |-> Without(c.list, k), map |-> c.map \ {k}, size |-> c.size - 1]

\* (Slip: what is not there is counted off as well.)
RemovedUnseen(c, k) == Erased(c, k)

\* remove()
Removed(c, k) == IF Has(c, k) THEN Erased(c, k) ELSE c

\* What prune_if() does with one pair.
Visited(c, k, n, droppable) ==
    IF c.size > n /\ k \in droppable THEN Erased(c, k) ELSE c

\* (Slip: it begins at the newest pair.)
PruningAtFront(c, n, droppable) ==
    LET after[i \in 0 .. Len(c.list)] ==
            IF i = 0 THEN c
            ELSE Visited(after[i - 1], c.list[i].key, n, droppable)
    IN  after

\* prune_if(): the cache after the i oldest pairs have been looked at.
Pruning(c, n, droppable) ==
    LET after[i \in 0 .. Len(c.list)] ==
            IF i = 0 THEN c
            ELSE Visited(after[i - 1], c.list[Len(c.list) + 1 - i].key, n, droppable)
    IN  after

\* From the oldest pair to the newest, as long as there are more than n, those
\* with a key in droppable go.
PrunedIf(c, n, droppable) == Pruning(c, n, droppable)[Len(c.list)]

\* prune(), with a callback for what is removed or without
Pruned(c, n) == PrunedIf(c, n, KeysOf(c.list))
=============================================================================

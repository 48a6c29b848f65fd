---------------------------- MODULE DistanceMap ----------------------------
(***************************************************************************)
(* hexa/distance_sorted_map.hpp: what the client's scene keeps of the      *)
(* chunks around the camera, in shells of equal Manhattan distance to it.  *)
(* A chunk belongs to the map as long as it is in the sphere of the view   *)
(* radius.  The values of the map are left out: what matters is which      *)
(* chunks are where, and what its signals tell.                            *)
(*                                                                         *)
(* The code squares differences of 32 bits; positions here are less than   *)
(* 2^15 apart, where that is exact.                                        *)
(***************************************************************************)
EXTENDS Integers, FiniteSets

CONSTANTS
    Positions,   \* chunk coordinates
    Radii,       \* view radii
    MaxShrinks   \* bound: times the view radius gets smaller

ASSUME MapConstants ==
    /\ Positions \subseteq Int \X Int \X Int
    /\ Radii \subseteq Nat \ {0}
    /\ MaxShrinks \in Nat

VARIABLES
    viewDist,    \* view_dist_
    pos,         \* pos_, the center
    data,        \* data_: the chunks in each shell
    told,        \* chunks in the map according to on_new and on_remove
    shrinks      \* times the radius has got smaller

mapVars == <<viewDist, pos, data, told, shrinks>>

-----------------------------------------------------------------------------

Abs(i) == IF i < 0 THEN -i ELSE i

Diff(p, q, i) == Abs(p[i] - q[i])

SquaredDistance(p, q) ==
    Diff(p, q, 1) * Diff(p, q, 1) + Diff(p, q, 2) * Diff(p, q, 2)
        + Diff(p, q, 3) * Diff(p, q, 3)

ManhattanDistance(p, q) == Diff(p, q, 1) + Diff(p, q, 2) + Diff(p, q, 3)

InSphere(p, center, radius) == SquaredDistance(p, center) <= radius * radius

IsInside(p) == InSphere(p, pos, viewDist)

IndexOf(p) == ManhattanDistance(p, pos)

\* (Slip: rounded down.)
OctahedronFloor(radius) == (17321 * radius) \div 10000

\* ceil(radius * 1.7321), shells enough for the sphere.
Octahedron(radius) == (17321 * radius + 9999) \div 10000

ShellsOf(radius) == 0 .. Octahedron(radius) - 1

Content == UNION {data[i] : i \in DOMAIN data}

HasChunk(p) == IsInside(p) /\ p \in data[IndexOf(p)]

-----------------------------------------------------------------------------

MapTypeOK ==
    /\ viewDist \in Radii /\ pos \in Positions
    /\ data \in [ShellsOf(viewDist) -> SUBSET Positions]
    /\ told \in SUBSET Positions
    /\ shrinks \in Nat

MapInit ==
    /\ viewDist \in Radii /\ pos \in Positions
    /\ data = [i \in ShellsOf(viewDist) |-> {}]
    /\ told = {}
    /\ shrinks = 0

\* set(), of a chunk that is new or one that is updated.
SetChunk(p) ==
    /\ IsInside(p)
    /\ data' = [data EXCEPT ![IndexOf(p)] = @ \cup {p}]
    /\ told' = told \cup {p}
    /\ UNCHANGED <<viewDist, pos, shrinks>>

RemoveChunk(p) ==
    /\ HasChunk(p)
    /\ data' = [data EXCEPT ![IndexOf(p)] = @ \ {p}]
    /\ told' = told \ {p}
    /\ UNCHANGED <<viewDist, pos, shrinks>>

\* (Slip: the distances are those to the old center.)
SortedByOld(center, kept) ==
    [i \in ShellsOf(viewDist) |-> {p \in kept : IndexOf(p) = i}]

\* The shells of center() after it has walked over all chunks.
SortedBy(center, kept) ==
    [i \in ShellsOf(viewDist) |->
        {p \in kept : ManhattanDistance(p, center) = i}]

\* (Slip: nobody is told.)
TellNobody(kept) == UNCHANGED told

\* on_remove(), of what is not kept.
TellDropped(kept) == told' = told \ (Content \ kept)

\* center()
Center(center) ==
    /\ center # pos
    /\ pos' = center
    /\ LET kept == {p \in Content : InSphere(p, center, viewDist)}
       IN  /\ data' = SortedBy(center, kept)
           /\ TellDropped(kept)
    /\ UNCHANGED <<viewDist, shrinks>>

\* view_radius() with a greater radius.
Grow(radius) ==
    /\ radius > viewDist
    /\ viewDist' = radius
    /\ data' = [i \in ShellsOf(radius) |->
                   IF i \in DOMAIN data THEN data[i] ELSE {}]
    /\ UNCHANGED <<pos, told, shrinks>>

\* view_radius() with a smaller one.  It tells of the chunks that are out of
\* the old view, which are none.  Those out of the new one are erased with the
\* iterator that the loop goes on with, so any of them may stay behind.
Shrink(radius) ==
    /\ radius < viewDist /\ shrinks < MaxShrinks
    /\ shrinks' = shrinks + 1
    /\ viewDist' = radius
    /\ \E left \in SUBSET {p \in Content : ~InSphere(p, pos, radius)} :
          data' = [i \in ShellsOf(radius) |->
                      {p \in data[i] : InSphere(p, pos, radius) \/ p \in left}]
    /\ told' = told \ {p \in Content : ~IsInside(p)}
    /\ UNCHANGED pos

MapNext ==
    \/ \E p \in Positions : SetChunk(p) \/ RemoveChunk(p) \/ Center(p)
    \/ \E radius \in Radii : Grow(radius) \/ Shrink(radius)

MapSpec == MapInit /\ [][MapNext]_mapVars

-----------------------------------------------------------------------------
(***************************************************************************)
(* Properties.                                                             *)
(***************************************************************************)

\* Every chunk is in the shell where has(), set() and remove() look for it,
\* whatever moves and changes of the radius it has seen, and the shells of
\* the octahedron are enough for all chunks in view, as index() asserts: 3
\* sides of a sphere, cut at a whole number.
InItsShell ==
    /\ \A i \in DOMAIN data : \A p \in data[i] : IndexOf(p) = i
    /\ \A p \in Positions : IsInside(p) => IndexOf(p) \in DOMAIN data

\* A chunk in view is not lost: only remove() takes it away.
KeptInView ==
    [][\A p \in Positions :
          HasChunk(p) /\ IsInside(p)' => HasChunk(p)' \/ RemoveChunk(p)]_mapVars

\* Who listens to on_new and on_remove knows what is in the map and in view,
\* as long as the radius does not get smaller: no chunk comes or goes, and so
\* no buffer of the scene, that nobody is told of.
ListenersKnow ==
    shrinks = 0 => told = Content /\ \A p \in told : HasChunk(p)
=============================================================================

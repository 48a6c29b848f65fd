----------------------------- MODULE SceneProofs -----------------------------
(***************************************************************************)
(* Proofs about ClientScene, for any width, view distance, number of pool  *)
(* threads, moves and changes.                                             *)
(*                                                                         *)
(* That nothing is lost between the threads needs an account of where the  *)
(* answer to each need is.  What is drawn, on its way to be drawn or being *)
(* stored is of the present version, or asked for, or a newer surface is   *)
(* in the wire (IsFresh).  What was seen waits for the scene's own loop, a *)
(* mesh, the packet in hand, a packet in the wire, or a request that will  *)
(* be answered (IsServed).  A request for what is taken for air is not     *)
(* sent, which loses nothing only because the server, when a column gets   *)
(* ground, sends its height before its surface (AirIsCorrected).           *)
(***************************************************************************)
EXTENDS ClientScene, SequenceTheorems, FiniteSetTheorems, Iteration, TLAPS

IsSurface(m, p, v) == m.type = "surface" /\ m.pos = p /\ m.version = v

IsHeight(m, p, h) == m.type = "height" /\ m.pos = p /\ m.height = h

\* The surface of p with version v is in the wire w.
Coming(w, p, v) == \E i \in 1 .. Len(w) : IsSurface(w[i], p, v)

\* After the i-th packet of w, p gets ground and then its surface.
GroundAfter(w, i, p, v) ==
    \E k, j \in 1 .. Len(w) :
        i < k /\ k < j /\ IsHeight(w[k], p, "ground") /\ IsSurface(w[j], p, v)

\* The surfaces of a place never get older.
Rises(w) ==
    \A i, j \in 1 .. Len(w) :
        /\ i < j /\ w[i].type = "surface" /\ w[j].type = "surface"
        /\ w[i].pos = w[j].pos
        => w[i].version <= w[j].version

\* What is in the wire about one place.
PacketsOK ==
    \A i \in 1 .. Len(wire) :
        /\ server[wire[i].pos] > 0 \/ IsHeight(wire[i], wire[i].pos, "air")
        /\ wire[i].type = "surface" =>
              /\ wire[i].version <= server[wire[i].pos]
              /\ Coming(wire, wire[i].pos, server[wire[i].pos])

AirIsCorrected ==
    \A p \in Pos : server[p] > 0 =>
        /\ height[p] = "air" => GroundAfter(wire, 0, p, server[p])
        /\ \A i \in 1 .. Len(wire) :
              IsHeight(wire[i], p, "air") => GroundAfter(wire, i, p, server[p])

\* The packet in hand is about p, with one of these steps to go.
InHand(p, steps) == bg # <<>> /\ bg.step \in steps /\ bg.pos = p

\* The store is not ahead of the server, and the light map not of the surface.
StoreOK ==
    \A p \in Pos :
        /\ surf[p] <= server[p]
        /\ height[p] = "ground" => server[p] > 0
        /\ light[p] = surf[p] \/ InHand(p, {"light"})
        /\ InHand(p, {"light"}) => bg.version = surf[p]

JobFor(p) == \E i \in 1 .. Len(pending) : pending[i].pos = p

IsFresh(p) ==
    Drawn(terrain, p) \/ JobFor(p) \/ InHand(p, {"light", "set"})
      => surf[p] = server[p] \/ Coming(wire, p, server[p]) \/ p \in requests

IsServed(p) ==
    Awaited(p) =>
        \/ p \in toShow \/ JobFor(p) \/ InHand(p, {"light", "set", "query"})
        \/ \E i \in 1 .. Len(wire) :
              wire[i].pos = p /\ ~IsHeight(wire[i], p, "ground")
        \/ p \in requests /\ surf[p] = 0

\* With what the invariants of the runs leave out of the types: the bound on
\* the versions, and that a chunk is read while it is to be shown.
Typed ==
    /\ TypeOK
    /\ \A p \in Pos : server[p] <= changes + 2
    /\ reading # <<>> => reading.pos \in toShow

WireInv == Rises(wire) /\ PacketsOK /\ AirIsCorrected /\ StoreOK

SceneInv == Typed /\ WireInv /\ \A p \in Pos : IsFresh(p) /\ IsServed(p)

\* What is drawn has neighbours that are known, in view unless they are air, or
\* that the packet in hand is about.
FrontierOK ==
    \A p \in Pos : Drawn(terrain, p) =>
        /\ Known(terrain, p)
        /\ \A q \in Neighbours(p) :
              Inside(q) /\ height[q] # "air" => Known(terrain, q) \/ InHand(q, {"query"})

-----------------------------------------------------------------------------
(***************************************************************************)
(* The wire.                                                               *)
(***************************************************************************)

LEMMA TailPackets ==
    ASSUME NEW P, NEW w \in Seq(P), w # <<>>
    PROVE  /\ Tail(w) \in Seq(P) /\ Len(Tail(w)) = Len(w) - 1
           /\ Len(w) \in Nat \ {0} /\ Head(w) = w[1]
           /\ \A i \in 1 .. Len(w) - 1 : Tail(w)[i] = w[i + 1]
<1>1. Len(w) \in Nat \ {0} /\ Len(Tail(w)) = Len(w) - 1
  BY LenProperties, EmptySeq, HeadTailProperties
<1> QED BY <1>1, HeadTailProperties

LEMMA JoinedPackets ==
    ASSUME NEW P, NEW w \in Seq(P), NEW a \in Seq(P)
    PROVE  /\ w \o a \in Seq(P) /\ Len(w \o a) = Len(w) + Len(a)
           /\ \A i \in 1 .. Len(w) : (w \o a)[i] = w[i]
           /\ \A i \in 1 .. Len(a) : (w \o a)[Len(w) + i] = a[i]
<1>1. /\ w \o a \in Seq(P) /\ Len(w \o a) = Len(w) + Len(a)
      /\ \A i \in 1 .. Len(w) + Len(a) :
            (w \o a)[i] = IF i <= Len(w) THEN w[i] ELSE a[i - Len(w)]
  BY ConcatProperties
<1>2. Len(w) \in Nat /\ Len(a) \in Nat
  BY LenProperties
<1>3. ASSUME NEW i \in 1 .. Len(a) PROVE (w \o a)[Len(w) + i] = a[i]
  <2>1. /\ Len(w) + i \in 1 .. Len(w) + Len(a) /\ ~(Len(w) + i <= Len(w))
        /\ Len(w) + i - Len(w) = i
    BY <1>2
  <2> QED BY <2>1, <1>1
<1> QED BY <1>1, <1>2, <1>3

LEMMA MorePackets ==
    ASSUME NEW P, NEW w \in Seq(P), NEW a \in Seq(P)
    PROVE  /\ w \o a \in Seq(P) /\ Len(w \o a) = Len(w) + Len(a)
           /\ Len(w) \in Nat /\ Len(a) \in Nat
           /\ \A i \in 1 .. Len(w) : (w \o a)[i] = w[i]
           /\ \A i \in 1 .. Len(a) : (w \o a)[Len(w) + i] = a[i]
           /\ \A i \in 1 .. Len(w \o a) :
                 \/ i \in 1 .. Len(w)
                 \/ \E j \in 1 .. Len(a) : i = Len(w) + j
<1>1. /\ w \o a \in Seq(P) /\ Len(w \o a) = Len(w) + Len(a)
      /\ \A i \in 1 .. Len(w) : (w \o a)[i] = w[i]
      /\ \A i \in 1 .. Len(a) : (w \o a)[Len(w) + i] = a[i]
  BY JoinedPackets
<1>2. Len(w) \in Nat /\ Len(a) \in Nat
  BY LenProperties
<1>3. ASSUME NEW i \in 1 .. Len(w \o a), i \notin 1 .. Len(w)
      PROVE  \E j \in 1 .. Len(a) : i = Len(w) + j
  <2>1. i - Len(w) \in 1 .. Len(a) /\ i = Len(w) + (i - Len(w))
    BY <1>1, <1>2, <1>3
  <2> QED BY <2>1
<1> QED BY <1>1, <1>2, <1>3

\* What is not at the head is still to come after it.
LEMMA ComingInTail ==
    ASSUME NEW P, NEW w \in Seq(P), w # <<>>, NEW p, NEW v
    PROVE  /\ Coming(Tail(w), p, v) => Coming(w, p, v)
           /\ Coming(w, p, v) => IsSurface(w[1], p, v) \/ Coming(Tail(w), p, v)
<1> USE TailPackets
<1>1. ASSUME NEW i \in 1 .. Len(Tail(w)), IsSurface(Tail(w)[i], p, v)
      PROVE  Coming(w, p, v)
  <2>1. i + 1 \in 1 .. Len(w) /\ Tail(w)[i] = w[i + 1]
    OBVIOUS
  <2> QED BY <1>1, <2>1 DEF Coming
<1>2. ASSUME NEW i \in 1 .. Len(w), IsSurface(w[i], p, v), i # 1
      PROVE  Coming(Tail(w), p, v)
  <2>1. i - 1 \in 1 .. Len(Tail(w)) /\ Tail(w)[i - 1] = w[i]
    <3>1. i - 1 \in 1 .. Len(w) - 1 /\ i - 1 + 1 = i
      BY <1>2
    <3> QED BY <3>1
  <2> QED BY <1>2, <2>1 DEF Coming
<1> QED BY <1>1, <1>2 DEF Coming

LEMMA ComingInMore ==
    ASSUME NEW P, NEW w \in Seq(P), NEW a \in Seq(P), NEW p, NEW v,
           Coming(w, p, v) \/ Coming(a, p, v)
    PROVE  Coming(w \o a, p, v)
<1> USE MorePackets
<1>1. ASSUME NEW i \in 1 .. Len(w), IsSurface(w[i], p, v) PROVE Coming(w \o a, p, v)
  <2>1. i \in 1 .. Len(w \o a) /\ (w \o a)[i] = w[i]
    OBVIOUS
  <2> QED BY <1>1, <2>1 DEF Coming
<1>2. ASSUME NEW i \in 1 .. Len(a), IsSurface(a[i], p, v) PROVE Coming(w \o a, p, v)
  <2>1. Len(w) + i \in 1 .. Len(w \o a) /\ (w \o a)[Len(w) + i] = a[i]
    OBVIOUS
  <2> QED BY <1>2, <2>1 DEF Coming
<1> QED BY <1>1, <1>2 DEF Coming

LEMMA GroundInTail ==
    ASSUME NEW P, NEW w \in Seq(P), w # <<>>, NEW i \in Nat, NEW p, NEW v,
           GroundAfter(w, i + 1, p, v)
           \/ (i = 0 /\ GroundAfter(w, 0, p, v) /\ ~IsHeight(w[1], p, "ground"))
    PROVE  GroundAfter(Tail(w), i, p, v)
<1> USE TailPackets
<1>1. PICK k \in 1 .. Len(w), j \in 1 .. Len(w) :
         k < j /\ IsHeight(w[k], p, "ground") /\ IsSurface(w[j], p, v) /\ i + 1 < k
  <2>1. CASE GroundAfter(w, i + 1, p, v)
    BY <2>1 DEF GroundAfter
  <2>2. CASE i = 0 /\ GroundAfter(w, 0, p, v) /\ ~IsHeight(w[1], p, "ground")
    <3>1. PICK k \in 1 .. Len(w), j \in 1 .. Len(w) :
             k < j /\ IsHeight(w[k], p, "ground") /\ IsSurface(w[j], p, v)
      BY <2>2 DEF GroundAfter
    <3>2. k # 1
      BY <2>2, <3>1
    <3>3. i + 1 < k
      BY <2>2, <3>2
    <3> QED BY <3>1, <3>3
  <2> QED BY <2>1, <2>2
<1>2. /\ k - 1 \in 1 .. Len(Tail(w)) /\ j - 1 \in 1 .. Len(Tail(w))
      /\ i < k - 1 /\ k - 1 < j - 1
      /\ k - 1 \in 1 .. Len(w) - 1 /\ k - 1 + 1 = k
      /\ j - 1 \in 1 .. Len(w) - 1 /\ j - 1 + 1 = j
  BY <1>1
<1>3. Tail(w)[k - 1] = w[k] /\ Tail(w)[j - 1] = w[j]
  BY <1>2
<1> QED BY <1>1, <1>2, <1>3 DEF GroundAfter

LEMMA GroundInMore ==
    ASSUME NEW P, NEW w \in Seq(P), NEW a \in Seq(P), NEW i, NEW p, NEW v,
           GroundAfter(w, i, p, v)
    PROVE  GroundAfter(w \o a, i, p, v)
<1>1. PICK k \in 1 .. Len(w), j \in 1 .. Len(w) :
         i < k /\ k < j /\ IsHeight(w[k], p, "ground") /\ IsSurface(w[j], p, v)
  BY DEF GroundAfter
<1>2. /\ k \in 1 .. Len(w \o a) /\ (w \o a)[k] = w[k]
      /\ j \in 1 .. Len(w \o a) /\ (w \o a)[j] = w[j]
  BY MorePackets
<1> QED BY <1>1, <1>2 DEF GroundAfter

LEMMA RisesInTail ==
    ASSUME NEW P, NEW w \in Seq(P), w # <<>>, Rises(w)
    PROVE  Rises(Tail(w))
<1> SUFFICES ASSUME NEW i \in 1 .. Len(Tail(w)), NEW j \in 1 .. Len(Tail(w)), i < j,
                    Tail(w)[i].type = "surface", Tail(w)[j].type = "surface",
                    Tail(w)[i].pos = Tail(w)[j].pos
             PROVE  Tail(w)[i].version <= Tail(w)[j].version
  BY DEF Rises
<1>1. /\ i + 1 \in 1 .. Len(w) /\ j + 1 \in 1 .. Len(w) /\ i + 1 < j + 1
      /\ Tail(w)[i] = w[i + 1] /\ Tail(w)[j] = w[j + 1]
  BY TailPackets
<1> QED BY <1>1 DEF Rises

-----------------------------------------------------------------------------
(***************************************************************************)
(* The loops.                                                              *)
(***************************************************************************)

Entries == [Pos -> Entry]

Idle == [mesh |-> NoMesh, query |-> "idle"]

LEMMA NoMeshIsMesh == NoMesh \in Mesh /\ Idle \in Entry
<1>1. 0 \in Version
  BY SceneShape DEF Version
<1> QED BY <1>1 DEF NoMesh, Mesh, Idle, Entry, Query

LEMMA QueriesMade ==
    ASSUME NEW t \in Entries, NEW ps
    PROVE  /\ MakeQueries(t, ps) \in Entries
           /\ \A p \in Pos : MakeQueries(t, ps)[p] = IF p \in ps THEN Idle ELSE t[p]
BY NoMeshIsMesh DEF MakeQueries, Entries, Idle

LEMMA PlaceOne ==
    ASSUME NEW t \in Entries, NEW job \in Job
    PROVE  /\ Place(t, job) \in Entries
           /\ \A p \in Pos :
                 \/ Place(t, job)[p] = t[p] /\ (p # job.pos \/ ~Inside(p))
                 \/ /\ p = job.pos /\ Inside(p)
                    /\ Place(t, job)[p].query = "inactive"
                 \/ /\ p # job.pos /\ Inside(p) /\ ~Known(t, p)
                    /\ Place(t, job)[p] = Idle
<1>1. CASE ~Inside(job.pos)
  BY <1>1 DEF Place
<1>2. CASE Inside(job.pos)
  <2> DEFINE e == [mesh |-> job.mesh, query |-> "inactive"]
             s == SetMesh(t, job)
             ps == {q \in Neighbours(job.pos) :
                       Inside(q) /\ ~Known(t, q) /\ height[q] # "air"}
  <2>1. e \in Entry /\ e.query = "inactive" /\ job.pos \in Pos
    BY DEF Job, Entry, Query
  <2>2. s = [t EXCEPT ![job.pos] = e]
    BY DEF SetMesh
  <2> HIDE DEF e
  <2>3. s \in Entries /\ \A p \in Pos : s[p] = IF p = job.pos THEN e ELSE t[p]
    BY <2>1, <2>2 DEF Entries
  <2>4. Place(t, job) = MakeQueries(s, ps)
    BY <1>2 DEF Place
  <2> HIDE DEF s
  <2>5. job.pos \notin Neighbours(job.pos)
    <3>1. job.pos \in Int
      BY <2>1, SceneShape DEF Pos
    <3> QED BY <3>1 DEF Neighbours, Distance
  <2>6. \A p \in ps : p # job.pos /\ Inside(p) /\ ~Known(t, p)
    BY <2>5
  <2> HIDE DEF ps
  <2>7. /\ MakeQueries(s, ps) \in Entries
        /\ \A p \in Pos : MakeQueries(s, ps)[p] = IF p \in ps THEN Idle ELSE s[p]
    BY <2>3, QueriesMade
  <2> QED BY <1>2, <2>1, <2>3, <2>4, <2>6, <2>7
<1> QED BY <1>1, <1>2

\* What is drawn has known neighbours: FrontierOK, of any terrain.
FrontierIn(t) ==
    \A p \in Pos : Drawn(t, p) =>
        /\ Known(t, p)
        /\ \A q \in Neighbours(p) :
              Inside(q) /\ height[q] # "air" => Known(t, q) \/ InHand(q, {"query"})

LEMMA PlaceKeepsFrontier ==
    ASSUME NEW t \in Entries, NEW job \in Job, FrontierIn(t)
    PROVE  FrontierIn(Place(t, job))
<1> DEFINE r == Place(t, job)
<1>1. CASE ~Inside(job.pos)
  BY <1>1 DEF Place
<1>2. CASE Inside(job.pos)
  <2>1. \A p \in Pos : Known(t, p) => Known(r, p)
    BY PlaceOne DEF Known, Idle
  <2>2. \A p \in Pos : p # job.pos /\ Drawn(r, p) => Drawn(t, p)
    BY PlaceOne DEF Drawn, Idle
  <2>3. \A q \in Neighbours(job.pos) : Inside(q) /\ height[q] # "air" => Known(r, q)
    <3> SUFFICES ASSUME NEW q \in Neighbours(job.pos), Inside(q), height[q] # "air",
                        ~Known(t, q)
                 PROVE  Known(r, q)
      BY <2>1 DEF Neighbours
    <3> DEFINE s == SetMesh(t, job)
               ps == {x \in Neighbours(job.pos) :
                         Inside(x) /\ ~Known(t, x) /\ height[x] # "air"}
    <3>1. q \in ps /\ q \in Pos
      BY DEF Neighbours
    <3>2. r = MakeQueries(s, ps)
      BY <1>2 DEF Place
    <3>3. r[q].query = "idle"
      BY <3>1, <3>2 DEF MakeQueries
    <3> QED BY <3>3 DEF Known
  <2>4. job.pos \in Pos
    BY DEF Job
  <2>5. Known(r, job.pos)
    BY <1>2, <2>4, PlaceOne DEF Known
  <2> HIDE DEF r
  <2>6. ASSUME NEW p \in Pos, Drawn(r, p)
        PROVE  /\ Known(r, p)
               /\ \A q \in Neighbours(p) :
                     Inside(q) /\ height[q] # "air"
                       => Known(r, q) \/ InHand(q, {"query"})
    <3>1. CASE p = job.pos
      BY <3>1, <2>3, <2>5
    <3>2. CASE p # job.pos
      <4>1. Drawn(t, p)
        BY <2>2, <2>6, <3>2
      <4>2. \A q \in Neighbours(p) : q \in Pos
        BY DEF Neighbours
      <4> QED BY <2>1, <4>1, <4>2 DEF FrontierIn
    <3> QED BY <3>1, <3>2
  <2> QED BY <2>6 DEF FrontierIn, r
<1> QED BY <1>1, <1>2

\* The first n jobs that are done have been placed.
PlacedSoFar(t, jobs, n, r) ==
    /\ r \in Entries
    /\ \A p \in Pos :
          \/ r[p] = t[p]
          \/ /\ Inside(p) /\ r[p].query = "inactive"
             /\ \E i \in 1 .. Len(jobs) : jobs[i].pos = p
          \/ Inside(p) /\ ~Known(t, p) /\ r[p] = Idle
    /\ \A i \in 1 .. n :
          jobs[i].done /\ Inside(jobs[i].pos) => r[jobs[i].pos].query = "inactive"
    /\ FrontierIn(t) => FrontierIn(r)

LEMMA PlaceNext ==
    ASSUME NEW t \in Entries, NEW jobs \in Seq(Job), NEW n \in 1 .. Len(jobs), NEW r,
           PlacedSoFar(t, jobs, n - 1, r)
    PROVE  PlacedSoFar(t, jobs, n, IF jobs[n].done THEN Place(r, jobs[n]) ELSE r)
<1>0. Len(jobs) \in Nat /\ jobs[n] \in Job
  BY LenProperties, ElementOfSeq
<1>1. \A i \in 1 .. n : i \in 1 .. n - 1 \/ i = n
  BY <1>0
<1>2. CASE ~jobs[n].done
  BY <1>1, <1>2 DEF PlacedSoFar
<1>3. CASE jobs[n].done
  <2> DEFINE job == jobs[n]
             s == Place(r, job)
  <2>1. r \in Entries /\ job \in Job /\ job.pos \in Pos
    BY <1>0 DEF PlacedSoFar, Job
  <2>2. /\ s \in Entries
        /\ \A p \in Pos :
              \/ s[p] = r[p] /\ (p # job.pos \/ ~Inside(p))
              \/ p = job.pos /\ Inside(p) /\ s[p].query = "inactive"
              \/ p # job.pos /\ Inside(p) /\ ~Known(r, p) /\ s[p] = Idle
    BY <2>1, PlaceOne
  <2>3. FrontierIn(r) => FrontierIn(s)
    BY <2>1, PlaceKeepsFrontier
  <2> HIDE DEF s
  <2>4. ASSUME NEW p \in Pos
        PROVE  \/ s[p] = t[p]
               \/ /\ Inside(p) /\ s[p].query = "inactive"
                  /\ \E i \in 1 .. Len(jobs) : jobs[i].pos = p
               \/ Inside(p) /\ ~Known(t, p) /\ s[p] = Idle
    <3>1. \/ r[p] = t[p]
          \/ /\ Inside(p) /\ r[p].query = "inactive"
             /\ \E i \in 1 .. Len(jobs) : jobs[i].pos = p
          \/ Inside(p) /\ ~Known(t, p) /\ r[p] = Idle
      BY DEF PlacedSoFar
    <3>2. CASE s[p] = r[p]
      BY <3>1, <3>2
    <3>3. CASE p = job.pos /\ Inside(p) /\ s[p].query = "inactive"
      BY <3>3
    <3>4. CASE Inside(p) /\ ~Known(r, p) /\ s[p] = Idle
      <4>1. r[p].query # "inactive" /\ r[p] # Idle
        BY <3>4 DEF Known, Idle
      <4> QED BY <3>1, <3>4, <4>1 DEF Known
    <3> QED BY <2>2, <3>2, <3>3, <3>4
  <2>5. ASSUME NEW i \in 1 .. n, jobs[i].done, Inside(jobs[i].pos)
        PROVE  s[jobs[i].pos].query = "inactive"
    <3>1. CASE i = n
      BY <2>1, <2>2, <2>5, <3>1
    <3>2. CASE i # n
      <4>1. r[jobs[i].pos].query = "inactive"
        BY <1>1, <2>5, <3>2 DEF PlacedSoFar
      <4>2. jobs[i].pos \in Pos
        <5>1. i \in 1 .. Len(jobs)
          BY <1>0
        <5>2. jobs[i] \in Job
          BY <5>1, ElementOfSeq
        <5> QED BY <5>2 DEF Job
      <4> QED BY <2>2, <4>1, <4>2 DEF Known
    <3> QED BY <3>1, <3>2
  <2>6. PlacedSoFar(t, jobs, n, s)
    BY <2>2, <2>3, <2>4, <2>5 DEF PlacedSoFar
  <2> QED BY <1>3, <2>6 DEF s
<1> QED BY <1>2, <1>3

LEMMA PlacedResult ==
    ASSUME NEW t \in Entries, NEW jobs \in Seq(Job)
    PROVE  PlacedSoFar(t, jobs, Len(jobs), Placed(t, jobs))
<1> DEFINE n == Len(jobs)
           step == [i \in 1 .. n |-> [r \in Entries |->
                      IF jobs[i].done THEN Place(r, jobs[i]) ELSE r]]
           Eq(g) == g = [i \in 0 .. n |->
                           IF i = 0 THEN t
                           ELSE IF jobs[i].done THEN Place(g[i - 1], jobs[i])
                                ELSE g[i - 1]]
<1>0. n \in Nat /\ \A i \in 1 .. n : jobs[i] \in Job
  BY LenProperties, ElementOfSeq
<1>1. Placed(t, jobs) = (CHOOSE g : Eq(g))[n]
  BY DEF Placed
<1> HIDE DEF n
<1>2. step \in [1 .. n -> [Entries -> Entries]]
  BY <1>0, PlaceOne
<1>3. PICK f \in [0 .. n -> Entries] :
         f[0] = t /\ \A i \in 1 .. n : f[i] = step[i][f[i - 1]]
  <2>1. step \in LoopSteps(n, Entries)
    BY <1>2 DEF LoopSteps
  <2> HIDE DEF step
  <2>2. Iterations(n, Entries, t, step) # {}
    BY <1>0, <2>1, IterationExists
  <2> QED BY <2>2 DEF Iterations
<1>4. ASSUME NEW i \in 1 .. n
      PROVE  f[i] = IF jobs[i].done THEN Place(f[i - 1], jobs[i]) ELSE f[i - 1]
  <2>1. i - 1 \in 0 .. n /\ f[i - 1] \in Entries
    BY <1>0, <1>3
  <2> QED BY <2>1, <1>3
<1>5. Eq(f)
  BY <1>0, <1>3, <1>4
<1>6. PICK g : g = CHOOSE x : Eq(x)
  OBVIOUS
<1>7. Eq(g)
  <2> HIDE DEF Eq
  <2> QED BY <1>5, <1>6
<1>8. /\ g[0] = t
      /\ \A i \in 1 .. n :
            g[i] = IF jobs[i].done THEN Place(g[i - 1], jobs[i]) ELSE g[i - 1]
  <2>1. 0 \in 0 .. n /\ \A i \in 1 .. n : i \in 0 .. n /\ i # 0
    BY <1>0
  <2> QED BY <1>7, <2>1
<1> HIDE DEF Eq, step
<1> DEFINE H == {i \in 0 .. n : PlacedSoFar(t, jobs, i, g[i])}
<1>9. 0 \in H
  <2>1. PlacedSoFar(t, jobs, 0, t)
    BY DEF PlacedSoFar
  <2> QED BY <1>0, <1>8, <2>1
<1>10. \A i \in 1 .. n : i - 1 \in H => i \in H
  <2> SUFFICES ASSUME NEW i \in 1 .. n, i - 1 \in H PROVE i \in H
    OBVIOUS
  <2>1. PlacedSoFar(t, jobs, i - 1, g[i - 1])
    OBVIOUS
  <2>2. PlacedSoFar(t, jobs, i, IF jobs[i].done THEN Place(g[i - 1], jobs[i]) ELSE g[i - 1])
    BY <2>1, PlaceNext DEF n
  <2>3. i \in 0 .. n
    BY <1>0
  <2> QED BY <1>8, <2>2, <2>3
<1>11. n \in H
  <2> HIDE DEF H
  <2>1. \A i \in 0 .. n : i \in H
    BY <1>0, <1>9, <1>10, UpTo
  <2> QED BY <1>0, <2>1
<1> QED BY <1>1, <1>6, <1>11 DEF n

\* What is left of the first n jobs.
KeptSoFar(jobs, n, s) ==
    /\ s \in Seq(Job)
    /\ \A i \in 1 .. n : ~jobs[i].done => \E k \in 1 .. Len(s) : s[k] = jobs[i]
    /\ \A k \in 1 .. Len(s) : \E i \in 1 .. n : s[k] = jobs[i]

LEMMA KeepNext ==
    ASSUME NEW jobs \in Seq(Job), NEW n \in 1 .. Len(jobs), NEW s,
           KeptSoFar(jobs, n - 1, s)
    PROVE  KeptSoFar(jobs, n, IF jobs[n].done THEN s ELSE Append(s, jobs[n]))
<1>0. Len(jobs) \in Nat /\ jobs[n] \in Job /\ s \in Seq(Job) /\ Len(s) \in Nat
  BY LenProperties, ElementOfSeq DEF KeptSoFar
<1>1. \A i \in 1 .. n : i \in 1 .. n - 1 \/ i = n
  BY <1>0
<1>2. \A i \in 1 .. n - 1 : i \in 1 .. n
  BY <1>0
<1>3. CASE jobs[n].done
  BY <1>1, <1>2, <1>3 DEF KeptSoFar
<1>4. CASE ~jobs[n].done
  <2> DEFINE t == Append(s, jobs[n])
  <2>1. /\ t \in Seq(Job) /\ Len(t) = Len(s) + 1 /\ t[Len(s) + 1] = jobs[n]
        /\ \A k \in 1 .. Len(s) : t[k] = s[k]
    BY <1>0, AppendProperties
  <2> HIDE DEF t
  <2>2. ASSUME NEW i \in 1 .. n, ~jobs[i].done
        PROVE  \E k \in 1 .. Len(t) : t[k] = jobs[i]
    <3>1. CASE i = n
      <4>1. Len(s) + 1 \in 1 .. Len(t)
        BY <1>0, <2>1
      <4> QED BY <2>1, <3>1, <4>1
    <3>2. CASE i # n
      <4>1. PICK k \in 1 .. Len(s) : s[k] = jobs[i]
        BY <1>1, <2>2, <3>2 DEF KeptSoFar
      <4>2. k \in 1 .. Len(t) /\ t[k] = s[k]
        BY <1>0, <2>1
      <4> QED BY <4>1, <4>2
    <3> QED BY <3>1, <3>2
  <2>3. ASSUME NEW k \in 1 .. Len(t) PROVE \E i \in 1 .. n : t[k] = jobs[i]
    <3>1. CASE k \in 1 .. Len(s)
      BY <1>2, <2>1, <3>1 DEF KeptSoFar
    <3>2. CASE k \notin 1 .. Len(s)
      <4>1. k = Len(s) + 1 /\ n \in 1 .. n
        BY <1>0, <2>1, <3>2
      <4> QED BY <2>1, <4>1
    <3> QED BY <3>1, <3>2
  <2>4. KeptSoFar(jobs, n, t)
    BY <2>1, <2>2, <2>3 DEF KeptSoFar
  <2> QED BY <1>4, <2>4 DEF t
<1> QED BY <1>3, <1>4

LEMMA NotReadyResult ==
    ASSUME NEW jobs \in Seq(Job)
    PROVE  KeptSoFar(jobs, Len(jobs), NotReady(jobs))
<1> DEFINE n == Len(jobs)
           S == Seq(Job)
           step == [i \in 1 .. n |-> [s \in S |->
                      IF jobs[i].done THEN s ELSE Append(s, jobs[i])]]
           Eq(g) == g = [i \in 0 .. n |->
                           IF i = 0 THEN <<>>
                           ELSE IF jobs[i].done THEN g[i - 1]
                                ELSE Append(g[i - 1], jobs[i])]
<1>0. n \in Nat /\ (\A i \in 1 .. n : jobs[i] \in Job) /\ <<>> \in S
  BY LenProperties, ElementOfSeq
<1>1. NotReady(jobs) = (CHOOSE g : Eq(g))[n]
  BY DEF NotReady
<1> HIDE DEF n
<1>2. step \in [1 .. n -> [S -> S]]
  BY <1>0, AppendProperties
<1> HIDE DEF S
<1>3. PICK f \in [0 .. n -> S] :
         f[0] = <<>> /\ \A i \in 1 .. n : f[i] = step[i][f[i - 1]]
  <2>1. step \in LoopSteps(n, S)
    BY <1>2 DEF LoopSteps
  <2> HIDE DEF step
  <2>2. Iterations(n, S, <<>>, step) # {}
    BY <1>0, <2>1, IterationExists
  <2> QED BY <2>2 DEF Iterations
<1>4. ASSUME NEW i \in 1 .. n
      PROVE  f[i] = IF jobs[i].done THEN f[i - 1] ELSE Append(f[i - 1], jobs[i])
  <2>1. i - 1 \in 0 .. n /\ f[i - 1] \in S
    BY <1>0, <1>3
  <2> QED BY <2>1, <1>3
<1>5. Eq(f)
  <2>1. ASSUME NEW i \in 0 .. n
        PROVE  f[i] = IF i = 0 THEN <<>>
                      ELSE IF jobs[i].done THEN f[i - 1]
                           ELSE Append(f[i - 1], jobs[i])
    <3>1. CASE i = 0
      BY <1>3, <3>1
    <3>2. CASE i # 0
      <4>1. i \in 1 .. n
        BY <1>0, <3>2
      <4> QED BY <1>4, <3>2, <4>1
    <3> QED BY <3>1, <3>2
  <2>2. f = [i \in 0 .. n |-> f[i]]
    BY <1>3
  <2> QED BY <2>1, <2>2
<1>6. PICK g : g = CHOOSE x : Eq(x)
  OBVIOUS
<1>7. Eq(g)
  <2> HIDE DEF Eq
  <2> QED BY <1>5, <1>6
<1>8. /\ g[0] = <<>>
      /\ \A i \in 1 .. n :
            g[i] = IF jobs[i].done THEN g[i - 1] ELSE Append(g[i - 1], jobs[i])
  <2>1. 0 \in 0 .. n /\ \A i \in 1 .. n : i \in 0 .. n /\ i # 0
    BY <1>0
  <2> QED BY <1>7, <2>1
<1> HIDE DEF Eq, step
<1> DEFINE H == {i \in 0 .. n : KeptSoFar(jobs, i, g[i])}
<1>9. 0 \in H
  <2>1. KeptSoFar(jobs, 0, <<>>)
    BY DEF KeptSoFar
  <2> QED BY <1>0, <1>8, <2>1
<1>10. \A i \in 1 .. n : i - 1 \in H => i \in H
  <2> SUFFICES ASSUME NEW i \in 1 .. n, i - 1 \in H PROVE i \in H
    OBVIOUS
  <2>1. KeptSoFar(jobs, i - 1, g[i - 1])
    OBVIOUS
  <2>2. KeptSoFar(jobs, i, IF jobs[i].done THEN g[i - 1] ELSE Append(g[i - 1], jobs[i]))
    BY <2>1, KeepNext DEF n
  <2>3. i \in 0 .. n
    BY <1>0
  <2> QED BY <1>8, <2>2, <2>3
<1>11. n \in H
  <2> HIDE DEF H
  <2>1. \A i \in 0 .. n : i \in H
    BY <1>0, <1>9, <1>10, UpTo
  <2> QED BY <1>0, <2>1
<1> QED BY <1>1, <1>6, <1>11 DEF n

\* What the server sends as things are.
FromServer(m) ==
    /\ m \in Packet
    /\ \/ server[m.pos] = 0 /\ IsHeight(m, m.pos, "air")
       \/ /\ server[m.pos] > 0
          /\ IsHeight(m, m.pos, "ground") \/ IsSurface(m, m.pos, server[m.pos])

AllFromServer(w) == w \in Seq(Packet) /\ \A i \in 1 .. Len(w) : FromServer(w[i])

\* w is an answer to a request for p.
Answers(w, p) ==
    height[p] # "air" =>
        \/ server[p] = 0 /\ \E i \in 1 .. Len(w) : IsHeight(w[i], p, "air")
        \/ server[p] > 0 /\ Coming(w, p, server[p])
        \/ server[p] > 0 /\ height[p] # "unknown" /\ surf[p] = server[p]

LEMMA AnswersInMore ==
    ASSUME NEW w, NEW a, AllFromServer(w), AllFromServer(a)
    PROVE  /\ AllFromServer(w \o a)
           /\ \A p : Answers(w, p) \/ Answers(a, p) => Answers(w \o a, p)
<1> USE DEF AllFromServer
<1>1. /\ w \o a \in Seq(Packet)
      /\ \A i \in 1 .. Len(w) : i \in 1 .. Len(w \o a) /\ (w \o a)[i] = w[i]
      /\ \A i \in 1 .. Len(a) :
            Len(w) + i \in 1 .. Len(w \o a) /\ (w \o a)[Len(w) + i] = a[i]
      /\ \A i \in 1 .. Len(w \o a) :
            i \in 1 .. Len(w) \/ \E j \in 1 .. Len(a) : i = Len(w) + j
  BY MorePackets
<1>2. ASSUME NEW p, Answers(w, p) \/ Answers(a, p) PROVE Answers(w \o a, p)
  <2>1. Coming(w, p, server[p]) \/ Coming(a, p, server[p])
          => Coming(w \o a, p, server[p])
    BY ComingInMore
  <2>2. (\E i \in 1 .. Len(w) : IsHeight(w[i], p, "air"))
          => \E i \in 1 .. Len(w \o a) : IsHeight((w \o a)[i], p, "air")
    BY <1>1
  <2>3. (\E i \in 1 .. Len(a) : IsHeight(a[i], p, "air"))
          => \E i \in 1 .. Len(w \o a) : IsHeight((w \o a)[i], p, "air")
    BY <1>1
  <2> QED BY <1>2, <2>1, <2>2, <2>3 DEF Answers
<1> QED BY <1>1, <1>2

LEMMA OnePacket ==
    ASSUME NEW m \in Packet, FromServer(m)
    PROVE  /\ AllFromServer(<<m>>) /\ Len(<<m>>) = 1 /\ <<m>>[1] = m
           /\ 1 \in 1 .. Len(<<m>>)
BY DEF AllFromServer

LEMMA AskForResult ==
    ASSUME NEW p \in Pos, server[p] \in Version
    PROVE  AllFromServer(AskFor(p)) /\ Answers(AskFor(p), p)
<1> DEFINE a == [type |-> "height", pos |-> p, height |-> "air"]
           g == [type |-> "height", pos |-> p, height |-> "ground"]
           s == [type |-> "surface", pos |-> p, version |-> server[p]]
<1>0. server[p] \in Nat
  BY SceneShape DEF Version
<1>1. a \in Packet /\ IsHeight(a, p, "air") /\ a.pos = p
  BY DEF Packet, IsHeight
<1>2. g \in Packet /\ IsHeight(g, p, "ground") /\ g.pos = p
  BY DEF Packet, IsHeight
<1>3. s \in Packet /\ IsSurface(s, p, server[p]) /\ s.pos = p
  BY DEF Packet, IsSurface
<1>4. AllFromServer(<<>>)
  BY DEF AllFromServer
<1>5. CASE height[p] = "air"
  BY <1>4, <1>5 DEF AskFor, Answers
<1>6. CASE height[p] # "air" /\ server[p] = 0
  <2>1. AskFor(p) = <<a>>
    BY <1>6 DEF AskFor, Answer
  <2> HIDE DEF a
  <2>2. AllFromServer(<<a>>) /\ Len(<<a>>) = 1 /\ <<a>>[1] = a /\ 1 \in 1 .. Len(<<a>>)
    BY <1>1, <1>6, OnePacket DEF FromServer
  <2> QED BY <1>1, <1>6, <2>1, <2>2 DEF Answers
<1>7. CASE height[p] # "air" /\ server[p] > 0
  <2> DEFINE first == IF height[p] = "unknown" THEN <<g>> ELSE <<>>
             upToDate == height[p] # "unknown" /\ surf[p] = server[p]
             second == IF upToDate THEN <<>> ELSE <<s>>
  <2>1. AskFor(p) = first \o second
    <3>1. (IF height[p] = "unknown" THEN 0 ELSE surf[p]) = server[p] <=> upToDate
      BY <1>0, <1>7
    <3>2. AskFor(p) = Answer(p, IF height[p] = "unknown" THEN 0 ELSE surf[p])
      BY <1>7 DEF AskFor
    <3>3. server[p] # 0
      BY <1>0, <1>7
    <3> QED BY <3>1, <3>2, <3>3 DEF Answer
  <2> HIDE DEF g, s
  <2>2. AllFromServer(first)
    BY <1>2, <1>4, <1>7, OnePacket DEF FromServer
  <2>3. AllFromServer(<<s>>) /\ Len(<<s>>) = 1 /\ <<s>>[1] = s /\ 1 \in 1 .. Len(<<s>>)
    BY <1>3, <1>7, OnePacket DEF FromServer
  <2>4. AllFromServer(second)
    BY <1>4, <2>3
  <2>5. Answers(second, p)
    <3>1. CASE upToDate
      BY <1>7, <3>1 DEF Answers
    <3>2. CASE ~upToDate
      BY <1>3, <1>7, <2>3, <3>2 DEF Answers, Coming
    <3> QED BY <3>1, <3>2
  <2> HIDE DEF first, second
  <2> QED BY <2>1, <2>2, <2>4, <2>5, AnswersInMore
<1> QED BY <1>0, <1>5, <1>6, <1>7

AskedSoFar(order, n, w) ==
    AllFromServer(w) /\ \A i \in 1 .. n : Answers(w, order[i])

LEMMA AskedResult ==
    ASSUME NEW n \in Nat, NEW order \in [1 .. n -> Pos], server \in [Pos -> Version]
    PROVE  AskedSoFar(order, n, Asked(order, n))
<1> DEFINE S == Seq(Packet)
           step == [i \in 1 .. n |-> [w \in S |-> w \o AskFor(order[i])]]
           Eq(g) == g = [i \in 0 .. n |->
                           IF i = 0 THEN <<>> ELSE g[i - 1] \o AskFor(order[i])]
<1>0. /\ \A i \in 1 .. n : /\ order[i] \in Pos /\ AllFromServer(AskFor(order[i]))
                           /\ Answers(AskFor(order[i]), order[i])
                           /\ AskFor(order[i]) \in S
      /\ <<>> \in S
  BY AskForResult DEF AllFromServer
<1>1. Asked(order, n) = (CHOOSE g : Eq(g))[n]
  BY DEF Asked
<1>2. step \in [1 .. n -> [S -> S]]
  <2>1. \A w \in S, i \in 1 .. n : w \o AskFor(order[i]) \in S
    BY <1>0, ConcatProperties
  <2> QED BY <2>1
<1> HIDE DEF S
<1>3. PICK f \in [0 .. n -> S] :
         f[0] = <<>> /\ \A i \in 1 .. n : f[i] = step[i][f[i - 1]]
  <2>1. step \in LoopSteps(n, S)
    BY <1>2 DEF LoopSteps
  <2> HIDE DEF step
  <2>2. Iterations(n, S, <<>>, step) # {}
    BY <1>0, <2>1, IterationExists
  <2> QED BY <2>2 DEF Iterations
<1>4. ASSUME NEW i \in 1 .. n PROVE f[i] = f[i - 1] \o AskFor(order[i])
  <2>1. i - 1 \in 0 .. n /\ f[i - 1] \in S
    BY <1>0, <1>3
  <2> QED BY <2>1, <1>3
<1>5. Eq(f)
  <2>1. ASSUME NEW i \in 0 .. n
        PROVE  f[i] = IF i = 0 THEN <<>>
                      ELSE f[i - 1] \o AskFor(order[i])
    <3>1. CASE i = 0
      BY <1>3, <3>1
    <3>2. CASE i # 0
      <4>1. i \in 1 .. n
        BY <1>0, <3>2
      <4> QED BY <1>4, <3>2, <4>1
    <3> QED BY <3>1, <3>2
  <2>2. f = [i \in 0 .. n |-> f[i]]
    BY <1>3
  <2> QED BY <2>1, <2>2
<1>6. PICK g : g = CHOOSE x : Eq(x)
  OBVIOUS
<1>7. Eq(g)
  <2> HIDE DEF Eq
  <2> QED BY <1>5, <1>6
<1>8. g[0] = <<>> /\ \A i \in 1 .. n : g[i] = g[i - 1] \o AskFor(order[i])
  <2>1. 0 \in 0 .. n /\ \A i \in 1 .. n : i \in 0 .. n /\ i # 0
    OBVIOUS
  <2> QED BY <1>7, <2>1
<1> HIDE DEF Eq, step
<1> DEFINE H == {i \in 0 .. n : AskedSoFar(order, i, g[i])}
<1>9. 0 \in H
  <2>1. AskedSoFar(order, 0, <<>>)
    BY DEF AskedSoFar, AllFromServer
  <2> QED BY <1>8, <2>1
<1>10. \A i \in 1 .. n : i - 1 \in H => i \in H
  <2> SUFFICES ASSUME NEW i \in 1 .. n, i - 1 \in H PROVE i \in H
    OBVIOUS
  <2> DEFINE w == g[i - 1]
             a == AskFor(order[i])
  <2>1. AskedSoFar(order, i - 1, w) /\ i \in 0 .. n
    OBVIOUS
  <2>2. AllFromServer(a) /\ Answers(a, order[i])
    BY <1>0
  <2> HIDE DEF w, a, H
  <2>3. /\ AllFromServer(w \o a)
        /\ \A p : Answers(w, p) \/ Answers(a, p) => Answers(w \o a, p)
    BY <2>1, <2>2, AnswersInMore DEF AskedSoFar
  <2>4. \A k \in 1 .. i : k \in 1 .. i - 1 \/ k = i
    OBVIOUS
  <2>5. AskedSoFar(order, i, w \o a)
    BY <2>1, <2>2, <2>3, <2>4 DEF AskedSoFar
  <2> QED BY <1>8, <2>1, <2>5 DEF w, a, H
<1>11. n \in H
  <2> HIDE DEF H
  <2>1. \A i \in 0 .. n : i \in H
    BY <1>9, <1>10, UpTo
  <2> QED BY <2>1
<1> QED BY <1>1, <1>6, <1>11

\* What SendRequests puts into the wire.
LEMMA SentResult ==
    ASSUME SendRequests, requests \in SUBSET Pos, server \in [Pos -> Version]
    PROVE  \E a : /\ wire' = wire \o a
                  /\ AllFromServer(a)
                  /\ \A p \in requests : Answers(a, p)
<1> DEFINE n == Cardinality(requests)
<1>1. n \in Nat
  <2>1. IsFiniteSet(Pos)
    BY SceneShape, FS_Interval DEF Pos
  <2>2. IsFiniteSet(requests)
    BY <2>1, FS_Subset
  <2> QED BY <2>2, FS_CardinalityType
<1>2. PICK order \in Bijection(1 .. n, requests) : wire' = wire \o Asked(order, n)
  BY DEF SendRequests
<1>3. /\ order \in [1 .. n -> requests]
      /\ \A p \in requests : \E i \in 1 .. n : order[i] = p
  BY DEF Bijection, Injection, Surjection
<1> HIDE DEF n
<1>4. order \in [1 .. n -> Pos]
  BY <1>3
<1>5. AskedSoFar(order, n, Asked(order, n))
  BY <1>1, <1>4, AskedResult
<1>6. \A p \in requests : Answers(Asked(order, n), p)
  BY <1>3, <1>5 DEF AskedSoFar
<1> QED BY <1>2, <1>5, <1>6 DEF AskedSoFar

-----------------------------------------------------------------------------
(***************************************************************************)
(* Types.                                                                  *)
(***************************************************************************)

LEMMA RecordsAreNotEmpty ==
    /\ \A a, b, c : [step |-> a, pos |-> b, version |-> c] # <<>>
    /\ \A a, b : [step |-> a, pos |-> b] # <<>>
    /\ \A a, b : [pos |-> a, surface |-> b] # <<>>
OBVIOUS

LEMMA Types ==
    ASSUME Typed
    PROVE  /\ camera \in Pos /\ terrain \in Entries /\ pending \in Seq(Job)
           /\ toShow \in SUBSET Pos /\ requests \in SUBSET Pos
           /\ surf \in [Pos -> Version] /\ light \in [Pos -> Version]
           /\ height \in [Pos -> Height] /\ server \in [Pos -> Version]
           /\ wire \in Seq(Packet) /\ changes \in Nat /\ Version \subseteq Nat
           /\ \A p \in Pos : surf[p] \in Nat /\ light[p] \in Nat /\ server[p] \in Nat
           /\ \A p \in Pos : Known(terrain, p) => Inside(p)
BY SceneShape DEF Typed, TypeOK, Entries, Version

LEMMA HandTypes ==
    ASSUME Typed, bg # <<>>
    PROVE  /\ bg.pos \in Pos /\ bg.step \in {"light", "set", "query"}
           /\ bg.step \in {"light", "set"} =>
                 /\ bg.version \in Version
                 /\ bg = [step |-> bg.step, pos |-> bg.pos, version |-> bg.version]
BY DEF Typed, TypeOK

LEMMA ReadingTypes ==
    ASSUME Typed, reading # <<>>
    PROVE  reading.pos \in Pos /\ reading.surface \in Version
BY DEF Typed, TypeOK

LEMMA PacketTypes ==
    ASSUME NEW m \in Packet
    PROVE  /\ m.pos \in Pos
           /\ \/ m.type = "surface" /\ m.version \in Version
              \/ m.type = "height" /\ m.height \in {"air", "ground"}
BY DEF Packet

\* One query changes.
WithQuery(t, p, q) == [t EXCEPT ![p].query = q]

LEMMA EntryAfter ==
    ASSUME NEW t \in Entries, NEW p \in Pos, NEW q \in Query
    PROVE  /\ WithQuery(t, p, q) \in Entries
           /\ \A x \in Pos :
                 /\ WithQuery(t, p, q)[x].mesh = t[x].mesh
                 /\ WithQuery(t, p, q)[x].query = IF x = p THEN q ELSE t[x].query
<1>1. t[p] \in Entry
  BY DEF Entries
<1> DEFINE e == [t[p] EXCEPT !.query = q]
<1>2. e \in Entry /\ e.mesh = t[p].mesh /\ e.query = q
  BY <1>1 DEF Entry
<1>3. WithQuery(t, p, q) = [t EXCEPT ![p] = e]
  BY DEF Entries, WithQuery
<1> HIDE DEF e
<1> QED BY <1>2, <1>3 DEF Entries

\* A job that set() has handed in.
LEMMA SetSceneTypes ==
    ASSUME Typed, NEW p \in Pos, NEW s \in Version, NEW l \in Version, SetScene(p, s, l)
    PROVE  /\ pending' \in Seq(Job)
           /\ Inside(p) => \E i \in 1 .. Len(pending') : pending'[i].pos = p
           /\ \A x : JobFor(x) => JobFor(x)'
           /\ \A x : JobFor(x)' => JobFor(x) \/ x = p
<1> DEFINE j == [pos |-> p, done |-> FALSE, mesh |-> [surface |-> s, light |-> l]]
<1>1. j \in Job /\ j.pos = p
  BY DEF Job, Mesh
<1>2. pending' = IF Inside(p) THEN Append(pending, j) ELSE pending
  BY DEF SetScene
<1> HIDE DEF j
<1>3. pending \in Seq(Job) /\ Len(pending) \in Nat
  BY Types, LenProperties
<1>4. CASE ~Inside(p)
  BY <1>2, <1>3, <1>4 DEF JobFor
<1>5. CASE Inside(p)
  <2>1. /\ pending' \in Seq(Job) /\ Len(pending') = Len(pending) + 1
        /\ pending'[Len(pending) + 1] = j
        /\ \A i \in 1 .. Len(pending) : pending'[i] = pending[i]
    BY <1>1, <1>2, <1>3, <1>5, AppendProperties
  <2>2. /\ Len(pending) + 1 \in 1 .. Len(pending')
        /\ \A i \in 1 .. Len(pending) : i \in 1 .. Len(pending')
        /\ \A i \in 1 .. Len(pending') : i \in 1 .. Len(pending) \/ i = Len(pending) + 1
    BY <1>3, <2>1
  <2> QED BY <1>1, <2>1, <2>2 DEF JobFor
<1> QED BY <1>4, <1>5

\* A step of the scene.
LEMMA SceneStepTypes ==
    ASSUME Typed, UNCHANGED <<mapVars, serverVars, bg, changes>>,
           camera' \in Pos, terrain' \in Entries, pending' \in Seq(Job),
           toShow' \in SUBSET Pos, requests' \in SUBSET Pos, moves' \in 0 .. MaxMoves,
           reading' \in [pos : Pos, surface : Version] \cup {<<>>},
           reading' # <<>> => reading'.pos \in toShow',
           \A p \in Pos : Known(terrain, p)' => Inside(p)'
    PROVE  Typed'
BY DEF Typed, TypeOK, mapVars, serverVars, Entries

-----------------------------------------------------------------------------
(***************************************************************************)
(* The render thread and the pool: nothing is received, stored or sent.    *)
(***************************************************************************)

LEMMA WireRests ==
    ASSUME WireInv, UNCHANGED <<mapVars, serverVars, bg>>
    PROVE  WireInv'
BY DEF WireInv, Rises, PacketsOK, AirIsCorrected, StoreOK, InHand, Coming,
       GroundAfter, mapVars, serverVars

LEMMA FreshRests ==
    ASSUME SceneInv, NEW p \in Pos, UNCHANGED <<mapVars, serverVars, bg>>,
           requests \subseteq requests',
           Drawn(terrain, p)' \/ JobFor(p)' => Drawn(terrain, p) \/ JobFor(p)
    PROVE  IsFresh(p)'
<1>1. IsFresh(p)
  BY DEF SceneInv
<1> QED BY <1>1 DEF IsFresh, InHand, Coming, mapVars, serverVars

LEMMA ServedRests ==
    ASSUME SceneInv, NEW p \in Pos, UNCHANGED <<mapVars, serverVars, bg>>,
           requests \subseteq requests',
           Awaited(p)' =>
              Awaited(p) /\ (p \in toShow \/ JobFor(p) => p \in toShow' \/ JobFor(p)')
    PROVE  IsServed(p)'
<1>1. IsServed(p)
  BY DEF SceneInv
<1> QED BY <1>1 DEF IsServed, InHand, mapVars, serverVars

LEMMA FinishMeshKeeps ==
    ASSUME SceneInv, NEW i \in DOMAIN pending, FinishMesh(i)
    PROVE  SceneInv'
<1>0. /\ pending \in Seq(Job) /\ DOMAIN pending = 1 .. Len(pending)
      /\ pending' = [pending EXCEPT ![i].done = TRUE]
      /\ UNCHANGED <<camera, terrain, renderVars, mapVars, netVars, serverVars, counters>>
  BY Types, LenProperties DEF SceneInv, FinishMesh
<1> DEFINE j == [pending[i] EXCEPT !.done = TRUE]
<1>1. j \in Job /\ j.pos = pending[i].pos
  <2>1. pending[i] \in Job
    BY <1>0, ElementOfSeq
  <2> QED BY <2>1 DEF Job
<1>2. pending' = [pending EXCEPT ![i] = j]
  BY <1>0
<1> HIDE DEF j
<1>3. /\ pending' \in Seq(Job) /\ Len(pending') = Len(pending)
      /\ \A k \in 1 .. Len(pending) : pending'[k] = IF k = i THEN j ELSE pending[k]
  <2>1. i \in 1 .. Len(pending) /\ pending \in Seq(Job)
    BY <1>0
  <2>2. /\ [pending EXCEPT ![i] = j] \in Seq(Job)
        /\ Len([pending EXCEPT ![i] = j]) = Len(pending)
        /\ \A k \in 1 .. Len(pending) :
              [pending EXCEPT ![i] = j][k] = IF k = i THEN j ELSE pending[k]
    BY <1>1, <2>1, ExceptSeq
  <2> QED BY <1>2, <2>2
<1>4. \A x : JobFor(x)' <=> JobFor(x)
  BY <1>1, <1>3 DEF JobFor
<1>5. Typed'
  <2>1. Typed
    BY DEF SceneInv
  <2>2. /\ moves \in 0 .. MaxMoves /\ reading \in [pos : Pos, surface : Version] \cup {<<>>}
        /\ reading # <<>> => reading.pos \in toShow
    BY <2>1 DEF Typed, TypeOK
  <2>3. /\ camera' \in Pos /\ terrain' \in Entries /\ toShow' \in SUBSET Pos
        /\ requests' \in SUBSET Pos /\ moves' = moves /\ reading' = reading
        /\ toShow' = toShow /\ UNCHANGED <<mapVars, serverVars, bg, changes>>
    BY <1>0, <2>1, Types DEF renderVars, netVars, counters
  <2>4. \A p \in Pos : Known(terrain, p)' => Inside(p)'
    BY <1>0, <2>1, Types DEF Known, Inside, InsideOf
  <2>5. /\ moves' \in 0 .. MaxMoves /\ reading' \in [pos : Pos, surface : Version] \cup {<<>>}
        /\ reading' # <<>> => reading'.pos \in toShow'
    BY ONLY <2>2, <2>3
  <2> QED BY ONLY <1>3, <2>1, <2>3, <2>4, <2>5, SceneStepTypes
<1>6. WireInv'
  BY <1>0, WireRests DEF SceneInv, netVars
<1>7. ASSUME NEW p \in Pos PROVE IsFresh(p)' /\ IsServed(p)'
  BY <1>0, <1>4, FreshRests, ServedRests DEF netVars, renderVars, mapVars, Awaited, Drawn
<1> QED BY <1>5, <1>6, <1>7 DEF SceneInv

LEMMA PreRenderKeeps ==
    ASSUME SceneInv, PreRender
    PROVE  SceneInv'
<1>0. /\ Typed /\ terrain \in Entries /\ pending \in Seq(Job)
      /\ terrain' = Placed(terrain, pending) /\ pending' = NotReady(pending)
      /\ UNCHANGED <<camera, renderVars, mapVars, netVars, serverVars, counters>>
  BY Types DEF SceneInv, PreRender
<1>1. PlacedSoFar(terrain, pending, Len(pending), terrain')
  BY <1>0, PlacedResult
<1>2. KeptSoFar(pending, Len(pending), pending')
  BY <1>0, NotReadyResult
<1>3. \A p : JobFor(p)' => JobFor(p)
  BY <1>2 DEF KeptSoFar, JobFor
<1>4. ASSUME NEW p \in Pos
      PROVE  /\ Known(terrain, p)' => Inside(p)'
             /\ Drawn(terrain, p)' => Drawn(terrain, p) \/ JobFor(p)
             /\ Awaited(p)' => Awaited(p) /\ (JobFor(p) => JobFor(p)')
  <2>1. \/ terrain'[p] = terrain[p]
        \/ /\ Inside(p) /\ terrain'[p].query = "inactive"
           /\ \E i \in 1 .. Len(pending) : pending[i].pos = p
        \/ Inside(p) /\ ~Known(terrain, p) /\ terrain'[p] = Idle
    BY <1>1 DEF PlacedSoFar
  <2>2. Known(terrain, p) => Inside(p)
    BY <1>0, Types
  <2>3. Inside(p)' <=> Inside(p)
    BY <1>0 DEF Inside, InsideOf
  <2>4. Awaited(p)' => terrain'[p] = terrain[p] /\ Awaited(p)
    BY <1>0, <2>1 DEF Awaited, Idle, mapVars
  <2>5. ASSUME Awaited(p)', NEW i \in 1 .. Len(pending), pending[i].pos = p
        PROVE  JobFor(p)'
    <3>1. Inside(p)
      BY <2>2, <2>4, <2>5 DEF Awaited, Known
    <3>2. ~pending[i].done
      BY <1>1, <2>5, <3>1 DEF PlacedSoFar, Awaited
    <3> QED BY <1>2, <2>5, <3>2 DEF KeptSoFar, JobFor
  <2>6. Drawn(terrain, p)' => Drawn(terrain, p) \/ JobFor(p)
    BY <2>1 DEF Drawn, Idle, JobFor
  <2>7. Known(terrain, p)' => Inside(p)'
    BY <2>1, <2>2, <2>3 DEF Known
  <2> QED BY <2>4, <2>5, <2>6, <2>7 DEF JobFor
<1>5. Typed'
  <2>1. /\ moves \in 0 .. MaxMoves /\ reading \in [pos : Pos, surface : Version] \cup {<<>>}
        /\ reading # <<>> => reading.pos \in toShow
    BY <1>0 DEF Typed, TypeOK
  <2>2. terrain' \in Entries /\ pending' \in Seq(Job)
    BY <1>1, <1>2 DEF PlacedSoFar, KeptSoFar
  <2>3. /\ camera' \in Pos /\ toShow' \in SUBSET Pos
        /\ requests' \in SUBSET Pos /\ moves' = moves /\ reading' = reading
        /\ toShow' = toShow /\ UNCHANGED <<mapVars, serverVars, bg, changes>>
    BY <1>0, Types DEF renderVars, netVars, counters
  <2>4. \A p \in Pos : Known(terrain, p)' => Inside(p)'
    BY <1>4
  <2>5. /\ moves' \in 0 .. MaxMoves /\ reading' \in [pos : Pos, surface : Version] \cup {<<>>}
        /\ reading' # <<>> => reading'.pos \in toShow'
    BY ONLY <2>1, <2>3
  <2>6. Typed
    BY <1>0
  <2> QED BY ONLY <2>2, <2>3, <2>4, <2>5, <2>6, SceneStepTypes
<1>6. WireInv'
  BY <1>0, WireRests DEF SceneInv, netVars
<1>7. ASSUME NEW p \in Pos PROVE IsFresh(p)' /\ IsServed(p)'
  <2>1. IsFresh(p)'
    BY <1>0, <1>3, <1>4, FreshRests DEF netVars
  <2>2. IsServed(p)'
    BY <1>0, <1>4, ServedRests DEF netVars, renderVars
  <2> QED BY <2>1, <2>2
<1> QED BY <1>5, <1>6, <1>7 DEF SceneInv

\* A step that changes the query of one chunk in view.
LEMMA QueryStep ==
    ASSUME SceneInv, NEW p \in Pos, Unlocked, NEW q \in Query \ {"none"},
           terrain[p].query = "idle" \/ terrain[p].query = "busy",
           terrain' = [terrain EXCEPT ![p].query = q],
           UNCHANGED <<camera, pending, reading, mapVars, netVars, serverVars, counters>>,
           IF q = "visible" THEN toShow' = {p} ELSE UNCHANGED toShow
    PROVE  SceneInv'
<1>0. Typed /\ terrain \in Entries
  BY Types DEF SceneInv
<1>1. /\ terrain' \in Entries
      /\ \A x \in Pos :
            /\ terrain'[x].mesh = terrain[x].mesh
            /\ terrain'[x].query = IF x = p THEN q ELSE terrain[x].query
  <2>1. q \in Query /\ terrain' = WithQuery(terrain, p, q)
    BY DEF WithQuery
  <2>2. /\ WithQuery(terrain, p, q) \in Entries
        /\ \A x \in Pos :
              /\ WithQuery(terrain, p, q)[x].mesh = terrain[x].mesh
              /\ WithQuery(terrain, p, q)[x].query = IF x = p THEN q ELSE terrain[x].query
    BY ONLY <1>0, <2>1, p \in Pos, EntryAfter
  <2> QED BY ONLY <2>1, <2>2
<1>2. Typed'
  <2>1. moves \in 0 .. MaxMoves /\ reading = <<>> /\ toShow' \in SUBSET Pos
        /\ reading \in [pos : Pos, surface : Version] \cup {<<>>}
    BY <1>0 DEF Typed, TypeOK, Unlocked
  <2>2. \A x \in Pos : Known(terrain, x)' => Inside(x)'
    BY <1>0, <1>1, Types DEF Known, Inside, InsideOf
  <2> QED BY <1>0, <1>1, <2>1, <2>2, Types, SceneStepTypes DEF netVars, counters
<1>3. WireInv'
  BY WireRests DEF SceneInv, netVars
<1>4. ASSUME NEW x \in Pos PROVE IsFresh(x)' /\ IsServed(x)'
  <2>1. JobFor(x)' <=> JobFor(x)
    BY DEF JobFor
  <2>2. IsFresh(x)'
    BY <1>1, <2>1, FreshRests DEF Drawn, netVars
  <2>3. CASE x = p /\ q = "visible"
    <3>1. x \in toShow'
      BY <2>3
    <3> QED BY <2>2, <3>1 DEF IsServed
  <2>4. CASE ~(x = p /\ q = "visible")
    <3>1. Awaited(x)' => Awaited(x)
      BY <1>1, <2>4 DEF Awaited, mapVars
    <3> QED BY <2>1, <2>2, <3>1, ServedRests DEF Unlocked, netVars
  <2> QED BY <2>2, <2>3, <2>4
<1> QED BY <1>2, <1>3, <1>4 DEF SceneInv

LEMMA QueriesKeep ==
    ASSUME SceneInv, Queries
    PROVE  SceneInv'
<1>1. ASSUME NEW p \in Pos, HandleOcclusionQuery(p) PROVE SceneInv'
  <2>1. "busy" \in Query \ {"none"} /\ "busy" # "visible"
    BY DEF Query
  <2> QED BY <1>1, <2>1, QueryStep DEF HandleOcclusionQuery, renderVars
<1>2. ASSUME NEW p \in Pos, NotSeen(p) PROVE SceneInv'
  <2>1. "idle" \in Query \ {"none"} /\ "idle" # "visible"
    BY DEF Query
  <2> QED BY <1>2, <2>1, QueryStep DEF NotSeen, renderVars
<1>3. ASSUME NEW p \in Pos, Seen(p) PROVE SceneInv'
  <2>1. "visible" \in Query \ {"none"}
    BY DEF Query
  <2> QED BY <1>3, <2>1, QueryStep DEF Seen
<1> QED BY <1>1, <1>2, <1>3 DEF Queries

LEMMA ShowMissingKeeps ==
    ASSUME SceneInv, NEW p \in Pos, ShowMissing(p)
    PROVE  SceneInv'
<1>0. /\ Typed /\ reading = <<>> /\ ~Stored(p)
      /\ toShow' = toShow \ {p} /\ requests' = requests \cup {p}
      /\ UNCHANGED <<sceneVars, reading, mapVars, bg, serverVars, counters>>
  BY DEF SceneInv, ShowMissing, RequestChunk
<1>1. Typed'
  <2>1. moves \in 0 .. MaxMoves
        /\ reading \in [pos : Pos, surface : Version] \cup {<<>>}
    BY <1>0 DEF Typed, TypeOK
  <2> QED BY <1>0, <2>1, Types, SceneStepTypes
          DEF sceneVars, counters, Known, Inside, InsideOf
<1>2. WireInv'
  BY <1>0, WireRests DEF SceneInv
<1>3. ASSUME NEW x \in Pos PROVE IsFresh(x)' /\ IsServed(x)'
  <2>1. /\ JobFor(x)' <=> JobFor(x)
        /\ Awaited(x)' <=> Awaited(x)
        /\ Drawn(terrain, x)' <=> Drawn(terrain, x)
    BY <1>0 DEF JobFor, Awaited, Drawn, sceneVars, mapVars
  <2>2. IsFresh(x)'
    BY <1>0, <2>1, FreshRests
  <2>3. CASE x # p
    BY <1>0, <2>1, <2>2, <2>3, ServedRests
  <2>4. CASE x = p
    <3>1. CASE surf[p] = 0
      <4>1. p \in requests' /\ surf'[p] = 0
        BY <1>0, <3>1 DEF mapVars
      <4> QED BY <2>2, <2>4, <4>1 DEF IsServed
    <3>2. CASE surf[p] # 0
      <4>1. light[p] # surf[p]
        BY <1>0, <3>2, Types DEF Stored
      <4>2. InHand(p, {"light"})
        BY <4>1 DEF SceneInv, WireInv, StoreOK
      <4>3. InHand(p, {"light", "set", "query"})'
        BY <1>0, <4>2 DEF InHand
      <4> QED BY <2>2, <2>4, <4>3 DEF IsServed
    <3> QED BY <2>2, <3>1, <3>2
  <2> QED BY <2>2, <2>3, <2>4
<1> QED BY <1>1, <1>2, <1>3 DEF SceneInv

LEMMA ShowStoredKeeps ==
    ASSUME SceneInv, NEW p \in Pos, ShowStored(p)
    PROVE  SceneInv'
<1>0. /\ Typed /\ p \in toShow /\ reading' = [pos |-> p, surface |-> surf[p]]
      /\ UNCHANGED <<sceneVars, toShow, mapVars, netVars, serverVars, counters>>
  BY DEF SceneInv, ShowStored
<1>1. Typed'
  <2>1. moves \in 0 .. MaxMoves /\ surf[p] \in Version
    BY <1>0, Types DEF Typed, TypeOK
  <2>2. reading' \in [pos : Pos, surface : Version] \cup {<<>>} /\ reading'.pos = p
    BY <1>0, <2>1
  <2> HIDE <1>0
  <2>3. /\ Typed /\ p \in toShow
        /\ UNCHANGED <<sceneVars, toShow, mapVars, netVars, serverVars, counters>>
    BY <1>0
  <2> QED BY <2>1, <2>2, <2>3, Types, SceneStepTypes
          DEF sceneVars, netVars, counters, Known, Inside, InsideOf
<1>2. WireInv'
  BY <1>0, WireRests DEF SceneInv, netVars
<1>3. ASSUME NEW x \in Pos PROVE IsFresh(x)' /\ IsServed(x)'
  <2>1. /\ JobFor(x)' <=> JobFor(x)
        /\ Awaited(x)' <=> Awaited(x)
        /\ Drawn(terrain, x)' <=> Drawn(terrain, x)
    BY <1>0 DEF JobFor, Awaited, Drawn, sceneVars, mapVars
  <2> QED BY <1>0, <2>1, FreshRests, ServedRests DEF netVars
<1> QED BY <1>1, <1>2, <1>3 DEF SceneInv

LEMMA ShowLitKeeps ==
    ASSUME SceneInv, NEW p \in Pos, ShowLit(p)
    PROVE  SceneInv'
<1>0. /\ Typed /\ reading # <<>> /\ reading.pos = p
      /\ SetScene(p, reading.surface, light[p])
      /\ requests' = requests \cup {p} /\ reading' = <<>> /\ toShow' = toShow \ {p}
      /\ UNCHANGED <<camera, terrain, mapVars, bg, serverVars, counters>>
  BY DEF SceneInv, ShowLit, RequestChunk
<1>1. /\ pending' \in Seq(Job)
      /\ Inside(p) => \E i \in 1 .. Len(pending') : pending'[i].pos = p
      /\ \A x : JobFor(x) => JobFor(x)'
      /\ \A x : JobFor(x)' => JobFor(x) \/ x = p
  <2>1. reading.surface \in Version /\ light[p] \in Version
    BY <1>0, Types, ReadingTypes
  <2> QED BY <1>0, <2>1, SetSceneTypes
<1>2. Typed'
  <2>1. moves \in 0 .. MaxMoves
    BY <1>0 DEF Typed, TypeOK
  <2> QED BY <1>0, <1>1, <2>1, Types, SceneStepTypes DEF counters, Known, Inside, InsideOf
<1>3. WireInv'
  BY <1>0, WireRests DEF SceneInv
<1>4. ASSUME NEW x \in Pos PROVE IsFresh(x)' /\ IsServed(x)'
  <2>1. /\ Awaited(x)' <=> Awaited(x)
        /\ Drawn(terrain, x)' <=> Drawn(terrain, x)
    BY <1>0 DEF Awaited, Drawn, mapVars
  <2>2. CASE x # p
    BY <1>0, <1>1, <2>1, <2>2, FreshRests, ServedRests
  <2>3. CASE x = p
    <3>1. IsFresh(x)'
      BY <1>0, <2>3 DEF IsFresh
    <3>2. Awaited(x) => Inside(x)
      BY <1>0, Types DEF Awaited, Known
    <3>3. Awaited(x)' => JobFor(x)'
      BY <1>1, <2>1, <2>3, <3>2 DEF JobFor
    <3> QED BY <3>1, <3>3 DEF IsServed
  <2> QED BY <2>2, <2>3
<1> QED BY <1>2, <1>3, <1>4 DEF SceneInv

LEMMA MoveCameraToKeeps ==
    ASSUME SceneInv, NEW c \in Pos, MoveCameraTo(c)
    PROVE  SceneInv'
<1> DEFINE kept == [p \in Pos |-> IF InsideOf(c, p) THEN terrain[p]
                                  ELSE [mesh |-> NoMesh, query |-> "none"]]
           ps == Rechecked(kept, camera, c)
<1>0. /\ Typed /\ Unlocked /\ moves < MaxMoves /\ moves' = moves + 1 /\ camera' = c
      /\ terrain' = MakeQueries(kept, ps)
      /\ toShow' = {p \in Surroundings(c) : ~Drawn(terrain, p)}
      /\ UNCHANGED <<pending, reading, mapVars, netVars, serverVars, changes>>
  BY DEF SceneInv, MoveCameraTo
<1>1. kept \in Entries
  <2>1. [mesh |-> NoMesh, query |-> "none"] \in Entry
    BY NoMeshIsMesh DEF Entry, Query
  <2>2. terrain \in Entries
    BY <1>0, Types
  <2> QED BY <2>1, <2>2 DEF Entries
<1>2. /\ terrain' \in Entries
      /\ \A p \in Pos : terrain'[p] = IF p \in ps THEN Idle ELSE kept[p]
  BY <1>0, <1>1, QueriesMade
<1>3. \A p \in ps : p \in Pos /\ Drawn(kept, p)
  BY DEF Rechecked
<1>4. ASSUME NEW p \in Pos
      PROVE  /\ Known(terrain, p)' => Inside(p)'
             /\ Drawn(terrain, p)' => Drawn(terrain, p)
             /\ Awaited(p)' => Awaited(p)
  <2>1. \/ InsideOf(c, p) /\ terrain'[p] \in {terrain[p], Idle}
        \/ terrain'[p] = [mesh |-> NoMesh, query |-> "none"]
    <3>1. Drawn(kept, p) => InsideOf(c, p)
      BY DEF Drawn
    <3> QED BY <1>2, <1>3, <3>1
  <2> QED BY <1>0, <2>1 DEF Known, Drawn, Awaited, Idle, Inside, mapVars
<1>5. Typed'
  <2>1. moves' \in 0 .. MaxMoves /\ toShow' \in SUBSET Pos /\ reading' = <<>>
        /\ reading \in [pos : Pos, surface : Version] \cup {<<>>}
    BY <1>0, SceneShape DEF Typed, TypeOK, Unlocked, Surroundings
  <2> QED BY <1>0, <1>2, <1>4, <2>1, Types, SceneStepTypes DEF netVars
<1>6. WireInv'
  BY <1>0, WireRests DEF SceneInv, netVars
<1>7. ASSUME NEW p \in Pos PROVE IsFresh(p)' /\ IsServed(p)'
  <2>1. JobFor(p)' <=> JobFor(p)
    BY <1>0 DEF JobFor
  <2>2. p \notin toShow
    BY <1>0 DEF Unlocked
  <2> QED BY <1>0, <1>4, <2>1, <2>2, FreshRests, ServedRests DEF netVars
<1> QED BY <1>5, <1>6, <1>7 DEF SceneInv

-----------------------------------------------------------------------------
(***************************************************************************)
(* The background thread and the server.                                   *)
(***************************************************************************)

\* A step of the background thread or of the server.
LEMMA ReceiptTypes ==
    ASSUME Typed, UNCHANGED <<camera, reading, toShow, moves>>,
           surf' \in [Pos -> Version], light' \in [Pos -> Version],
           height' \in [Pos -> Height], server' \in [Pos -> Version],
           wire' \in Seq(Packet), pending' \in Seq(Job), terrain' \in Entries,
           requests' \in SUBSET Pos, changes' \in 0 .. MaxChanges,
           bg' \in [step : {"light", "set"}, pos : Pos, version : Version]
                   \cup [step : {"query"}, pos : Pos] \cup {<<>>},
           \A p \in Pos : server'[p] <= changes' + 2,
           \A p \in Pos : Known(terrain', p) => Inside(p)
    PROVE  Typed'
BY DEF Typed, TypeOK, Entries, Known, Inside, InsideOf

\* What is in the wire after the head of it was taken.
LEMMA TailKeeps ==
    ASSUME SceneInv, wire # <<>>
    PROVE  /\ Rises(Tail(wire))
           /\ \A i \in 1 .. Len(Tail(wire)) :
                 LET m == Tail(wire)[i] IN
                    /\ server[m.pos] > 0 \/ IsHeight(m, m.pos, "air")
                    /\ m.type = "surface" =>
                          /\ m.version <= server[m.pos]
                          /\ Coming(Tail(wire), m.pos, server[m.pos])
                    /\ \A p \in Pos : IsHeight(m, p, "air") /\ server[p] > 0
                          => GroundAfter(Tail(wire), i, p, server[p])
<1> DEFINE w == Tail(wire)
<1>0. /\ wire \in Seq(Packet) /\ Rises(wire) /\ PacketsOK /\ AirIsCorrected
      /\ server \in [Pos -> Version] /\ Version \subseteq Nat
  BY Types DEF SceneInv, WireInv
<1>1. /\ w \in Seq(Packet) /\ Len(w) = Len(wire) - 1 /\ Len(wire) \in Nat \ {0}
      /\ \A i \in 1 .. Len(w) : w[i] = wire[i + 1]
  BY <1>0, TailPackets
<1>2. Rises(w)
  BY <1>0, RisesInTail
<1>3. \A p, v : Coming(wire, p, v) => IsSurface(wire[1], p, v) \/ Coming(w, p, v)
  BY <1>0, ComingInTail
<1>4. \A p, v : \A i \in Nat : GroundAfter(wire, i + 1, p, v) => GroundAfter(w, i, p, v)
  BY <1>0, GroundInTail
<1> HIDE DEF w
<1>5. ASSUME NEW i \in 1 .. Len(w), NEW m, m = w[i]
      PROVE  /\ server[m.pos] > 0 \/ IsHeight(m, m.pos, "air")
             /\ m.type = "surface" =>
                   m.version <= server[m.pos] /\ Coming(w, m.pos, server[m.pos])
             /\ \A p \in Pos : IsHeight(m, p, "air") /\ server[p] > 0
                   => GroundAfter(w, i, p, server[p])
  <2>1. i + 1 \in 1 .. Len(wire) /\ m = wire[i + 1] /\ i \in Nat /\ 1 \in 1 .. Len(wire)
        /\ 1 < i + 1
    BY <1>1, <1>5
  <2>2. m \in Packet /\ m.pos \in Pos /\ server[m.pos] \in Nat
    <3>1. m \in Packet
      BY <1>0, <2>1, ElementOfSeq
    <3> QED BY <1>0, <3>1, PacketTypes
  <2>3. /\ server[m.pos] > 0 \/ IsHeight(m, m.pos, "air")
        /\ m.type = "surface" =>
              m.version <= server[m.pos] /\ Coming(wire, m.pos, server[m.pos])
    BY <1>0, <2>1 DEF PacketsOK
  <2>4. ASSUME m.type = "surface", IsSurface(wire[1], m.pos, server[m.pos])
        PROVE  Coming(w, m.pos, server[m.pos])
    <3>1. server[m.pos] <= m.version
      BY <1>0, <2>1, <2>4 DEF Rises, IsSurface
    <3>2. m.version \in Nat
      BY <1>0, <2>2, <2>4, PacketTypes
    <3>3. m.version = server[m.pos]
      BY <2>2, <2>3, <2>4, <3>1, <3>2
    <3> QED BY <1>5, <2>4, <3>3 DEF Coming, IsSurface
  <2>5. \A p \in Pos : IsHeight(m, p, "air") /\ server[p] > 0
           => GroundAfter(wire, i + 1, p, server[p])
    BY <1>0, <2>1 DEF AirIsCorrected
  <2> QED BY <1>3, <1>4, <2>1, <2>3, <2>4, <2>5
<1> QED BY <1>2, <1>5 DEF w

LEMMA TailWire ==
    ASSUME SceneInv, wire # <<>>, wire' = Tail(wire), server' = server,
           \A p \in Pos : height'[p] = "air" =>
              \/ height[p] = "air" /\ ~IsHeight(wire[1], p, "ground")
              \/ IsHeight(wire[1], p, "air")
    PROVE  Rises(wire)' /\ PacketsOK' /\ AirIsCorrected'
<1>0. wire \in Seq(Packet) /\ AirIsCorrected /\ 1 \in 1 .. Len(wire)
  <2>1. wire \in Seq(Packet) /\ AirIsCorrected
    BY Types DEF SceneInv, WireInv
  <2>2. Len(wire) \in Nat \ {0}
    BY <2>1, TailPackets
  <2> QED BY <2>1, <2>2
<1>1. Rises(wire') /\ PacketsOK'
  BY TailKeeps DEF PacketsOK
<1>2. ASSUME NEW p \in Pos, server[p] > 0, height'[p] = "air"
      PROVE  GroundAfter(Tail(wire), 0, p, server[p])
  <2>1. CASE height[p] = "air" /\ ~IsHeight(wire[1], p, "ground")
    <3>1. GroundAfter(wire, 0, p, server[p])
      BY <1>0, <1>2, <2>1 DEF AirIsCorrected
    <3> QED BY <1>0, <2>1, <3>1, GroundInTail
  <2>2. CASE IsHeight(wire[1], p, "air")
    <3>1. GroundAfter(wire, 0 + 1, p, server[p])
      BY <1>0, <1>2, <2>2 DEF AirIsCorrected
    <3> QED BY <1>0, <3>1, GroundInTail
  <2> QED BY <1>2, <2>1, <2>2
<1>3. ASSUME NEW p \in Pos, server[p] > 0,
             NEW i \in 1 .. Len(Tail(wire)), IsHeight(Tail(wire)[i], p, "air")
      PROVE  GroundAfter(Tail(wire), i, p, server[p])
  BY <1>3, TailKeeps
<1> QED BY <1>1, <1>2, <1>3 DEF AirIsCorrected

\* Besides its head, the wire still has its packets.
LEMMA OthersInTail ==
    ASSUME SceneInv, wire # <<>>, NEW p, NEW i \in 1 .. Len(wire),
           wire[i].pos = p /\ ~IsHeight(wire[i], p, "ground"),
           wire[1].pos # p \/ IsHeight(wire[1], p, "ground")
    PROVE  \E k \in 1 .. Len(Tail(wire)) :
              Tail(wire)[k].pos = p /\ ~IsHeight(Tail(wire)[k], p, "ground")
<1>1. /\ wire \in Seq(Packet) /\ Len(wire) \in Nat /\ Len(Tail(wire)) = Len(wire) - 1
      /\ \A k \in 1 .. Len(wire) - 1 : Tail(wire)[k] = wire[k + 1]
  BY Types, TailPackets DEF SceneInv
<1>2. i # 1
  OBVIOUS
<1>3. i - 1 \in 1 .. Len(wire) - 1 /\ (i - 1) + 1 = i
  BY <1>1, <1>2
<1>4. Tail(wire)[i - 1] = wire[i]
  BY <1>1, <1>3
<1> QED BY <1>1, <1>3, <1>4

LEMMA ReceiveSurfaceKeeps ==
    ASSUME SceneInv, ReceiveSurface
    PROVE  SceneInv'
<1> DEFINE q == wire[1].pos
           v == wire[1].version
<1>0. /\ Typed /\ bg = <<>> /\ wire # <<>> /\ wire \in Seq(Packet)
      /\ StoreOK /\ PacketsOK /\ server \in [Pos -> Version] /\ Version \subseteq Nat
      /\ wire[1].type = "surface" /\ 1 \in 1 .. Len(wire)
      /\ surf' = [surf EXCEPT ![q] = v] /\ wire' = Tail(wire)
      /\ bg' = [step |-> "light", pos |-> q, version |-> v]
      /\ UNCHANGED <<sceneVars, renderVars, light, height, requests, server, counters>>
  <2>1. wire # <<>> /\ wire \in Seq(Packet)
    BY Types DEF SceneInv, ReceiveSurface
  <2>2. Head(wire) = wire[1] /\ 1 \in 1 .. Len(wire)
    BY <2>1, TailPackets
  <2> QED BY <2>1, <2>2, Types DEF SceneInv, WireInv, ReceiveSurface
<1>1. q \in Pos /\ v \in Version /\ server[q] \in Nat
  <2>1. wire[1] \in Packet
    BY <1>0, ElementOfSeq
  <2> QED BY <1>0, <2>1, PacketTypes
<1>2. /\ v <= server[q] /\ server[q] > 0
      /\ v = server[q] \/ Coming(wire', q, server[q])
  <2>1. Coming(wire, q, server[q]) /\ v <= server[q]
        /\ (server[q] > 0 \/ IsHeight(wire[1], q, "air"))
    BY <1>0 DEF PacketsOK
  <2>2. IsSurface(wire[1], q, server[q]) \/ Coming(Tail(wire), q, server[q])
    BY <1>0, <2>1, ComingInTail
  <2> QED BY <1>0, <2>1, <2>2 DEF IsSurface, IsHeight
<1>3. bg' # <<>> /\ bg'.step = "light" /\ bg'.pos = q /\ bg'.version = v
  BY <1>0, RecordsAreNotEmpty
<1>4. \A p, st : InHand(p, st)' <=> p = q /\ "light" \in st
  BY <1>3 DEF InHand
<1> HIDE DEF q, v
<1>5. \A p \in Pos : surf'[p] = IF p = q THEN v ELSE surf[p]
  BY <1>0, <1>1, Types
<1>6. Typed'
  <2>1. /\ surf' \in [Pos -> Version] /\ wire' \in Seq(Packet)
        /\ bg' \in [step : {"light", "set"}, pos : Pos, version : Version]
    BY <1>0, <1>1, Types, TailPackets
  <2>2. /\ UNCHANGED <<camera, reading, toShow, moves, light, height, server,
                       pending, terrain, requests, changes>>
        /\ changes \in 0 .. MaxChanges /\ \A p \in Pos : server[p] <= changes + 2
    BY <1>0 DEF Typed, TypeOK, sceneVars, renderVars, counters
  <2> QED BY <1>0, <2>1, <2>2, Types, ReceiptTypes
<1>7. WireInv'
  <2>1. Rises(wire)' /\ PacketsOK' /\ AirIsCorrected'
    BY <1>0, TailWire DEF IsHeight
  <2>2. ASSUME NEW p \in Pos
        PROVE  /\ surf'[p] <= server'[p] /\ (height'[p] = "ground" => server'[p] > 0)
               /\ light'[p] = surf'[p] \/ InHand(p, {"light"})'
               /\ InHand(p, {"light"})' => bg'.version = surf'[p]
    <3>1. /\ surf[p] <= server[p] /\ (height[p] = "ground" => server[p] > 0)
          /\ light[p] = surf[p]
      BY <1>0 DEF StoreOK, InHand
    <3> QED BY <1>0, <1>2, <1>3, <1>4, <1>5, <3>1
  <2> QED BY <2>1, <2>2 DEF WireInv, StoreOK
<1>8. ASSUME NEW p \in Pos PROVE IsFresh(p)' /\ IsServed(p)'
  <2>1. IsFresh(p) /\ IsServed(p)
    BY DEF SceneInv
  <2>2. /\ Awaited(p)' <=> Awaited(p)
        /\ Drawn(terrain, p)' <=> Drawn(terrain, p)
        /\ JobFor(p)' <=> JobFor(p)
        /\ UNCHANGED <<toShow, requests, server>>
    BY <1>0 DEF Awaited, Drawn, JobFor, sceneVars, renderVars
  <2>3. CASE p = q
    BY <1>2, <1>4, <1>5, <2>2, <2>3 DEF IsFresh, IsServed
  <2>4. CASE p # q
    <3>1. surf'[p] = surf[p] /\ ~InHand(p, {"light", "set"})
          /\ ~InHand(p, {"light", "set", "query"})
      BY <1>0, <1>5, <2>4 DEF InHand
    <3>2. Coming(wire, p, server[p]) => Coming(wire', p, server[p])
      <4>1. ~IsSurface(wire[1], p, server[p])
        BY <2>4 DEF IsSurface, q
      <4> QED BY <1>0, <4>1, ComingInTail
    <3>3. IsFresh(p)'
      BY <1>4, <2>1, <2>2, <2>4, <3>1, <3>2 DEF IsFresh
    <3>4. ASSUME NEW i \in 1 .. Len(wire),
                 wire[i].pos = p /\ ~IsHeight(wire[i], p, "ground")
          PROVE  \E k \in 1 .. Len(wire') :
                    wire'[k].pos = p /\ ~IsHeight(wire'[k], p, "ground")
      <4>1. wire[1].pos # p
        BY <2>4 DEF q
      <4> QED BY <1>0, <3>4, <4>1, OthersInTail
    <3>5. IsServed(p)'
      BY <2>1, <2>2, <3>1, <3>4 DEF IsServed
    <3> QED BY <3>3, <3>5
  <2> QED BY <2>3, <2>4
<1> QED BY <1>6, <1>7, <1>8 DEF SceneInv

LEMMA StoreLightmapKeeps ==
    ASSUME SceneInv, StoreLightmap
    PROVE  SceneInv'
<1>0. /\ Typed /\ WireInv /\ bg # <<>> /\ bg.step = "light" /\ bg.pos \in Pos
      /\ bg.version \in Version
      /\ light' = [light EXCEPT ![bg.pos] = bg.version]
      /\ bg' = [step |-> "set", pos |-> bg.pos, version |-> bg.version]
      /\ UNCHANGED <<sceneVars, renderVars, surf, height, requests, serverVars, counters>>
  <2>1. /\ Typed /\ WireInv /\ bg # <<>> /\ bg.step = "light"
        /\ light' = [light EXCEPT ![bg.pos] = bg.version]
        /\ bg' = [bg EXCEPT !.step = "set"]
        /\ UNCHANGED <<sceneVars, renderVars, surf, height, requests, serverVars, counters>>
    BY DEF SceneInv, StoreLightmap
  <2>2. /\ bg.pos \in Pos /\ bg.version \in Version
        /\ bg = [step |-> bg.step, pos |-> bg.pos, version |-> bg.version]
    BY <2>1, HandTypes
  <2>3. bg' = [step |-> "set", pos |-> bg.pos, version |-> bg.version]
    BY <2>1, <2>2
  <2> QED BY <2>1, <2>2, <2>3
<1>1. bg' # <<>> /\ bg'.step = "set" /\ bg'.pos = bg.pos
  BY <1>0, RecordsAreNotEmpty
<1>2. /\ \A p, st : InHand(p, st) <=> p = bg.pos /\ "light" \in st
      /\ \A p, st : InHand(p, st)' <=> p = bg.pos /\ "set" \in st
  BY <1>0, <1>1 DEF InHand
<1>3. Typed'
  <2>1. /\ light' \in [Pos -> Version]
        /\ bg' \in [step : {"light", "set"}, pos : Pos, version : Version]
    BY <1>0, Types
  <2>2. /\ UNCHANGED <<camera, reading, toShow, moves, surf, height, server, wire,
                       pending, terrain, requests, changes>>
        /\ changes \in 0 .. MaxChanges /\ \A p \in Pos : server[p] <= changes + 2
    BY <1>0 DEF Typed, TypeOK, sceneVars, renderVars, serverVars, counters
  <2> QED BY <1>0, <2>1, <2>2, Types, ReceiptTypes
<1>4. WireInv'
  <2>1. Rises(wire)' /\ PacketsOK' /\ AirIsCorrected'
    BY <1>0 DEF WireInv, Rises, PacketsOK, AirIsCorrected, Coming, GroundAfter, serverVars
  <2>2. ASSUME NEW p \in Pos PROVE light'[p] = surf[p]
    <3>1. /\ light[p] = surf[p] \/ InHand(p, {"light"})
          /\ InHand(p, {"light"}) => bg.version = surf[p]
      BY <1>0 DEF WireInv, StoreOK
    <3>2. light'[p] = IF p = bg.pos THEN bg.version ELSE light[p]
      BY <1>0, Types
    <3> QED BY <1>2, <3>1, <3>2
  <2>3. \A p \in Pos : ~InHand(p, {"light"})'
    BY <1>2
  <2>4. StoreOK'
    BY <1>0, <2>2, <2>3 DEF WireInv, StoreOK, serverVars
  <2> QED BY <2>1, <2>4 DEF WireInv
<1>5. ASSUME NEW p \in Pos PROVE IsFresh(p)' /\ IsServed(p)'
  <2>1. IsFresh(p) /\ IsServed(p)
    BY DEF SceneInv
  <2>2. /\ Awaited(p)' <=> Awaited(p)
        /\ Drawn(terrain, p)' <=> Drawn(terrain, p)
        /\ JobFor(p)' <=> JobFor(p)
        /\ UNCHANGED <<toShow, requests, server, wire, surf>>
    BY <1>0 DEF Awaited, Drawn, JobFor, sceneVars, renderVars, serverVars
  <2>3. /\ InHand(p, {"light", "set"})' <=> InHand(p, {"light", "set"})
        /\ InHand(p, {"light", "set", "query"})' <=> InHand(p, {"light", "set", "query"})
    BY <1>2
  <2> QED BY <2>1, <2>2, <2>3 DEF IsFresh, IsServed
<1> QED BY <1>3, <1>4, <1>5 DEF SceneInv

LEMMA SetReceivedKeeps ==
    ASSUME SceneInv, SetReceived
    PROVE  SceneInv'
<1>0. /\ Typed /\ WireInv /\ bg # <<>> /\ bg.step = "set" /\ bg.pos \in Pos
      /\ SetScene(bg.pos, surf[bg.pos], light[bg.pos]) /\ bg' = <<>>
      /\ UNCHANGED <<camera, terrain, renderVars, mapVars, requests, serverVars, counters>>
  BY HandTypes DEF SceneInv, SetReceived
<1>1. /\ pending' \in Seq(Job)
      /\ Inside(bg.pos) => \E i \in 1 .. Len(pending') : pending'[i].pos = bg.pos
      /\ \A x : JobFor(x) => JobFor(x)'
      /\ \A x : JobFor(x)' => JobFor(x) \/ x = bg.pos
  <2>1. surf[bg.pos] \in Version /\ light[bg.pos] \in Version
    BY <1>0, Types
  <2> QED BY <1>0, <2>1, SetSceneTypes
<1>2. /\ \A p, st : InHand(p, st) <=> p = bg.pos /\ "set" \in st
      /\ \A p, st : ~InHand(p, st)'
  BY <1>0 DEF InHand
<1>3. Typed'
  <2>1. /\ UNCHANGED <<camera, reading, toShow, moves, surf, light, height, server, wire,
                       terrain, requests, changes>>
        /\ changes \in 0 .. MaxChanges /\ \A p \in Pos : server[p] <= changes + 2
    BY <1>0 DEF Typed, TypeOK, mapVars, renderVars, serverVars, counters
  <2> QED BY <1>0, <1>1, <2>1, Types, ReceiptTypes
<1>4. WireInv'
  <2>1. Rises(wire)' /\ PacketsOK' /\ AirIsCorrected'
    BY <1>0 DEF WireInv, Rises, PacketsOK, AirIsCorrected, Coming, GroundAfter,
                serverVars, mapVars
  <2>2. \A p \in Pos : ~InHand(p, {"light"}) /\ ~InHand(p, {"light"})'
    BY <1>2
  <2>3. StoreOK'
    BY <1>0, <2>2 DEF WireInv, StoreOK, serverVars, mapVars
  <2> QED BY <2>1, <2>3 DEF WireInv
<1>5. ASSUME NEW p \in Pos PROVE IsFresh(p)' /\ IsServed(p)'
  <2>1. IsFresh(p) /\ IsServed(p)
    BY DEF SceneInv
  <2>2. /\ Awaited(p)' <=> Awaited(p)
        /\ Drawn(terrain, p)' <=> Drawn(terrain, p)
        /\ UNCHANGED <<toShow, requests, server, wire, surf>>
    BY <1>0 DEF Awaited, Drawn, mapVars, renderVars, serverVars
  <2>3. IsFresh(p)'
    <3>1. JobFor(p)' => JobFor(p) \/ InHand(p, {"light", "set"})
      BY <1>1, <1>2
    <3> QED BY <1>2, <2>1, <2>2, <3>1 DEF IsFresh
  <2>4. Awaited(p) => Inside(p)
    BY <1>0, Types DEF Awaited, Known
  <2>5. Awaited(p) /\ p = bg.pos => JobFor(p)'
    BY <1>1, <2>4 DEF JobFor
  <2>6. InHand(p, {"light", "set", "query"}) => p = bg.pos
    BY <1>2
  <2>7. IsServed(p)'
    BY <1>1, <2>1, <2>2, <2>5, <2>6 DEF IsServed
  <2> QED BY <2>3, <2>7
<1> QED BY <1>3, <1>4, <1>5 DEF SceneInv

LEMMA ReceiveHeightKeeps ==
    ASSUME SceneInv, ReceiveHeight
    PROVE  SceneInv'
<1> DEFINE q == wire[1].pos
           h == wire[1].height
<1>0. /\ Typed /\ WireInv /\ bg = <<>> /\ wire # <<>> /\ wire \in Seq(Packet)
      /\ wire[1].type = "height" /\ 1 \in 1 .. Len(wire)
      /\ height' = [height EXCEPT ![q] = h] /\ wire' = Tail(wire)
      /\ bg' = IF h # height[q] /\ h = "ground"
               THEN [step |-> "query", pos |-> q] ELSE <<>>
      /\ UNCHANGED <<sceneVars, renderVars, surf, light, requests, server, counters>>
  <2>1. wire # <<>> /\ wire \in Seq(Packet)
    BY Types DEF SceneInv, ReceiveHeight
  <2>2. Head(wire) = wire[1] /\ 1 \in 1 .. Len(wire)
    BY <2>1, TailPackets
  <2> QED BY <2>1, <2>2 DEF SceneInv, ReceiveHeight
<1>1. q \in Pos /\ h \in {"air", "ground"} /\ IsHeight(wire[1], q, h)
  <2>1. wire[1] \in Packet
    BY <1>0, ElementOfSeq
  <2> QED BY <1>0, <2>1, PacketTypes DEF IsHeight
<1>2. h = "ground" => server[q] > 0
  <2>1. server[q] > 0 \/ IsHeight(wire[1], q, "air")
    BY <1>0 DEF WireInv, PacketsOK
  <2> QED BY <2>1 DEF IsHeight
<1>3. /\ \A p : ~InHand(p, {"light"})' /\ ~InHand(p, {"light", "set"})'
      /\ \A p, st : ~InHand(p, st)
      /\ \A p : p = q /\ h # height[q] /\ h = "ground"
                => InHand(p, {"light", "set", "query"})'
  <2>1. CASE h # height[q] /\ h = "ground"
    <3>1. bg' # <<>> /\ bg'.step = "query" /\ bg'.pos = q
      BY <1>0, <2>1, RecordsAreNotEmpty
    <3>2. bg = <<>>
      BY <1>0
    <3> HIDE DEF q, h
    <3> QED BY <3>1, <3>2 DEF InHand
  <2>2. CASE ~(h # height[q] /\ h = "ground")
    BY <1>0, <2>2 DEF InHand
  <2> QED BY <2>1, <2>2
<1>4. \A p \in Pos : height'[p] = IF p = q THEN h ELSE height[p]
  BY <1>0, <1>1, Types
<1>5. Typed'
  <2>1. height' \in [Pos -> Height] /\ wire' \in Seq(Packet)
    <3>1. h \in Height /\ height \in [Pos -> Height]
      BY <1>0, <1>1, Types DEF Height
    <3> HIDE DEF h, q
    <3> QED BY <1>0, <3>1, TailPackets
  <2>2. bg' \in [step : {"query"}, pos : Pos] \cup {<<>>}
    BY <1>0, <1>1
  <2>3. /\ UNCHANGED <<camera, reading, toShow, moves, surf, light, server,
                       pending, terrain, requests, changes>>
        /\ changes \in 0 .. MaxChanges /\ \A p \in Pos : server[p] <= changes + 2
    BY <1>0 DEF Typed, TypeOK, sceneVars, renderVars, counters
  <2> HIDE DEF q, h
  <2> QED BY <1>0, <2>1, <2>2, <2>3, Types, ReceiptTypes
<1>6. WireInv'
  <2>1. \A p \in Pos : height'[p] = "air" =>
           \/ height[p] = "air" /\ ~IsHeight(wire[1], p, "ground")
           \/ IsHeight(wire[1], p, "air")
    BY <1>1, <1>4 DEF IsHeight
  <2>2. Rises(wire)' /\ PacketsOK' /\ AirIsCorrected'
    BY <1>0, <2>1, TailWire
  <2> HIDE DEF q, h
  <2>3. ASSUME NEW p \in Pos
        PROVE  /\ surf'[p] <= server'[p] /\ (height'[p] = "ground" => server'[p] > 0)
               /\ light'[p] = surf'[p]
    <3>1. /\ surf[p] <= server[p] /\ (height[p] = "ground" => server[p] > 0)
          /\ light[p] = surf[p]
      BY <1>0, <1>3 DEF WireInv, StoreOK
    <3> QED BY <1>0, <1>2, <1>4, <3>1
  <2> QED BY <1>3, <2>2, <2>3 DEF WireInv, StoreOK
<1>7. ASSUME NEW p \in Pos PROVE IsFresh(p)' /\ IsServed(p)'
  <2>1. IsFresh(p) /\ IsServed(p)
    BY DEF SceneInv
  <2>2. /\ Drawn(terrain, p)' <=> Drawn(terrain, p)
        /\ JobFor(p)' <=> JobFor(p)
        /\ UNCHANGED <<terrain, toShow, requests, server, surf>>
    BY <1>0 DEF Drawn, JobFor, sceneVars, renderVars
  <2>3. Coming(wire, p, server[p]) => Coming(wire', p, server[p])
    <3>1. ~IsSurface(wire[1], p, server[p])
      BY <1>0 DEF IsSurface
    <3> QED BY <1>0, <3>1, ComingInTail
  <2>4. IsFresh(p)'
    BY <1>3, <2>1, <2>2, <2>3 DEF IsFresh
  <2>5. ASSUME wire[1].pos # p \/ IsHeight(wire[1], p, "ground"),
               NEW i \in 1 .. Len(wire),
               wire[i].pos = p /\ ~IsHeight(wire[i], p, "ground")
        PROVE  \E k \in 1 .. Len(wire') :
                  wire'[k].pos = p /\ ~IsHeight(wire'[k], p, "ground")
    BY <1>0, <2>5, OthersInTail
  <2>6. CASE p # q \/ (h = "ground" /\ height[q] = "ground")
    <3>1. Awaited(p)' => Awaited(p)
      BY <1>4, <2>2, <2>6 DEF Awaited
    <3>2. wire[1].pos # p \/ IsHeight(wire[1], p, "ground")
      BY <1>1, <2>6
    <3> QED BY <1>3, <2>1, <2>2, <2>4, <2>5, <3>1, <3>2 DEF IsServed
  <2>7. CASE p = q /\ h = "air"
    <3>1. ~Awaited(p)'
      BY <1>4, <2>7 DEF Awaited
    <3> QED BY <2>4, <3>1 DEF IsServed
  <2>8. CASE p = q /\ h = "ground" /\ height[q] # "ground"
    <3>1. InHand(p, {"light", "set", "query"})'
      BY <1>3, <2>8
    <3> QED BY <2>4, <3>1 DEF IsServed
  <2> QED BY <1>1, <2>6, <2>7, <2>8
<1> QED BY <1>5, <1>6, <1>7 DEF SceneInv

LEMMA SetCoarseHeightKeeps ==
    ASSUME SceneInv, SetCoarseHeight
    PROVE  SceneInv'
<1> DEFINE ps == {bg.pos} \cap {p \in Pos : Inside(p)}
<1>0. /\ Typed /\ WireInv /\ bg # <<>> /\ bg.step = "query" /\ bg.pos \in Pos
      /\ terrain' = MakeQueries(terrain, ps) /\ bg' = <<>>
      /\ UNCHANGED <<camera, pending, renderVars, mapVars, requests, serverVars, counters>>
  BY HandTypes DEF SceneInv, SetCoarseHeight
<1>1. /\ terrain' \in Entries
      /\ \A p \in Pos : terrain'[p] = IF p \in ps THEN Idle ELSE terrain[p]
  BY <1>0, Types, QueriesMade
<1>2. /\ \A p, st : InHand(p, st) <=> p = bg.pos /\ "query" \in st
      /\ \A p, st : ~InHand(p, st)'
  BY <1>0 DEF InHand
<1>3. \A p \in Pos : p \in ps <=> p = bg.pos /\ Inside(p)
  OBVIOUS
<1> HIDE DEF ps
<1>4. Typed'
  <2>1. /\ UNCHANGED <<camera, reading, toShow, moves, surf, light, height, server, wire,
                       pending, requests, changes>>
        /\ changes \in 0 .. MaxChanges /\ \A p \in Pos : server[p] <= changes + 2
    BY <1>0 DEF Typed, TypeOK, mapVars, renderVars, serverVars, counters
  <2>2. \A p \in Pos : Known(terrain', p) => Inside(p)
    BY <1>0, <1>1, <1>3, Types DEF Known
  <2> QED BY <1>0, <1>1, <2>1, <2>2, Types, ReceiptTypes
<1>5. WireInv'
  <2>1. Rises(wire)' /\ PacketsOK' /\ AirIsCorrected'
    BY <1>0 DEF WireInv, Rises, PacketsOK, AirIsCorrected, Coming, GroundAfter,
                serverVars, mapVars
  <2>2. \A p \in Pos : ~InHand(p, {"light"}) /\ ~InHand(p, {"light"})'
    BY <1>2
  <2>3. StoreOK'
    BY <1>0, <2>2 DEF WireInv, StoreOK, serverVars, mapVars
  <2> QED BY <2>1, <2>3 DEF WireInv
<1>6. ASSUME NEW p \in Pos PROVE IsFresh(p)' /\ IsServed(p)'
  <2>1. IsFresh(p) /\ IsServed(p)
    BY DEF SceneInv
  <2>2. /\ JobFor(p)' <=> JobFor(p)
        /\ UNCHANGED <<toShow, requests, server, wire, surf, height>>
    BY <1>0 DEF JobFor, mapVars, renderVars, serverVars
  <2>3. Drawn(terrain, p)' => Drawn(terrain, p)
    BY <1>1 DEF Drawn, Idle
  <2>4. IsFresh(p)'
    BY <1>2, <2>1, <2>2, <2>3 DEF IsFresh
  <2>5. Awaited(p)' => Awaited(p) /\ p \notin ps
    BY <1>1, <2>2 DEF Awaited, Idle
  <2>6. Awaited(p) => Inside(p)
    BY <1>0, Types DEF Awaited, Known
  <2>7. Awaited(p)' => Awaited(p) /\ ~InHand(p, {"light", "set", "query"})
    BY <1>2, <1>3, <2>5, <2>6
  <2>8. IsServed(p)'
    BY <2>1, <2>2, <2>7 DEF IsServed
  <2> QED BY <2>4, <2>8
<1> QED BY <1>4, <1>5, <1>6 DEF SceneInv

LEMMA SendRequestsKeeps ==
    ASSUME SceneInv, SendRequests
    PROVE  SceneInv'
<1>0. /\ Typed /\ WireInv /\ bg = <<>> /\ wire \in Seq(Packet) /\ requests' = {}
      /\ UNCHANGED <<sceneVars, renderVars, mapVars, bg, server, counters>>
      /\ requests \in SUBSET Pos /\ server \in [Pos -> Version]
      /\ \A p \in Pos : server[p] \in Nat /\ surf[p] \in Nat
  BY Types DEF SceneInv, SendRequests
<1>1. PICK a : /\ wire' = wire \o a /\ AllFromServer(a)
               /\ \A p \in requests : Answers(a, p)
  BY <1>0, SentResult
<1>2. /\ wire' \in Seq(Packet)
      /\ Len(wire) \in Nat /\ Len(a) \in Nat /\ Len(wire') = Len(wire) + Len(a)
      /\ \A i \in 1 .. Len(wire) : wire'[i] = wire[i]
      /\ \A i \in 1 .. Len(a) : wire'[Len(wire) + i] = a[i]
      /\ \A i \in 1 .. Len(wire') :
            i \in 1 .. Len(wire) \/ \E j \in 1 .. Len(a) : i = Len(wire) + j
  BY <1>0, <1>1, MorePackets DEF AllFromServer
<1>3. /\ \A p, v : Coming(wire, p, v) \/ Coming(a, p, v) => Coming(wire', p, v)
      /\ \A i, p, v : GroundAfter(wire, i, p, v) => GroundAfter(wire', i, p, v)
  BY <1>0, <1>1, ComingInMore, GroundInMore DEF AllFromServer
<1>4. ASSUME NEW i \in 1 .. Len(wire')
      PROVE  \/ i \in 1 .. Len(wire) /\ wire'[i] = wire[i]
             \/ i \notin 1 .. Len(wire) /\ FromServer(wire'[i])
  BY <1>1, <1>2 DEF AllFromServer
<1>5. Typed'
  <2>1. /\ UNCHANGED <<camera, reading, toShow, moves, surf, light, height, server,
                       terrain, pending, changes, bg>>
        /\ changes \in 0 .. MaxChanges /\ \A p \in Pos : server[p] <= changes + 2
        /\ bg \in {<<>>} /\ requests' \in SUBSET Pos
    BY <1>0 DEF Typed, TypeOK, mapVars, sceneVars, renderVars, counters
  <2> QED BY <1>0, <1>2, <2>1, Types, ReceiptTypes
<1>6. Rises(wire)'
  <2> SUFFICES ASSUME NEW i \in 1 .. Len(wire'), NEW j \in 1 .. Len(wire'), i < j,
                      wire'[i].type = "surface", wire'[j].type = "surface",
                      wire'[i].pos = wire'[j].pos
               PROVE  wire'[i].version <= wire'[j].version
    BY DEF Rises
  <2>1. wire'[i] \in Packet /\ wire'[i].version \in Nat /\ wire'[i].pos \in Pos
    <3>1. wire'[i] \in Packet
      BY <1>2, ElementOfSeq
    <3> QED BY <1>0, <3>1, PacketTypes, Types
  <2>2. CASE j \in 1 .. Len(wire)
    <3>1. i \in 1 .. Len(wire)
      BY <1>2, <2>2
    <3> QED BY <1>0, <1>2, <2>2, <3>1 DEF WireInv, Rises
  <2>3. CASE j \notin 1 .. Len(wire)
    <3>1. wire'[j].version = server[wire'[j].pos]
      BY <1>4, <2>3 DEF FromServer, IsHeight, IsSurface
    <3>2. wire'[i].version <= server[wire'[i].pos]
      <4>1. CASE i \in 1 .. Len(wire)
        BY <1>0, <1>2, <4>1 DEF WireInv, PacketsOK
      <4>2. CASE i \notin 1 .. Len(wire)
        <5>1. wire'[i].version = server[wire'[i].pos]
          BY <1>4, <4>2 DEF FromServer, IsHeight, IsSurface
        <5> QED BY <1>0, <2>1, <5>1
      <4> QED BY <4>1, <4>2
    <3> QED BY <3>1, <3>2
  <2> QED BY <2>2, <2>3
<1>7. PacketsOK'
  <2> SUFFICES ASSUME NEW i \in 1 .. Len(wire')
               PROVE  /\ server[wire'[i].pos] > 0 \/ IsHeight(wire'[i], wire'[i].pos, "air")
                      /\ wire'[i].type = "surface" =>
                            /\ wire'[i].version <= server[wire'[i].pos]
                            /\ Coming(wire', wire'[i].pos, server[wire'[i].pos])
    BY <1>0 DEF PacketsOK
  <2>1. wire'[i].pos \in Pos
    <3>1. wire'[i] \in Packet
      BY <1>2, ElementOfSeq
    <3> QED BY <3>1, PacketTypes
  <2>2. CASE i \in 1 .. Len(wire)
    BY <1>0, <1>2, <1>3, <2>2 DEF WireInv, PacketsOK
  <2>3. CASE i \notin 1 .. Len(wire)
    <3>1. FromServer(wire'[i])
      BY <1>4, <2>3
    <3>2. wire'[i].type = "surface"
             => IsSurface(wire'[i], wire'[i].pos, server[wire'[i].pos])
      BY <3>1 DEF FromServer, IsHeight
    <3> QED BY <1>0, <2>1, <3>1, <3>2 DEF FromServer, IsSurface, IsHeight, Coming
  <2> QED BY <2>2, <2>3
<1>8. AirIsCorrected'
  <2> SUFFICES ASSUME NEW p \in Pos, server[p] > 0
               PROVE  /\ height[p] = "air" => GroundAfter(wire', 0, p, server[p])
                      /\ \A i \in 1 .. Len(wire') : IsHeight(wire'[i], p, "air")
                            => GroundAfter(wire', i, p, server[p])
    BY <1>0 DEF AirIsCorrected, mapVars
  <2>1. /\ height[p] = "air" => GroundAfter(wire, 0, p, server[p])
        /\ \A i \in 1 .. Len(wire) :
              IsHeight(wire[i], p, "air") => GroundAfter(wire, i, p, server[p])
    BY <1>0 DEF WireInv, AirIsCorrected
  <2>2. ASSUME NEW i \in 1 .. Len(wire'), IsHeight(wire'[i], p, "air")
        PROVE  i \in 1 .. Len(wire)
    <3>1. ~FromServer(wire'[i])
      BY <1>0, <2>2 DEF FromServer, IsHeight, IsSurface
    <3> QED BY <1>4, <3>1
  <2> QED BY <1>2, <1>3, <2>1, <2>2
<1>9. StoreOK'
  BY <1>0 DEF WireInv, StoreOK, InHand, mapVars
<1>10. ASSUME NEW p \in Pos PROVE IsFresh(p)' /\ IsServed(p)'
  <2>1. IsFresh(p) /\ IsServed(p)
    BY DEF SceneInv
  <2>2. /\ Drawn(terrain, p)' <=> Drawn(terrain, p)
        /\ JobFor(p)' <=> JobFor(p)
        /\ Awaited(p)' <=> Awaited(p)
        /\ UNCHANGED <<toShow, server, surf, height>>
        /\ \A st : ~InHand(p, st) /\ ~InHand(p, st)'
    BY <1>0 DEF Drawn, JobFor, Awaited, InHand, sceneVars, renderVars, mapVars
  <2>3. surf[p] <= server[p]
    BY <1>0 DEF WireInv, StoreOK
  <2>4. ASSUME p \in requests
        PROVE  surf[p] = server[p] \/ Coming(wire', p, server[p])
    <3>1. CASE server[p] = 0
      BY <1>0, <2>3, <3>1
    <3>2. CASE server[p] > 0 /\ height[p] = "air"
      <4>1. GroundAfter(wire, 0, p, server[p])
        BY <1>0, <3>2 DEF WireInv, AirIsCorrected
      <4>2. Coming(wire, p, server[p])
        BY <4>1 DEF GroundAfter, Coming
      <4> QED BY <1>3, <4>2
    <3>3. CASE server[p] > 0 /\ height[p] # "air"
      <4>1. Coming(a, p, server[p]) \/ surf[p] = server[p]
        BY <1>0, <1>1, <2>4, <3>3 DEF Answers
      <4> QED BY <1>3, <4>1
    <3> QED BY <1>0, <3>1, <3>2, <3>3
  <2>5. IsFresh(p)'
    BY <1>3, <2>1, <2>2, <2>4 DEF IsFresh
  <2>6. ASSUME NEW i \in 1 .. Len(wire),
               wire[i].pos = p /\ ~IsHeight(wire[i], p, "ground")
        PROVE  \E k \in 1 .. Len(wire') :
                  wire'[k].pos = p /\ ~IsHeight(wire'[k], p, "ground")
    <3>1. i \in 1 .. Len(wire') /\ wire'[i] = wire[i]
      BY <1>2
    <3> QED BY <2>6, <3>1
  <2>7. ASSUME p \in requests, surf[p] = 0, height[p] # "air"
        PROVE  \E k \in 1 .. Len(wire') :
                  wire'[k].pos = p /\ ~IsHeight(wire'[k], p, "ground")
    <3>1. \E j \in 1 .. Len(a) :
             IsHeight(a[j], p, "air") \/ IsSurface(a[j], p, server[p])
      BY <1>0, <1>1, <2>7 DEF Answers, Coming
    <3>2. PICK j \in 1 .. Len(a) : a[j].pos = p /\ ~IsHeight(a[j], p, "ground")
      BY <3>1 DEF IsHeight, IsSurface
    <3>3. Len(wire) + j \in 1 .. Len(wire') /\ wire'[Len(wire) + j] = a[j]
      BY <1>2
    <3> QED BY <3>2, <3>3
  <2>8. IsServed(p)'
    BY <2>1, <2>2, <2>6, <2>7 DEF IsServed, Awaited
  <2> QED BY <2>5, <2>8
<1> QED BY <1>5, <1>6, <1>7, <1>8, <1>9, <1>10 DEF SceneInv, WireInv

\* What a change puts into the wire: the surface comes last, and the height of
\* a column that was air before it.
LEMMA ChangeSends ==
    ASSUME Typed, NEW p \in Pos, Change(p)
    PROVE  /\ wire' \in Seq(Packet) /\ Len(wire) \in Nat /\ Len(wire') \in Nat
           /\ Len(wire) < Len(wire')
           /\ \A i \in 1 .. Len(wire) : wire'[i] = wire[i]
           /\ IsSurface(wire'[Len(wire')], p, server[p] + 1)
           /\ server[p] = 0 => /\ IsHeight(wire'[Len(wire) + 1], p, "ground")
                               /\ Len(wire) + 1 < Len(wire')
           /\ \A i \in 1 .. Len(wire') :
                 \/ i \in 1 .. Len(wire)
                 \/ i = Len(wire')
                 \/ i = Len(wire) + 1 /\ IsHeight(wire'[i], p, "ground")
           /\ \A x, v : Coming(wire, x, v) => Coming(wire', x, v)
           /\ \A i, x, v : GroundAfter(wire, i, x, v) => GroundAfter(wire', i, x, v)
<1> DEFINE h == [type |-> "height", pos |-> p, height |-> "ground"]
           s == [type |-> "surface", pos |-> p, version |-> server[p] + 1]
           first == wire \o (IF server[p] = 0 THEN <<h>> ELSE <<>>)
<1>1. /\ wire \in Seq(Packet) /\ Len(wire) \in Nat
      /\ server[p] + 1 \in Version
  <2>1. /\ wire \in Seq(Packet) /\ server[p] \in Nat /\ server[p] <= changes + 2
        /\ changes \in Nat /\ changes < MaxChanges
    BY Types DEF Typed, Change
  <2> QED BY <2>1, SceneShape, LenProperties DEF Version
<1>2. h \in Packet /\ s \in Packet /\ IsHeight(h, p, "ground")
      /\ IsSurface(s, p, server[p] + 1)
  BY <1>1 DEF Packet, IsHeight, IsSurface
<1>3. wire' = first \o <<s>>
  BY DEF Change
<1> HIDE DEF h, s
<1>4. /\ first \in Seq(Packet) /\ Len(first) \in Nat
      /\ Len(first) = IF server[p] = 0 THEN Len(wire) + 1 ELSE Len(wire)
      /\ \A i \in 1 .. Len(wire) : first[i] = wire[i]
      /\ server[p] = 0 => first[Len(wire) + 1] = h
      /\ \A x, v : Coming(wire, x, v) => Coming(first, x, v)
      /\ \A i, x, v : GroundAfter(wire, i, x, v) => GroundAfter(first, i, x, v)
  <2> DEFINE a == IF server[p] = 0 THEN <<h>> ELSE <<>>
  <2>1. a \in Seq(Packet)
    BY <1>2
  <2>2. /\ Len(a) = IF server[p] = 0 THEN 1 ELSE 0
        /\ server[p] = 0 => a[1] = h
    OBVIOUS
  <2>3. first = wire \o a
    OBVIOUS
  <2> HIDE DEF a, first
  <2>4. /\ wire \o a \in Seq(Packet) /\ Len(wire \o a) = Len(wire) + Len(a)
        /\ \A i \in 1 .. Len(wire) : (wire \o a)[i] = wire[i]
        /\ \A i \in 1 .. Len(a) : (wire \o a)[Len(wire) + i] = a[i]
    <3>1. wire \in Seq(Packet) /\ a \in Seq(Packet)
      BY <1>1, <2>1
    <3> QED BY ONLY <3>1, JoinedPackets
  <2>5. server[p] = 0 => 1 \in 1 .. Len(a)
    BY <2>2
  <2>6. /\ \A x, v : Coming(wire, x, v) => Coming(wire \o a, x, v)
        /\ \A i, x, v : GroundAfter(wire, i, x, v) => GroundAfter(wire \o a, i, x, v)
    BY <1>1, <2>1, ComingInMore, GroundInMore
  <2> QED BY <1>1, <2>2, <2>3, <2>4, <2>5, <2>6
<1> HIDE DEF first
<1>5. /\ wire' \in Seq(Packet) /\ Len(wire') = Len(first) + 1
      /\ \A i \in 1 .. Len(first) : wire'[i] = first[i]
      /\ wire'[Len(first) + 1] = s
      /\ \A x, v : Coming(first, x, v) => Coming(wire', x, v)
      /\ \A i, x, v : GroundAfter(first, i, x, v) => GroundAfter(wire', i, x, v)
  <2>1. <<s>> \in Seq(Packet) /\ Len(<<s>>) = 1 /\ <<s>>[1] = s /\ 1 \in 1 .. Len(<<s>>)
    BY <1>2
  <2>2. /\ first \o <<s>> \in Seq(Packet) /\ Len(first \o <<s>>) = Len(first) + 1
        /\ \A i \in 1 .. Len(first) : (first \o <<s>>)[i] = first[i]
        /\ (first \o <<s>>)[Len(first) + 1] = s
    BY <1>4, <2>1, MorePackets
  <2>3. /\ \A x, v : Coming(first, x, v) => Coming(first \o <<s>>, x, v)
        /\ \A i, x, v : GroundAfter(first, i, x, v) => GroundAfter(first \o <<s>>, i, x, v)
    BY <1>4, <2>1, ComingInMore, GroundInMore
  <2> QED BY <1>3, <2>2, <2>3
<1>6. \A i \in 1 .. Len(wire') :
         \/ i \in 1 .. Len(wire) \/ i = Len(wire')
         \/ i = Len(wire) + 1 /\ server[p] = 0 /\ i \in 1 .. Len(first)
  BY <1>1, <1>4, <1>5
<1>7. server[p] = 0 => Len(wire) + 1 \in 1 .. Len(first) /\ Len(wire) + 1 < Len(wire')
  BY <1>1, <1>4, <1>5
<1>8. \A i \in 1 .. Len(wire) : i \in 1 .. Len(first)
  BY <1>1, <1>4
<1>9. Len(wire') \in Nat /\ Len(wire) < Len(wire')
  BY <1>1, <1>4, <1>5
<1> QED BY <1>1, <1>2, <1>4, <1>5, <1>6, <1>7, <1>8, <1>9

LEMMA ChangeKeeps ==
    ASSUME SceneInv, NEW q \in Pos, Change(q)
    PROVE  SceneInv'
<1>0. /\ Typed /\ WireInv /\ changes < MaxChanges /\ changes' = changes + 1
      /\ server' = [server EXCEPT ![q] = @ + 1]
      /\ UNCHANGED <<sceneVars, renderVars, mapVars, netVars, moves>>
      /\ server \in [Pos -> Version] /\ \A p \in Pos : server[p] \in Nat /\ surf[p] \in Nat
  BY Types DEF SceneInv, Change
<1>1. /\ wire' \in Seq(Packet) /\ Len(wire) \in Nat /\ Len(wire') \in Nat
      /\ Len(wire) < Len(wire')
      /\ \A i \in 1 .. Len(wire) : wire'[i] = wire[i]
      /\ IsSurface(wire'[Len(wire')], q, server[q] + 1)
      /\ server[q] = 0 => /\ IsHeight(wire'[Len(wire) + 1], q, "ground")
                          /\ Len(wire) + 1 < Len(wire')
      /\ \A i \in 1 .. Len(wire') :
            \/ i \in 1 .. Len(wire)
            \/ i = Len(wire')
            \/ i = Len(wire) + 1 /\ IsHeight(wire'[i], q, "ground")
      /\ \A x, v : Coming(wire, x, v) => Coming(wire', x, v)
      /\ \A i, x, v : GroundAfter(wire, i, x, v) => GroundAfter(wire', i, x, v)
  BY <1>0, ChangeSends
<1>2. \A p \in Pos : server'[p] = IF p = q THEN server[p] + 1 ELSE server[p]
  BY <1>0
<1>3. Len(wire') \in 1 .. Len(wire') /\ \A i \in 1 .. Len(wire) : i \in 1 .. Len(wire')
  BY <1>1
<1>4. Coming(wire', q, server'[q])
  BY <1>1, <1>2, <1>3 DEF Coming
<1>5. Typed'
  <2>1. /\ UNCHANGED <<camera, reading, toShow, moves, surf, light, height,
                       terrain, pending, requests, bg>>
        /\ changes' \in 0 .. MaxChanges
        /\ bg \in [step : {"light", "set"}, pos : Pos, version : Version]
                   \cup [step : {"query"}, pos : Pos] \cup {<<>>}
    BY <1>0, SceneShape DEF Typed, TypeOK, mapVars, sceneVars, renderVars, netVars
  <2>2. \A p \in Pos : server[p] <= changes + 2
    BY <1>0 DEF Typed
  <2>3. changes \in Nat /\ MaxChanges \in Nat
    BY <1>0, Types, SceneShape
  <2>4. \A p \in Pos : server'[p] <= changes' + 2 /\ server'[p] \in Version
    <3> TAKE p \in Pos
    <3>1. server[p] \in Nat /\ server[p] <= changes + 2
      BY <1>0, <2>2
    <3> QED BY <1>0, <1>2, <2>3, <3>1 DEF Version
  <2>5. server' \in [Pos -> Version]
    BY <1>0, <2>4
  <2> QED BY <1>0, <1>1, <2>1, <2>4, <2>5, Types, ReceiptTypes
<1>6. Rises(wire)'
  <2> SUFFICES ASSUME NEW i \in 1 .. Len(wire'), NEW j \in 1 .. Len(wire'), i < j,
                      wire'[i].type = "surface", wire'[j].type = "surface",
                      wire'[i].pos = wire'[j].pos
               PROVE  wire'[i].version <= wire'[j].version
    BY DEF Rises
  <2>1. i \in 1 .. Len(wire)
    <3>1. i # Len(wire')
      BY <1>1
    <3> QED BY <1>1, <3>1 DEF IsHeight
  <2>2. CASE j \in 1 .. Len(wire)
    BY <1>0, <1>1, <2>1, <2>2 DEF WireInv, Rises
  <2>3. CASE j \notin 1 .. Len(wire)
    <3>1. wire'[j].pos = q /\ wire'[j].version = server[q] + 1
      BY <1>1, <2>3 DEF IsHeight, IsSurface
    <3>2. wire[i].version <= server[q]
      BY <1>0, <1>1, <2>1, <3>1 DEF WireInv, PacketsOK
    <3>3. wire'[i].version \in Nat
      <4>1. wire'[i] \in Packet
        BY <1>1, ElementOfSeq
      <4> QED BY <1>0, <4>1, PacketTypes, Types
    <3> QED BY <1>0, <1>1, <2>1, <3>1, <3>2, <3>3
  <2> QED BY <2>2, <2>3
<1>7. PacketsOK'
  <2> SUFFICES ASSUME NEW i \in 1 .. Len(wire')
               PROVE  /\ \/ server'[wire'[i].pos] > 0
                         \/ IsHeight(wire'[i], wire'[i].pos, "air")
                      /\ wire'[i].type = "surface" =>
                            /\ wire'[i].version <= server'[wire'[i].pos]
                            /\ Coming(wire', wire'[i].pos, server'[wire'[i].pos])
    BY DEF PacketsOK
  <2>1. server'[q] > 0 /\ server'[q] = server[q] + 1
    BY <1>0, <1>2
  <2>2. CASE i \notin 1 .. Len(wire)
    <3>1. IsSurface(wire'[i], q, server'[q]) \/ IsHeight(wire'[i], q, "ground")
      BY <1>1, <2>1, <2>2
    <3> QED BY <1>0, <1>4, <2>1, <3>1 DEF IsSurface, IsHeight
  <2>3. CASE i \in 1 .. Len(wire)
    <3>1. wire'[i] = wire[i] /\ wire'[i] \in Packet
      BY <1>1, <2>3, ElementOfSeq
    <3>2. wire'[i].pos \in Pos
          /\ (wire'[i].type = "surface" => wire'[i].version \in Nat)
      BY <1>0, <3>1, PacketTypes, Types
    <3>3. /\ server[wire[i].pos] > 0 \/ IsHeight(wire[i], wire[i].pos, "air")
          /\ wire[i].type = "surface" =>
                /\ wire[i].version <= server[wire[i].pos]
                /\ Coming(wire, wire[i].pos, server[wire[i].pos])
      BY <1>0, <2>3 DEF WireInv, PacketsOK
    <3>4. CASE wire[i].pos = q
      BY <1>0, <1>4, <2>1, <3>1, <3>2, <3>3, <3>4
    <3>5. CASE wire[i].pos # q
      BY <1>1, <1>2, <3>1, <3>2, <3>3, <3>5
    <3> QED BY <3>4, <3>5
  <2> QED BY <2>2, <2>3
<1>8. ASSUME NEW i \in 0 .. Len(wire), server[q] > 0 => GroundAfter(wire, i, q, server[q])
      PROVE  GroundAfter(wire', i, q, server'[q])
  <2>1. PICK k \in 1 .. Len(wire') :
           i < k /\ k < Len(wire') /\ IsHeight(wire'[k], q, "ground")
    <3>1. CASE server[q] > 0
      <4>1. PICK k \in 1 .. Len(wire), j \in 1 .. Len(wire) :
               i < k /\ k < j /\ IsHeight(wire[k], q, "ground")
        BY <1>8, <3>1 DEF GroundAfter
      <4>2. k \in 1 .. Len(wire') /\ k < Len(wire') /\ wire'[k] = wire[k]
        BY <1>1
      <4> QED BY <4>1, <4>2
    <3>2. CASE server[q] = 0
      <4>1. Len(wire) + 1 \in 1 .. Len(wire') /\ i < Len(wire) + 1
        BY <1>1, <3>2
      <4> QED BY <1>1, <3>2, <4>1
    <3> QED BY <1>0, <3>1, <3>2
  <2>2. IsSurface(wire'[Len(wire')], q, server'[q])
    BY <1>1, <1>2
  <2> QED BY <1>3, <2>1, <2>2 DEF GroundAfter
<1>9. AirIsCorrected'
  <2>0. height' = height
    BY <1>0 DEF mapVars
  <2> SUFFICES ASSUME NEW p \in Pos, server'[p] > 0
               PROVE  /\ height[p] = "air" => GroundAfter(wire', 0, p, server'[p])
                      /\ \A i \in 1 .. Len(wire') : IsHeight(wire'[i], p, "air")
                            => GroundAfter(wire', i, p, server'[p])
    BY <2>0 DEF AirIsCorrected
  <2>1. server[p] > 0 =>
           /\ height[p] = "air" => GroundAfter(wire, 0, p, server[p])
           /\ \A i \in 1 .. Len(wire) :
                 IsHeight(wire[i], p, "air") => GroundAfter(wire, i, p, server[p])
    BY <1>0 DEF WireInv, AirIsCorrected
  <2>2. \A i \in 1 .. Len(wire') : IsHeight(wire'[i], p, "air")
           => i \in 1 .. Len(wire) /\ IsHeight(wire[i], p, "air")
    BY <1>1 DEF IsHeight, IsSurface
  <2>3. 0 \in 0 .. Len(wire) /\ \A i \in 1 .. Len(wire) : i \in 0 .. Len(wire)
    BY <1>1
  <2>4. CASE p = q
    BY <1>8, <2>1, <2>2, <2>3, <2>4
  <2>5. CASE p # q
    BY <1>1, <1>2, <2>1, <2>2, <2>5
  <2> QED BY <2>4, <2>5
<1>10. StoreOK'
  <2>1. \A p, st : InHand(p, st)' <=> InHand(p, st)
    BY <1>0 DEF InHand, netVars
  <2>2. \A p \in Pos : server[p] <= server'[p] /\ (server[p] > 0 => server'[p] > 0)
    BY <1>0, <1>2
  <2> QED BY <1>0, <2>1, <2>2 DEF WireInv, StoreOK, mapVars, netVars
<1>11. ASSUME NEW p \in Pos PROVE IsFresh(p)' /\ IsServed(p)'
  <2>1. IsFresh(p) /\ IsServed(p)
    BY DEF SceneInv
  <2>2. /\ Drawn(terrain, p)' <=> Drawn(terrain, p)
        /\ JobFor(p)' <=> JobFor(p)
        /\ Awaited(p)' <=> Awaited(p)
        /\ UNCHANGED <<toShow, requests, surf>>
        /\ \A st : InHand(p, st)' <=> InHand(p, st)
    BY <1>0 DEF Drawn, JobFor, Awaited, InHand, sceneVars, renderVars, mapVars, netVars
  <2>3. IsFresh(p)'
    <3>1. CASE p = q
      BY <1>4, <3>1 DEF IsFresh
    <3>2. CASE p # q
      BY <1>1, <1>2, <2>1, <2>2, <3>2 DEF IsFresh
    <3> QED BY <3>1, <3>2
  <2>4. ASSUME NEW i \in 1 .. Len(wire),
               wire[i].pos = p /\ ~IsHeight(wire[i], p, "ground")
        PROVE  \E k \in 1 .. Len(wire') :
                  wire'[k].pos = p /\ ~IsHeight(wire'[k], p, "ground")
    BY <1>1, <1>3, <2>4
  <2>5. IsServed(p)'
    BY <2>1, <2>2, <2>4 DEF IsServed
  <2> QED BY <2>3, <2>5
<1> QED BY <1>5, <1>6, <1>7, <1>9, <1>10, <1>11 DEF SceneInv, WireInv

-----------------------------------------------------------------------------
(***************************************************************************)
(* All steps together.                                                     *)
(***************************************************************************)

LEMMA SceneStarts == Init => SceneInv
<1> SUFFICES ASSUME Init PROVE SceneInv
  OBVIOUS
<1> DEFINE none == [mesh |-> NoMesh, query |-> "none"]
<1>0. /\ camera \in Pos /\ terrain = [p \in Pos |-> none]
      /\ pending = <<>> /\ toShow = Surroundings(camera) /\ reading = <<>>
      /\ surf = [p \in Pos |-> IF p \in Remembered THEN 1 ELSE 0] /\ light = surf
      /\ height = [p \in Pos |-> IF p \in Remembered THEN "ground" ELSE "unknown"]
      /\ requests = {} /\ bg = <<>> /\ wire = <<>> /\ moves = 0 /\ changes = 0
      /\ server = [p \in Pos |-> IF p \in Stale THEN 2 ELSE IF p \in Ground THEN 1 ELSE 0]
  BY SceneShape DEF Init
<1>1. MaxChanges \in Nat /\ MaxMoves \in Nat /\ Stale \subseteq Remembered
      /\ Remembered \subseteq Ground
  BY SceneShape
<1>2. 0 \in Version /\ 1 \in Version /\ 2 \in Version
  BY <1>1 DEF Version
<1>3. none \in Entry /\ none.mesh = NoMesh /\ none.query = "none"
  BY NoMeshIsMesh DEF Entry, Query
<1> HIDE DEF none
<1>4. ASSUME NEW p \in Pos
      PROVE  /\ terrain[p].mesh = NoMesh /\ terrain[p].query = "none"
             /\ surf[p] <= server[p] /\ light[p] = surf[p] /\ server[p] <= 2
             /\ height[p] # "air" /\ (height[p] = "ground" => server[p] > 0)
  <2>1. terrain[p] = none
    BY <1>0
  <2> QED BY <1>0, <1>1, <1>3, <2>1
<1>5. Typed
  <2>1. camera \in Pos /\ terrain \in [Pos -> Entry]
    BY <1>0, <1>3
  <2>2. pending \in Seq(Job) /\ wire \in Seq(Packet)
    BY <1>0
  <2>3. toShow \in SUBSET Pos /\ requests \in SUBSET Pos
    BY <1>0 DEF Surroundings
  <2>4. /\ surf \in [Pos -> Version] /\ light \in [Pos -> Version]
        /\ server \in [Pos -> Version] /\ height \in [Pos -> Height]
    BY <1>0, <1>2 DEF Height
  <2>5. /\ bg = <<>> /\ reading = <<>>
        /\ moves \in 0 .. MaxMoves /\ changes \in 0 .. MaxChanges
    BY <1>0, <1>1
  <2>6. \A p \in Pos : ~Known(terrain, p) /\ server[p] <= changes + 2
    BY <1>0, <1>4 DEF Known
  <2> QED BY <2>1, <2>2, <2>3, <2>4, <2>5, <2>6 DEF Typed, TypeOK
<1>6. Len(wire) = 0 /\ Len(pending) = 0 /\ \A p, st : ~InHand(p, st)
  BY <1>0 DEF InHand
<1>7. WireInv
  <2>1. Rises(wire) /\ PacketsOK
    BY <1>6 DEF Rises, PacketsOK
  <2>2. AirIsCorrected
    BY <1>4, <1>6 DEF AirIsCorrected
  <2>3. StoreOK
    BY <1>4, <1>6 DEF StoreOK
  <2> QED BY <2>1, <2>2, <2>3 DEF WireInv
<1>8. ASSUME NEW p \in Pos PROVE IsFresh(p) /\ IsServed(p)
  BY <1>4, <1>6 DEF IsFresh, IsServed, Drawn, JobFor, Awaited
<1> QED BY <1>5, <1>7, <1>8 DEF SceneInv

LEMMA SceneKeeps == SceneInv /\ [Next]_vars => SceneInv'
<1> SUFFICES ASSUME SceneInv, [Next]_vars PROVE SceneInv'
  OBVIOUS
<1>1. CASE PreRender
  BY <1>1, PreRenderKeeps
<1>2. CASE Queries
  BY <1>2, QueriesKeep
<1>3. CASE Show
  BY <1>3, ShowMissingKeeps, ShowStoredKeeps, ShowLitKeeps DEF Show
<1>4. CASE \E c \in Pos : MoveCameraTo(c)
  BY <1>4, MoveCameraToKeeps
<1>5. CASE Background
  BY <1>5, ReceiveSurfaceKeeps, StoreLightmapKeeps, SetReceivedKeeps, ReceiveHeightKeeps,
     SetCoarseHeightKeeps, SendRequestsKeeps DEF Background
<1>6. CASE Build
  BY <1>6, FinishMeshKeeps DEF Build
<1>7. CASE \E p \in Pos : Change(p)
  BY <1>7, ChangeKeeps
<1>8. CASE UNCHANGED vars
  <2>1. UNCHANGED <<camera, terrain, pending, toShow, reading, surf, light, height,
                    requests, bg, server, wire, moves, changes>>
    BY <1>8 DEF vars, sceneVars, renderVars, mapVars, netVars, serverVars, counters
  <2>2. Typed'
    BY <2>1 DEF SceneInv, Typed, TypeOK, Known, Inside, InsideOf
  <2>3. WireInv'
    BY <2>1, WireRests DEF SceneInv, mapVars, serverVars
  <2>4. ASSUME NEW p \in Pos PROVE IsFresh(p)' /\ IsServed(p)'
    BY <2>1, FreshRests, ServedRests DEF mapVars, serverVars, JobFor, Drawn, Awaited
  <2> QED BY <2>2, <2>3, <2>4 DEF SceneInv
<1> QED BY <1>1, <1>2, <1>3, <1>4, <1>5, <1>6, <1>7, <1>8 DEF Next

\* The account of where the answer to each need is holds in every state of
\* every behaviour of the client's threads and the server.
THEOREM SceneInvariant == Spec => []SceneInv
BY SceneStarts, SceneKeeps, PTL DEF Spec

\* Every variable has its type, and every chunk of scene::terrain_ that is
\* known is in view.
THEOREM SceneTypeOK == Spec => []TypeOK
<1>1. SceneInv => TypeOK
  BY DEF SceneInv, Typed
<1> QED BY <1>1, SceneInvariant, PTL

\* When the render thread, the background thread, the pool and the wire are at
\* rest, whatever the occlusion queries found is drawn or is air, and what is
\* drawn is of the server's version, in the store and in its light map: between
\* post_render(), bg_thread(), surface_update() and pre_render() no need of a
\* chunk is dropped and no answer to it lost.
THEOREM NothingIsLost == Spec => []SeenIsDrawn
<1>1. SceneInv => SeenIsDrawn
  <2> SUFFICES ASSUME SceneInv, AtRest, NEW p \in Pos
               PROVE  /\ ~Awaited(p)
                      /\ Drawn(terrain, p) => surf[p] = server[p] /\ light[p] = server[p]
    BY DEF SeenIsDrawn
  <2>1. toShow = {} /\ pending = <<>> /\ requests = {} /\ bg = <<>> /\ wire = <<>>
    BY DEF AtRest, Unlocked
  <2>2. Len(wire) = 0 /\ Len(pending) = 0
    BY <2>1
  <2>3. IsFresh(p) /\ IsServed(p) /\ StoreOK
    BY DEF SceneInv, WireInv
  <2>4. ~InHand(p, {"light"}) /\ ~InHand(p, {"light", "set", "query"})
    BY <2>1 DEF InHand
  <2>5. ~Awaited(p)
    BY <2>1, <2>2, <2>3, <2>4 DEF IsServed, JobFor
  <2>6. Drawn(terrain, p) => surf[p] = server[p]
    BY <2>1, <2>2, <2>3 DEF IsFresh, Coming
  <2>7. light[p] = surf[p]
    BY <2>3, <2>4 DEF StoreOK
  <2> QED BY <2>5, <2>6, <2>7
<1> QED BY <1>1, SceneInvariant, PTL

-----------------------------------------------------------------------------
(***************************************************************************)
(* The frontier of what is drawn, as long as the camera does not jump.     *)
(***************************************************************************)

\* The camera never jumps so far that move_camera_to() rechecks nothing.
NoJumps == [][camera' # camera => Distance(camera, camera') < Stride]_vars

\* What a move brings into view is at the edge of one of its steps.
LEMMA EdgeOfMove ==
    ASSUME NEW here \in Pos, NEW there \in Pos, NEW q \in Pos,
           ~InsideOf(here, q), InsideOf(there, q)
    PROVE  \E s \in Steps(here, there) : Edge(here, there, s) = q
<1>1. here \in Int /\ there \in Int /\ q \in Int /\ Radius \in Nat
  BY SceneShape DEF Pos
<1>2. CASE here < there
  <2>1. q - Radius \in here + 1 .. there /\ (q - Radius) + Radius = q
    BY <1>1, <1>2 DEF InsideOf, Distance
  <2> QED BY <1>2, <2>1 DEF Steps, Edge
<1>3. CASE ~(here < there)
  <2>1. q + Radius \in there .. here - 1 /\ (q + Radius) - Radius = q
    BY <1>1, <1>3 DEF InsideOf, Distance
  <2> QED BY <1>3, <2>1 DEF Steps, Edge
<1> QED BY <1>2, <1>3

LEMMA FrontierRests ==
    ASSUME FrontierOK, UNCHANGED <<camera, terrain, height>>,
           \A q \in Pos : InHand(q, {"query"}) => InHand(q, {"query"})'
    PROVE  FrontierOK'
<1>1. ASSUME NEW p \in Pos, Drawn(terrain, p), NEW q \in Neighbours(p),
             Inside(q), height[q] # "air"
      PROVE  Known(terrain, q) \/ InHand(q, {"query"})'
  <2>1. q \in Pos
    BY DEF Neighbours
  <2> QED BY <1>1, <2>1 DEF FrontierOK
<1>2. \A p : Inside(p)' <=> Inside(p)
  BY DEF Inside
<1> QED BY <1>1, <1>2 DEF FrontierOK, Known, Drawn

LEMMA FrontierAtMove ==
    ASSUME SceneInv, FrontierOK, NEW c \in Pos, MoveCameraTo(c), Distance(camera, c) < Stride
    PROVE  FrontierOK'
<1> DEFINE kept == [p \in Pos |-> IF InsideOf(c, p) THEN terrain[p]
                                  ELSE [mesh |-> NoMesh, query |-> "none"]]
           ps == Rechecked(kept, camera, c)
<1>0. /\ Typed /\ camera \in Pos /\ camera' = c /\ terrain' = MakeQueries(kept, ps)
      /\ UNCHANGED <<height, bg>>
  BY Types DEF SceneInv, MoveCameraTo, mapVars, netVars
<1>1. kept \in Entries
  <2>1. [mesh |-> NoMesh, query |-> "none"] \in Entry
    BY NoMeshIsMesh DEF Entry, Query
  <2>2. terrain \in Entries
    BY <1>0, Types
  <2> QED BY <2>1, <2>2 DEF Entries
<1>2. \A p \in Pos : terrain'[p] = IF p \in ps THEN Idle ELSE kept[p]
  BY <1>0, <1>1, QueriesMade
<1>3. /\ \A p \in Pos : InsideOf(c, p) => kept[p] = terrain[p]
      /\ \A p \in Pos : Drawn(kept, p) => InsideOf(c, p)
  BY DEF Drawn
<1>4. ASSUME NEW p \in Pos, InsideOf(c, p), Known(terrain, p) PROVE Known(terrain', p)
  <2>1. terrain'[p] = Idle \/ terrain'[p] = terrain[p]
    BY <1>2, <1>3, <1>4
  <2> QED BY <1>4, <2>1 DEF Known, Idle
<1>5. ASSUME NEW p \in Pos, Drawn(terrain', p)
      PROVE  p \notin ps /\ Drawn(kept, p) /\ InsideOf(c, p) /\ Drawn(terrain, p)
  BY <1>2, <1>3, <1>5 DEF Drawn, Idle
<1>6. \A q : Inside(q)' <=> InsideOf(c, q)
  BY <1>0 DEF Inside, InsideOf
<1>7. ASSUME NEW p \in Pos, Drawn(terrain', p), NEW q \in Neighbours(p),
             InsideOf(c, q), height[q] # "air"
      PROVE  Known(terrain', q) \/ InHand(q, {"query"})
  <2>1. q \in Pos /\ Distance(p, q) = 1
    BY DEF Neighbours
  <2>2. CASE Inside(q)
    <3>1. Known(terrain, q) \/ InHand(q, {"query"})
      BY <1>5, <1>7, <2>2 DEF FrontierOK
    <3> QED BY <1>4, <1>7, <2>1, <3>1
  <2>3. CASE ~Inside(q)
    <3>1. PICK s \in Steps(camera, c) : Edge(camera, c, s) = q
      BY <1>0, <1>7, <2>1, <2>3, EdgeOfMove DEF Inside
    <3>2. p \in ps
      BY <1>5, <1>7, <2>1, <3>1 DEF Rechecked
    <3> QED BY <1>5, <1>7, <3>2
  <2> QED BY <2>2, <2>3
<1>8. \A p \in Pos : Drawn(terrain', p) => Known(terrain', p)
  BY <1>4, <1>5 DEF FrontierOK
<1>9. \A q : InHand(q, {"query"})' <=> InHand(q, {"query"})
  BY <1>0 DEF InHand
<1>10. FrontierOK' <=>
         \A p \in Pos : Drawn(terrain', p) =>
             /\ Known(terrain', p)
             /\ \A q \in Neighbours(p) :
                   Inside(q)' /\ height'[q] # "air"
                      => Known(terrain', q) \/ InHand(q, {"query"})'
  BY DEF FrontierOK
<1> HIDE DEF kept, ps
<1> QED BY <1>0, <1>6, <1>7, <1>8, <1>9, <1>10

LEMMA FrontierAtFrame ==
    ASSUME SceneInv, FrontierOK, PreRender
    PROVE  FrontierOK'
<1>0. /\ terrain \in Entries /\ pending \in Seq(Job) /\ terrain' = Placed(terrain, pending)
      /\ UNCHANGED <<camera, height, bg>>
  BY Types DEF SceneInv, PreRender, mapVars, netVars
<1>1. FrontierIn(terrain) => FrontierIn(terrain')
  BY <1>0, PlacedResult DEF PlacedSoFar
<1>2. /\ \A q : Inside(q)' <=> Inside(q)
      /\ \A q : InHand(q, {"query"})' <=> InHand(q, {"query"})
  BY <1>0 DEF Inside, InsideOf, InHand
<1> QED BY <1>0, <1>1, <1>2 DEF FrontierOK, FrontierIn, Drawn, Known

LEMMA FrontierAtQuery ==
    ASSUME SceneInv, FrontierOK, Queries
    PROVE  FrontierOK'
<1>0. UNCHANGED <<camera, height, bg>>
  BY DEF Queries, HandleOcclusionQuery, NotSeen, Seen, mapVars, netVars
<1>1. PICK p \in Pos : \E q \in Query \ {"none"} :
         Known(terrain, p) /\ terrain' = WithQuery(terrain, p, q)
  <2>1. {"busy", "idle", "visible"} \subseteq Query \ {"none"}
    BY DEF Query
  <2>2. ASSUME NEW p \in Pos, HandleOcclusionQuery(p) \/ NotSeen(p) \/ Seen(p)
        PROVE  \E q \in Query \ {"none"} :
                  Known(terrain, p) /\ terrain' = WithQuery(terrain, p, q)
    BY <2>1, <2>2 DEF HandleOcclusionQuery, NotSeen, Seen, Known, WithQuery
  <2> QED BY <2>2 DEF Queries
<1>2. PICK q \in Query \ {"none"} :
         Known(terrain, p) /\ terrain' = WithQuery(terrain, p, q)
  BY <1>1
<1>3. \A x \in Pos : /\ WithQuery(terrain, p, q)[x].mesh = terrain[x].mesh
                     /\ WithQuery(terrain, p, q)[x].query
                          = IF x = p THEN q ELSE terrain[x].query
  <2>1. terrain \in Entries /\ q \in Query
    BY Types DEF SceneInv
  <2> QED BY ONLY <2>1, p \in Pos, EntryAfter
<1>4. \A x \in Pos : terrain'[x].mesh = terrain[x].mesh
                     /\ (terrain'[x].query # "none" <=> terrain[x].query # "none")
  BY <1>2, <1>3 DEF Known
<1>5. /\ \A x : Inside(x)' <=> Inside(x)
      /\ \A x : InHand(x, {"query"})' <=> InHand(x, {"query"})
      /\ \A x \in Pos : Drawn(terrain, x)' <=> Drawn(terrain, x)
      /\ \A x \in Pos : Known(terrain, x)' <=> Known(terrain, x)
  BY <1>0, <1>4 DEF Inside, InsideOf, InHand, Drawn, Known
<1>6. \A x : \A y \in Neighbours(x) : y \in Pos
  BY DEF Neighbours
<1> QED BY <1>0, <1>5, <1>6 DEF FrontierOK

LEMMA FrontierAtHeight ==
    ASSUME SceneInv, FrontierOK, ReceiveHeight
    PROVE  FrontierOK'
<1> DEFINE m == wire[1]
<1>0. /\ bg = <<>> /\ height \in [Pos -> Height]
      /\ height' = [height EXCEPT ![m.pos] = m.height]
      /\ bg' = IF m.height # height[m.pos] /\ m.height = "ground"
               THEN [step |-> "query", pos |-> m.pos] ELSE <<>>
      /\ UNCHANGED <<camera, terrain>>
      /\ m.pos \in Pos /\ m.height \in {"air", "ground"}
  <2>1. wire # <<>> /\ wire \in Seq(Packet) /\ height \in [Pos -> Height]
    BY Types DEF SceneInv, ReceiveHeight
  <2>2. Head(wire) = m /\ 1 \in 1 .. Len(wire)
    BY <2>1, TailPackets
  <2>3. m \in Packet
    BY <2>1, <2>2, ElementOfSeq
  <2> QED BY <2>1, <2>2, <2>3, PacketTypes DEF ReceiveHeight, sceneVars
<1> HIDE DEF m
<1>1. ASSUME NEW q \in Pos, height'[q] # "air"
      PROVE  height[q] # "air" \/ InHand(q, {"query"})'
  <2>1. CASE q = m.pos /\ m.height # height[m.pos]
    <3>1. bg' = [step |-> "query", pos |-> q]
      BY <1>0, <1>1, <2>1
    <3>2. bg' # <<>> /\ bg'.step = "query" /\ bg'.pos = q
      BY <3>1, RecordsAreNotEmpty
    <3> QED BY <3>2 DEF InHand
  <2>2. CASE ~(q = m.pos /\ m.height # height[m.pos])
    BY <1>0, <1>1, <2>2
  <2> QED BY <2>1, <2>2
<1>2. /\ \A x : Inside(x)' <=> Inside(x)
      /\ \A x : ~InHand(x, {"query"})
  BY <1>0 DEF Inside, InsideOf, InHand
<1>3. \A x : \A y \in Neighbours(x) : y \in Pos
  BY DEF Neighbours
<1> QED BY <1>0, <1>1, <1>2, <1>3 DEF FrontierOK, Drawn, Known

LEMMA FrontierAtGround ==
    ASSUME SceneInv, FrontierOK, SetCoarseHeight
    PROVE  FrontierOK'
<1> DEFINE ps == {bg.pos} \cap {p \in Pos : Inside(p)}
<1>0. /\ bg # <<>> /\ bg.step = "query" /\ bg' = <<>> /\ terrain \in Entries
      /\ terrain' = MakeQueries(terrain, ps) /\ UNCHANGED <<camera, height>>
  BY Types DEF SceneInv, SetCoarseHeight, mapVars
<1>1. \A p \in Pos : terrain'[p] = IF p \in ps THEN Idle ELSE terrain[p]
  BY <1>0, QueriesMade
<1>2. \A p \in Pos : InHand(p, {"query"}) /\ Inside(p) => p \in ps
  BY <1>0 DEF InHand
<1> HIDE DEF ps
<1>3. /\ \A p \in Pos : Drawn(terrain, p)' => Drawn(terrain, p)
      /\ \A p \in Pos : Known(terrain, p) \/ p \in ps => Known(terrain, p)'
  BY <1>1 DEF Drawn, Known, Idle
<1>4. \A x : Inside(x)' <=> Inside(x)
  BY <1>0 DEF Inside, InsideOf
<1>5. \A x : \A y \in Neighbours(x) : y \in Pos
  BY DEF Neighbours
<1> QED BY <1>0, <1>2, <1>3, <1>4, <1>5 DEF FrontierOK

LEMMA FrontierKeeps ==
    ASSUME SceneInv, FrontierOK, [Next]_vars,
           [camera' # camera => Distance(camera, camera') < Stride]_vars
    PROVE  FrontierOK'
<1>1. CASE PreRender
  BY <1>1, FrontierAtFrame
<1>2. CASE Queries
  BY <1>2, FrontierAtQuery
<1>3. CASE Show
  BY <1>3, FrontierRests DEF Show, ShowMissing, ShowStored, ShowLit, RequestChunk,
     sceneVars, mapVars, netVars, InHand
<1>4. ASSUME NEW c \in Pos, MoveCameraTo(c) PROVE FrontierOK'
  <2>1. camera' = c /\ camera' # camera
    BY <1>4 DEF MoveCameraTo
  <2>2. Distance(camera, c) < Stride
    BY <2>1 DEF vars, sceneVars
  <2> QED BY <1>4, <2>2, FrontierAtMove
<1>5. CASE Background
  <2>1. CASE ReceiveHeight
    BY <2>1, FrontierAtHeight
  <2>2. CASE SetCoarseHeight
    BY <2>2, FrontierAtGround
  <2>3. CASE ReceiveSurface
    BY <2>3, FrontierRests DEF ReceiveSurface, sceneVars, InHand
  <2>4. CASE StoreLightmap
    BY <2>4, FrontierRests DEF StoreLightmap, sceneVars, InHand
  <2>5. CASE SetReceived
    BY <2>5, FrontierRests DEF SetReceived, mapVars, InHand
  <2>6. CASE SendRequests
    BY <2>6, FrontierRests DEF SendRequests, sceneVars, mapVars, InHand
  <2> QED BY <1>5, <2>1, <2>2, <2>3, <2>4, <2>5, <2>6 DEF Background
<1>6. CASE Build
  BY <1>6, FrontierRests DEF Build, FinishMesh, mapVars, netVars, InHand
<1>7. CASE \E p \in Pos : Change(p)
  BY <1>7, FrontierRests DEF Change, sceneVars, mapVars, netVars, InHand
<1>8. CASE UNCHANGED vars
  BY <1>8, FrontierRests DEF vars, sceneVars, mapVars, netVars, InHand
<1> QED BY <1>1, <1>2, <1>3, <1>4, <1>5, <1>6, <1>7, <1>8 DEF Next

\* As long as the camera does not jump, move_camera_to(), place_finished_mesh()
\* and set_coarse_height() between them leave no gap: at rest every chunk that
\* is next to a drawn one, in view and not air, is drawn or has a query.
THEOREM FrontierHasNoGap == Spec /\ NoJumps => []FrontierIsQueried
<1>1. Init => FrontierOK
  <2> SUFFICES ASSUME Init, NEW p \in Pos PROVE ~Drawn(terrain, p)
    BY DEF FrontierOK
  <2> QED BY DEF Init, Drawn
<1>2. SceneInv /\ FrontierOK /\ [Next]_vars
        /\ [camera' # camera => Distance(camera, camera') < Stride]_vars => FrontierOK'
  BY FrontierKeeps
<1>3. FrontierOK => FrontierIsQueried
  <2> SUFFICES ASSUME FrontierOK, AtRest PROVE FrontierIsQueried
    BY DEF FrontierIsQueried
  <2>1. \A q : ~InHand(q, {"query"})
    BY DEF AtRest, InHand
  <2> QED BY <2>1 DEF FrontierOK, FrontierIsQueried
<1>4. Spec /\ NoJumps => []FrontierOK
  BY <1>1, <1>2, SceneInvariant, PTL DEF Spec, NoJumps
<1> QED BY <1>3, <1>4, PTL
=============================================================================

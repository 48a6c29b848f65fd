------------------------- MODULE SurfaceFeedProofs -------------------------
(***************************************************************************)
(* What is stored on a client never gets older, and what came into view    *)
(* is current once nothing is under way about it, for any number of        *)
(* clients, peers, chunks and changes.                                     *)
(*                                                                         *)
(* The queues matter by what is in them, Items, and by the order of some   *)
(* of it: a login comes first and a farewell last, the versions of one     *)
(* chunk rise, and no height falls.                                        *)
(***************************************************************************)
EXTENDS SurfaceFeed, SequenceTheorems, FiniteSetTheorems, TLAPS

Items(s) == {s[i] : i \in 1 .. Len(s)}

\* Whatever comes first and later in s is a pair of R.
Ordered(s, R) == \A i, j \in 1 .. Len(s) : i < j => <<s[i], s[j]>> \in R

-----------------------------------------------------------------------------
(***************************************************************************)
(* Sequences.                                                              *)
(***************************************************************************)

LEMMA NoItems ==
    /\ \A S : <<>> \in Seq(S)
    /\ Items(<<>>) = {}
    /\ \A R : Ordered(<<>>, R)
BY DEF Items, Ordered

LEMMA OneItem ==
    ASSUME NEW S, NEW x \in S
    PROVE  /\ <<x>> \in Seq(S) /\ Items(<<x>>) = {x}
           /\ Head(<<x>>) = x
           /\ \A R : Ordered(<<x>>, R)
<1>1. Len(<<x>>) = 1 /\ <<x>>[1] = x /\ <<x>> \in Seq(S)
  OBVIOUS
<1> QED BY <1>1 DEF Items, Ordered

LEMMA TwoItems ==
    ASSUME NEW S, NEW x \in S, NEW y \in S
    PROVE  /\ <<x, y>> \in Seq(S) /\ Items(<<x, y>>) = {x, y}
           /\ Head(<<x, y>>) = x
           /\ \A R : <<x, y>> \in R => Ordered(<<x, y>>, R)
<1>1. /\ Len(<<x, y>>) = 2 /\ <<x, y>>[1] = x /\ <<x, y>>[2] = y
      /\ <<x, y>> \in Seq(S) /\ Head(<<x, y>>) = x
  OBVIOUS
<1>2. Items(<<x, y>>) = {x, y}
  BY <1>1 DEF Items
<1>3. ASSUME NEW R, <<x, y>> \in R PROVE Ordered(<<x, y>>, R)
  BY <1>1, <1>3 DEF Ordered
<1> QED BY <1>1, <1>2, <1>3

\* Two queues, one after the other.
LEMMA JoinedItems ==
    ASSUME NEW S, NEW s \in Seq(S), NEW t \in Seq(S)
    PROVE  /\ s \o t \in Seq(S)
           /\ Items(s \o t) = Items(s) \cup Items(t)
           /\ s # <<>> => s \o t # <<>> /\ Head(s \o t) = Head(s)
           /\ \A R : /\ Ordered(s, R) /\ Ordered(t, R)
                     /\ \A x \in Items(s), y \in Items(t) : <<x, y>> \in R
                     => Ordered(s \o t, R)
<1> DEFINE u == s \o t
<1>1. /\ u \in Seq(S) /\ Len(u) = Len(s) + Len(t)
      /\ Len(s) \in Nat /\ Len(t) \in Nat
      /\ \A i \in 1 .. Len(s) : u[i] = s[i]
      /\ \A i \in 1 .. Len(t) : u[Len(s) + i] = t[i]
  BY ConcatProperties, LenProperties
<1>2. ASSUME NEW i \in 1 .. Len(u)
      PROVE  \/ i \in 1 .. Len(s) /\ u[i] = s[i]
             \/ i - Len(s) \in 1 .. Len(t) /\ u[i] = t[i - Len(s)]
  BY <1>1
<1> HIDE DEF u
<1>3. Items(u) \subseteq Items(s) \cup Items(t)
  BY <1>2 DEF Items
<1>4. Items(s) \subseteq Items(u)
  <2>1. \A i \in 1 .. Len(s) : i \in 1 .. Len(u)
    BY <1>1
  <2> QED BY <1>1, <2>1 DEF Items
<1>5. Items(t) \subseteq Items(u)
  <2>1. \A i \in 1 .. Len(t) : Len(s) + i \in 1 .. Len(u)
    BY <1>1
  <2> QED BY <1>1, <2>1 DEF Items
<1>6. s # <<>> => u # <<>> /\ Head(u) = Head(s)
  BY <1>1, HeadTailProperties
<1>7. ASSUME NEW R, Ordered(s, R), Ordered(t, R),
             \A x \in Items(s), y \in Items(t) : <<x, y>> \in R
      PROVE  Ordered(u, R)
  <2> SUFFICES ASSUME NEW i \in 1 .. Len(u), NEW j \in 1 .. Len(u), i < j
               PROVE  <<u[i], u[j]>> \in R
    BY DEF Ordered
  <2>1. CASE j \in 1 .. Len(s)
    <3>1. i \in 1 .. Len(s)
      BY <2>1
    <3> QED BY <1>1, <1>7, <2>1, <3>1 DEF Ordered
  <2>2. CASE i \in 1 .. Len(s) /\ j \notin 1 .. Len(s)
    <3>1. u[i] = s[i] /\ j - Len(s) \in 1 .. Len(t) /\ u[j] = t[j - Len(s)]
      BY <1>1, <1>2, <2>2
    <3>2. u[i] \in Items(s) /\ u[j] \in Items(t)
      BY <2>2, <3>1 DEF Items
    <3> QED BY <1>7, <3>2
  <2>3. CASE i \notin 1 .. Len(s) /\ j \notin 1 .. Len(s)
    <3>1. /\ i - Len(s) \in 1 .. Len(t) /\ u[i] = t[i - Len(s)]
          /\ j - Len(s) \in 1 .. Len(t) /\ u[j] = t[j - Len(s)]
          /\ i - Len(s) < j - Len(s)
      BY <1>1, <1>2, <2>3
    <3> QED BY <1>7, <3>1 DEF Ordered
  <2> QED BY <2>1, <2>2, <2>3
<1> QED BY <1>1, <1>3, <1>4, <1>5, <1>6, <1>7 DEF u

LEMMA AddedItem ==
    ASSUME NEW S, NEW s \in Seq(S), NEW x \in S
    PROVE  /\ Append(s, x) \in Seq(S)
           /\ Items(Append(s, x)) = Items(s) \cup {x}
<1>1. Append(s, x) = s \o <<x>>
  OBVIOUS
<1>2. <<x>> \in Seq(S) /\ Items(<<x>>) = {x}
  BY OneItem
<1> DEFINE t == <<x>>
<1>3. t \in Seq(S) /\ Items(t) = {x} /\ Append(s, x) = s \o t
  BY <1>1, <1>2
<1> HIDE DEF t
<1> QED BY <1>3, JoinedItems

\* The queue without its first item.
LEMMA RestOfItems ==
    ASSUME NEW S, NEW s \in Seq(S), s # <<>>
    PROVE  /\ Tail(s) \in Seq(S) /\ Head(s) \in S
           /\ Items(s) = {Head(s)} \cup Items(Tail(s))
           /\ \A R : Ordered(s, R) =>
                 /\ Ordered(Tail(s), R)
                 /\ \A y \in Items(Tail(s)) : <<Head(s), y>> \in R
<1> DEFINE u == Tail(s)
<1>1. /\ Len(s) \in Nat /\ Len(s) >= 1
      /\ Head(s) = s[1] /\ Head(s) \in S
      /\ u \in Seq(S) /\ Len(u) = Len(s) - 1
      /\ \A i \in 1 .. Len(u) : u[i] = s[i + 1]
  BY HeadTailProperties, LenProperties, EmptySeq
<1> HIDE DEF u
<1>2. \A i \in 1 .. Len(u) : i + 1 \in 1 .. Len(s)
  BY <1>1
<1>3. \A i \in 1 .. Len(s) : i = 1 \/ (i - 1 \in 1 .. Len(u) /\ s[i] = u[i - 1])
  BY <1>1
<1>4. Items(s) = {Head(s)} \cup Items(u)
  <2>1. Items(s) \subseteq {Head(s)} \cup Items(u)
    BY <1>1, <1>3 DEF Items
  <2>2. Head(s) \in Items(s)
    BY <1>1 DEF Items
  <2>3. Items(u) \subseteq Items(s)
    BY <1>1, <1>2 DEF Items
  <2> QED BY <2>1, <2>2, <2>3
<1>5. ASSUME NEW R, Ordered(s, R) PROVE Ordered(u, R)
  <2> SUFFICES ASSUME NEW i \in 1 .. Len(u), NEW j \in 1 .. Len(u), i < j
               PROVE  <<u[i], u[j]>> \in R
    BY DEF Ordered
  <2>1. /\ i + 1 \in 1 .. Len(s) /\ j + 1 \in 1 .. Len(s) /\ i + 1 < j + 1
        /\ u[i] = s[i + 1] /\ u[j] = s[j + 1]
    BY <1>1, <1>2
  <2> QED BY <1>5, <2>1 DEF Ordered
<1>6. ASSUME NEW R, Ordered(s, R), NEW y \in Items(u)
      PROVE  <<Head(s), y>> \in R
  <2>1. PICK i \in 1 .. Len(u) : y = u[i]
    BY <1>6 DEF Items
  <2>2. 1 \in 1 .. Len(s) /\ i + 1 \in 1 .. Len(s) /\ 1 < i + 1
    BY <1>1, <1>2, <2>1
  <2> QED BY <1>1, <1>6, <2>1, <2>2 DEF Ordered
<1> QED BY <1>1, <1>4, <1>5, <1>6 DEF u

\* The first k items.
LEMMA FirstItems ==
    ASSUME NEW S, NEW s \in Seq(S), NEW k \in 0 .. Len(s)
    PROVE  /\ SubSeq(s, 1, k) \in Seq(S)
           /\ Items(SubSeq(s, 1, k)) \subseteq Items(s)
           /\ SubSeq(s, 1, k) # <<>> => s # <<>> /\ Head(SubSeq(s, 1, k)) = Head(s)
           /\ \A R : Ordered(s, R) => Ordered(SubSeq(s, 1, k), R)
<1> DEFINE u == SubSeq(s, 1, k)
<1>0. Len(s) \in Nat /\ \A i \in 1 .. Len(s) : s[i] \in S
  BY LenProperties, ElementOfSeq
<1>1. u \in Seq(S) /\ Len(u) = k /\ \A i \in 1 .. k : u[i] = s[i]
  BY <1>0, SubSeqProperties
<1> HIDE DEF u
<1>2. \A i \in 1 .. k : i \in 1 .. Len(s)
  BY <1>0
<1>3. Items(u) \subseteq Items(s)
  BY <1>1, <1>2 DEF Items
<1>4. u # <<>> => s # <<>> /\ Head(u) = Head(s)
  <2>1. u # <<>> => k >= 1 /\ Len(s) >= 1
    BY <1>0, <1>1, EmptySeq
  <2> QED BY <1>0, <1>1, <2>1, HeadTailProperties, EmptySeq
<1>5. ASSUME NEW R, Ordered(s, R) PROVE Ordered(u, R)
  BY <1>1, <1>2, <1>5 DEF Ordered
<1> QED BY <1>1, <1>3, <1>4, <1>5 DEF u

\* SetToSeq() lists a finite set, and a list can be made of its image.
LEMMA ListOfSet ==
    ASSUME NEW S, IsFiniteSet(S)
    PROVE  /\ Len(SetToSeq(S)) \in Nat
           /\ \A i \in 1 .. Len(SetToSeq(S)) : SetToSeq(S)[i] \in S
           /\ \A x \in S : \E i \in 1 .. Len(SetToSeq(S)) : SetToSeq(S)[i] = x
<1> DEFINE n == Cardinality(S)
           f == SetToSeq(S)
<1>1. n \in Nat /\ ExistsBijection(1 .. n, S)
  BY FS_CardinalityType
<1>2. PICK g \in Bijection(1 .. n, S) : TRUE
  BY <1>1 DEF ExistsBijection
<1>3. g \in [1 .. n -> S] /\ IsInjective(g)
  BY <1>2 DEF Bijection, Injection
<1>4. f \in [1 .. n -> S] /\ IsInjective(f)
  BY <1>3 DEF SetToSeq
<1>5. IsFiniteSet(1 .. n) /\ Cardinality(1 .. n) = n
  BY <1>1, FS_Interval
<1>6. f \in Injection(1 .. n, S)
  BY <1>4 DEF Injection
<1>7. f \in Surjection(1 .. n, S)
  BY <1>5, <1>6, FS_Injection
<1>8. Len(f) = n /\ \A i \in 1 .. n : f[i] \in S
  BY <1>1, <1>4
<1>9. \A x \in S : \E i \in 1 .. n : f[i] = x
  BY <1>7 DEF Surjection
<1> QED BY <1>1, <1>8, <1>9

-----------------------------------------------------------------------------
(***************************************************************************)
(* The invariant of the versions.                                          *)
(***************************************************************************)

\* A login comes first, a farewell last.
ServerOrder ==
    {xy \in ToServer \X ToServer : xy[1].type # "bye" /\ xy[2].type # "login"}

\* Of one chunk, versions rise and heights do not fall.
ClientOrder ==
    {xy \in ToClient \X ToClient : xy[1].pos = xy[2].pos =>
        /\ xy[1].type = "surface" /\ xy[2].type = "surface"
              => xy[1].version <= xy[2].version
        /\ xy[1].type = "height" /\ xy[2].type = "height"
              => (xy[2].air => xy[1].air)}

Bounded == \A p \in Pos : surface[p] <= changes + 1

OnePeerEach ==
    \A d, e \in Peers : user[d] # None /\ user[d] = user[e] => d = e

StoredIsOld == \A c \in Clients, p \in Pos : stored[c][p] <= surface[p]

\* A peer in use has logged in, or is about to log in or to leave.  The
\* versions it names are not newer than those its client has by now.
ServerWire(d) ==
    /\ Ordered(toServer[d], ServerOrder)
    /\ user[d] = None => toServer[d] = <<>>
    /\ \A m \in Items(toServer[d]) : m.type = "login" => d \notin connections
    /\ d \in connections => user[d] # None
    /\ user[d] # None /\ d \notin connections =>
          toServer[d] # <<>> /\ Head(toServer[d]).type \in {"login", "bye"}
    /\ \A m \in Items(toServer[d]) : m.type = "surfaces" =>
          m.version <= stored[user[d]][m.pos]

\* What is sent to a client is not older than what it has, nor newer than the
\* world.  Heights are sent to peers that are logged in.
PacketOK(d, m) ==
    /\ m.type = "surface" =>
          /\ 1 <= m.version /\ m.version <= surface[m.pos]
          /\ stored[user[d]][m.pos] <= m.version
    /\ m.type = "height" => d \in connections /\ (air[m.pos] => m.air)

ClientWire(d) ==
    /\ user[d] = None => toClient[d] = <<>>
    /\ Ordered(toClient[d], ClientOrder)
    /\ \A m \in Items(toClient[d]) : PacketOK(d, m)

VersionInv ==
    /\ TypeOK /\ Bounded /\ OnePeerEach /\ StoredIsOld
    /\ \A d \in Peers : ServerWire(d) /\ ClientWire(d)

LEMMA VersionsAtFirst == Init => VersionInv
<1> SUFFICES ASSUME Init PROVE VersionInv
  OBVIOUS
<1> USE FeedShape, FeedBounds
<1>1. TypeOK
  <2>1. /\ jobs \in Seq(Order) /\ tasks \in Seq(Order)
        /\ toServer \in [Peers -> Seq(ToServer)]
        /\ toClient \in [Peers -> Seq(ToClient)]
    BY NoItems DEF Init
  <2>2. /\ 0 \in Version /\ air \in [Pos -> BOOLEAN] /\ surface \in [Pos -> Version]
        /\ stored \in [Clients -> [Pos -> Version]]
    BY DEF Init, Version
  <2>3. /\ changes \in 0 .. MaxChanges /\ sessions \in 0 .. MaxSessions
        /\ views \in 0 .. MaxVisible /\ failures \in 0 .. MaxFailures
    BY DEF Init
  <2>4. /\ user \in [Peers -> Clients \cup {None}] /\ connections \in SUBSET Peers
        /\ draining \in BOOLEAN /\ made \in BOOLEAN /\ task \in Order \cup {None}
        /\ height \in [Clients -> [Pos -> {"unknown", "air", "ground"}]]
        /\ requests \in [Clients -> SUBSET Pos]
        /\ visible \in [Clients -> SUBSET Pos]
    BY DEF Init
  <2> QED BY <2>1, <2>2, <2>3, <2>4 DEF TypeOK
<1>2. Bounded /\ OnePeerEach /\ StoredIsOld
  BY DEF Init, Bounded, OnePeerEach, StoredIsOld
<1>3. ASSUME NEW d \in Peers PROVE ServerWire(d) /\ ClientWire(d)
  BY NoItems DEF Init, ServerWire, ClientWire
<1> QED BY <1>1, <1>2, <1>3 DEF VersionInv

\* Packets that tell how it is may be sent to any peer.
LEMMA SendKeeps ==
    ASSUME VersionInv, NEW d \in Peers, NEW packets \in Seq(ToClient),
           Ordered(packets, ClientOrder), SendTo(d, packets),
           user' = user, stored' = stored, air' = air,
           connections \subseteq connections',
           \A p \in Pos : surface'[p] \in Version /\ surface'[p] >= surface[p],
           \A m \in Items(packets) :
              /\ m.type = "surface" => 1 <= m.version /\ m.version = surface'[m.pos]
              /\ m.type = "height" =>
                    /\ user[d] # None => d \in connections'
                    /\ air[m.pos] <=> m.air
    PROVE  /\ toClient' \in [Peers -> Seq(ToClient)]
           /\ \A e \in Peers : ClientWire(e)'
<1> USE FeedShape, FeedBounds
<1>0. /\ toClient \in [Peers -> Seq(ToClient)]
      /\ \A p \in Pos : surface[p] \in Nat /\ surface'[p] \in Nat
      /\ \A c \in Clients, p \in Pos : stored[c][p] \in Nat /\ stored[c][p] <= surface[p]
      /\ \A e \in Peers : user[e] \in Clients \cup {None}
  BY DEF VersionInv, TypeOK, Version, StoredIsOld
<1>1. ASSUME NEW e \in Peers, NEW m \in Items(toClient[e])
      PROVE  m \in ToClient /\ PacketOK(e, m) /\ PacketOK(e, m)'
  <2>1. m \in ToClient
    BY <1>0, ElementOfSeq DEF Items
  <2>2. PacketOK(e, m)
    BY DEF VersionInv, ClientWire
  <2>3. user[e] \in Clients
    BY <1>0, <1>1, NoItems DEF VersionInv, ClientWire
  <2> QED BY <1>0, <2>1, <2>2, <2>3 DEF PacketOK, ToClient, Version
<1>2. CASE user[d] = None
  <2>1. toClient' = toClient
    BY <1>2 DEF SendTo
  <2> QED BY <1>0, <1>1, <2>1 DEF VersionInv, ClientWire
<1>3. CASE user[d] # None
  <2> DEFINE q == toClient[d] \o packets
  <2>1. /\ toClient' = [toClient EXCEPT ![d] = q]
        /\ user[d] \in Clients /\ toClient[d] \in Seq(ToClient)
    BY <1>0, <1>3 DEF SendTo, Queued
  <2>2. ASSUME NEW m \in Items(packets) PROVE m \in ToClient /\ PacketOK(d, m)'
    <3>1. m \in ToClient
      BY ElementOfSeq DEF Items
    <3> QED BY <1>0, <1>3, <2>1, <3>1 DEF PacketOK, ToClient, Version
  <2>3. ASSUME NEW x \in Items(toClient[d]), NEW y \in Items(packets)
        PROVE  <<x, y>> \in ClientOrder
    <3>1. x \in ToClient /\ y \in ToClient /\ PacketOK(d, x) /\ PacketOK(d, y)'
      BY <1>1, <2>2
    <3> QED BY <1>0, <3>1 DEF PacketOK, ClientOrder, ToClient, Version
  <2>4. q \in Seq(ToClient) /\ Items(q) = Items(toClient[d]) \cup Items(packets)
    BY <2>1, JoinedItems
  <2>5. Ordered(q, ClientOrder)
    BY <2>1, <2>3, JoinedItems DEF VersionInv, ClientWire
  <2>6. toClient' \in [Peers -> Seq(ToClient)] /\ toClient'[d] = q
    BY <1>0, <2>1, <2>4
  <2>7. ASSUME NEW e \in Peers, e # d PROVE ClientWire(e)'
    <3>1. toClient'[e] = toClient[e]
      BY <1>0, <2>1, <2>7
    <3> QED BY <1>1, <3>1 DEF VersionInv, ClientWire
  <2>8. ClientWire(d)'
    BY <1>1, <1>3, <2>2, <2>4, <2>5, <2>6 DEF ClientWire
  <2> QED BY <2>6, <2>7, <2>8
<1> QED BY <1>2, <1>3

\* A handler of a request takes it off the queue and sends what it sends.
LEMMA EventKeeps ==
    ASSUME VersionInv, NEW d \in Peers, NEW type \in {"heights", "surfaces"},
           Event(d, type),
           user' = user, stored' = stored, connections' = connections
    PROVE  /\ toServer' \in [Peers -> Seq(ToServer)]
           /\ draining' \in BOOLEAN
           /\ \A e \in Peers : ServerWire(e)'
           /\ Head(toServer[d]) \in ToServer
           /\ Head(toServer[d]) \in Items(toServer[d])
           /\ user[d] \in Clients /\ d \in connections
<1>0. /\ toServer \in [Peers -> Seq(ToServer)]
      /\ \A e \in Peers : user[e] \in Clients \cup {None}
  BY DEF VersionInv, TypeOK
<1>1. /\ toServer[d] \in Seq(ToServer) /\ toServer[d] # <<>>
      /\ Head(toServer[d]).type = type
      /\ toServer' = [toServer EXCEPT ![d] = Tail(toServer[d])]
      /\ draining' = TRUE
  BY <1>0 DEF Event
<1>2. ServerWire(d)
  BY DEF VersionInv
<1>3. user[d] \in Clients /\ d \in connections
  BY <1>0, <1>1, <1>2 DEF ServerWire
<1>4. /\ Tail(toServer[d]) \in Seq(ToServer) /\ Head(toServer[d]) \in ToServer
      /\ Items(toServer[d]) = {Head(toServer[d])} \cup Items(Tail(toServer[d]))
      /\ Ordered(Tail(toServer[d]), ServerOrder)
  BY <1>1, <1>2, RestOfItems DEF ServerWire
<1>5. toServer' \in [Peers -> Seq(ToServer)] /\ toServer'[d] = Tail(toServer[d])
  BY <1>0, <1>1, <1>4
<1>6. ServerWire(d)'
  BY <1>2, <1>3, <1>4, <1>5, FeedShape DEF ServerWire
<1>7. ASSUME NEW e \in Peers, e # d PROVE ServerWire(e)'
  <2>1. toServer'[e] = toServer[e]
    BY <1>0, <1>1, <1>7
  <2> QED BY <2>1 DEF VersionInv, ServerWire
<1> QED BY <1>1, <1>3, <1>4, <1>5, <1>6, <1>7

\* The wires of the peers stay as they are.
LEMMA WiresRest ==
    ASSUME VersionInv, UNCHANGED <<toServer, user, connections, stored>>
    PROVE  \A e \in Peers : ServerWire(e)'
BY DEF VersionInv, ServerWire

LEMMA PacketsRest ==
    ASSUME VersionInv, UNCHANGED <<toClient, user, connections, stored, air>>,
           \A p \in Pos : surface'[p] \in Version /\ surface'[p] >= surface[p]
    PROVE  \A e \in Peers : ClientWire(e)'
<1> SUFFICES ASSUME NEW e \in Peers PROVE ClientWire(e)'
  OBVIOUS
<1>0. /\ toClient \in [Peers -> Seq(ToClient)]
      /\ \A p \in Pos : surface[p] \in Nat /\ surface'[p] \in Nat
  BY FeedBounds DEF VersionInv, TypeOK, Version
<1>1. ASSUME NEW m \in Items(toClient[e]) PROVE PacketOK(e, m)'
  <2>1. m \in ToClient
    BY <1>0, ElementOfSeq DEF Items
  <2>2. PacketOK(e, m)
    BY DEF VersionInv, ClientWire
  <2> QED BY <1>0, <2>1, <2>2, FeedBounds DEF PacketOK, ToClient, Version
<1> QED BY <1>1 DEF VersionInv, ClientWire

\* A surface that is made is there for good.
LEMMA MadeKeeps ==
    ASSUME VersionInv, NEW p \in Pos, surface' = Made(p), changes' = changes
    PROVE  /\ surface' \in [Pos -> Version]
           /\ surface'[p] = VersionOf(p) /\ 1 <= surface'[p]
           /\ \A q \in Pos : surface'[q] \in Version /\ surface'[q] >= surface[q]
           /\ Bounded'
           /\ stored' = stored => StoredIsOld'
<1>1. /\ surface \in [Pos -> Version] /\ \A q \in Pos : surface[q] \in Nat
      /\ changes \in Nat /\ changes <= MaxChanges
      /\ \A q \in Pos : surface[q] <= changes + 1
      /\ \A c \in Clients, q \in Pos : stored[c][q] \in Nat /\ stored[c][q] <= surface[q]
  BY FeedBounds DEF VersionInv, TypeOK, Version, Bounded, StoredIsOld
<1>2. /\ VersionOf(p) \in Nat /\ VersionOf(p) >= surface[p] /\ VersionOf(p) >= 1
      /\ VersionOf(p) <= changes + 1 /\ VersionOf(p) \in Version
  BY <1>1, FeedBounds DEF VersionOf, Version
<1>3. /\ surface' \in [Pos -> Version] /\ surface'[p] = VersionOf(p)
      /\ \A q \in Pos : q # p => surface'[q] = surface[q]
  BY <1>1, <1>2 DEF Made
<1>4. \A q \in Pos : surface'[q] \in Nat /\ surface'[q] >= surface[q]
  BY <1>1, <1>2, <1>3
<1>5. Bounded'
  BY <1>1, <1>2, <1>3 DEF Bounded
<1>6. stored' = stored => StoredIsOld'
  BY <1>1, <1>4 DEF StoredIsOld
<1> QED BY <1>2, <1>3, <1>4, <1>5, <1>6

\* send_surface() to whoever has the peer.
LEMMA SurfaceSent ==
    ASSUME VersionInv, NEW d \in Peers, NEW p \in Pos, SendSurface(p, d),
           user' = user, stored' = stored, air' = air,
           connections' = connections, changes' = changes
    PROVE  /\ surface' \in [Pos -> Version] /\ surface'[p] = VersionOf(p)
           /\ Bounded' /\ StoredIsOld'
           /\ toClient' \in [Peers -> Seq(ToClient)]
           /\ \A e \in Peers : ClientWire(e)'
<1>1. /\ surface' \in [Pos -> Version]
      /\ surface'[p] = VersionOf(p) /\ 1 <= surface'[p]
      /\ \A q \in Pos : surface'[q] \in Version /\ surface'[q] >= surface[q]
      /\ Bounded' /\ StoredIsOld'
  BY MadeKeeps DEF SendSurface
<1> DEFINE m == SurfaceOf(p, VersionOf(p))
<1>2. /\ m \in ToClient /\ m.type = "surface" /\ m.pos = p
      /\ m.version = surface'[p]
  BY <1>1 DEF SurfaceOf, ToClient
<1> HIDE DEF m
<1>3. /\ <<m>> \in Seq(ToClient) /\ Items(<<m>>) = {m}
      /\ Ordered(<<m>>, ClientOrder)
  BY <1>2, OneItem
<1>4. SendTo(d, <<m>>)
  BY DEF SendSurface, m
<1>5. /\ toClient' \in [Peers -> Seq(ToClient)]
      /\ \A e \in Peers : ClientWire(e)'
  BY <1>1, <1>2, <1>3, <1>4, SendKeeps
<1> QED BY <1>1, <1>5

-----------------------------------------------------------------------------
(***************************************************************************)
(* The steps.                                                              *)
(***************************************************************************)

LEMMA ConnectKeeps ==
    ASSUME VersionInv, NEW c \in Clients, NEW d \in Peers, Connect(c, d)
    PROVE  VersionInv'
<1> DEFINE m == [type |-> "login", pos |-> None]
<1>0. /\ toServer \in [Peers -> Seq(ToServer)]
      /\ user \in [Peers -> Clients \cup {None}] /\ None \notin Clients
      /\ user[d] = None /\ \A e \in Peers : user[e] # c
      /\ user' = [user EXCEPT ![d] = c] /\ connections' = connections
      /\ toServer' = [toServer EXCEPT ![d] = <<m>>]
      /\ UNCHANGED <<air, surface, toClient, stored>>
      /\ sessions \in 0 .. MaxSessions /\ sessions' = sessions + 1
      /\ sessions < MaxSessions
  BY FeedShape DEF VersionInv, TypeOK, Connect, worldVars
<1>1. m \in ToServer /\ m.type = "login"
  BY DEF ToServer
<1> HIDE DEF m
<1>2. /\ <<m>> \in Seq(ToServer) /\ Items(<<m>>) = {m} /\ <<m>> # <<>>
      /\ Head(<<m>>) = m /\ Ordered(<<m>>, ServerOrder)
  <2>1. <<m>> # <<>>
    OBVIOUS
  <2> QED BY <1>1, <2>1, OneItem
<1>3. toServer' \in [Peers -> Seq(ToServer)] /\ toServer'[d] = <<m>>
  BY <1>0, <1>2
<1>4. TypeOK'
  <2>1. sessions' \in 0 .. MaxSessions
    BY <1>0, FeedBounds
  <2>2. /\ user' \in [Peers -> Clients \cup {None}]
        /\ requests' \in [Clients -> SUBSET Pos]
        /\ visible' \in [Clients -> SUBSET Pos]
    BY <1>0 DEF VersionInv, TypeOK, Connect
  <2> QED BY <1>3, <2>1, <2>2 DEF VersionInv, TypeOK, Connect, worldVars, poolVars
<1>5. Bounded' /\ StoredIsOld'
  BY DEF VersionInv, Bounded, StoredIsOld, Connect, worldVars
<1>6. OnePeerEach'
  BY <1>0 DEF VersionInv, OnePeerEach
<1>7. ASSUME NEW e \in Peers PROVE ServerWire(e)' /\ ClientWire(e)'
  <2>1. CASE e = d
    <3>1. d \notin connections /\ toClient[d] = <<>>
      BY <1>0 DEF VersionInv, ServerWire, ClientWire
    <3>2. ServerWire(d)'
      BY <1>0, <1>1, <1>2, <1>3, <3>1 DEF ServerWire
    <3>3. ClientWire(d)'
      BY <1>0, <3>1, NoItems DEF ClientWire
    <3> QED BY <2>1, <3>2, <3>3
  <2>2. CASE e # d
    <3>1. toServer'[e] = toServer[e] /\ user'[e] = user[e]
      BY <1>0, <2>2
    <3>2. ServerWire(e)'
      BY <1>0, <3>1 DEF VersionInv, ServerWire
    <3>3. ClientWire(e)'
      BY <1>0, <3>1 DEF VersionInv, ClientWire, PacketOK
    <3> QED BY <3>2, <3>3
  <2> QED BY <2>1, <2>2
<1> QED BY <1>4, <1>5, <1>6, <1>7 DEF VersionInv

LEMMA LeaveKeeps ==
    ASSUME VersionInv, NEW d \in Peers, Leave(d)
    PROVE  VersionInv'
<1> DEFINE m == [type |-> "bye", pos |-> None]
<1>1. PICK k \in 0 .. Len(toServer[d]) :
          toServer' = [toServer EXCEPT ![d] = Append(SubSeq(toServer[d], 1, k), m)]
  BY DEF Leave, VersionInv, TypeOK
<1>0. /\ toServer \in [Peers -> Seq(ToServer)] /\ toServer[d] \in Seq(ToServer)
      /\ toClient \in [Peers -> Seq(ToClient)]
      /\ toClient' = [toClient EXCEPT ![d] = <<>>]
      /\ user[d] # None
      /\ \A i \in 1 .. Len(toServer[d]) : toServer[d][i].type # "bye"
      /\ UNCHANGED <<air, surface, user, connections, stored>>
  BY DEF VersionInv, TypeOK, Leave, worldVars, netVars, clientVars
<1>2. m \in ToServer /\ m.type = "bye"
  BY DEF ToServer
<1> HIDE DEF m
<1> DEFINE s == SubSeq(toServer[d], 1, k)
<1>3. /\ s \in Seq(ToServer) /\ Items(s) \subseteq Items(toServer[d])
      /\ s # <<>> => toServer[d] # <<>> /\ Head(s) = Head(toServer[d])
      /\ Ordered(s, ServerOrder)
  BY <1>0, FirstItems DEF VersionInv, ServerWire
<1> HIDE DEF s
<1> DEFINE t == <<m>>
<1>4. t \in Seq(ToServer) /\ Items(t) = {m} /\ Ordered(t, ServerOrder)
  BY <1>2, OneItem
<1>5. /\ Append(s, m) = s \o t
      /\ s = <<>> => Append(s, m) # <<>> /\ Head(Append(s, m)) = m
      /\ Append(s, m) # <<>>
  BY <1>2, <1>3
<1>6. \A x \in Items(s) : x \in ToServer /\ x.type # "bye"
  <2> TAKE x \in Items(s)
  <2>1. PICK i \in 1 .. Len(toServer[d]) : x = toServer[d][i]
    BY <1>3 DEF Items
  <2> QED BY <1>0, <2>1, ElementOfSeq
<1> HIDE DEF t
<1>7. /\ s \o t \in Seq(ToServer) /\ Items(s \o t) = Items(s) \cup {m}
      /\ s # <<>> => Head(s \o t) = Head(s)
  BY <1>3, <1>4, JoinedItems
<1>8. Ordered(s \o t, ServerOrder)
  <2>1. \A x \in Items(s), y \in Items(t) : <<x, y>> \in ServerOrder
    BY <1>2, <1>4, <1>6 DEF ServerOrder
  <2> QED BY <1>3, <1>4, <2>1, JoinedItems
<1>9. /\ toServer' \in [Peers -> Seq(ToServer)] /\ toServer'[d] = s \o t
      /\ toClient' \in [Peers -> Seq(ToClient)] /\ toClient'[d] = <<>>
  BY <1>0, <1>1, <1>5, <1>7, NoItems DEF s
<1>10. TypeOK'
  BY <1>9 DEF VersionInv, TypeOK, Leave, worldVars, netVars, poolVars,
     clientVars, counters
<1>11. Bounded' /\ OnePeerEach' /\ StoredIsOld'
  BY DEF VersionInv, Bounded, OnePeerEach, StoredIsOld, Leave, worldVars,
     netVars, clientVars, counters
<1>12. ServerWire(d)' /\ ClientWire(d)'
  <2>1. ServerWire(d)
    BY DEF VersionInv
  <2>2. ClientWire(d)'
    BY <1>0, <1>9, NoItems DEF ClientWire
  <2>3. user'[d] # None /\ d \notin connections' =>
            toServer'[d] # <<>> /\ Head(toServer'[d]).type \in {"login", "bye"}
    BY <1>0, <1>2, <1>3, <1>5, <1>7, <1>9, <2>1 DEF ServerWire
  <2>4. \A x \in Items(toServer'[d]) :
            /\ x.type = "login" => d \notin connections'
            /\ x.type = "surfaces" => x.version <= stored'[user'[d]][x.pos]
    BY <1>0, <1>2, <1>3, <1>7, <1>9, <2>1 DEF ServerWire
  <2> QED BY <1>0, <1>8, <1>9, <2>1, <2>2, <2>3, <2>4 DEF ServerWire
<1>13. ASSUME NEW e \in Peers, e # d PROVE ServerWire(e)' /\ ClientWire(e)'
  <2>1. toServer'[e] = toServer[e] /\ toClient'[e] = toClient[e]
    BY <1>0, <1>1, <1>13
  <2> QED BY <1>0, <2>1 DEF VersionInv, ServerWire, ClientWire, PacketOK
<1> QED BY <1>10, <1>11, <1>12, <1>13 DEF VersionInv

\* A step that leaves the wires, the world and the stores alone.
LEMMA QuietKeeps ==
    ASSUME VersionInv, TypeOK',
           UNCHANGED <<worldVars, user, connections, wire, stored, changes>>
    PROVE  VersionInv'
<1>1. UNCHANGED <<air, surface, user, connections, toServer, toClient, stored,
                  changes>>
  BY DEF worldVars, wire
<1>2. \A p \in Pos : surface'[p] \in Version /\ surface'[p] >= surface[p]
  BY <1>1, FeedBounds DEF VersionInv, TypeOK, Version
<1>3. \A e \in Peers : ServerWire(e)' /\ ClientWire(e)'
  BY <1>1, <1>2, WiresRest, PacketsRest
<1>4. Bounded' /\ OnePeerEach' /\ StoredIsOld'
  BY <1>1 DEF VersionInv, Bounded, OnePeerEach, StoredIsOld
<1> QED BY <1>3, <1>4 DEF VersionInv

LEMMA BecomeVisibleKeeps ==
    ASSUME VersionInv, NEW c \in Clients, NEW d \in Peers, NEW p \in Pos,
           BecomeVisible(c, d, p)
    PROVE  VersionInv'
<1>1. views' \in 0 .. MaxVisible
  BY FeedBounds DEF BecomeVisible, VersionInv, TypeOK
<1>2. /\ requests' \in [Clients -> SUBSET Pos]
      /\ visible' \in [Clients -> SUBSET Pos]
  BY DEF BecomeVisible, VersionInv, TypeOK
<1>3. TypeOK'
  BY <1>1, <1>2 DEF BecomeVisible, VersionInv, TypeOK, worldVars, netVars,
     poolVars, wire
<1> QED BY <1>3, QuietKeeps DEF BecomeVisible, netVars

\* A request names at most the version that is stored.
LEMMA RequestForFits ==
    ASSUME VersionInv, NEW c \in Clients, NEW p \in Pos
    PROVE  /\ RequestFor(c, p) \in Seq(ToServer)
           /\ Ordered(RequestFor(c, p), ServerOrder)
           /\ \A m \in Items(RequestFor(c, p)) :
                 /\ m \in ToServer /\ m.type \notin {"login", "bye"}
                 /\ m.type = "surfaces" => m.version <= stored[c][m.pos]
<1>0. stored[c][p] \in Version /\ 0 \in Version /\ 0 <= stored[c][p]
  BY FeedBounds DEF VersionInv, TypeOK, Version
<1>1. CASE height[c][p] = "air"
  BY <1>1, NoItems DEF RequestFor
<1>2. CASE height[c][p] = "unknown"
  <2> DEFINE x == [type |-> "heights", pos |-> p]
             y == [type |-> "surfaces", pos |-> p, version |-> 0]
  <2>1. /\ x \in ToServer /\ y \in ToServer /\ x.type = "heights"
        /\ y.type = "surfaces" /\ y.version = 0 /\ y.pos = p
    BY <1>0 DEF ToServer
  <2>2. RequestFor(c, p) = <<x, y>>
    BY <1>2 DEF RequestFor
  <2> HIDE DEF x, y
  <2>3. <<x, y>> \in ServerOrder
    BY <2>1 DEF ServerOrder
  <2>4. /\ <<x, y>> \in Seq(ToServer) /\ Items(<<x, y>>) = {x, y}
        /\ Ordered(<<x, y>>, ServerOrder)
    BY <2>1, <2>3, TwoItems
  <2> QED BY <1>0, <2>1, <2>2, <2>4
<1>3. CASE height[c][p] \notin {"air", "unknown"}
  <2> DEFINE y == [type |-> "surfaces", pos |-> p, version |-> stored[c][p]]
  <2>1. /\ y \in ToServer /\ y.type = "surfaces"
        /\ y.version = stored[c][p] /\ y.pos = p
    BY <1>0 DEF ToServer
  <2>2. RequestFor(c, p) = <<y>>
    BY <1>3 DEF RequestFor
  <2> HIDE DEF y
  <2>3. /\ <<y>> \in Seq(ToServer) /\ Items(<<y>>) = {y}
        /\ Ordered(<<y>>, ServerOrder)
    BY <2>1, OneItem
  <2>4. stored[c][p] <= stored[c][p]
    BY <1>0 DEF Version
  <2> QED BY <2>1, <2>2, <2>3, <2>4
<1> QED BY <1>1, <1>2, <1>3

LEMMA RequestKeeps ==
    ASSUME VersionInv, NEW c \in Clients, NEW d \in Peers, NEW p \in Pos,
           Request(c, d, p)
    PROVE  VersionInv'
<1> DEFINE s == toServer[d]
           t == RequestFor(c, p)
<1>0. /\ toServer \in [Peers -> Seq(ToServer)] /\ s \in Seq(ToServer)
      /\ user[d] = c /\ user[d] # None
      /\ \A i \in 1 .. Len(s) : s[i].type # "bye"
      /\ toServer' = [toServer EXCEPT ![d] = s \o t]
      /\ UNCHANGED <<air, surface, user, connections, stored, toClient, changes>>
  BY FeedShape DEF VersionInv, TypeOK, Request, Online, Queued, worldVars,
     netVars, counters
<1>1. /\ t \in Seq(ToServer) /\ Ordered(t, ServerOrder)
      /\ \A m \in Items(t) :
            /\ m \in ToServer /\ m.type \notin {"login", "bye"}
            /\ m.type = "surfaces" => m.version <= stored[c][m.pos]
  BY RequestForFits
<1>2. ServerWire(d)
  BY DEF VersionInv
<1>3. \A x \in Items(s) : x \in ToServer /\ x.type # "bye"
  BY <1>0, ElementOfSeq DEF Items
<1> HIDE DEF s, t
<1>4. /\ s \o t \in Seq(ToServer) /\ Items(s \o t) = Items(s) \cup Items(t)
      /\ s # <<>> => s \o t # <<>> /\ Head(s \o t) = Head(s)
  BY <1>0, <1>1, JoinedItems
<1>5. Ordered(s \o t, ServerOrder)
  <2>1. \A x \in Items(s), y \in Items(t) : <<x, y>> \in ServerOrder
    BY <1>1, <1>3 DEF ServerOrder
  <2>2. Ordered(s, ServerOrder)
    BY <1>2 DEF ServerWire, s
  <2> QED BY <1>0, <1>1, <2>1, <2>2, JoinedItems
<1>6. toServer' \in [Peers -> Seq(ToServer)] /\ toServer'[d] = s \o t
  BY <1>0, <1>4
<1>7. ServerWire(d)'
  <2>1. /\ d \in connections => user[d] # None
        /\ d \notin connections => s # <<>> /\ Head(s).type \in {"login", "bye"}
        /\ \A m \in Items(s) :
              /\ m.type = "login" => d \notin connections
              /\ m.type = "surfaces" => m.version <= stored[user[d]][m.pos]
    BY <1>0, <1>2 DEF ServerWire, s
  <2> QED BY <1>0, <1>1, <1>4, <1>5, <1>6, <2>1 DEF ServerWire
<1>8. ASSUME NEW e \in Peers, e # d PROVE ServerWire(e)'
  <2>1. toServer'[e] = toServer[e]
    BY <1>0, <1>8
  <2> QED BY <1>0, <2>1 DEF VersionInv, ServerWire
<1>9. \A e \in Peers : ClientWire(e)'
  <2>1. \A q \in Pos : surface'[q] \in Version /\ surface'[q] >= surface[q]
    BY <1>0, FeedBounds DEF VersionInv, TypeOK, Version
  <2> QED BY <1>0, <2>1, PacketsRest
<1>10. TypeOK'
  <2>1. requests' \in [Clients -> SUBSET Pos]
    BY DEF VersionInv, TypeOK, Request
  <2> QED BY <1>6, <2>1 DEF VersionInv, TypeOK, Request, worldVars, netVars,
          poolVars, counters
<1>11. Bounded' /\ OnePeerEach' /\ StoredIsOld'
  BY <1>0 DEF VersionInv, Bounded, OnePeerEach, StoredIsOld
<1> QED BY <1>7, <1>8, <1>9, <1>10, <1>11 DEF VersionInv

\* What is received is not older than what is stored.
LEMMA ReceivedIsNewer ==
    ASSUME VersionInv, NEW c \in Clients, NEW d \in Peers, ReceiveSurface(c, d)
    PROVE  /\ stored' \in [Clients -> [Pos -> Version]]
           /\ \A b \in Clients, p \in Pos : stored'[b][p] >= stored[b][p]
           /\ StoredIsOld'
<1> DEFINE m == Head(toClient[d])
<1>0. /\ toClient[d] \in Seq(ToClient) /\ toClient[d] # <<>>
      /\ stored \in [Clients -> [Pos -> Version]] /\ user[d] = c
      /\ \A b \in Clients, p \in Pos : stored[b][p] \in Nat /\ stored[b][p] <= surface[p]
      /\ m.type = "surface"
      /\ stored' = [stored EXCEPT ![c][m.pos] = m.version]
      /\ surface' = surface
  BY FeedBounds DEF VersionInv, TypeOK, Version, StoredIsOld, ReceiveSurface,
     Online, worldVars
<1>1. m \in ToClient /\ m \in Items(toClient[d])
  BY <1>0, RestOfItems
<1> HIDE DEF m
<1>2. /\ m.pos \in Pos /\ m.version \in Version /\ m.version \in Nat
      /\ m.version <= surface[m.pos] /\ stored[c][m.pos] <= m.version
  BY <1>0, <1>1, FeedBounds DEF VersionInv, ClientWire, PacketOK, ToClient, Version
<1>3. /\ stored' \in [Clients -> [Pos -> Version]]
      /\ stored'[c][m.pos] = m.version
      /\ \A b \in Clients, p \in Pos :
            b # c \/ p # m.pos => stored'[b][p] = stored[b][p]
  BY <1>0, <1>2
<1>4. \A b \in Clients, p \in Pos : stored'[b][p] >= stored[b][p]
  <2> TAKE b \in Clients, p \in Pos
  <2>1. CASE b = c /\ p = m.pos
    BY <1>2, <1>3, <2>1
  <2>2. CASE b # c \/ p # m.pos
    BY <1>0, <1>3, <2>2
  <2> QED BY <2>1, <2>2
<1>5. StoredIsOld'
  <2> SUFFICES ASSUME NEW b \in Clients, NEW p \in Pos
               PROVE  stored'[b][p] <= surface'[p]
    BY DEF StoredIsOld
  <2>1. CASE b = c /\ p = m.pos
    BY <1>0, <1>2, <1>3, <2>1
  <2>2. CASE b # c \/ p # m.pos
    BY <1>0, <1>3, <2>2
  <2> QED BY <2>1, <2>2
<1> QED BY <1>3, <1>4, <1>5

LEMMA ReceiveSurfaceKeeps ==
    ASSUME VersionInv, NEW c \in Clients, NEW d \in Peers, ReceiveSurface(c, d)
    PROVE  VersionInv'
<1> DEFINE m == Head(toClient[d])
<1>0. /\ toClient \in [Peers -> Seq(ToClient)]
      /\ toServer \in [Peers -> Seq(ToServer)]
      /\ toClient[d] \in Seq(ToClient) /\ toClient[d] # <<>>
      /\ user \in [Peers -> Clients \cup {None}] /\ user[d] = c /\ c # None
      /\ \A b \in Clients, p \in Pos : stored[b][p] \in Nat
      /\ m.type = "surface"
      /\ stored' = [stored EXCEPT ![c][m.pos] = m.version]
      /\ toClient' = [toClient EXCEPT ![d] = Tail(toClient[d])]
      /\ UNCHANGED <<air, surface, user, connections, toServer, changes>>
  BY FeedShape, FeedBounds DEF VersionInv, TypeOK, Version, ReceiveSurface,
     Online, worldVars, netVars, counters
<1>1. /\ stored' \in [Clients -> [Pos -> Version]]
      /\ \A b \in Clients, p \in Pos :
            stored'[b][p] \in Nat /\ stored'[b][p] >= stored[b][p]
      /\ StoredIsOld'
  BY ReceivedIsNewer, FeedBounds DEF Version
<1>2. ClientWire(d)
  BY DEF VersionInv
<1>3. /\ Tail(toClient[d]) \in Seq(ToClient) /\ m \in ToClient
      /\ Items(toClient[d]) = {m} \cup Items(Tail(toClient[d]))
      /\ Ordered(Tail(toClient[d]), ClientOrder)
      /\ \A y \in Items(Tail(toClient[d])) : <<m, y>> \in ClientOrder
  BY <1>0, <1>2, RestOfItems DEF ClientWire
<1>4. \A b \in Clients, p \in Pos :
         b # c \/ p # m.pos => stored'[b][p] = stored[b][p]
  BY <1>0, <1>3 DEF VersionInv, TypeOK, ToClient
<1>5. stored'[c][m.pos] = m.version
  BY <1>0, <1>3 DEF VersionInv, TypeOK, ToClient
<1> HIDE DEF m
<1>6. toClient' \in [Peers -> Seq(ToClient)] /\ toClient'[d] = Tail(toClient[d])
  BY <1>0, <1>3
<1>7. ClientWire(d)'
  <2>1. ASSUME NEW y \in Items(Tail(toClient[d])) PROVE PacketOK(d, y)'
    <3>1. /\ PacketOK(d, y) /\ <<m, y>> \in ClientOrder /\ y \in ToClient
      BY <1>2, <1>3 DEF ClientWire, ClientOrder
    <3>2. CASE y.type = "surface" /\ y.pos = m.pos
      BY <1>0, <1>5, <3>1, <3>2 DEF PacketOK, ClientOrder
    <3>3. CASE y.type = "surface" /\ y.pos # m.pos
      BY <1>0, <1>4, <3>1, <3>3 DEF PacketOK, ToClient
    <3>4. CASE y.type # "surface"
      BY <1>0, <3>1, <3>4 DEF PacketOK
    <3> QED BY <3>2, <3>3, <3>4
  <2> QED BY <1>0, <1>3, <1>6, <2>1 DEF ClientWire
<1>8. ASSUME NEW e \in Peers, e # d PROVE ClientWire(e)'
  <2>1. toClient'[e] = toClient[e] /\ ClientWire(e)
    BY <1>0, <1>8 DEF VersionInv
  <2>2. ASSUME NEW y \in Items(toClient[e]) PROVE PacketOK(e, y)'
    <3>1. PacketOK(e, y) /\ y \in ToClient
      BY <1>0, <2>1, ElementOfSeq DEF ClientWire, Items
    <3>2. user[e] # None /\ user[e] # c /\ user[e] \in Clients
      BY <1>0, <1>8, <2>1, NoItems DEF ClientWire, VersionInv, OnePeerEach
    <3>3. CASE y.type = "surface"
      <4>1. stored'[user[e]][y.pos] = stored[user[e]][y.pos]
        BY <1>4, <3>1, <3>2, <3>3 DEF ToClient
      <4> QED BY <1>0, <3>1, <3>3, <4>1 DEF PacketOK
    <3>4. CASE y.type # "surface"
      BY <1>0, <3>1, <3>4 DEF PacketOK
    <3> QED BY <3>3, <3>4
  <2> QED BY <1>0, <2>1, <2>2 DEF ClientWire
<1>9. ASSUME NEW e \in Peers PROVE ServerWire(e)'
  <2>1. ServerWire(e)
    BY DEF VersionInv
  <2>2. ASSUME NEW y \in Items(toServer[e]), y.type = "surfaces"
        PROVE  y.version <= stored'[user[e]][y.pos]
    <3>1. y \in ToServer
      BY <1>0, <2>2, ElementOfSeq DEF Items
    <3>2. y.pos \in Pos /\ y.version \in Nat
      BY <2>2, <3>1, FeedBounds DEF ToServer, Version
    <3>3. user[e] \in Clients
      BY <1>0, <2>1, <2>2, NoItems DEF ServerWire
    <3>4. y.version <= stored[user[e]][y.pos]
      BY <2>1, <2>2 DEF ServerWire
    <3>5. /\ stored[user[e]][y.pos] \in Nat /\ stored'[user[e]][y.pos] \in Nat
          /\ stored'[user[e]][y.pos] >= stored[user[e]][y.pos]
      BY <1>0, <1>1, <3>2, <3>3
    <3> QED BY <3>2, <3>4, <3>5
  <2> QED BY <1>0, <2>1, <2>2 DEF ServerWire
<1>10. TypeOK'
  BY <1>1, <1>6 DEF VersionInv, TypeOK, ReceiveSurface, worldVars, netVars,
     poolVars, counters
<1>11. Bounded' /\ OnePeerEach'
  BY <1>0 DEF VersionInv, Bounded, OnePeerEach
<1> QED BY <1>1, <1>7, <1>8, <1>9, <1>10, <1>11 DEF VersionInv

LEMMA ReceiveHeightKeeps ==
    ASSUME VersionInv, NEW c \in Clients, NEW d \in Peers, ReceiveHeight(c, d)
    PROVE  VersionInv'
<1> DEFINE m == Head(toClient[d])
<1>0. /\ toClient \in [Peers -> Seq(ToClient)]
      /\ toClient[d] \in Seq(ToClient) /\ toClient[d] # <<>>
      /\ m.type = "height"
      /\ height' = [height EXCEPT
                       ![c][m.pos] = IF m.air THEN "air" ELSE "ground"]
      /\ requests' = [requests EXCEPT ![c] = @ \cup AsksAgain(c, m)]
      /\ toClient' = [toClient EXCEPT ![d] = Tail(toClient[d])]
      /\ UNCHANGED <<air, surface, user, connections, toServer, stored, changes>>
  BY DEF VersionInv, TypeOK, ReceiveHeight, worldVars, netVars, counters
<1>2. ClientWire(d)
  BY DEF VersionInv
<1>3. /\ Tail(toClient[d]) \in Seq(ToClient) /\ m \in ToClient
      /\ Items(toClient[d]) = {m} \cup Items(Tail(toClient[d]))
      /\ Ordered(Tail(toClient[d]), ClientOrder)
  BY <1>0, <1>2, RestOfItems DEF ClientWire
<1> HIDE DEF m
<1>4. toClient' \in [Peers -> Seq(ToClient)] /\ toClient'[d] = Tail(toClient[d])
  BY <1>0, <1>3
<1>5. ClientWire(d)'
  BY <1>0, <1>2, <1>3, <1>4, NoItems DEF ClientWire, PacketOK
<1>6. ASSUME NEW e \in Peers, e # d PROVE ClientWire(e)'
  <2>1. toClient'[e] = toClient[e]
    BY <1>0, <1>6
  <2> QED BY <1>0, <2>1 DEF VersionInv, ClientWire, PacketOK
<1>7. TypeOK'
  <2>1. height' \in [Clients -> [Pos -> {"unknown", "air", "ground"}]]
    BY <1>0 DEF VersionInv, TypeOK
  <2>2. requests' \in [Clients -> SUBSET Pos]
    <3>1. AsksAgain(c, m) \subseteq Pos
      BY DEF AsksAgain, VersionInv, TypeOK
    <3> QED BY <1>0, <3>1 DEF VersionInv, TypeOK
  <2> QED BY <1>4, <2>1, <2>2 DEF VersionInv, TypeOK, ReceiveHeight, worldVars,
          netVars, poolVars, counters
<1>8. Bounded' /\ OnePeerEach' /\ StoredIsOld'
  BY <1>0 DEF VersionInv, Bounded, OnePeerEach, StoredIsOld
<1>9. \A e \in Peers : ServerWire(e)'
  BY <1>0, WiresRest
<1> QED BY <1>5, <1>6, <1>7, <1>8, <1>9 DEF VersionInv

\* The heights login() sends.
LEMMA HeightsFit ==
    ASSUME VersionInv
    PROVE  LET packets == [i \in 1 .. Len(SetToSeq(Near)) |->
                              HeightOf(SetToSeq(Near)[i])]
           IN  /\ packets \in Seq(ToClient) /\ Ordered(packets, ClientOrder)
               /\ \A m \in Items(packets) : \E p \in Near : m = HeightOf(p)
               /\ \A p \in Near : HeightOf(p) \in Items(packets)
<1> DEFINE n == Len(SetToSeq(Near))
           g == [i \in 1 .. n |-> HeightOf(SetToSeq(Near)[i])]
<1>1. /\ n \in Nat /\ \A i \in 1 .. n : SetToSeq(Near)[i] \in Near
      /\ \A p \in Near : \E i \in 1 .. n : SetToSeq(Near)[i] = p
  BY ListOfSet, FeedShape
<1>2. \A p \in Near : /\ HeightOf(p) \in ToClient /\ HeightOf(p).pos = p
                      /\ HeightOf(p).type = "height"
                      /\ HeightOf(p).air = air[p]
  BY FeedShape DEF HeightOf, ToClient, VersionInv, TypeOK
<1>3. \A i \in 1 .. n : g[i] = HeightOf(SetToSeq(Near)[i])
  OBVIOUS
<1> HIDE DEF n
<1>4. /\ g \in Seq(ToClient) /\ Len(g) = n
  <2>1. g \in [1 .. n -> ToClient]
    BY <1>1, <1>2
  <2> QED BY <1>1, <2>1
<1> HIDE DEF g
<1>5. \A m \in Items(g) : \E p \in Near : m = HeightOf(p)
  BY <1>1, <1>3, <1>4 DEF Items
<1>6. \A p \in Near : HeightOf(p) \in Items(g)
  BY <1>1, <1>3, <1>4 DEF Items
<1>7. Ordered(g, ClientOrder)
  <2>1. \A p, q \in Near : <<HeightOf(p), HeightOf(q)>> \in ClientOrder
    <3> TAKE p \in Near, q \in Near
    <3>1. HeightOf(p).pos = HeightOf(q).pos => HeightOf(p).air = HeightOf(q).air
      BY <1>2
    <3> QED BY <1>2, <3>1 DEF ClientOrder
  <2> QED BY <1>1, <1>3, <1>4, <2>1 DEF Ordered
<1> QED BY <1>4, <1>5, <1>6, <1>7 DEF g, n

LEMMA LoginKeeps ==
    ASSUME VersionInv, NEW d \in Peers, Login(d)
    PROVE  VersionInv'
<1> DEFINE m == Head(toServer[d])
           packets == [i \in 1 .. Len(SetToSeq(Near)) |->
                          HeightOf(SetToSeq(Near)[i])]
<1>0. /\ toServer \in [Peers -> Seq(ToServer)]
      /\ toServer[d] \in Seq(ToServer) /\ toServer[d] # <<>>
      /\ user \in [Peers -> Clients \cup {None}]
      /\ m.type = "login"
      /\ toServer' = [toServer EXCEPT ![d] = Tail(toServer[d])]
      /\ draining' = TRUE
      /\ connections' = connections \cup {d}
      /\ SendTo(d, packets)
      /\ UNCHANGED <<air, surface, user, stored, changes>>
  BY DEF VersionInv, TypeOK, Login, Event, worldVars, clientVars, counters
<1>1. ServerWire(d)
  BY DEF VersionInv
<1>2. /\ Tail(toServer[d]) \in Seq(ToServer) /\ m \in ToServer
      /\ Items(toServer[d]) = {m} \cup Items(Tail(toServer[d]))
      /\ Ordered(Tail(toServer[d]), ServerOrder)
      /\ \A y \in Items(Tail(toServer[d])) : <<m, y>> \in ServerOrder
  BY <1>0, <1>1, RestOfItems DEF ServerWire
<1>3. user[d] # None /\ d \notin connections
  BY <1>0, <1>1, <1>2 DEF ServerWire
<1>4. /\ packets \in Seq(ToClient) /\ Ordered(packets, ClientOrder)
      /\ \A x \in Items(packets) : \E p \in Near : x = HeightOf(p)
  BY HeightsFit
<1> HIDE DEF packets, m
<1>5. \A x \in Items(packets) :
         /\ x.type = "height" /\ (air[x.pos] <=> x.air)
  BY <1>4 DEF HeightOf
<1>6. \A p \in Pos : surface'[p] \in Version /\ surface'[p] >= surface[p]
  BY <1>0, FeedBounds DEF VersionInv, TypeOK, Version
<1>7. /\ toClient' \in [Peers -> Seq(ToClient)]
      /\ \A e \in Peers : ClientWire(e)'
  BY <1>0, <1>4, <1>5, <1>6, SendKeeps
<1>8. /\ toServer' \in [Peers -> Seq(ToServer)]
      /\ toServer'[d] = Tail(toServer[d])
  BY <1>0, <1>2
<1>9. ServerWire(d)'
  <2>1. \A y \in Items(Tail(toServer[d])) :
           /\ y.type # "login"
           /\ y.type = "surfaces" => y.version <= stored[user[d]][y.pos]
    BY <1>1, <1>2 DEF ServerWire, ServerOrder
  <2> QED BY <1>0, <1>2, <1>3, <1>8, <2>1 DEF ServerWire
<1>10. ASSUME NEW e \in Peers, e # d PROVE ServerWire(e)'
  <2>1. toServer'[e] = toServer[e]
    BY <1>0, <1>10
  <2>2. e \in connections' <=> e \in connections
    BY <1>0, <1>10
  <2> QED BY <1>0, <2>1, <2>2 DEF VersionInv, ServerWire
<1>11. TypeOK'
  <2>1. tasks' \in Seq(Order)
    <3>1. CASE tasks' = tasks
      BY <3>1 DEF VersionInv, TypeOK
    <3>2. CASE \E p \in Near : tasks' = Append(tasks, [dest |-> d, pos |-> p])
      <4>1. PICK p \in Near : tasks' = Append(tasks, [dest |-> d, pos |-> p])
        BY <3>2
      <4>2. [dest |-> d, pos |-> p] \in Order
        BY FeedShape DEF Order
      <4> QED BY <4>1, <4>2, AddedItem DEF VersionInv, TypeOK
    <3> QED BY <3>1, <3>2 DEF Login
  <2>2. connections' \in SUBSET Peers /\ draining' \in BOOLEAN
    BY <1>0 DEF VersionInv, TypeOK
  <2> QED BY <1>7, <1>8, <2>1, <2>2 DEF VersionInv, TypeOK, Login, worldVars,
          clientVars, counters
<1>12. Bounded' /\ OnePeerEach' /\ StoredIsOld'
  BY <1>0 DEF VersionInv, Bounded, OnePeerEach, StoredIsOld
<1> QED BY <1>7, <1>9, <1>10, <1>11, <1>12 DEF VersionInv

LEMMA DisconnectKeeps ==
    ASSUME VersionInv, NEW d \in Peers, Disconnect(d)
    PROVE  VersionInv'
<1> DEFINE m == Head(toServer[d])
<1>0. /\ toServer \in [Peers -> Seq(ToServer)]
      /\ toClient \in [Peers -> Seq(ToClient)]
      /\ toServer[d] \in Seq(ToServer) /\ toServer[d] # <<>>
      /\ user \in [Peers -> Clients \cup {None}]
      /\ m.type = "bye"
      /\ toServer' = [toServer EXCEPT ![d] = Tail(toServer[d])]
      /\ toClient' = [toClient EXCEPT ![d] = <<>>]
      /\ draining' = TRUE
      /\ connections' = connections \ {d}
      /\ user' = [user EXCEPT ![d] = None]
      /\ UNCHANGED <<air, surface, stored, changes>>
  BY DEF VersionInv, TypeOK, Disconnect, Event, worldVars, clientVars, counters
<1>1. ServerWire(d)
  BY DEF VersionInv
<1>2. /\ Tail(toServer[d]) \in Seq(ToServer)
      /\ \A y \in Items(Tail(toServer[d])) : <<m, y>> \in ServerOrder
  BY <1>0, <1>1, RestOfItems DEF ServerWire
<1>3. Tail(toServer[d]) = <<>>
  <2>1. Items(Tail(toServer[d])) = {}
    BY <1>0, <1>2 DEF ServerOrder
  <2> DEFINE u == Tail(toServer[d])
  <2>2. Len(u) = 0
    <3>1. Len(u) \in Nat
      BY <1>2, LenProperties
    <3>2. \A i \in 1 .. Len(u) : u[i] \in Items(u)
      BY DEF Items
    <3>3. Items(u) = {}
      BY <2>1
    <3> HIDE DEF u
    <3>4. Len(u) # 0 => 1 \in 1 .. Len(u)
      BY <3>1
    <3> QED BY <3>2, <3>3, <3>4
  <2> QED BY <1>2, <2>2, EmptySeq
<1> HIDE DEF m
<1>4. /\ toServer' \in [Peers -> Seq(ToServer)] /\ toServer'[d] = <<>>
      /\ toClient' \in [Peers -> Seq(ToClient)] /\ toClient'[d] = <<>>
      /\ user' \in [Peers -> Clients \cup {None}] /\ user'[d] = None
  BY <1>0, <1>2, <1>3, NoItems
<1>5. ServerWire(d)' /\ ClientWire(d)'
  BY <1>0, <1>4, NoItems DEF ServerWire, ClientWire
<1>6. ASSUME NEW e \in Peers, e # d PROVE ServerWire(e)' /\ ClientWire(e)'
  <2>1. /\ toServer'[e] = toServer[e] /\ toClient'[e] = toClient[e]
        /\ user'[e] = user[e] /\ (e \in connections' <=> e \in connections)
    BY <1>0, <1>6
  <2>2. ServerWire(e) /\ ClientWire(e)
    BY DEF VersionInv
  <2>3. ServerWire(e)'
    BY <1>0, <2>1, <2>2 DEF ServerWire
  <2>4. ClientWire(e)'
    BY <1>0, <2>1, <2>2 DEF ClientWire, PacketOK
  <2> QED BY <2>3, <2>4
<1>7. TypeOK'
  <2>1. connections' \in SUBSET Peers /\ draining' \in BOOLEAN
    BY <1>0 DEF VersionInv, TypeOK
  <2> QED BY <1>4, <2>1 DEF VersionInv, TypeOK, Disconnect, worldVars, poolVars,
          clientVars, counters
<1>8. OnePeerEach'
  BY <1>0 DEF VersionInv, OnePeerEach
<1>9. Bounded' /\ StoredIsOld'
  BY <1>0 DEF VersionInv, Bounded, StoredIsOld
<1> QED BY <1>5, <1>6, <1>7, <1>8, <1>9 DEF VersionInv

LEMMA ReqHeightsKeeps ==
    ASSUME VersionInv, NEW d \in Peers, ReqHeights(d)
    PROVE  VersionInv'
<1>0. /\ Event(d, "heights")
      /\ UNCHANGED <<air, surface, user, connections, stored, changes>>
  BY DEF ReqHeights, worldVars, clientVars, counters
<1>1. /\ toServer' \in [Peers -> Seq(ToServer)] /\ draining' \in BOOLEAN
      /\ \A e \in Peers : ServerWire(e)'
      /\ Head(toServer[d]) \in ToServer
      /\ user[d] \in Clients /\ d \in connections
  BY <1>0, EventKeeps
<1> DEFINE p == Head(toServer[d]).pos
           m == HeightOf(p)
<1>2. /\ \A q \in Pos : surface'[q] \in Version /\ surface'[q] >= surface[q]
      /\ air \in [Pos -> BOOLEAN]
  BY <1>0, FeedBounds DEF VersionInv, TypeOK, Version
<1>3. CASE p \in Pos
  <2>1. m \in ToClient /\ m.type = "height" /\ m.pos = p /\ m.air = air[p]
    BY <1>2, <1>3 DEF HeightOf, ToClient
  <2>2. SendTo(d, <<m>>)
    BY DEF ReqHeights
  <2> HIDE DEF m
  <2>3. /\ <<m>> \in Seq(ToClient) /\ Items(<<m>>) = {m}
        /\ Ordered(<<m>>, ClientOrder)
    BY <2>1, OneItem
  <2>4. /\ toClient' \in [Peers -> Seq(ToClient)]
        /\ \A e \in Peers : ClientWire(e)'
    BY <1>0, <1>1, <1>2, <2>1, <2>2, <2>3, SendKeeps
  <2>5. TypeOK'
    BY <1>1, <2>4 DEF VersionInv, TypeOK, ReqHeights, worldVars, poolVars,
       clientVars, counters
  <2>6. Bounded' /\ OnePeerEach' /\ StoredIsOld'
    BY <1>0 DEF VersionInv, Bounded, OnePeerEach, StoredIsOld
  <2> QED BY <1>1, <2>4, <2>5, <2>6 DEF VersionInv
<1>4. p \in Pos
  BY <1>0, <1>1 DEF Event, ToServer
<1> QED BY <1>3, <1>4

LEMMA ReqChunksKeeps ==
    ASSUME VersionInv, NEW d \in Peers, ReqChunks(d)
    PROVE  VersionInv'
<1> DEFINE p == Head(toServer[d]).pos
           version == Head(toServer[d]).version
<1>0. /\ Event(d, "surfaces")
      /\ UNCHANGED <<air, user, connections, stored, changes>>
  BY DEF ReqChunks, clientVars, counters
<1>1. /\ toServer' \in [Peers -> Seq(ToServer)] /\ draining' \in BOOLEAN
      /\ \A e \in Peers : ServerWire(e)'
      /\ Head(toServer[d]) \in ToServer
      /\ user[d] \in Clients /\ d \in connections
  BY <1>0, EventKeeps
<1>2. p \in Pos
  BY <1>0, <1>1 DEF Event, ToServer
<1>3. /\ \A q \in Pos : surface[q] \in Version /\ surface[q] >= surface[q]
      /\ air \in [Pos -> BOOLEAN] /\ surface \in [Pos -> Version]
  BY FeedBounds DEF VersionInv, TypeOK, Version
<1>4. /\ surface' \in [Pos -> Version] /\ Bounded' /\ StoredIsOld'
      /\ toClient' \in [Peers -> Seq(ToClient)]
      /\ \A e \in Peers : ClientWire(e)'
      /\ tasks' \in Seq(Order)
  <2>1. CASE SendTo(d, <<HeightOf(p)>>) /\ UNCHANGED <<surface, tasks>>
    <3> DEFINE m == HeightOf(p)
    <3>1. m \in ToClient /\ m.type = "height" /\ m.pos = p /\ m.air = air[p]
      BY <1>2, <1>3 DEF HeightOf, ToClient
    <3>2. SendTo(d, <<m>>) /\ UNCHANGED <<surface, tasks>>
      BY <2>1
    <3> HIDE DEF m
    <3>3. /\ <<m>> \in Seq(ToClient) /\ Items(<<m>>) = {m}
          /\ Ordered(<<m>>, ClientOrder)
      BY <3>1, OneItem
    <3>4. /\ toClient' \in [Peers -> Seq(ToClient)]
          /\ \A e \in Peers : ClientWire(e)'
      BY <1>0, <1>1, <1>3, <3>1, <3>2, <3>3, SendKeeps
    <3>5. Bounded' /\ StoredIsOld'
      BY <1>0, <3>2 DEF VersionInv, Bounded, StoredIsOld
    <3> QED BY <1>3, <3>2, <3>4, <3>5 DEF VersionInv, TypeOK
  <2>2. CASE /\ UNCHANGED <<surface, toClient>>
             /\ \/ UNCHANGED tasks
                \/ tasks' = Append(tasks, [dest |-> d, pos |-> p])
    <3>1. tasks' \in Seq(Order)
      <4> DEFINE o == [dest |-> d, pos |-> p]
      <4>1. o \in Order /\ tasks \in Seq(Order)
        BY <1>2 DEF Order, VersionInv, TypeOK
      <4>2. tasks' = tasks \/ tasks' = Append(tasks, o)
        BY <2>2
      <4> HIDE DEF o
      <4> QED BY <4>1, <4>2, AddedItem
    <3>2. \A e \in Peers : ClientWire(e)'
      BY <1>0, <1>3, <2>2, PacketsRest
    <3>3. Bounded' /\ StoredIsOld'
      BY <1>0, <2>2 DEF VersionInv, Bounded, StoredIsOld
    <3> QED BY <2>2, <3>1, <3>2, <3>3 DEF VersionInv, TypeOK
  <2>3. CASE SendSurface(p, d) /\ UNCHANGED tasks
    <3>1. /\ surface' \in [Pos -> Version] /\ Bounded' /\ StoredIsOld'
          /\ toClient' \in [Peers -> Seq(ToClient)]
          /\ \A e \in Peers : ClientWire(e)'
      BY <1>0, <1>2, <2>3, SurfaceSent
    <3> QED BY <2>3, <3>1 DEF VersionInv, TypeOK
  <2> QED BY <2>1, <2>2, <2>3 DEF ReqChunks
<1>5. TypeOK'
  BY <1>1, <1>4 DEF VersionInv, TypeOK, ReqChunks, clientVars, counters
<1>6. OnePeerEach'
  BY <1>0 DEF VersionInv, OnePeerEach
<1> QED BY <1>1, <1>4, <1>5, <1>6 DEF VersionInv

LEMMA JobKeeps ==
    ASSUME VersionInv, Job
    PROVE  VersionInv'
<1> DEFINE p == Head(jobs).pos
           d == Head(jobs).dest
<1>0. /\ SendSurface(p, d) /\ jobs' = Tail(jobs)
      /\ UNCHANGED <<air, user, connections, draining, poolVars, toServer,
                     clientVars, counters>>
      /\ UNCHANGED <<stored, changes>>
  BY DEF Job, clientVars, counters
<1>1. p \in Pos /\ d \in Peers /\ Tail(jobs) \in Seq(Order)
  <2>1. Head(jobs) \in Order /\ Tail(jobs) \in Seq(Order)
    BY RestOfItems DEF Job, VersionInv, TypeOK
  <2> QED BY <2>1 DEF Order
<1> HIDE DEF p, d
<1>2. /\ surface' \in [Pos -> Version] /\ Bounded' /\ StoredIsOld'
      /\ toClient' \in [Peers -> Seq(ToClient)]
      /\ \A e \in Peers : ClientWire(e)'
  BY <1>0, <1>1, SurfaceSent
<1>3. \A e \in Peers : ServerWire(e)'
  BY <1>0, WiresRest
<1>4. TypeOK'
  BY <1>0, <1>1, <1>2 DEF VersionInv, TypeOK, poolVars, clientVars, counters
<1>5. OnePeerEach'
  BY <1>0 DEF VersionInv, OnePeerEach
<1> QED BY <1>2, <1>3, <1>4, <1>5 DEF VersionInv

\* The loop and the pool take up work, finish it or drop it.
LEMMA LoopKeeps ==
    ASSUME VersionInv, NoMoreJobs \/ NoEvent \/ TakeTask \/ FinishTask \/ FailTask
    PROVE  VersionInv'
<1>1. CASE NoMoreJobs \/ NoEvent
  <2>1. TypeOK'
    BY <1>1 DEF VersionInv, TypeOK, NoMoreJobs, NoEvent, worldVars, poolVars,
       wire, clientVars, counters
  <2> QED BY <1>1, <2>1, QuietKeeps DEF NoMoreJobs, NoEvent, clientVars, counters
<1>2. CASE TakeTask
  <2>1. Head(tasks) \in Order /\ Tail(tasks) \in Seq(Order)
    BY <1>2, RestOfItems DEF TakeTask, VersionInv, TypeOK
  <2>2. TypeOK'
    BY <1>2, <2>1 DEF VersionInv, TypeOK, TakeTask, worldVars, netVars, wire,
       clientVars, counters
  <2> QED BY <1>2, <2>2, QuietKeeps DEF TakeTask, netVars, clientVars, counters
<1>3. CASE FinishTask
  <2>1. Append(jobs, task) \in Seq(Order)
    <3>1. task \in Order
      BY <1>3 DEF FinishTask, VersionInv, TypeOK
    <3> QED BY <3>1, AddedItem DEF VersionInv, TypeOK
  <2>2. TypeOK'
    BY <1>3, <2>1 DEF VersionInv, TypeOK, FinishTask, CallBack, worldVars, wire,
       clientVars, counters
  <2> QED BY <1>3, <2>2, QuietKeeps DEF FinishTask, clientVars, counters
<1>4. CASE FailTask
  <2>1. failures' \in 0 .. MaxFailures
    BY <1>4, FeedBounds DEF FailTask, VersionInv, TypeOK
  <2>2. TypeOK'
    BY <1>4, <2>1 DEF VersionInv, TypeOK, FailTask, worldVars, netVars, wire,
       clientVars
  <2> QED BY <1>4, <2>2, QuietKeeps DEF FailTask, netVars, clientVars
<1> QED BY <1>1, <1>2, <1>3, <1>4

LEMMA PrepareKeeps ==
    ASSUME VersionInv, Prepare
    PROVE  VersionInv'
<1>0. /\ surface' = Made(task.pos) /\ task \in Order
      /\ UNCHANGED <<air, user, connections, jobs, draining, tasks, task,
                     toServer, toClient, stored, changes>>
  BY DEF Prepare, VersionInv, TypeOK, netVars, wire, clientVars, counters
<1>1. task.pos \in Pos
  BY <1>0 DEF Order
<1>2. /\ surface' \in [Pos -> Version]
      /\ \A q \in Pos : surface'[q] \in Version /\ surface'[q] >= surface[q]
      /\ Bounded' /\ StoredIsOld'
  BY <1>0, <1>1, MadeKeeps
<1>3. \A e \in Peers : ServerWire(e)' /\ ClientWire(e)'
  BY <1>0, <1>2, WiresRest, PacketsRest
<1>4. TypeOK'
  BY <1>2 DEF VersionInv, TypeOK, Prepare, netVars, wire, clientVars, counters
<1>5. OnePeerEach'
  BY <1>0 DEF VersionInv, OnePeerEach
<1> QED BY <1>2, <1>3, <1>4, <1>5 DEF VersionInv

\* commit_write() puts a job on the queue for everyone who is connected.
LEMMA JobsOfChange ==
    ASSUME VersionInv, NEW p \in Pos
    PROVE  LET list == [i \in 1 .. Len(SetToSeq(connections)) |->
                           [dest |-> SetToSeq(connections)[i], pos |-> p]]
           IN  /\ list \in Seq(Order)
               /\ Items(list) = {[dest |-> d, pos |-> p] : d \in connections}
<1> DEFINE n == Len(SetToSeq(connections))
           g == [i \in 1 .. n |-> [dest |-> SetToSeq(connections)[i], pos |-> p]]
<1>1. connections \subseteq Peers /\ IsFiniteSet(connections)
  BY FeedShape, FS_Subset DEF VersionInv, TypeOK
<1>2. /\ n \in Nat /\ \A i \in 1 .. n : SetToSeq(connections)[i] \in connections
      /\ \A d \in connections : \E i \in 1 .. n : SetToSeq(connections)[i] = d
  BY <1>1, ListOfSet
<1>3. \A i \in 1 .. n : g[i] = [dest |-> SetToSeq(connections)[i], pos |-> p]
  OBVIOUS
<1>4. g \in Seq(Order) /\ Len(g) = n
  <2>1. g \in [1 .. n -> Order]
    BY <1>1, <1>2 DEF Order
  <2> HIDE DEF n, g
  <2> QED BY <1>2, <2>1
<1> HIDE DEF n, g
<1>5. Items(g) = {[dest |-> d, pos |-> p] : d \in connections}
  BY <1>2, <1>3, <1>4 DEF Items
<1> QED BY <1>4, <1>5 DEF g, n

LEMMA ChangeKeeps ==
    ASSUME VersionInv, NEW p \in Pos, Change(p)
    PROVE  VersionInv'
<1> DEFINE m == [type |-> "height", pos |-> p, air |-> FALSE]
           list == [i \in 1 .. Len(SetToSeq(connections)) |->
                       [dest |-> SetToSeq(connections)[i], pos |-> p]]
           Told(e) == air[p] /\ e \in connections /\ user[e] # None
<1>0. /\ air \in [Pos -> BOOLEAN] /\ surface \in [Pos -> Version]
      /\ toClient \in [Peers -> Seq(ToClient)]
      /\ changes \in Nat /\ changes < MaxChanges /\ changes' = changes + 1
      /\ air' = [air EXCEPT ![p] = FALSE]
      /\ surface' = [surface EXCEPT ![p] = surface[p] + 1]
      /\ toClient' = [e \in Peers |-> IF Told(e) THEN toClient[e] \o <<m>>
                                                 ELSE toClient[e]]
      /\ jobs' = jobs \o list
      /\ draining' = TRUE
      /\ UNCHANGED <<user, connections, toServer, stored>>
  BY DEF Change, VersionInv, TypeOK, NextVersion, Queued, clientVars
<1>1. /\ \A q \in Pos : surface[q] \in Nat /\ surface[q] <= changes + 1
      /\ \A c \in Clients, q \in Pos : stored[c][q] \in Nat /\ stored[c][q] <= surface[q]
  BY <1>0, FeedBounds DEF VersionInv, TypeOK, Version, Bounded, StoredIsOld
<1>2. /\ surface' \in [Pos -> Version] /\ changes' \in 0 .. MaxChanges
      /\ Bounded'
      /\ \A q \in Pos : surface'[q] \in Nat /\ surface'[q] >= surface[q]
  <2>1. surface[p] + 1 \in Version /\ surface[p] + 1 <= changes' + 1
    BY <1>0, <1>1, FeedBounds DEF Version
  <2>2. /\ surface' \in [Pos -> Version] /\ surface'[p] = surface[p] + 1
        /\ \A q \in Pos : q # p => surface'[q] = surface[q]
    BY <1>0, <2>1
  <2>3. Bounded'
    BY <1>0, <1>1, <2>1, <2>2 DEF Bounded
  <2>4. changes' \in 0 .. MaxChanges
    BY <1>0, FeedBounds
  <2> QED BY <1>1, <2>2, <2>3, <2>4
<1>3. StoredIsOld' /\ OnePeerEach'
  <2>1. StoredIsOld'
    BY <1>0, <1>1, <1>2 DEF StoredIsOld
  <2> QED BY <1>0, <2>1 DEF VersionInv, OnePeerEach
<1>4. jobs' \in Seq(Order)
  <2>1. list \in Seq(Order)
    BY JobsOfChange
  <2> HIDE DEF list
  <2> QED BY <1>0, <2>1, JoinedItems DEF VersionInv, TypeOK
<1>5. m \in ToClient /\ m.type = "height" /\ m.pos = p /\ m.air = FALSE
  BY DEF ToClient
<1> HIDE DEF m, list, Told
<1>6. /\ <<m>> \in Seq(ToClient) /\ Items(<<m>>) = {m}
      /\ Ordered(<<m>>, ClientOrder)
  BY <1>5, OneItem
<1>7. ASSUME NEW e \in Peers
      PROVE  /\ toClient[e] \o <<m>> \in Seq(ToClient)
             /\ Items(toClient[e] \o <<m>>) = Items(toClient[e]) \cup {m}
             /\ Ordered(toClient[e] \o <<m>>, ClientOrder)
  <2> DEFINE s == toClient[e]
             t == <<m>>
  <2>1. s \in Seq(ToClient) /\ Ordered(s, ClientOrder)
    BY <1>0 DEF VersionInv, ClientWire
  <2>2. t \in Seq(ToClient) /\ Items(t) = {m} /\ Ordered(t, ClientOrder)
    BY <1>6
  <2>3. \A x \in Items(s), y \in Items(t) : <<x, y>> \in ClientOrder
    <3>1. \A x \in Items(s) : x \in ToClient
      BY <2>1, ElementOfSeq DEF Items
    <3> QED BY <1>5, <2>2, <3>1 DEF ClientOrder
  <2> HIDE DEF s, t
  <2>4. /\ s \o t \in Seq(ToClient) /\ Items(s \o t) = Items(s) \cup {m}
        /\ Ordered(s \o t, ClientOrder)
    BY <2>1, <2>2, <2>3, JoinedItems
  <2> QED BY <2>4 DEF s, t
<1>8. toClient' \in [Peers -> Seq(ToClient)]
  BY <1>0, <1>7
<1>9. ASSUME NEW e \in Peers PROVE ClientWire(e)'
  <2>1. ClientWire(e) /\ toClient[e] \in Seq(ToClient)
    BY <1>0 DEF VersionInv
  <2>2. ASSUME NEW x \in Items(toClient[e]) PROVE PacketOK(e, x)'
    <3>1. x \in ToClient /\ PacketOK(e, x)
      BY <2>1, ElementOfSeq DEF Items, ClientWire
    <3>2. x.pos \in Pos /\ (air'[x.pos] => air[x.pos])
      BY <1>0, <3>1 DEF ToClient
    <3>3. CASE x.type = "surface"
      <4>1. x.version \in Nat
        BY <3>1, <3>3, FeedBounds DEF ToClient, Version
      <4> QED BY <1>0, <1>1, <1>2, <3>1, <3>2, <3>3, <4>1 DEF PacketOK
    <3>4. CASE x.type # "surface"
      BY <1>0, <3>1, <3>2, <3>4 DEF PacketOK
    <3> QED BY <3>3, <3>4
  <2>3. CASE Told(e)
    <3>1. toClient'[e] = toClient[e] \o <<m>>
      BY <1>0, <2>3
    <3>2. PacketOK(e, m)'
      BY <1>0, <1>5, <2>3 DEF PacketOK, Told
    <3>3. user'[e] # None
      BY <1>0, <2>3 DEF Told
    <3> QED BY <1>7, <2>2, <3>1, <3>2, <3>3 DEF ClientWire
  <2>4. CASE ~Told(e)
    <3>1. toClient'[e] = toClient[e]
      BY <1>0, <2>4
    <3> QED BY <1>0, <2>1, <2>2, <3>1 DEF ClientWire
  <2> QED BY <2>3, <2>4
<1>10. \A e \in Peers : ServerWire(e)'
  BY <1>0, WiresRest
<1>11. TypeOK'
  <2>1. air' \in [Pos -> BOOLEAN] /\ draining' \in BOOLEAN
    BY <1>0
  <2> QED BY <1>2, <1>4, <1>8, <2>1 DEF VersionInv, TypeOK, Change, poolVars,
          clientVars
<1> QED BY <1>2, <1>3, <1>9, <1>10, <1>11 DEF VersionInv

\* The invariant holds, in every step.
LEMMA StepKeepsVersions ==
    ASSUME VersionInv, [Next]_vars
    PROVE  VersionInv'
<1>1. ASSUME NEW p \in Pos, Change(p) PROVE VersionInv'
  BY <1>1, ChangeKeeps
<1>2. ASSUME NEW d \in Peers, Leave(d) PROVE VersionInv'
  BY <1>2, LeaveKeeps
<1>3. ASSUME NEW c \in Clients, NEW d \in Peers,
             Connect(c, d) \/ \E p \in Pos : BecomeVisible(c, d, p)
      PROVE  VersionInv'
  BY <1>3, ConnectKeeps, BecomeVisibleKeeps
<1>4. ASSUME NEW d \in Peers, Handler(d) PROVE VersionInv'
  BY <1>4, LoginKeeps, DisconnectKeeps, ReqHeightsKeeps, ReqChunksKeeps DEF Handler
<1>5. ASSUME NEW c \in Clients, NEW d \in Peers, Client(c, d) PROVE VersionInv'
  BY <1>5, ReceiveSurfaceKeeps, ReceiveHeightKeeps, RequestKeeps DEF Client
<1>6. CASE Job
  BY <1>6, JobKeeps
<1>7. CASE NoMoreJobs \/ NoEvent \/ TakeTask \/ FinishTask \/ FailTask
  BY <1>7, LoopKeeps
<1>8. CASE Prepare
  BY <1>8, PrepareKeeps
<1>9. CASE UNCHANGED vars
  <2>1. TypeOK'
    BY <1>9 DEF VersionInv, TypeOK, vars, worldVars, netVars, poolVars, wire,
       clientVars, counters
  <2> QED BY <1>9, <2>1, QuietKeeps DEF vars, netVars, clientVars, counters
<1> QED BY <1>1, <1>2, <1>3, <1>4, <1>5, <1>6, <1>7, <1>8, <1>9
        DEF Next, Environment, Network, Worker

LEMMA VersionsHold == Spec => []VersionInv
<1>1. Init => VersionInv
  BY VersionsAtFirst
<1>2. VersionInv /\ [Next]_vars => VersionInv'
  BY StepKeepsVersions
<1> QED BY <1>1, <1>2, PTL DEF Spec

\* Queues, stores and packets under way hold what they may hold: in
\* particular a surface sent or stored has a version the world has given out.
THEOREM FeedTypes == Spec => []TypeOK
<1>1. VersionInv => TypeOK
  BY DEF VersionInv
<1> QED BY <1>1, VersionsHold, PTL

\* A step changes no store but that of a client that receives a surface.
LEMMA StoresRest ==
    ASSUME VersionInv, [Next]_vars,
           \A c \in Clients, d \in Peers : ~ReceiveSurface(c, d)
    PROVE  stored' = stored
<1> USE DEF worldVars, netVars, poolVars, wire, clientVars, counters
<1>1. ASSUME NEW p \in Pos, Change(p) PROVE stored' = stored
  BY <1>1 DEF Change
<1>2. ASSUME NEW d \in Peers, Leave(d) PROVE stored' = stored
  BY <1>2 DEF Leave
<1>3. ASSUME NEW c \in Clients, NEW d \in Peers,
             Connect(c, d) \/ \E p \in Pos : BecomeVisible(c, d, p)
      PROVE  stored' = stored
  BY <1>3 DEF Connect, BecomeVisible
<1>4. ASSUME NEW d \in Peers, Handler(d) PROVE stored' = stored
  BY <1>4 DEF Handler, Login, Disconnect, ReqHeights, ReqChunks
<1>5. ASSUME NEW c \in Clients, NEW d \in Peers, Client(c, d)
      PROVE  stored' = stored
  BY <1>5 DEF Client, ReceiveHeight, Request
<1>6. CASE Job \/ NoMoreJobs \/ NoEvent \/ Worker \/ FailTask
  BY <1>6 DEF Job, NoMoreJobs, NoEvent, Worker, TakeTask, Prepare, FinishTask,
     FailTask
<1>7. CASE UNCHANGED vars
  BY <1>7 DEF vars
<1> QED BY <1>1, <1>2, <1>3, <1>4, <1>5, <1>6, <1>7
        DEF Next, Environment, Network

\* surface_update() stores what it gets without a look at the version, and
\* still no client ever goes back to an older surface: jobs, answers and the
\* worker's call-backs send a surface as it is at that moment, through one
\* queue for each peer, and a peer that changes hands has an empty one.
THEOREM StoredNeverGetsOlder == Spec => StoredNeverFalls
<1>1. ASSUME VersionInv, [Next]_vars, NEW c \in Clients, NEW p \in Pos
      PROVE  stored'[c][p] >= stored[c][p]
  <2>1. CASE \E b \in Clients, d \in Peers : ReceiveSurface(b, d)
    BY <1>1, <2>1, ReceivedIsNewer
  <2>2. CASE \A b \in Clients, d \in Peers : ~ReceiveSurface(b, d)
    <3>1. stored' = stored
      BY <1>1, <2>2, StoresRest
    <3>2. stored[c][p] \in Nat
      BY <1>1, FeedBounds DEF VersionInv, TypeOK, Version
    <3> QED BY <3>1, <3>2
  <2> QED BY <2>1, <2>2
<1>2. VersionInv /\ [Next]_vars =>
          [\A c \in Clients, p \in Pos : stored'[c][p] >= stored[c][p]]_vars
  BY <1>1
<1> QED BY <1>2, VersionsHold, PTL DEF Spec, StoredNeverFalls

-----------------------------------------------------------------------------
(***************************************************************************)
(* What came into view is current: the invariant.                          *)
(***************************************************************************)

\* Under way between the server and the client behind d.
LoginAhead(d) == \E m \in Items(toServer[d]) : m.type = "login"
Asked(d, p) == \E m \in Items(toServer[d]) : m.type = "surfaces" /\ m.pos = p
SaysAir(d, p) ==
    \E m \in Items(toClient[d]) : m.type = "height" /\ m.pos = p /\ m.air
SaysGround(d, p) ==
    \E m \in Items(toClient[d]) : m.type = "height" /\ m.pos = p /\ ~m.air
Coming(d, p) ==
    \E m \in Items(toClient[d]) :
        m.type = "surface" /\ m.pos = p /\ m.version = surface[p]
InWork(d, p) ==
    [dest |-> d, pos |-> p] \in Items(jobs) \cup Items(tasks) \cup {task}

\* A client that takes a chunk for air, or is about to, will be told better.
AirIsCorrected(c, d, p) ==
    ~air[p] /\ (height[c][p] = "air" \/ SaysAir(d, p))
        => LoginAhead(d) \/ SaysGround(d, p)

\* Before it is logged in, nobody would put a job on the queue for it.
AsksBeforeLogin(c, d, p) ==
    LoginAhead(d) /\ p \in visible[c] =>
        p \in requests[c] \/ Asked(d, p) \/ height[c][p] = "air"

\* What it lacks is asked for, in work or under way.
IsServed(c, d, p) ==
    failures = 0 /\ p \in visible[c] /\ ~air[p] =>
        \/ surface[p] > 0 /\ stored[c][p] = surface[p]
        \/ p \in requests[c] \/ Asked(d, p) \/ InWork(d, p) \/ Coming(d, p)
        \/ height[c][p] = "air"

Served(c, d, p) ==
    Online(c, d) => /\ AirIsCorrected(c, d, p)
                    /\ AsksBeforeLogin(c, d, p)
                    /\ IsServed(c, d, p)

ServedInv ==
    /\ VersionInv
    /\ \A c \in Clients, d \in Peers, p \in Near : Served(c, d, p)

-----------------------------------------------------------------------------
(***************************************************************************)
(* What the steps do to the wires, and a step that takes nothing away.     *)
(***************************************************************************)

LEMMA OnlineItems ==
    ASSUME NEW c \in Clients, NEW d \in Peers
    PROVE  Online(c, d) <=> /\ user[d] = c
                            /\ \A m \in Items(toServer[d]) : m.type # "bye"
BY DEF Online, Items

LEMMA ServedAtFirst == Init => ServedInv
<1> SUFFICES ASSUME Init PROVE ServedInv
  OBVIOUS
<1>1. VersionInv
  BY VersionsAtFirst
<1>2. \A c \in Clients, d \in Peers : ~Online(c, d)
  BY FeedShape DEF Online, Init
<1> QED BY <1>1, <1>2 DEF ServedInv, Served

\* Heights go to peers that are logged in, and a login is the first packet.
LEMMA LoginIsAhead ==
    ASSUME VersionInv, NEW c \in Clients, NEW d \in Peers, Online(c, d)
    PROVE  /\ LoginAhead(d) <=> d \notin connections
           /\ d \notin connections =>
                 \A m \in Items(toClient[d]) : m.type # "height"
<1>1. ServerWire(d) /\ ClientWire(d) /\ toServer[d] \in Seq(ToServer)
  BY DEF VersionInv, TypeOK
<1>2. user[d] # None /\ \A m \in Items(toServer[d]) : m.type # "bye"
  BY OnlineItems, FeedShape DEF Online
<1>3. ASSUME d \notin connections PROVE LoginAhead(d)
  <2>1. toServer[d] # <<>> /\ Head(toServer[d]).type \in {"login", "bye"}
    BY <1>1, <1>2, <1>3 DEF ServerWire
  <2>2. Head(toServer[d]) \in Items(toServer[d])
    BY <1>1, <2>1, RestOfItems
  <2> QED BY <1>2, <2>1, <2>2 DEF LoginAhead
<1>4. LoginAhead(d) => d \notin connections
  BY <1>1 DEF LoginAhead, ServerWire
<1>5. d \notin connections => \A m \in Items(toClient[d]) : m.type # "height"
  BY <1>1 DEF ClientWire, PacketOK
<1> QED BY <1>3, <1>4, <1>5

LEMMA SentItems ==
    ASSUME VersionInv, NEW d \in Peers, NEW packets \in Seq(ToClient),
           SendTo(d, packets)
    PROVE  /\ \A e \in Peers : e # d => toClient'[e] = toClient[e]
           /\ user[d] # None =>
                 Items(toClient'[d]) = Items(toClient[d]) \cup Items(packets)
           /\ user[d] = None => toClient'[d] = toClient[d]
<1>0. toClient \in [Peers -> Seq(ToClient)] /\ toClient[d] \in Seq(ToClient)
  BY DEF VersionInv, TypeOK
<1>1. CASE user[d] = None
  BY <1>1 DEF SendTo
<1>2. CASE user[d] # None
  <2> DEFINE q == toClient[d] \o packets
  <2>1. toClient' = [toClient EXCEPT ![d] = q]
    BY <1>2 DEF SendTo, Queued
  <2>2. Items(q) = Items(toClient[d]) \cup Items(packets)
    BY <1>0, JoinedItems
  <2> HIDE DEF q
  <2> QED BY <1>0, <1>2, <2>1, <2>2
<1> QED BY <1>1, <1>2

LEMMA EventItems ==
    ASSUME VersionInv, NEW d \in Peers, NEW type, Event(d, type)
    PROVE  /\ \A e \in Peers : e # d => toServer'[e] = toServer[e]
           /\ Items(toServer[d]) = {Head(toServer[d])} \cup Items(toServer'[d])
           /\ Head(toServer[d]).type = type
           /\ Head(toServer[d]) \in ToServer
<1>0. toServer \in [Peers -> Seq(ToServer)] /\ toServer[d] \in Seq(ToServer)
  BY DEF VersionInv, TypeOK
<1>1. /\ toServer[d] # <<>> /\ Head(toServer[d]).type = type
      /\ toServer' = [toServer EXCEPT ![d] = Tail(toServer[d])]
  BY DEF Event
<1>2. /\ Items(toServer[d]) = {Head(toServer[d])} \cup Items(Tail(toServer[d]))
      /\ Head(toServer[d]) \in ToServer
  BY <1>0, <1>1, RestOfItems
<1> QED BY <1>0, <1>1, <1>2

LEMMA ServedKept ==
    ASSUME ServedInv, NEW c \in Clients, NEW d \in Peers, NEW p \in Near,
           Online(c, d),
           air'[p] = air[p],
           height'[c][p] = height[c][p], stored'[c][p] = stored[c][p],
           p \in visible'[c] => p \in visible[c],
           failures' = 0 => failures = 0,
           p \in requests[c] => p \in requests'[c],
           Asked(d, p) => Asked(d, p)',
           InWork(d, p) /\ failures' = 0 => InWork(d, p)',
           LoginAhead(d)' <=> LoginAhead(d),
           SaysAir(d, p)' => SaysAir(d, p) \/ air[p],
           \A m \in Items(toClient[d]) : m.pos = p => m \in Items(toClient'[d]),
           surface'[p] = surface[p] \/ surface[p] = 0
    PROVE  /\ AirIsCorrected(c, d, p)' /\ AsksBeforeLogin(c, d, p)'
           /\ IsServed(c, d, p)'
<1>0. /\ AirIsCorrected(c, d, p) /\ AsksBeforeLogin(c, d, p) /\ IsServed(c, d, p)
      /\ p \in Pos /\ surface[p] \in Nat
  BY FeedShape, FeedBounds DEF ServedInv, Served, VersionInv, TypeOK, Version
<1>1. SaysGround(d, p) => SaysGround(d, p)'
  BY DEF SaysGround
<1>2. Coming(d, p) => Coming(d, p)'
  <2>1. ASSUME NEW m \in Items(toClient[d]), m.type = "surface", m.pos = p,
               m.version = surface[p]
        PROVE  surface[p] >= 1
    <3>1. PacketOK(d, m) /\ 1 <= m.version
      BY <2>1 DEF ServedInv, VersionInv, ClientWire, PacketOK
    <3> QED BY <2>1, <3>1
  <2> QED BY <1>0, <2>1 DEF Coming
<1>3. AirIsCorrected(c, d, p)'
  BY <1>0, <1>1 DEF AirIsCorrected
<1>4. AsksBeforeLogin(c, d, p)'
  BY <1>0 DEF AsksBeforeLogin
<1>5. IsServed(c, d, p)'
  BY <1>0, <1>2 DEF IsServed
<1> QED BY <1>3, <1>4, <1>5

\* Whoever is online after a step that connects nobody was so before, if the
\* step took no farewell off the queue.
LEMMA OnlineBefore ==
    ASSUME NEW c \in Clients, NEW d \in Peers, Online(c, d)', user' = user,
           \A m \in Items(toServer[d]) : m.type = "bye" => m \in Items(toServer'[d])
    PROVE  Online(c, d)
<1>1. /\ user'[d] = c /\ \A m \in Items(toServer'[d]) : m.type # "bye"
  BY DEF Online, Items
<1> QED BY <1>1, OnlineItems

\* A step that changes neither the world nor the stores, nor takes anything
\* from a queue.
LEMMA ServedRests ==
    ASSUME ServedInv, NEW c \in Clients, NEW d \in Peers, NEW p \in Near,
           Online(c, d)',
           user'[d] = user[d], toServer'[d] = toServer[d], toClient'[d] = toClient[d],
           air' = air, height' = height, stored' = stored, failures' = failures,
           requests'[c] = requests[c], visible'[c] = visible[c],
           InWork(d, p) => InWork(d, p)',
           surface'[p] = surface[p] \/ surface[p] = 0
    PROVE  Served(c, d, p)'
<1>1. Online(c, d)
  BY DEF Online
<1>2. /\ Asked(d, p)' <=> Asked(d, p)
      /\ LoginAhead(d)' <=> LoginAhead(d)
      /\ SaysAir(d, p)' <=> SaysAir(d, p)
  BY DEF Asked, LoginAhead, SaysAir
<1> QED BY <1>1, <1>2, ServedKept DEF Served

LEMMA ConnectServes ==
    ASSUME ServedInv, NEW b \in Clients, NEW e \in Peers, Connect(b, e),
           NEW c \in Clients, NEW d \in Peers, NEW p \in Near
    PROVE  Served(c, d, p)'
<1> SUFFICES ASSUME Online(c, d)' PROVE Served(c, d, p)'
  BY DEF Served
<1>0. /\ toServer \in [Peers -> Seq(ToServer)]
      /\ user \in [Peers -> Clients \cup {None}]
      /\ visible \in [Clients -> SUBSET Pos] /\ requests \in [Clients -> SUBSET Pos]
      /\ \A a \in Peers : user[a] # b
      /\ user' = [user EXCEPT ![e] = b]
      /\ toServer' = [toServer EXCEPT ![e] = <<[type |-> "login", pos |-> None]>>]
      /\ requests' = [requests EXCEPT ![b] = {}]
      /\ visible' = [visible EXCEPT ![b] = {}]
      /\ UNCHANGED <<air, surface, jobs, tasks, task, toClient, height, stored,
                     failures>>
  BY DEF ServedInv, VersionInv, TypeOK, Connect, worldVars, poolVars
<1>1. user'[d] = c
  BY DEF Online
<1>2. CASE d = e
  <2>1. c = b /\ visible'[c] = {}
    BY <1>0, <1>1, <1>2
  <2>2. LoginAhead(d)'
    <3> DEFINE m == [type |-> "login", pos |-> None]
    <3>1. m \in ToServer /\ m.type = "login"
      BY DEF ToServer
    <3>2. toServer'[d] = <<m>>
      BY <1>0, <1>2
    <3> HIDE DEF m
    <3>3. m \in Items(toServer'[d])
      BY <3>1, <3>2, OneItem
    <3> QED BY <3>1, <3>3 DEF LoginAhead
  <2> QED BY <2>1, <2>2 DEF Served, AirIsCorrected, AsksBeforeLogin, IsServed
<1>3. CASE d # e
  <2>1. /\ user'[d] = user[d] /\ toServer'[d] = toServer[d]
        /\ c # b /\ requests'[c] = requests[c] /\ visible'[c] = visible[c]
    BY <1>0, <1>1, <1>3
  <2>2. InWork(d, p) => InWork(d, p)'
    BY <1>0 DEF InWork
  <2> QED BY <1>0, <2>1, <2>2, ServedRests
<1> QED BY <1>2, <1>3

LEMMA LeaveServes ==
    ASSUME ServedInv, NEW e \in Peers, Leave(e),
           NEW c \in Clients, NEW d \in Peers, NEW p \in Near
    PROVE  Served(c, d, p)'
<1> SUFFICES ASSUME Online(c, d)' PROVE Served(c, d, p)'
  BY DEF Served
<1> DEFINE m == [type |-> "bye", pos |-> None]
<1>0. /\ toServer \in [Peers -> Seq(ToServer)]
      /\ toClient \in [Peers -> Seq(ToClient)]
      /\ toClient' = [toClient EXCEPT ![e] = <<>>]
      /\ UNCHANGED <<air, surface, user, jobs, tasks, task, height, stored,
                     requests, visible, failures>>
  BY DEF ServedInv, VersionInv, TypeOK, Leave, worldVars, netVars, poolVars,
     clientVars, counters
<1>1. PICK k \in 0 .. Len(toServer[e]) :
          toServer' = [toServer EXCEPT ![e] = Append(SubSeq(toServer[e], 1, k), m)]
  BY DEF Leave
<1>2. CASE d = e
  <2>1. m \in ToServer /\ m.type = "bye"
    BY DEF ToServer
  <2> HIDE DEF m
  <2> DEFINE s == SubSeq(toServer[e], 1, k)
  <2>2. s \in Seq(ToServer)
    BY <1>0, FirstItems
  <2>3. toServer'[d] = Append(s, m)
    BY <1>0, <1>1, <1>2
  <2> HIDE DEF s
  <2>4. m \in Items(toServer'[d])
    BY <2>1, <2>2, <2>3, AddedItem
  <2>5. \A x \in Items(toServer'[d]) : x.type # "bye"
    BY DEF Online, Items
  <2> QED BY <2>1, <2>4, <2>5
<1>3. CASE d # e
  <2>1. toServer'[d] = toServer[d] /\ toClient'[d] = toClient[d]
    BY <1>0, <1>1, <1>3
  <2>2. InWork(d, p) => InWork(d, p)'
    BY <1>0 DEF InWork
  <2> QED BY <1>0, <2>1, <2>2, ServedRests
<1> QED BY <1>2, <1>3

LEMMA BecomeVisibleServes ==
    ASSUME ServedInv, NEW b \in Clients, NEW e \in Peers, NEW q \in Pos,
           BecomeVisible(b, e, q),
           NEW c \in Clients, NEW d \in Peers, NEW p \in Near
    PROVE  Served(c, d, p)'
<1> SUFFICES ASSUME Online(c, d)' PROVE Served(c, d, p)'
  BY DEF Served
<1>0. /\ visible \in [Clients -> SUBSET Pos] /\ requests \in [Clients -> SUBSET Pos]
      /\ requests' = [requests EXCEPT ![b] = @ \cup {q}]
      /\ visible' = [visible EXCEPT ![b] = @ \cup {q}]
      /\ UNCHANGED <<air, surface, user, jobs, tasks, task, toServer, toClient,
                     height, stored, failures>>
  BY DEF ServedInv, VersionInv, TypeOK, BecomeVisible, worldVars, netVars,
     poolVars, wire
<1>1. Online(c, d)
  BY <1>0 DEF Online
<1>2. /\ Asked(d, p)' <=> Asked(d, p)
      /\ InWork(d, p)' <=> InWork(d, p)
      /\ LoginAhead(d)' <=> LoginAhead(d)
      /\ SaysAir(d, p)' <=> SaysAir(d, p)
      /\ SaysGround(d, p)' <=> SaysGround(d, p)
  BY <1>0 DEF Asked, InWork, LoginAhead, SaysAir, SaysGround
<1>3. CASE c = b /\ p = q
  <2>1. p \in requests'[c]
    BY <1>0, <1>3
  <2>2. AirIsCorrected(c, d, p)
    BY <1>1 DEF ServedInv, Served
  <2>3. AirIsCorrected(c, d, p)'
    BY <1>0, <1>2, <2>2 DEF AirIsCorrected
  <2> QED BY <2>1, <2>3 DEF Served, AsksBeforeLogin, IsServed
<1>4. CASE c # b \/ p # q
  <2>1. /\ p \in requests[c] => p \in requests'[c]
        /\ p \in visible'[c] => p \in visible[c]
    BY <1>0, <1>4
  <2> QED BY <1>0, <1>1, <1>2, <2>1, ServedKept DEF Served
<1> QED BY <1>3, <1>4

LEMMA RequestServes ==
    ASSUME ServedInv, NEW b \in Clients, NEW e \in Peers, NEW q \in Pos,
           Request(b, e, q),
           NEW c \in Clients, NEW d \in Peers, NEW p \in Near
    PROVE  Served(c, d, p)'
<1> SUFFICES ASSUME Online(c, d)' PROVE Served(c, d, p)'
  BY DEF Served
<1> DEFINE t == RequestFor(b, q)
<1>0. /\ requests \in [Clients -> SUBSET Pos]
      /\ toServer \in [Peers -> Seq(ToServer)] /\ toServer[e] \in Seq(ToServer)
      /\ user[e] = b
      /\ requests' = [requests EXCEPT ![b] = @ \ {q}]
      /\ toServer' = [toServer EXCEPT ![e] = toServer[e] \o t]
      /\ UNCHANGED <<air, surface, user, jobs, tasks, task, toClient, height,
                     stored, visible, failures>>
  BY DEF ServedInv, VersionInv, TypeOK, Request, Online, Queued, worldVars,
     netVars, poolVars, counters
<1>1. /\ t \in Seq(ToServer)
      /\ \A m \in Items(t) : m \in ToServer /\ m.type \notin {"login", "bye"}
  BY RequestForFits DEF ServedInv
<1>2. CASE d # e
  <2>1. toServer'[d] = toServer[d]
    BY <1>0, <1>2
  <2>2. c # b
    BY <1>0, <1>2, FeedShape DEF Online, ServedInv, VersionInv, OnePeerEach
  <2>3. requests'[c] = requests[c]
    BY <1>0, <2>2
  <2>4. InWork(d, p) => InWork(d, p)'
    BY <1>0 DEF InWork
  <2> QED BY <1>0, <2>1, <2>3, <2>4, ServedRests
<1>3. CASE d = e
  <2>1. c = b
    BY <1>0, <1>3 DEF Online
  <2> HIDE DEF t
  <2>2. Items(toServer'[d]) = Items(toServer[d]) \cup Items(t)
    <3>1. toServer'[d] = toServer[d] \o t
      BY <1>0, <1>3
    <3> QED BY <1>0, <1>1, <1>3, <3>1, JoinedItems
  <2>3. Online(c, d)
    BY <1>0, <2>2, OnlineBefore
  <2>4. /\ Asked(d, p) => Asked(d, p)'
        /\ LoginAhead(d)' <=> LoginAhead(d)
    BY <1>1, <2>2 DEF Asked, LoginAhead
  <2>5. /\ InWork(d, p)' <=> InWork(d, p)
        /\ SaysAir(d, p)' <=> SaysAir(d, p)
        /\ SaysGround(d, p)' <=> SaysGround(d, p)
    BY <1>0 DEF InWork, SaysAir, SaysGround
  <2>6. CASE p # q
    <3>1. p \in requests[c] => p \in requests'[c]
      BY <1>0, <2>1, <2>6
    <3> QED BY <1>0, <2>3, <2>4, <2>5, <3>1, ServedKept DEF Served
  <2>7. CASE p = q
    <3>1. Asked(d, p)' \/ height'[c][p] = "air"
      <4>1. CASE height[c][p] = "air"
        BY <1>0, <4>1
      <4>2. CASE height[c][p] # "air"
        <5>1. \E m \in Items(t) : m.type = "surfaces" /\ m.pos = p
          <6> DEFINE x == [type |-> "heights", pos |-> p]
                     y(v) == [type |-> "surfaces", pos |-> p, version |-> v]
          <6>1. 0 \in Version /\ stored[c][p] \in Version
            BY <2>7, FeedBounds DEF ServedInv, VersionInv, TypeOK, Version
          <6>2. /\ x \in ToServer
                /\ \A v \in Version : y(v) \in ToServer /\ y(v).type = "surfaces"
                                      /\ y(v).pos = p
            BY <2>7 DEF ToServer
          <6>3. \/ t = <<x, y(0)>>
                \/ t = <<y(stored[c][p])>>
            BY <2>1, <2>7, <4>2 DEF RequestFor, t
          <6> HIDE DEF x, y
          <6>4. CASE t = <<x, y(0)>>
            <7>1. y(0) \in Items(t)
              BY <6>1, <6>2, <6>4, TwoItems
            <7> QED BY <6>1, <6>2, <7>1
          <6>5. CASE t = <<y(stored[c][p])>>
            <7>1. y(stored[c][p]) \in Items(t)
              BY <6>1, <6>2, <6>5, OneItem
            <7> QED BY <6>1, <6>2, <7>1
          <6> QED BY <6>3, <6>4, <6>5
        <5> QED BY <2>2, <5>1 DEF Asked
      <4> QED BY <4>1, <4>2
    <3>2. AirIsCorrected(c, d, p)
      BY <2>3 DEF ServedInv, Served
    <3>3. AirIsCorrected(c, d, p)'
      BY <1>0, <2>4, <2>5, <3>2 DEF AirIsCorrected
    <3> QED BY <3>1, <3>3 DEF Served, AsksBeforeLogin, IsServed
  <2> QED BY <2>6, <2>7
<1> QED BY <1>2, <1>3

LEMMA ReceiveSurfaceServes ==
    ASSUME ServedInv, NEW b \in Clients, NEW e \in Peers, ReceiveSurface(b, e),
           NEW c \in Clients, NEW d \in Peers, NEW p \in Near
    PROVE  Served(c, d, p)'
<1> SUFFICES ASSUME Online(c, d)' PROVE Served(c, d, p)'
  BY DEF Served
<1> DEFINE m == Head(toClient[e])
<1>0. /\ toClient \in [Peers -> Seq(ToClient)]
      /\ toClient[e] \in Seq(ToClient) /\ toClient[e] # <<>>
      /\ stored \in [Clients -> [Pos -> Version]]
      /\ user[e] = b /\ m.type = "surface" /\ p \in Pos
      /\ stored' = [stored EXCEPT ![b][m.pos] = m.version]
      /\ toClient' = [toClient EXCEPT ![e] = Tail(toClient[e])]
      /\ UNCHANGED <<air, surface, user, jobs, tasks, task, toServer, height,
                     requests, visible, failures>>
  BY FeedShape DEF ServedInv, VersionInv, TypeOK, ReceiveSurface, Online,
     worldVars, netVars, poolVars, counters
<1>1. /\ Items(toClient[e]) = {m} \cup Items(Tail(toClient[e]))
      /\ m \in ToClient
  BY <1>0, RestOfItems
<1>2. ClientWire(e) /\ PacketOK(e, m)
  BY <1>1 DEF ServedInv, VersionInv, ClientWire
<1> HIDE DEF m
<1>3. /\ InWork(d, p)' <=> InWork(d, p)
      /\ Asked(d, p)' <=> Asked(d, p)
      /\ LoginAhead(d)' <=> LoginAhead(d)
  BY <1>0 DEF InWork, Asked, LoginAhead
<1>4. Online(c, d)
  BY <1>0 DEF Online
<1>5. CASE d # e
  <2>1. c # b
    BY <1>0, <1>4, <1>5, FeedShape DEF Online, ServedInv, VersionInv, OnePeerEach
  <2>2. stored'[c][p] = stored[c][p] /\ toClient'[d] = toClient[d]
    BY <1>0, <1>5, <2>1
  <2>3. SaysAir(d, p)' <=> SaysAir(d, p)
    BY <2>2 DEF SaysAir
  <2> QED BY <1>0, <1>3, <1>4, <2>2, <2>3, ServedKept DEF Served
<1>6. CASE d = e
  <2>0. c = b
    BY <1>0, <1>4, <1>6 DEF Online
  <2>1. Items(toClient[d]) = {m} \cup Items(toClient'[d])
    BY <1>0, <1>1, <1>6
  <2>2. /\ SaysAir(d, p)' <=> SaysAir(d, p)
        /\ SaysGround(d, p)' <=> SaysGround(d, p)
    BY <1>0, <2>1 DEF SaysAir, SaysGround
  <2>3. CASE m.pos # p
    <3>1. stored'[c][p] = stored[c][p]
      BY <1>0, <2>3
    <3>2. \A x \in Items(toClient[d]) : x.pos = p => x \in Items(toClient'[d])
      BY <2>1, <2>3
    <3> QED BY <1>0, <1>3, <1>4, <2>2, <3>1, <3>2, ServedKept DEF Served
  <2>4. CASE m.pos = p
    <3>0. AirIsCorrected(c, d, p) /\ AsksBeforeLogin(c, d, p) /\ IsServed(c, d, p)
      BY <1>4 DEF ServedInv, Served
    <3>1. AirIsCorrected(c, d, p)' /\ AsksBeforeLogin(c, d, p)'
      BY <1>0, <1>3, <2>2, <3>0 DEF AirIsCorrected, AsksBeforeLogin
    <3>2. /\ m.version \in Nat /\ surface[p] \in Nat /\ stored[c][p] \in Nat
          /\ 1 <= m.version /\ m.version <= surface[p]
          /\ stored[c][p] <= m.version
          /\ stored'[c][p] = m.version
      BY <1>0, <1>1, <1>2, <2>0, <2>4, FeedBounds DEF PacketOK, ToClient,
         Version, ServedInv, VersionInv, TypeOK
    <3>3. (surface[p] > 0 /\ stored[c][p] = surface[p]) \/ m.version = surface[p]
            => surface'[p] > 0 /\ stored'[c][p] = surface'[p]
      BY <1>0, <3>2
    <3>4. Coming(d, p) => Coming(d, p)' \/ m.version = surface[p]
      BY <1>0, <2>1 DEF Coming
    <3>5. IsServed(c, d, p)'
      BY <1>0, <1>3, <3>0, <3>3, <3>4 DEF IsServed
    <3> QED BY <3>1, <3>5 DEF Served
  <2> QED BY <2>3, <2>4
<1> QED BY <1>5, <1>6

LEMMA ReceiveHeightServes ==
    ASSUME ServedInv, NEW b \in Clients, NEW e \in Peers, ReceiveHeight(b, e),
           NEW c \in Clients, NEW d \in Peers, NEW p \in Near
    PROVE  Served(c, d, p)'
<1> SUFFICES ASSUME Online(c, d)' PROVE Served(c, d, p)'
  BY DEF Served
<1> DEFINE m == Head(toClient[e])
<1>0. /\ toClient \in [Peers -> Seq(ToClient)]
      /\ toClient[e] \in Seq(ToClient) /\ toClient[e] # <<>>
      /\ height \in [Clients -> [Pos -> {"unknown", "air", "ground"}]]
      /\ requests \in [Clients -> SUBSET Pos]
      /\ user[e] = b /\ m.type = "height" /\ p \in Pos
      /\ height' = [height EXCEPT
                       ![b][m.pos] = IF m.air THEN "air" ELSE "ground"]
      /\ requests' = [requests EXCEPT ![b] = @ \cup AsksAgain(b, m)]
      /\ toClient' = [toClient EXCEPT ![e] = Tail(toClient[e])]
      /\ UNCHANGED <<air, surface, user, jobs, tasks, task, toServer, stored,
                     visible, failures>>
  BY FeedShape DEF ServedInv, VersionInv, TypeOK, ReceiveHeight, Online,
     worldVars, netVars, poolVars, counters
<1>1. ClientWire(e)
  BY DEF ServedInv, VersionInv
<1>2. /\ Items(toClient[e]) = {m} \cup Items(Tail(toClient[e]))
      /\ m \in ToClient
      /\ \A y \in Items(Tail(toClient[e])) : <<m, y>> \in ClientOrder
  BY <1>0, <1>1, RestOfItems DEF ClientWire
<1> HIDE DEF m
<1>3. /\ InWork(d, p)' <=> InWork(d, p)
      /\ Asked(d, p)' <=> Asked(d, p)
      /\ LoginAhead(d)' <=> LoginAhead(d)
  BY <1>0 DEF InWork, Asked, LoginAhead
<1>4. Online(c, d)
  BY <1>0 DEF Online
<1>5. p \in requests[c] => p \in requests'[c]
  BY <1>0
<1>6. CASE d # e
  <2>1. c # b
    BY <1>0, <1>4, <1>6, FeedShape DEF Online, ServedInv, VersionInv, OnePeerEach
  <2>2. height'[c][p] = height[c][p] /\ toClient'[d] = toClient[d]
    BY <1>0, <1>6, <2>1
  <2>3. SaysAir(d, p)' <=> SaysAir(d, p)
    BY <2>2 DEF SaysAir
  <2> QED BY <1>0, <1>3, <1>4, <1>5, <2>2, <2>3, ServedKept DEF Served
<1>7. CASE d = e
  <2>0. c = b
    BY <1>0, <1>4, <1>7 DEF Online
  <2>1. /\ Items(toClient[d]) = {m} \cup Items(toClient'[d])
        /\ \A y \in Items(toClient'[d]) : <<m, y>> \in ClientOrder
    BY <1>0, <1>2, <1>7
  <2>2. CASE m.pos # p
    <3>1. height'[c][p] = height[c][p]
      BY <1>0, <2>2
    <3>2. \A x \in Items(toClient[d]) : x.pos = p => x \in Items(toClient'[d])
      BY <2>1, <2>2
    <3>3. SaysAir(d, p)' => SaysAir(d, p)
      BY <2>1 DEF SaysAir
    <3> QED BY <1>0, <1>3, <1>4, <1>5, <3>1, <3>2, <3>3, ServedKept DEF Served
  <2>3. CASE m.pos = p
    <3>0. AirIsCorrected(c, d, p) /\ AsksBeforeLogin(c, d, p) /\ IsServed(c, d, p)
      BY <1>4 DEF ServedInv, Served
    <3>1. height'[c][p] = IF m.air THEN "air" ELSE "ground"
      BY <1>0, <2>0, <2>3
    <3>2. ~LoginAhead(d)
      BY <1>0, <1>4, <2>1, LoginIsAhead DEF ServedInv
    <3>3. CASE m.air
      <4>1. SaysAir(d, p)
        BY <1>0, <2>1, <2>3, <3>3 DEF SaysAir
      <4>2. SaysGround(d, p) => SaysGround(d, p)'
        BY <2>1, <3>3 DEF SaysGround
      <4>3. AirIsCorrected(c, d, p)'
        BY <1>0, <3>0, <3>2, <4>1, <4>2 DEF AirIsCorrected
      <4>4. height'[c][p] = "air"
        BY <3>1, <3>3
      <4> QED BY <4>3, <4>4 DEF Served, AsksBeforeLogin, IsServed
    <3>4. CASE ~m.air
      <4>1. height'[c][p] = "ground"
        BY <3>1, <3>4
      <4>2. ~SaysAir(d, p)'
        BY <1>0, <2>1, <2>3, <3>4 DEF SaysAir, ClientOrder
      <4>3. AirIsCorrected(c, d, p)'
        BY <4>1, <4>2 DEF AirIsCorrected
      <4>4. AsksBeforeLogin(c, d, p)'
        BY <1>3, <3>2 DEF AsksBeforeLogin
      <4>5. p \in visible[c] /\ height[c][p] = "air" => p \in requests'[c]
        BY <1>0, <2>0, <2>3, <3>4 DEF AsksAgain
      <4>6. Coming(d, p) => Coming(d, p)'
        BY <1>0, <2>1 DEF Coming
      <4>7. IsServed(c, d, p)'
        BY <1>0, <1>3, <1>5, <3>0, <4>5, <4>6 DEF IsServed
      <4> QED BY <4>3, <4>4, <4>7 DEF Served
    <3> QED BY <3>3, <3>4
  <2> QED BY <2>2, <2>3
<1> QED BY <1>6, <1>7

LEMMA LoginServes ==
    ASSUME ServedInv, NEW e \in Peers, Login(e),
           NEW c \in Clients, NEW d \in Peers, NEW p \in Near
    PROVE  Served(c, d, p)'
<1> SUFFICES ASSUME Online(c, d)' PROVE Served(c, d, p)'
  BY DEF Served
<1> DEFINE m == Head(toServer[e])
           packets == [i \in 1 .. Len(SetToSeq(Near)) |->
                          HeightOf(SetToSeq(Near)[i])]
<1>0. /\ Event(e, "login") /\ SendTo(e, packets) /\ p \in Pos
      /\ UNCHANGED <<air, surface, user, jobs, task, height, stored, requests,
                     visible, failures>>
  BY FeedShape DEF Login, worldVars, clientVars, counters
<1>1. VersionInv
  BY DEF ServedInv
<1>2. /\ \A a \in Peers : a # e => toServer'[a] = toServer[a]
      /\ Items(toServer[e]) = {m} \cup Items(toServer'[e])
      /\ m.type = "login"
  BY <1>0, <1>1, EventItems
<1>3. /\ packets \in Seq(ToClient) /\ HeightOf(p) \in Items(packets)
      /\ \A x \in Items(packets) : \E q \in Near : x = HeightOf(q)
  BY <1>1, HeightsFit
<1> HIDE DEF packets, m
<1>4. /\ \A a \in Peers : a # e => toClient'[a] = toClient[a]
      /\ user[e] # None =>
            Items(toClient'[e]) = Items(toClient[e]) \cup Items(packets)
  BY <1>0, <1>1, <1>3, SentItems
<1>5. Online(c, d)
  <2>1. \A x \in Items(toServer[d]) : x.type = "bye" => x \in Items(toServer'[d])
    BY <1>2
  <2> QED BY <1>0, <2>1, OnlineBefore
<1>6. InWork(d, p) => InWork(d, p)'
  <2>1. Items(tasks) \subseteq Items(tasks')
    <3>1. CASE tasks' = tasks
      BY <3>1
    <3>2. CASE \E q \in Near : tasks' = Append(tasks, [dest |-> e, pos |-> q])
      <4>1. PICK q \in Near : tasks' = Append(tasks, [dest |-> e, pos |-> q])
        BY <3>2
      <4> DEFINE o == [dest |-> e, pos |-> q]
      <4>2. o \in Order /\ tasks \in Seq(Order) /\ tasks' = Append(tasks, o)
        BY <1>1, <4>1, FeedShape DEF Order, VersionInv, TypeOK
      <4> HIDE DEF o
      <4> QED BY <4>2, AddedItem
    <3> QED BY <3>1, <3>2 DEF Login
  <2> QED BY <1>0, <2>1 DEF InWork
<1>7. CASE d # e
  BY <1>0, <1>2, <1>4, <1>6, <1>7, ServedRests
<1>8. CASE d = e
  <2>0. IsServed(c, d, p) /\ surface[p] = surface'[p]
    BY <1>0, <1>5 DEF ServedInv, Served
  <2>1. Items(toClient'[d]) = Items(toClient[d]) \cup Items(packets)
    BY <1>4, <1>5, <1>8, FeedShape DEF Online
  <2>2. ~LoginAhead(d)'
    <3>1. /\ Ordered(toServer[e], ServerOrder) /\ toServer[e] \in Seq(ToServer)
          /\ toServer[e] # <<>> /\ toServer'[e] = Tail(toServer[e])
      BY <1>0, <1>1 DEF VersionInv, TypeOK, ServerWire, Event
    <3>2. \A y \in Items(toServer'[e]) : <<Head(toServer[e]), y>> \in ServerOrder
      BY <3>1, RestOfItems
    <3> QED BY <1>8, <3>2 DEF ServerOrder, LoginAhead
  <2>3. ~air[p] => SaysGround(d, p)'
    BY <1>3, <2>1 DEF SaysGround, HeightOf
  <2>4. AirIsCorrected(c, d, p)' /\ AsksBeforeLogin(c, d, p)'
    BY <1>0, <2>2, <2>3 DEF AirIsCorrected, AsksBeforeLogin
  <2>5. Asked(d, p) => Asked(d, p)'
    BY <1>2, <1>8 DEF Asked
  <2>6. Coming(d, p) => Coming(d, p)'
    BY <2>0, <2>1 DEF Coming
  <2>7. IsServed(c, d, p)'
    BY <1>0, <1>6, <2>0, <2>5, <2>6 DEF IsServed
  <2> QED BY <2>4, <2>7 DEF Served
<1> QED BY <1>7, <1>8

LEMMA DisconnectServes ==
    ASSUME ServedInv, NEW e \in Peers, Disconnect(e),
           NEW c \in Clients, NEW d \in Peers, NEW p \in Near
    PROVE  Served(c, d, p)'
<1> SUFFICES ASSUME Online(c, d)' PROVE Served(c, d, p)'
  BY DEF Served
<1>0. /\ Event(e, "bye") /\ VersionInv
      /\ user \in [Peers -> Clients \cup {None}]
      /\ toClient \in [Peers -> Seq(ToClient)]
      /\ user' = [user EXCEPT ![e] = None]
      /\ toClient' = [toClient EXCEPT ![e] = <<>>]
      /\ UNCHANGED <<air, surface, jobs, tasks, task, height, stored, requests,
                     visible, failures>>
  BY DEF ServedInv, VersionInv, TypeOK, Disconnect, worldVars, poolVars,
     clientVars, counters
<1>1. d # e
  BY <1>0, FeedShape DEF Online
<1>2. /\ toServer'[d] = toServer[d] /\ toClient'[d] = toClient[d]
      /\ user'[d] = user[d]
  BY <1>0, <1>1, EventItems
<1>3. InWork(d, p) => InWork(d, p)'
  BY <1>0 DEF InWork
<1> QED BY <1>0, <1>2, <1>3, ServedRests

\* What made the missing surface changes no surface there is.
LEMMA MadeOnce ==
    ASSUME VersionInv, NEW q \in Pos, surface' = Made(q), NEW p \in Pos
    PROVE  /\ surface'[p] = surface[p] \/ surface[p] = 0
           /\ VersionOf(q) = surface'[q]
BY DEF Made, VersionOf, VersionInv, TypeOK

LEMMA ReqHeightsServes ==
    ASSUME ServedInv, NEW e \in Peers, ReqHeights(e),
           NEW c \in Clients, NEW d \in Peers, NEW p \in Near
    PROVE  Served(c, d, p)'
<1> SUFFICES ASSUME Online(c, d)' PROVE Served(c, d, p)'
  BY DEF Served
<1> DEFINE m == Head(toServer[e])
           h == HeightOf(m.pos)
<1>0. /\ Event(e, "heights") /\ SendTo(e, <<h>>) /\ VersionInv
      /\ air \in [Pos -> BOOLEAN]
      /\ UNCHANGED <<air, surface, user, jobs, tasks, task, height, stored,
                     requests, visible, failures>>
  BY DEF ReqHeights, worldVars, poolVars, clientVars, counters, ServedInv,
     VersionInv, TypeOK
<1>1. /\ \A a \in Peers : a # e => toServer'[a] = toServer[a]
      /\ Items(toServer[e]) = {m} \cup Items(toServer'[e])
      /\ m.type = "heights" /\ m \in ToServer
  BY <1>0, EventItems
<1>2. /\ h \in ToClient /\ h.type = "height" /\ h.pos = m.pos
      /\ h.air = air[m.pos]
  BY <1>0, <1>1 DEF HeightOf, ToClient, ToServer
<1> HIDE DEF h, m
<1>3. /\ \A a \in Peers : a # e => toClient'[a] = toClient[a]
      /\ user[e] # None => Items(toClient'[e]) = Items(toClient[e]) \cup {h}
  BY <1>0, <1>2, OneItem, SentItems
<1>4. InWork(d, p) => InWork(d, p)'
  BY <1>0 DEF InWork
<1>5. CASE d # e
  BY <1>0, <1>1, <1>3, <1>4, <1>5, ServedRests
<1>6. CASE d = e
  <2>1. Online(c, d)
    BY <1>0, <1>1, <1>6, OnlineBefore
  <2>2. Items(toClient'[d]) = Items(toClient[d]) \cup {h}
    BY <1>3, <1>6, <2>1, FeedShape DEF Online
  <2>3. SaysAir(d, p)' => SaysAir(d, p) \/ air[p]
    BY <1>2, <2>2 DEF SaysAir
  <2>4. /\ Asked(d, p) => Asked(d, p)'
        /\ LoginAhead(d)' <=> LoginAhead(d)
    BY <1>1, <1>6 DEF Asked, LoginAhead
  <2> QED BY <1>0, <1>4, <2>1, <2>2, <2>3, <2>4, ServedKept DEF Served
<1> QED BY <1>5, <1>6

\* One of the answers of req_chunks().
LEMMA ReqChunksServes ==
    ASSUME ServedInv, NEW e \in Peers, ReqChunks(e),
           NEW c \in Clients, NEW d \in Peers, NEW p \in Near
    PROVE  Served(c, d, p)'
<1> SUFFICES ASSUME Online(c, d)' PROVE Served(c, d, p)'
  BY DEF Served
<1> DEFINE m == Head(toServer[e])
           q == m.pos
           h == HeightOf(q)
           x == SurfaceOf(q, VersionOf(q))
           o == [dest |-> e, pos |-> q]
<1>0. /\ Event(e, "surfaces") /\ VersionInv /\ p \in Pos
      /\ air \in [Pos -> BOOLEAN] /\ surface \in [Pos -> Version]
      /\ \A a \in Pos : surface[a] \in Nat
      /\ UNCHANGED <<air, user, connections, jobs, task, height, stored,
                     requests, visible, failures>>
  BY FeedShape, FeedBounds DEF ReqChunks, clientVars, counters, ServedInv,
     VersionInv, TypeOK, Version
<1>1. /\ \A a \in Peers : a # e => toServer'[a] = toServer[a]
      /\ Items(toServer[e]) = {m} \cup Items(toServer'[e])
      /\ m.type = "surfaces" /\ m \in ToServer /\ q \in Pos /\ m.version \in Nat
  <2>1. /\ \A a \in Peers : a # e => toServer'[a] = toServer[a]
        /\ Items(toServer[e]) = {m} \cup Items(toServer'[e])
        /\ m.type = "surfaces" /\ m \in ToServer
    BY <1>0, EventItems
  <2> QED BY <2>1, FeedBounds DEF ToServer, Version
<1>2. /\ h \in ToClient /\ h.type = "height" /\ h.pos = q /\ h.air = air[q]
      /\ o \in Order /\ tasks \in Seq(Order)
  BY <1>0, <1>1 DEF HeightOf, ToClient, Order, VersionInv, TypeOK
<1>3. \/ air[q] /\ SendTo(e, <<h>>) /\ UNCHANGED <<surface, tasks>>
      \/ /\ ~air[q] /\ surface[q] > 0 /\ m.version = surface[q]
         /\ UNCHANGED <<surface, toClient, tasks>>
      \/ /\ ~air[q] /\ surface[q] > 0
         /\ surface' = Made(q) /\ SendTo(e, <<x>>) /\ UNCHANGED tasks
      \/ /\ ~air[q] /\ tasks' = Append(tasks, o)
         /\ UNCHANGED <<surface, toClient>>
  BY DEF ReqChunks, UpToDate, SendSurface
<1>4. surface' = Made(q) =>
         /\ surface'[p] = surface[p] \/ surface[p] = 0
         /\ x \in ToClient /\ x.type = "surface" /\ x.pos = q
         /\ x.version = surface'[q]
  <2> SUFFICES ASSUME surface' = Made(q)
               PROVE  /\ surface'[p] = surface[p] \/ surface[p] = 0
                      /\ x \in ToClient /\ x.type = "surface" /\ x.pos = q
                      /\ x.version = surface'[q]
    OBVIOUS
  <2>1. /\ surface'[p] = surface[p] \/ surface[p] = 0
        /\ VersionOf(q) = surface'[q]
    BY <1>0, <1>1, MadeOnce
  <2>2. surface'[q] \in Version
    BY <1>0, <1>1, MadeKeeps DEF ReqChunks, counters, clientVars
  <2> QED BY <1>1, <2>1, <2>2 DEF SurfaceOf, ToClient
<1>5. ServerWire(e) /\ q = m.pos
  BY <1>0 DEF VersionInv
<1> HIDE DEF h, m, q, x, o
<1>6. ASSUME NEW y \in ToClient, SendTo(e, <<y>>)
      PROVE  /\ \A a \in Peers : a # e => toClient'[a] = toClient[a]
             /\ user[e] # None => Items(toClient'[e]) = Items(toClient[e]) \cup {y}
  BY <1>0, <1>6, OneItem, SentItems
<1>7. InWork(d, p) => InWork(d, p)'
  <2>1. tasks' = tasks \/ tasks' = Append(tasks, o)
    BY <1>3
  <2>2. Items(Append(tasks, o)) = Items(tasks) \cup {o}
    BY <1>2, AddedItem
  <2>3. Items(tasks) \subseteq Items(tasks')
    BY <2>1, <2>2
  <2> QED BY <1>0, <2>3 DEF InWork
<1>8. surface'[p] = surface[p] \/ surface[p] = 0
  BY <1>3, <1>4
<1>9. CASE d # e
  <2>1. toClient'[d] = toClient[d]
    BY <1>2, <1>3, <1>4, <1>6, <1>9
  <2> QED BY <1>0, <1>1, <1>7, <1>8, <1>9, <2>1, ServedRests
<1>10. CASE d = e
  <2>1. Online(c, d)
    BY <1>0, <1>1, <1>10, OnlineBefore
  <2>2. user[e] = c /\ user[e] # None
    BY <1>10, <2>1, FeedShape DEF Online
  <2>3. \/ toClient' = toClient
        \/ \E y \in {h, x} :
              /\ Items(toClient'[d]) = Items(toClient[d]) \cup {y}
              /\ y = h => air[q]
              /\ y = x /\ y # h => y.type = "surface"
    BY <1>2, <1>3, <1>4, <1>6, <1>10, <2>2
  <2>4. Items(toClient[d]) \subseteq Items(toClient'[d])
    BY <2>3
  <2>5. SaysAir(d, p)' => SaysAir(d, p) \/ air[p]
    BY <1>2, <2>3 DEF SaysAir
  <2>6. LoginAhead(d)' <=> LoginAhead(d)
    BY <1>1, <1>10 DEF LoginAhead
  <2>7. CASE q # p \/ air[p]
    <3>1. Asked(d, p) => Asked(d, p)' \/ (q = p /\ air[p])
      BY <1>1, <1>5, <1>10, <2>7 DEF Asked
    <3>2. CASE q # p
      BY <1>0, <1>7, <1>8, <2>1, <2>4, <2>5, <2>6, <3>1, <3>2, ServedKept DEF Served
    <3>3. CASE air[p]
      <4>1. ~LoginAhead(d)'
        <5>1. d \in connections
          BY <1>0, <1>10, EventKeeps
        <5> QED BY <1>0, <2>1, <2>6, <5>1, LoginIsAhead
      <4> QED BY <1>0, <3>3, <4>1 DEF Served, AirIsCorrected, AsksBeforeLogin, IsServed
    <3> QED BY <2>7, <3>2, <3>3
  <2>8. CASE q = p /\ ~air[p]
    <3>0. AirIsCorrected(c, d, p)
      BY <2>1 DEF ServedInv, Served
    <3>1. AirIsCorrected(c, d, p)'
      <4>1. SaysGround(d, p) => SaysGround(d, p)'
        BY <2>4 DEF SaysGround
      <4> QED BY <1>0, <2>5, <2>6, <3>0, <4>1 DEF AirIsCorrected
    <3>2. AsksBeforeLogin(c, d, p)'
      <4>1. d \in connections
        BY <1>0, <1>10, EventKeeps
      <4> QED BY <1>0, <2>1, <2>6, <4>1, LoginIsAhead DEF AsksBeforeLogin
    <3>3. IsServed(c, d, p)'
      <4>1. CASE surface[q] > 0 /\ m.version = surface[q] /\ surface' = surface
        <5>1. m.version <= stored[c][p]
          BY <1>1, <1>5, <2>2, <2>8 DEF ServerWire
        <5>2. stored[c][p] \in Nat /\ stored[c][p] <= surface[p]
          BY <1>0, FeedBounds DEF VersionInv, TypeOK, Version, StoredIsOld
        <5>3. stored[c][p] = surface[p]
          BY <1>0, <1>1, <2>8, <4>1, <5>1, <5>2
        <5> QED BY <1>0, <2>8, <4>1, <5>3 DEF IsServed
      <4>2. CASE surface' = Made(q) /\ SendTo(e, <<x>>)
        <5>1. Items(toClient'[d]) = Items(toClient[d]) \cup {x}
          BY <1>4, <1>6, <1>10, <2>2, <4>2
        <5>2. Coming(d, p)'
          BY <1>4, <2>8, <4>2, <5>1 DEF Coming
        <5> QED BY <5>2 DEF IsServed
      <4>3. CASE tasks' = Append(tasks, o)
        <5>1. o \in Items(tasks')
          BY <1>2, <4>3, AddedItem
        <5>2. InWork(d, p)'
          BY <1>10, <2>8, <5>1 DEF InWork, o
        <5> QED BY <5>2 DEF IsServed
      <4> QED BY <1>3, <2>8, <4>1, <4>2, <4>3
    <3> QED BY <3>1, <3>2, <3>3 DEF Served
  <2> QED BY <2>7, <2>8
<1> QED BY <1>9, <1>10

LEMMA ChangeServes ==
    ASSUME ServedInv, NEW q \in Pos, Change(q),
           NEW c \in Clients, NEW d \in Peers, NEW p \in Near
    PROVE  Served(c, d, p)'
<1> SUFFICES ASSUME Online(c, d)' PROVE Served(c, d, p)'
  BY DEF Served
<1> DEFINE m == [type |-> "height", pos |-> q, air |-> FALSE]
           list == [i \in 1 .. Len(SetToSeq(connections)) |->
                       [dest |-> SetToSeq(connections)[i], pos |-> q]]
           Told(e) == air[q] /\ e \in connections /\ user[e] # None
<1>0. /\ air \in [Pos -> BOOLEAN] /\ surface \in [Pos -> Version] /\ p \in Pos
      /\ toClient \in [Peers -> Seq(ToClient)] /\ jobs \in Seq(Order)
      /\ VersionInv
      /\ air' = [air EXCEPT ![q] = FALSE]
      /\ surface' = [surface EXCEPT ![q] = surface[q] + 1]
      /\ toClient' = [e \in Peers |-> IF Told(e) THEN toClient[e] \o <<m>>
                                                 ELSE toClient[e]]
      /\ jobs' = jobs \o list
      /\ UNCHANGED <<user, connections, tasks, task, toServer, height, stored,
                     requests, visible, failures>>
  BY FeedShape DEF Change, ServedInv, VersionInv, TypeOK, NextVersion, Queued,
     poolVars, clientVars
<1>1. Items(jobs') = Items(jobs) \cup {[dest |-> e, pos |-> q] : e \in connections}
  <2>1. /\ list \in Seq(Order)
        /\ Items(list) = {[dest |-> e, pos |-> q] : e \in connections}
    BY <1>0, JobsOfChange
  <2> HIDE DEF list
  <2> QED BY <1>0, <2>1, JoinedItems
<1>2. m \in ToClient /\ m.type = "height" /\ m.pos = q /\ m.air = FALSE
  BY DEF ToClient
<1> HIDE DEF m, list
<1>3. /\ Told(d) => Items(toClient'[d]) = Items(toClient[d]) \cup {m}
      /\ ~Told(d) => toClient'[d] = toClient[d]
  <2> DEFINE t == <<m>>
  <2>1. t \in Seq(ToClient) /\ Items(t) = {m}
    BY <1>2, OneItem
  <2>2. toClient'[d] = IF Told(d) THEN toClient[d] \o t ELSE toClient[d]
    BY <1>0
  <2> HIDE DEF t, Told
  <2>3. Items(toClient[d] \o t) = Items(toClient[d]) \cup {m}
    <3>1. toClient[d] \in Seq(ToClient)
      BY <1>0
    <3> QED BY <2>1, <3>1, JoinedItems
  <2> QED BY <2>2, <2>3
<1>4. Online(c, d)
  BY <1>0 DEF Online
<1>5. /\ InWork(d, p) => InWork(d, p)'
      /\ Asked(d, p)' <=> Asked(d, p)
      /\ LoginAhead(d)' <=> LoginAhead(d)
      /\ SaysAir(d, p)' => SaysAir(d, p)
      /\ SaysGround(d, p) => SaysGround(d, p)'
      /\ Items(toClient[d]) \subseteq Items(toClient'[d])
  <2> HIDE DEF Told
  <2>1. InWork(d, p) => InWork(d, p)'
    BY <1>0, <1>1 DEF InWork
  <2>2. Items(toClient[d]) \subseteq Items(toClient'[d])
    BY <1>3
  <2>3. SaysAir(d, p)' => SaysAir(d, p)
    BY <1>2, <1>3 DEF SaysAir
  <2>4. SaysGround(d, p) => SaysGround(d, p)'
    BY <2>2 DEF SaysGround
  <2> QED BY <1>0, <2>1, <2>2, <2>3, <2>4 DEF Asked, LoginAhead
<1>6. CASE p # q
  <2>1. air'[p] = air[p] /\ surface'[p] = surface[p]
    BY <1>0, <1>6
  <2> QED BY <1>0, <1>4, <1>5, <2>1, ServedKept DEF Served
<1>7. CASE p = q
  <2>0. AirIsCorrected(c, d, p) /\ AsksBeforeLogin(c, d, p)
    BY <1>4 DEF ServedInv, Served
  <2>1. AsksBeforeLogin(c, d, p)'
    BY <1>0, <1>5, <2>0 DEF AsksBeforeLogin
  <2>2. CASE d \in connections
    <3>1. user[d] # None
      BY <1>4, FeedShape DEF Online
    <3>2. InWork(d, p)'
      BY <1>1, <1>7, <2>2 DEF InWork
    <3>3. air[p] => SaysGround(d, p)'
      BY <1>2, <1>3, <1>7, <2>2, <3>1 DEF SaysGround
    <3>4. AirIsCorrected(c, d, p)'
      BY <1>0, <1>5, <2>0, <3>3 DEF AirIsCorrected
    <3> QED BY <2>1, <3>2, <3>4 DEF Served, IsServed
  <2>3. CASE d \notin connections
    <3>1. LoginAhead(d) /\ LoginAhead(d)'
      BY <1>0, <1>4, <1>5, <2>3, LoginIsAhead
    <3>2. AirIsCorrected(c, d, p)'
      BY <3>1 DEF AirIsCorrected
    <3>3. IsServed(c, d, p)'
      BY <1>0, <2>1, <3>1 DEF AsksBeforeLogin, IsServed
    <3> QED BY <2>1, <3>2, <3>3 DEF Served
  <2> QED BY <2>2, <2>3
<1> QED BY <1>6, <1>7

LEMMA JobServes ==
    ASSUME ServedInv, Job,
           NEW c \in Clients, NEW d \in Peers, NEW p \in Near
    PROVE  Served(c, d, p)'
<1> SUFFICES ASSUME Online(c, d)' PROVE Served(c, d, p)'
  BY DEF Served
<1> DEFINE o == Head(jobs)
           q == o.pos
           e == o.dest
           x == SurfaceOf(q, VersionOf(q))
<1>0. /\ jobs \in Seq(Order) /\ jobs # <<>> /\ p \in Pos /\ VersionInv
      /\ SendTo(e, <<x>>) /\ surface' = Made(q)
      /\ jobs' = Tail(jobs)
      /\ UNCHANGED <<air, user, connections, tasks, task, toServer, height, stored,
                     requests, visible, failures, changes>>
  BY FeedShape DEF Job, ServedInv, VersionInv, TypeOK, SendSurface, poolVars,
     clientVars, counters
<1>1. /\ o \in Order /\ Items(jobs) = {o} \cup Items(jobs')
      /\ q \in Pos /\ e \in Peers /\ o = [dest |-> e, pos |-> q]
  <2>1. o \in Order /\ Items(jobs) = {o} \cup Items(jobs')
    BY <1>0, RestOfItems
  <2> QED BY <2>1 DEF Order
<1> HIDE DEF o, q, e
<1>2. /\ surface'[p] = surface[p] \/ surface[p] = 0
      /\ VersionOf(q) = surface'[q] /\ surface'[q] \in Version
  BY <1>0, <1>1, MadeOnce, MadeKeeps
<1>3. x \in ToClient /\ x.type = "surface" /\ x.pos = q /\ x.version = surface'[q]
  BY <1>1, <1>2 DEF SurfaceOf, ToClient
<1> HIDE DEF x
<1>4. /\ \A a \in Peers : a # e => toClient'[a] = toClient[a]
      /\ user[e] # None => Items(toClient'[e]) = Items(toClient[e]) \cup {x}
  <2>1. <<x>> \in Seq(ToClient) /\ Items(<<x>>) = {x}
    BY <1>3, OneItem
  <2> QED BY <1>0, <1>1, <2>1, SentItems
<1>5. Online(c, d)
  BY <1>0 DEF Online
<1>6. d = e => Items(toClient'[d]) = Items(toClient[d]) \cup {x}
  BY <1>4, <1>5, FeedShape DEF Online
<1>7. /\ SaysAir(d, p)' <=> SaysAir(d, p)
      /\ SaysGround(d, p)' <=> SaysGround(d, p)
      /\ Asked(d, p)' <=> Asked(d, p)
      /\ LoginAhead(d)' <=> LoginAhead(d)
      /\ Items(toClient[d]) \subseteq Items(toClient'[d])
  <2>1. CASE d = e
    BY <1>0, <1>3, <1>6, <2>1 DEF SaysAir, SaysGround, Asked, LoginAhead
  <2>2. CASE d # e
    BY <1>0, <1>4, <2>2 DEF SaysAir, SaysGround, Asked, LoginAhead
  <2> QED BY <2>1, <2>2
<1>8. CASE d = e /\ p = q
  <2>0. AirIsCorrected(c, d, p) /\ AsksBeforeLogin(c, d, p)
    BY <1>5 DEF ServedInv, Served
  <2>1. Coming(d, p)'
    BY <1>3, <1>6, <1>8 DEF Coming
  <2>2. AirIsCorrected(c, d, p)' /\ AsksBeforeLogin(c, d, p)'
    BY <1>0, <1>7, <2>0 DEF AirIsCorrected, AsksBeforeLogin
  <2> QED BY <2>1, <2>2 DEF Served, IsServed
<1>9. CASE ~(d = e /\ p = q)
  <2>1. [dest |-> d, pos |-> p] # o
    BY <1>1, <1>9
  <2>2. InWork(d, p) => InWork(d, p)'
    BY <1>0, <1>1, <2>1 DEF InWork
  <2> QED BY <1>0, <1>2, <1>5, <1>7, <2>2, ServedKept DEF Served
<1> QED BY <1>8, <1>9

LEMMA WorkServes ==
    ASSUME ServedInv,
           NoMoreJobs \/ NoEvent \/ Worker \/ UNCHANGED vars,
           NEW c \in Clients, NEW d \in Peers, NEW p \in Near
    PROVE  Served(c, d, p)'
<1> SUFFICES ASSUME Online(c, d)' PROVE Served(c, d, p)'
  BY DEF Served
<1>0. /\ VersionInv /\ jobs \in Seq(Order) /\ tasks \in Seq(Order) /\ p \in Pos
      /\ UNCHANGED <<air, user, toServer, toClient, height, stored, failures,
                     requests, visible>>
  BY FeedShape DEF ServedInv, VersionInv, TypeOK, NoMoreJobs, NoEvent, Worker,
     TakeTask, Prepare, FinishTask, vars, worldVars, netVars, poolVars, wire,
     clientVars, counters
<1>1. CASE NoMoreJobs \/ NoEvent \/ UNCHANGED vars
  <2>1. UNCHANGED <<jobs, tasks, task, surface>>
    BY <1>1 DEF NoMoreJobs, NoEvent, vars, worldVars, netVars, poolVars
  <2>2. InWork(d, p) => InWork(d, p)'
    BY <2>1 DEF InWork
  <2> QED BY <1>0, <2>1, <2>2, ServedRests
<1>2. CASE TakeTask
  <2>1. /\ tasks # <<>> /\ task' = Head(tasks) /\ tasks' = Tail(tasks)
        /\ task = None /\ UNCHANGED <<jobs, surface>>
    BY <1>2 DEF TakeTask, worldVars, netVars
  <2>2. Items(tasks) = {task'} \cup Items(tasks')
    BY <1>0, <2>1, RestOfItems
  <2>3. [dest |-> d, pos |-> p] # None
    BY <1>0, FeedShape
  <2>4. InWork(d, p) => InWork(d, p)'
    BY <2>1, <2>2, <2>3 DEF InWork
  <2> QED BY <1>0, <2>1, <2>4, ServedRests
<1>3. CASE Prepare
  <2>1. /\ surface' = Made(task.pos) /\ task.pos \in Pos
        /\ UNCHANGED <<jobs, tasks, task>>
    BY <1>0, <1>3 DEF Prepare, netVars, VersionInv, TypeOK, Order
  <2>2. surface'[p] = surface[p] \/ surface[p] = 0
    BY <1>0, <2>1, MadeOnce
  <2>3. InWork(d, p) => InWork(d, p)'
    BY <2>1 DEF InWork
  <2> QED BY <1>0, <2>2, <2>3, ServedRests
<1>4. CASE FinishTask
  <2>1. /\ jobs' = Append(jobs, task) /\ task \in Order
        /\ UNCHANGED <<tasks, surface>>
    BY <1>0, <1>4 DEF FinishTask, CallBack, worldVars, VersionInv, TypeOK
  <2>2. Items(jobs') = Items(jobs) \cup {task}
    BY <1>0, <2>1, AddedItem
  <2>3. InWork(d, p) => InWork(d, p)'
    BY <2>1, <2>2 DEF InWork
  <2> QED BY <1>0, <2>1, <2>3, ServedRests
<1> QED BY <1>1, <1>2, <1>3, <1>4 DEF Worker

\* From the first task that fails on, nothing is promised.
LEMMA FailTaskServes ==
    ASSUME ServedInv, FailTask,
           NEW c \in Clients, NEW d \in Peers, NEW p \in Near
    PROVE  Served(c, d, p)'
<1> SUFFICES ASSUME Online(c, d)' PROVE Served(c, d, p)'
  BY DEF Served
<1>0. /\ failures' # 0
      /\ UNCHANGED <<air, user, toServer, toClient, height, stored, requests,
                     visible>>
  BY FeedBounds DEF ServedInv, VersionInv, TypeOK, FailTask, worldVars, netVars,
     wire, clientVars
<1>1. Online(c, d)
  BY <1>0 DEF Online
<1>2. AirIsCorrected(c, d, p) /\ AsksBeforeLogin(c, d, p)
  BY <1>1 DEF ServedInv, Served
<1>3. AirIsCorrected(c, d, p)' /\ AsksBeforeLogin(c, d, p)'
  BY <1>0, <1>2 DEF AirIsCorrected, AsksBeforeLogin, SaysAir, SaysGround, Asked,
     LoginAhead
<1> QED BY <1>0, <1>3 DEF Served, IsServed

LEMMA StepKeepsServed ==
    ASSUME ServedInv, [Next]_vars
    PROVE  ServedInv'
<1>0. VersionInv'
  BY StepKeepsVersions DEF ServedInv
<1> SUFFICES ASSUME NEW c \in Clients, NEW d \in Peers, NEW p \in Near
             PROVE  Served(c, d, p)'
  BY <1>0 DEF ServedInv
<1>1. ASSUME NEW q \in Pos, Change(q) PROVE Served(c, d, p)'
  BY <1>1, ChangeServes
<1>2. ASSUME NEW e \in Peers, Leave(e) PROVE Served(c, d, p)'
  BY <1>2, LeaveServes
<1>3. ASSUME NEW b \in Clients, NEW e \in Peers,
             Connect(b, e) \/ \E q \in Pos : BecomeVisible(b, e, q)
      PROVE  Served(c, d, p)'
  BY <1>3, ConnectServes, BecomeVisibleServes
<1>4. ASSUME NEW e \in Peers, Handler(e) PROVE Served(c, d, p)'
  BY <1>4, LoginServes, DisconnectServes, ReqHeightsServes, ReqChunksServes
     DEF Handler
<1>5. ASSUME NEW b \in Clients, NEW e \in Peers, Client(b, e)
      PROVE  Served(c, d, p)'
  BY <1>5, ReceiveSurfaceServes, ReceiveHeightServes, RequestServes DEF Client
<1>6. CASE Job
  BY <1>6, JobServes
<1>7. CASE NoMoreJobs \/ NoEvent \/ Worker \/ UNCHANGED vars
  BY <1>7, WorkServes
<1>8. CASE FailTask
  BY <1>8, FailTaskServes
<1> QED BY <1>1, <1>2, <1>3, <1>4, <1>5, <1>6, <1>7, <1>8
        DEF Next, Environment, Network

\* Near the spawn point, a client with nothing outstanding about a chunk it
\* saw has the present surface: no update gets lost between the version check
\* of req_chunks(), the worker, the job queue, the heights and the sessions.
\* Where login() sends no heights it may get lost, as the run feed_far shows.
THEOREM VisibleStaysCurrent ==
    ASSUME Near = Pos
    PROVE  Spec => []VisibleIsCurrent
<1>1. Init => ServedInv
  BY ServedAtFirst
<1>2. ServedInv /\ [Next]_vars => ServedInv'
  BY StepKeepsServed
<1>3. ServedInv => VisibleIsCurrent
  <2> SUFFICES ASSUME ServedInv, failures = 0,
                      NEW c \in Clients, NEW d \in Peers, NEW p \in Pos,
                      Online(c, d), p \in visible[c], QuietAbout(c, d, p), ~air[p]
               PROVE  stored[c][p] = surface[p]
    BY DEF VisibleIsCurrent
  <2>1. AirIsCorrected(c, d, p) /\ IsServed(c, d, p)
    BY DEF ServedInv, Served
  <2>2. ~LoginAhead(d) /\ ~Asked(d, p) /\ p \notin requests[c]
    BY DEF QuietAbout, LoginAhead, Asked, Items
  <2>3. ~SaysGround(d, p) /\ ~Coming(d, p)
    BY DEF QuietAbout, SaysGround, Coming, Items
  <2>4. ~InWork(d, p)
    BY DEF QuietAbout, InWork, Items
  <2> QED BY <2>1, <2>2, <2>3, <2>4 DEF AirIsCorrected, IsServed
<1> QED BY <1>1, <1>2, <1>3, PTL DEF Spec
=============================================================================

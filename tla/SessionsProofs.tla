--------------------------- MODULE SessionsProofs ---------------------------
(***************************************************************************)
(* Proofs about Sessions, for any players, peers and entities.             *)
(*                                                                         *)
(* That the maps agree is not inductive: a login must not come from a peer *)
(* that is logged in already or has no time yet, and a slot that is given  *)
(* back must not be remembered anywhere.                                   *)
(***************************************************************************)
EXTENDS Sessions, TLAPS

\* A slot that is free is in none of the maps.
FreeIsForgotten ==
    \A d \in Peers : slot[d] = None =>
        entities[d] = None /\ d \notin clockOffset /\ d \notin arrived
        /\ login[d] = None

\* A peer in use has been greeted, or on_connect() is to come.
UsedIsKnown ==
    \A d \in Peers : slot[d] # None => d \in arrived \/ d \in clockOffset

\* Who has yet to log in is nobody so far.
LoginIsFirst == \A d \in Peers : login[d] # None => entities[d] = None

\* A greeting under way names the entity its client is logged in as.
GreetingFits ==
    \A c \in Clients :
        greeting[c] # None /\ link[c] # None /\ slot[link[c]] = c
            => entities[link[c]] = greeting[c]

\* A program that does not run knows nothing.
NewKnowsNothing ==
    \A c \in Clients : client[c] # "running" =>
        greeting[c] = None /\ known[c] = None /\ link[c] = None

\* Nobody is logged in on a server that is down.
DownIsEmpty == running = FALSE => \A d \in Peers : entities[d] = None

\* The database has one entity for each player too.
SavedOnce ==
    \A e, f \in Entities : savedUid[e] = savedUid[f] /\ savedUid[e] # None => e = f

MapsInv ==
    /\ TypeOK /\ MapsAgree /\ FreeIsForgotten /\ UsedIsKnown /\ LoginIsFirst
    /\ GreetingFits /\ NewKnowsNothing /\ DownIsEmpty

PlayersInv == MapsInv /\ OneEntityEach /\ SavedOnce

-----------------------------------------------------------------------------

\* login() finds the entity of a player, or a new one.
LEMMA EntityFound ==
    ASSUME SessionConstants, NEW c \in Clients, RoomFor(c)
    PROVE  /\ EntityOf(c) \in Entities
           /\ mode # "singleplayer" =>
                 /\ uid[EntityOf(c)] \in {c, None}
                 /\ (\E e \in Entities : uid[e] = c) => uid[EntityOf(c)] = c
<1>1. CASE mode = "singleplayer"
  BY <1>1 DEF SessionConstants, EntityOf
<1>2. CASE mode # "singleplayer" /\ \E e \in Entities : uid[e] = c
  BY <1>2 DEF EntityOf
<1>3. CASE mode # "singleplayer" /\ ~\E e \in Entities : uid[e] = c
  <2>1. \E e \in Entities : uid[e] = None
    BY <1>3 DEF RoomFor
  <2> QED
    BY <1>3, <2>1 DEF EntityOf
<1> QED
  BY <1>1, <1>2, <1>3

-----------------------------------------------------------------------------
(***************************************************************************)
(* Types.                                                                  *)
(***************************************************************************)

LEMMA TypesAtFirst == ASSUME SessionConstants, Init PROVE TypeOK
  BY DEF SessionConstants, Init, TypeOK

\* The actions of the client keep the types.
LEMMA TypesOfPrograms ==
    ASSUME SessionConstants, TypeOK, Programs PROVE TypeOK'
<1>1. ASSUME NEW c \in Clients, Start(c) PROVE TypeOK'
  BY <1>1 DEF SessionConstants, TypeOK, Start, serverVars, mapVars, enetVars, heardVars
<1>2. ASSUME NEW c \in Clients, NEW d \in Peers, NEW method \in Methods,
             Connect(c, d, method)
      PROVE  TypeOK'
  BY <1>2 DEF SessionConstants, TypeOK, Connect, serverVars, mapVars, heardVars, counters
<1>3. ASSUME NEW c \in Clients, TryFails(c) PROVE TypeOK'
  BY <1>3 DEF SessionConstants, TypeOK, TryFails, LastTry, serverVars, mapVars,
              enetVars, heardVars, counters
<1>4. ASSUME NEW c \in Clients, Ends(c), bye' \in SUBSET Peers PROVE TypeOK'
  BY <1>4 DEF SessionConstants, TypeOK, Ends, serverVars, mapVars, counters
<1>5. ASSUME NEW c \in Clients, Quit(c) PROVE TypeOK'
  BY <1>4, <1>5 DEF TypeOK, Quit
<1>6. ASSUME NEW c \in Clients, Drop(c) PROVE TypeOK'
  BY <1>4, <1>6 DEF TypeOK, Drop
<1>7. ASSUME NEW c \in Clients, Receive(c) PROVE TypeOK'
  BY <1>7 DEF SessionConstants, TypeOK, Receive, serverVars, mapVars, enetVars,
              clientVars, counters
<1>8. ASSUME NEW c \in Clients, Notice(c) PROVE TypeOK'
  BY <1>8 DEF SessionConstants, TypeOK, Notice, serverVars, mapVars, enetVars,
              heardVars, counters
<1> QED
  BY <1>1, <1>2, <1>3, <1>5, <1>6, <1>7, <1>8 DEF Programs

\* The actions of the network thread keep the types.
LEMMA TypesOfNetwork ==
    ASSUME SessionConstants, TypeOK, FreeIsForgotten, Network PROVE TypeOK'
<1>1. ASSUME NEW d \in Peers, OnConnect(d) PROVE TypeOK'
  BY <1>1 DEF SessionConstants, TypeOK, OnConnect, serverVars, clientVars,
              heardVars, counters
<1>2. ASSUME NEW d \in Peers, OnDisconnect(d), Free(d),
             UNCHANGED <<serverVars, uid, savedUid, clientVars, heardVars, counters>>
      PROVE  TypeOK'
  BY <1>2 DEF SessionConstants, TypeOK, OnDisconnect, Free, serverVars, clientVars,
              heardVars, counters
<1>3. ASSUME NEW d \in Peers, Disconnect(d) PROVE TypeOK'
  BY <1>2, <1>3 DEF Disconnect
<1>4. ASSUME NEW d \in Peers, Kick(d) PROVE TypeOK'
  BY <1>2, <1>4 DEF Kick, Cut, Kicked
<1>5. ASSUME NEW d \in Peers, Login(d) PROVE TypeOK'
  <2>0. slot[d] \in Clients /\ RoomFor(slot[d])
    BY <1>5 DEF TypeOK, FreeIsForgotten, Login
  <2>1. EntityOf(slot[d]) \in Entities
    BY <2>0, EntityFound
  <2> QED
    BY <1>5, <2>0, <2>1 DEF SessionConstants, TypeOK, Login, Connected, serverVars,
                      clientVars, counters
<1>6. ASSUME SendUpdates PROVE TypeOK'
  <2>1. Reached \subseteq Clients
    BY DEF TypeOK, Reached, Live
  <2> QED
    BY <1>6, <2>1 DEF SessionConstants, TypeOK, SendUpdates, serverVars, enetVars,
                      clientVars, counters
<1> QED
  BY <1>1, <1>3, <1>4, <1>5, <1>6 DEF Network

\* Stops and starts of the server keep the types.
LEMMA TypesOfServer ==
    ASSUME SessionConstants, TypeOK, Stop \/ Crash \/ Boot PROVE TypeOK'
<1>1. ASSUME Down, savedUid' = uid \/ savedUid' = savedUid PROVE TypeOK'
  <2>1. stops' \in 0 .. MaxStops /\ starts' \in 0 .. MaxStarts
    BY <1>1 DEF SessionConstants, TypeOK, Down
  <2>2. running' \in BOOLEAN /\ mode' \in Modes
    BY <1>1 DEF TypeOK, Down
  <2>3. /\ uid' \in [Entities -> Clients \cup {None}]
        /\ savedUid' \in [Entities -> Clients \cup {None}]
    BY <1>1 DEF TypeOK, Down
  <2>4. /\ clockOffset' \in SUBSET Peers
        /\ entities' \in [Peers -> Entities \cup {None}]
        /\ connections' \in [Entities -> Peers \cup {None}]
    BY <1>1 DEF Down
  <2>5. /\ slot' \in [Peers -> Clients \cup {None}]
        /\ arrived' \in SUBSET Peers
        /\ login' \in [Peers -> Methods \cup {None}] /\ bye' \in SUBSET Peers
    BY <1>1 DEF Down
  <2> QED
    BY <1>1, <2>1, <2>2, <2>3, <2>4, <2>5 DEF TypeOK, Down, clientVars, heardVars
<1>2. CASE Stop
  BY <1>1, <1>2 DEF Stop
<1>3. CASE Crash
  BY <1>1, <1>3 DEF Crash
<1>4. CASE Boot
  BY <1>4 DEF TypeOK, Boot, mapVars, enetVars, clientVars, heardVars, counters
<1> QED
  BY <1>2, <1>3, <1>4
-----------------------------------------------------------------------------
(***************************************************************************)
(* The maps.                                                               *)
(***************************************************************************)

LEMMA MapsAtFirst == ASSUME SessionConstants, Init PROVE MapsInv
<1>1. TypeOK
  BY TypesAtFirst
<1> QED
  BY <1>1 DEF SessionConstants, Init, MapsInv, MapsAgree, FreeIsForgotten,
              UsedIsKnown, LoginIsFirst, GreetingFits, NewKnowsNothing, DownIsEmpty

\* The maps apart from their types.
Maps == MapsAgree /\ FreeIsForgotten /\ UsedIsKnown /\ LoginIsFirst
        /\ GreetingFits /\ NewKnowsNothing /\ DownIsEmpty

\* A client changes the maps by nothing, and the slots by connecting.
LEMMA MapsOfPrograms ==
    ASSUME SessionConstants, MapsInv, Programs PROVE Maps'
<1> USE DEF SessionConstants, MapsInv, TypeOK
<1>1. ASSUME NEW c \in Clients, Start(c) PROVE Maps'
  BY <1>1 DEF Maps, MapsAgree, FreeIsForgotten, UsedIsKnown, LoginIsFirst,
      GreetingFits, NewKnowsNothing, DownIsEmpty, Start, serverVars, mapVars,
      enetVars, heardVars
<1>2. ASSUME NEW c \in Clients, NEW d \in Peers, NEW method \in Methods,
             Connect(c, d, method)
      PROVE  Maps'
  BY <1>2 DEF Maps, MapsAgree, FreeIsForgotten, UsedIsKnown, LoginIsFirst,
      GreetingFits, NewKnowsNothing, DownIsEmpty, Connect, serverVars, mapVars,
      heardVars, counters
<1>3. ASSUME NEW c \in Clients, TryFails(c) PROVE Maps'
  BY <1>3 DEF Maps, MapsAgree, FreeIsForgotten, UsedIsKnown, LoginIsFirst,
      GreetingFits, NewKnowsNothing, DownIsEmpty, TryFails, serverVars, mapVars,
      enetVars, heardVars, counters
<1>4. ASSUME NEW c \in Clients, Ends(c) PROVE Maps'
  BY <1>4 DEF Maps, MapsAgree, FreeIsForgotten, UsedIsKnown, LoginIsFirst,
      GreetingFits, NewKnowsNothing, DownIsEmpty, Ends, serverVars, mapVars, counters
<1>5. ASSUME NEW c \in Clients, Receive(c) PROVE Maps'
  BY <1>5 DEF Maps, MapsAgree, FreeIsForgotten, UsedIsKnown, LoginIsFirst,
      GreetingFits, NewKnowsNothing, DownIsEmpty, Receive, serverVars, mapVars,
      enetVars, clientVars, counters
<1>6. ASSUME NEW c \in Clients, Notice(c) PROVE Maps'
  BY <1>6 DEF Maps, MapsAgree, FreeIsForgotten, UsedIsKnown, LoginIsFirst,
      GreetingFits, NewKnowsNothing, DownIsEmpty, Notice, serverVars, mapVars,
      enetVars, heardVars, counters
<1> QED
  BY <1>1, <1>2, <1>3, <1>4, <1>5, <1>6 DEF Programs, Quit, Drop

\* A peer is forgotten where its slot is given back, by event or by hand.
LEMMA MapsWhenFreed ==
    ASSUME SessionConstants, MapsInv, NEW d \in Peers, OnDisconnect(d), Free(d),
           UNCHANGED <<serverVars, uid, savedUid, clientVars, heardVars, counters>>
    PROVE  Maps'
<1> USE DEF SessionConstants, MapsInv, TypeOK
<1>1. MapsAgree'
  BY DEF MapsAgree, FreeIsForgotten, OnDisconnect, Free, clientVars, heardVars
<1>2. (FreeIsForgotten /\ UsedIsKnown /\ LoginIsFirst)'
  BY DEF FreeIsForgotten, UsedIsKnown, LoginIsFirst, OnDisconnect, Free
<1>3. (GreetingFits /\ NewKnowsNothing)'
  BY DEF GreetingFits, NewKnowsNothing, OnDisconnect, Free, clientVars, heardVars
<1>4. DownIsEmpty'
  BY DEF DownIsEmpty, OnDisconnect, serverVars
<1> QED
  BY <1>1, <1>2, <1>3, <1>4 DEF Maps

\* A login enters a peer that was nobody, and takes over the player.
LEMMA MapsAtLogin ==
    ASSUME SessionConstants, MapsInv, NEW d \in Peers, Login(d) PROVE Maps'
<1> USE DEF SessionConstants, MapsInv, TypeOK
<1> DEFINE e == EntityOf(slot[d])
<1>1. slot[d] \in Clients /\ RoomFor(slot[d])
  BY DEF FreeIsForgotten, Login
<1>2. e \in Entities /\ e # None
  BY <1>1, EntityFound
<1>3. entities[d] = None /\ d \in clockOffset
  BY DEF FreeIsForgotten, UsedIsKnown, LoginIsFirst, Login
<1>4. /\ entities' = [entities EXCEPT ![d] = e]
      /\ connections' = [connections EXCEPT ![e] = d]
      /\ greeting' = IF Live(d) THEN [greeting EXCEPT ![slot[d]] = e] ELSE greeting
      /\ login' = [login EXCEPT ![d] = None]
      /\ UNCHANGED <<running, clockOffset, slot, arrived, client, link, known>>
  BY DEF Login, Connected, serverVars, clientVars
<1> HIDE DEF e
<1>5. MapsAgree'
  BY <1>1, <1>2, <1>3, <1>4 DEF MapsAgree, FreeIsForgotten
<1>6. (FreeIsForgotten /\ UsedIsKnown /\ LoginIsFirst)'
  BY <1>1, <1>2, <1>3, <1>4 DEF FreeIsForgotten, UsedIsKnown, LoginIsFirst
<1>7. GreetingFits'
  BY <1>1, <1>2, <1>3, <1>4 DEF GreetingFits, Live
<1>8. NewKnowsNothing'
  BY <1>1, <1>2, <1>3, <1>4 DEF NewKnowsNothing, Live
<1>9. DownIsEmpty'
  BY <1>4 DEF DownIsEmpty, Login
<1> QED
  BY <1>5, <1>6, <1>7, <1>8, <1>9 DEF Maps

LEMMA MapsOfNetwork ==
    ASSUME SessionConstants, MapsInv, Network PROVE Maps'
<1>1. ASSUME NEW d \in Peers, OnConnect(d) PROVE Maps'
  BY <1>1 DEF SessionConstants, MapsInv, TypeOK, Maps, MapsAgree, FreeIsForgotten,
      UsedIsKnown, LoginIsFirst, GreetingFits, NewKnowsNothing, DownIsEmpty,
      OnConnect, serverVars, clientVars, heardVars, counters
<1>2. ASSUME NEW d \in Peers, Disconnect(d) PROVE Maps'
  BY <1>2, MapsWhenFreed DEF Disconnect
<1>3. ASSUME NEW d \in Peers, Kick(d) PROVE Maps'
  BY <1>3, MapsWhenFreed DEF Kick, Cut, Kicked
<1>4. ASSUME NEW d \in Peers, Login(d) PROVE Maps'
  BY <1>4, MapsAtLogin
<1>5. ASSUME SendUpdates PROVE Maps'
  BY <1>5 DEF SessionConstants, MapsInv, TypeOK, Maps, MapsAgree, FreeIsForgotten,
      UsedIsKnown, LoginIsFirst, GreetingFits, NewKnowsNothing, DownIsEmpty,
      SendUpdates, serverVars, enetVars, clientVars, counters
<1> QED
  BY <1>1, <1>2, <1>3, <1>4, <1>5 DEF Network

LEMMA MapsOfServer ==
    ASSUME SessionConstants, MapsInv, Stop \/ Crash \/ Boot PROVE Maps'
<1>1. ASSUME Down PROVE Maps'
  BY <1>1 DEF SessionConstants, MapsInv, TypeOK, Maps, MapsAgree, FreeIsForgotten,
      UsedIsKnown, LoginIsFirst, GreetingFits, NewKnowsNothing, DownIsEmpty, Down,
      clientVars, heardVars
<1>2. ASSUME Boot PROVE Maps'
  BY <1>2 DEF SessionConstants, MapsInv, TypeOK, Maps, MapsAgree, FreeIsForgotten,
      UsedIsKnown, LoginIsFirst, GreetingFits, NewKnowsNothing, DownIsEmpty, Boot,
      mapVars, enetVars, clientVars, heardVars, counters
<1> QED
  BY <1>1, <1>2 DEF Stop, Crash

LEMMA MapsKept ==
    ASSUME SessionConstants, MapsInv, [Next]_vars PROVE MapsInv'
<1>1. CASE Network
  BY <1>1, TypesOfNetwork, MapsOfNetwork DEF MapsInv, Maps
<1>2. CASE Programs
  BY <1>2, TypesOfPrograms, MapsOfPrograms DEF MapsInv, Maps
<1>3. CASE Stop \/ Crash \/ Boot
  BY <1>3, TypesOfServer, MapsOfServer DEF MapsInv, Maps
<1>4. CASE UNCHANGED vars
  BY <1>4 DEF MapsInv, TypeOK, MapsAgree, FreeIsForgotten, UsedIsKnown,
      LoginIsFirst, GreetingFits, NewKnowsNothing, DownIsEmpty, vars, serverVars,
      mapVars, enetVars, clientVars, heardVars, counters
<1> QED
  BY <1>1, <1>2, <1>3, <1>4 DEF Next
-----------------------------------------------------------------------------
(***************************************************************************)
(* The players.                                                            *)
(***************************************************************************)

LEMMA PlayersAtFirst == ASSUME SessionConstants, Init PROVE PlayersInv
<1>1. MapsInv
  BY MapsAtFirst
<1> QED
  BY <1>1 DEF SessionConstants, Init, PlayersInv, OneEntityEach, SavedOnce

\* The entity that a login finds is that of the player and of nobody else.
LEMMA PlayersAtLogin ==
    ASSUME SessionConstants, PlayersInv, NEW d \in Peers, Login(d)
    PROVE  OneEntityEach'
<1> USE DEF SessionConstants, PlayersInv, MapsInv, TypeOK
<1> DEFINE c == slot[d]
           e == EntityOf(slot[d])
<1>1. c \in Clients /\ RoomFor(c) /\ c # None
  BY DEF FreeIsForgotten, Login
<1>2. e \in Entities /\ e # None
  BY <1>1, EntityFound
<1>3. /\ uid' = IF mode = "singleplayer" THEN uid ELSE [uid EXCEPT ![e] = c]
      /\ entities' = [entities EXCEPT ![d] = e]
      /\ mode' = mode /\ slot' = slot
  BY DEF Login, serverVars
<1>4. mode # "singleplayer" =>
         /\ uid[e] \in {c, None}
         /\ \A f \in Entities : uid[f] = c => uid[e] = c
  BY <1>1, EntityFound
<1> HIDE DEF c, e
<1>5. CASE mode = "singleplayer"
  BY <1>3, <1>5 DEF OneEntityEach
<1>6. CASE mode # "singleplayer"
  <2>1. uid' = [uid EXCEPT ![e] = c]
    BY <1>3, <1>6
  <2>2. ASSUME NEW f \in Entities, NEW g \in Entities,
               uid'[f] = uid'[g], uid'[f] # None
        PROVE  f = g
    BY <1>1, <1>2, <1>4, <1>6, <2>1, <2>2 DEF OneEntityEach
  <2>3. ASSUME NEW o \in Peers, entities'[o] # None, mode' = "multiplayer"
        PROVE  uid'[entities'[o]] = slot'[o]
    <3>1. CASE o = d
      BY <1>1, <1>2, <1>3, <2>1, <3>1 DEF c
    <3>2. CASE o # d
      <4>1. entities'[o] = entities[o] /\ entities[o] \in Entities
        BY <1>3, <2>3, <3>2
      <4>2. uid[entities[o]] = slot[o] /\ slot[o] # None
        BY <1>3, <2>3, <4>1 DEF OneEntityEach, FreeIsForgotten
      <4>3. CASE entities[o] = e
        BY <1>2, <1>3, <1>4, <1>6, <2>1, <4>1, <4>2, <4>3
      <4>4. CASE entities[o] # e
        BY <1>2, <1>3, <2>1, <4>1, <4>2, <4>4
      <4> QED
        BY <4>3, <4>4
    <3> QED
      BY <3>1, <3>2
  <2> QED
    BY <2>2, <2>3 DEF OneEntityEach
<1> QED
  BY <1>5, <1>6

LEMMA PlayersKept ==
    ASSUME SessionConstants, PlayersInv, [Next]_vars PROVE PlayersInv'
<1> USE DEF PlayersInv
<1>1. MapsInv'
  BY MapsKept
<1>2. CASE Programs
  <2>1. ASSUME NEW c \in Clients, NEW d \in Peers, NEW method \in Methods,
               Connect(c, d, method)
        PROVE  OneEntityEach' /\ SavedOnce'
    BY <2>1 DEF MapsInv, TypeOK, FreeIsForgotten, OneEntityEach, SavedOnce, Connect,
                serverVars, mapVars
  <2>2. ASSUME UNCHANGED <<serverVars, uid, savedUid, entities, slot>>
        PROVE  OneEntityEach' /\ SavedOnce'
    BY <2>2 DEF OneEntityEach, SavedOnce, serverVars
  <2>3. ASSUME NEW c \in Clients,
               Start(c) \/ TryFails(c) \/ Ends(c) \/ Receive(c) \/ Notice(c)
        PROVE  UNCHANGED <<serverVars, uid, savedUid, entities, slot>>
    BY <2>3 DEF Start, TryFails, Ends, Receive, Notice, mapVars, enetVars
  <2> QED
    BY <1>1, <1>2, <2>1, <2>2, <2>3 DEF Programs, Quit, Drop
<1>3. CASE Network
  <2>1. ASSUME NEW d \in Peers, Login(d) PROVE OneEntityEach' /\ SavedOnce'
    <3>1. savedUid' = savedUid
      BY <2>1 DEF Login
    <3> QED
      BY <2>1, <3>1, PlayersAtLogin DEF SavedOnce
  <2>2. ASSUME NEW d \in Peers, OnDisconnect(d), Free(d),
               UNCHANGED <<serverVars, uid, savedUid>>
        PROVE  OneEntityEach' /\ SavedOnce'
    BY <2>2 DEF MapsInv, TypeOK, OneEntityEach, SavedOnce, OnDisconnect, Free,
                serverVars
  <2>3. ASSUME NEW d \in Peers, OnConnect(d) PROVE OneEntityEach' /\ SavedOnce'
    BY <2>3 DEF OneEntityEach, SavedOnce, OnConnect, serverVars
  <2>4. ASSUME SendUpdates PROVE OneEntityEach' /\ SavedOnce'
    BY <2>4 DEF OneEntityEach, SavedOnce, SendUpdates, serverVars, enetVars
  <2> QED
    BY <1>1, <1>3, <2>1, <2>2, <2>3, <2>4 DEF Network, Disconnect, Kick, Cut, Kicked
<1>4. CASE Stop \/ Crash
  <2>1. Down /\ (savedUid' = uid \/ savedUid' = savedUid)
    BY <1>4 DEF Stop, Crash
  <2> QED
    BY <1>1, <2>1 DEF MapsInv, TypeOK, OneEntityEach, SavedOnce, Down
<1>5. CASE Boot
  BY <1>1, <1>5 DEF MapsInv, TypeOK, DownIsEmpty, OneEntityEach, SavedOnce, Boot,
                    mapVars, enetVars
<1>6. CASE UNCHANGED vars
  BY <1>1, <1>6 DEF OneEntityEach, SavedOnce, vars, serverVars, mapVars, enetVars
<1> QED
  BY <1>2, <1>3, <1>4, <1>5, <1>6 DEF Next

-----------------------------------------------------------------------------
(***************************************************************************)
(* Who loses a connection.                                                 *)
(***************************************************************************)

LEMMA TwinsOnly ==
    ASSUME SessionConstants, MapsInv, [Next]_vars, NEW d \in Peers,
           IsReached(d), slot'[d] # None
    PROVE  \/ IsReached(d)'
           \/ \E o \in Peers \ {d} : entities[d] \in {entities[o], entities'[o]}
<1> USE DEF SessionConstants, MapsInv, TypeOK
<1>1. ASSUME UNCHANGED <<entities, connections>> PROVE IsReached(d)'
  BY <1>1 DEF IsReached
<1>2. ASSUME NEW o \in Peers, OnDisconnect(o), Free(o)
      PROVE  \/ IsReached(d)'
             \/ \E p \in Peers \ {d} : entities[d] = entities[p]
  BY <1>2 DEF IsReached, OnDisconnect, Free
<1>3. ASSUME NEW o \in Peers, Login(o)
      PROVE  \/ IsReached(d)'
             \/ \E p \in Peers \ {d} : entities[d] = entities'[p]
  <2> DEFINE e == EntityOf(slot[o])
  <2>1. o # d
    BY <1>3 DEF IsReached, LoginIsFirst, Login
  <2>2. /\ entities' = [entities EXCEPT ![o] = e]
        /\ connections' = [connections EXCEPT ![e] = o]
    BY <1>3 DEF Login, Connected
  <2> HIDE DEF e
  <2> QED
    BY <2>1, <2>2 DEF IsReached
<1>4. ASSUME Down PROVE FALSE
  BY <1>4 DEF Down
<1>5. CASE Network
  <2>1. ASSUME NEW o \in Peers, OnConnect(o) PROVE UNCHANGED <<entities, connections>>
    BY <2>1 DEF OnConnect
  <2>2. ASSUME SendUpdates PROVE UNCHANGED <<entities, connections>>
    BY <2>2 DEF SendUpdates
  <2> QED
    BY <1>1, <1>2, <1>3, <1>5, <2>1, <2>2 DEF Network, Disconnect, Kick, Cut, Kicked
<1>6. CASE Programs
  BY <1>1, <1>6 DEF Programs, Connect, Start, TryFails, Quit, Drop, Ends, Receive,
                    Notice, mapVars
<1>7. CASE Stop \/ Crash
  BY <1>4, <1>7 DEF Stop, Crash
<1>8. CASE Boot \/ UNCHANGED vars
  BY <1>1, <1>8 DEF Boot, vars, mapVars
<1> QED
  BY <1>5, <1>6, <1>7, <1>8 DEF Next

-----------------------------------------------------------------------------
(***************************************************************************)
(* The theorems.                                                           *)
(***************************************************************************)

LEMMA PlayersAlways == Spec => []PlayersInv
<1>1. Init => PlayersInv
  BY SessionConstants, PlayersAtFirst
<1>2. PlayersInv /\ [Next]_vars => PlayersInv'
  BY SessionConstants, PlayersKept
<1> QED
  BY <1>1, <1>2, PTL DEF Spec

\* Every variable has its type in every reachable state: a login finds an
\* entity, whoever the peer belongs to.
THEOREM SessionsTyped == Spec => []TypeOK
<1>1. PlayersInv => TypeOK
  BY DEF PlayersInv, MapsInv
<1> QED
  BY <1>1, PlayersAlways, PTL

\* The maps of the network thread agree, with each other, with the slots of
\* the host and with what the clients were told, for any number of clients
\* and peers.
THEOREM MapsAlwaysAgree == Spec => []MapsAgree
<1>1. PlayersInv => MapsAgree
  BY DEF PlayersInv, MapsInv
<1> QED
  BY <1>1, PlayersAlways, PTL

\* No player ever has two entities, and no two players share one, over any
\* number of sessions, stops and crashes.
THEOREM OneEntityAlways == Spec => []OneEntityEach
<1>1. PlayersInv => OneEntityEach
  BY DEF PlayersInv
<1> QED
  BY <1>1, PlayersAlways, PTL

\* A peer that is reached stays so until it is freed or meets another peer of
\* the same player.
THEOREM TwinsOnlyAlways == Spec => LostToTwinOnly
<1>1. PlayersInv /\ [Next]_vars =>
        [\A d \in Peers : IsReached(d) /\ slot'[d] # None =>
          \/ IsReached(d)'
          \/ \E o \in Peers \ {d} : entities[d] \in {entities[o], entities'[o]}]_vars
  BY SessionConstants, TwinsOnly DEF PlayersInv
<1> QED
  BY <1>1, PlayersAlways, PTL DEF Spec, LostToTwinOnly
=============================================================================

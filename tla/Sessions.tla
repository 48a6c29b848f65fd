------------------------------ MODULE Sessions ------------------------------
(***************************************************************************)
(* Who is on the server: clients that connect, log in, quit, crash         *)
(* and come back (hexa/client/udp_client.cpp, main_game.cpp), and the      *)
(* three maps by which hexa/server/network.cpp knows them, clock_offset_,  *)
(* entities_ and connections_, over kicks, timeouts and restarts of the    *)
(* server.                                                                 *)
(*                                                                         *)
(* ENet is modelled from how it is used: a connection takes a slot of the  *)
(* host, a peer, and gives it back when it ends; the server hears of a     *)
(* client that is gone by its farewell or by a timeout, long after the     *)
(* client may have come back on another peer.  Handlers run one at a time  *)
(* on the network thread, so each is one action.                           *)
(***************************************************************************)
EXTENDS Naturals

CONSTANTS
    Clients,     \* client programs, each with the uid of its player
    Peers,       \* the slots of the ENet host
    Entities,    \* entities of players, among them 0
    None,        \* no client, no peer, no entity
    Modes,       \* modes the server may run in
    MaxStarts,   \* bound: starts of client programs
    MaxStops     \* bound: stops and crashes of the server

ASSUME SessionConstants ==
    /\ 0 \in Entities
    /\ None \notin Clients /\ None \notin Peers /\ None \notin Entities
    /\ Modes \subseteq {"singleplayer", "multiplayer"}
    /\ MaxStarts \in Nat /\ MaxStops \in Nat

VARIABLES
    mode, running,             \* the server: its mode, is it up?
    uid, savedUid,             \* the player of each entity, and in the database
    clockOffset, entities, connections,    \* the maps of network
    slot, arrived,             \* ENet: the client of each peer; new peers
    login, bye,                \* packets under way from each peer
    client, link,              \* each program, and its peer
    tries,                     \* attempts to connect that failed
    greeting, known,           \* the greeting under way, and received
    updated,                   \* clients that got an entity update
    starts, stops

serverVars == <<mode, running>>
mapVars == <<clockOffset, entities, connections>>
enetVars == <<slot, arrived, login, bye>>
clientVars == <<client, link, tries>>
heardVars == <<greeting, known, updated>>
counters == <<starts, stops>>
vars == <<serverVars, uid, savedUid, mapVars, enetVars, clientVars,
          heardVars, counters>>

Methods == {"singleplayer", "ecdh"}

TypeOK ==
    /\ mode \in Modes /\ running \in BOOLEAN
    /\ uid \in [Entities -> Clients \cup {None}]
    /\ savedUid \in [Entities -> Clients \cup {None}]
    /\ clockOffset \in SUBSET Peers
    /\ entities \in [Peers -> Entities \cup {None}]
    /\ connections \in [Entities -> Peers \cup {None}]
    /\ slot \in [Peers -> Clients \cup {None}]
    /\ arrived \in SUBSET Peers
    /\ login \in [Peers -> Methods \cup {None}] /\ bye \in SUBSET Peers
    /\ client \in [Clients -> {"off", "connecting", "running"}]
    /\ link \in [Clients -> Peers \cup {None}]
    /\ tries \in [Clients -> 0 .. 2]
    /\ greeting \in [Clients -> Entities \cup {None}]
    /\ known \in [Clients -> Entities \cup {None}]
    /\ updated \in SUBSET Clients
    /\ starts \in 0 .. MaxStarts /\ stops \in 0 .. MaxStops

Init ==
    /\ mode \in Modes /\ running = TRUE
    /\ uid = [e \in Entities |-> None]
    /\ savedUid = uid
    /\ clockOffset = {}
    /\ entities = [d \in Peers |-> None]
    /\ connections = [e \in Entities |-> None]
    /\ slot = [d \in Peers |-> None] /\ arrived = {}
    /\ login = [d \in Peers |-> None] /\ bye = {}
    /\ client = [c \in Clients |-> "off"]
    /\ link = [c \in Clients |-> None]
    /\ tries = [c \in Clients |-> 0]
    /\ greeting = [c \in Clients |-> None]
    /\ known = [c \in Clients |-> None]
    /\ updated = {}
    /\ starts = 0 /\ stops = 0

-----------------------------------------------------------------------------
(***************************************************************************)
(* The client.                                                             *)
(***************************************************************************)

\* The peer d is in use, by a client that still holds its end.
Live(d) == slot[d] # None /\ link[slot[d]] = d

\* A new main_game.
Start(c) ==
    /\ client[c] = "off" /\ starts < MaxStarts
    /\ starts' = starts + 1
    /\ client' = [client EXCEPT ![c] = "connecting"]
    /\ UNCHANGED <<serverVars, uid, savedUid, mapVars, enetVars, link,
                   tries, heardVars, stops>>

\* udp_client::connect() resets its peer when the handshake takes too long,
\* and nothing makes a new one: only the first attempt can succeed.
CanConnect(c) == tries[c] = 0

\* The handshake; main_game() goes on with login(), by the method of a client
\* that has launched its server or that of one that was given its name.
Connect(c, d, method) ==
    /\ running /\ client[c] = "connecting" /\ CanConnect(c)
    /\ slot[d] = None
    /\ client' = [client EXCEPT ![c] = "running"]
    /\ link' = [link EXCEPT ![c] = d]
    /\ slot' = [slot EXCEPT ![d] = c]
    /\ arrived' = arrived \cup {d}
    /\ login' = [login EXCEPT ![d] = method]
    /\ UNCHANGED <<serverVars, uid, savedUid, mapVars, bye, tries,
                   heardVars, counters>>

\* main_game() tries three times.
LastTry == 2

\* connect() times out; main_game() throws after the last time.
TryFails(c) ==
    /\ client[c] = "connecting"
    /\ tries' = [tries EXCEPT ![c] = IF @ = LastTry THEN 0 ELSE @ + 1]
    /\ client' = [client EXCEPT ![c] = IF tries[c] = LastTry THEN "off" ELSE @]
    /\ UNCHANGED <<serverVars, uid, savedUid, mapVars, enetVars, link,
                   heardVars, counters>>

\* The program of c ends, and what it has been sent is lost; so may be a
\* login that is under way.
Ends(c) ==
    /\ client[c] = "running"
    /\ client' = [client EXCEPT ![c] = "off"]
    /\ link' = [link EXCEPT ![c] = None]
    /\ greeting' = [greeting EXCEPT ![c] = None]
    /\ known' = [known EXCEPT ![c] = None]
    /\ updated' = updated \ {c}
    /\ \/ UNCHANGED login
       \/ login' = [d \in Peers |->
             IF slot[d] = c /\ link[c] = d THEN None ELSE login[d]]
    /\ UNCHANGED <<serverVars, uid, savedUid, mapVars, slot, arrived,
                   tries, counters>>

\* udp_client::disconnect(), called by the destructor.
Quit(c) ==
    /\ Ends(c)
    /\ bye' = bye \cup {d \in Peers : slot[d] = c /\ link[c] = d}

\* A crash, or a network that fails until the player starts again.
Drop(c) == Ends(c) /\ UNCHANGED bye

\* main_game::greeting()
Receive(c) ==
    /\ client[c] = "running" /\ greeting[c] # None
    /\ known' = [known EXCEPT ![c] = greeting[c]]
    /\ greeting' = [greeting EXCEPT ![c] = None]
    /\ UNCHANGED <<serverVars, uid, savedUid, mapVars, enetVars,
                   clientVars, updated, counters>>

\* The client's peer is told of its end, or times out.  on_disconnect() is
\* not overridden: the program runs on.
Notice(c) ==
    /\ client[c] = "running" /\ link[c] # None /\ slot[link[c]] # c
    /\ greeting[c] = None
    /\ link' = [link EXCEPT ![c] = None]
    /\ UNCHANGED <<serverVars, uid, savedUid, mapVars, enetVars, client,
                   tries, heardVars, counters>>

-----------------------------------------------------------------------------
(***************************************************************************)
(* The network thread.                                                     *)
(***************************************************************************)

\* network::on_connect()
OnConnect(d) ==
    /\ running /\ d \in arrived
    /\ arrived' = arrived \ {d}
    /\ clockOffset' = IF entities[d] # None THEN clockOffset
                      ELSE clockOffset \cup {d}
    /\ UNCHANGED <<serverVars, uid, savedUid, entities, connections,
                   slot, login, bye, clientVars, heardVars, counters>>

\* (Slip: a peer that is not logged in counts as player 0.)
ForgetDefault(d) ==
    /\ clockOffset' = clockOffset \ {d}
    /\ entities' = [entities EXCEPT ![d] = None]
    /\ connections' = [e \in Entities |->
           IF e = entities[d] \/ (entities[d] = None /\ e = 0) THEN None
           ELSE connections[e]]

\* network::on_disconnect(): whatever connection the player has is dropped,
\* this one or a newer one.
OnDisconnect(d) ==
    /\ clockOffset' = clockOffset \ {d}
    /\ entities' = [entities EXCEPT ![d] = None]
    /\ connections' = [e \in Entities |->
           IF e = entities[d] THEN None ELSE connections[e]]

\* ENet gives the slot of d back.
Free(d) ==
    /\ slot' = [slot EXCEPT ![d] = None]
    /\ arrived' = arrived \ {d}
    /\ login' = [login EXCEPT ![d] = None]
    /\ bye' = bye \ {d}

\* A farewell, or the answers have failed to come for too long.
Disconnect(d) ==
    /\ running /\ slot[d] # None /\ ~Live(d)
    /\ d \in bye => d \notin arrived /\ login[d] = None
    /\ OnDisconnect(d)
    /\ Free(d)
    /\ UNCHANGED <<serverVars, uid, savedUid, clientVars, heardVars,
                   counters>>

\* The login method fits the mode the server runs in.
Fits(method) == (method = "singleplayer") <=> (mode = "singleplayer")

\* (Slip: the peer is left to its client.)
LeftOpen(d) ==
    /\ login' = [login EXCEPT ![d] = None]
    /\ UNCHANGED <<slot, arrived, bye>>

\* udp_server::disconnect()
Cut(d) == Free(d)

\* (Slip: the peer is reset, and no event will tell of it.)
ResetOnly(d) == UNCHANGED mapVars

\* kick_player(): the peer is reset at once, which also throws away the
\* message that has just been queued for it; no event follows, so
\* on_disconnect() is called by hand.
Kicked(d) == OnDisconnect(d)

Kick(d) ==
    /\ running /\ login[d] # None /\ d \notin arrived
    /\ ~Fits(login[d])
    /\ Cut(d) /\ Kicked(d)
    /\ UNCHANGED <<serverVars, uid, savedUid, clientVars, heardVars,
                   counters>>

\* (Slip: every login is taken for a new player.)
AlwaysNew(c) ==
    IF mode = "singleplayer" THEN 0
    ELSE CHOOSE e \in Entities : uid[e] = None

\* The entity login() finds for the player of c, or makes.
EntityOf(c) ==
    IF mode = "singleplayer" THEN 0
    ELSE IF \E e \in Entities : uid[e] = c
         THEN CHOOSE e \in Entities : uid[e] = c
         ELSE CHOOSE e \in Entities : uid[e] = None

\* The bound on entities that have a uid is never reached by the players of
\* Clients; without one a new entity could always be made.
RoomFor(c) ==
    mode = "singleplayer" \/ \E e \in Entities : uid[e] \in {c, None}

\* The last peer to log in as a player is the one it is reached by.
Connected(e, d) == [connections EXCEPT ![e] = d]

\* network::login().  The greeting reaches a client that holds its end.
Login(d) ==
    /\ running /\ login[d] # None /\ d \notin arrived
    /\ Fits(login[d]) /\ RoomFor(slot[d])
    /\ login' = [login EXCEPT ![d] = None]
    /\ LET c == slot[d]
           e == EntityOf(c)
       IN  /\ uid' = IF mode = "singleplayer" THEN uid
                     ELSE [uid EXCEPT ![e] = c]
           /\ entities' = [entities EXCEPT ![d] = e]
           /\ connections' = Connected(e, d)
           /\ greeting' = IF Live(d)
                 THEN [greeting EXCEPT ![c] = e]
                 ELSE greeting
    /\ UNCHANGED <<serverVars, savedUid, clockOffset, slot, arrived, bye,
                   clientVars, known, updated, counters>>

\* (Slip: entity 0 is nobody's.)
ReachedButZero == {slot[connections[e]] : e \in {f \in Entities \ {0} :
                       connections[f] # None /\ Live(connections[f])}}

\* The clients behind connections_.
Reached == {slot[connections[e]] : e \in {f \in Entities :
                connections[f] # None /\ Live(connections[f])}}

\* Every now and then network::run() sends the state of the entities to all
\* connections, each with a time of its own.
SendUpdates ==
    /\ running
    /\ clockOffset' = clockOffset \cup
           {connections[e] : e \in {f \in Entities : connections[f] # None}}
    /\ updated' = updated \cup Reached
    /\ UNCHANGED <<serverVars, uid, savedUid, entities, connections,
                   enetVars, clientVars, greeting, known, counters>>

-----------------------------------------------------------------------------
(***************************************************************************)
(* Stops of the server.                                                    *)
(***************************************************************************)

Down ==
    /\ running /\ stops < MaxStops
    /\ stops' = stops + 1
    /\ running' = FALSE
    /\ clockOffset' = {}
    /\ entities' = [d \in Peers |-> None]
    /\ connections' = [e \in Entities |-> None]
    /\ slot' = [d \in Peers |-> None] /\ arrived' = {}
    /\ login' = [d \in Peers |-> None] /\ bye' = {}
    /\ UNCHANGED <<mode, uid, clientVars, heardVars, starts>>

\* The end of main(): the entities are saved.
Stop ==
    /\ Down
    /\ savedUid' = uid

Crash ==
    /\ Down
    /\ UNCHANGED savedUid

\* main() retrieves the entities.
Boot ==
    /\ ~running
    /\ running' = TRUE
    /\ uid' = savedUid
    /\ UNCHANGED <<mode, savedUid, mapVars, enetVars, clientVars, heardVars,
                   counters>>

-----------------------------------------------------------------------------

Network == \/ SendUpdates
           \/ \E d \in Peers :
                 OnConnect(d) \/ Disconnect(d) \/ Kick(d) \/ Login(d)

Programs == \E c \in Clients :
    \/ \E d \in Peers, method \in Methods : Connect(c, d, method)
    \/ Start(c) \/ TryFails(c) \/ Quit(c) \/ Drop(c) \/ Receive(c) \/ Notice(c)

Next == Network \/ Programs \/ Stop \/ Crash \/ Boot

Spec == Init /\ [][Next]_vars

\* poll() serves the peers in turn, and ENet ends those that are dead; the
\* loop of the network thread and that of the client's background thread
\* turn for ever.
FairSpec ==
    /\ Spec
    /\ \A d \in Peers : WF_vars(OnConnect(d)) /\ WF_vars(Kick(d))
                        /\ WF_vars(Login(d)) /\ WF_vars(Disconnect(d))
    /\ WF_vars(SendUpdates)
    /\ \A c \in Clients : WF_vars(Receive(c)) /\ WF_vars(Notice(c))

-----------------------------------------------------------------------------
(***************************************************************************)
(* Properties.                                                             *)
(***************************************************************************)

\* The three maps agree with each other and with ENet: what they say is said
\* of peers that are in use, a peer that is logged in has a time, and a
\* player is reached by a peer that is logged in as that player.  Otherwise
\* the updates and surfaces of one player go to whoever has the slot now.  A
\* client that is still connected is logged in as the entity it was told.
MapsAgree ==
    /\ \A d \in clockOffset : slot[d] # None
    /\ \A d \in Peers : entities[d] # None => d \in clockOffset
    /\ \A e \in Entities :
          connections[e] # None => entities[connections[e]] = e
    /\ \A c \in Clients :
          known[c] # None /\ link[c] # None /\ slot[link[c]] = c
             => entities[link[c]] = known[c]

\* A player has one entity, over sessions and restarts (login() traces "ERROR:
\* Found more than one" otherwise), and nobody else is logged in as it.
OneEntityEach ==
    /\ \A e, f \in Entities : uid[e] = uid[f] /\ uid[e] # None => e = f
    /\ \A d \in Peers : entities[d] # None /\ mode = "multiplayer"
          => uid[entities[d]] = slot[d]

\* A peer that is logged in and reached.
IsReached(d) == entities[d] # None /\ connections[entities[d]] = d

\* A peer that is reached is so until it is freed, unless another peer is
\* logged in as the same player before or after: only a second session of the
\* same player can cost a player its updates.
LostToTwinOnly ==
    [][\A d \in Peers : IsReached(d) /\ slot'[d] # None =>
          \/ IsReached(d)'
          \/ \E o \in Peers \ {d} : entities[d] \in {entities[o], entities'[o]}]_vars

\* A client that has connected is greeted, or finds itself disconnected: its
\* login is not forgotten by kicks, timeouts and restarts.
LoginEnds ==
    \A c \in Clients : client[c] = "running"
        ~> (known[c] # None \/ link[c] = None)

\* A client that has been greeted gets updates as long as it is connected and
\* has not had its connection taken by a second session.
UpdatesCome ==
    \A c \in Clients : (known[c] # None /\ client[c] = "running")
        ~> (c \in updated \/ link[c] = None \/ ~IsReached(link[c]))
=============================================================================

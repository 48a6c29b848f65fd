---------------------------- MODULE SurfaceFeed ----------------------------
(***************************************************************************)
(* How surfaces reach the clients: the main loop, the packet handlers and  *)
(* the job queue of hexa/server/network.cpp, the worker it hands terrain   *)
(* to, and on the other side the requests and the stored data of           *)
(* hexa/client/main_game.cpp and chunk_cache.cpp.                          *)
(*                                                                         *)
(* The world is reduced to what the feed can see of it: whether a chunk is *)
(* above the coarse height of its column, and the version of its surface,  *)
(* 0 when it has not been made.  Its light map is made and sent with it    *)
(* (World!LightsFit).  Blocks are changed by scripts, which run on the     *)
(* network thread; the worker only makes surfaces that are missing.  So a  *)
(* packet handler is one action: nothing it reads can change under it but  *)
(* a surface it found missing, and then it asks the worker for it.         *)
(*                                                                         *)
(* Every packet modelled is sent reliably on channel 0, so that the two    *)
(* channels of a peer deliver in order; a peer is a slot of the ENet host  *)
(* and is used again after a disconnect.                                   *)
(***************************************************************************)
EXTENDS Naturals, FiniteSets, Sequences, SequencesExt

CONSTANTS
    Clients,       \* client programs, each with a store of its own
    Peers,         \* the slots of the ENet host
    Pos,           \* chunk positions
    HighUp,        \* those above the coarse height in the beginning
    Near,          \* those in the columns login() sends the heights of
    None,          \* no client, no peer, no task
    MaxChanges,    \* bound: block changes
    MaxSessions,   \* bound: connections made
    MaxVisible,    \* bound: chunks that come into view
    MaxFailures    \* bound: tasks that end with an exception

ASSUME FeedShape ==
    /\ HighUp \subseteq Pos /\ Near \subseteq Pos
    /\ IsFiniteSet(Near) /\ IsFiniteSet(Peers)
    /\ None \notin Clients /\ None \notin [dest : Peers, pos : Pos]

ASSUME FeedBounds ==
    /\ MaxChanges \in Nat /\ MaxSessions \in Nat
    /\ MaxVisible \in Nat /\ MaxFailures \in Nat

VARIABLES
    air, surface,         \* the world: above the height?  version of surface
    user,                 \* the client behind each peer
    connections,          \* peers that are logged in
    jobs, draining,       \* the job queue, and the loop that empties it
    tasks, task, made,    \* the pool: queue, task in progress, prepared?
    toServer, toClient,   \* packets under way, for each peer
    height, stored,       \* the store of each client: heights and versions
    requests, visible,    \* requests_, and what came into view so far
    changes, sessions, views, failures

worldVars == <<air, surface>>
netVars == <<user, connections, jobs, draining>>
poolVars == <<tasks, task, made>>
wire == <<toServer, toClient>>
clientVars == <<height, stored, requests, visible>>
counters == <<changes, sessions, views, failures>>
vars == <<worldVars, netVars, poolVars, wire, clientVars, counters>>

Order == [dest : Peers, pos : Pos]
Version == 0 .. MaxChanges + 1
ToServer == [type : {"login", "bye"}, pos : {None}]
            \cup [type : {"heights"}, pos : Pos]
            \cup [type : {"surfaces"}, pos : Pos, version : Version]
ToClient == [type : {"height"}, pos : Pos, air : BOOLEAN]
            \cup [type : {"surface"}, pos : Pos, version : Version]

TypeOK ==
    /\ air \in [Pos -> BOOLEAN] /\ surface \in [Pos -> Version]
    /\ user \in [Peers -> Clients \cup {None}]
    /\ connections \in SUBSET Peers
    /\ jobs \in Seq(Order) /\ draining \in BOOLEAN
    /\ tasks \in Seq(Order) /\ task \in Order \cup {None} /\ made \in BOOLEAN
    /\ toServer \in [Peers -> Seq(ToServer)]
    /\ toClient \in [Peers -> Seq(ToClient)]
    /\ height \in [Clients -> [Pos -> {"unknown", "air", "ground"}]]
    /\ stored \in [Clients -> [Pos -> Version]]
    /\ requests \in [Clients -> SUBSET Pos]
    /\ visible \in [Clients -> SUBSET Pos]
    /\ changes \in 0 .. MaxChanges /\ sessions \in 0 .. MaxSessions
    /\ views \in 0 .. MaxVisible /\ failures \in 0 .. MaxFailures

Init ==
    /\ air = [p \in Pos |-> p \in HighUp]
    /\ surface = [p \in Pos |-> 0]
    /\ user = [d \in Peers |-> None]
    /\ connections = {}
    /\ jobs = <<>> /\ draining = FALSE
    /\ tasks = <<>> /\ task = None /\ made = FALSE
    /\ toServer = [d \in Peers |-> <<>>]
    /\ toClient = [d \in Peers |-> <<>>]
    /\ height = [c \in Clients |-> [p \in Pos |-> "unknown"]]
    /\ stored = [c \in Clients |-> [p \in Pos |-> 0]]
    /\ requests = [c \in Clients |-> {}]
    /\ visible = [c \in Clients |-> {}]
    /\ changes = 0 /\ sessions = 0 /\ views = 0 /\ failures = 0

-----------------------------------------------------------------------------
(***************************************************************************)
(* Packets.                                                                *)
(***************************************************************************)

\* (Slip: an unsequenced packet may overtake those under way.)
Overtaking(queue, packets) == packets \o queue

\* udp_server::send().
Queued(queue, packets) == queue \o packets

\* What a packet sent to a peer that nobody uses leads to: nothing.
SendTo(d, packets) ==
    toClient' = IF user[d] = None THEN toClient
                ELSE [toClient EXCEPT ![d] = Queued(@, packets)]

SurfaceOf(p, version) == [type |-> "surface", pos |-> p, version |-> version]
HeightOf(p) == [type |-> "height", pos |-> p, air |-> air[p]]

\* get_compressed_surface() makes the first version of a missing surface.
VersionOf(p) == IF surface[p] = 0 THEN 1 ELSE surface[p]
Made(p) == [surface EXCEPT ![p] = VersionOf(p)]

\* network::send_surface()
SendSurface(p, d) ==
    /\ surface' = Made(p)
    /\ SendTo(d, <<SurfaceOf(p, VersionOf(p))>>)

-----------------------------------------------------------------------------
(***************************************************************************)
(* The client.                                                             *)
(***************************************************************************)

\* on_connect() of the server only sends definitions; the client's first
\* packet is its login.
Connect(c, d) ==
    /\ sessions < MaxSessions
    /\ user[d] = None
    /\ \A e \in Peers : user[e] # c
    /\ sessions' = sessions + 1
    /\ user' = [user EXCEPT ![d] = c]
    /\ toServer' = [toServer EXCEPT ![d] = <<[type |-> "login", pos |-> None]>>]
    /\ requests' = [requests EXCEPT ![c] = {}]
    /\ visible' = [visible EXCEPT ![c] = {}]
    /\ UNCHANGED <<worldVars, connections, jobs, draining, poolVars, toClient,
                   height, stored, changes, views, failures>>

\* The player leaves or the connection times out.  Packets that were under
\* way are lost, those to the server from some point on.
Leave(d) ==
    /\ user[d] # None
    /\ \A i \in 1 .. Len(toServer[d]) : toServer[d][i].type # "bye"
    /\ \E k \in 0 .. Len(toServer[d]) :
          toServer' = [toServer EXCEPT
              ![d] = Append(SubSeq(@, 1, k), [type |-> "bye", pos |-> None])]
    /\ toClient' = [toClient EXCEPT ![d] = <<>>]
    /\ UNCHANGED <<worldVars, netVars, poolVars, clientVars, counters>>

\* The client behind a peer that has not left.
Online(c, d) ==
    /\ user[d] = c
    /\ \A i \in 1 .. Len(toServer[d]) : toServer[d][i].type # "bye"

\* scene::chunk_became_visible() asks for the chunk, even if it is stored.
BecomeVisible(c, d, p) ==
    /\ Online(c, d)
    /\ views < MaxVisible
    /\ views' = views + 1
    /\ visible' = [visible EXCEPT ![c] = @ \cup {p}]
    /\ requests' = [requests EXCEPT ![c] = @ \cup {p}]
    /\ UNCHANGED <<worldVars, netVars, poolVars, wire, height, stored,
                   changes, sessions, failures>>

\* What bg_thread() sends for a request: the version it has, and 0 as long
\* as it does not know the height, which it asks for too; nothing for a chunk
\* it takes for air.
RequestFor(c, p) ==
    IF height[c][p] = "air" THEN <<>>
    ELSE IF height[c][p] = "unknown"
    THEN <<[type |-> "heights", pos |-> p],
           [type |-> "surfaces", pos |-> p, version |-> 0]>>
    ELSE <<[type |-> "surfaces", pos |-> p, version |-> stored[c][p]]>>

Request(c, d, p) ==
    /\ Online(c, d)
    /\ p \in requests[c]
    /\ requests' = [requests EXCEPT ![c] = @ \ {p}]
    /\ toServer' = [toServer EXCEPT ![d] = Queued(@, RequestFor(c, p))]
    /\ UNCHANGED <<worldVars, netVars, poolVars, toClient, height, stored,
                   visible, counters>>

\* main_game::surface_update() stores whatever it gets.
ReceiveSurface(c, d) ==
    /\ Online(c, d)
    /\ toClient[d] # <<>>
    /\ LET m == Head(toClient[d]) IN
          /\ m.type = "surface"
          /\ stored' = [stored EXCEPT ![c][m.pos] = m.version]
    /\ toClient' = [toClient EXCEPT ![d] = Tail(@)]
    /\ UNCHANGED <<worldVars, netVars, poolVars, toServer, height, requests,
                   visible, counters>>

\* (Slip: a chunk that was air when it came into view is let go.)
AsksNothing(c, m) == {}

\* When the height has risen over a chunk, scene::set_coarse_height() queries
\* its visibility anew; the query is taken to succeed for a chunk that came
\* into view before.
AsksAgain(c, m) ==
    {p \in visible[c] : p = m.pos /\ ~m.air /\ height[c][p] # "ground"}

\* main_game::heightmap_update()
ReceiveHeight(c, d) ==
    /\ Online(c, d)
    /\ toClient[d] # <<>>
    /\ LET m == Head(toClient[d]) IN
          /\ m.type = "height"
          /\ height' = [height EXCEPT
                           ![c][m.pos] = IF m.air THEN "air" ELSE "ground"]
          /\ requests' = [requests EXCEPT ![c] = @ \cup AsksAgain(c, m)]
    /\ toClient' = [toClient EXCEPT ![d] = Tail(@)]
    /\ UNCHANGED <<worldVars, netVars, poolVars, toServer, stored, visible,
                   counters>>

-----------------------------------------------------------------------------
(***************************************************************************)
(* The network thread.  Every turn of its loop handles one event, if there *)
(* is one, and then empties the job queue.                                 *)
(***************************************************************************)

\* One event of poll(); a handler goes on from here.
Event(d, type) ==
    /\ ~draining
    /\ toServer[d] # <<>> /\ Head(toServer[d]).type = type
    /\ toServer' = [toServer EXCEPT ![d] = Tail(@)]
    /\ draining' = TRUE

\* login(): the greeting, the heights around the spawn point, and a task for
\* the chunk there or below it, which may be one of Pos.
Login(d) ==
    /\ Event(d, "login")
    /\ connections' = connections \cup {d}
    /\ SendTo(d, [i \in 1 .. Len(SetToSeq(Near)) |-> HeightOf(SetToSeq(Near)[i])])
    /\ \/ \E p \in Near : ~air[p] /\ tasks' = Append(tasks, [dest |-> d, pos |-> p])
       \/ UNCHANGED tasks
    /\ UNCHANGED <<worldVars, user, jobs, task, made, clientVars, counters>>

\* on_disconnect(): the peer can be used again.
Disconnect(d) ==
    /\ Event(d, "bye")
    /\ connections' = connections \ {d}
    /\ user' = [user EXCEPT ![d] = None]
    /\ toClient' = [toClient EXCEPT ![d] = <<>>]
    /\ UNCHANGED <<worldVars, jobs, poolVars, clientVars, counters>>

\* req_heights()
ReqHeights(d) ==
    /\ Event(d, "heights")
    /\ SendTo(d, <<HeightOf(Head(toServer[d]).pos)>>)
    /\ UNCHANGED <<worldVars, user, connections, jobs, poolVars, clientVars,
                   counters>>

\* (Slip: any version the client has will do.)
HasAny(p, version) == version > 0

\* req_chunks() passes over a client that has the present version.
UpToDate(p, version) == surface[p] > 0 /\ version = surface[p]

\* req_chunks(), for one of the positions.
ReqChunks(d) ==
    /\ Event(d, "surfaces")
    /\ LET p == Head(toServer[d]).pos
           version == Head(toServer[d]).version
       IN  \/ /\ air[p]
              /\ SendTo(d, <<HeightOf(p)>>)
              /\ UNCHANGED <<surface, tasks>>
           \/ /\ ~air[p] /\ UpToDate(p, version)
              /\ UNCHANGED <<surface, toClient, tasks>>
           \/ /\ ~air[p] /\ ~UpToDate(p, version) /\ surface[p] > 0
              /\ SendSurface(p, d)
              /\ UNCHANGED tasks
           \/ /\ ~air[p] /\ ~UpToDate(p, version) /\ surface[p] = 0
              /\ tasks' = Append(tasks, [dest |-> d, pos |-> p])
              /\ UNCHANGED <<surface, toClient>>
    /\ UNCHANGED <<air, user, connections, jobs, task, made, clientVars,
                   counters>>

\* The version commit_write() gives to a rebuilt surface.
NextVersion(p) == surface[p] + 1

\* A script changes a block, on a packet of some player, and commit_write()
\* comes to the chunk at p: on_update_coarse_height() sends the new height to
\* every connection at once, on_update_surface() puts a job on the queue for
\* each of them.
Change(p) ==
    /\ ~draining
    /\ \E d \in Peers : user[d] # None
    /\ changes < MaxChanges
    /\ changes' = changes + 1
    /\ air' = [air EXCEPT ![p] = FALSE]
    /\ surface' = [surface EXCEPT ![p] = NextVersion(p)]
    /\ toClient' = [d \in Peers |->
           IF air[p] /\ d \in connections /\ user[d] # None
           THEN Queued(toClient[d],
                       <<[type |-> "height", pos |-> p, air |-> FALSE]>>)
           ELSE toClient[d]]
    /\ jobs' = jobs \o [i \in 1 .. Len(SetToSeq(connections)) |->
                           [dest |-> SetToSeq(connections)[i], pos |-> p]]
    /\ draining' = TRUE
    /\ UNCHANGED <<user, connections, poolVars, toServer, clientVars,
                   sessions, views, failures>>

\* A job of type surface_and_lightmap: the surface as it is now goes to the
\* peer the job was made for, whoever uses it now.
Job ==
    /\ draining
    /\ jobs # <<>>
    /\ SendSurface(Head(jobs).pos, Head(jobs).dest)
    /\ jobs' = Tail(jobs)
    /\ UNCHANGED <<air, user, connections, draining, poolVars, toServer,
                   clientVars, counters>>

NoMoreJobs ==
    /\ draining
    /\ jobs = <<>>
    /\ draining' = FALSE
    /\ UNCHANGED <<worldVars, user, connections, jobs, poolVars, wire,
                   clientVars, counters>>

\* poll() without an event; the jobs are looked at all the same.
NoEvent ==
    /\ ~draining
    /\ jobs # <<>>
    /\ draining' = TRUE
    /\ UNCHANGED <<worldVars, user, connections, jobs, poolVars, wire,
                   clientVars, counters>>

-----------------------------------------------------------------------------
(***************************************************************************)
(* The worker: prepare_for_player(), then send_surface_queue().            *)
(***************************************************************************)

TakeTask ==
    /\ task = None /\ tasks # <<>>
    /\ task' = Head(tasks) /\ tasks' = Tail(tasks)
    /\ UNCHANGED <<worldVars, netVars, made, wire, clientVars, counters>>

Prepare ==
    /\ task # None /\ ~made
    /\ surface' = Made(task.pos)
    /\ made' = TRUE
    /\ UNCHANGED <<air, netVars, tasks, task, wire, clientVars, counters>>

\* (Slip: nobody is called back.)
NoCallBack(order) == jobs

CallBack(order) == Append(jobs, order)

FinishTask ==
    /\ task # None /\ made
    /\ jobs' = CallBack(task)
    /\ task' = None /\ made' = FALSE
    /\ UNCHANGED <<worldVars, user, connections, draining, tasks, wire,
                   clientVars, counters>>

\* A generator throws; the exception ends in a future that nobody asks.
FailTask ==
    /\ task # None /\ ~made
    /\ failures < MaxFailures
    /\ failures' = failures + 1
    /\ task' = None
    /\ UNCHANGED <<worldVars, netVars, tasks, made, wire, clientVars, changes,
                   sessions, views>>

-----------------------------------------------------------------------------

Handler(d) == Login(d) \/ Disconnect(d) \/ ReqHeights(d) \/ ReqChunks(d)

Network == (\E d \in Peers : Handler(d)) \/ Job \/ NoMoreJobs \/ NoEvent

Worker == TakeTask \/ Prepare \/ FinishTask

Client(c, d) == \/ ReceiveSurface(c, d) \/ ReceiveHeight(c, d)
                \/ \E p \in Pos : Request(c, d, p)

Environment ==
    \/ \E p \in Pos : Change(p)
    \/ \E d \in Peers : Leave(d)
    \/ \E c \in Clients, d \in Peers :
          Connect(c, d) \/ \E p \in Pos : BecomeVisible(c, d, p)
    \/ FailTask

Next ==
    \/ Environment
    \/ Network
    \/ Worker
    \/ \E c \in Clients, d \in Peers : Client(c, d)

Spec == Init /\ [][Next]_vars

\* The network thread, the worker and the client's background thread run in
\* loops; poll() serves the peers in turn.
FairSpec ==
    /\ Spec
    /\ WF_vars(Job) /\ WF_vars(NoMoreJobs) /\ WF_vars(NoEvent)
    /\ \A d \in Peers : SF_vars(Handler(d))
    /\ WF_vars(Worker)
    /\ \A c \in Clients, d \in Peers : WF_vars(Client(c, d))
-----------------------------------------------------------------------------
(***************************************************************************)
(* Properties.                                                             *)
(***************************************************************************)

\* Nothing under way between the server and the client behind d is about p.
QuietAbout(c, d, p) ==
    /\ p \notin requests[c]
    /\ \A i \in 1 .. Len(toServer[d]) : toServer[d][i].type # "login"
    /\ \A i \in 1 .. Len(toServer[d]) : toServer[d][i].pos # p
    /\ \A i \in 1 .. Len(toClient[d]) : toClient[d][i].pos # p
    /\ \A i \in 1 .. Len(jobs) : jobs[i] # [dest |-> d, pos |-> p]
    /\ \A i \in 1 .. Len(tasks) : tasks[i] # [dest |-> d, pos |-> p]
    /\ task # [dest |-> d, pos |-> p]

\* A client that saw a chunk come into view, and has nothing outstanding
\* about it, has the present surface: an update is never lost between the
\* version check, the worker, the job queue and the sessions.  It is what the
\* comment in scene::chunk_became_visible() says of the request: that it is
\* made "just in case there's a newer version available".  (The answer to a
\* task that fails is lost, and nothing asks again.)
VisibleIsCurrent ==
    failures = 0 => \A c \in Clients, d \in Peers, p \in Pos :
        Online(c, d) /\ p \in visible[c] /\ QuietAbout(c, d, p)
            => air[p] \/ stored[c][p] = surface[p]

\* The version a client has stored never falls, over sessions and peers that
\* change hands: surface_update() does not compare versions, so that an older
\* surface delivered late would stay.
StoredNeverFalls ==
    [][\A c \in Clients, p \in Pos : stored'[c][p] >= stored[c][p]]_vars

\* A chunk that came into view is shown as it is, in the end, or the player
\* leaves first.
VisibleGetsCurrent ==
    \A c \in Clients, p \in Pos :
        (p \in visible[c] /\ \E d \in Peers : Online(c, d))
            ~> (\/ air[p] \/ stored[c][p] = surface[p]
                \/ \A d \in Peers : ~Online(c, d))
=============================================================================

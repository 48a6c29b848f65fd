---------------------------- MODULE ClientScene ----------------------------
(***************************************************************************)
(* How terrain gets on the client's screen: hexa/client/scene.cpp, the     *)
(* packet handlers and bg_thread() of main_game.cpp, and the store of      *)
(* chunk_cache.cpp.  Three kinds of threads take part: the background      *)
(* thread (packets and requests), the render thread (camera, occlusion     *)
(* queries, finished meshes) and the pool that builds meshes.              *)
(*                                                                         *)
(* The chunks are a line of columns of one chunk each.  A surface or light *)
(* map is its version; a light map is made for the surface with the same   *)
(* version, and the two travel in one packet.  The server is external: it  *)
(* answers requests and announces changes, in order.                       *)
(***************************************************************************)
EXTENDS Integers, FiniteSets, Sequences, Functions

CONSTANTS
    Width,         \* the chunks are 0 .. Width-1
    Radius,        \* the view distance
    Stride,        \* a camera move as far as this is a jump (5 in the code)
    Meshers,       \* threads of scene::threads_ (4 in the code)
    Ground,        \* chunks that are not air at first
    Starts,        \* where the camera may be at first
    Remembered,    \* chunks whose data was stored in an earlier session
    Stale,         \* those of them that have changed since
    MaxMoves,      \* bound: moves of the camera
    MaxChanges     \* bound: changes of the world

Pos == 0 .. Width - 1

ASSUME SceneShape ==
    /\ Width \in Nat \ {0} /\ Radius \in Nat \ {0} /\ Stride \in Nat /\ Meshers \in Nat \ {0}
    /\ Ground \subseteq Pos /\ Starts \subseteq Pos
    /\ Remembered \subseteq Ground /\ Stale \subseteq Remembered
    /\ MaxMoves \in Nat /\ MaxChanges \in Nat

VARIABLES
    camera, terrain,        \* scene::terrain_ and its center
    pending,                \* scene::pending_, in order
    toShow, reading,        \* chunks that chunk_became_visible() is called for
    surf, light, height,    \* main_game::map()
    requests, bg,           \* main_game::requests_, a packet half handled
    server, wire,           \* the server's versions, 0 for air; its packets
    moves, changes

sceneVars == <<camera, terrain, pending>>
renderVars == <<toShow, reading>>
mapVars == <<surf, light, height>>
netVars == <<requests, bg>>
serverVars == <<server, wire>>
counters == <<moves, changes>>
vars == <<sceneVars, renderVars, mapVars, netVars, serverVars, counters>>

Version == 0 .. MaxChanges + 2
Mesh == [surface : Version, light : Version]
Query == {"none", "inactive", "idle", "busy", "visible"}
Entry == [mesh : Mesh, query : Query]    \* the vbos and occ_qry of chunk_data
Job == [pos : Pos, mesh : Mesh, done : BOOLEAN]
Height == {"unknown", "air", "ground"}
Packet == [type : {"surface"}, pos : Pos, version : Version]
          \cup [type : {"height"}, pos : Pos, height : {"air", "ground"}]

Distance(p, q) == IF p < q THEN q - p ELSE p - q
InsideOf(c, p) == Distance(c, p) <= Radius
Inside(p) == InsideOf(camera, p)
Surroundings(c) == {p \in Pos : Distance(c, p) <= 1}
Neighbours(p) == {q \in Pos : Distance(p, q) = 1}
NoMesh == [surface |-> 0, light |-> 0]
Drawn(t, p) == t[p].mesh # NoMesh
Known(t, p) == t[p].query # "none"

TypeOK ==
    /\ camera \in Pos /\ terrain \in [Pos -> Entry]
    /\ pending \in Seq(Job)
    /\ toShow \in SUBSET Pos
    /\ reading \in [pos : Pos, surface : Version] \cup {<<>>}
    /\ surf \in [Pos -> Version] /\ light \in [Pos -> Version]
    /\ height \in [Pos -> Height]
    /\ requests \in SUBSET Pos
    /\ bg \in [step : {"light", "set"}, pos : Pos, version : Version]
              \cup [step : {"query"}, pos : Pos] \cup {<<>>}
    /\ server \in [Pos -> Version] /\ wire \in Seq(Packet)
    /\ moves \in 0 .. MaxMoves /\ changes \in 0 .. MaxChanges
    /\ \A p \in Pos : Known(terrain, p) => Inside(p)

Init ==
    /\ camera \in Starts
    /\ terrain = [p \in Pos |-> [mesh |-> NoMesh, query |-> "none"]]
    /\ pending = <<>> /\ toShow = Surroundings(camera) /\ reading = <<>>
    /\ surf = [p \in Pos |-> IF p \in Remembered THEN 1 ELSE 0] /\ light = surf
    /\ height = [p \in Pos |-> IF p \in Remembered THEN "ground" ELSE "unknown"]
    /\ requests = {} /\ bg = <<>>
    /\ server = [p \in Pos |-> IF p \in Stale THEN 2 ELSE IF p \in Ground THEN 1 ELSE 0] /\ wire = <<>>
    /\ moves = 0 /\ changes = 0

-----------------------------------------------------------------------------
(***************************************************************************)
(* The scene.                                                              *)
(***************************************************************************)

\* make_occlusion_query(): whatever was there is replaced.
MakeQueries(t, ps) ==
    [p \in Pos |-> IF p \in ps THEN [mesh |-> NoMesh, query |-> "idle"] ELSE t[p]]

\* The mesh takes the place of the query.
SetMesh(t, job) == [t EXCEPT ![job.pos] = [mesh |-> job.mesh, query |-> "inactive"]]

\* set(): a job for the pool, if the chunk is in view.
SetScene(p, s, l) ==
    pending' = IF Inside(p)
               THEN Append(pending, [pos |-> p, done |-> FALSE,
                                     mesh |-> [surface |-> s, light |-> l]])
               ELSE pending

\* A mesh is built.  The pool takes the jobs in order.
FinishMesh(i) ==
    /\ ~pending[i].done
    /\ Cardinality({j \in 1 .. i - 1 : ~pending[j].done}) < Meshers
    /\ pending' = [pending EXCEPT ![i].done = TRUE]
    /\ UNCHANGED <<camera, terrain, renderVars, mapVars, netVars, serverVars, counters>>

\* (Slip: a mesh is placed wherever the camera is.)
PlaceAnywhere(t, job) ==
    MakeQueries(SetMesh(t, job),
                {q \in Neighbours(job.pos) : ~Known(t, q) /\ height[q] # "air"})

\* place_finished_mesh(): the neighbours in view that are not known yet get a
\* query, unless they are air: then the topmost chunk of the column does, which
\* is not one of Pos.
Place(t, job) ==
    IF ~Inside(job.pos) THEN t
    ELSE MakeQueries(SetMesh(t, job),
             {q \in Neighbours(job.pos) :
                 Inside(q) /\ ~Known(t, q) /\ height[q] # "air"})

-----------------------------------------------------------------------------
(***************************************************************************)
(* The render thread.  A frame in which nothing is ready changes nothing,  *)
(* and of what is ready some may wait for the next one, so the parts of a  *)
(* frame may come in any order and one by one.  The scene is locked while  *)
(* chunks are being shown.                                                 *)
(***************************************************************************)

Unlocked == toShow = {} /\ reading = <<>>

\* The meshes that are ready, in order, one after the other.
Placed(t, jobs) ==
    LET after[i \in 0 .. Len(jobs)] ==
            IF i = 0 THEN t
            ELSE IF jobs[i].done THEN Place(after[i - 1], jobs[i]) ELSE after[i - 1]
    IN  after[Len(jobs)]

\* (Slip: the list of meshes to come is cleared.)
NoneLeft(jobs) == <<>>

\* The meshes that pre_render() leaves for a later frame.
NotReady(jobs) ==
    LET kept[i \in 0 .. Len(jobs)] ==
            IF i = 0 THEN <<>>
            ELSE IF jobs[i].done THEN kept[i - 1] ELSE Append(kept[i - 1], jobs[i])
    IN  kept[Len(jobs)]

\* pre_render(): all meshes that are ready, in order.
PreRender ==
    /\ Unlocked
    /\ \E i \in DOMAIN pending : pending[i].done
    /\ terrain' = Placed(terrain, pending)
    /\ pending' = NotReady(pending)
    /\ UNCHANGED <<camera, renderVars, mapVars, netVars, serverVars, counters>>

\* handle_occlusion_queries(), for a chunk in front of the camera.
HandleOcclusionQuery(p) ==
    /\ Unlocked
    /\ terrain[p].query = "idle"
    /\ terrain' = [terrain EXCEPT ![p].query = "busy"]
    /\ UNCHANGED <<camera, pending, renderVars, mapVars, netVars, serverVars, counters>>

\* post_render(), for a result that is available.
NotSeen(p) ==
    /\ Unlocked
    /\ terrain[p].query = "busy"
    /\ terrain' = [terrain EXCEPT ![p].query = "idle"]
    /\ UNCHANGED <<camera, pending, renderVars, mapVars, netVars, serverVars, counters>>

Seen(p) ==
    /\ Unlocked
    /\ terrain[p].query = "busy"
    /\ terrain' = [terrain EXCEPT ![p].query = "visible"]
    /\ toShow' = {p}
    /\ UNCHANGED <<camera, pending, reading, mapVars, netVars, serverVars, counters>>

\* (Slip: what is stored is shown, and nothing is asked for.)
RequestMissing(p, isStored) == requests' = IF isStored THEN requests ELSE requests \cup {p}

\* "Ask the server for the data, even if we already had it".
RequestChunk(p, isStored) == requests' = requests \cup {p}

Stored(p) == surf[p] > 0 /\ light[p] > 0

\* chunk_became_visible(), for a chunk (in view and not drawn) that is not
\* stored.
ShowMissing(p) ==
    /\ reading = <<>> /\ p \in toShow
    /\ ~Stored(p)
    /\ toShow' = toShow \ {p}
    /\ RequestChunk(p, FALSE)
    /\ UNCHANGED <<sceneVars, reading, mapVars, bg, serverVars, counters>>

\* For one that is: get_surface(), and then get_lightmap() and set().
ShowStored(p) ==
    /\ reading = <<>> /\ p \in toShow
    /\ Stored(p)
    /\ reading' = [pos |-> p, surface |-> surf[p]]
    /\ UNCHANGED <<sceneVars, toShow, mapVars, netVars, serverVars, counters>>

ShowLit(p) ==
    /\ reading # <<>> /\ reading.pos = p
    /\ SetScene(p, reading.surface, light[p])
    /\ RequestChunk(p, TRUE)
    /\ reading' = <<>> /\ toShow' = toShow \ {p}
    /\ UNCHANGED <<camera, terrain, mapVars, bg, serverVars, counters>>

\* The steps of move_camera_to() on the way from here to there.
Steps(here, there) == IF here < there THEN here + 1 .. there ELSE there .. here - 1

\* The chunk that comes into view with a step.
Edge(here, there, step) == IF here < there THEN step + Radius ELSE step - Radius

\* (Slip: the chunks that come into view are left to others.)
NoEdge(t, here, there) == {}

\* move_camera_to(): the neighbours of what comes into view that are drawn.
Rechecked(t, here, there) ==
    {q \in Pos : /\ Distance(here, there) < Stride
                 /\ Drawn(t, q)
                 /\ \E s \in Steps(here, there) : Distance(q, Edge(here, there, s)) = 1}

MoveCameraTo(c) ==
    /\ Unlocked
    /\ c # camera /\ moves < MaxMoves
    /\ moves' = moves + 1
    /\ camera' = c
    /\ LET kept == [p \in Pos |-> IF InsideOf(c, p) THEN terrain[p]
                                    ELSE [mesh |-> NoMesh, query |-> "none"]] IN
          terrain' = MakeQueries(kept, Rechecked(kept, camera, c))
    /\ toShow' = {p \in Surroundings(c) : ~Drawn(terrain, p)}
    /\ UNCHANGED <<pending, reading, mapVars, netVars, serverVars, changes>>

-----------------------------------------------------------------------------
(***************************************************************************)
(* The background thread.                                                  *)
(***************************************************************************)

\* surface_update(): the surface, the light map, the scene.
ReceiveSurface ==
    /\ bg = <<>>
    /\ wire # <<>> /\ Head(wire).type = "surface"
    /\ LET m == Head(wire) IN
          /\ surf' = [surf EXCEPT ![m.pos] = m.version]
          /\ bg' = [step |-> "light", pos |-> m.pos, version |-> m.version]
    /\ wire' = Tail(wire)
    /\ UNCHANGED <<sceneVars, renderVars, light, height, requests, server, counters>>

StoreLightmap ==
    /\ bg # <<>> /\ bg.step = "light"
    /\ light' = [light EXCEPT ![bg.pos] = bg.version]
    /\ bg' = [bg EXCEPT !.step = "set"]
    /\ UNCHANGED <<sceneVars, renderVars, surf, height, requests, serverVars, counters>>

SetReceived ==
    /\ bg # <<>> /\ bg.step = "set"
    /\ SetScene(bg.pos, surf[bg.pos], light[bg.pos])
    /\ bg' = <<>>
    /\ UNCHANGED <<camera, terrain, renderVars, mapVars, requests, serverVars, counters>>

\* heightmap_update(): a height that is news is stored.
ReceiveHeight ==
    /\ bg = <<>>
    /\ wire # <<>> /\ Head(wire).type = "height"
    /\ LET m == Head(wire) IN
          /\ height' = [height EXCEPT ![m.pos] = m.height]
          /\ bg' = IF m.height # height[m.pos] /\ m.height = "ground"
                   THEN [step |-> "query", pos |-> m.pos] ELSE <<>>
    /\ wire' = Tail(wire)
    /\ UNCHANGED <<sceneVars, renderVars, surf, light, requests, server, counters>>

\* set_coarse_height(), for a column that is new or has grown.  (A new column
\* that is air is left out: its topmost chunk is not one of Pos.)
SetCoarseHeight ==
    /\ bg # <<>> /\ bg.step = "query"
    /\ Unlocked
    /\ terrain' = MakeQueries(terrain, {bg.pos} \cap {p \in Pos : Inside(p)})
    /\ bg' = <<>>
    /\ UNCHANGED <<camera, pending, renderVars, mapVars, requests, serverVars, counters>>

\* What the server sends for a request with a version.
Answer(p, version) ==
    IF server[p] = 0 THEN <<[type |-> "height", pos |-> p, height |-> "air"]>>
    ELSE (IF height[p] = "unknown"
          THEN <<[type |-> "height", pos |-> p, height |-> "ground"]>> ELSE <<>>)
         \o (IF version = server[p] THEN <<>>
             ELSE <<[type |-> "surface", pos |-> p, version |-> server[p]]>>)

\* What bg_thread() asks for: nothing of what it takes for air, and version 0
\* while the height is missing.
AskFor(p) ==
    IF height[p] = "air" THEN <<>>
    ELSE Answer(p, IF height[p] = "unknown" THEN 0 ELSE surf[p])

\* The answers to what is asked for in this order.
Asked(order, n) ==
    LET answers[i \in 0 .. n] ==
            IF i = 0 THEN <<>> ELSE answers[i - 1] \o AskFor(order[i])
    IN  answers[n]

\* The set is hashed: any order.
SendRequests ==
    /\ bg = <<>>
    /\ requests # {}
    /\ LET n == Cardinality(requests) IN
          \E order \in Bijection(1 .. n, requests) : wire' = wire \o Asked(order, n)
    /\ requests' = {}
    /\ UNCHANGED <<sceneVars, renderVars, mapVars, bg, server, counters>>

\* The world changes, and the server announces it.
Change(p) ==
    /\ changes < MaxChanges
    /\ changes' = changes + 1
    /\ server' = [server EXCEPT ![p] = @ + 1]
    /\ wire' = wire \o (IF server[p] = 0
                        THEN <<[type |-> "height", pos |-> p, height |-> "ground"]>>
                        ELSE <<>>)
                    \o <<[type |-> "surface", pos |-> p, version |-> server[p] + 1]>>
    /\ UNCHANGED <<sceneVars, renderVars, mapVars, netVars, moves>>

-----------------------------------------------------------------------------
Show == \E p \in Pos : ShowMissing(p) \/ ShowStored(p) \/ ShowLit(p)

Queries == \E p \in Pos : HandleOcclusionQuery(p) \/ NotSeen(p) \/ Seen(p)

Background == \/ ReceiveSurface \/ StoreLightmap \/ SetReceived
              \/ ReceiveHeight \/ SetCoarseHeight \/ SendRequests

Build == \E i \in DOMAIN pending : FinishMesh(i)

Next ==
    \/ PreRender \/ Queries \/ Show \/ (\E c \in Pos : MoveCameraTo(c))
    \/ Background \/ Build
    \/ \E p \in Pos : Change(p)

Spec == Init /\ [][Next]_vars

\* Every thread runs on.  Queries get their results, but a chunk need not
\* ever be seen.
FairSpec ==
    /\ Spec
    /\ WF_vars(PreRender) /\ WF_vars(Show) /\ WF_vars(Background)
    /\ \A i \in 1 .. Meshers : WF_vars(i \in DOMAIN pending /\ FinishMesh(i))

-----------------------------------------------------------------------------
(***************************************************************************)
(* Properties.                                                             *)
(***************************************************************************)

AtRest ==
    /\ Unlocked /\ pending = <<>> /\ requests = {} /\ bg = <<>> /\ wire = <<>>

\* p was seen and has no mesh.
Awaited(p) == terrain[p].query = "visible" /\ height[p] # "air"

\* When nothing is under way, whatever was seen is drawn, or is air, and the
\* store has the present version of all that is drawn, and its light map: no
\* mesh, answer or query was lost between the three threads.
SeenIsDrawn ==
    AtRest => \A p \in Pos :
        /\ ~Awaited(p)
        /\ Drawn(terrain, p) => surf[p] = server[p] /\ light[p] = server[p]

\* The chunks around what is drawn are drawn or looked for, as long as they
\* are in view and not air: what can be seen from there is found.
FrontierIsQueried ==
    AtRest => \A p \in Pos : Drawn(terrain, p) =>
        \A q \in Neighbours(p) : Inside(q) /\ height[q] # "air" => Known(terrain, q)

\* A chunk that comes into view next to one that is drawn is looked for.
EdgeIsChecked ==
    [][camera' # camera /\ Distance(camera, camera') < Stride =>
         \A q \in Pos : /\ InsideOf(camera', q) /\ ~Inside(q)
                        /\ \E n \in Neighbours(q) : Drawn(terrain, n) /\ InsideOf(camera', n)
                        => Known(terrain', q)]_vars

\* While a chunk that was seen is not drawn yet, there is an end to it: in time
\* all that were seen are drawn, or are air, or have left the view.
SeenGetsDrawn ==
    (\E p \in Pos : Awaited(p)) ~> (\A p \in Pos : ~Awaited(p))
=============================================================================

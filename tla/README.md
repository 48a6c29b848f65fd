# Verification of Hexahedra

TLA+ modules, TLC configurations and TLAPS proofs for the program under
`src/hexa`: a voxel game made of a server (`hexa/server`), a client
(`hexa/client`) and the code they share (`hexa`). Paths below are relative to
`src/hexa`.

    tlc -workers 2 -config WorldPlain.cfg MCWorld     # one run
    tlapm WorldProofs.tla                             # one set of proofs

## 1. Inventory

### Server

| part | state | operations | who calls it |
| --- | --- | --- | --- |
| **world** `server/world.cpp`, `world_read`, `world_write` | LRU caches of chunks, surfaces, light maps, coarse heights and area data; one mutex `single_lock` | `get_*`, `get_compressed_*`, `acquire_write_access` + `commit_write`, `generate_*`, `adjust_coarse_height` | scripts, physics, network thread, worker |
| **store** `persistence_leveldb.cpp` | LevelDB records per type and position | `store`, `retrieve`, `is_available` | world, entity system (at exit) |
| **surface extraction** `server/extract_surface.cpp` | none | `extract_opaque_surface`, `extract_transparent_surface` | world |
| **network** `server/network.cpp` | job queue, `entities_` and `connections_`, `running_` | connect, disconnect, one handler per packet, jobs, kick, stop | the network thread; signals from the world; Lua |
| **UDP host** `server/udp_server.cpp` | the ENet host, `enet_mutex_` | `poll`, `send`, `disconnect` | network |
| **worker pool** `threadpool.hpp` | task queue, `stop_`, mutex, condition | `enqueue`, worker loop, destructor | network (terrain and light maps) |
| **queue** `concurrent_queue.hpp` | deque, mutex, condition | `push`, `pop`, `try_pop` | network |
| **LRU cache** `lru_cache.hpp` | list in order of use and a map | `[]`, `try_get`, `get`, `remove`, `prune*`, `clear` | world, client chunk cache |
| **area data** of the world (`get_area_data*`) and `server/area` | an LRU cache of what generators say of a column, records of some of it | get, generate, the passes of the terrain generators over the surface | world, terrain generators |
| **entity system** `server/server_entity_system.cpp`, `entity_system_physics.cpp` | components, a mutex | physics step, tick, load, store | physics thread, network, Lua, main |
| **Lua** `server/lua.cpp` | one interpreter, callbacks | events, `change_block`, entity access | network thread, worker, main |
| **main** `server/main.cpp` | threads and their stop flags | start, physics loop, signal wait, shutdown | |
| **terrain** `server/terrain` | the chain of modules in the order of the game's list; none, or seeds | `generate` for areas and for chunks, `estimate_height` | world |
| **light** `server/lightmap` | none | `generate` | world |

### Client

| part | state | operations | threads |
| --- | --- | --- | --- |
| **game loop and states** `client/game.cpp`, `main_menu.cpp`, `loading_screen.cpp` | stack of states, each of which may be done; whether the mouse is held | events, frame, transition | main; the network part of the game in its own |
| **main game** `client/main_game.cpp` | connection, clock, requested chunks and heights, waiting sets | packet handlers, request loop | main and background |
| **chunk cache** `client/chunk_cache.cpp` | LRU maps of surfaces and light maps, `lock_` | store, get, cleanup | background, mesher, main |
| **chunks in view** `distance_sorted_map.hpp` | the chunks in the sphere of the view, in shells by distance | `set`, `remove`, `center`, `view_radius`, signals of what is new or gone | main, under the scene's lock |
| **scene** `client/scene.cpp` | what is drawn of the visible chunks, mesh jobs, finished meshes, coarse heights | set, move camera, pre/post render, build and place meshes | main, background, 4 meshers |
| **occlusion** `client/occlusion_query.cpp`, `occlusion_manager.hpp` | a query state per chunk | advance per frame | main |
| **UDP client** `client/udp_client.cpp` | host, peer | connect, poll, send | background |
| rendering, GUI, resources, sound, key codes | OpenGL and SFML objects | | main |

### How the parts interact

The world is shared by four server threads: the network thread (which also runs
scripts), the physics thread, one worker of the pool, and main. Every access goes
through a `world_read` or `world_write` proxy that holds `single_lock`. A write
is committed by the destructor of its proxy, and the commit signals
`on_update_surface`; the network puts the position on its job queue and sends the
surface to every client later, from the network thread, after taking the world
lock again. A client asks for a chunk with the version it already has; the
network answers at once when the data is there and otherwise hands the work to
the pool, whose task puts a job on the queue in the end. Coarse heights are
broadcast from the thread that changed them. The client's background thread
stores what arrives in its cache and tells the scene, whose meshers build meshes
that the render thread places.

### What is hard here

Crashes between the puts of one write; caches and store read in a different
order by different functions; versions that must rise across restarts; a surface
and its light map that travel together; jobs that wait while the surface they
were made for changes; disconnects and logins while jobs are queued; two locks
taken in both orders; a pool and a queue that are shut down while they are used;
meshes built for data that has been replaced; a player who is logged in twice, and
a slot of the host that has a new client before the server knows that the old one
is gone; references into a cache that is pruned on another thread; calls that nest
through the generators and throw half-way. The list, with lines and the
properties that cover each, is `hazards` in `PROJECT.json`.

### What makes each part correct

* world: blocks behave as a map; heights cover what is stored; between operations
  surfaces match blocks, light maps match surfaces, caches match the store;
  versions rise.
* network and sessions: a client with nothing outstanding shows the present
  surface; every announced change is delivered; the two session maps are inverse
  to each other; a message goes to the session it was meant for.
* locks: no cycle of waiting threads.
* pool and queue: no task or item is lost or run twice, workers end after stop.
* LRU cache: never above its limit after a prune, evicts the oldest, the list and
  the map agree.
* chunk cache: what is cached is what is stored; an update reaches the scene whole.
* chunks in view: each chunk is where it is looked for; none is lost while in view.
* area data: what is stored was made of finished data; the nesting ends;
* terrain: the combined estimate covers what any module builds; the surface map and the
  chunks are of one terrain; soil is whole across chunks.
* game states: a loading screen stands on its game; a game is stopped before it goes.
* client: a scene never shows an older mesh once a newer one was placed; a light
  map fits the surface it is drawn with; every visible chunk is asked for.


## 2. Plan

The modules, in the order they are written. Each has its constants and their
assumptions at the top, one action per operation, and no RECURSIVE operator when
it is to be proved about.

| # | module | of | composes / abstracts to | status |
| --- | --- | --- | --- | --- |
| 1 | `World` | world, proxies, store | implements `BlockMap`, a map of blocks with atomic writes | checked, proved |
| 2 | `SurfaceFeed` | network jobs, `req_chunks`, the client's store and requests | the world as a version per chunk | checked, safety proved |
| 3 | `ServerThreads` | threads, locks, shutdown | all critical sections as nests of locks | checked, safety proved |
| 4 | `ThreadPool`, `TaskBag` | `threadpool.hpp` | implements `TaskBag`: every task that is accepted runs once | checked, safety proved |
| 5 | `Sessions` | handshake, login, disconnect, kick, the session maps, ENet peers | the peers of `SurfaceFeed`, with two sessions of one player | checked, safety proved |
| 6 | `LruOps`, `LruCache` | `lru_cache.hpp` | the entries in order of use, as a sequence | checked, proved |
| 7 | `ClientScene` | scene, mesh jobs, packet handlers | the server as a version per chunk | checked, safety proved |
| 8 | `ChunkCache` | `chunk_cache.cpp` between two threads | three caches of `LruOps` | checked, proved |
| 9 | `DistanceMap` | `distance_sorted_map.hpp` | | checked, proved |
| 10 | `GameStates` | game loop, menu, loading screen | | checked, safety proved |
| 11 | `AreaData` | area data of the world and the passes of the terrain generators | the `Generated` and `Estimate` of `World` | checked, proved |
| 12 | `Terrain` | the chain of terrain generators: areas, coarse height, chunks | what `World` assumes of its generators (`GeneratorContract`) | checked, proved |
| 13 | `MCLibrary` | puts the modules without shared state (4, 6, 8 to 12) in one run | | checked, safety proved |

`World`, `SurfaceFeed`, `ServerThreads` and `Sessions` have their proofs in a module `XProofs`,
`ClientScene` in `SceneProofs`, `AreaData` and `Terrain` in `TerrainProofs`, and the other parts of
`MCLibrary`, with `MCLibrary` itself, in `LibraryProofs`. `Iteration` has the induction over
numbers that the proofs about loops need.

Every invariant of a run that passes has its theorem, and so has every action property.
Worth proving next: that `SurfaceFeed`'s client and `ClientScene` are the same client,
each seen from one side; that a mesh is never older than the one it replaces when there
is one mesher. The pure algorithms (`base58`, `interpolated_map`,
rectangles) are loops over data with nothing between their steps and are left to
unit tests.

## 3. The modules

### World

One state of `World` is the caches and the store between two puts. Every
operation holds `single_lock` from start to end, so there is one program counter
`pc` with the locals `block`, `at` and `left` of the thread that holds the lock.
A step ends at each put, because a crash keeps the store and loses the caches.

| code | actions |
| --- | --- |
| `get_coarse_height`, `generate_coarse_height` | `LoadHeight`, `RaiseHeight` |
| `get_chunk`, `get_chunk_writable` | `LoadChunk`, `AcquireStored`, `AcquireAir`, `StoreFresh`, `Acquired` |
| a read proxy that asks for a surface or a light map | `StartRead`, `SurfaceFromStore`, `SurfaceFromCache`, `SurfaceBuilt`, `LightFromStore`, `LightFromCache`, `LightBuilt`, `EndRead` |
| `prepare_for_player` | `StartPrepare` and the same stages |
| a write proxy and `commit_write` | `StartWrite`, `Modify`, `CommitChunk`, `SkipAir`, `Visit`, `Rebuild`, `Relight`, `EndWrite` |
| process death, restart | `Crash` from every stage; caches empty, store kept |
| a generator that throws | `ChunkFault`, `HeightFault`, `GiveUp` |

A chunk is one block. A surface keeps its version and the set of faces, a light
map the faces it was made for, so what is checked is which data goes with which,
not how it looks. The four cases of `SurfaceFrom...` follow the code's different
orders of cache and store exactly.

### BlockMap

The abstract specification: the content of every position, and one write at a
time that is applied in one step or abandoned. `World` maps `content` to what a
reader would be given (cache, else store, else generator), and `pending` to the
write in progress.

### SurfaceFeed

The network thread's loop, its single worker and the clients. The world is one
version per chunk (`surface`; raised by `Change`) and a flag whether anything
reaches into the air (`air`). `toServer` and `toClient` are the reliable packets of
ENet channel 0, in order per peer. `task` and `jobs` carry a *peer*, not a player,
as `threadpool` tasks and `network::job` do, and `user` says who has the peer now.
`stored` and `height` are the client's leveldb, kept over sessions
(`main_game.cpp:169`), `requests` is `requests_`, `visible` what
`chunk_became_visible` asked for.

| code | actions |
| --- | --- |
| `udp_server::poll` + `network::on_receive` | `Event` = `Login`, `Disconnect`, `ReqHeights`, `ReqChunks`, `Change` |
| `while (!jobs.empty())` in `run()` | `Job`, `NoMoreJobs` |
| `threadpool::worker`, `prepare_for_player`, `send_surface_queue` | `TakeTask`, `Prepare`, `FinishTask`, `FailTask` |
| client: `login`, ENet disconnect | `Connect`, `Leave` |
| client: `chunk_became_visible`, `bg_thread` | `BecomeVisible`, `Request` |
| client: `surface_update`, `heightmap_update` | `ReceiveSurface`, `ReceiveHeight` |

### ServerThreads

What each thread has left to lock. A critical section of the code is a *nest*, the
locks it takes from the outside in; `work[t]` is the nests of the handler or loop
turn that thread `t` is in, `depth[t]` how far into the first it has come, and
`Take` and `Give` move it. What a section does to the job queue or the task queue
happens when its innermost lock is given back. The five locks are
`world::single_lock`, the entity system's `access_` (`readers_writer_lock`, which
is one `std::mutex` for readers and writers alike), the mutexes of `network::jobs` and of
the pool, and `enet_mutex_`.

| code | actions |
| --- | --- |
| `network::run` | `NetworkStart`, `NetworkPoll` (any handler), `NetworkJob`, `NetworkNoJob`, `NetworkQuit` |
| `physics` | `Physics`, `PhysicsEnd` |
| `threadpool::worker` with the task of `req_chunks` | `WorkerTask`, `WorkerEnd` |
| `main` after `sigwait`, `network::stop`, `~threadpool` | `Signalled`, `Stop`, `Stopped`, `StopAgain`, `JoinPhysics`, `JoinNetwork`, `JoinWorker` |

`LoginNests` is the one parameter that is not in the C++ code: what a game's
`on_login` script may come to lock while `login()` holds the entity lock.

### ClientScene

A line of columns of one chunk each, in and out of the view as the camera moves.
`terrain` is `scene::terrain_`: per chunk a mesh (the versions of the surface and the
light map it was made of) and the state of its occlusion query. `pending` is
`pending_`, the futures of the mesh pool in order; a job is done in any order as
far as the number of meshers allows. `surf`, `light` and `height` are what
`chunk_cache` gives, from its cache or from the store.

The render thread's steps are the parts of a frame. What is not ready in one frame
is taken in the next, so they may come in any order and one by one; only
`chunk_became_visible` is split, into a step before and after `get_surface`,
because the background thread runs in between. The scene is locked meanwhile
(`Unlocked`), as in the code. `surface_update` is split at each call that stores.

| code | actions |
| --- | --- |
| `pre_render`, `place_finished_mesh` | `PreRender` (`Place`) |
| `handle_occlusion_queries`, `post_render` | `HandleOcclusionQuery`, `NotSeen`, `Seen` |
| `chunk_became_visible`, `request_chunk` | `ShowMissing`, `ShowStored`, `ShowLit` |
| `move_camera_to` | `MoveCameraTo`, then the steps above for the surroundings |
| `surface_update`, `heightmap_update`, `set_coarse_height` | `ReceiveSurface`, `StoreLightmap`, `SetReceived`, `ReceiveHeight`, `SetCoarseHeight` |
| `bg_thread` | `SendRequests`, with the server's answers |
| `build_mesh` on the pool | `FinishMesh` |

The server is external here: `SurfaceFeed` says how it comes to its answers.

### Sessions

Clients that start, connect, log in, quit, crash and come back, against the three
maps of `network.cpp` (`clock_offset_`, `entities_`, `connections_`). ENet is external:
a connection takes a slot (`slot`), the server hears of its end by a farewell
(`bye`) or by a timeout at any later time, and `kick_player()` resets it with no
event at all. A program and its peer part ways at different moments, so that one
player can have two peers. Handlers run on one thread, so each is one action.

| code | actions |
| --- | --- |
| client: `main_game()`, `udp_client::connect` | `Start`, `Connect`, `TryFails` |
| client: destructor, crash, `greeting`, ENet's end | `Quit`, `Drop`, `Receive`, `Notice` |
| `network::on_connect`, `on_disconnect` | `OnConnect`, `Disconnect` |
| `network::login`, `kick_player` | `Login`, `Kick` |
| the entity updates of `network::run` | `SendUpdates` |
| end, crash and start of `main()` | `Stop`, `Crash`, `Boot` |

`main_game()` tries to connect three times with a peer that `connect()` has
reset, so only the first try can succeed (`CanConnect`).

### ThreadPool and TaskBag

`ThreadPool` has one action per piece of code under the pool's mutex and one per
step outside it: the test of `stop_` in `enqueue()` takes no lock, and the
notification comes after it was given back. Tasks may hand in tasks, also while the
destructor waits. `TaskBag` is the promise: a task is accepted or refused, runs once
if it was accepted, and before the pool is gone; with fairness, it does run. The
run checks the refinement with its liveness, `LibraryProofs` proves its safety part.

| code | actions |
| --- | --- |
| `enqueue()` | `Call`, `Push`, `Notify` |
| `worker()` | `Wait`, `WakeUp` (for no reason), `Leave`, `Take`, `Finish` |
| `~threadpool()` | `SetStop`, `NotifyAll`, `Join` |

### LruOps, LruCache and ChunkCache

`LruOps` is what each function of `lru_cache.hpp` makes of its list, its map and its
count, kept apart as in the code, since `size_` and the iterators are what can go
wrong. `LruCache` applies them in any order (`Index`, `Touch`, `Remove`, `Prune`,
`PruneIf`, `Clear`) beside a history of uses that is never pruned. `ChunkCache` has the
three caches of the client over its store: `StoreSurface`, `StoreLight`, `GetForScene`
and `SetScene` are `main_game::surface_update()`; `StoreHeight` and `GetHeight` the heights;
`StartCleanup` and `Cleanup` the prunes, each with its own lock; `Look`, `GetToDraw` and
`DoneWithLook` the render thread. `held` are references that a thread has into a
cache, `dangling` those whose pair is gone. That the render thread's may dangle is a
known defect (section 6); that the background thread's never do is checked.

### DistanceMap

The shells of `distance_sorted_map`, with the code's own arithmetic: whole squares
for the sphere, and `ceil(radius * 1.7321)` shells. `SetChunk`, `RemoveChunk`, `Center` and
`Grow` are its functions. `Shrink` erases with the iterator its loop goes on with:
what stays behind is any set. `told` is what a listener to `on_new` and `on_remove`
believes to be in the map.

### GameStates

A turn of `game::run()` in three phases: `Event` (any number of events, down the stack
to the state that takes them) and `EventsDone`; `Frame`, or `Throw` when one throws; and
`Transition`, with `MenuNext`, `GameNext` and `LoadingNext` for the `next_state()` of the state
on top and what `game` does with its answer. `Data` is the game's own thread, which
clears `waiting_for_data_`. `PopState` is stuck when the game goes without having been
stopped, for its destructor joins that thread.

### AreaData

One column. `Ask` begins a height or a chunk, which read areas; `GetArea` is
`get_area_data()`: the entry of the cache (`ReadEntry`), the record of the store
(`Retrieve`), or the entry that is made empty before the generator runs
(`BeginArea`). `calls` is the stack of nested calls. `GenerateArea` is the area's own
generator, then the terrain generators go over the area with the name "surface",
for which they read others through the same function; `FinishArea` stores it, `Throws`
leaves through all calls, `RecordMade` stores the height or chunk, `Restart` loses the
cache. The quality of data is "real" or "off", when it or something it was made of
was not finished.

### Terrain

One column of chunks, and the three loops over `terraingen_`, one module a step
(`turn` is the next one):

| code | actions |
| --- | --- |
| `get_area_data_writable`, for the areas "heightmap" and then "surface" | `PassOver` (`Raise`, `Skip`), `NextArea` |
| `generate_coarse_height` | `EstimateHeight` for the `estimate_height` of each module, `HighestSoFar` for what the world makes of it |
| `generate_chunk`, of any chunk of the column | `BeginChunk`, then `Generate`: `FlatBlocks`, `HeightmapBlocks`, `CaveStep`, `SoilStep`, `PatternStep` |

The numbers are those of the code, with sizes as constants: blocks and chunks from
the bottom of the world, areas in 16 bits from its center, and the places where one
is made of the other (`Int16` for `static_cast<int16_t>`, the remainder in `Filled` for
`std::min<uint16_t>`). The chain is any list of modules, with the two uses of
`heightmap_terrain` in the default game, one for the ground and one for the water.
`BeginChunk` takes chunks above the coarse height too, which `get_chunk()` never
generates: it relies on the generators leaving them empty.

### MCLibrary

These eight modules (the chunk cache counts twice: its chunks and its heights,
which no step is about both of) share no state. `MCLibrary` extends all of them and
lets each behaviour be one of one part, so that one run checks them.

## 4. The runs

| run | shows | bounds |
| --- | --- | --- |
| `WorldPlain` | surfaces, light maps, caches and the store agree between operations, and the world implements the map of blocks, with a crash at any point | two columns of two chunks, the estimate of one too high; two writes, so that the second undoes the first next door, or is a write of the restarted world over the remains of the first; custom blocks are left to `WorldFaults` |
| `WorldFaults` | with generators that throw: heights still cover, versions rise, operations end (liveness) | one column of three chunks, so that a height rises past a chunk of air; one write, one crash, one fault: a fault in each stage, before and after a crash |
| `WorldTorn` (violation) | after a crash between two puts a light map and its surface disagree for good | the tower, one write and one crash |
| `FeedHandover` | jobs and tasks made for one player are sent to the next one on the peer, harmlessly; a task that fails loses its answer and nothing else | two players in turn on one peer, one change, two chunks that come into view, one failure |
| `FeedLive` | heights and surfaces come together at two clients at once; what comes into view is shown as it is, in the end | two players, two peers, one chunk in the air that is built up; a player may leave, miss the change and come back |
| `FeedFar` (violation) | a column far from the start that grew during an absence stays air | three sessions, so that one player can come back after the other's change |
| `ServerThreads` | no circle of waiting threads, the server stops, jobs get done | one task at a time in the pool; one nest or two per login script |
| `SceneChanges` | at rest, what was seen is drawn and the store is up to date | three chunks of which two are in view, two meshers, a stored chunk that is out of date, one change |
| `SceneMoves` | at rest, everything around what is drawn is drawn or looked for; what was seen gets drawn, in the end | four stored chunks, a view of two to each side, so that any move takes chunks out of view or brings some into it; one move, one mesher (the order of meshes is for `SceneChanges`) |
| `SceneEdge` (violation) | the edge of the view is not checked; the drawn chunks next to it are wiped | four chunks, one move |
| `Sessions` | the three maps of the network agree with each other and with the host; entities are not shared; who logs in is greeted and updated, unless a second session takes over | two players, two peers, two entities; both modes of the server, so that kicks happen; three starts of clients, so that one player has a second program while the first is there, or comes back after a crash; one stop or crash of the server |
| `Library` | the eight modules without shared state, each alone while the others rest | pool: two workers, two callers, four tasks, so that tasks hand in tasks while the pool is destroyed. Cache: four keys, any sizes. Chunk cache: two chunks and limit 1, so that each use drops another; three columns, `HeightShare` 2; two versions. View: five chunks at the corner of a sphere of radius 1 or 2, one shrink. States: two frames of fading, one exception. Areas: four areas of the default game, one that is stored and read by others, any set of inputs of the surface; one exception, one restart. Terrain: the chains of `ShortChains`, in which every module comes before and after others; up to three of them; chunks of two spots and two levels, eight to a column, and a 16-bit range of four of them, so that chunks above, in and below the range occur; ground of two heights, one of them in the middle of a chunk; soil of two layers, which crosses the border of two chunks |

Every bound is a named constant in a guard (`MaxWrites`, `MaxCrashes`, `MaxFaults`,
`MaxChanges`, `MaxSessions`, `MaxVisible`, `MaxFailures`, `MaxTasks`, `MaxMoves`,
`MaxStarts`, `MaxStops`, `MaxShrinks`, `MaxThrows`). They limit how
often the environment acts, never what the code does. Deadlock is checked in the
World runs. In the others the system may really come to rest: nobody comes back
once the sessions are used up, and a server that was stopped has ended.

Fairness. `World`: the thread that holds the lock goes on (`OperationsEnd`);
operations need not start and crashes need not happen. `SurfaceFeed`: the loop of
`network::run`, the worker, the client's background thread, and delivery of
reliable packets; players need not come, look or leave. `ServerThreads`: strong
fairness for each thread as a whole, since a mutex in it is free again and again
(physics sleeps 50 ms between steps, `poll(1)` gives `enet_mutex_` back every
millisecond), and for `main()` after the signal; the signal itself need not come.
`ClientScene`: frames are drawn, the background thread goes on, and every job the pool
has begun is completed; that an occlusion query ends, or finds anything, is not
assumed. `Sessions`: the network thread's loop serves every peer, and updates come
round; a client's thread receives, and ENet tells it in the end that its peer is
gone; nobody has to start, and the server need not come back. `ThreadPool`:
threads run and tasks end; nobody has to hand one in, and no wake-up without a
reason is assumed. `GameStates`: the loop of `run()` turns, so the player's events
of one turn come to an end. `DistanceMap`, `LruCache`, `ChunkCache`, `AreaData` and `Terrain`
have no liveness property and no fairness.

## 5. The proofs

Each module of proofs holds theorems of the specification of its component for
every value of the constants, from the named assumptions of that module:
`WorldShape`, `BlockKinds`, `NoneIsNoValue`, `Bounds`, `GeneratorContract` (what
`estimate_height()` documents); `LoginScripts`, `NoneIsNoThread`, `TaskBound`;
`FeedShape`, `FeedBounds`; `SessionConstants`; `PoolConstants`; `MapConstants`; `StateConstants`; `AreaConstants`;
`SceneShape`, `CacheConstants`; `TerrainConstants` (the sizes are whole, and the center of the world is a multiple of the
16-bit range, as 2^31 is of 2^16) and `SoilMaterials` (the materials of the soil are known;
an unknown name makes air, and then the surface map is above the ground).

World. Four invariants rest on each other:

1. `TypeInv` is `TypeOK` with `StageInv`, which says what the program counter knows of
   the entries at hand.
2. `HeightInv` (for `HeightCovers`): the height of a column covers what is stored
   *and* what the holder of the lock is about to store. Without the second part it is
   not inductive, because a chunk is put one step after its height.
3. `CacheInv` (for `CachesCoherent`, `ReadsDurable`, `VersionsRise`): a cache entry is
   the record of the store, save for the one chunk under modification.
4. `FreshInv` (for `SurfacesFresh`, `LightsFit`): every surface matches the blocks
   around it, save for the positions still in `left` of a commit.

`WorldImplementsBlockMap` maps each step to a step of `BlockMap` or a stutter, when
`MaxFaults = 0`. With faults it is not so: a generator that throws leaves a chunk of
air in the cache, which readers then see.

SurfaceFeed. The queues matter by what is in them (`Items`) and by the order of some
of it (`Ordered`). `VersionInv` says that a login comes first in `toServer` and a
farewell last (`ServerOrder`), that of one chunk the versions in `toClient` rise and
the heights do not fall (`ClientOrder`), and that what is under way to a client is no
older than what it has and no newer than the world (`PacketOK`). It is inductive, as
a surface is sent as it is when it is sent, and gives `FeedTypes` and
`StoredNeverGetsOlder`. `ServedInv` adds, for each client, peer and chunk, that a
client that takes the chunk for air is told better (`AirIsCorrected`), that what it
saw before its login was handled is asked for after it (`AsksBeforeLogin`), and that
what it lacks is asked for, in work or under way (`IsServed`), the first two being
what the third needs when a chunk is built up. The first holds only for the chunks
login() sends the heights of, so that `VisibleStaysCurrent` assumes `Near = Pos`, as in
the run `feed_handover`; without that it is false, which is the run `feed_far`.

ServerThreads. `IInv` is `TypeOK`, `HeldInv` and `JoinInv`. `HeldInv` ties `owner` to
`depth`: a thread owns exactly the locks it has come to in its nest. As a nest
takes locks in the order of their ranks, a waiting thread wants a lock above all
it holds; in a set of threads blocked by itself every wanted lock would have one
above it, and there are five (`OrderedLocks`, whence `NoDeadlock`). `JoinInv` says that
only the network thread hands in tasks and that the worker is not told to stop
before that thread has ended (`JoinedThreads`).

Sessions. `MapsAgree` is not inductive. `MapsInv` adds that a free slot is in no map
(`FreeIsForgotten`), that a peer in use was greeted by `on_connect()` or is to be
(`UsedIsKnown`), that who has yet to log in is nobody so far, that a greeting under
way names the right entity, and that a program that does not run and a server that
is down know nobody (`MapsAlwaysAgree`, `TwinsOnlyAlways`). `PlayersInv` adds that the
database has one entity for each player as well (`SavedOnce`; `OneEntityAlways`).

ClientScene. `SeenIsDrawn` says that when nothing is under way nothing is missing; the
invariant says of every other state where the answer is. `IsServed(p)`: what was seen
waits for the scene's own loop (`toShow`), a mesh, the packet in hand, a packet in the
wire, or a request that the server will answer. `IsFresh(p)`: what is drawn, or is on its
way to be, is of the present version, or asked for, or its newer surface is in the wire.
The background thread sends no request for what it takes for air and drops it from
the list all the same; that this loses nothing needs `AirIsCorrected`: whenever the
client, or a packet in the wire, says that a column is air which is not, a height
and then the surface are behind it. `Rises` (surfaces of one chunk come in order) and
`StoreOK` (the store is not ahead of the server, and a light map differs from its surface
only between the two puts) make these inductive (`SceneInvariant`, `NothingIsLost`).
`FrontierOK` adds the neighbours of what is drawn; a move keeps it because every
chunk that comes into view is at the edge of one of its steps (`EdgeOfMove`), which is
so only for moves that take steps: `FrontierHasNoGap` is for the behaviours in
which no move goes as far as `Stride` (`NoJumps`), as `move_camera_to()` rechecks nothing after
those. In the run that checks the same the width of the world sees to it.

Pool. `Enders` says that a thread in `enqueue()` keeps the pool alive: a task keeps its
worker from leaving, any other thread the destructor from starting. Hence
`NothingIsLeft`. `PoolInv` is the type, `OnePlace`, `Accepted` (what is in the pool has
been accepted) and `NothingLost` (what has been accepted is in the pool or was run),
so that `Join` closes an empty bag: `TasksInOnePlace` and `PoolImplementsTaskBag`, which
maps every step to one of `TaskBag` or to a stutter.

LruCache. `LruInv`: the list has no key twice, the map has the keys of the list, the count
is its length, and the list is in the order of the history of uses, which is never
pruned (`InOrder`). `prune_if()` goes over the list from its end while it erases from it:
the invariant of that loop, for each number of pairs looked at, is that only pairs it has
looked at and may drop are gone, and of those the oldest first (`PrunedSoFar`)
(`ListAndMapAgree`, `AlwaysDropsOldest`).

ChunkCache. `CacheInv`: what is cached is what is stored (`CachesAgree`), what the render
thread has found available is stored (`LookIsStored`), an update half way has stored
what it says (`UpdateIsStored`), and the references of the background thread are alive
(`HeldAreAlive`): it is the only thread that stores and prunes, it does neither while it
holds them, and a get of the other thread only adds an entry or moves one to the front
(`CacheShowsStore`, `SceneGetsUpdate`).

DistanceMap. The heart is arithmetic, `SphereFits`: for whole numbers of any size, a
sum of three distances whose squares add up to at most the square of the radius
is less than the number of shells, by the inequality of the means and
`1.7321 * 1.7321 > 3`. With it `MapInv` is inductive (`ShellsHold`, `ViewIsKept`). `KnownInv` adds that the chunks of the
map are in view: `center()` tells of what leaves by looking at distances alone
(`ListenersAreTold`).

GameStates. The stack has one of four shapes (`LoadingAlwaysHasGame`). For the other
theorem, as long as nothing was thrown and the player has not `meddled`: the escape
key would stop the game (`EscapeStops`), a loading screen that is about to go leaves
a game that was stopped or has its data (`NoneWaits`), and without the screen a game
is done only when it was stopped (`GoesOnlyStopped`). Each needs the one before it
(`AlwaysLeavesStopped`).

AreaData. `Nested` says that two calls in progress are one of the surface and, inside
it, one of another area, which reads nothing. `RealSoFar` says that without faults
all that is finished is real: an unfinished entry is that of a call in progress, and
nobody reads those but the surface itself (`NestingAlwaysEnds`, `AlwaysMadeOfReal`).

Terrain. `TerrainInv` has, next to the type, that the estimate so far covers what the
modules asked so far can build (`ChainCovered`), and that a block is there only when one
of the chain reaches its chunk; the first is what makes the second enough for
`EstimateAlwaysHolds`. `SurfaceInv` says that the surface of the first modules is the
highest of what they build, `BlocksInv` the same of the blocks of the chunk; at the end
of both loops the two are about the same list, whatever its order, which is
`SurfaceAlwaysTop`. For `SoilAlwaysWhole` it takes only the arithmetic: in range nothing
is cut to 16 bits.

MCLibrary. `PartsAsSpecified`: a behaviour of all parts side by side is a behaviour of each,
as a step of one leaves the variables of the others alone. So what is proved of the
parts holds of the composition that the run checks, `PartsTyped` first.

Loops (`Iteration`). `NotReady`, `Placed`, `Asked` and `Pruning` are recursive functions over the
length of a list. The library's induction theorems take an operator as a parameter, which
the provers cannot instantiate; `UpTo` is induction over a set of numbers instead, and
`IterationExists` gives the function that such a definition chooses. Both follow from the
numbers being well-founded.

Some theorems state properties that no run repeats, since they follow the same
invariants as others that are checked, are part of a refinement, or say no more than that the variables have their types:
`HeightsRise`, `ReadersSeeTheStore`, `JoinedThreads`, `TasksInOnePlace`, `TypeCorrect`,
`FeedTypes`, `SessionsTyped` and the types of the threads.

Only model-checked: the liveness properties `OperationsEnd`,
`VisibleGetsCurrent`, `ServerStops`, `JobsAreDone`, `SeenGetsDrawn`, `LoginEnds`, `UpdatesCome`,
`LoadingGoes` and that of `TaskBag`, since liveness under fairness is out of this
prover's reach. There is no RECURSIVE operator in the modules.

## 6. Where the code and its comments part

Shown by a run:

* A crash between the puts of one commit (`WorldTorn`): the store is left with a
  light map that no later operation repairs.
* `FeedFar`: the comment in `scene.cpp` that the server is asked "just in case"
  does not hold for chunks above a coarse height of an earlier session.
* `SceneEdge`: `move_camera_to` asks for the drawn neighbour of a chunk that comes into
  view, and so wipes it, where the comment says that the chunk itself is checked.

Met while modelling, part of the models or left out as said, without a run of
their own:

* A generator that throws leaves a chunk that is half made, which counts as
  available (`world.hpp:156-160`). In the area data it leaves an entry of zeroes, of
  which heights and chunks are then made and stored.
* The assertion of `build_mesh` that a light map is of the size of its surface
  (`scene.cpp:271`) fails when a frame falls between two puts of the background
  thread. With two meshers the mesh of an older surface may be finished last,
  replace the newer one and stay.
* The greeting documents a start position (`protocol.hpp:116`) that `login` does not
  set (`network.cpp:472`). The reason of a kick is lost, as the peer is reset at once.
  The second and third try to connect cannot succeed.
* A reference that the render thread has from the chunk cache dangles when the
  background thread stores or prunes meanwhile.
* `distance_sorted_map::view_radius` with a smaller radius uses an iterator it has
  erased and tells nobody of what it drops.
* Talking, or letting go of the mouse, while the loading screen is up makes the
  escape key end the screen and not the game; what follows fails the assertion of
  `main_game::next_state()` or waits for ever. An exception in the only state on the
  stack leaves it empty, and `back()` is called. `expose()` undoes a `stop()`.
  `game.hpp` says that a state under a transparent one gets no key events;
  `process_event` passes them on.
* `readers_writer_lock` says that several readers may hold it; it is a plain mutex.
  `ServerThreads` models the mutex.
* A chunk far below the 16-bit range has gaps of air: the distance to the ground is
  cut to 16 bits (`heightmap_terrain_generator.cpp:76`), so that once in 65,536 blocks
  less than a chunk is filled. Out of that range the soil is there again at the same
  16-bit height, and a flat world gets a surface of another height.
* The soil follows the surface map, to which `heightmap_terrain` adds the water: under
  water deeper than the soil there is bare stone.
* `chunk.hpp` says that a chunk has a version that rises; nothing raises it. World
  has versions on surfaces only.

## 7. What is not modelled

The parts with status `not_modelled` in `PROJECT.json`, with the reason for each:
numeric, graphical, or plain input and output. More than half of the
repository's C++ is vendored (`libs`: OpenCL bindings, luabind, noise) or draws and
reads (`client/` rendering and GUI), with no protocol to check. Within the modelled parts:

* chunks have one block, and the transparent surface is left out: it follows the
  opaque one in every function;
* the order in which a commit walks the neighbourhood is free (`\E`), the code's is fixed;
* in `World` the area generators are part of `Generated` and `Estimate`, which are
  functions: a generator gives the same chunk whenever it is asked. `AreaData` says
  when that is so: as long as none throws. `Terrain` has the modules that games configure,
  with the values of areas given; noise, Lua scripts, and the shape of caves and of the
  test pattern are left open. Biomes are a soil for each spot, with none for an unknown biome;
* `SurfaceFeed` has no crash of the server and no unreliable packets, as no terrain
  packet is sent that way; `Sessions` has the crash;
* `ServerThreads` splits a section with several inner ones into nests, between which
  other threads may come in: more interleavings than the code has, never fewer;
  except for what is held over both: those are one nest with the deepest locks;
* `ClientScene` has columns of one chunk, so terrain does not get lower, and the query of
  the topmost chunk of a column that is air in view falls outside; moves of
  five chunks or more (`Stride`) are in the module and in no run, as they leave chunks
  unfound (see the hazards);
* `Sessions` has no Lua script that refuses a player, and no cryptography: `ecdh` is a
  name for the method of a server with several players;
* `ChunkCache` has no update of a light map alone, which the server does not send;
* `DistanceMap` has positions less than 2^15 apart, where the squares fit in 32 bits;
* `GameStates` leaves out the window and keys that change no state;
* `AreaData` and `Terrain` have one column, as no generator reads areas of another;
* the chunk cache, the pool and the other modules of `MCLibrary` are not composed
  with `ClientScene` and `SurfaceFeed`, which have their effects in their own terms;
* scripts are represented by what the shipped games do.

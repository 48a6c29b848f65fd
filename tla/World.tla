------------------------------- MODULE World -------------------------------
(***************************************************************************)
(* The game world of the server: hexa/server/world.cpp, the read and write *)
(* proxies of world_read.cpp and world_write.cpp, and the key-value store  *)
(* of hexa/persistence_leveldb.cpp underneath.                             *)
(*                                                                         *)
(* Every operation runs under world::single_lock, so at most one operation *)
(* is in progress: pc, block, at and left are the program counter and the  *)
(* locals of the thread that holds the lock, pc = "idle" when nobody does. *)
(* A step of the model ends at each put into the store, because the store  *)
(* survives a crash and the lru_cache objects do not.                      *)
(*                                                                         *)
(* A chunk is reduced to a single block, so a surface is the set of sides  *)
(* of that block that are exposed, and a light map has one element for     *)
(* each of the faces it was made for.                                      *)
(***************************************************************************)
EXTENDS Integers, FiniteSets

CONSTANTS
    Columns,       \* map coordinates (x, y)
    ColumnAdj,     \* pairs of columns that touch
    Depth,         \* number of chunks in a column: z is 0 .. Depth-1
    Air,           \* type::air
    Solid,         \* block types that are visually solid
    Custom,        \* block types with a custom model
    Generated,     \* what terraingen_ make of each position
    Estimate,      \* what generate_coarse_height() returns for each column
    None,          \* no entry in a cache or in the store
    MaxWrites,     \* bound: write operations started
    MaxCrashes,    \* bound: crashes and restarts
    MaxFaults      \* bound: exceptions thrown by a generator

Pos == Columns \X (0 .. Depth - 1)
Col(p) == p[1]
Z(p) == p[2]

Block == {Air} \cup Solid \cup Custom
Height == 0 .. Depth
Surface == [version : Nat, faces : SUBSET Pos]
Light == [faces : SUBSET Pos]

\* The six chunks that share a side with p.
Sides(p) ==
    {q \in Pos : \/ Col(q) = Col(p) /\ Z(q) \in {Z(p) - 1, Z(p) + 1}
                 \/ Z(q) = Z(p) /\ <<Col(p), Col(q)>> \in ColumnAdj}

\* (Slip: the chunk below is left out.)
NeumannNotBelow(p) == {q \in Sides(p) : Z(q) >= Z(p)} \cup {p}

\* neumann_neighborhood: p itself and its six sides.
Neumann(p) == Sides(p) \cup {p}

ASSUME WorldShape ==
    /\ Depth \in Nat \ {0}
    /\ ColumnAdj \subseteq Columns \X Columns
    /\ \A c, d \in Columns : <<c, d>> \in ColumnAdj => <<d, c>> \in ColumnAdj

ASSUME BlockKinds == Air \notin Solid \cup Custom /\ Solid \cap Custom = {}

ASSUME NoneIsNoValue ==
    /\ None \notin Block
    /\ None \notin Height
    /\ None \notin Surface
    /\ None \notin Light
    /\ None \notin Pos
    /\ None \notin [pos : Pos, block : Block]

ASSUME Bounds == MaxWrites \in Nat /\ MaxCrashes \in Nat /\ MaxFaults \in Nat

\* The contract of terrain_generator_i::estimate_height(): "All chunks with
\* a z ordinate of this value or more are guaranteed to be only air".
ASSUME GeneratorContract ==
    /\ Generated \in [Pos -> Block]
    /\ Estimate \in [Columns -> Height]
    /\ \A p \in Pos : Z(p) >= Estimate[Col(p)] => Generated[p] = Air

VARIABLES
    heights, chunks, surfaces, lights,       \* the lru_cache members
    dHeights, dChunks, dSurfaces, dLights,   \* the records of storage_
    pc, block, at, left,                     \* the holder of single_lock
    writes, crashes, faults,                 \* bounded counters
    torn        \* a crash hit a commit between its first and its last put

caches == <<heights, chunks, surfaces, lights>>
disk == <<dHeights, dChunks, dSurfaces, dLights>>
thread == <<pc, block, at, left>>
counters == <<writes, crashes, faults, torn>>
vars == <<caches, disk, thread, counters>>

Stages == {"idle", "height", "read", "surface", "light", "acquire", "fresh",
           "modify", "store", "next", "rebuild", "relight"}

TypeOK ==
    /\ heights \in [Columns -> Height \cup {None}]
    /\ dHeights \in [Columns -> Height \cup {None}]
    /\ chunks \in [Pos -> Block \cup {None}]
    /\ dChunks \in [Pos -> Block \cup {None}]
    /\ surfaces \in [Pos -> Surface \cup {None}]
    /\ dSurfaces \in [Pos -> Surface \cup {None}]
    /\ lights \in [Pos -> Light \cup {None}]
    /\ dLights \in [Pos -> Light \cup {None}]
    /\ pc \in Stages
    /\ block \in Block \cup {None}
    /\ at \in Pos \cup {None}
    /\ pc \notin {"idle", "next"} => at \in Pos
    /\ pc \in {"acquire", "fresh", "modify"} => block \in Block
    /\ left \in SUBSET Pos
    /\ writes \in 0 .. MaxWrites
    /\ crashes \in 0 .. MaxCrashes
    /\ faults \in 0 .. MaxFaults
    /\ torn \in BOOLEAN

Init ==
    /\ heights = [c \in Columns |-> None]
    /\ dHeights = [c \in Columns |-> None]
    /\ chunks = [p \in Pos |-> None]
    /\ dChunks = [p \in Pos |-> None]
    /\ surfaces = [p \in Pos |-> None]
    /\ dSurfaces = [p \in Pos |-> None]
    /\ lights = [p \in Pos |-> None]
    /\ dLights = [p \in Pos |-> None]
    /\ pc = "idle" /\ block = None /\ at = None /\ left = {}
    /\ writes = 0 /\ crashes = 0 /\ faults = 0 /\ torn = FALSE

-----------------------------------------------------------------------------
(***************************************************************************)
(* Coarse heights and chunks, loaded on demand.                            *)
(***************************************************************************)

\* is_air_chunk(): only meaningful once the height of the column is known.
IsAir(p) == heights[Col(p)] # None /\ Z(p) >= heights[Col(p)]

\* A surface or a light map has to be made, not just looked up.
MustBuild == \/ pc = "rebuild"
             \/ pc = "surface" /\ surfaces[at] = None /\ dSurfaces[at] = None
MustLight == \/ pc = "relight"
             \/ pc = "light" /\ lights[at] = None /\ dLights[at] = None

\* The operation in progress may ask for the chunk at p.  A light map
\* generator casts rays, and may ask for any of them.
Wants(p) == \/ pc \in {"read", "acquire"} /\ p = at
            \/ MustBuild /\ p \in Neumann(at)
            \/ MustLight

\* It may ask for the height of the column c.
WantsHeight(c) == \/ \E p \in Pos : Wants(p) /\ c = Col(p)
                  \/ pc \in {"height", "modify"} /\ c = Col(at)
                  \/ pc = "next" /\ \E p \in left : c = Col(p)

\* The proxy goes out of scope and single_lock is released.
Release == pc' = "idle" /\ block' = None /\ at' = None

\* get_coarse_height(): a miss in the cache is answered by the store, or by
\* the generators, whose answer is stored.
LoadHeight(c) ==
    /\ WantsHeight(c)
    /\ heights[c] = None
    /\ IF dHeights[c] # None
       THEN /\ heights' = [heights EXCEPT ![c] = dHeights[c]]
            /\ UNCHANGED dHeights
       ELSE /\ heights' = [heights EXCEPT ![c] = Estimate[c]]
            /\ dHeights' = [dHeights EXCEPT ![c] = Estimate[c]]
    /\ UNCHANGED <<chunks, surfaces, lights, dChunks, dSurfaces, dLights,
                   thread, counters>>

\* (Slip: the store is not asked.)
ChunkForNew(p) == Generated[p]

\* Where get_chunk_writable() takes a chunk from.
ChunkFor(p) == IF dChunks[p] # None THEN dChunks[p] ELSE Generated[p]

\* get_chunk(): nothing is loaded above the coarse height; below it a miss is
\* answered by the store or by generate_chunk(), whose result is stored.
LoadChunk(p) ==
    /\ Wants(p)
    /\ heights[Col(p)] # None
    /\ chunks[p] = None
    /\ ~IsAir(p)
    /\ chunks' = [chunks EXCEPT ![p] = ChunkFor(p)]
    /\ dChunks' = [dChunks EXCEPT ![p] = ChunkFor(p)]
    /\ UNCHANGED <<heights, surfaces, lights, dHeights, dSurfaces, dLights,
                   thread, counters>>

\* (Slip: a chunk above the height must be loaded too.)
LoadedAlways(p) == heights[Col(p)] # None /\ chunks[p] # None

\* What get_chunk() returns once everything it needs is loaded.
Loaded(p) == heights[Col(p)] # None /\ (IsAir(p) \/ chunks[p] # None)
ChunkAt(p) == IF IsAir(p) THEN Air ELSE chunks[p]

\* (Slip: pos.z is not incremented.)
RaiseHeightToChunk(p) ==
    /\ heights' = [heights EXCEPT ![Col(p)] = Z(p)]
    /\ dHeights' = [dHeights EXCEPT ![Col(p)] = Z(p)]

\* set_coarse_height() for a chunk at or above the present height.
RaiseHeight(p) ==
    /\ heights' = [heights EXCEPT ![Col(p)] = Z(p) + 1]
    /\ dHeights' = [dHeights EXCEPT ![Col(p)] = Z(p) + 1]

\* adjust_coarse_height(), once the height is known.
AdjustHeight(p) ==
    IF IsAir(p) THEN RaiseHeight(p) ELSE UNCHANGED <<heights, dHeights>>

-----------------------------------------------------------------------------
(***************************************************************************)
(* Surfaces and light maps.                                                *)
(***************************************************************************)

\* extract_opaque_surface(): an air block has no faces, a custom block all of
\* them, a solid block those next to a block that is not visually solid.
FacesOf(p, content(_)) ==
    IF content(p) = Air THEN {}
    ELSE IF content(p) \in Custom THEN Sides(p)
    ELSE {q \in Sides(p) : content(q) \notin Solid}

\* build_surface(), for which all seven chunks must be loaded.
CanBuild(p) == \A q \in Neumann(p) : Loaded(q)
BuiltFaces(p) == FacesOf(p, ChunkAt)

\* A default constructed surface_data.
EmptySurface == [version |-> 0, faces |-> {}]

\* (Slip: the store is not asked.)
SurfaceCached(p) == surfaces[p] # None

\* is_surface_available() and the surface get_surface() then returns.
SurfaceAvailable(p) == surfaces[p] # None \/ dSurfaces[p] # None
SurfaceNow(p) == IF surfaces[p] # None THEN surfaces[p] ELSE dSurfaces[p]

\* The version commit_write() gives to the rebuilt surface.
NextVersion(p) == IF SurfaceAvailable(p) THEN SurfaceNow(p).version + 1 ELSE 1

\* (Slip: only the store is updated.)
StoreSurface(p, srf) ==
    /\ dSurfaces' = [dSurfaces EXCEPT ![p] = srf]
    /\ UNCHANGED surfaces

PutSurface(p, srf) ==
    /\ surfaces' = [surfaces EXCEPT ![p] = srf]
    /\ dSurfaces' = [dSurfaces EXCEPT ![p] = srf]

\* (Slip: a light map that is there keeps its size.)
LightKept(p) == IF lights[p] # None THEN lights[p]
                ELSE [faces |-> SurfaceNow(p).faces]

\* generate_lightmap(): resized to count_faces() of the surface.
LightFor(p) == [faces |-> SurfaceNow(p).faces]

PutLight(p, lm) ==
    /\ lights' = [lights EXCEPT ![p] = lm]
    /\ dLights' = [dLights EXCEPT ![p] = lm]

-----------------------------------------------------------------------------
(***************************************************************************)
(* Reading: get_chunk(), get_block() and get_coarse_height() of world_read *)
(* (scripts, physics, ray casts).                                          *)
(***************************************************************************)

StartRead(p) ==
    /\ pc = "idle"
    /\ pc' \in {"height", "read"} /\ at' = p
    /\ UNCHANGED <<caches, disk, block, left, counters>>

EndRead ==
    /\ \/ pc = "height" /\ heights[Col(at)] # None
       \/ pc = "read" /\ Loaded(at)
    /\ Release
    /\ UNCHANGED <<caches, disk, left, counters>>

-----------------------------------------------------------------------------
(***************************************************************************)
(* prepare_for_player() and network::send_surface(): the compressed        *)
(* surface, then the compressed light map, under one lock.  Both are only  *)
(* asked for once the caller has seen that the chunk is not air.           *)
(***************************************************************************)

StartPrepare(p) ==
    /\ pc = "idle"
    /\ heights[Col(p)] # None /\ ~IsAir(p)
    /\ pc' = "surface" /\ at' = p
    /\ UNCHANGED <<caches, disk, block, left, counters>>

\* get_compressed_surface(): the stored surface, if there is one.
SurfaceFromStore ==
    /\ pc = "surface"
    /\ dSurfaces[at] # None
    /\ pc' = "light"
    /\ UNCHANGED <<caches, disk, block, at, left, counters>>

\* Otherwise get_surface(), and its result is stored: the entry of the cache
\* or a surface of version 1 that is built now.
SurfaceFromCache ==
    /\ pc = "surface"
    /\ dSurfaces[at] = None /\ surfaces[at] # None
    /\ dSurfaces' = [dSurfaces EXCEPT ![at] = surfaces[at]]
    /\ pc' = "light"
    /\ UNCHANGED <<caches, dHeights, dChunks, dLights, block, at, left,
                   counters>>

SurfaceBuilt ==
    /\ pc = "surface"
    /\ ~SurfaceAvailable(at)
    /\ CanBuild(at)
    /\ PutSurface(at, [version |-> 1, faces |-> BuiltFaces(at)])
    /\ pc' = "light"
    /\ UNCHANGED <<heights, chunks, lights, dHeights, dChunks, dLights,
                   block, at, left, counters>>

\* get_compressed_lightmap(), in the same way.
LightFromStore ==
    /\ pc = "light"
    /\ dLights[at] # None
    /\ Release
    /\ UNCHANGED <<caches, disk, left, counters>>

LightFromCache ==
    /\ pc = "light"
    /\ dLights[at] = None /\ lights[at] # None
    /\ dLights' = [dLights EXCEPT ![at] = lights[at]]
    /\ Release
    /\ UNCHANGED <<caches, dHeights, dChunks, dSurfaces, left, counters>>

\* generate_lightmap() sizes the light map after get_surface(), which may
\* have to take the surface from the store into the cache.
LightBuilt ==
    /\ pc = "light"
    /\ dLights[at] = None /\ lights[at] = None
    /\ surfaces' = [surfaces EXCEPT ![at] = SurfaceNow(at)]
    /\ PutLight(at, LightFor(at))
    /\ Release
    /\ UNCHANGED <<heights, chunks, dHeights, dChunks, dSurfaces, left,
                   counters>>

-----------------------------------------------------------------------------
(***************************************************************************)
(* lua::change_block(): acquire_write_access(), the assignment to a block  *)
(* of the cached chunk, and commit_write() from the destructor of          *)
(* world_write.                                                            *)
(***************************************************************************)

StartWrite(p, b) ==
    /\ pc = "idle"
    /\ writes < MaxWrites
    /\ writes' = writes + 1
    /\ pc' = "acquire" /\ at' = p
    /\ block' = b
    /\ UNCHANGED <<caches, disk, left, crashes, faults, torn>>

\* get_chunk_writable() looks into the store before it looks at the height;
\* a chunk above the height starts as air, under a height that is raised
\* before the chunk is stored.
AcquireStored ==
    /\ pc = "acquire"
    /\ chunks[at] = None /\ dChunks[at] # None
    /\ chunks' = [chunks EXCEPT ![at] = dChunks[at]]
    /\ pc' = "modify"
    /\ UNCHANGED <<heights, surfaces, lights, disk, block, at, left, counters>>

AcquireAir ==
    /\ pc = "acquire"
    /\ chunks[at] = None /\ dChunks[at] = None
    /\ IsAir(at)
    /\ RaiseHeight(at)
    /\ pc' = "fresh"
    /\ UNCHANGED <<chunks, surfaces, lights, dChunks, dSurfaces, dLights,
                   block, at, left, counters>>

StoreFresh ==
    /\ pc = "fresh"
    /\ chunks' = [chunks EXCEPT ![at] = Air]
    /\ dChunks' = [dChunks EXCEPT ![at] = Air]
    /\ pc' = "modify"
    /\ UNCHANGED <<heights, surfaces, lights, dHeights, dSurfaces, dLights,
                   block, at, left, counters>>

Acquired ==
    /\ pc = "acquire"
    /\ chunks[at] # None
    /\ pc' = "modify"
    /\ UNCHANGED <<caches, disk, block, at, left, counters>>

\* The block is written, and commit_write() begins with
\* adjust_coarse_height().
Modify ==
    /\ pc = "modify"
    /\ heights[Col(at)] # None
    /\ chunks' = [chunks EXCEPT ![at] = block]
    /\ AdjustHeight(at)
    /\ pc' = "store" /\ block' = None
    /\ UNCHANGED <<surfaces, lights, dChunks, dSurfaces, dLights, at, left,
                   counters>>

CommitChunk ==
    /\ pc = "store"
    /\ dChunks' = [dChunks EXCEPT ![at] = chunks[at]]
    /\ left' = Neumann(at)
    /\ pc' = "next" /\ at' = None
    /\ UNCHANGED <<caches, dHeights, dSurfaces, dLights, block, counters>>

\* The loop over neumann_neighborhood.  The code visits the seven positions
\* in the order of that array; here the order is free.
SkipAir(p) ==
    /\ pc = "next"
    /\ p \in left
    /\ IsAir(p)
    /\ left' = left \ {p}
    /\ UNCHANGED <<caches, disk, pc, block, at, counters>>

Visit(p) ==
    /\ pc = "next"
    /\ p \in left
    /\ heights[Col(p)] # None /\ ~IsAir(p)
    /\ at' = p
    /\ pc' = "rebuild"
    /\ UNCHANGED <<caches, disk, block, left, counters>>

Rebuild ==
    /\ pc = "rebuild"
    /\ CanBuild(at)
    /\ PutSurface(at, [version |-> NextVersion(at), faces |-> BuiltFaces(at)])
    /\ pc' = "relight"
    /\ UNCHANGED <<heights, chunks, lights, dHeights, dChunks, dLights,
                   block, at, left, counters>>

\* on_update_surface() then hands p to the network (module SurfaceFeed).
Relight ==
    /\ pc = "relight"
    /\ PutLight(at, LightFor(at))
    /\ left' = left \ {at}
    /\ pc' = "next" /\ at' = None
    /\ UNCHANGED <<heights, chunks, surfaces, dHeights, dChunks, dSurfaces,
                   block, counters>>

EndWrite ==
    /\ pc = "next"
    /\ left = {}
    /\ Release
    /\ UNCHANGED <<caches, disk, left, counters>>

-----------------------------------------------------------------------------
(***************************************************************************)
(* Failures.                                                               *)
(***************************************************************************)

\* The process ends and is started again: the store is what is left.  This
\* is also what an exception inside commit_write() amounts to, because it
\* leaves a destructor.
Crash ==
    /\ crashes < MaxCrashes
    /\ crashes' = crashes + 1
    /\ torn' = (torn \/ pc = "rebuild" \/ pc = "relight"
                     \/ (pc = "next" /\ left # {}))
    /\ heights' = [c \in Columns |-> None]
    /\ chunks' = [p \in Pos |-> None]
    /\ surfaces' = [p \in Pos |-> None]
    /\ lights' = [p \in Pos |-> None]
    /\ Release /\ left' = {}
    /\ UNCHANGED <<disk, writes, faults>>

\* An exception in a generator, outside a commit: the operation is given up.
\* get_chunk_writable(), get_surface() and get_lightmap() insert their entry
\* in the cache before they fill it, and nobody takes it out.  A light map
\* may have been sized before the generator threw, or not.
GiveUp ==
    /\ pc \in {"height", "read", "surface", "light", "acquire"}
    /\ faults < MaxFaults
    /\ faults' = faults + 1
    /\ surfaces' =
         CASE pc = "surface" -> [surfaces EXCEPT ![at] = EmptySurface]
           [] pc = "light" -> [surfaces EXCEPT ![at] = SurfaceNow(at)]
           [] OTHER -> surfaces
    /\ IF pc = "light"
       THEN \E lm \in {[faces |-> {}], LightFor(at)} :
                lights' = [lights EXCEPT ![at] = lm]
       ELSE UNCHANGED lights
    /\ Release
    /\ UNCHANGED <<heights, disk, left, writes, crashes, torn>>

\* generate_chunk() throws.
ChunkFault(p) ==
    /\ Wants(p)
    /\ heights[Col(p)] # None /\ ~IsAir(p)
    /\ chunks[p] = None /\ dChunks[p] = None
    /\ chunks' = [chunks EXCEPT ![p] = Air]
    /\ GiveUp

\* generate_coarse_height() throws.
HeightFault(c) ==
    /\ WantsHeight(c)
    /\ heights[c] = None /\ dHeights[c] = None
    /\ chunks' = IF pc = "acquire" /\ chunks[at] = None
                 THEN [chunks EXCEPT ![at] = Air] ELSE chunks
    /\ GiveUp

-----------------------------------------------------------------------------

Load == (\E c \in Columns : LoadHeight(c)) \/ (\E p \in Pos : LoadChunk(p))

Prepare == \/ SurfaceFromStore \/ SurfaceFromCache \/ SurfaceBuilt
           \/ LightFromStore \/ LightFromCache \/ LightBuilt

Write == \/ AcquireStored \/ AcquireAir \/ StoreFresh \/ Acquired
         \/ Modify \/ CommitChunk
         \/ \E p \in Pos : SkipAir(p) \/ Visit(p)
         \/ Rebuild \/ Relight \/ EndWrite

Start == \E p \in Pos : \/ StartRead(p) \/ StartPrepare(p)
                        \/ \E b \in Block : StartWrite(p, b)

Fault == \/ \E p \in Pos : ChunkFault(p)
         \/ \E c \in Columns : HeightFault(c)

Next == Start \/ Load \/ EndRead \/ Prepare \/ Write \/ Crash \/ Fault

Spec == Init /\ [][Next]_vars

\* The thread that holds the lock runs on; nobody is obliged to start an
\* operation, and nothing has to fail.
Progress == Load \/ EndRead \/ Prepare \/ Write
FairSpec == Spec /\ WF_vars(Progress)
-----------------------------------------------------------------------------
(***************************************************************************)
(* Properties.                                                             *)
(***************************************************************************)

\* The block at p as a reader will see it: get_chunk() looks into the cache,
\* then the store, then asks the generators.
Content(p) == IF chunks[p] # None THEN chunks[p]
              ELSE IF dChunks[p] # None THEN dChunks[p] ELSE Generated[p]

\* The block at p that is left if the server stops now.
Durable(p) == IF dChunks[p] # None THEN dChunks[p] ELSE Generated[p]

\* No operation is in progress and none was ever cut short.
Quiet == pc = "idle" /\ ~torn /\ faults = 0

\* Every chunk in the store lies below the stored coarse height of its
\* column, whatever operation was cut short by a crash: otherwise
\* is_air_chunk() would hide a block that was written or generated.
HeightCovers ==
    \A p \in Pos : dChunks[p] # None =>
        /\ dHeights[Col(p)] # None
        /\ Z(p) < dHeights[Col(p)]

\* A reader gets the block that is stored or will be generated: get_chunk()
\* never lets the height map hide it and never returns a stale copy.
ReadsDurable ==
    pc = "read" /\ Loaded(at) /\ faults = 0 => ChunkAt(at) = Durable(at)

\* Between operations every surface that can be served is the one that
\* build_surface() would make of the present blocks: commit_write() has
\* rebuilt all those a write can change, and no others.
SurfacesFresh ==
    Quiet => \A p \in Pos :
        SurfaceAvailable(p) => SurfaceNow(p).faces = FacesOf(p, Content)

\* Between operations a stored light map has an element for every face of
\* the stored surface it is sent with (lightmap.hpp, scene::build_mesh()).
LightsFit ==
    Quiet => \A p \in Pos :
        dLights[p] # None =>
            dSurfaces[p] # None /\ dLights[p].faces = dSurfaces[p].faces

\* Between operations the caches hold what the store holds, so that it makes
\* no difference that get_compressed_surface() reads one and get_surface()
\* the other.
CachesCoherent ==
    pc = "idle" /\ faults = 0 =>
        /\ \A c \in Columns : heights[c] # None => heights[c] = dHeights[c]
        /\ \A p \in Pos :
            /\ chunks[p] # None => chunks[p] = dChunks[p]
            /\ surfaces[p] # None => surfaces[p] = dSurfaces[p]
            /\ lights[p] # None => lights[p] = dLights[p]

\* A stored surface is only ever replaced by one with a higher version, even
\* across crashes: network::req_chunks() takes equal versions for equal
\* surfaces.
VersionsRise ==
    [][\A p \in Pos : dSurfaces[p] # None =>
        \/ dSurfaces'[p] = dSurfaces[p]
        \/ dSurfaces'[p] # None /\ dSurfaces'[p].version > dSurfaces[p].version
      ]_vars

\* What lightmap.hpp:79-83 says of every light map, and scene::build_mesh()
\* asserts of every one it is sent, crash or no crash.
LightMatchesSurface ==
    pc = "idle" => \A p \in Pos :
        dLights[p] # None /\ dSurfaces[p] # None =>
            Cardinality(dLights[p].faces) = Cardinality(dSurfaces[p].faces)

\* The stored coarse height of a column never falls: clients drop what lies
\* above the height they were told, and are never told to expect less.
HeightsNeverFall ==
    [][\A c \in Columns : dHeights[c] # None =>
        dHeights'[c] # None /\ dHeights'[c] >= dHeights[c]]_vars

\* Every operation ends and gives the lock back.
OperationsEnd == (pc # "idle") ~> (pc = "idle")
\* The detailed world implements the map of blocks: a write takes effect when
\* commit_write() stores the chunk, and no load, generation, height change,
\* crash or failed operation is visible in the blocks.
PendingWrite ==
    CASE pc \in {"acquire", "fresh", "modify"} -> [pos |-> at, block |-> block]
      [] pc = "store" -> [pos |-> at, block |-> chunks[at]]
      [] OTHER -> None

Blocks == INSTANCE BlockMap
            WITH content <- [p \in Pos |-> Durable(p)], pending <- PendingWrite

ImplementsBlockMap == Blocks!Spec
=============================================================================

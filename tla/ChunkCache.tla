----------------------------- MODULE ChunkCache -----------------------------
(***************************************************************************)
(* hexa/client/chunk_cache.cpp between the client's two threads.  The      *)
(* background thread stores the surfaces, light maps and heights that come *)
(* from the server, hands meshes to the scene and cleans up; the render    *)
(* thread looks chunks up.  Each cache has a mutex, held for one call, so  *)
(* a call is one step, and what it returns is a reference into the cache   *)
(* that outlives the lock.                                                 *)
(*                                                                         *)
(* What is stored under a place is a version of its data; unpacking keeps  *)
(* it.  A height is returned by value.  The server sends no update of a    *)
(* light map alone.                                                        *)
(***************************************************************************)
EXTENDS LruOps

CONSTANTS
    Chunks,      \* chunk coordinates
    Columns,     \* map coordinates
    Versions,    \* versions of the data of one place
    Limit,       \* limit_
    HeightShare, \* heights kept for each surface, 8 in the code
    Nothing      \* no place, no record

ASSUME CacheConstants ==
    /\ Limit \in Nat /\ HeightShare \in Nat \ {0}
    /\ Nothing \notin Chunks \cup Columns /\ Nothing \notin Versions

Kinds == {"surface", "light"}

VARIABLES
    cache,       \* surfaces_ and lightmaps_
    heights,     \* heights_
    store,       \* the surfaces and light maps of store_
    heightStore, \* the heights of store_
    bg,          \* the background thread: where it is, and with what chunk
    render,      \* the chunk and kinds the render thread has yet to get
    held,        \* the references each thread has, as <<kind, chunk>>
    dangling     \* those whose pair is gone from the cache

chunkVars == <<cache, heights, store, heightStore, bg, render, held, dangling>>

Readers == {"background", "render"}

Refs == Kinds \X Chunks

BgStages == {"poll", "surface", "stored", "clean surfaces", "clean lights",
             "clean heights"}

CacheTypeOK ==
    /\ \A c \in {cache[kind] : kind \in Kinds} :
          \A i \in DOMAIN c.list : c.list[i] \in [key : Chunks, value : Versions]
    /\ \A i \in DOMAIN heights.list :
          heights.list[i] \in [key : Columns, value : Versions]
    /\ store \in [Kinds -> [Chunks -> Versions \cup {Nothing}]]
    /\ heightStore \in [Columns -> Versions \cup {Nothing}]
    /\ bg \in [at : BgStages, chunk : Chunks \cup {Nothing},
               version : Versions \cup {Nothing}]
    /\ render \in [chunk : Chunks \cup {Nothing}, kinds : SUBSET Kinds]
    /\ held \in [Readers -> SUBSET Refs]
    /\ dangling \in [Readers -> SUBSET Refs]

Polling == [at |-> "poll", chunk |-> Nothing, version |-> Nothing]

NoLook == [chunk |-> Nothing, kinds |-> {}]

\* The store may hold what was stored in an earlier session.
CacheInit ==
    /\ cache = [kind \in Kinds |-> EmptyCache]
    /\ heights = EmptyCache
    /\ store \in {[kind \in Kinds |-> s] :
                     s \in [Chunks -> Versions \cup {Nothing}]}
    /\ heightStore \in [Columns -> Versions \cup {Nothing}]
    /\ bg = Polling /\ render = NoLook
    /\ held = [th \in Readers |-> {}]
    /\ dangling = [th \in Readers |-> {}]

-----------------------------------------------------------------------------
(***************************************************************************)
(* The calls of chunk_cache.                                               *)
(***************************************************************************)

\* is_surface_available(), is_lightmap_available()
Available(kind, p) == Has(cache[kind], p) \/ store[kind][p] # Nothing

\* (Slip: room is made for the new entry.)
PruneAndFetch(c, p, v) == Assigned(Pruned(c, Limit - 1), p, v)

\* What is not in the cache is put there.
Fetched(c, p, v) == Assigned(c, p, v)

\* get_surface(), get_lightmap(): the cache afterwards
Got(c, p, v) == IF Has(c, p) THEN Touched(c, p) ELSE Fetched(c, p, v)

\* The references to pairs that are in one cache and not in the next are left
\* dangling, and stay so when the key comes back in a new pair.
Dangle(kind, next) ==
    dangling' = [th \in Readers |-> dangling[th] \cup
        {r \in held[th] : r[1] = kind /\ ~Has(next, r[2])}]

Get(th, kind, p) ==
    LET next == Got(cache[kind], p, store[kind][p]) IN
    /\ cache' = [cache EXCEPT ![kind] = next]
    /\ held' = [held EXCEPT ![th] = @ \cup {<<kind, p>>}]
    /\ Dangle(kind, next)

Release(th) ==
    /\ held' = [held EXCEPT ![th] = {}]
    /\ dangling' = [dangling EXCEPT ![th] = {}]

\* (Slip: the entry of the old data stays.)
KeepEntry(c, p) == c

\* The old entry goes, the next get finds the new record.
Dropped(c, p) == Removed(c, p)

\* store_surface(), store_lightmap()
Put(kind, p, v) ==
    LET next == Dropped(cache[kind], p) IN
    /\ cache' = [cache EXCEPT ![kind] = next]
    /\ store' = [store EXCEPT ![kind][p] = v]
    /\ Dangle(kind, next)
    /\ UNCHANGED held

-----------------------------------------------------------------------------
(***************************************************************************)
(* The background thread.                                                  *)
(***************************************************************************)

\* main_game::surface_update()
StoreSurface(p, v) ==
    /\ bg.at = "poll"
    /\ Put("surface", p, v)
    /\ bg' = [at |-> "surface", chunk |-> p, version |-> v]
    /\ UNCHANGED <<heights, heightStore, render>>

StoreLight ==
    /\ bg.at = "surface"
    /\ Put("light", bg.chunk, bg.version)
    /\ bg' = [bg EXCEPT !.at = "stored"]
    /\ UNCHANGED <<heights, heightStore, render>>

\* The two arguments of scene::set(), in either order.
GetForScene(kind) ==
    /\ bg.at = "stored" /\ <<kind, bg.chunk>> \notin held["background"]
    /\ Get("background", kind, bg.chunk)
    /\ UNCHANGED <<store, heights, heightStore, bg, render>>

\* scene::set() copies both, for a task.
SetScene ==
    /\ bg.at = "stored" /\ held["background"] = Kinds \X {bg.chunk}
    /\ Release("background")
    /\ bg' = Polling
    /\ UNCHANGED <<cache, store, heights, heightStore, render>>

\* get_coarse_height(), on either thread
GetHeight(x) ==
    /\ heightStore[x] # Nothing \/ Has(heights, x)
    /\ heights' = Got(heights, x, heightStore[x])
    /\ UNCHANGED <<cache, store, heightStore, bg, render, held, dangling>>

\* store_coarse_height()
PutHeight(x, v) ==
    /\ heights' = Assigned(heights, x, v)
    /\ heightStore' = [heightStore EXCEPT ![x] = v]

\* main_game::heightmap_update() stores a height that differs.
StoreHeight(x, v) ==
    /\ bg.at = "poll"
    /\ v # heightStore[x]
    /\ PutHeight(x, v)
    /\ UNCHANGED <<cache, store, bg, render, held, dangling>>

\* cleanup(): one cache after the other
Clean(kind, at, next) ==
    LET pruned == Pruned(cache[kind], Limit) IN
    /\ bg.at = at /\ bg' = [bg EXCEPT !.at = next]
    /\ cache' = [cache EXCEPT ![kind] = pruned]
    /\ Dangle(kind, pruned)
    /\ UNCHANGED <<store, heights, heightStore, render, held>>

CleanHeights ==
    /\ bg.at = "clean heights" /\ bg' = Polling
    /\ heights' = Pruned(heights, Limit * HeightShare)
    /\ UNCHANGED <<cache, store, heightStore, render, held, dangling>>

StartCleanup ==
    /\ bg.at = "poll" /\ bg' = [bg EXCEPT !.at = "clean surfaces"]
    /\ UNCHANGED <<cache, store, heights, heightStore, render, held, dangling>>

Cleanup ==
    \/ StartCleanup
    \/ Clean("surface", "clean surfaces", "clean lights")
    \/ Clean("light", "clean lights", "clean heights")
    \/ CleanHeights

-----------------------------------------------------------------------------
(***************************************************************************)
(* The render thread.                                                      *)
(***************************************************************************)

\* Collision and ray casts look for a surface, chunk_became_visible() for a
\* light map as well, and go on if there is one.
Look(p, kinds) ==
    /\ render = NoLook
    /\ \A kind \in kinds : Available(kind, p)
    /\ render' = [chunk |-> p, kinds |-> kinds]
    /\ UNCHANGED <<cache, store, heights, heightStore, bg, held, dangling>>

GetToDraw(kind) ==
    /\ kind \in render.kinds
    /\ Get("render", kind, render.chunk)
    /\ render' = [render EXCEPT !.kinds = @ \ {kind}]
    /\ UNCHANGED <<store, heights, heightStore, bg>>

\* The ray or the body is done with the surface, or scene::set() has copied it.
DoneWithLook ==
    /\ render # NoLook /\ render.kinds = {}
    /\ render' = NoLook
    /\ Release("render")
    /\ UNCHANGED <<cache, store, heights, heightStore, bg>>

-----------------------------------------------------------------------------

TerrainStep ==
    \/ \E p \in Chunks, v \in Versions : StoreSurface(p, v)
    \/ StoreLight \/ SetScene \/ DoneWithLook
    \/ \E kind \in Kinds : GetForScene(kind) \/ GetToDraw(kind)
    \/ \E p \in Chunks : Look(p, {"surface"}) \/ Look(p, Kinds)

HeightStep == \E x \in Columns :
    GetHeight(x) \/ \E v \in Versions : StoreHeight(x, v)

CacheNext == TerrainStep \/ HeightStep \/ Cleanup

CacheSpec == CacheInit /\ [][CacheNext]_chunkVars

-----------------------------------------------------------------------------
(***************************************************************************)
(* Properties.                                                             *)
(***************************************************************************)

\* What is cached of a place is what is stored of it, so that who reads the
\* cache sees the last update, and the assertions of get_surface() and
\* get_lightmap() hold: what was available a moment ago still is.
CachedIsStored ==
    /\ \A kind \in Kinds, p \in Chunks :
          Has(cache[kind], p) => Value(cache[kind], p) = store[kind][p]
    /\ \A x \in Columns :
          Has(heights, x) => Value(heights, x) = heightStore[x]
    /\ \A kind \in render.kinds : store[kind][render.chunk] # Nothing

\* The two references surface_update() passes to the scene are alive until the
\* scene has copied what they refer to, and refer to the surface and the light
\* map of the update: only the thread itself removes and prunes.
UpdateReachesScene ==
    /\ dangling["background"] = {}
    /\ \A r \in held["background"] :
          Has(cache[r[1]], r[2]) /\ Value(cache[r[1]], r[2]) = bg.version
=============================================================================

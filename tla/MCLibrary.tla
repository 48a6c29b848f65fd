----------------------------- MODULE MCLibrary -----------------------------
(* The parts that share no state: the thread pool, the cache, the chunk    *)
(* cache made of such caches, its chunks and its heights apart since no    *)
(* step is about both, the chunks in view, the states of the client, the   *)
(* area data of the server, and its terrain generators.  A behaviour is    *)
(* one of one part, with the others at rest.                               *)
EXTENDS ThreadPool, LruCache, ChunkCache, DistanceMap, GameStates,
        AreaData, Terrain

VARIABLE part

vars == <<part, poolVars, lruVars, chunkVars, mapVars, stateVars, areaVars,
          terrainVars>>

\* A corner of the sphere of two chunks, and a line across it.
NearPositions ==
    {<<0, 0, 0>>, <<1, 0, 0>>, <<1, 1, 0>>, <<1, 1, 1>>, <<2, 1, 0>>}

\* No module twice, and one that may give anything at most.
ShortChains ==
    {c \in UNION {[1 .. n -> Modules] : n \in 0 .. 3} :
        \A i, j \in DOMAIN c :
            c[i] = c[j] \/ {c[i], c[j]} = {"caves", "testpattern"} => i = j}

SomeHeights == {-2, 3}

Everywhere(z) == [s \in Spots |-> z]

\* The same water level everywhere, and what the chain does not use is low.
OnlyWhatIsUsed ==
    /\ areas["waterlevel"] = Everywhere(IF Uses("water") THEN 3 ELSE -2)
    /\ ~Uses("ground") => areas["heightmap"] = Everywhere(-2)

SoilOfSpots == [s \in Spots |-> IF s = 1 THEN <<"grass", "dirt">> ELSE <<"sand">>]

Init ==
    /\ part \in {"pool", "cache", "chunks", "heights", "view", "states", "areas",
                "terrain"}
    /\ PoolInit /\ LruInit /\ CacheInit /\ MapInit /\ StatesInit /\ AreasInit
    /\ part # "chunks" =>
          \A kind \in Kinds, p \in Chunks : store[kind][p] = Nothing
    /\ part # "heights" => \A x \in Columns : heightStore[x] = Nothing
    /\ part # "view" => viewDist = 1 /\ pos = <<0, 0, 0>>
    /\ part # "areas" => inputs = {}
    /\ TerrainInit /\ OnlyWhatIsUsed
    /\ part # "terrain" => chain = <<>>

Step(p, others) == part = p /\ UNCHANGED <<part, others>>

Next ==
    \/ /\ PoolNext
       /\ Step("pool", <<lruVars, chunkVars, mapVars, stateVars, areaVars, terrainVars>>)
    \/ /\ LruNext
       /\ Step("cache", <<poolVars, chunkVars, mapVars, stateVars, areaVars, terrainVars>>)
    \/ /\ TerrainStep \/ Cleanup
       /\ Step("chunks", <<poolVars, lruVars, mapVars, stateVars, areaVars, terrainVars>>)
    \/ /\ HeightStep \/ Cleanup
       /\ Step("heights", <<poolVars, lruVars, mapVars, stateVars, areaVars, terrainVars>>)
    \/ /\ MapNext
       /\ Step("view", <<poolVars, lruVars, chunkVars, stateVars, areaVars, terrainVars>>)
    \/ /\ StatesNext
       /\ Step("states", <<poolVars, lruVars, chunkVars, mapVars, areaVars, terrainVars>>)
    \/ /\ AreasNext
       /\ Step("areas", <<poolVars, lruVars, chunkVars, mapVars, stateVars, terrainVars>>)
    \/ /\ TerrainNext
       /\ Step("terrain", <<poolVars, lruVars, chunkVars, mapVars, stateVars, areaVars>>)

Fairness ==
    /\ part = "pool" => PoolFairness
    /\ part = "states" => StatesFairness

Spec == Init /\ [][Next]_vars /\ Fairness

TypeOK ==
    /\ PoolTypeOK /\ LruTypeOK /\ CacheTypeOK /\ MapTypeOK /\ StatesTypeOK
    /\ AreasTypeOK /\ TerrainTypeOK

\* A task that is accepted is run, once, and before the pool is gone.
ImplementsTaskBag == Bag!BagSpec
=============================================================================

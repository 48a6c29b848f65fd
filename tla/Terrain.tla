------------------------------ MODULE Terrain ------------------------------
(***************************************************************************)
(* The chain of terrain generators (server/terrain/ and the loops over     *)
(* terraingen_ in server/world.cpp), for one column of chunks.  The chain  *)
(* is gone through once for each area, once for the coarse height, and     *)
(* once for every chunk, and the three say the same thing in different     *)
(* numbers: 16 bits around the center of the world, chunks, and blocks in  *)
(* a chunk.                                                                *)
(*                                                                         *)
(* When the areas are made is in AreaData; here they come first, with a    *)
(* surface that starts at the lowest value there is, the default of        *)
(* fixed_value_area_generator.  What caves and the test pattern look like  *)
(* is left open.                                                           *)
(***************************************************************************)
EXTENDS Integers, Sequences

CONSTANTS
    ChunkSize,   \* chunk_size, 16
    MidChunk,    \* world_chunk_center.z, 2^27
    HalfRange,   \* 2^15: areas hold int16_t
    Spots,       \* the (x, y) of a chunk
    Soil,        \* what soil_generator puts on top, by the biome of the spot
    Levels,      \* heights of a flatworld
    Given,       \* values of the areas that come from scripts
    Chains       \* the chains of modules that games configure

WorldCenter == ChunkSize * MidChunk

WorldLimit == 2 * MidChunk

\* All bits set: no height gets there.
UndefinedHeight == ChunkSize * WorldLimit - 1

\* "ground" and "water" are two of heightmap_terrain, as in the default game.
Modules == {"flat", "ground", "water", "caves", "soil", "testpattern"}

HeightmapOf == [ground |-> "heightmap", water |-> "waterlevel"]

AreaNames == {"heightmap", "waterlevel", "surface"}

AreaValue == -HalfRange .. HalfRange - 1

Materials ==
    {"air", "stone", "water"}
        \cup UNION {{Soil[s][i] : i \in DOMAIN Soil[s]} : s \in Spots}

ASSUME TerrainConstants ==
    /\ ChunkSize \in Nat /\ ChunkSize >= 2
    /\ MidChunk \in Nat /\ MidChunk >= 1
    /\ HalfRange \in Nat /\ HalfRange >= 1 /\ HalfRange <= WorldCenter
    /\ WorldCenter % (2 * HalfRange) = 0
    /\ Spots # {}
    /\ Levels \subseteq 0 .. WorldLimit
    /\ Given \subseteq -HalfRange .. HalfRange - 1
    /\ \A c \in Chains : c \in Seq(Modules)

\* A layer of the soil has a material that is known: an unknown one would be air.
ASSUME SoilMaterials ==
    \A s \in Spots : Soil[s] \in Seq(Materials \ {"air"})

Inside == Spots \X (0 .. ChunkSize - 1)

Empty == [b \in Inside |-> "air"]

VARIABLES
    chain,    \* terraingen_
    level,    \* level_ of the flatworld
    areas,    \* the area data of the column
    loop,     \* which loop over the chain: an area, "height" or "chunk"
    turn,     \* the next module in it
    height,   \* the coarse height
    at,       \* the chunk that is made, its z
    cnk       \* its blocks

terrainVars == <<chain, level, areas, loop, turn, height, at, cnk>>

TerrainTypeOK ==
    /\ chain \in Seq(Modules)
    /\ level \in Levels
    /\ areas \in [AreaNames -> [Spots -> AreaValue]]
    /\ loop \in {"heightmap", "surface", "height", "chunk"}
    /\ turn \in 1 .. Len(chain) + 1
    /\ height \in (0 .. WorldLimit) \cup {UndefinedHeight}
    /\ at \in 0 .. WorldLimit - 1
    /\ cnk \in [Inside -> Materials]

TerrainInit ==
    /\ chain \in Chains
    /\ level \in Levels
    /\ \E ground, water \in [Spots -> Given] :
          areas = [heightmap |-> ground, waterlevel |-> water,
                   surface |-> [s \in Spots |-> -HalfRange]]
    /\ loop = "heightmap" /\ turn = 1
    /\ height = UndefinedHeight
    /\ at = 0 /\ cnk = Empty

-----------------------------------------------------------------------------

\* static_cast<int16_t>
Int16(v) == ((v + HalfRange) % (2 * HalfRange)) - HalfRange

Higher(a, b) == IF a < b THEN b ELSE a

Lower(a, b) == IF a < b THEN a ELSE b

Is(module) == turn <= Len(chain) /\ chain[turn] = module

IsHeightmapTerrain == Is("ground") \/ Is("water")

AllAsked == turn > Len(chain)

\* world_center.z + hm(x, y)
TopOf(area, s) == WorldCenter + areas[area][s]

\* A module's generate() for an area that is not its business, or a chunk that
\* it leaves as it is.
Skip == turn' = turn + 1 /\ UNCHANGED <<areas, height, cnk>>

-----------------------------------------------------------------------------
(***************************************************************************)
(* The loop over an area (get_area_data_writable()).                       *)
(***************************************************************************)

Raise(values) ==
    /\ areas' = [areas EXCEPT ![loop] = [s \in Spots |-> Higher(@[s], values[s])]]
    /\ turn' = turn + 1
    /\ UNCHANGED <<height, cnk>>

FlatValue == Int16(level * ChunkSize)

PassOver ==
    /\ loop \in {"heightmap", "surface"}
    /\ \/ Is("flat") /\ Raise([s \in Spots |-> FlatValue])
       \/ /\ IsHeightmapTerrain /\ loop = "surface"
          /\ Raise(areas[HeightmapOf[chain[turn]]])
       \/ IsHeightmapTerrain /\ loop # "surface" /\ Skip
       \/ (Is("caves") \/ Is("soil") \/ Is("testpattern")) /\ Skip
    /\ UNCHANGED <<chain, level, loop, at>>

-----------------------------------------------------------------------------
(***************************************************************************)
(* The loop for the coarse height (generate_coarse_height()).              *)
(***************************************************************************)

\* (Slip: the last generator decides.)
HigherOrLast(e) == IF e # UndefinedHeight THEN e ELSE height

HighestSoFar(e) ==
    IF e # UndefinedHeight /\ (height = UndefinedHeight \/ height < e)
    THEN e ELSE height

Estimated(e) ==
    /\ height' = HighestSoFar(e)
    /\ turn' = turn + 1
    /\ UNCHANGED <<areas, cnk>>

\* std::max_element
IsHighest(area, s) == \A t \in Spots : areas[area][t] <= areas[area][s]

\* The chunk above the highest block, or the one after.
ChunkAbove(z) == (z \div ChunkSize) + 1

\* estimate_height() of each
EstimateHeight ==
    /\ loop = "height"
    /\ \/ Is("flat") /\ Estimated(level)
       \/ /\ IsHeightmapTerrain
          /\ \E s \in Spots :
                /\ IsHighest(HeightmapOf[chain[turn]], s)
                /\ Estimated(ChunkAbove(TopOf(HeightmapOf[chain[turn]], s)))
       \/ Is("testpattern") /\ Estimated(WorldLimit)
       \/ (Is("caves") \/ Is("soil")) /\ Estimated(UndefinedHeight)
    /\ UNCHANGED <<chain, level, loop, at>>

-----------------------------------------------------------------------------
(***************************************************************************)
(* The loop for a chunk (generate_chunk()).                                *)
(***************************************************************************)

Generated(blocks) ==
    /\ cnk' = blocks
    /\ turn' = turn + 1
    /\ UNCHANGED <<areas, height>>

FlatBlocks == IF at < level THEN [b \in Inside |-> "stone"] ELSE cnk

\* (Slip: std::min<int16_t>.)
FilledSigned(s, top) ==
    LET bottom == at * ChunkSize
    IN  IF top > bottom THEN Lower(Int16(top - bottom), ChunkSize) ELSE 0

\* How many blocks of the chunk are below the top; uint16_t cuts the distance.
Filled(s, top) ==
    LET bottom == at * ChunkSize
    IN  IF top > bottom THEN Lower((top - bottom) % (2 * HalfRange), ChunkSize) ELSE 0

FillOf == [ground |-> "stone", water |-> "water"]

HeightmapBlocks(module) ==
    [b \in Inside |->
        IF cnk[b] = "air" /\ b[2] < Filled(b[1], TopOf(HeightmapOf[module], b[1]))
        THEN FillOf[module] ELSE cnk[b]]

\* convert_height_16bit()
ZOffset == Int16(at * ChunkSize - WorldCenter)

\* (Slip: soil that begins above the chunk is not looked at.)
AboveOrBelow(s, lz) == lz <= ZOffset \/ lz > ZOffset + ChunkSize

\* The soil of the spot does not reach the chunk.
OutOfReach(s, lz) ==
    lz <= ZOffset \/ lz - Len(Soil[s]) > ZOffset + ChunkSize

\* How far the block is into the soil, from 1.
Layer(b) == areas["surface"][b[1]] - ZOffset - b[2]

SoilBlocks ==
    [b \in Inside |->
        IF /\ ~OutOfReach(b[1], areas["surface"][b[1]])
           /\ cnk[b] = "stone" /\ Layer(b) \in DOMAIN Soil[b[1]]
        THEN Soil[b[1]][Layer(b)] ELSE cnk[b]]

SoilStep == Is("soil") /\ Generated(SoilBlocks)

CaveStep ==
    /\ Is("caves")
    /\ \E carved \in SUBSET Inside :
          Generated([b \in Inside |-> IF b \in carved THEN "air" ELSE cnk[b]])

PatternStep ==
    /\ Is("testpattern")
    /\ \E solid \in SUBSET Inside :
          Generated([b \in Inside |-> IF b \in solid THEN "stone" ELSE "air"])

Generate ==
    /\ loop = "chunk"
    /\ \/ Is("flat") /\ Generated(FlatBlocks)
       \/ IsHeightmapTerrain /\ Generated(HeightmapBlocks(chain[turn]))
       \/ CaveStep \/ SoilStep \/ PatternStep
    /\ UNCHANGED <<chain, level, loop, at>>

-----------------------------------------------------------------------------

NextArea ==
    /\ AllAsked /\ loop \in {"heightmap", "surface"}
    /\ loop' = IF loop = "heightmap" THEN "surface" ELSE "height"
    /\ turn' = 1
    /\ UNCHANGED <<chain, level, areas, height, at, cnk>>

\* Any chunk of the column, also one that get_chunk() takes for air unseen:
\* that the generators would agree is what it relies on.
BeginChunk(z) ==
    /\ AllAsked /\ loop \in {"height", "chunk"}
    /\ height' = IF height = UndefinedHeight THEN WorldLimit ELSE height
    /\ loop' = "chunk" /\ turn' = 1
    /\ at' = z /\ cnk' = Empty
    /\ UNCHANGED <<chain, level, areas>>

TerrainNext ==
    \/ PassOver \/ EstimateHeight \/ Generate \/ NextArea
    \/ \E z \in 0 .. WorldLimit - 1 : BeginChunk(z)

TerrainSpec == TerrainInit /\ [][TerrainNext]_terrainVars

-----------------------------------------------------------------------------
(***************************************************************************)
(* Properties.                                                             *)
(***************************************************************************)

\* "All chunks with a z ordinate of this value or more are guaranteed to be
\* only air" (terrain_generator_i.hpp:65), for the chain as a whole: what the
\* world makes of the estimates holds for every chunk it could generate, after
\* every module.
EstimateHolds ==
    loop = "chunk" /\ at >= height => cnk = Empty

\* The chunk, or the level, has a height in 16 bits, "which is limited to 65,000
\* vertical range" (basic_types.hpp:205).
InRange(z) ==
    /\ z * ChunkSize >= WorldCenter - HalfRange
    /\ (z + 1) * ChunkSize <= WorldCenter + HalfRange

\* The height of a block like that of an area, without the arithmetic of the
\* generators.
HeightOf(b) == at * ChunkSize + b[2] - WorldCenter

Uses(module) == \E i \in DOMAIN chain : chain[i] = module

\* The surface map and the chunks are of one terrain: in a finished chunk there
\* is nothing from the surface upward, and no gap below it that is not a cave.
\* The soil goes by that map, in whatever order the modules are.
SurfaceIsTop ==
    /\ loop = "chunk" /\ AllAsked /\ ~Uses("testpattern")
    /\ InRange(at) /\ (Uses("flat") => InRange(level))
    =>
        \A b \in Inside :
            /\ HeightOf(b) >= areas["surface"][b[1]] => cnk[b] = "air"
            /\ HeightOf(b) < areas["surface"][b[1]] /\ ~Uses("caves") => cnk[b] # "air"

\* The soil goes over the top blocks of the ground, each to its depth, no
\* matter where the border between two chunks is, and over nothing else.
SoilIsWhole ==
    [][loop = "chunk" /\ Is("soil") /\ InRange(at) =>
        \A b \in Inside :
            LET depth == areas["surface"][b[1]] - HeightOf(b)
            IN  cnk'[b] = IF cnk[b] = "stone" /\ depth \in DOMAIN Soil[b[1]]
                          THEN Soil[b[1]][depth] ELSE cnk[b]]_terrainVars
=============================================================================

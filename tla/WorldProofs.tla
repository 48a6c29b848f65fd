---------------------------- MODULE WorldProofs ----------------------------
(***************************************************************************)
(* Theorems about World, for every set of columns, every depth, every      *)
(* generator that keeps its contract, and any number of writes, crashes    *)
(* and faults.                                                             *)
(***************************************************************************)
EXTENDS World, TLAPS

\* What the program counter says about the entries of the position it is at.
StageInv ==
    /\ pc = "light" => dSurfaces[at] # None
    /\ pc = "relight" => surfaces[at] # None
    /\ pc \in {"modify", "store"} => chunks[at] # None

TypeInv == TypeOK /\ StageInv

LEMMA PosParts == \A p \in Pos : Col(p) \in Columns /\ Z(p) \in 0 .. Depth - 1
BY DEF Pos, Col, Z

LEMMA DepthType == Depth \in Nat \ {0}
BY WorldShape

LEMMA FacesType == \A p \in Pos : BuiltFaces(p) \in SUBSET Pos
BY DEF BuiltFaces, FacesOf, Sides

LEMMA SurfaceNowType ==
    ASSUME TypeOK, NEW p \in Pos, SurfaceAvailable(p)
    PROVE  SurfaceNow(p) \in Surface
BY DEF TypeOK, SurfaceAvailable, SurfaceNow

LEMMA NextVersionType ==
    ASSUME TypeOK, NEW p \in Pos
    PROVE  NextVersion(p) \in Nat
BY SurfaceNowType DEF NextVersion, Surface

LEMMA TypeInit == Init => TypeInv
<1> SUFFICES ASSUME Init PROVE TypeInv
  OBVIOUS
<1>1. writes \in 0 .. MaxWrites /\ crashes \in 0 .. MaxCrashes /\ faults \in 0 .. MaxFaults
  BY Bounds DEF Init
<1>2. torn \in BOOLEAN
  BY Zenon DEF Init
<1>. QED
  BY <1>1, <1>2 DEF Init, TypeInv, TypeOK, StageInv, Stages

LEMMA TypeStep == TypeInv /\ [Next]_vars => TypeInv'
<1> SUFFICES ASSUME TypeInv, [Next]_vars PROVE TypeInv'
  OBVIOUS
<1> USE PosParts, DepthType, NoneIsNoValue DEF TypeInv, StageInv
<1>1. ASSUME NEW p \in Pos, StartRead(p) PROVE TypeInv'
  BY <1>1 DEF StartRead, TypeOK, Stages, caches, disk, thread, counters
<1>2. ASSUME NEW p \in Pos, StartPrepare(p) PROVE TypeInv'
  BY <1>2 DEF StartPrepare, TypeOK, Stages, caches, disk, thread, counters
<1>3. ASSUME NEW p \in Pos, NEW b \in Block, StartWrite(p, b) PROVE TypeInv'
  BY <1>3, Bounds DEF StartWrite, TypeOK, Stages, caches, disk, thread, counters
<1>4. ASSUME NEW c \in Columns, LoadHeight(c) PROVE TypeInv'
  BY <1>4, GeneratorContract DEF LoadHeight, TypeOK, Stages, thread, counters
<1>5. ASSUME NEW p \in Pos, LoadChunk(p) PROVE TypeInv'
  BY <1>5, GeneratorContract DEF LoadChunk, ChunkFor, TypeOK, Stages, thread, counters
<1>6. ASSUME EndRead PROVE TypeInv'
  BY <1>6 DEF EndRead, Release, TypeOK, Stages, caches, disk, counters
<1>7. ASSUME SurfaceFromStore PROVE TypeInv'
  BY <1>7 DEF SurfaceFromStore, TypeOK, Stages, caches, disk, counters
<1>8. ASSUME SurfaceFromCache PROVE TypeInv'
  BY <1>8 DEF SurfaceFromCache, TypeOK, Stages, caches, counters
<1>9. ASSUME SurfaceBuilt PROVE TypeInv'
  BY <1>9, FacesType DEF SurfaceBuilt, PutSurface, Surface, TypeOK, Stages, caches, counters
<1>10. ASSUME LightFromStore PROVE TypeInv'
  BY <1>10 DEF LightFromStore, Release, TypeOK, Stages, caches, disk, counters
<1>11. ASSUME LightFromCache PROVE TypeInv'
  BY <1>11 DEF LightFromCache, Release, TypeOK, Stages, caches, counters
<1>12. ASSUME LightBuilt PROVE TypeInv'
  <2>1. SurfaceNow(at) \in Surface
    BY <1>12, SurfaceNowType DEF LightBuilt, SurfaceAvailable, TypeOK
  <2>2. LightFor(at) \in Light
    BY <2>1 DEF LightFor, Light, Surface
  <2>. QED BY <1>12, <2>1, <2>2 DEF LightBuilt, PutLight, Release, TypeOK, Stages, counters
<1>13. ASSUME AcquireStored PROVE TypeInv'
  BY <1>13 DEF AcquireStored, TypeOK, Stages, disk, counters
<1>14. ASSUME AcquireAir PROVE TypeInv'
  BY <1>14 DEF AcquireAir, RaiseHeight, Height, TypeOK, Stages, counters
<1>15. ASSUME StoreFresh PROVE TypeInv'
  BY <1>15 DEF StoreFresh, Block, TypeOK, Stages, counters
<1>16. ASSUME Acquired PROVE TypeInv'
  BY <1>16 DEF Acquired, TypeOK, Stages, caches, disk, counters
<1>17. ASSUME Modify PROVE TypeInv'
  BY <1>17 DEF Modify, AdjustHeight, RaiseHeight, Height, TypeOK, Stages, counters
<1>18. ASSUME CommitChunk PROVE TypeInv'
  BY <1>18 DEF CommitChunk, Neumann, Sides, TypeOK, Stages, caches, counters
<1>19. ASSUME NEW p \in Pos, SkipAir(p) PROVE TypeInv'
  BY <1>19 DEF SkipAir, TypeOK, Stages, caches, disk, counters
<1>20. ASSUME NEW p \in Pos, Visit(p) PROVE TypeInv'
  BY <1>20 DEF Visit, TypeOK, Stages, caches, disk, counters
<1>21. ASSUME Rebuild PROVE TypeInv'
  BY <1>21, FacesType, NextVersionType
     DEF Rebuild, PutSurface, Surface, TypeOK, Stages, counters
<1>22. ASSUME Relight PROVE TypeInv'
  <2>1. SurfaceNow(at) \in Surface
    BY <1>22, SurfaceNowType DEF Relight, SurfaceAvailable, TypeOK
  <2>2. LightFor(at) \in Light
    BY <2>1 DEF LightFor, Light, Surface
  <2>. QED BY <1>22, <2>1, <2>2 DEF Relight, PutLight, TypeOK, Stages, counters
<1>23. ASSUME EndWrite PROVE TypeInv'
  BY <1>23 DEF EndWrite, Release, TypeOK, Stages, caches, disk, counters
<1>24. ASSUME Crash PROVE TypeInv'
  BY <1>24, Bounds DEF Crash, Release, TypeOK, Stages, disk, counters
<1>25. ASSUME TypeOK, GiveUp, chunks' \in [Pos -> Block \cup {None}] PROVE TypeInv'
  <2>1. pc = "light" => SurfaceNow(at) \in Surface /\ LightFor(at) \in Light
    BY <1>25, SurfaceNowType DEF SurfaceAvailable, TypeOK, LightFor, Light, Surface
  <2>2. surfaces' \in [Pos -> Surface \cup {None}]
    BY <1>25, <2>1 DEF GiveUp, TypeOK, EmptySurface, Surface
  <2>3. lights' \in [Pos -> Light \cup {None}]
    BY <1>25, <2>1 DEF GiveUp, TypeOK, Light
  <2>. QED BY <1>25, <2>2, <2>3, Bounds DEF GiveUp, Release, TypeOK, Stages, disk, counters
<1>26. ASSUME NEW p \in Pos, ChunkFault(p) PROVE TypeInv'
  BY <1>26, <1>25 DEF ChunkFault, TypeOK, Block
<1>27. ASSUME NEW c \in Columns, HeightFault(c) PROVE TypeInv'
  BY <1>27, <1>25 DEF HeightFault, TypeOK, Block
<1>28. CASE UNCHANGED vars
  BY <1>28 DEF vars, caches, disk, thread, counters, TypeOK
<1>29. QED
  BY <1>1, <1>2, <1>3, <1>4, <1>5, <1>6, <1>7, <1>8, <1>9, <1>10, <1>11, <1>12,
     <1>13, <1>14, <1>15, <1>16, <1>17, <1>18, <1>19, <1>20, <1>21, <1>22, <1>23,
     <1>24, <1>26, <1>27, <1>28
  DEF Next, Start, Load, Prepare, Write, Fault

\* Every variable keeps its type, and a light map is only ever made for a
\* surface that is there (world.cpp, all operations).
THEOREM TypeCorrect == Spec => []TypeOK
<1>1. TypeInv => TypeOK
  BY DEF TypeInv
<1>2. QED
  BY <1>1, TypeInit, TypeStep, PTL DEF Spec
-----------------------------------------------------------------------------
(***************************************************************************)
(* Coarse heights.  HeightCovers is not inductive: it needs that the cache *)
(* agrees with the store, that no height is below the estimate, and that   *)
(* the height has been raised by the time a chunk is about to be stored.   *)
(***************************************************************************)

HeightInv ==
    /\ HeightCovers
    /\ \A c \in Columns : heights[c] # None => heights[c] = dHeights[c]
    /\ \A c \in Columns : dHeights[c] # None => dHeights[c] >= Estimate[c]
    /\ pc \in {"fresh", "store"} =>
         heights[Col(at)] # None /\ Z(at) < heights[Col(at)]
    /\ pc = "fresh" => dChunks[at] = None /\ Generated[at] = Air

\* Actions that leave the heights and the stored chunks alone.
LEMMA HeightFrame ==
    ASSUME TypeInv, HeightInv,
           UNCHANGED <<heights, dHeights, dChunks>>,
           pc' \notin {"fresh", "store"}
    PROVE  HeightInv'
BY DEF HeightInv, HeightCovers

LEMMA HeightInit == Init => HeightInv
BY DEF Init, HeightInv, HeightCovers, Pos, Col

LEMMA HeightStep == TypeInv /\ HeightInv /\ [Next]_vars => HeightInv'
<1> SUFFICES ASSUME TypeInv, HeightInv, [Next]_vars PROVE HeightInv'
  OBVIOUS
<1> USE PosParts, DepthType, NoneIsNoValue
<1>1. ASSUME NEW p \in Pos, StartRead(p) PROVE HeightInv'
  BY <1>1, HeightFrame DEF StartRead, caches, disk
<1>2. ASSUME NEW p \in Pos, StartPrepare(p) PROVE HeightInv'
  BY <1>2, HeightFrame DEF StartPrepare, caches, disk
<1>3. ASSUME NEW p \in Pos, NEW b \in Block, StartWrite(p, b) PROVE HeightInv'
  BY <1>3, HeightFrame DEF StartWrite, caches, disk
<1>4. ASSUME EndRead PROVE HeightInv'
  BY <1>4, HeightFrame DEF EndRead, Release, caches, disk
<1>5. ASSUME SurfaceFromStore PROVE HeightInv'
  BY <1>5, HeightFrame DEF SurfaceFromStore, caches, disk
<1>6. ASSUME SurfaceFromCache PROVE HeightInv'
  BY <1>6, HeightFrame DEF SurfaceFromCache, caches
<1>7. ASSUME SurfaceBuilt PROVE HeightInv'
  BY <1>7, HeightFrame DEF SurfaceBuilt
<1>8. ASSUME LightFromStore PROVE HeightInv'
  BY <1>8, HeightFrame DEF LightFromStore, Release, caches, disk
<1>9. ASSUME LightFromCache PROVE HeightInv'
  BY <1>9, HeightFrame DEF LightFromCache, Release, caches
<1>10. ASSUME LightBuilt PROVE HeightInv'
  BY <1>10, HeightFrame DEF LightBuilt, Release
<1>11. ASSUME AcquireStored PROVE HeightInv'
  BY <1>11, HeightFrame DEF AcquireStored, disk
<1>12. ASSUME Acquired PROVE HeightInv'
  BY <1>12, HeightFrame DEF Acquired, caches, disk
<1>13. ASSUME NEW p \in Pos, SkipAir(p) PROVE HeightInv'
  BY <1>13, HeightFrame DEF SkipAir, caches, disk
<1>14. ASSUME NEW p \in Pos, Visit(p) PROVE HeightInv'
  BY <1>14, HeightFrame DEF Visit, caches, disk
<1>15. ASSUME Rebuild PROVE HeightInv'
  BY <1>15, HeightFrame DEF Rebuild
<1>16. ASSUME Relight PROVE HeightInv'
  BY <1>16, HeightFrame DEF Relight
<1>17. ASSUME EndWrite PROVE HeightInv'
  BY <1>17, HeightFrame DEF EndWrite, Release, caches, disk
<1>18. ASSUME NEW p \in Pos, ChunkFault(p) PROVE HeightInv'
  BY <1>18, HeightFrame DEF ChunkFault, GiveUp, Release, disk
<1>19. ASSUME NEW c \in Columns, HeightFault(c) PROVE HeightInv'
  BY <1>19, HeightFrame DEF HeightFault, GiveUp, Release, disk
<1>20. ASSUME NEW c \in Columns, LoadHeight(c) PROVE HeightInv'
  BY <1>20, GeneratorContract DEF LoadHeight, HeightInv, HeightCovers, TypeInv, TypeOK, Height, thread
<1>21. ASSUME NEW p \in Pos, LoadChunk(p) PROVE HeightInv'
  BY <1>21 DEF LoadChunk, Wants, MustBuild, MustLight, IsAir, HeightInv, HeightCovers, TypeInv, TypeOK, Height, thread
<1>22. ASSUME AcquireAir PROVE HeightInv'
  <2> DEFINE c == Col(at)
  <2>1. /\ at \in Pos /\ c \in Columns /\ Z(at) \in Int
        /\ heights[c] = dHeights[c] /\ heights[c] \in Int
        /\ Z(at) >= heights[c] /\ heights[c] >= Estimate[c]
        /\ Estimate[c] \in Int
    BY <1>22, GeneratorContract
       DEF AcquireAir, IsAir, HeightInv, TypeInv, TypeOK, Height
  <2>2. Generated[at] = Air
    BY <2>1, GeneratorContract
  <2>3. /\ heights' = [heights EXCEPT ![c] = Z(at) + 1]
        /\ dHeights' = [dHeights EXCEPT ![c] = Z(at) + 1]
        /\ pc' = "fresh" /\ at' = at
        /\ dChunks' = dChunks /\ dChunks[at] = None
    BY <1>22 DEF AcquireAir, RaiseHeight
  <2>4. HeightCovers'
    BY <2>1, <2>3 DEF HeightInv, HeightCovers, TypeInv, TypeOK, Height
  <2>5. \A d \in Columns : heights'[d] # None => heights'[d] = dHeights'[d]
    BY <2>1, <2>3 DEF HeightInv, TypeInv, TypeOK
  <2>6. \A d \in Columns : dHeights'[d] # None => dHeights'[d] >= Estimate[d]
    BY <2>1, <2>3 DEF HeightInv, TypeInv, TypeOK
  <2>7. heights'[c] # None /\ Z(at) < heights'[c]
    BY <2>1, <2>3 DEF TypeInv, TypeOK, Height
  <2>. QED
    BY <2>2, <2>3, <2>4, <2>5, <2>6, <2>7 DEF HeightInv
<1>23. ASSUME StoreFresh PROVE HeightInv'
  BY <1>23 DEF StoreFresh, HeightInv, HeightCovers, TypeInv, TypeOK, Height
<1>24. ASSUME Modify PROVE HeightInv'
  BY <1>24, GeneratorContract DEF Modify, AdjustHeight, RaiseHeight, IsAir, HeightInv, HeightCovers, TypeInv, TypeOK, Height
<1>25. ASSUME CommitChunk PROVE HeightInv'
  BY <1>25 DEF CommitChunk, HeightInv, HeightCovers, TypeInv, TypeOK, Height, caches
<1>26. ASSUME Crash PROVE HeightInv'
  BY <1>26 DEF Crash, Release, HeightInv, HeightCovers, disk
<1>27. CASE UNCHANGED vars
  BY <1>27 DEF vars, caches, disk, thread, HeightInv, HeightCovers
<1>. QED
  BY <1>1, <1>2, <1>3, <1>4, <1>5, <1>6, <1>7, <1>8, <1>9, <1>10, <1>11, <1>12, <1>13, <1>14, <1>15, <1>16, <1>17, <1>18, <1>19, <1>20, <1>21, <1>22, <1>23, <1>24, <1>25, <1>26, <1>27
  DEF Next, Start, Load, Prepare, Write, Fault

\* No chunk is ever stored above the stored coarse height, whatever crashes
\* and faults there are: adjust_coarse_height() comes before the put of the
\* chunk in commit_write() and in get_chunk_writable().
THEOREM HeightsCoverChunks == Spec => []HeightCovers
<1>1. TypeInv /\ HeightInv => HeightCovers
  BY DEF HeightInv
<1>2. QED
  BY <1>1, TypeInit, TypeStep, HeightInit, HeightStep, PTL DEF Spec
\* The stored height of a column never falls (set_coarse_height() is only
\* called for a new column and by adjust_coarse_height()).
THEOREM HeightsRise == Spec => HeightsNeverFall
<1> DEFINE Rises == \A c \in Columns : dHeights[c] # None =>
                        dHeights'[c] # None /\ dHeights'[c] >= dHeights[c]
<1>1. TypeInv /\ HeightInv /\ [Next]_vars => [Rises]_vars
  <2> SUFFICES ASSUME TypeInv, HeightInv, [Next]_vars, vars' # vars
               PROVE  Rises
    BY DEF Rises
  <2> USE PosParts, DepthType, NoneIsNoValue
  <2>1. CASE UNCHANGED dHeights
    BY <2>1 DEF TypeInv, TypeOK, Height
  <2>2. ASSUME NEW c \in Columns, LoadHeight(c) PROVE Rises
    BY <2>2, GeneratorContract DEF LoadHeight, TypeInv, TypeOK, Height
  <2>3. ASSUME NEW p \in Pos, IsAir(p), RaiseHeight(p) PROVE Rises
    BY <2>3 DEF IsAir, RaiseHeight, HeightInv, TypeInv, TypeOK, Height
  <2>4. CASE AcquireAir
    BY <2>4, <2>3 DEF AcquireAir, TypeInv, TypeOK
  <2>5. CASE Modify
    BY <2>5, <2>3, <2>1 DEF Modify, AdjustHeight, TypeInv, TypeOK
  <2>. QED
    BY <2>1, <2>2, <2>4, <2>5
    DEF Next, Start, Load, Prepare, Write, Fault, caches, disk, GiveUp,
        StartRead, StartPrepare, StartWrite, LoadChunk, EndRead,
        SurfaceFromStore, SurfaceFromCache, SurfaceBuilt, LightFromStore,
        LightFromCache, LightBuilt, AcquireStored, StoreFresh, Acquired,
        CommitChunk, SkipAir, Visit, Rebuild, Relight, EndWrite, Crash,
        ChunkFault, HeightFault
<1>2. QED
  BY <1>1, TypeInit, TypeStep, HeightInit, HeightStep, PTL
     DEF Spec, HeightsNeverFall, Rises

-----------------------------------------------------------------------------
(***************************************************************************)
(* The refinement of BlockMap.  A stored chunk changes for a reader only   *)
(* when commit_write() puts it.                                            *)
(***************************************************************************)

Contents == [p \in Pos |-> Durable(p)]

LEMMA MapInit == Init => Blocks!Init
BY GeneratorContract DEF Init, Blocks!Init, Durable, PendingWrite

\* Steps that no reader can see.
LEMMA MapStutter ==
    ASSUME UNCHANGED dChunks, PendingWrite' = PendingWrite
    PROVE  UNCHANGED Blocks!vars
BY DEF Blocks!vars, Durable

LEMMA MapStep ==
    TypeInv /\ HeightInv /\ [Next]_vars => [Blocks!Next]_(Blocks!vars)
<1> SUFFICES ASSUME TypeInv, HeightInv, [Next]_vars
             PROVE  [Blocks!Next]_(Blocks!vars)
  OBVIOUS
<1> USE PosParts, NoneIsNoValue DEF PendingWrite
<1>1. ASSUME NEW p \in Pos, StartRead(p) PROVE [Blocks!Next]_(Blocks!vars)
  BY <1>1, MapStutter DEF StartRead, caches, disk
<1>2. ASSUME NEW p \in Pos, StartPrepare(p) PROVE [Blocks!Next]_(Blocks!vars)
  BY <1>2, MapStutter DEF StartPrepare, caches, disk
<1>3. ASSUME NEW c \in Columns, LoadHeight(c) PROVE [Blocks!Next]_(Blocks!vars)
  BY <1>3, MapStutter DEF LoadHeight, thread
<1>4. ASSUME EndRead PROVE [Blocks!Next]_(Blocks!vars)
  BY <1>4, MapStutter DEF EndRead, Release, caches, disk
<1>5. ASSUME SurfaceFromStore PROVE [Blocks!Next]_(Blocks!vars)
  BY <1>5, MapStutter DEF SurfaceFromStore, caches, disk
<1>6. ASSUME SurfaceFromCache PROVE [Blocks!Next]_(Blocks!vars)
  BY <1>6, MapStutter DEF SurfaceFromCache, caches
<1>7. ASSUME SurfaceBuilt PROVE [Blocks!Next]_(Blocks!vars)
  BY <1>7, MapStutter DEF SurfaceBuilt
<1>8. ASSUME LightFromStore PROVE [Blocks!Next]_(Blocks!vars)
  BY <1>8, MapStutter DEF LightFromStore, Release, caches, disk
<1>9. ASSUME LightFromCache PROVE [Blocks!Next]_(Blocks!vars)
  BY <1>9, MapStutter DEF LightFromCache, Release, caches
<1>10. ASSUME LightBuilt PROVE [Blocks!Next]_(Blocks!vars)
  BY <1>10, MapStutter DEF LightBuilt, Release
<1>11. ASSUME AcquireStored PROVE [Blocks!Next]_(Blocks!vars)
  BY <1>11, MapStutter DEF AcquireStored, disk
<1>12. ASSUME AcquireAir PROVE [Blocks!Next]_(Blocks!vars)
  BY <1>12, MapStutter DEF AcquireAir
<1>13. ASSUME Acquired PROVE [Blocks!Next]_(Blocks!vars)
  BY <1>13, MapStutter DEF Acquired, caches, disk
<1>14. ASSUME Modify PROVE [Blocks!Next]_(Blocks!vars)
  BY <1>14, MapStutter DEF Modify, TypeInv, TypeOK
<1>15. ASSUME NEW p \in Pos, SkipAir(p) PROVE [Blocks!Next]_(Blocks!vars)
  BY <1>15, MapStutter DEF SkipAir, caches, disk
<1>16. ASSUME NEW p \in Pos, Visit(p) PROVE [Blocks!Next]_(Blocks!vars)
  BY <1>16, MapStutter DEF Visit, caches, disk
<1>17. ASSUME Rebuild PROVE [Blocks!Next]_(Blocks!vars)
  BY <1>17, MapStutter DEF Rebuild
<1>18. ASSUME Relight PROVE [Blocks!Next]_(Blocks!vars)
  BY <1>18, MapStutter DEF Relight
<1>19. ASSUME EndWrite PROVE [Blocks!Next]_(Blocks!vars)
  BY <1>19, MapStutter DEF EndWrite, Release, caches, disk
<1>30. ASSUME NEW p \in Pos, NEW b \in Block, StartWrite(p, b) PROVE [Blocks!Next]_(Blocks!vars)
  <2>1. PendingWrite = None /\ PendingWrite' = [pos |-> p, block |-> b]
    BY <1>30 DEF StartWrite
  <2>2. UNCHANGED Contents
    BY <1>30 DEF StartWrite, disk, Contents, Durable
  <2>. QED
    BY <2>1, <2>2 DEF Blocks!Next, Blocks!Request, Contents
<1>31. ASSUME NEW p \in Pos, LoadChunk(p) PROVE [Blocks!Next]_(Blocks!vars)
  <2>1. PendingWrite' = PendingWrite
    BY <1>31 DEF LoadChunk, thread, Wants, MustBuild, MustLight
  <2>2. UNCHANGED Contents
    BY <1>31, GeneratorContract
       DEF LoadChunk, ChunkFor, Contents, Durable, TypeInv, TypeOK
  <2>. QED
    BY <2>1, <2>2 DEF Blocks!vars, Contents
<1>32. ASSUME StoreFresh PROVE [Blocks!Next]_(Blocks!vars)
  <2>1. PendingWrite' = PendingWrite
    BY <1>32 DEF StoreFresh
  <2>2. dChunks[at] = None /\ Generated[at] = Air
    BY <1>32 DEF StoreFresh, HeightInv
  <2>3. UNCHANGED Contents
    BY <1>32, <2>2 DEF StoreFresh, Contents, Durable, TypeInv, TypeOK, Block
  <2>. QED
    BY <2>1, <2>3 DEF Blocks!vars, Contents
<1>33. ASSUME CommitChunk PROVE [Blocks!Next]_(Blocks!vars)
  <2>1. /\ at \in Pos
        /\ PendingWrite = [pos |-> at, block |-> chunks[at]]
        /\ PendingWrite' = None
    BY <1>33 DEF CommitChunk, TypeInv, TypeOK
  <2>2. chunks[at] \in Block
    BY <1>33 DEF CommitChunk, TypeInv, TypeOK, StageInv
  <2>3. PendingWrite # None
    BY <2>1, <2>2
  <2>4. Contents' = [Contents EXCEPT ![at] = chunks[at]]
    BY <1>33, <2>1, <2>2 DEF CommitChunk, Contents, Durable, TypeInv, TypeOK
  <2>. QED
    BY <2>1, <2>3, <2>4 DEF Blocks!Next, Blocks!Apply, Contents
<1>34. ASSUME UNCHANGED dChunks, PendingWrite' = None PROVE [Blocks!Next]_(Blocks!vars)
  <2>1. UNCHANGED Contents
    BY <1>34 DEF Contents, Durable
  <2>. QED
    BY <1>34, <2>1 DEF Blocks!Next, Blocks!Abandon, Blocks!vars, Contents
<1>35. ASSUME Crash PROVE [Blocks!Next]_(Blocks!vars)
  BY <1>35, <1>34 DEF Crash, Release, disk
<1>36. ASSUME NEW p \in Pos, ChunkFault(p) PROVE [Blocks!Next]_(Blocks!vars)
  BY <1>36, <1>34 DEF ChunkFault, GiveUp, Release, disk
<1>37. ASSUME NEW c \in Columns, HeightFault(c) PROVE [Blocks!Next]_(Blocks!vars)
  BY <1>37, <1>34 DEF HeightFault, GiveUp, Release, disk
<1>38. CASE UNCHANGED vars
  BY <1>38, MapStutter DEF vars, caches, disk, thread
<1>. QED
  BY <1>1, <1>2, <1>3, <1>4, <1>5, <1>6, <1>7, <1>8, <1>9, <1>10, <1>11, <1>12, <1>13, <1>14, <1>15, <1>16, <1>17, <1>18, <1>19, <1>30, <1>31, <1>32, <1>33, <1>35, <1>36, <1>37, <1>38
  DEF Next, Start, Load, Prepare, Write, Fault

\* The world is a map of blocks in which a write takes effect in one step, as
\* it was asked for, or not at all; loading, generation, surfaces, heights,
\* crashes and restarts cannot be seen in the blocks.  Stated for worlds whose
\* generators do not throw: see the README on faults.
THEOREM WorldImplementsBlockMap == MaxFaults = 0 => (Spec => ImplementsBlockMap)
<1> SUFFICES Spec => ImplementsBlockMap
  OBVIOUS
<1>. QED
  BY MapInit, MapStep, TypeInit, TypeStep, HeightInit, HeightStep, PTL
     DEF Spec, ImplementsBlockMap, Blocks!Spec
-----------------------------------------------------------------------------
(***************************************************************************)
(* The caches against the store.                                           *)
(***************************************************************************)

\* What a fault can break is stated for worlds without one; the versions of
\* a cached and a stored surface agree in any case.
CacheInv ==
    /\ \A p \in Pos : surfaces[p] # None /\ dSurfaces[p] # None =>
          surfaces[p].version = dSurfaces[p].version
    /\ faults = 0 => \A p \in Pos :
          /\ surfaces[p] # None => surfaces[p] = dSurfaces[p]
          /\ lights[p] # None => lights[p] = dLights[p]
          /\ chunks[p] # None =>
                chunks[p] = dChunks[p] \/ (pc = "store" /\ p = at)

LEMMA CacheInit == Init => CacheInv
BY DEF Init, CacheInv

LEMMA CacheStep == TypeInv /\ HeightInv /\ CacheInv /\ [Next]_vars => CacheInv'
<1> SUFFICES ASSUME TypeInv, HeightInv, CacheInv, [Next]_vars PROVE CacheInv'
  OBVIOUS
<1> USE PosParts, NoneIsNoValue
<1>1. ASSUME NEW p \in Pos, StartRead(p) PROVE CacheInv'
  BY <1>1 DEF StartRead, caches, disk, counters, CacheInv
<1>2. ASSUME NEW p \in Pos, StartPrepare(p) PROVE CacheInv'
  BY <1>2 DEF StartPrepare, caches, disk, counters, CacheInv
<1>3. ASSUME NEW p \in Pos, NEW b \in Block, StartWrite(p, b) PROVE CacheInv'
  BY <1>3 DEF StartWrite, caches, disk, CacheInv
<1>4. ASSUME NEW c \in Columns, LoadHeight(c) PROVE CacheInv'
  BY <1>4 DEF LoadHeight, thread, counters, CacheInv
<1>5. ASSUME NEW p \in Pos, LoadChunk(p) PROVE CacheInv'
  BY <1>5 DEF LoadChunk, ChunkFor, thread, counters, TypeInv, TypeOK, CacheInv
<1>6. ASSUME EndRead PROVE CacheInv'
  BY <1>6 DEF EndRead, Release, caches, disk, counters, CacheInv
<1>7. ASSUME SurfaceFromStore PROVE CacheInv'
  BY <1>7 DEF SurfaceFromStore, caches, disk, counters, CacheInv
<1>8. ASSUME SurfaceFromCache PROVE CacheInv'
  BY <1>8 DEF SurfaceFromCache, caches, counters, TypeInv, TypeOK, CacheInv
<1>9. ASSUME SurfaceBuilt PROVE CacheInv'
  BY <1>9 DEF SurfaceBuilt, PutSurface, counters, TypeInv, TypeOK, CacheInv
<1>10. ASSUME LightFromStore PROVE CacheInv'
  BY <1>10 DEF LightFromStore, Release, caches, disk, counters, CacheInv
<1>11. ASSUME LightFromCache PROVE CacheInv'
  BY <1>11 DEF LightFromCache, Release, caches, counters, TypeInv, TypeOK, CacheInv
<1>12. ASSUME LightBuilt PROVE CacheInv'
  BY <1>12 DEF LightBuilt, Release, PutLight, SurfaceNow, counters, TypeInv, TypeOK, StageInv, CacheInv
<1>13. ASSUME AcquireStored PROVE CacheInv'
  BY <1>13 DEF AcquireStored, disk, counters, TypeInv, TypeOK, CacheInv
<1>14. ASSUME AcquireAir PROVE CacheInv'
  BY <1>14 DEF AcquireAir, counters, CacheInv
<1>15. ASSUME StoreFresh PROVE CacheInv'
  BY <1>15 DEF StoreFresh, counters, TypeInv, TypeOK, CacheInv
<1>16. ASSUME Acquired PROVE CacheInv'
  BY <1>16 DEF Acquired, caches, disk, counters, CacheInv
<1>17. ASSUME Modify PROVE CacheInv'
  BY <1>17 DEF Modify, counters, TypeInv, TypeOK, CacheInv
<1>18. ASSUME CommitChunk PROVE CacheInv'
  BY <1>18 DEF CommitChunk, caches, counters, TypeInv, TypeOK, CacheInv
<1>19. ASSUME NEW p \in Pos, SkipAir(p) PROVE CacheInv'
  BY <1>19 DEF SkipAir, caches, disk, counters, CacheInv
<1>20. ASSUME NEW p \in Pos, Visit(p) PROVE CacheInv'
  BY <1>20 DEF Visit, caches, disk, counters, CacheInv
<1>21. ASSUME Rebuild PROVE CacheInv'
  BY <1>21 DEF Rebuild, PutSurface, counters, TypeInv, TypeOK, CacheInv
<1>22. ASSUME Relight PROVE CacheInv'
  BY <1>22 DEF Relight, PutLight, counters, TypeInv, TypeOK, CacheInv
<1>23. ASSUME EndWrite PROVE CacheInv'
  BY <1>23 DEF EndWrite, Release, caches, disk, counters, CacheInv
<1>24. ASSUME Crash PROVE CacheInv'
  BY <1>24 DEF Crash, Release, disk, CacheInv
<1>30. ASSUME GiveUp, pc = "surface" => dSurfaces[at] = None PROVE CacheInv'
  <2>1. faults' # 0
    BY <1>30 DEF GiveUp, TypeInv, TypeOK
  <2>2. \A p \in Pos : surfaces'[p] # None /\ dSurfaces'[p] # None =>
            surfaces'[p].version = dSurfaces'[p].version
    BY <1>30 DEF GiveUp, SurfaceNow, disk, CacheInv, TypeInv, TypeOK
  <2>. QED
    BY <2>1, <2>2 DEF CacheInv
<1>31. ASSUME NEW p \in Pos, ChunkFault(p) PROVE CacheInv'
  BY <1>31, <1>30 DEF ChunkFault, Wants, MustBuild, MustLight
<1>32. ASSUME NEW c \in Columns, HeightFault(c) PROVE CacheInv'
  BY <1>32, <1>30 DEF HeightFault, WantsHeight, Wants, MustBuild, MustLight
<1>33. CASE UNCHANGED vars
  BY <1>33 DEF vars, caches, disk, thread, counters, CacheInv
<1>. QED
  BY <1>1, <1>2, <1>3, <1>4, <1>5, <1>6, <1>7, <1>8, <1>9, <1>10, <1>11, <1>12, <1>13, <1>14, <1>15, <1>16, <1>17, <1>18, <1>19, <1>20, <1>21, <1>22, <1>23, <1>24, <1>31, <1>32, <1>33
  DEF Next, Start, Load, Prepare, Write, Fault

\* Between operations the caches hold what the store holds.
THEOREM CachesAgreeWithStore == Spec => []CachesCoherent
<1>1. TypeInv /\ HeightInv /\ CacheInv => CachesCoherent
  BY DEF HeightInv, CacheInv, CachesCoherent
<1>2. QED
  BY <1>1, TypeInit, TypeStep, HeightInit, HeightStep, CacheInit, CacheStep, PTL
     DEF Spec

\* In a world without faults get_chunk() finds the stored or generated block:
\* the height map hides nothing, and a cached chunk is never stale.
LEMMA ChunkAtDurable ==
    ASSUME TypeInv, HeightInv, CacheInv, faults = 0, pc # "store",
           NEW p \in Pos, Loaded(p)
    PROVE  ChunkAt(p) = Durable(p)
<1> USE PosParts, DepthType, NoneIsNoValue
<1>1. CASE IsAir(p)
  <2>1. dChunks[p] = None /\ Z(p) >= Estimate[Col(p)]
    BY <1>1, GeneratorContract
       DEF IsAir, HeightInv, HeightCovers, TypeInv, TypeOK, Height
  <2>. QED
    BY <1>1, <2>1, GeneratorContract DEF ChunkAt, Durable
<1>2. CASE ~IsAir(p)
  BY <1>2 DEF ChunkAt, Durable, Loaded, CacheInv
<1>. QED
  BY <1>1, <1>2

\* A reader gets the block that is stored or will be generated.
THEOREM ReadersSeeTheStore == Spec => []ReadsDurable
<1>1. TypeInv /\ HeightInv /\ CacheInv => ReadsDurable
  BY ChunkAtDurable DEF ReadsDurable, TypeInv, TypeOK
<1>2. QED
  BY <1>1, TypeInit, TypeStep, HeightInit, HeightStep, CacheInit, CacheStep, PTL
     DEF Spec

\* A stored surface is only replaced by one with a higher version, across
\* crashes and faults.
THEOREM SurfaceVersionsRise == Spec => VersionsRise
<1> DEFINE Rises == \A p \in Pos : dSurfaces[p] # None =>
             \/ dSurfaces'[p] = dSurfaces[p]
             \/ dSurfaces'[p] # None /\ dSurfaces'[p].version > dSurfaces[p].version
<1>1. TypeInv /\ CacheInv /\ [Next]_vars => [Rises]_vars
  <2> SUFFICES ASSUME TypeInv, CacheInv, [Next]_vars, vars' # vars
               PROVE  Rises
    BY DEF Rises
  <2> USE NoneIsNoValue
  <2>1. CASE UNCHANGED dSurfaces
    BY <2>1
  <2>2. CASE SurfaceFromCache
    BY <2>2 DEF SurfaceFromCache, TypeInv, TypeOK
  <2>3. CASE SurfaceBuilt
    BY <2>3 DEF SurfaceBuilt, SurfaceAvailable, PutSurface, TypeInv, TypeOK
  <2>4. CASE Rebuild
    <3>1. at \in Pos
      BY <2>4 DEF Rebuild, TypeInv, TypeOK
    <3>2. dSurfaces[at] # None =>
            NextVersion(at) = dSurfaces[at].version + 1 /\ dSurfaces[at].version \in Nat
      BY <3>1 DEF NextVersion, SurfaceAvailable, SurfaceNow, CacheInv, TypeInv,
                  TypeOK, Surface
    <3>3. dSurfaces' = [dSurfaces EXCEPT ![at] =
                          [version |-> NextVersion(at), faces |-> BuiltFaces(at)]]
      BY <2>4 DEF Rebuild, PutSurface
    <3>4. NextVersion(at) \in Nat /\ BuiltFaces(at) \in SUBSET Pos
      BY <3>1, NextVersionType, FacesType DEF TypeInv
    <3>5. dSurfaces'[at] # None /\ dSurfaces'[at].version = NextVersion(at)
      BY <3>1, <3>3, <3>4 DEF TypeInv, TypeOK, Surface
    <3>6. \A p \in Pos : p # at => dSurfaces'[p] = dSurfaces[p]
      BY <3>3 DEF TypeInv, TypeOK
    <3>. QED
      BY <3>2, <3>5, <3>6
  <2>. QED
    BY <2>1, <2>2, <2>3, <2>4
    DEF Next, Start, Load, Prepare, Write, Fault, caches, disk, GiveUp,
        StartRead, StartPrepare, StartWrite, LoadHeight, LoadChunk, EndRead,
        SurfaceFromStore, LightFromStore, LightFromCache, LightBuilt,
        AcquireStored, AcquireAir, StoreFresh, Acquired, Modify, CommitChunk,
        SkipAir, Visit, Relight, EndWrite, Crash, ChunkFault, HeightFault
<1>2. QED
  BY <1>1, TypeInit, TypeStep, HeightInit, HeightStep, CacheInit, CacheStep, PTL
     DEF Spec, VersionsRise, Rises
-----------------------------------------------------------------------------
(***************************************************************************)
(* Surfaces and light maps against the blocks.  The invariant speaks of    *)
(* the stored blocks, because a crash may take back the block that Modify  *)
(* put in the cache; while commit_write() loops over the neighbourhood,    *)
(* only the positions it has still to visit may have an old surface.       *)
(***************************************************************************)

ToVisit(p) == \/ pc \in {"next", "rebuild"} /\ p \in left
              \/ pc = "relight" /\ p \in left /\ p # at

SurfaceFits(p) ==
    SurfaceAvailable(p) => SurfaceNow(p).faces = FacesOf(p, Durable)

LightFits(p) ==
    dLights[p] # None => dSurfaces[p] # None
                         /\ (dLights[p].faces = dSurfaces[p].faces
                              \/ (pc = "relight" /\ p = at))

\* Only chunks below the coarse height have a surface.
BelowHeight(p) == heights[Col(p)] # None /\ Z(p) < heights[Col(p)]
Stored(p) == dHeights[Col(p)] # None /\ Z(p) < dHeights[Col(p)]

FreshInv ==
    /\ pc \in {"surface", "light", "rebuild", "relight"} => BelowHeight(at)
    /\ pc \in {"rebuild", "relight"} => at \in left
    /\ ~torn /\ faults = 0 => \A p \in Pos :
          /\ SurfaceAvailable(p) => Stored(p)
          /\ ToVisit(p) \/ SurfaceFits(p)
          /\ LightFits(p)

LEMMA SidesSymmetric == \A p, q \in Pos : q \in Sides(p) => p \in Sides(q)
BY WorldShape, PosParts DEF Sides

LEMMA FreshInit == Init => FreshInv
BY NoneIsNoValue DEF Init, FreshInv, SurfaceAvailable, SurfaceFits, LightFits

\* Heights of columns are not taken away and do not fall.
HeightsHigher ==
    /\ heights' \in [Columns -> Height \cup {None}]
    /\ dHeights' \in [Columns -> Height \cup {None}]
    /\ \A c \in Columns : heights[c] # None =>
          heights'[c] # None /\ heights'[c] >= heights[c]
    /\ \A c \in Columns : dHeights[c] # None =>
          dHeights'[c] # None /\ dHeights'[c] >= dHeights[c]

\* The program counter stays, or moves outside the loop of commit_write().
PcFrame ==
    \/ pc' = pc /\ at' = at /\ left' = left
    \/ /\ pc \notin {"next", "rebuild", "relight"}
       /\ pc' \notin {"next", "rebuild", "relight"}
       /\ pc' \in {"surface", "light"} => BelowHeight(at)'

\* Steps that change no surface, no light map and no stored block.
LEMMA FreshFrame ==
    ASSUME TypeInv, HeightInv, FreshInv,
           UNCHANGED <<surfaces, dSurfaces, lights, dLights, torn, faults>>,
           \A p \in Pos : Durable(p)' = Durable(p),
           HeightsHigher, PcFrame
    PROVE  FreshInv'
<1> USE PosParts, DepthType, NoneIsNoValue
<1>1. \A p \in Pos : Stored(p) => Stored(p)'
  BY DEF HeightsHigher, Stored, TypeInv, TypeOK, Height
<1>2. \A p \in Pos : SurfaceFits(p) => SurfaceFits(p)'
  <2> SUFFICES ASSUME NEW p \in Pos PROVE SurfaceFits(p) => SurfaceFits(p)'
    OBVIOUS
  <2>1. FacesOf(p, Durable)' = FacesOf(p, Durable)
    BY DEF FacesOf, Sides
  <2>. QED
    BY <2>1 DEF SurfaceFits, SurfaceAvailable, SurfaceNow
<1>3. \A p \in Pos : pc # "relight" /\ LightFits(p) => LightFits(p)'
  BY DEF LightFits
<1>4. CASE pc' = pc /\ at' = at /\ left' = left
  <2>1. pc \in {"surface", "light", "rebuild", "relight"} => BelowHeight(at)'
    BY <1>4 DEF HeightsHigher, FreshInv, BelowHeight, TypeInv, TypeOK, Height
  <2>2. \A p \in Pos : ToVisit(p)' = ToVisit(p) /\ LightFits(p)' = LightFits(p)
    BY <1>4 DEF ToVisit, LightFits
  <2>3. \A p \in Pos : SurfaceAvailable(p)' = SurfaceAvailable(p)
    BY DEF SurfaceAvailable
  <2>. QED
    BY <1>1, <1>2, <1>4, <2>1, <2>2, <2>3 DEF FreshInv
<1>5. CASE pc \notin {"next", "rebuild", "relight"} /\ pc' \notin {"next", "rebuild", "relight"}
           /\ (pc' \in {"surface", "light"} => BelowHeight(at)')
  <2>1. \A p \in Pos : ~ToVisit(p) /\ SurfaceAvailable(p)' = SurfaceAvailable(p)
    BY <1>5 DEF ToVisit, SurfaceAvailable
  <2>. QED
    BY <1>1, <1>2, <1>3, <1>5, <2>1 DEF FreshInv
<1>. QED
  BY <1>4, <1>5 DEF PcFrame
\* A raised height keeps whatever was below it below it.
LEMMA RaiseIsMonotone ==
    ASSUME TypeInv, HeightInv, NEW p \in Pos, IsAir(p), RaiseHeight(p)
    PROVE  HeightsHigher
BY PosParts, DepthType, NoneIsNoValue
   DEF HeightsHigher, IsAir, RaiseHeight, HeightInv, TypeInv, TypeOK, Height

\* What build_surface() makes is what the stored blocks ask for.
LEMMA BuiltFits ==
    ASSUME TypeInv, HeightInv, CacheInv, faults = 0, pc # "store",
           NEW p \in Pos, CanBuild(p)
    PROVE  BuiltFaces(p) = FacesOf(p, Durable)
<1>1. \A q \in Neumann(p) : ChunkAt(q) = Durable(q)
  BY ChunkAtDurable DEF CanBuild, Neumann, Sides
<1>. QED
  BY <1>1 DEF BuiltFaces, FacesOf, Neumann

LEMMA FreshStep ==
    TypeInv /\ HeightInv /\ CacheInv /\ FreshInv /\ [Next]_vars => FreshInv'
<1> SUFFICES ASSUME TypeInv, HeightInv, CacheInv, FreshInv, [Next]_vars
             PROVE  FreshInv'
  OBVIOUS
<1> USE PosParts, DepthType, NoneIsNoValue
<1>a. UNCHANGED <<heights, dHeights>> => HeightsHigher
  BY DEF HeightsHigher, TypeInv, TypeOK, Height
<1>b. UNCHANGED dChunks => \A p \in Pos : Durable(p)' = Durable(p)
  BY DEF Durable
<1>1. ASSUME NEW p \in Pos, StartRead(p) PROVE FreshInv'
  BY <1>1, <1>a, <1>b, FreshFrame DEF PcFrame, StartRead, caches, disk, counters
<1>2. ASSUME NEW p \in Pos, StartPrepare(p) PROVE FreshInv'
  BY <1>2, <1>a, <1>b, FreshFrame DEF PcFrame, StartPrepare, caches, disk, counters, IsAir, BelowHeight, TypeInv, TypeOK, Height
<1>3. ASSUME NEW p \in Pos, NEW b \in Block, StartWrite(p, b) PROVE FreshInv'
  BY <1>3, <1>a, <1>b, FreshFrame DEF PcFrame, StartWrite, caches, disk
<1>4. ASSUME EndRead PROVE FreshInv'
  BY <1>4, <1>a, <1>b, FreshFrame DEF PcFrame, EndRead, Release, caches, disk, counters
<1>5. ASSUME SurfaceFromStore PROVE FreshInv'
  BY <1>5, <1>a, <1>b, FreshFrame DEF PcFrame, SurfaceFromStore, caches, disk, counters, FreshInv, BelowHeight
<1>6. ASSUME LightFromStore PROVE FreshInv'
  BY <1>6, <1>a, <1>b, FreshFrame DEF PcFrame, LightFromStore, Release, caches, disk, counters
<1>7. ASSUME AcquireStored PROVE FreshInv'
  BY <1>7, <1>a, <1>b, FreshFrame DEF PcFrame, AcquireStored, disk, counters
<1>8. ASSUME Acquired PROVE FreshInv'
  BY <1>8, <1>a, <1>b, FreshFrame DEF PcFrame, Acquired, caches, disk, counters
<1>20. ASSUME NEW c \in Columns, LoadHeight(c) PROVE FreshInv'
  <2>1. HeightsHigher
    BY <1>20, GeneratorContract DEF HeightsHigher, LoadHeight, TypeInv, TypeOK, Height
  <2>2. /\ UNCHANGED <<surfaces, dSurfaces, lights, dLights, torn, faults>>
        /\ PcFrame
    BY <1>20 DEF PcFrame, LoadHeight, thread, counters
  <2>3. \A p \in Pos : Durable(p)' = Durable(p)
    BY <1>20, <1>b DEF LoadHeight
  <2>. QED
    BY <2>1, <2>2, <2>3, FreshFrame
<1>21. ASSUME NEW p \in Pos, LoadChunk(p) PROVE FreshInv'
  <2>1. \A q \in Pos : Durable(q)' = Durable(q)
    BY <1>21, GeneratorContract DEF LoadChunk, ChunkFor, Durable, TypeInv, TypeOK
  <2>2. /\ UNCHANGED <<surfaces, dSurfaces, lights, dLights, torn, faults>>
        /\ PcFrame
    BY <1>21 DEF PcFrame, LoadChunk, thread, counters
  <2>3. UNCHANGED <<heights, dHeights>>
    BY <1>21 DEF LoadChunk
  <2>. QED
    BY <1>a, <2>1, <2>2, <2>3, FreshFrame
<1>22. ASSUME AcquireAir PROVE FreshInv'
  <2>1. at \in Pos /\ IsAir(at) /\ RaiseHeight(at)
    BY <1>22 DEF AcquireAir, TypeInv, TypeOK
  <2>. QED
    BY <1>22, <1>b, <2>1, RaiseIsMonotone, FreshFrame DEF PcFrame, AcquireAir, counters
<1>23. ASSUME StoreFresh PROVE FreshInv'
  <2>1. dChunks[at] = None /\ Generated[at] = Air /\ at \in Pos
    BY <1>23 DEF StoreFresh, HeightInv, TypeInv, TypeOK
  <2>2. \A q \in Pos : Durable(q)' = Durable(q)
    BY <1>23, <2>1 DEF StoreFresh, Durable, TypeInv, TypeOK, Block
  <2>. QED
    BY <1>23, <1>a, <2>2, FreshFrame DEF PcFrame, StoreFresh, counters
<1>24. ASSUME Modify PROVE FreshInv'
  <2>1. CASE IsAir(at)
    <3>1. at \in Pos /\ RaiseHeight(at)
      BY <1>24, <2>1 DEF Modify, AdjustHeight, TypeInv, TypeOK
    <3>. QED
      BY <1>24, <1>b, <2>1, <3>1, RaiseIsMonotone, FreshFrame DEF PcFrame, Modify, counters
  <2>2. CASE ~IsAir(at)
    BY <1>24, <1>a, <1>b, <2>2, FreshFrame DEF PcFrame, Modify, AdjustHeight, counters
  <2>. QED
    BY <2>1, <2>2
<1>25. ASSUME SurfaceFromCache PROVE FreshInv'
  <2>1. faults # 0
    BY <1>25 DEF SurfaceFromCache, CacheInv, TypeInv, TypeOK
  <2>. QED
    BY <1>25, <2>1 DEF SurfaceFromCache, FreshInv, BelowHeight, caches, counters
<1>26. ASSUME LightFromCache PROVE FreshInv'
  <2>1. faults # 0
    BY <1>26 DEF LightFromCache, CacheInv, TypeInv, TypeOK
  <2>. QED
    BY <1>26, <2>1 DEF LightFromCache, Release, FreshInv, caches, counters
<1>27. ASSUME SurfaceBuilt PROVE FreshInv'
  <2> DEFINE srf == [version |-> 1, faces |-> BuiltFaces(at)]
  <2>1. /\ at \in Pos /\ surfaces[at] = None /\ dSurfaces[at] = None
        /\ surfaces' = [surfaces EXCEPT ![at] = srf]
        /\ dSurfaces' = [dSurfaces EXCEPT ![at] = srf]
        /\ pc = "surface" /\ pc' = "light" /\ at' = at
        /\ UNCHANGED <<heights, dHeights, dLights, dChunks, torn, faults>>
    BY <1>27 DEF SurfaceBuilt, SurfaceAvailable, PutSurface, TypeInv, TypeOK, counters
  <2>2. srf # None
    BY <2>1, FacesType DEF Surface
  <2>3. BelowHeight(at)'
    BY <2>1 DEF FreshInv, BelowHeight
  <2>4. ASSUME ~torn, faults = 0, NEW p \in Pos
        PROVE  (SurfaceAvailable(p) => Stored(p))' /\ SurfaceFits(p)' /\ LightFits(p)'
    <3>1. CASE p = at
      <4>1. srf.faces = FacesOf(p, Durable)
        BY <1>27, <2>1, <2>4, <3>1, BuiltFits DEF SurfaceBuilt
      <4>2. FacesOf(p, Durable)' = FacesOf(p, Durable)
        BY <2>1 DEF FacesOf, Durable
      <4>3. SurfaceNow(p)' = srf
        BY <2>1, <2>2, <3>1 DEF SurfaceNow, TypeInv, TypeOK
      <4>4. Stored(p)'
        BY <2>1, <3>1 DEF FreshInv, BelowHeight, Stored, HeightInv
      <4>5. dLights[p] = None
        BY <2>1, <2>4, <3>1 DEF FreshInv, LightFits
      <4>. QED
        BY <2>1, <4>1, <4>2, <4>3, <4>4, <4>5 DEF SurfaceFits, LightFits
    <3>2. CASE p # at
      <4>1. surfaces'[p] = surfaces[p] /\ dSurfaces'[p] = dSurfaces[p]
        BY <2>1, <3>2 DEF TypeInv, TypeOK
      <4>2. FacesOf(p, Durable)' = FacesOf(p, Durable)
        BY <2>1 DEF FacesOf, Durable
      <4>. QED
        BY <2>1, <2>4, <4>1, <4>2
        DEF FreshInv, ToVisit, SurfaceFits, LightFits, SurfaceAvailable, SurfaceNow, Stored
    <3>. QED
      BY <3>1, <3>2
  <2>. QED
    BY <2>1, <2>3, <2>4 DEF FreshInv
<1>28. ASSUME LightBuilt PROVE FreshInv'
  <2>1. /\ at \in Pos /\ dSurfaces[at] # None
        /\ surfaces' = [surfaces EXCEPT ![at] = SurfaceNow(at)]
        /\ dLights' = [dLights EXCEPT ![at] = LightFor(at)]
        /\ pc = "light" /\ pc' = "idle"
        /\ UNCHANGED <<heights, dHeights, dSurfaces, dChunks, torn, faults>>
    BY <1>28 DEF LightBuilt, Release, PutLight, TypeInv, TypeOK, StageInv, counters
  <2>2. \A p \in Pos : /\ SurfaceNow(p)' = SurfaceNow(p)
                       /\ SurfaceAvailable(p)' = SurfaceAvailable(p)
    BY <2>1 DEF SurfaceNow, SurfaceAvailable, TypeInv, TypeOK
  <2>3. \A p \in Pos : FacesOf(p, Durable)' = FacesOf(p, Durable)
    BY <2>1 DEF FacesOf, Durable
  <2>4. ASSUME ~torn, faults = 0, NEW p \in Pos PROVE LightFits(p)'
    <3>1. p = at => dLights'[p].faces = dSurfaces[p].faces
      BY <2>1, <2>4 DEF LightFor, SurfaceNow, CacheInv, TypeInv, TypeOK
    <3>2. p # at => dLights'[p] = dLights[p]
      BY <2>1 DEF TypeInv, TypeOK
    <3>. QED
      BY <2>1, <2>4, <3>1, <3>2 DEF LightFits, FreshInv
  <2>. QED
    BY <2>1, <2>2, <2>3, <2>4 DEF FreshInv, ToVisit, SurfaceFits, Stored
<1>29. ASSUME CommitChunk PROVE FreshInv'
  <2>1. /\ at \in Pos /\ pc = "store" /\ pc' = "next" /\ left' = Neumann(at)
        /\ dChunks' = [dChunks EXCEPT ![at] = chunks[at]]
        /\ UNCHANGED <<heights, dHeights, surfaces, dSurfaces, dLights, torn, faults>>
    BY <1>29 DEF CommitChunk, TypeInv, TypeOK, caches, counters
  <2>2. \A q \in Pos : q # at => Durable(q)' = Durable(q)
    BY <2>1 DEF Durable, TypeInv, TypeOK
  <2>3. ASSUME NEW p \in Pos, p \notin Neumann(at)
        PROVE  FacesOf(p, Durable)' = FacesOf(p, Durable)
    <3>1. p # at /\ at \notin Sides(p)
      BY <2>1, <2>3, SidesSymmetric DEF Neumann
    <3>2. \A q \in Sides(p) : Durable(q)' = Durable(q)
      BY <2>2, <3>1 DEF Sides
    <3>. QED
      BY <2>2, <3>1, <3>2 DEF FacesOf
  <2>. QED
    BY <2>1, <2>3 DEF FreshInv, ToVisit, SurfaceFits, LightFits, SurfaceAvailable,
                      SurfaceNow, Stored
<1>30. ASSUME NEW p \in Pos, SkipAir(p) PROVE FreshInv'
  <2>1. /\ pc = "next" /\ pc' = "next" /\ left' = left \ {p}
        /\ UNCHANGED <<heights, dHeights, surfaces, dSurfaces, dLights, dChunks, torn, faults>>
        /\ heights[Col(p)] # None /\ Z(p) >= heights[Col(p)]
    BY <1>30 DEF SkipAir, IsAir, caches, disk, counters
  <2>2. ~Stored(p)
    BY <2>1 DEF Stored, HeightInv, TypeInv, TypeOK, Height
  <2>3. \A q \in Pos : FacesOf(q, Durable)' = FacesOf(q, Durable)
    BY <2>1 DEF FacesOf, Durable
  <2>. QED
    BY <2>1, <2>2, <2>3 DEF FreshInv, ToVisit, SurfaceFits, LightFits,
                            SurfaceAvailable, SurfaceNow, Stored
<1>31. ASSUME NEW p \in Pos, Visit(p) PROVE FreshInv'
  <2>1. /\ pc = "next" /\ pc' = "rebuild" /\ at' = p /\ p \in left
        /\ UNCHANGED <<heights, dHeights, surfaces, dSurfaces, dLights, dChunks, left, torn, faults>>
        /\ heights[Col(p)] # None /\ ~(Z(p) >= heights[Col(p)])
    BY <1>31 DEF Visit, IsAir, caches, disk, counters
  <2>2. BelowHeight(p)'
    BY <2>1 DEF BelowHeight, TypeInv, TypeOK, Height
  <2>3. \A q \in Pos : FacesOf(q, Durable)' = FacesOf(q, Durable)
    BY <2>1 DEF FacesOf, Durable
  <2>. QED
    BY <2>1, <2>2, <2>3 DEF FreshInv, ToVisit, SurfaceFits, LightFits, BelowHeight,
                            SurfaceAvailable, SurfaceNow, Stored
<1>32. ASSUME Rebuild PROVE FreshInv'
  <2> DEFINE srf == [version |-> NextVersion(at), faces |-> BuiltFaces(at)]
  <2>1. /\ at \in Pos /\ at \in left
        /\ surfaces' = [surfaces EXCEPT ![at] = srf]
        /\ dSurfaces' = [dSurfaces EXCEPT ![at] = srf]
        /\ pc = "rebuild" /\ pc' = "relight" /\ at' = at /\ left' = left
        /\ UNCHANGED <<heights, dHeights, dLights, dChunks, torn, faults>>
    BY <1>32 DEF Rebuild, PutSurface, FreshInv, TypeInv, TypeOK, counters
  <2>2. srf # None
    BY <2>1, FacesType, NextVersionType DEF Surface, TypeInv
  <2>3. BelowHeight(at)'
    BY <2>1 DEF FreshInv, BelowHeight
  <2>4. ASSUME ~torn, faults = 0, NEW p \in Pos
        PROVE  /\ (SurfaceAvailable(p) => Stored(p))'
               /\ (ToVisit(p) \/ SurfaceFits(p))'
               /\ LightFits(p)'
    <3>1. CASE p = at
      <4>1. srf.faces = FacesOf(p, Durable)
        BY <1>32, <2>1, <2>4, <3>1, BuiltFits DEF Rebuild
      <4>2. FacesOf(p, Durable)' = FacesOf(p, Durable)
        BY <2>1 DEF FacesOf, Durable
      <4>3. SurfaceNow(p)' = srf /\ dSurfaces'[p] # None
        BY <2>1, <2>2, <3>1 DEF SurfaceNow, TypeInv, TypeOK
      <4>4. Stored(p)'
        BY <2>1, <3>1 DEF FreshInv, BelowHeight, Stored, HeightInv
      <4>. QED
        BY <2>1, <3>1, <4>1, <4>2, <4>3, <4>4 DEF SurfaceFits, LightFits
    <3>2. CASE p # at
      <4>1. surfaces'[p] = surfaces[p] /\ dSurfaces'[p] = dSurfaces[p]
        BY <2>1, <3>2 DEF TypeInv, TypeOK
      <4>2. FacesOf(p, Durable)' = FacesOf(p, Durable)
        BY <2>1 DEF FacesOf, Durable
      <4>. QED
        BY <2>1, <2>4, <3>2, <4>1, <4>2
        DEF FreshInv, ToVisit, SurfaceFits, LightFits, SurfaceAvailable, SurfaceNow, Stored
    <3>. QED
      BY <3>1, <3>2
  <2>. QED
    BY <2>1, <2>3, <2>4 DEF FreshInv
<1>33. ASSUME Relight PROVE FreshInv'
  <2>1. /\ at \in Pos /\ at \in left /\ surfaces[at] # None
        /\ dLights' = [dLights EXCEPT ![at] = LightFor(at)]
        /\ pc = "relight" /\ pc' = "next" /\ left' = left \ {at}
        /\ UNCHANGED <<heights, dHeights, surfaces, dSurfaces, dChunks, torn, faults>>
    BY <1>33 DEF Relight, PutLight, FreshInv, TypeInv, TypeOK, StageInv, counters
  <2>2. \A p \in Pos : FacesOf(p, Durable)' = FacesOf(p, Durable)
    BY <2>1 DEF FacesOf, Durable
  <2>3. ASSUME ~torn, faults = 0, NEW p \in Pos PROVE LightFits(p)'
    <3>1. p = at => dLights'[p].faces = dSurfaces[p].faces /\ dSurfaces[p] # None
      BY <2>1, <2>3 DEF LightFor, SurfaceNow, CacheInv, TypeInv, TypeOK
    <3>2. p # at => dLights'[p] = dLights[p]
      BY <2>1 DEF TypeInv, TypeOK
    <3>. QED
      BY <2>1, <2>3, <3>1, <3>2 DEF LightFits, FreshInv
  <2>. QED
    BY <2>1, <2>2, <2>3 DEF FreshInv, ToVisit, SurfaceFits, SurfaceAvailable, SurfaceNow, Stored
<1>34. ASSUME EndWrite PROVE FreshInv'
  <2>1. /\ pc = "next" /\ pc' = "idle" /\ left = {}
        /\ UNCHANGED <<heights, dHeights, surfaces, dSurfaces, dLights, dChunks, torn, faults>>
    BY <1>34 DEF EndWrite, Release, caches, disk, counters
  <2>2. \A p \in Pos : FacesOf(p, Durable)' = FacesOf(p, Durable)
    BY <2>1 DEF FacesOf, Durable
  <2>. QED
    BY <2>1, <2>2 DEF FreshInv, ToVisit, SurfaceFits, LightFits, SurfaceAvailable,
                      SurfaceNow, Stored
<1>35. ASSUME Crash PROVE FreshInv'
  <2>1. /\ pc' = "idle" /\ surfaces' = [p \in Pos |-> None]
        /\ UNCHANGED <<dHeights, dSurfaces, dLights, dChunks, faults>>
        /\ torn' = (torn \/ pc = "rebuild" \/ pc = "relight" \/ (pc = "next" /\ left # {}))
    BY <1>35, Zenon DEF Crash, Release, disk
  <2>2. ~torn' => ~torn /\ \A p \in Pos : ~ToVisit(p) /\ pc # "relight"
    BY <2>1 DEF ToVisit
  <2>3. \A p \in Pos : FacesOf(p, Durable)' = FacesOf(p, Durable)
    BY <2>1 DEF FacesOf, Durable
  <2>4. ASSUME ~torn', faults = 0, NEW p \in Pos
        PROVE  (SurfaceAvailable(p) => Stored(p))' /\ SurfaceFits(p)' /\ LightFits(p)'
    <3>1. SurfaceAvailable(p)' => SurfaceAvailable(p) /\ SurfaceNow(p)' = SurfaceNow(p)
      BY <2>1, <2>4 DEF SurfaceAvailable, SurfaceNow, CacheInv
    <3>. QED
      BY <2>1, <2>2, <2>3, <2>4, <3>1 DEF FreshInv, SurfaceFits, LightFits, Stored
  <2>. QED
    BY <2>1, <2>4 DEF FreshInv
<1>36. ASSUME GiveUp PROVE FreshInv'
  BY <1>36 DEF GiveUp, Release, FreshInv, TypeInv, TypeOK
<1>37. ASSUME NEW p \in Pos, ChunkFault(p) PROVE FreshInv'
  BY <1>37, <1>36 DEF ChunkFault
<1>38. ASSUME NEW c \in Columns, HeightFault(c) PROVE FreshInv'
  BY <1>38, <1>36 DEF HeightFault
<1>39. CASE UNCHANGED vars
  <2>1. /\ UNCHANGED <<surfaces, dSurfaces, lights, dLights, torn, faults>>
        /\ PcFrame
    BY <1>39 DEF PcFrame, vars, caches, disk, thread, counters
  <2>2. UNCHANGED <<heights, dHeights, dChunks>>
    BY <1>39 DEF vars, caches, disk
  <2>. QED
    BY <1>a, <1>b, <2>1, <2>2, FreshFrame
<1>. QED
  BY <1>1, <1>2, <1>3, <1>4, <1>5, <1>6, <1>7, <1>8, <1>20, <1>21, <1>22, <1>23, <1>24, <1>25, <1>26, <1>27, <1>28, <1>29, <1>30, <1>31, <1>32, <1>33, <1>34, <1>35, <1>37, <1>38, <1>39
  DEF Next, Start, Load, Prepare, Write, Fault

\* In a world in which no commit was cut short and no generator threw, every
\* surface that can be served between operations is the one build_surface()
\* would make now: commit_write() visits all the positions a write touches.
THEOREM SurfacesStayFresh == Spec => []SurfacesFresh
<1>1. TypeInv /\ CacheInv /\ FreshInv => SurfacesFresh
  <2> SUFFICES ASSUME TypeInv, CacheInv, FreshInv, Quiet, NEW p \in Pos,
                      SurfaceAvailable(p)
               PROVE  SurfaceNow(p).faces = FacesOf(p, Content)
    BY DEF SurfacesFresh
  <2>1. \A q \in Pos : Content(q) = Durable(q)
    BY DEF Content, Durable, CacheInv, Quiet
  <2>2. FacesOf(p, Content) = FacesOf(p, Durable)
    BY <2>1 DEF FacesOf, Sides
  <2>. QED
    BY <2>2 DEF FreshInv, SurfaceFits, ToVisit, Quiet
<1>2. QED
  BY <1>1, TypeInit, TypeStep, HeightInit, HeightStep, CacheInit, CacheStep,
     FreshInit, FreshStep, PTL DEF Spec

\* Under the same condition every stored light map has an element for each
\* face of the surface it is sent with.
THEOREM LightsStayFit == Spec => []LightsFit
<1>1. FreshInv => LightsFit
  BY DEF FreshInv, LightFits, LightsFit, Quiet
<1>2. QED
  BY <1>1, TypeInit, TypeStep, HeightInit, HeightStep, CacheInit, CacheStep,
     FreshInit, FreshStep, PTL DEF Spec
=============================================================================

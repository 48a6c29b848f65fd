------------------------------ MODULE AreaData ------------------------------
(***************************************************************************)
(* The area data of one column, what the heights and the chunks of the     *)
(* terrain are made of (world::get_area_data() in server/world.cpp).  Each *)
(* area has a generator.  The "surface" is special: a terrain generator    *)
(* that works from a heightmap goes over it as well, so that making the    *)
(* surface asks for other areas, through the same function and cache.      *)
(*                                                                         *)
(* Data is real, or off when something that it was made of was not.  The   *)
(* caller holds the lock of the world.                                     *)
(***************************************************************************)
EXTENDS Naturals, Sequences

CONSTANTS
    Areas,      \* names of the generators
    Surface,    \* the one named "surface"
    Cached,     \* those with should_write_to_file()
    SoilMaps,   \* what soil_generator reads for a chunk
    MaxFaults,  \* bound: generators that throw
    MaxStarts   \* bound: starts of the server

ASSUME AreaConstants ==
    /\ Surface \in Areas /\ Cached \subseteq Areas /\ SoilMaps \subseteq Areas
    /\ MaxFaults \in Nat /\ MaxStarts \in Nat

VARIABLES
    inputs,     \* the areas of the heightmap_terrain modules
    areaCache,  \* area_data_: "none", "empty", "bare", "real", "off"
    areaStore,  \* what is stored
    made,       \* the height and a chunk of the column in the store
    asked,      \* the one that is being made, or "none"
    wanted,     \* what it has yet to read
    seen,       \* what it has read so far
    calls,      \* get_area_data_writable() in progress, from the outermost
    faults,     \* generators that have thrown
    starts      \* times the server was started

areaVars ==
    <<inputs, areaCache, areaStore, made, asked, wanted, seen, calls, faults, starts>>

Qualities == {"none", "real", "off"}

Innermost == calls[Len(calls)]

Outer == SubSeq(calls, 1, Len(calls) - 1)

AreasTypeOK ==
    /\ inputs \in SUBSET Areas
    /\ areaCache \in [Areas -> Qualities \cup {"empty", "bare"}]
    /\ areaStore \in [Areas -> Qualities]
    /\ made \in [{"height", "chunk"} -> Qualities]
    /\ asked \in {"none", "height", "chunk"}
    /\ wanted \in SUBSET Areas
    /\ seen \in {"real", "off"}
    /\ calls \in Seq([area : Areas, left : SUBSET Areas, seen : {"real", "off"}])
    /\ faults \in Nat /\ starts \in Nat

AreasInit ==
    /\ inputs \in SUBSET Areas
    /\ areaCache = [a \in Areas |-> "none"]
    /\ areaStore = [a \in Areas |-> "none"]
    /\ made = [r \in {"height", "chunk"} |-> "none"]
    /\ asked = "none" /\ wanted = {} /\ seen = "real"
    /\ calls = <<>>
    /\ faults = 0 /\ starts = 0

-----------------------------------------------------------------------------

\* estimate_height() and generate() of the terrain generators.
ReadFor(record) == IF record = "height" THEN inputs ELSE inputs \cup SoilMaps

\* A chunk is made after the height of its column, which says whether it is air.
Ask(record) ==
    /\ asked = "none" /\ made[record] = "none"
    /\ record = "chunk" => made["height"] # "none"
    /\ asked' = record
    /\ wanted' = ReadFor(record) /\ seen' = "real"
    /\ UNCHANGED <<inputs, areaCache, areaStore, made, calls, faults, starts>>

\* (Slip: the terrain generators do not look at the name of the area.)
InputsOfAny(a) == inputs

\* What the terrain generators read to go over an area.
InputsOf(a) == IF a = Surface THEN inputs ELSE {}

\* The areas whose get_area_data() may be next.
Needed ==
    IF calls = <<>> THEN wanted
    ELSE IF areaCache[Innermost.area] = "bare" THEN Innermost.left ELSE {}

\* A surface that is its own input sees what there is of it.
SeenIn(a, now) ==
    IF areaCache[a] = "real" \/ (calls # <<>> /\ a = Innermost.area) THEN now ELSE "off"

AfterReading(a) ==
    [Innermost EXCEPT !.left = @ \ {a}, !.seen = SeenIn(a, @)]

\* (Slip: an entry counts only when it is finished.)
HasFinished(a) == areaCache[a] \in {"real", "off"}

\* area_data_.try_get()
HasEntry(a) == areaCache[a] # "none"

\* The entry is there; the caller goes on with it.
ReadEntry(a) ==
    /\ HasEntry(a)
    /\ IF calls = <<>>
       THEN /\ wanted' = wanted \ {a} /\ seen' = SeenIn(a, seen)
            /\ UNCHANGED calls
       ELSE /\ calls' = [calls EXCEPT ![Len(calls)] = AfterReading(a)]
            /\ UNCHANGED <<wanted, seen>>
    /\ UNCHANGED areaCache

Retrieve(a) ==
    /\ ~HasEntry(a) /\ areaStore[a] # "none"
    /\ areaCache' = [areaCache EXCEPT ![a] = areaStore[a]]
    /\ UNCHANGED <<wanted, seen, calls>>

\* The entry is made before anything is known, and the call goes on below.
BeginArea(a) ==
    /\ ~HasEntry(a) /\ areaStore[a] = "none"
    /\ areaCache' = [areaCache EXCEPT ![a] = "empty"]
    /\ calls' = Append(calls, [area |-> a, left |-> InputsOf(a), seen |-> "real"])
    /\ UNCHANGED <<wanted, seen>>

GetArea(a) ==
    /\ a \in Needed
    /\ ReadEntry(a) \/ Retrieve(a) \/ BeginArea(a)
    /\ UNCHANGED <<inputs, areaStore, made, asked, faults, starts>>

\* The area's own generator.
GenerateArea ==
    /\ calls # <<>> /\ areaCache[Innermost.area] = "empty"
    /\ areaCache' = [areaCache EXCEPT ![Innermost.area] = "bare"]
    /\ UNCHANGED <<inputs, areaStore, made, asked, wanted, seen, calls, faults, starts>>

\* It throws, through all calls and what made them.  The entries stay.
Throws ==
    /\ calls # <<>> /\ areaCache[Innermost.area] = "empty"
    /\ faults < MaxFaults
    /\ faults' = faults + 1
    /\ calls' = <<>> /\ asked' = "none" /\ wanted' = {} /\ seen' = "real"
    /\ UNCHANGED <<inputs, areaCache, areaStore, made, starts>>

\* (Slip: an area is stored when its generator is done.)
StoredBare == areaCache[Innermost.area] = "bare"

\* All terrain generators have gone over the area.
IsOver == areaCache[Innermost.area] = "bare" /\ Innermost.left = {}

AreaResult == IF Innermost.left = {} THEN Innermost.seen ELSE "off"

FinishArea ==
    /\ calls # <<>> /\ IsOver
    /\ areaCache' = [areaCache EXCEPT ![Innermost.area] = AreaResult]
    /\ areaStore' = IF Innermost.area \in Cached
                    THEN [areaStore EXCEPT ![Innermost.area] = AreaResult]
                    ELSE areaStore
    /\ calls' = Outer
    /\ UNCHANGED <<inputs, made, asked, wanted, seen, faults, starts>>

\* set_coarse_height(), or the put of a chunk.
RecordMade ==
    /\ asked # "none" /\ calls = <<>> /\ wanted = {}
    /\ made' = [made EXCEPT ![asked] = seen]
    /\ asked' = "none" /\ seen' = "real"
    /\ UNCHANGED <<inputs, areaCache, areaStore, wanted, calls, faults, starts>>

\* The server ends, in whatever way and wherever it was.
Restart ==
    /\ starts < MaxStarts
    /\ starts' = starts + 1
    /\ areaCache' = [a \in Areas |-> "none"]
    /\ calls' = <<>> /\ asked' = "none" /\ wanted' = {} /\ seen' = "real"
    /\ UNCHANGED <<inputs, areaStore, made, faults>>

AreasNext ==
    \/ \E record \in {"height", "chunk"} : Ask(record)
    \/ \E a \in Areas : GetArea(a)
    \/ GenerateArea \/ Throws \/ FinishArea \/ RecordMade \/ Restart

AreasSpec == AreasInit /\ [][AreasNext]_areaVars

-----------------------------------------------------------------------------
(***************************************************************************)
(* Properties.                                                             *)
(***************************************************************************)

\* No area is asked for while it is being made, other than as its own input:
\* the nested calls end, even for a heightmap_terrain whose area is "surface".
NestingEnds ==
    /\ \A i, j \in DOMAIN calls : i # j => calls[i].area # calls[j].area
    /\ \A i \in DOMAIN calls : calls[i].area # Surface => i = Len(calls)

\* The empty entries that exceptions leave behind do not get into the stored
\* areas, save into the surface: only this one is made of others.
OnlySurfaceSuffers ==
    \A a \in Areas : areaStore[a] = "off" => a = Surface /\ faults > 0

\* As long as no generator throws, what is stored of a column, its areas, its
\* height and its chunks, is made of finished data only: references into
\* entries that are half made reach no one else, whatever is asked for first
\* and wherever the server is stopped.  Of the areas, exceptions spoil only
\* the surface.
MadeOfReal ==
    /\ OnlySurfaceSuffers
    /\ faults = 0 => \A record \in DOMAIN made : made[record] # "off"
=============================================================================

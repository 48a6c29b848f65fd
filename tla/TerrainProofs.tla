---------------------------- MODULE TerrainProofs ----------------------------
(***************************************************************************)
(* Proofs about AreaData and Terrain: when the areas of a column are made, *)
(* and what the generators then make of them.                              *)
(***************************************************************************)
EXTENDS AreaData, Terrain, SequenceTheorems, TLAPS

-----------------------------------------------------------------------------
(***************************************************************************)
(* AreaData, for any areas and any number of faults.                       *)
(*                                                                         *)
(* Only the surface is made of other areas, so calls nest two deep at      *)
(* most, the surface outside, and what it asks for is never itself: its    *)
(* entry is there from the start.  Without faults an entry that is not     *)
(* real belongs to a call in progress, and the only one who may read it is *)
(* that call.                                                              *)
(***************************************************************************)

Calls == [area : Areas, left : SUBSET Areas, seen : {"real", "off"}]

\* A call has made its entry; a call of anything but the surface reads nothing.
CallOK(c) ==
    /\ areaCache[c.area] \in {"empty", "bare"}
    /\ c.area # Surface => c.left = {} /\ c.seen = "real"

\* Two calls are the surface and another area.
Nested ==
    /\ Len(calls) <= 2
    /\ \A i \in 1 .. Len(calls) : CallOK(calls[i])
    /\ Len(calls) = 2 => /\ calls[1].area = Surface /\ calls[2].area # Surface
                         /\ areaCache[Surface] = "bare"

InProgress(a) == \E i \in 1 .. Len(calls) : calls[i].area = a

\* Without a fault, everything that is finished is real.
RealSoFar ==
    /\ \A a \in Areas : areaStore[a] # "off"
    /\ \A record \in {"height", "chunk"} : made[record] # "off"
    /\ \A a \in Areas : areaCache[a] \in {"none", "real"} \/ InProgress(a)
    /\ \A i \in 1 .. Len(calls) : calls[i].seen = "real"
    /\ seen = "real"

AreaInv ==
    /\ AreasTypeOK
    /\ Nested
    /\ faults = 0 => RealSoFar
    /\ OnlySurfaceSuffers

-----------------------------------------------------------------------------

\* What there is of the calls in progress.
LEMMA CallFacts ==
    ASSUME AreasTypeOK, Nested
    PROVE  /\ calls \in Seq(Calls) /\ Len(calls) \in 0 .. 2
           /\ DOMAIN calls = 1 .. Len(calls)
           /\ calls = <<>> <=> Len(calls) = 0
           /\ \A i \in 1 .. Len(calls) : calls[i] \in Calls
           /\ calls # <<>> => Innermost \in Calls /\ Len(calls) \in 1 .. Len(calls)
<1>1. calls \in Seq(Calls)
  BY DEF AreasTypeOK, Calls
<1>2. Len(calls) \in Nat /\ DOMAIN calls = 1 .. Len(calls)
  BY <1>1, LenProperties
<1>3. calls = <<>> <=> Len(calls) = 0
  BY <1>1, EmptySeq
<1>4. \A i \in 1 .. Len(calls) : calls[i] \in Calls
  BY <1>1, ElementOfSeq
<1> QED BY <1>1, <1>2, <1>3, <1>4 DEF Nested, Innermost

\* The call before the innermost one.
LEMMA OuterFacts ==
    ASSUME AreasTypeOK, Nested, calls # <<>>
    PROVE  /\ Outer \in Seq(Calls) /\ Len(Outer) = Len(calls) - 1
           /\ \A i \in 1 .. Len(Outer) : Outer[i] = calls[i]
<1>1. /\ calls \in Seq(Calls) /\ Len(calls) \in 1 .. 2
      /\ \A i \in 1 .. Len(calls) : calls[i] \in Calls
  BY CallFacts
<1> DEFINE n == Len(calls) - 1
<1>2. n \in Int /\ n >= 0 /\ \A i \in 1 .. n : calls[i] \in Calls
  BY <1>1
<1> HIDE DEF n
<1>3. /\ SubSeq(calls, 1, n) \in Seq(Calls)
      /\ Len(SubSeq(calls, 1, n)) = n
      /\ \A i \in 1 .. n : SubSeq(calls, 1, n)[i] = calls[i]
  <2>1. /\ SubSeq(calls, 1, n) \in Seq(Calls)
        /\ Len(SubSeq(calls, 1, n)) = IF 1 <= n THEN n - 1 + 1 ELSE 0
        /\ \A i \in 1 .. n - 1 + 1 : SubSeq(calls, 1, n)[i] = calls[1 + i - 1]
    BY <1>2, SubSeqProperties
  <2>2. (IF 1 <= n THEN n - 1 + 1 ELSE 0) = n /\ n - 1 + 1 = n
    BY <1>2
  <2>3. \A i \in 1 .. n : 1 + i - 1 = i
    BY <1>2
  <2> QED BY <2>1, <2>2, <2>3, Zenon
<1> QED BY <1>3 DEF Outer, n

-----------------------------------------------------------------------------
(***************************************************************************)
(* The steps.                                                              *)
(***************************************************************************)

LEMMA AskKeeps ==
    ASSUME AreaInv, NEW record \in {"height", "chunk"}, Ask(record)
    PROVE  AreaInv'
<1>1. /\ UNCHANGED <<inputs, areaCache, areaStore, made, calls, faults, starts>>
      /\ asked' = record /\ wanted' = ReadFor(record) /\ seen' = "real"
  BY DEF Ask
<1>2. ReadFor(record) \in SUBSET Areas
  BY AreaConstants DEF ReadFor, AreaInv, AreasTypeOK
<1>3. AreasTypeOK'
  BY <1>1, <1>2 DEF AreaInv, AreasTypeOK
<1>4. Nested' /\ OnlySurfaceSuffers'
  BY <1>1 DEF AreaInv, Nested, CallOK, OnlySurfaceSuffers
<1>5. faults' = 0 => RealSoFar'
  BY <1>1 DEF AreaInv, RealSoFar, InProgress
<1> QED BY <1>3, <1>4, <1>5 DEF AreaInv

\* Whose call it is that reads: with something left to read, the surface's.
LEMMA ReaderIsSurface ==
    ASSUME AreaInv, NEW a \in Needed, calls # <<>>
    PROVE  /\ a \in Innermost.left /\ Innermost.area = Surface
           /\ areaCache[Surface] = "bare"
           /\ Len(calls) = 1 /\ calls[1] = Innermost
<1>1. /\ Len(calls) \in 1 .. 2 /\ Innermost \in Calls
      /\ CallOK(Innermost)
  BY CallFacts DEF AreaInv, Nested, Innermost
<1>2. a \in Innermost.left /\ areaCache[Innermost.area] = "bare"
  BY DEF Needed
<1>3. Innermost.area = Surface
  BY <1>1, <1>2 DEF CallOK
<1>4. Len(calls) # 2
  BY <1>3 DEF AreaInv, Nested, Innermost
<1> QED BY <1>1, <1>2, <1>3, <1>4 DEF Innermost

LEMMA ReadKeeps ==
    ASSUME AreaInv, NEW a \in Areas, a \in Needed, ReadEntry(a),
           UNCHANGED <<inputs, areaStore, made, asked, faults, starts>>
    PROVE  AreaInv'
<1>0. areaCache' = areaCache
  BY DEF ReadEntry
<1>1. OnlySurfaceSuffers'
  BY DEF AreaInv, OnlySurfaceSuffers
<1>2. CASE calls = <<>>
  <2>1. wanted' = wanted \ {a} /\ seen' = SeenIn(a, seen) /\ calls' = calls
    BY <1>2 DEF ReadEntry
  <2>2. SeenIn(a, seen) \in {"real", "off"}
    BY DEF SeenIn, AreaInv, AreasTypeOK
  <2>3. AreasTypeOK'
    BY <1>0, <2>1, <2>2 DEF AreaInv, AreasTypeOK
  <2>4. Nested'
    BY <1>0, <2>1 DEF AreaInv, Nested, CallOK
  <2>5. ASSUME faults' = 0 PROVE RealSoFar'
    <3>1. RealSoFar
      BY <2>5 DEF AreaInv
    <3>2. areaCache[a] \in {"none", "real"}
      BY <1>2, <3>1, CallFacts DEF RealSoFar, InProgress, AreaInv
    <3>3. seen' = "real"
      BY <2>1, <3>1, <3>2 DEF ReadEntry, HasEntry, SeenIn, RealSoFar
    <3> QED BY <1>0, <2>1, <3>1, <3>3 DEF RealSoFar, InProgress
  <2> QED BY <1>1, <2>3, <2>4, <2>5 DEF AreaInv
<1>3. CASE calls # <<>>
  <2> DEFINE c == AfterReading(a)
  <2>1. /\ calls' = [calls EXCEPT ![Len(calls)] = c]
        /\ wanted' = wanted /\ seen' = seen
    BY <1>3 DEF ReadEntry
  <2>2. /\ Innermost.area = Surface /\ Len(calls) = 1 /\ calls[1] = Innermost
        /\ areaCache[Surface] = "bare"
    BY <1>3, ReaderIsSurface
  <2>3. Innermost \in Calls /\ calls \in Seq(Calls)
    BY <1>3, CallFacts DEF AreaInv
  <2>4. c \in Calls /\ c.area = Surface /\ c.seen = SeenIn(a, Innermost.seen)
    BY <2>2, <2>3 DEF AfterReading, Calls, SeenIn
  <2> HIDE DEF c
  <2>5. calls' \in Seq(Calls) /\ Len(calls') = 1 /\ calls'[1] = c
    BY <2>1, <2>2, <2>3, <2>4, ExceptSeq
  <2>6. AreasTypeOK'
    BY <1>0, <2>1, <2>5 DEF AreaInv, AreasTypeOK, Calls
  <2>7. Nested'
    BY <1>0, <2>2, <2>4, <2>5 DEF Nested, CallOK
  <2>8. ASSUME faults' = 0 PROVE RealSoFar'
    <3>1. RealSoFar
      BY <2>8 DEF AreaInv
    <3>2. \A b \in Areas : InProgress(b) <=> b = Surface
      BY <2>2 DEF InProgress
    <3>3. \A b \in Areas : InProgress(b)' <=> b = Surface
      BY <2>4, <2>5 DEF InProgress
    <3>4. areaCache[a] = "real" \/ a = Surface
      BY <3>1, <3>2 DEF RealSoFar, ReadEntry, HasEntry
    <3>5. c.seen = "real"
      BY <1>3, <2>2, <2>4, <3>1, <3>4 DEF SeenIn, RealSoFar
    <3> QED BY <1>0, <2>1, <2>5, <3>1, <3>2, <3>3, <3>5 DEF RealSoFar
  <2> QED BY <1>1, <2>6, <2>7, <2>8 DEF AreaInv
<1> QED BY <1>2, <1>3

LEMMA RetrieveKeeps ==
    ASSUME AreaInv, NEW a \in Areas, Retrieve(a),
           UNCHANGED <<inputs, areaStore, made, asked, faults, starts>>
    PROVE  AreaInv'
<1>1. /\ areaCache[a] = "none" /\ areaStore[a] # "none"
      /\ areaCache' = [areaCache EXCEPT ![a] = areaStore[a]]
      /\ UNCHANGED <<wanted, seen, calls>>
  BY DEF Retrieve, HasEntry
<1>2. AreasTypeOK'
  BY <1>1 DEF AreaInv, AreasTypeOK
<1>3. \A b \in Areas : b # a => areaCache'[b] = areaCache[b]
  BY <1>1 DEF AreaInv, AreasTypeOK
<1>4. \A i \in 1 .. Len(calls) : CallOK(calls[i])'
  BY <1>1, <1>3, CallFacts DEF AreaInv, Nested, CallOK, Calls
<1>5. Nested'
  BY <1>1, <1>3, <1>4, AreaConstants DEF AreaInv, Nested
<1>6. faults' = 0 => RealSoFar'
  BY <1>1 DEF AreaInv, AreasTypeOK, Qualities, RealSoFar, InProgress
<1> QED BY <1>2, <1>5, <1>6 DEF AreaInv, OnlySurfaceSuffers

LEMMA BeginKeeps ==
    ASSUME AreaInv, NEW a \in Areas, a \in Needed, BeginArea(a),
           UNCHANGED <<inputs, areaStore, made, asked, faults, starts>>
    PROVE  AreaInv'
<1> DEFINE c == [area |-> a, left |-> InputsOf(a), seen |-> "real"]
<1>1. /\ areaCache[a] = "none"
      /\ areaCache' = [areaCache EXCEPT ![a] = "empty"]
      /\ calls' = Append(calls, c)
      /\ UNCHANGED <<wanted, seen>>
  BY DEF BeginArea, HasEntry
<1>2. c \in Calls /\ c.area = a /\ c.seen = "real" /\ (a # Surface => c.left = {})
  BY DEF Calls, InputsOf, AreaInv, AreasTypeOK
<1>3. calls \in Seq(Calls) /\ Len(calls) \in 0 .. 2
  BY CallFacts DEF AreaInv
<1> HIDE DEF c
<1>4. /\ calls' \in Seq(Calls) /\ Len(calls') = Len(calls) + 1
      /\ \A i \in 1 .. Len(calls) : calls'[i] = calls[i]
      /\ calls'[Len(calls) + 1] = c
  BY <1>1, <1>2, <1>3, AppendProperties
<1>5. AreasTypeOK'
  BY <1>1, <1>4 DEF AreaInv, AreasTypeOK, Calls
<1>6. /\ areaCache'[a] = "empty"
      /\ \A b \in Areas : b # a => areaCache'[b] = areaCache[b]
  BY <1>1 DEF AreaInv, AreasTypeOK
<1>7. Len(calls) = 0 \/ (Len(calls) = 1 /\ calls[1].area = Surface
                           /\ areaCache[Surface] = "bare" /\ a # Surface)
  <2>1. CASE calls = <<>>
    BY <2>1, CallFacts DEF AreaInv
  <2>2. CASE calls # <<>>
    BY <1>1, <2>2, ReaderIsSurface
  <2> QED BY <2>1, <2>2
<1>8. ASSUME NEW i \in 1 .. Len(calls')
      PROVE  /\ areaCache'[calls'[i].area] \in {"empty", "bare"}
             /\ calls'[i].area # Surface
                  => calls'[i].left = {} /\ calls'[i].seen = "real"
  <2>1. CASE i = Len(calls) + 1
    BY <1>2, <1>4, <1>6, <2>1
  <2>2. CASE i # Len(calls) + 1
    <3>1. i = 1 /\ Len(calls) = 1
      BY <1>3, <1>4, <1>7, <2>2
    <3>2. calls'[i] = calls[1] /\ calls[1].area = Surface
          /\ areaCache'[Surface] = "bare"
      BY <1>4, <1>6, <1>7, <3>1, AreaConstants
    <3> QED BY <3>2
  <2> QED BY <2>1, <2>2
<1>9. Nested'
  <2>1. \A i \in 1 .. Len(calls') : CallOK(calls[i])'
    BY <1>8 DEF CallOK
  <2>2. Len(calls') <= 2
    BY <1>4, <1>7
  <2>3. Len(calls') = 2 => /\ calls'[1].area = Surface /\ calls'[2].area # Surface
                           /\ areaCache'[Surface] = "bare"
    <3>0. Len(calls') = Len(calls) + 1 /\ Len(calls) \in 0 .. 2
      BY <1>3, <1>4
    <3>1. Len(calls') = 2 => Len(calls) = 1
      <4>1. \A m \in 0 .. 2 : \A k : k = m + 1 /\ k = 2 => m = 1
        OBVIOUS
      <4> QED BY <3>0, <4>1, Zenon
    <3>2. ASSUME Len(calls) = 1
          PROVE  /\ calls'[1] = calls[1] /\ calls'[2] = c /\ calls[1].area = Surface
                 /\ a # Surface /\ areaCache[Surface] = "bare"
      <4>1. 1 \in 1 .. Len(calls) /\ Len(calls) + 1 = 2
        BY <3>2
      <4> QED BY <1>4, <1>7, <3>2, <4>1
    <3> QED BY <1>2, <1>6, <3>1, <3>2, AreaConstants
  <2> QED BY <2>1, <2>2, <2>3 DEF Nested
<1>10. ASSUME faults' = 0 PROVE RealSoFar'
  <2>1. RealSoFar
    BY <1>10 DEF AreaInv
  <2>2. InProgress(a)' /\ \A b \in Areas : InProgress(b) => InProgress(b)'
    BY <1>2, <1>3, <1>4 DEF InProgress
  <2>3. \A i \in 1 .. Len(calls') : calls'[i].seen = "real"
    BY <1>2, <1>3, <1>4, <2>1 DEF RealSoFar
  <2> QED BY <1>1, <1>6, <2>1, <2>2, <2>3 DEF RealSoFar
<1> QED BY <1>5, <1>9, <1>10 DEF AreaInv, OnlySurfaceSuffers

LEMMA GenerateKeeps ==
    ASSUME AreaInv, GenerateArea
    PROVE  AreaInv'
<1>1. /\ calls # <<>> /\ areaCache[Innermost.area] = "empty"
      /\ areaCache' = [areaCache EXCEPT ![Innermost.area] = "bare"]
      /\ UNCHANGED <<inputs, areaStore, made, asked, wanted, seen, calls, faults, starts>>
  BY DEF GenerateArea
<1>2. Innermost \in Calls /\ Innermost.area \in Areas /\ Len(calls) \in 1 .. 2
  BY <1>1, CallFacts DEF AreaInv, Calls
<1>3. AreasTypeOK'
  BY <1>1 DEF AreaInv, AreasTypeOK
<1>4. /\ areaCache'[Innermost.area] = "bare"
      /\ \A b \in Areas : b # Innermost.area => areaCache'[b] = areaCache[b]
  BY <1>1, <1>2 DEF AreaInv, AreasTypeOK
<1>5. \A i \in 1 .. Len(calls) : CallOK(calls[i])'
  BY <1>1, <1>4, CallFacts DEF AreaInv, Nested, CallOK, Calls
<1>6. Nested'
  BY <1>1, <1>4, <1>5, AreaConstants DEF AreaInv, Nested
<1>7. ASSUME faults' = 0 PROVE RealSoFar'
  <2>1. InProgress(Innermost.area)
    BY <1>2 DEF InProgress, Innermost
  <2> QED BY <1>1, <1>4, <1>7, <2>1 DEF AreaInv, RealSoFar, InProgress
<1> QED BY <1>1, <1>3, <1>6, <1>7 DEF AreaInv, OnlySurfaceSuffers

\* Where all calls are gone at once.
LEMMA AllGoneKeeps ==
    ASSUME AreaInv, calls' = <<>>, wanted' = {}, seen' = "real", asked' = "none",
           UNCHANGED <<inputs, areaStore, made>>,
           faults' \in Nat, starts' \in Nat, faults' >= faults,
           areaCache' \in [Areas -> Qualities \cup {"empty", "bare"}],
           faults' = 0 => \A a \in Areas : areaCache'[a] = "none"
    PROVE  AreaInv'
<1>1. <<>> \in Seq(Calls) /\ Len(<<>>) = 0
  OBVIOUS
<1>2. AreasTypeOK'
  BY <1>1 DEF AreaInv, AreasTypeOK, Calls
<1>3. Nested'
  BY <1>1 DEF Nested
<1>4. faults \in Nat
  BY DEF AreaInv, AreasTypeOK
<1>5. faults' = 0 => RealSoFar'
  BY <1>1, <1>4 DEF AreaInv, RealSoFar
<1>6. OnlySurfaceSuffers'
  BY <1>4 DEF AreaInv, OnlySurfaceSuffers
<1> QED BY <1>2, <1>3, <1>5, <1>6 DEF AreaInv

LEMMA FinishKeeps ==
    ASSUME AreaInv, FinishArea
    PROVE  AreaInv'
<1> DEFINE a == Innermost.area
           r == Innermost.seen
<1>0. AreasTypeOK /\ Nested
  BY DEF AreaInv
<1>1. /\ calls # <<>> /\ areaCache[a] = "bare" /\ AreaResult = r
      /\ areaCache' = [areaCache EXCEPT ![a] = r]
      /\ areaStore' = IF a \in Cached THEN [areaStore EXCEPT ![a] = r] ELSE areaStore
      /\ calls' = Outer
      /\ UNCHANGED <<inputs, made, asked, wanted, seen, faults, starts>>
  BY DEF FinishArea, IsOver, AreaResult
<1>2. /\ Innermost \in Calls /\ a \in Areas /\ r \in {"real", "off"}
      /\ Len(calls) \in 1 .. 2 /\ calls[Len(calls)] = Innermost
  BY <1>0, <1>1, CallFacts DEF Calls, Innermost
<1>3. a # Surface => r = "real"
  BY <1>2 DEF AreaInv, Nested, CallOK
<1>4. /\ calls' \in Seq(Calls) /\ Len(calls') = Len(calls) - 1
      /\ \A i \in 1 .. Len(calls') : calls'[i] = calls[i]
  BY <1>0, <1>1, OuterFacts
<1>5. faults = 0 => r = "real"
  BY <1>2 DEF AreaInv, RealSoFar
<1>6. Len(calls) = 2 => calls[1].area = Surface /\ a # Surface
  BY <1>2 DEF AreaInv, Nested
<1> HIDE DEF a, r
<1>7. AreasTypeOK'
  BY <1>0, <1>1, <1>2, <1>4 DEF AreasTypeOK, Qualities, Calls
<1>8. /\ areaCache'[a] = r
      /\ \A b \in Areas : b # a => areaCache'[b] = areaCache[b]
      /\ \A b \in Areas : areaStore'[b] = areaStore[b] \/ (b = a /\ areaStore'[b] = r)
  BY <1>0, <1>1, <1>2 DEF AreasTypeOK
<1>9. Nested'
  <2>1. \A i \in 1 .. Len(calls') : i = 1 /\ calls'[i] = calls[1] /\ Len(calls) = 2
    BY <1>2, <1>4
  <2>2. ASSUME Len(calls) = 2 PROVE CallOK(calls[1]) /\ calls[1].area = Surface
    BY <1>0, <2>2 DEF Nested
  <2>3. \A i \in 1 .. Len(calls') : CallOK(calls[i])'
    BY <1>6, <1>8, <2>1, <2>2, AreaConstants DEF CallOK
  <2>4. Len(calls') <= 1
    BY <1>2, <1>4
  <2> QED BY <2>3, <2>4, <1>2, <1>4 DEF Nested
<1>10. ASSUME faults' = 0 PROVE RealSoFar'
  <2>1. RealSoFar /\ r = "real"
    BY <1>1, <1>5, <1>10 DEF AreaInv
  <2>2. \A b \in Areas : b # a /\ InProgress(b) => InProgress(b)'
    <3>1. ASSUME NEW b \in Areas, b # a, NEW i \in 1 .. Len(calls), calls[i].area = b
          PROVE  InProgress(b)'
      <4>1. i # Len(calls)
        BY <1>2, <3>1 DEF a
      <4>2. i \in 1 .. Len(calls')
        BY <1>2, <1>4, <4>1
      <4> QED BY <1>4, <3>1, <4>2 DEF InProgress
    <3> QED BY <3>1 DEF InProgress
  <2>3. \A b \in Areas : areaCache'[b] \in {"none", "real"} \/ InProgress(b)'
    BY <1>8, <2>1, <2>2 DEF RealSoFar
  <2>4. \A i \in 1 .. Len(calls') : calls'[i].seen = "real"
    BY <1>2, <1>4, <2>1 DEF RealSoFar
  <2>5. \A b \in Areas : areaStore'[b] # "off"
    BY <1>8, <2>1 DEF RealSoFar
  <2> QED BY <1>1, <2>1, <2>3, <2>4, <2>5 DEF RealSoFar
<1>11. OnlySurfaceSuffers'
  BY <1>1, <1>2, <1>3, <1>5, <1>8, <1>0 DEF AreaInv, OnlySurfaceSuffers, AreasTypeOK
<1> QED BY <1>7, <1>9, <1>10, <1>11 DEF AreaInv

LEMMA MadeKeeps ==
    ASSUME AreaInv, RecordMade
    PROVE  AreaInv'
<1>1. /\ asked \in {"height", "chunk"} /\ asked' = "none" /\ seen' = "real"
      /\ made' = [made EXCEPT ![asked] = seen]
      /\ UNCHANGED <<inputs, areaCache, areaStore, wanted, calls, faults, starts>>
  BY DEF RecordMade, AreaInv, AreasTypeOK
<1>2. AreasTypeOK'
  BY <1>1 DEF AreaInv, AreasTypeOK, Qualities
<1>3. Nested' /\ OnlySurfaceSuffers'
  BY <1>1 DEF AreaInv, Nested, CallOK, OnlySurfaceSuffers
<1>4. faults' = 0 => RealSoFar'
  BY <1>1 DEF AreaInv, AreasTypeOK, RealSoFar, InProgress
<1> QED BY <1>2, <1>3, <1>4 DEF AreaInv

-----------------------------------------------------------------------------

THEOREM AreaInvariant == AreasSpec => []AreaInv
<1>1. AreasInit => AreaInv
  <2> SUFFICES ASSUME AreasInit PROVE AreaInv
    OBVIOUS
  <2>1. <<>> \in Seq(Calls) /\ Len(<<>>) = 0
    OBVIOUS
  <2>2. AreasTypeOK
    BY <2>1 DEF AreasInit, AreasTypeOK, Qualities, Calls
  <2>3. Nested /\ RealSoFar /\ OnlySurfaceSuffers
    BY <2>1 DEF AreasInit, Nested, RealSoFar, OnlySurfaceSuffers
  <2> QED BY <2>2, <2>3 DEF AreaInv
<1>2. AreaInv /\ [AreasNext]_areaVars => AreaInv'
  <2> SUFFICES ASSUME AreaInv, [AreasNext]_areaVars PROVE AreaInv'
    OBVIOUS
  <2>1. ASSUME NEW record \in {"height", "chunk"}, Ask(record) PROVE AreaInv'
    BY <2>1, AskKeeps
  <2>2. ASSUME NEW a \in Areas, GetArea(a) PROVE AreaInv'
    BY <2>2, ReadKeeps, RetrieveKeeps, BeginKeeps DEF GetArea
  <2>3. CASE GenerateArea
    BY <2>3, GenerateKeeps
  <2>4. CASE Throws
    <3>1. faults \in Nat /\ faults' = faults + 1
      BY <2>4 DEF Throws, AreaInv, AreasTypeOK
    <3> QED BY <2>4, <3>1, AllGoneKeeps DEF Throws, AreaInv, AreasTypeOK
  <2>5. CASE FinishArea
    BY <2>5, FinishKeeps
  <2>6. CASE RecordMade
    BY <2>6, MadeKeeps
  <2>7. CASE Restart
    <3>1. starts' \in Nat /\ faults \in Nat /\ faults' = faults
      BY <2>7 DEF Restart, AreaInv, AreasTypeOK
    <3>2. /\ areaCache' \in [Areas -> Qualities \cup {"empty", "bare"}]
          /\ \A a \in Areas : areaCache'[a] = "none"
      BY <2>7 DEF Restart, Qualities
    <3> QED BY <2>7, <3>1, <3>2, AllGoneKeeps DEF Restart
  <2>8. CASE UNCHANGED areaVars
    BY <2>8 DEF areaVars, AreaInv, AreasTypeOK, Nested, CallOK, RealSoFar,
       InProgress, OnlySurfaceSuffers
  <2> QED BY <2>1, <2>2, <2>3, <2>4, <2>5, <2>6, <2>7, <2>8 DEF AreasNext
<1> QED BY <1>1, <1>2, PTL DEF AreasSpec

\* get_area_data() never calls itself for the area that it is about, and never
\* goes deeper than two.
THEOREM NestingAlwaysEnds == AreasSpec => []NestingEnds
<1>1. AreaInv => NestingEnds
  <2> SUFFICES ASSUME AreaInv PROVE NestingEnds
    OBVIOUS
  <2>1. Len(calls) \in 0 .. 2 /\ DOMAIN calls = 1 .. Len(calls)
    BY CallFacts DEF AreaInv
  <2> QED BY <2>1 DEF AreaInv, Nested, NestingEnds
<1> QED BY <1>1, AreaInvariant, PTL

\* Without a generator that throws, all that is stored comes of finished data;
\* with one, of the stored areas only the surface may be wrong for good.
THEOREM AlwaysMadeOfReal == AreasSpec => []MadeOfReal
<1>1. AreaInv => MadeOfReal
  BY DEF AreaInv, AreasTypeOK, RealSoFar, MadeOfReal
<1> QED BY <1>1, AreaInvariant, PTL

-----------------------------------------------------------------------------
(***************************************************************************)
(* Terrain, for any chain of modules and chunks, areas and worlds of any   *)
(* size.                                                                   *)
(*                                                                         *)
(* A module reaches a chunk if it may put a block there.  The loop for the *)
(* height covers every module it has asked, and a block in a chunk is from *)
(* a module that reaches it.                                               *)
(***************************************************************************)

ChunkZ == 0 .. WorldLimit - 1

\* The module may put a block into the chunk.
Reaches(z, module) ==
    \/ module = "flat" /\ z < level
    \/ /\ module \in {"ground", "water"}
       /\ \E s \in Spots : z * ChunkSize < TopOf(HeightmapOf[module], s)
    \/ module = "testpattern"

\* What the module has said of its height is in the coarse height.
IsCovered(module) ==
    \A z \in ChunkZ : Reaches(z, module) => height # UndefinedHeight /\ z < height

\* Those that were asked are covered, and what is in a chunk is from one of them.
ChainCovered ==
    /\ loop = "height" =>
          \A i \in 1 .. Len(chain) : i < turn => IsCovered(chain[i])
    /\ loop = "chunk" =>
          /\ \A i \in 1 .. Len(chain) : IsCovered(chain[i])
          /\ \A b \in Inside :
                cnk[b] # "air" => \E i \in 1 .. Len(chain) : Reaches(at, chain[i])

TerrainInv == TerrainTypeOK /\ ChainCovered

-----------------------------------------------------------------------------

LEMMA TerrainNumbers ==
    /\ WorldCenter \in Nat /\ WorldLimit \in Nat /\ UndefinedHeight \in Nat
    /\ WorldLimit >= 2 /\ WorldLimit < UndefinedHeight
    /\ 2 * WorldCenter = ChunkSize * WorldLimit
<1>1. WorldCenter \in Nat /\ WorldLimit \in Nat /\ WorldLimit >= 2
  BY TerrainConstants DEF WorldCenter, WorldLimit
<1>2. ChunkSize * WorldLimit \in Nat /\ ChunkSize * WorldLimit >= 2 * WorldLimit
  BY <1>1, TerrainConstants
<1>3. 2 * WorldCenter = ChunkSize * WorldLimit
  BY TerrainConstants DEF WorldCenter, WorldLimit
<1> QED
  BY <1>1, <1>2, <1>3 DEF UndefinedHeight

\* What is below a block is below the chunk above it.
LEMMA AboveTop ==
    ASSUME NEW z \in Nat, NEW top \in Nat
    PROVE  /\ ChunkAbove(top) \in Nat
           /\ z * ChunkSize < top => z < ChunkAbove(top)
           /\ top < ChunkSize * WorldLimit => ChunkAbove(top) <= WorldLimit
<1> DEFINE q == top \div ChunkSize
           r == top % ChunkSize
<1>1. q \in Nat /\ r \in Nat /\ r < ChunkSize /\ top = ChunkSize * q + r
  BY TerrainConstants
<1> HIDE DEF q, r
<1>2. ASSUME z * ChunkSize < top  PROVE z < q + 1
  <2>1. SUFFICES ASSUME q + 1 <= z  PROVE FALSE
    BY <1>1
  <2>2. (q + 1) * ChunkSize <= z * ChunkSize
    BY <2>1, <1>1, TerrainConstants
  <2> QED
    BY <2>2, <1>1, <1>2, TerrainConstants
<1>3. ASSUME top < ChunkSize * WorldLimit  PROVE q + 1 <= WorldLimit
  <2>1. SUFFICES ASSUME WorldLimit <= q  PROVE FALSE
    BY <1>1, TerrainNumbers
  <2>2. ChunkSize * WorldLimit <= ChunkSize * q
    BY <2>1, <1>1, TerrainConstants, TerrainNumbers
  <2> QED
    BY <2>2, <1>1, <1>3, TerrainConstants, TerrainNumbers
<1> QED
  BY <1>1, <1>2, <1>3 DEF ChunkAbove, q

LEMMA CutTo16 ==
    ASSUME NEW v \in Int
    PROVE  Int16(v) \in AreaValue
<1>1. 2 * HalfRange \in Nat /\ 2 * HalfRange > 0 /\ v + HalfRange \in Int
  BY TerrainConstants
<1>2. (v + HalfRange) % (2 * HalfRange) \in 0 .. (2 * HalfRange) - 1
  BY <1>1
<1> QED
  BY <1>2, TerrainConstants DEF Int16, AreaValue

LEMMA TopIsBlock ==
    ASSUME TerrainTypeOK, NEW area \in AreaNames, NEW s \in Spots
    PROVE  TopOf(area, s) \in Nat /\ TopOf(area, s) < ChunkSize * WorldLimit
<1>1. areas[area][s] \in AreaValue
  BY DEF TerrainTypeOK
<1> QED
  BY <1>1, TerrainConstants, TerrainNumbers DEF AreaValue, TopOf

LEMMA NextModule ==
    ASSUME TerrainTypeOK, ~AllAsked
    PROVE  /\ turn \in 1 .. Len(chain) /\ turn + 1 \in 1 .. Len(chain) + 1
           /\ chain[turn] \in Modules
<1>1. Len(chain) \in Nat /\ turn \in Nat
  BY LenProperties DEF TerrainTypeOK
<1>2. turn \in 1 .. Len(chain)
  BY <1>1 DEF AllAsked, TerrainTypeOK
<1> QED
  BY <1>1, <1>2, ElementOfSeq DEF TerrainTypeOK

-----------------------------------------------------------------------------

LEMMA TerrainInitInv == TerrainInit => TerrainInv
<1> SUFFICES ASSUME TerrainInit  PROVE TerrainInv
  OBVIOUS
<1>1. PICK ground \in [Spots -> Given], water \in [Spots -> Given] :
         areas = [heightmap |-> ground, waterlevel |-> water,
                  surface |-> [s \in Spots |-> -HalfRange]]
  BY DEF TerrainInit
<1>2. areas \in [AreaNames -> [Spots -> AreaValue]]
  <2>1. ground \in [Spots -> AreaValue] /\ water \in [Spots -> AreaValue]
    BY TerrainConstants DEF AreaValue
  <2>2. [s \in Spots |-> -HalfRange] \in [Spots -> AreaValue]
    BY TerrainConstants DEF AreaValue
  <2> QED
    BY <1>1, <2>1, <2>2 DEF AreaNames
<1>3. chain \in Seq(Modules) /\ Len(chain) \in Nat
  BY TerrainConstants, LenProperties DEF TerrainInit
<1>4. cnk \in [Inside -> Materials]
  BY DEF TerrainInit, Empty, Materials
<1> QED
  BY <1>2, <1>3, <1>4, TerrainNumbers
  DEF TerrainInit, TerrainInv, TerrainTypeOK, ChainCovered

\* The blocks that each module leaves are of known materials.
LEMMA BlocksTyped ==
    ASSUME TerrainTypeOK
    PROVE  /\ FlatBlocks \in [Inside -> Materials]
           /\ \A module \in {"ground", "water"} :
                 HeightmapBlocks(module) \in [Inside -> Materials]
           /\ SoilBlocks \in [Inside -> Materials]
<1>1. /\ cnk \in [Inside -> Materials]
      /\ {"air", "stone", "water"} \subseteq Materials
  BY DEF TerrainTypeOK, Materials
<1>2. FlatBlocks \in [Inside -> Materials]
  BY <1>1 DEF FlatBlocks
<1>3. ASSUME NEW module \in {"ground", "water"}
      PROVE  HeightmapBlocks(module) \in [Inside -> Materials]
  <2>1. FillOf[module] \in Materials
    BY <1>1 DEF FillOf
  <2> QED
    BY <1>1, <2>1 DEF HeightmapBlocks
<1>4. SoilBlocks \in [Inside -> Materials]
  <2>1. ASSUME NEW b \in Inside, Layer(b) \in DOMAIN Soil[b[1]]
        PROVE  Soil[b[1]][Layer(b)] \in Materials
    BY <2>1 DEF Inside, Materials
  <2> QED
    BY <1>1, <2>1 DEF SoilBlocks
<1> QED
  BY <1>2, <1>3, <1>4

\* Heights that the estimates lead to.
LEMMA HeightTyped ==
    ASSUME TerrainTypeOK, NEW e \in (0 .. WorldLimit) \cup {UndefinedHeight}
    PROVE  HighestSoFar(e) \in (0 .. WorldLimit) \cup {UndefinedHeight}
  BY DEF HighestSoFar, TerrainTypeOK

\* A module that gives a height, or has nothing to give, is covered after it,
\* and so are those before.
LEMMA EstimateCovers ==
    ASSUME TerrainTypeOK, NEW e \in (0 .. WorldLimit) \cup {UndefinedHeight},
           NEW module \in Modules,
           \A z \in ChunkZ : Reaches(z, module) => e # UndefinedHeight /\ z < e,
           areas' = areas, level' = level, height' = HighestSoFar(e)
    PROVE  /\ IsCovered(module)'
           /\ \A m \in Modules : IsCovered(m) => IsCovered(m)'
<1>1. \A z \in ChunkZ, m \in Modules : Reaches(z, m)' <=> Reaches(z, m)
  BY DEF Reaches, TopOf
<1>2. /\ WorldLimit \in Nat /\ UndefinedHeight \in Nat /\ WorldLimit < UndefinedHeight
      /\ height \in Nat /\ e \in Nat /\ ChunkZ \subseteq Nat
  BY TerrainNumbers DEF TerrainTypeOK, ChunkZ
<1>3. e # UndefinedHeight => height' # UndefinedHeight /\ height' >= e
  BY <1>2 DEF HighestSoFar
<1>4. height # UndefinedHeight => height' # UndefinedHeight /\ height' >= height
  BY <1>2 DEF HighestSoFar
<1>5. height' \in Nat
  BY <1>2 DEF HighestSoFar
<1>6. IsCovered(module)'
  BY <1>1, <1>2, <1>3, <1>5 DEF IsCovered
<1>7. ASSUME NEW m \in Modules, IsCovered(m)  PROVE IsCovered(m)'
  BY <1>1, <1>2, <1>4, <1>5, <1>7 DEF IsCovered
<1> QED
  BY <1>6, <1>7

\* A step that leaves the height and what the modules say of it.
LEMMA StillCovered ==
    ASSUME areas' = areas, level' = level, height' = height
    PROVE  /\ \A m \in Modules : IsCovered(m) => IsCovered(m)'
           /\ \A z \in ChunkZ, m \in Modules : Reaches(z, m) => Reaches(z, m)'
<1>1. \A z \in ChunkZ, m \in Modules : Reaches(z, m)' <=> Reaches(z, m)
  BY DEF Reaches, TopOf
<1> QED
  BY <1>1 DEF IsCovered, ChunkZ

-----------------------------------------------------------------------------

LEMMA PassOverInv == TerrainInv /\ PassOver => TerrainInv'
<1> SUFFICES ASSUME TerrainInv, PassOver  PROVE TerrainInv'
  OBVIOUS
<1>1. /\ ~AllAsked /\ chain' = chain /\ level' = level /\ loop' = loop /\ at' = at
      /\ loop \in {"heightmap", "surface"}
      /\ turn' = turn + 1 /\ height' = height /\ cnk' = cnk
  BY LenProperties DEF PassOver, Raise, Skip, Is, IsHeightmapTerrain, AllAsked, TerrainInv, TerrainTypeOK
<1>2. areas' \in [AreaNames -> [Spots -> AreaValue]]
  <2>1. ASSUME NEW values \in [Spots -> AreaValue], Raise(values)
        PROVE  areas' \in [AreaNames -> [Spots -> AreaValue]]
    <3>1. [s \in Spots |-> Higher(areas[loop][s], values[s])] \in [Spots -> AreaValue]
      BY <1>1 DEF Higher, TerrainInv, TerrainTypeOK, AreaNames
    <3> QED
      BY <2>1, <3>1 DEF Raise, TerrainInv, TerrainTypeOK
  <2>2. CASE Is("flat") /\ Raise([s \in Spots |-> FlatValue])
    <3>1. FlatValue \in AreaValue
      BY CutTo16, TerrainConstants, TerrainNumbers DEF FlatValue, TerrainInv, TerrainTypeOK
    <3> QED
      BY <2>1, <2>2, <3>1
  <2>3. CASE IsHeightmapTerrain /\ Raise(areas[HeightmapOf[chain[turn]]])
    <3>1. areas[HeightmapOf[chain[turn]]] \in [Spots -> AreaValue]
      BY <2>3 DEF IsHeightmapTerrain, Is, HeightmapOf, AreaNames, TerrainInv, TerrainTypeOK
    <3> QED
      BY <2>1, <2>3, <3>1
  <2>4. CASE Skip
    BY <2>4 DEF Skip, TerrainInv, TerrainTypeOK
  <2> QED
    BY <2>2, <2>3, <2>4 DEF PassOver
<1>3. TerrainTypeOK'
  BY <1>1, <1>2, NextModule DEF TerrainInv, TerrainTypeOK
<1> QED
  BY <1>1, <1>3 DEF TerrainInv, ChainCovered

LEMMA EstimateHeightInv == TerrainInv /\ EstimateHeight => TerrainInv'
<1> SUFFICES ASSUME TerrainInv, EstimateHeight  PROVE TerrainInv'
  OBVIOUS
<1>1. /\ ~AllAsked /\ chain' = chain /\ level' = level /\ loop' = loop /\ at' = at
      /\ loop = "height" /\ areas' = areas /\ turn' = turn + 1 /\ cnk' = cnk
  BY LenProperties
  DEF EstimateHeight, Estimated, Is, IsHeightmapTerrain, AllAsked, TerrainInv, TerrainTypeOK
<1>2. turn \in 1 .. Len(chain) /\ turn + 1 \in 1 .. Len(chain) + 1 /\ chain[turn] \in Modules
  BY <1>1, NextModule DEF TerrainInv
<1>3. PICK e \in (0 .. WorldLimit) \cup {UndefinedHeight} :
         /\ height' = HighestSoFar(e)
         /\ \A z \in ChunkZ : Reaches(z, chain[turn]) => e # UndefinedHeight /\ z < e
  <2>1. CASE Is("flat") /\ Estimated(level)
    <3>1. level \in 0 .. WorldLimit /\ level # UndefinedHeight
      BY TerrainConstants, TerrainNumbers DEF TerrainInv, TerrainTypeOK
    <3> QED
      BY <2>1, <3>1 DEF Is, Estimated, Reaches
  <2>2. ASSUME IsHeightmapTerrain, NEW s \in Spots,
               IsHighest(HeightmapOf[chain[turn]], s),
               Estimated(ChunkAbove(TopOf(HeightmapOf[chain[turn]], s)))
        PROVE  \E e \in (0 .. WorldLimit) \cup {UndefinedHeight} :
                 /\ height' = HighestSoFar(e)
                 /\ \A z \in ChunkZ : Reaches(z, chain[turn]) => e # UndefinedHeight /\ z < e
    <3> DEFINE area == HeightmapOf[chain[turn]]
               top == TopOf(area, s)
    <3>1. area \in AreaNames /\ chain[turn] \in {"ground", "water"}
      BY <2>2 DEF IsHeightmapTerrain, Is, HeightmapOf, AreaNames
    <3>2. \A t \in Spots : TopOf(area, t) \in Nat /\ TopOf(area, t) < ChunkSize * WorldLimit
      BY <3>1, TopIsBlock DEF TerrainInv
    <3>3. ASSUME NEW t \in Spots  PROVE TopOf(area, t) <= top
      <4>1. areas[area][t] \in Int /\ areas[area][s] \in Int /\ areas[area][t] <= areas[area][s]
        BY <2>2, <3>1, TerrainConstants DEF IsHighest, TerrainInv, TerrainTypeOK, AreaValue
      <4> QED
        BY <4>1, TerrainNumbers DEF TopOf
    <3> HIDE DEF area, top
    <3>4. top \in Nat /\ top < ChunkSize * WorldLimit
      BY <3>2 DEF top
    <3>5. ChunkAbove(top) \in 0 .. WorldLimit /\ ChunkAbove(top) # UndefinedHeight
      BY <3>4, AboveTop, TerrainNumbers
    <3>6. ASSUME NEW z \in ChunkZ, Reaches(z, chain[turn])  PROVE z < ChunkAbove(top)
      <4>1. PICK t \in Spots : z * ChunkSize < TopOf(area, t)
        BY <3>1, <3>6 DEF Reaches, area
      <4>2. z \in Nat /\ z * ChunkSize \in Nat
        BY TerrainConstants, TerrainNumbers DEF ChunkZ
      <4>3. z * ChunkSize < top
        BY <4>1, <4>2, <3>2, <3>3, <3>4
      <4> QED
        BY <4>2, <4>3, <3>4, AboveTop
    <3>7. height' = HighestSoFar(ChunkAbove(top))
      BY <2>2 DEF Estimated, top, area
    <3> QED
      BY <3>5, <3>6, <3>7
  <2>3. CASE Is("testpattern") /\ Estimated(WorldLimit)
    <3>1. \A z \in ChunkZ : z < WorldLimit
      BY TerrainNumbers DEF ChunkZ
    <3> QED
      BY <2>3, <3>1, TerrainNumbers DEF Estimated
  <2>4. CASE (Is("caves") \/ Is("soil")) /\ Estimated(UndefinedHeight)
    BY <2>4 DEF Is, Estimated, Reaches
  <2> QED
    BY <2>1, <2>2, <2>3, <2>4 DEF EstimateHeight
<1>4. TerrainTypeOK'
  BY <1>1, <1>2, <1>3, HeightTyped DEF TerrainInv, TerrainTypeOK
<1>5. ASSUME NEW m \in Modules
      PROVE  /\ m = chain[turn] => IsCovered(m)'
             /\ IsCovered(m) => IsCovered(m)'
  <2>1. CASE m = chain[turn]
    BY <1>1, <1>3, <2>1, EstimateCovers DEF TerrainInv
  <2>2. CASE m # chain[turn]
    <3>1. chain[turn] \in Modules
      BY <1>2
    <3> QED
      BY <1>1, <1>3, <2>2, <3>1, EstimateCovers DEF TerrainInv
  <2> QED
    BY <2>1, <2>2
<1>6. ASSUME NEW i \in 1 .. Len(chain), i < turn + 1  PROVE IsCovered(chain[i])'
  <2>1. CASE i = turn
    BY <1>1, <1>2, <1>5, <2>1
  <2>2. CASE i # turn
    <3>1. i < turn /\ chain[i] \in Modules
      BY <1>2, <1>6, <2>2, LenProperties, ElementOfSeq DEF TerrainInv, TerrainTypeOK
    <3> QED
      BY <1>1, <1>5, <3>1 DEF TerrainInv, ChainCovered
  <2> QED
    BY <2>1, <2>2
<1> QED
  BY <1>1, <1>4, <1>6 DEF TerrainInv, ChainCovered

LEMMA GenerateInv == TerrainInv /\ Generate => TerrainInv'
<1> SUFFICES ASSUME TerrainInv, Generate  PROVE TerrainInv'
  OBVIOUS
<1>1. /\ ~AllAsked /\ chain' = chain /\ level' = level /\ loop' = loop /\ at' = at
      /\ loop = "chunk" /\ areas' = areas /\ turn' = turn + 1 /\ height' = height
  BY LenProperties
  DEF Generate, SoilStep, CaveStep, PatternStep, Generated, Is, IsHeightmapTerrain, AllAsked, TerrainInv, TerrainTypeOK
<1>2. turn \in 1 .. Len(chain) /\ turn + 1 \in 1 .. Len(chain) + 1 /\ chain[turn] \in Modules
  BY <1>1, NextModule DEF TerrainInv
<1>3. /\ cnk' \in [Inside -> Materials]
      /\ \A b \in Inside : cnk'[b] # "air" => cnk[b] # "air" \/ Reaches(at, chain[turn])
  <2>1. cnk \in [Inside -> Materials] /\ {"air", "stone"} \subseteq Materials
    BY DEF TerrainInv, TerrainTypeOK, Materials
  <2>2. CASE Is("flat") /\ Generated(FlatBlocks)
    <3>1. cnk' = FlatBlocks /\ FlatBlocks \in [Inside -> Materials] /\ chain[turn] = "flat"
      BY <2>2, BlocksTyped DEF Generated, Is, TerrainInv
    <3> QED
      BY <3>1 DEF FlatBlocks, Reaches
  <2>3. CASE IsHeightmapTerrain /\ Generated(HeightmapBlocks(chain[turn]))
    <3> DEFINE area == HeightmapOf[chain[turn]]
    <3>1. /\ cnk' = HeightmapBlocks(chain[turn])
          /\ chain[turn] \in {"ground", "water"} /\ area \in AreaNames
      BY <2>3 DEF Generated, IsHeightmapTerrain, Is, HeightmapOf, AreaNames
    <3>2. cnk' \in [Inside -> Materials]
      BY <3>1, BlocksTyped DEF TerrainInv
    <3>3. ASSUME NEW b \in Inside, cnk'[b] # "air", cnk[b] = "air"
          PROVE  Reaches(at, chain[turn])
      <4>1. b[2] < Filled(b[1], TopOf(area, b[1])) /\ b[2] \in Nat /\ b[1] \in Spots
        BY <3>1, <3>3 DEF HeightmapBlocks, Inside
      <4>2. TopOf(area, b[1]) > at * ChunkSize
        BY <4>1 DEF Filled
      <4>3. at * ChunkSize < TopOf(area, b[1])
        BY <4>2
      <4> QED
        BY <3>1, <4>1, <4>3 DEF Reaches
    <3> QED
      BY <3>2, <3>3
  <2>4. ASSUME NEW carved \in SUBSET Inside, Is("caves"),
               Generated([b \in Inside |-> IF b \in carved THEN "air" ELSE cnk[b]])
        PROVE  /\ cnk' \in [Inside -> Materials]
               /\ \A b \in Inside : cnk'[b] # "air" => cnk[b] # "air"
    BY <2>1, <2>4 DEF Generated
  <2>5. CASE SoilStep
    <3>1. cnk' = SoilBlocks /\ SoilBlocks \in [Inside -> Materials]
      BY <2>5, BlocksTyped DEF SoilStep, Generated, TerrainInv
    <3> QED
      BY <3>1 DEF SoilBlocks
  <2>6. ASSUME NEW solid \in SUBSET Inside, Is("testpattern"),
               Generated([b \in Inside |-> IF b \in solid THEN "stone" ELSE "air"])
        PROVE  cnk' \in [Inside -> Materials] /\ Reaches(at, chain[turn])
    BY <2>1, <2>6 DEF Generated, Is, Reaches
  <2> QED
    BY <2>2, <2>3, <2>4, <2>5, <2>6 DEF Generate, CaveStep, PatternStep
<1>4. TerrainTypeOK'
  BY <1>1, <1>2, <1>3 DEF TerrainInv, TerrainTypeOK
<1>5. \A i \in 1 .. Len(chain) : chain[i] \in Modules
  BY ElementOfSeq DEF TerrainInv, TerrainTypeOK
<1>6. \A i \in 1 .. Len(chain) : IsCovered(chain[i])'
  BY <1>1, <1>5, StillCovered DEF TerrainInv, ChainCovered
<1>7. ASSUME NEW b \in Inside, cnk'[b] # "air"
      PROVE  \E i \in 1 .. Len(chain) : Reaches(at, chain[i])
  BY <1>1, <1>2, <1>3, <1>7 DEF TerrainInv, ChainCovered
<1>8. \A i \in 1 .. Len(chain) : Reaches(at, chain[i]) => Reaches(at, chain[i])'
  BY <1>1 DEF Reaches, TopOf
<1> QED
  BY <1>1, <1>4, <1>6, <1>7, <1>8 DEF TerrainInv, ChainCovered

LEMMA NextAreaInv == TerrainInv /\ NextArea => TerrainInv'
<1> SUFFICES ASSUME TerrainInv, NextArea  PROVE TerrainInv'
  OBVIOUS
<1>1. TerrainTypeOK'
  BY LenProperties DEF NextArea, TerrainInv, TerrainTypeOK
<1>2. ChainCovered'
  BY LenProperties DEF NextArea, ChainCovered, TerrainInv, TerrainTypeOK
<1> QED
  BY <1>1, <1>2 DEF TerrainInv

LEMMA BeginChunkInv ==
    ASSUME TerrainInv, NEW z \in ChunkZ, BeginChunk(z)
    PROVE  TerrainInv'
<1>1. /\ Len(chain) \in Nat /\ chain' = chain /\ level' = level /\ areas' = areas
      /\ loop' = "chunk" /\ turn' = 1 /\ at' = z /\ cnk' = Empty
      /\ height' \in 0 .. WorldLimit
  BY TerrainNumbers, LenProperties DEF BeginChunk, TerrainInv, TerrainTypeOK
<1>2. TerrainTypeOK'
  <2>1. Empty \in [Inside -> Materials]
    BY DEF Empty, Materials
  <2> QED
    BY <1>1, <2>1 DEF ChunkZ, TerrainInv, TerrainTypeOK
<1>3. ASSUME NEW i \in 1 .. Len(chain)  PROVE IsCovered(chain[i])
  BY <1>1 DEF BeginChunk, AllAsked, TerrainInv, TerrainTypeOK, ChainCovered
<1>4. ASSUME NEW i \in 1 .. Len(chain)  PROVE IsCovered(chain[i])'
  <2>1. \A c \in ChunkZ : Reaches(c, chain[i])' <=> Reaches(c, chain[i])
    BY <1>1 DEF Reaches, TopOf
  <2>2. ASSUME NEW c \in ChunkZ, Reaches(c, chain[i])
        PROVE  height' # UndefinedHeight /\ c < height'
    <3>1. height # UndefinedHeight /\ c < height
      BY <1>3, <2>2 DEF IsCovered
    <3> QED
      BY <3>1 DEF BeginChunk
  <2> QED
    BY <2>1, <2>2 DEF IsCovered, ChunkZ
<1>5. \A b \in Inside : cnk'[b] = "air"
  BY <1>1 DEF Empty
<1> QED
  BY <1>1, <1>2, <1>4, <1>5 DEF TerrainInv, ChainCovered

LEMMA TerrainStepInv == TerrainInv /\ [TerrainNext]_terrainVars => TerrainInv'
<1> SUFFICES ASSUME TerrainInv, [TerrainNext]_terrainVars  PROVE TerrainInv'
  OBVIOUS
<1>1. CASE PassOver
  BY <1>1, PassOverInv
<1>2. CASE EstimateHeight
  BY <1>2, EstimateHeightInv
<1>3. CASE Generate
  BY <1>3, GenerateInv
<1>4. CASE NextArea
  BY <1>4, NextAreaInv
<1>5. CASE \E z \in 0 .. WorldLimit - 1 : BeginChunk(z)
  BY <1>5, BeginChunkInv DEF ChunkZ
<1>6. CASE UNCHANGED terrainVars
  BY <1>6
  DEF terrainVars, TerrainInv, TerrainTypeOK, ChainCovered, IsCovered, Reaches, TopOf
<1> QED
  BY <1>1, <1>2, <1>3, <1>4, <1>5, <1>6 DEF TerrainNext

THEOREM TerrainInvariant == TerrainSpec => []TerrainInv
<1> QED
  BY TerrainInitInv, TerrainStepInv, PTL DEF TerrainSpec

\* The estimates hold for any chain of modules, any areas and chunks of any
\* size: what World assumes of its generators is so (GeneratorContract).
THEOREM EstimateAlwaysHolds == TerrainSpec => []EstimateHolds
<1>1. TerrainInv => EstimateHolds
  <2> SUFFICES ASSUME TerrainInv, loop = "chunk", at >= height  PROVE cnk = Empty
    BY DEF EstimateHolds
  <2>1. ASSUME NEW b \in Inside  PROVE cnk[b] = "air"
    <3>1. SUFFICES ASSUME cnk[b] # "air"  PROVE FALSE
      OBVIOUS
    <3>2. PICK i \in 1 .. Len(chain) : Reaches(at, chain[i])
      BY <3>1 DEF TerrainInv, ChainCovered
    <3>3. at \in ChunkZ /\ at \in Nat /\ height \in Nat
      BY TerrainNumbers DEF ChunkZ, TerrainInv, TerrainTypeOK
    <3>4. at < height
      BY <3>2, <3>3 DEF TerrainInv, ChainCovered, IsCovered
    <3> QED
      BY <3>3, <3>4
  <2>2. cnk \in [Inside -> Materials]
    BY DEF TerrainInv, TerrainTypeOK
  <2> QED
    BY <2>1, <2>2 DEF Empty
<1> QED
  BY <1>1, TerrainInvariant, PTL

-----------------------------------------------------------------------------

\* The terrain is limited to 16 bits: in that range nothing is cut.
LEMMA NothingCut ==
    ASSUME NEW v \in AreaValue
    PROVE  Int16(v) = v
<1>1. v + HalfRange \in 0 .. (2 * HalfRange) - 1
  BY TerrainConstants DEF AreaValue
<1>2. (v + HalfRange) % (2 * HalfRange) = v + HalfRange
  BY <1>1, TerrainConstants
<1> QED
  BY <1>2, TerrainConstants DEF Int16, AreaValue

\* What of a chunk in range is used below.
LEMMA RangeFacts ==
    ASSUME NEW z \in Nat, InRange(z)
    PROVE  /\ z * ChunkSize - WorldCenter \in AreaValue
           /\ z * ChunkSize \in Nat
           /\ z * ChunkSize + ChunkSize - WorldCenter <= HalfRange
<1>1. (z + 1) * ChunkSize = z * ChunkSize + ChunkSize /\ z * ChunkSize \in Nat
  BY TerrainConstants
<1> QED
  BY <1>1, TerrainConstants, TerrainNumbers DEF InRange, AreaValue

\* Blocks of a chunk in range have heights in 16 bits.
LEMMA BlockHeight ==
    ASSUME TerrainTypeOK, InRange(at), NEW b \in Inside
    PROVE  /\ HeightOf(b) \in AreaValue
           /\ HeightOf(b) = (at * ChunkSize - WorldCenter) + b[2]
           /\ b[1] \in Spots /\ b[2] \in 0 .. ChunkSize - 1
<1>1. at \in Nat /\ b[1] \in Spots /\ b[2] \in 0 .. ChunkSize - 1
  BY TerrainNumbers DEF TerrainTypeOK, Inside
<1> DEFINE bottom == at * ChunkSize
<1>2. /\ bottom \in Nat /\ bottom - WorldCenter \in AreaValue
      /\ bottom + ChunkSize - WorldCenter <= HalfRange
  BY <1>1, RangeFacts
<1>3. HeightOf(b) = bottom + b[2] - WorldCenter
  BY DEF HeightOf
<1> DEFINE row == b[2]
<1> HIDE DEF bottom, row
<1>4. row \in 0 .. ChunkSize - 1 /\ HeightOf(b) = bottom + row - WorldCenter
  BY <1>1, <1>3 DEF row
<1>5. ChunkSize \in Nat /\ HalfRange \in Nat /\ WorldCenter \in Int
  BY TerrainNumbers, TerrainConstants
<1>6. HeightOf(b) = (bottom - WorldCenter) + row
  BY <1>2, <1>4, <1>5
<1>7. -HalfRange <= bottom + row - WorldCenter /\ bottom + row - WorldCenter < HalfRange
  BY <1>2, <1>4, <1>5 DEF AreaValue
<1>8. bottom + row - WorldCenter \in -HalfRange .. HalfRange - 1
  BY <1>2, <1>4, <1>5, <1>7
<1> QED
  BY <1>1, <1>4, <1>6, <1>8 DEF bottom, row, AreaValue

\* The layers of the soil are where the heights of the blocks say, for any
\* sizes, soils and chains.
THEOREM SoilAlwaysWhole == TerrainSpec => SoilIsWhole
<1>1. ASSUME TerrainInv, [TerrainNext]_terrainVars, loop = "chunk", Is("soil"),
             InRange(at), terrainVars' # terrainVars, NEW b \in Inside
      PROVE  LET depth == areas["surface"][b[1]] - HeightOf(b)
             IN  cnk'[b] = IF cnk[b] = "stone" /\ depth \in DOMAIN Soil[b[1]]
                           THEN Soil[b[1]][depth] ELSE cnk[b]
  <2>1. ~AllAsked
    BY <1>1, LenProperties DEF Is, AllAsked, TerrainInv, TerrainTypeOK
  <2>2. cnk' = SoilBlocks
    BY <1>1, <2>1
    DEF TerrainNext, PassOver, EstimateHeight, NextArea, BeginChunk, Generate,
        SoilStep, CaveStep, PatternStep, Generated, Is, IsHeightmapTerrain, terrainVars
  <2> DEFINE lz == areas["surface"][b[1]]
             soil == Soil[b[1]]
             low == at * ChunkSize - WorldCenter
  <2>3. at \in Nat /\ low \in AreaValue /\ ZOffset = low
    BY <1>1, RangeFacts, NothingCut, TerrainNumbers DEF ZOffset, TerrainInv, TerrainTypeOK
  <2>4. lz \in Int /\ low \in Int /\ b[1] \in Spots /\ b[2] \in 0 .. ChunkSize - 1
    BY <1>1, <2>3, TerrainConstants DEF Inside, AreaValue, AreaNames, TerrainInv, TerrainTypeOK
  <2>5. Len(soil) \in Nat /\ DOMAIN soil = 1 .. Len(soil)
    BY <2>4, SoilMaterials, LenProperties
  <2>6. lz - HeightOf(b) = Layer(b)
    <3>1. HeightOf(b) = low + b[2] /\ Layer(b) = lz - low - b[2]
      BY <1>1, <2>3, BlockHeight DEF Layer, TerrainInv
    <3> HIDE DEF lz, low
    <3> QED
      BY <2>4, <3>1
  <2>7. OutOfReach(b[1], lz) => Layer(b) \notin DOMAIN soil
    <3>1. ChunkSize \in Nat /\ Layer(b) = lz - low - b[2]
      BY <2>3, TerrainConstants DEF Layer
    <3>2. OutOfReach(b[1], lz) <=> lz <= low \/ lz - Len(soil) > low + ChunkSize
      BY <2>3 DEF OutOfReach
    <3> HIDE DEF lz, soil, low
    <3> QED
      BY <2>4, <2>5, <3>1, <3>2
  <2>8. cnk'[b] = IF ~OutOfReach(b[1], lz) /\ cnk[b] = "stone" /\ Layer(b) \in DOMAIN soil
                  THEN soil[Layer(b)] ELSE cnk[b]
    BY <2>2 DEF SoilBlocks
  <2> QED
    BY <2>6, <2>7, <2>8
<1>2. TerrainInv /\ [TerrainNext]_terrainVars =>
        [loop = "chunk" /\ Is("soil") /\ InRange(at) =>
            \A b \in Inside :
                LET depth == areas["surface"][b[1]] - HeightOf(b)
                IN  cnk'[b] = IF cnk[b] = "stone" /\ depth \in DOMAIN Soil[b[1]]
                              THEN Soil[b[1]][depth] ELSE cnk[b]]_terrainVars
  BY <1>1
<1> QED
  BY <1>2, TerrainInvariant, PTL DEF TerrainSpec, SoilIsWhole

-----------------------------------------------------------------------------
(***************************************************************************)
(* The surface is the highest of the tops, and a block is there if and     *)
(* only if it is below one of them.                                        *)
(***************************************************************************)

IsTerrain(module) == module \in {"flat", "ground", "water"}

\* How high the module builds at a spot, in 16 bits.
TopAt(module, s) ==
    IF module = "flat" THEN FlatValue ELSE areas[HeightmapOf[module]][s]

\* One of the first modules, up to the n-th without it, builds above z.
BuiltAbove(n, s, z) ==
    \E i \in 1 .. Len(chain) : i < n /\ IsTerrain(chain[i]) /\ z < TopAt(chain[i], s)

\* The surface is what the first modules make of it.
SurfaceUpTo(n) ==
    \A s \in Spots, z \in AreaValue :
        z < areas["surface"][s] <=> BuiltAbove(n, s, z)

\* A chunk that the theorem is about.
IsPlain ==
    /\ InRange(at) /\ (Uses("flat") => InRange(level))
    /\ ~Uses("testpattern")

SurfaceInv ==
    /\ loop = "heightmap" => \A s \in Spots : areas["surface"][s] = -HalfRange
    /\ loop = "surface" => SurfaceUpTo(turn)
    /\ loop \in {"height", "chunk"} => SurfaceUpTo(Len(chain) + 1)

BlocksInv ==
    loop = "chunk" /\ IsPlain =>
        \A b \in Inside :
            /\ cnk[b] # "air" => BuiltAbove(turn, b[1], HeightOf(b))
            /\ BuiltAbove(turn, b[1], HeightOf(b)) /\ ~Uses("caves") => cnk[b] # "air"

\* The center of the world vanishes in 16 bits.
LEMMA CenterVanishes ==
    ASSUME NEW v \in AreaValue
    PROVE  Int16(WorldCenter + v) = v
<1> DEFINE m == 2 * HalfRange
           y == v + HalfRange
           k == WorldCenter \div m
           q == (WorldCenter + y) \div m
           r == (WorldCenter + y) % m
<1>1. m \in Nat /\ m > 0 /\ y \in Nat /\ y < m /\ WorldCenter \in Nat
  BY TerrainConstants, TerrainNumbers DEF AreaValue
<1>2. k \in Int /\ WorldCenter = m * k
  <2>1. WorldCenter % m = 0
    BY TerrainConstants
  <2> HIDE DEF m
  <2> QED
    BY <1>1, <2>1
<1>3. q \in Int /\ r \in Nat /\ r < m /\ WorldCenter + y = m * q + r
  <2> HIDE DEF m, y
  <2> QED
    BY <1>1
<1>4. r = y
  <2> HIDE DEF m, y, k, q, r
  <2>1. m * q - m * k = y - r
    BY <1>1, <1>2, <1>3
  <2>2. m * q - m * k = m * (q - k)
    BY <1>1, <1>2, <1>3
  <2>3. q - k < 1
    <3>1. SUFFICES ASSUME q - k >= 1  PROVE FALSE
      BY <1>2, <1>3
    <3>2. m * (q - k) >= m
      BY <3>1, <1>1, <1>2, <1>3
    <3> QED
      BY <3>2, <2>1, <2>2, <1>1, <1>3
  <2>4. q - k > -1
    <3>1. SUFFICES ASSUME q - k <= -1  PROVE FALSE
      BY <1>2, <1>3
    <3>2. m * (q - k) <= -m
      BY <3>1, <1>1, <1>2, <1>3
    <3> QED
      BY <3>2, <2>1, <2>2, <1>1, <1>3
  <2>5. q = k
    BY <2>3, <2>4, <1>2, <1>3
  <2> QED
    BY <2>5, <1>1, <1>2, <1>3
<1>5. Int16(WorldCenter + v) = r - HalfRange
  BY <1>1, TerrainConstants DEF Int16, AreaValue
<1> QED
  BY <1>4, <1>5, TerrainConstants DEF AreaValue

\* The distance from the chunk to the top fits in 16 bits.
LEMMA FilledToTop ==
    ASSUME TerrainTypeOK, InRange(at), NEW b \in Inside, NEW area \in AreaNames
    PROVE  b[2] < Filled(b[1], TopOf(area, b[1])) <=> HeightOf(b) < areas[area][b[1]]
<1> DEFINE bottom == at * ChunkSize
           top == TopOf(area, b[1])
           value == areas[area][b[1]]
           m == 2 * HalfRange
<1>1. /\ at \in Nat /\ b[1] \in Spots /\ b[2] \in 0 .. ChunkSize - 1
      /\ ChunkSize \in Nat /\ WorldCenter \in Nat /\ HalfRange \in Nat
  BY BlockHeight, TerrainNumbers, TerrainConstants DEF TerrainTypeOK
<1>2. bottom \in Nat /\ bottom - WorldCenter \in AreaValue
  BY <1>1, RangeFacts
<1>3. value \in AreaValue /\ value \in Int
  BY <1>1, TerrainConstants DEF TerrainTypeOK, AreaValue
<1>4. top = WorldCenter + value /\ HeightOf(b) = bottom - WorldCenter + b[2]
  BY <1>1, <1>2, BlockHeight DEF TopOf
<1>5. m \in Nat /\ m > 0 /\ top - bottom < m
  BY <1>1, <1>2, <1>3, <1>4, TerrainConstants DEF AreaValue
<1>6. Filled(b[1], top) = IF top > bottom THEN Lower((top - bottom) % m, ChunkSize) ELSE 0
  BY DEF Filled
<1> HIDE DEF bottom, top, value, m
<1>7. CASE top > bottom
  <2>1. (top - bottom) % m = top - bottom
    BY <1>1, <1>2, <1>3, <1>4, <1>5, <1>7
  <2> QED
    BY <1>1, <1>2, <1>3, <1>4, <1>6, <1>7, <2>1 DEF Lower, value, top
<1>8. CASE ~(top > bottom)
  BY <1>1, <1>2, <1>3, <1>4, <1>6, <1>8 DEF value, top
<1> QED
  BY <1>7, <1>8

\* The chunks of a flat world end at its level.
LEMMA FlatToTop ==
    ASSUME TerrainTypeOK, InRange(at), InRange(level), NEW b \in Inside
    PROVE  at < level <=> HeightOf(b) < FlatValue
<1>1. /\ at \in Nat /\ level \in Nat /\ ChunkSize \in Nat /\ WorldCenter \in Nat
      /\ b[2] \in 0 .. ChunkSize - 1
  BY BlockHeight, TerrainNumbers, TerrainConstants DEF TerrainTypeOK
<1>2. level * ChunkSize - WorldCenter \in AreaValue /\ level * ChunkSize \in Nat
  BY <1>1, RangeFacts
<1>3. FlatValue = level * ChunkSize - WorldCenter
  <2>1. Int16(WorldCenter + (level * ChunkSize - WorldCenter)) = level * ChunkSize - WorldCenter
    BY <1>2, CenterVanishes
  <2>2. WorldCenter + (level * ChunkSize - WorldCenter) = level * ChunkSize
    BY <1>1, <1>2
  <2> QED
    BY <2>1, <2>2 DEF FlatValue
<1>4. at * ChunkSize \in Nat /\ HeightOf(b) = (at * ChunkSize - WorldCenter) + b[2]
  BY <1>1, BlockHeight
<1>5. CASE at < level
  <2>1. (at + 1) * ChunkSize <= level * ChunkSize
    BY <1>1, <1>5
  <2>2. (at + 1) * ChunkSize = at * ChunkSize + ChunkSize
    BY <1>1
  <2> QED
    BY <1>1, <1>2, <1>3, <1>4, <1>5, <2>1, <2>2
<1>6. CASE ~(at < level)
  <2>1. level * ChunkSize <= at * ChunkSize
    BY <1>1, <1>6
  <2> QED
    BY <1>1, <1>2, <1>3, <1>4, <1>6, <2>1
<1> QED
  BY <1>5, <1>6

\* What is built does not change while areas are left alone, and one more
\* module adds what it builds.
LEMMA BuiltByNext ==
    ASSUME TerrainTypeOK, ~AllAsked, NEW s \in Spots, NEW z \in AreaValue
    PROVE  BuiltAbove(turn + 1, s, z) <=>
             \/ BuiltAbove(turn, s, z)
             \/ IsTerrain(chain[turn]) /\ z < TopAt(chain[turn], s)
<1>1. turn \in 1 .. Len(chain) /\ Len(chain) \in Nat
  BY NextModule, LenProperties DEF TerrainTypeOK
<1>2. \A i \in 1 .. Len(chain) : i < turn + 1 <=> i < turn \/ i = turn
  BY <1>1
<1> QED
  BY <1>1, <1>2 DEF BuiltAbove

LEMMA BuiltStays ==
    ASSUME chain' = chain, level' = level, areas' = areas
    PROVE  \A n \in Nat, s \in Spots, z \in AreaValue :
             BuiltAbove(n, s, z)' <=> BuiltAbove(n, s, z)
  BY DEF BuiltAbove, TopAt, FlatValue

\* The surface is above a height if some module builds above it, and the next
\* module raises it to its own top.
LEMMA SurfaceRaised ==
    ASSUME TerrainInv, SurfaceInv, PassOver
    PROVE  SurfaceInv'
<1>1. /\ ~AllAsked /\ chain' = chain /\ level' = level /\ loop' = loop
      /\ loop \in {"heightmap", "surface"} /\ turn' = turn + 1
  BY LenProperties
  DEF PassOver, Raise, Skip, Is, IsHeightmapTerrain, AllAsked, TerrainInv, TerrainTypeOK
<1>2. CASE loop = "heightmap"
  <2>1. areas'["surface"] = areas["surface"]
    BY <1>2 DEF PassOver, Raise, Skip, AreaNames, TerrainInv, TerrainTypeOK
  <2> QED
    BY <1>1, <1>2, <2>1 DEF SurfaceInv
<1>3. CASE loop = "surface"
  <2>1. \A name \in {"heightmap", "waterlevel"} : areas'[name] = areas[name]
    BY <1>3 DEF PassOver, Raise, Skip, AreaNames, TerrainInv, TerrainTypeOK
  <2>2. TerrainTypeOK'
    BY PassOverInv DEF TerrainInv
  <2>3. ASSUME NEW s \in Spots, NEW z \in AreaValue, NEW i \in 1 .. Len(chain),
               IsTerrain(chain[i])
        PROVE  TopAt(chain[i], s)' = TopAt(chain[i], s)
    BY <1>1, <2>1, <2>3 DEF TopAt, IsTerrain, HeightmapOf, FlatValue
  <2>4. ASSUME NEW s \in Spots, NEW z \in AreaValue, NEW n \in Nat
        PROVE  BuiltAbove(n, s, z)' <=> BuiltAbove(n, s, z)
    BY <1>1, <2>3 DEF BuiltAbove
  <2>5. ASSUME NEW s \in Spots, NEW z \in AreaValue
        PROVE  z < areas'["surface"][s] <=>
                 \/ z < areas["surface"][s]
                 \/ IsTerrain(chain[turn]) /\ z < TopAt(chain[turn], s)
    <3>1. /\ areas["surface"] \in [Spots -> AreaValue] /\ "surface" \in DOMAIN areas
          /\ AreaValue \subseteq Int
      BY TerrainConstants DEF TerrainInv, TerrainTypeOK, AreaNames, AreaValue
    <3>2. ASSUME NEW top \in [Spots -> AreaValue], Raise(top)
          PROVE  z < areas'["surface"][s] <=> z < areas["surface"][s] \/ z < top[s]
      <4>1. areas'["surface"][s] = Higher(areas["surface"][s], top[s])
        BY <1>3, <3>1, <3>2 DEF Raise
      <4>2. areas["surface"][s] \in Int /\ top[s] \in Int /\ z \in Int
        BY <3>1
      <4> QED
        BY <4>1, <4>2 DEF Higher
    <3>3. CASE Is("flat") /\ Raise([t \in Spots |-> FlatValue])
      <4>1. [t \in Spots |-> FlatValue] \in [Spots -> AreaValue]
        BY CutTo16, TerrainConstants, TerrainNumbers
        DEF FlatValue, TerrainInv, TerrainTypeOK
      <4>2. chain[turn] = "flat"
        BY <3>3 DEF Is
      <4> QED
        BY <3>2, <3>3, <4>1, <4>2 DEF TopAt, IsTerrain
    <3>4. CASE IsHeightmapTerrain /\ Raise(areas[HeightmapOf[chain[turn]]])
      <4>1. chain[turn] \in {"ground", "water"}
        BY <3>4 DEF IsHeightmapTerrain, Is
      <4>2. areas[HeightmapOf[chain[turn]]] \in [Spots -> AreaValue]
        BY <4>1 DEF HeightmapOf, AreaNames, TerrainInv, TerrainTypeOK
      <4> QED
        BY <3>2, <3>4, <4>1, <4>2 DEF TopAt, IsTerrain
    <3>5. CASE (Is("caves") \/ Is("soil") \/ Is("testpattern")) /\ Skip
      BY <3>5 DEF Is, Skip, IsTerrain
    <3> QED
      BY <1>3, <3>3, <3>4, <3>5 DEF PassOver
  <2>6. turn \in Nat /\ turn + 1 \in Nat
    BY <1>1, NextModule, LenProperties DEF TerrainInv, TerrainTypeOK
  <2>7. SurfaceUpTo(turn)
    BY <1>3 DEF SurfaceInv
  <2>8. ASSUME NEW s \in Spots, NEW z \in AreaValue
        PROVE  z < areas'["surface"][s] <=> BuiltAbove(turn + 1, s, z)
    BY <1>1, <2>5, <2>7, BuiltByNext DEF SurfaceUpTo, TerrainInv
  <2>9. SurfaceUpTo(turn)'
    BY <1>1, <2>4, <2>6, <2>8 DEF SurfaceUpTo, BuiltAbove
  <2> QED
    BY <1>1, <1>3, <2>9 DEF SurfaceInv
<1> QED
  BY <1>1, <1>2, <1>3

LEMMA SurfaceStarts ==
    ASSUME TerrainInv, SurfaceInv, NextArea
    PROVE  SurfaceInv'
<1>1. /\ chain' = chain /\ level' = level /\ areas' = areas /\ turn' = 1
      /\ Len(chain) \in Nat /\ turn = Len(chain) + 1
  BY LenProperties DEF NextArea, AllAsked, TerrainInv, TerrainTypeOK
<1>2. \A n \in Nat : SurfaceUpTo(n)' <=> SurfaceUpTo(n)
  BY <1>1, BuiltStays DEF SurfaceUpTo
<1>3. CASE loop = "heightmap"
  <2>1. \A s \in Spots, z \in AreaValue : ~(z < areas["surface"][s])
    BY <1>3, TerrainConstants DEF SurfaceInv, AreaValue
  <2>2. \A s \in Spots, z \in AreaValue : ~BuiltAbove(1, s, z)
    BY <1>1 DEF BuiltAbove
  <2>3. SurfaceUpTo(1)
    BY <2>1, <2>2 DEF SurfaceUpTo
  <2>4. SurfaceUpTo(turn)'
    BY <1>1, <2>3, BuiltStays DEF SurfaceUpTo, BuiltAbove
  <2> QED
    BY <1>3, <2>4 DEF NextArea, SurfaceInv
<1>4. CASE loop = "surface"
  <2>1. SurfaceUpTo(Len(chain) + 1)
    BY <1>1, <1>4 DEF SurfaceInv
  <2>2. SurfaceUpTo(Len(chain) + 1)'
    BY <1>1, <2>1, BuiltStays DEF SurfaceUpTo, BuiltAbove
  <2> QED
    BY <1>4, <2>2 DEF NextArea, SurfaceInv
<1> QED
  BY <1>3, <1>4 DEF NextArea

LEMMA SurfaceLeft ==
    ASSUME TerrainInv, SurfaceInv,
           chain' = chain, level' = level, areas' = areas,
           loop \in {"height", "chunk"}, loop' \in {"height", "chunk"}
    PROVE  SurfaceInv'
<1>1. SurfaceUpTo(Len(chain) + 1) /\ Len(chain) + 1 \in Nat
  BY LenProperties DEF SurfaceInv, TerrainInv, TerrainTypeOK
<1>2. SurfaceUpTo(Len(chain) + 1)'
  BY <1>1, BuiltStays DEF SurfaceUpTo, BuiltAbove
<1> QED
  BY <1>2 DEF SurfaceInv

\* Each module fills what is below its top, and leaves the rest; the soil only
\* changes blocks that are there, and only caves take blocks away.
LEMMA BlocksBuilt ==
    ASSUME TerrainInv, BlocksInv, Generate
    PROVE  BlocksInv'
<1> SUFFICES ASSUME loop' = "chunk", IsPlain', NEW b \in Inside
             PROVE  /\ cnk'[b] # "air" => BuiltAbove(turn, b[1], HeightOf(b))'
                    /\ BuiltAbove(turn, b[1], HeightOf(b))' /\ ~Uses("caves")' => cnk'[b] # "air"
  BY DEF BlocksInv
<1>1. /\ ~AllAsked /\ chain' = chain /\ level' = level /\ at' = at
      /\ loop = "chunk" /\ areas' = areas /\ turn' = turn + 1
  BY LenProperties
  DEF Generate, SoilStep, CaveStep, PatternStep, Generated, Is, IsHeightmapTerrain, AllAsked, TerrainInv, TerrainTypeOK
<1>2. IsPlain /\ InRange(at) /\ (Uses("caves")' <=> Uses("caves"))
  BY <1>1 DEF IsPlain, InRange, Uses
<1>3. turn \in 1 .. Len(chain) /\ turn + 1 \in Nat /\ chain[turn] \in Modules
  BY <1>1, NextModule, LenProperties DEF TerrainInv, TerrainTypeOK
<1> DEFINE s == b[1]
           z == HeightOf(b)
           before == BuiltAbove(turn, s, z)
           now == IsTerrain(chain[turn]) /\ z < TopAt(chain[turn], s)
<1>4. s \in Spots /\ z \in AreaValue /\ HeightOf(b)' = z
  BY <1>1, <1>2, BlockHeight DEF TerrainInv, HeightOf
<1>5. BuiltAbove(turn, b[1], HeightOf(b))' <=> before \/ now
  <2>1. BuiltAbove(turn + 1, s, z) <=> before \/ now
    BY <1>1, <1>4, BuiltByNext DEF TerrainInv
  <2>2. BuiltAbove(turn, b[1], HeightOf(b))' <=> BuiltAbove(turn + 1, s, z)
    BY <1>1, <1>4 DEF BuiltAbove, TopAt, FlatValue
  <2> QED
    BY <2>1, <2>2
<1>6. (cnk[b] # "air" => before) /\ (before /\ ~Uses("caves") => cnk[b] # "air")
  BY <1>1, <1>2 DEF BlocksInv
<1>7. DOMAIN chain = 1 .. Len(chain)
  BY LenProperties DEF TerrainInv, TerrainTypeOK
<1>8. /\ cnk'[b] # "air" => cnk[b] # "air" \/ now
      /\ ~Uses("caves") /\ (cnk[b] # "air" \/ now) => cnk'[b] # "air"
  <2>1. CASE Is("flat") /\ Generated(FlatBlocks)
    <3>1. chain[turn] = "flat" /\ Uses("flat")
      BY <1>3, <1>7, <2>1 DEF Is, Uses
    <3>2. at < level <=> now
      BY <1>2, <3>1, FlatToTop DEF IsPlain, IsTerrain, TopAt, TerrainInv
    <3>3. cnk'[b] = IF at < level THEN "stone" ELSE cnk[b]
      BY <2>1 DEF Generated, FlatBlocks
    <3> QED
      BY <3>2, <3>3
  <2>2. CASE IsHeightmapTerrain /\ Generated(HeightmapBlocks(chain[turn]))
    <3> DEFINE module == chain[turn]
               area == HeightmapOf[module]
    <3>1. module \in {"ground", "water"} /\ area \in AreaNames
      BY <2>2 DEF IsHeightmapTerrain, Is, HeightmapOf, AreaNames
    <3>2. b[2] < Filled(s, TopOf(area, s)) <=> z < areas[area][s]
      BY <1>2, <3>1, FilledToTop DEF TerrainInv
    <3>3. now <=> z < areas[area][s]
      BY <3>1 DEF IsTerrain, TopAt
    <3>4. FillOf[module] # "air"
      BY <3>1 DEF FillOf
    <3>5. cnk'[b] = IF cnk[b] = "air" /\ b[2] < Filled(s, TopOf(area, s))
                    THEN FillOf[module] ELSE cnk[b]
      BY <2>2 DEF Generated, HeightmapBlocks
    <3> HIDE DEF now, area, module, z, s
    <3> QED
      BY <3>2, <3>3, <3>4, <3>5
  <2>3. ASSUME NEW carved \in SUBSET Inside, Is("caves"),
               Generated([c \in Inside |-> IF c \in carved THEN "air" ELSE cnk[c]])
        PROVE  (cnk'[b] # "air" => cnk[b] # "air") /\ Uses("caves")
    BY <1>3, <1>7, <2>3 DEF Generated, Is, Uses
  <2>4. CASE SoilStep
    <3>1. ~now
      BY <2>4 DEF SoilStep, Is, IsTerrain
    <3>2. ASSUME Layer(b) \in DOMAIN Soil[s]  PROVE Soil[s][Layer(b)] # "air"
      <4>1. Soil[s] \in Seq(Materials \ {"air"})
        BY <1>4, SoilMaterials
      <4>2. DOMAIN Soil[s] = 1 .. Len(Soil[s])
        BY <4>1, LenProperties
      <4> QED
        BY <3>2, <4>1, <4>2, ElementOfSeq
    <3>3. cnk'[b] = cnk[b] \/ (cnk[b] = "stone" /\ cnk'[b] # "air")
      BY <2>4, <3>2 DEF SoilStep, Generated, SoilBlocks
    <3> QED
      BY <3>1, <3>3
  <2>5. ~Is("testpattern")
    BY <1>2, <1>3, <1>7 DEF Is, Uses, IsPlain
  <2> QED
    BY <2>1, <2>2, <2>3, <2>4, <2>5 DEF Generate, CaveStep, PatternStep
<1> HIDE DEF before, now, s, z
<1> QED
  BY <1>2, <1>5, <1>6, <1>8

LEMMA BlocksBegun ==
    ASSUME TerrainInv, NEW c \in ChunkZ, BeginChunk(c)
    PROVE  BlocksInv'
<1>1. turn' = 1 /\ cnk' = Empty
  BY DEF BeginChunk
<1>2. \A b \in Inside : cnk'[b] = "air" /\ ~BuiltAbove(turn, b[1], HeightOf(b))'
  BY <1>1 DEF Empty, BuiltAbove
<1> QED
  BY <1>2 DEF BlocksInv

\* The surface map and the chunks agree for any chain of modules, any areas and
\* chunks of any size.
THEOREM SurfaceAlwaysTop == TerrainSpec => []SurfaceIsTop
<1> DEFINE Inv == TerrainInv /\ SurfaceInv /\ BlocksInv
<1>1. TerrainInit => Inv
  <2>1. ASSUME TerrainInit  PROVE SurfaceInv
    <3>1. \A s \in Spots : areas["surface"][s] = -HalfRange
      BY <2>1 DEF TerrainInit
    <3> QED
      BY <2>1, <3>1 DEF TerrainInit, SurfaceInv
  <2>2. TerrainInit => BlocksInv
    BY DEF TerrainInit, BlocksInv
  <2> QED
    BY <2>1, <2>2, TerrainInitInv
<1>2. Inv /\ [TerrainNext]_terrainVars => Inv'
  <2> SUFFICES ASSUME Inv, [TerrainNext]_terrainVars  PROVE Inv'
    OBVIOUS
  <2>1. TerrainInv'
    BY TerrainStepInv
  <2>2. CASE PassOver
    <3>1. BlocksInv'
      BY <2>2 DEF PassOver, BlocksInv
    <3> QED
      BY <2>1, <2>2, <3>1, SurfaceRaised
  <2>3. CASE EstimateHeight
    <3>1. chain' = chain /\ level' = level /\ areas' = areas /\ loop = "height" /\ loop' = loop
      BY <2>3 DEF EstimateHeight, Estimated
    <3>2. SurfaceInv' /\ BlocksInv'
      BY <3>1, SurfaceLeft DEF BlocksInv
    <3> QED
      BY <2>1, <3>2
  <2>4. CASE Generate
    <3>1. chain' = chain /\ level' = level /\ areas' = areas /\ loop = "chunk" /\ loop' = loop
      BY <2>4 DEF Generate, Generated, SoilStep, CaveStep, PatternStep
    <3>2. SurfaceInv'
      BY <3>1, SurfaceLeft
    <3> QED
      BY <2>1, <2>4, <3>2, BlocksBuilt
  <2>5. CASE NextArea
    <3>1. BlocksInv'
      BY <2>5 DEF NextArea, BlocksInv
    <3> QED
      BY <2>1, <2>5, <3>1, SurfaceStarts
  <2>6. CASE \E z \in 0 .. WorldLimit - 1 : BeginChunk(z)
    <3>1. PICK z \in ChunkZ : BeginChunk(z)
      BY <2>6 DEF ChunkZ
    <3>2. /\ chain' = chain /\ level' = level /\ areas' = areas
          /\ loop \in {"height", "chunk"} /\ loop' = "chunk"
      BY <3>1 DEF BeginChunk
    <3>3. SurfaceInv'
      BY <3>2, SurfaceLeft
    <3> QED
      BY <2>1, <3>1, <3>3, BlocksBegun
  <2>7. CASE UNCHANGED terrainVars
    <3>1. chain' = chain /\ level' = level /\ areas' = areas /\ loop' = loop /\ turn' = turn
          /\ at' = at /\ cnk' = cnk
      BY <2>7 DEF terrainVars
    <3>2. SurfaceInv' /\ BlocksInv'
      BY <3>1
      DEF SurfaceInv, BlocksInv, SurfaceUpTo, BuiltAbove, TopAt, FlatValue, HeightOf,
          IsPlain, InRange, Uses
    <3> QED
      BY <2>1, <3>2
  <2> QED
    BY <2>2, <2>3, <2>4, <2>5, <2>6, <2>7 DEF TerrainNext
<1>3. Inv => SurfaceIsTop
  <2> SUFFICES ASSUME Inv, loop = "chunk", AllAsked, ~Uses("testpattern"), InRange(at),
                      Uses("flat") => InRange(level), NEW b \in Inside
               PROVE  /\ HeightOf(b) >= areas["surface"][b[1]] => cnk[b] = "air"
                      /\ HeightOf(b) < areas["surface"][b[1]] /\ ~Uses("caves") => cnk[b] # "air"
    BY DEF SurfaceIsTop
  <2>1. b[1] \in Spots /\ HeightOf(b) \in AreaValue
    BY BlockHeight DEF TerrainInv
  <2>2. turn = Len(chain) + 1
    BY LenProperties DEF AllAsked, TerrainInv, TerrainTypeOK
  <2>3. HeightOf(b) < areas["surface"][b[1]] <=> BuiltAbove(turn, b[1], HeightOf(b))
    BY <2>1, <2>2 DEF SurfaceInv, SurfaceUpTo
  <2>4. HeightOf(b) \in Int /\ areas["surface"][b[1]] \in Int
    BY <2>1, TerrainConstants DEF AreaValue, AreaNames, TerrainInv, TerrainTypeOK
  <2>5. HeightOf(b) >= areas["surface"][b[1]] <=> ~(HeightOf(b) < areas["surface"][b[1]])
    BY <2>4
  <2>6. /\ cnk[b] # "air" => BuiltAbove(turn, b[1], HeightOf(b))
        /\ BuiltAbove(turn, b[1], HeightOf(b)) /\ ~Uses("caves") => cnk[b] # "air"
    BY DEF BlocksInv, IsPlain
  <2> QED
    BY <2>3, <2>5, <2>6
<1> QED
  BY <1>1, <1>2, <1>3, PTL DEF TerrainSpec
=============================================================================

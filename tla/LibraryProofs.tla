---------------------------- MODULE LibraryProofs ----------------------------
(***************************************************************************)
(* Proofs about the parts that share no state: the thread pool, the cache  *)
(* and the chunk cache, the chunks in view, and the states of the client;  *)
(* and about MCLibrary, which is all of them, with those of TerrainProofs, *)
(* side by side.                                                           *)
(***************************************************************************)
EXTENDS MCLibrary, TerrainProofs, Iteration

(***************************************************************************)
(* ThreadPool, for any workers, callers and tasks.                         *)
(*                                                                         *)
(* That nothing is left in a pool whose workers have left is not           *)
(* inductive: who is still in enqueue() must be known to have a worker     *)
(* behind it that will look at the queue again, or a caller that the       *)
(* destructor waits for.                                                   *)
(***************************************************************************)

\* A thread in enqueue() keeps the pool alive: a task keeps its worker from
\* leaving, any other thread the destructor from starting.
Enders ==
    /\ stop <=> destructor # "no"
    /\ \A r \in Callers : Enqueuing(r) => destructor = "no"
    /\ \A w \in Workers : Enqueuing(w) => job[w] # NoTask
    /\ \A w \in left : stop /\ job[w] = NoTask
    /\ left = Workers => tasks = <<>>

\* What is somewhere in the pool has been accepted.
Accepted ==
    /\ \A t \in Queued : t \in called \ refused
    /\ \A w \in Workers : job[w] # NoTask => job[w] \in called \ refused
    /\ \A r \in Threads : adding[r] # NoTask => adding[r] \in called \ refused
    /\ \A t \in Tasks : runs[t] > 0 => t \in called

\* What has been accepted is somewhere in the pool or has been run.
NothingLost ==
    \A t \in called \ refused :
        \/ runs[t] > 0
        \/ t \in Queued
        \/ \E w \in Workers : job[w] = t
        \/ \E r \in Threads : adding[r] = t

EndInv == PoolTypeOK /\ Enders

PoolInv == PoolTypeOK /\ OnePlace /\ Accepted /\ NothingLost

-----------------------------------------------------------------------------

Elements(s) == {s[i] : i \in DOMAIN s}

\* Append() adds the new element and keeps the elements apart.
LEMMA AppendAdds ==
    ASSUME NEW S, NEW s \in Seq(S), NEW e \in S
    PROVE  /\ Append(s, e) \in Seq(S) /\ Append(s, e) # <<>>
           /\ Elements(Append(s, e)) = Elements(s) \cup {e}
           /\ (e \notin Elements(s)
               /\ \A i, j \in DOMAIN s : s[i] = s[j] => i = j)
              => \A i, j \in DOMAIN Append(s, e) :
                    Append(s, e)[i] = Append(s, e)[j] => i = j
<1> DEFINE a == Append(s, e)
<1>1. /\ a \in Seq(S) /\ Len(a) = Len(s) + 1 /\ Len(s) \in Nat
      /\ DOMAIN s = 1 .. Len(s) /\ DOMAIN a = 1 .. Len(s) + 1
      /\ a[Len(s) + 1] = e
      /\ \A i \in 1 .. Len(s) : a[i] = s[i]
  BY AppendProperties, LenProperties
<1>2. a # <<>>
  BY <1>1, EmptySeq
<1>3. Elements(a) = Elements(s) \cup {e}
  <2>1. ASSUME NEW x \in Elements(a) PROVE x \in Elements(s) \cup {e}
    BY <1>1 DEF Elements
  <2>2. ASSUME NEW x \in Elements(s) PROVE x \in Elements(a)
    BY <1>1 DEF Elements
  <2>3. e \in Elements(a)
    BY <1>1 DEF Elements
  <2> QED BY <2>1, <2>2, <2>3
<1>4. ASSUME e \notin Elements(s), \A i, j \in DOMAIN s : s[i] = s[j] => i = j,
             NEW i \in DOMAIN a, NEW j \in DOMAIN a, a[i] = a[j]
      PROVE  i = j
  BY <1>1, <1>4 DEF Elements
<1> QED BY <1>1, <1>2, <1>3, <1>4

\* Tail() takes the head away, and it is nowhere else.
LEMMA TailRemoves ==
    ASSUME NEW S, NEW s \in Seq(S), s # <<>>,
           \A i, j \in DOMAIN s : s[i] = s[j] => i = j
    PROVE  /\ Tail(s) \in Seq(S) /\ Head(s) \in S
           /\ Head(s) \in Elements(s)
           /\ Elements(Tail(s)) = Elements(s) \ {Head(s)}
           /\ \A i, j \in DOMAIN Tail(s) : Tail(s)[i] = Tail(s)[j] => i = j
<1> DEFINE a == Tail(s)
<1>1. /\ a \in Seq(S) /\ Head(s) \in S
      /\ Len(s) \in Nat \ {0} /\ Len(a) = Len(s) - 1
      /\ DOMAIN s = 1 .. Len(s) /\ DOMAIN a = 1 .. Len(s) - 1
      /\ \A i \in 1 .. Len(s) - 1 : a[i] = s[i + 1]
  BY HeadTailProperties, LenProperties, EmptySeq
<1>2. Head(s) = s[1]
  OBVIOUS
<1>3. Head(s) \in Elements(s)
  BY <1>1, <1>2 DEF Elements
<1>4. ASSUME NEW x \in Elements(a) PROVE x \in Elements(s) \ {Head(s)}
  <2>1. PICK i \in 1 .. Len(s) - 1 : x = a[i]
    BY <1>1 DEF Elements
  <2>2. i + 1 \in DOMAIN s /\ 1 \in DOMAIN s /\ i + 1 # 1 /\ x = s[i + 1]
    BY <1>1, <2>1
  <2> QED BY <1>2, <2>2 DEF Elements
<1>5. ASSUME NEW x \in Elements(s) \ {Head(s)} PROVE x \in Elements(a)
  <2>1. PICK i \in 1 .. Len(s) : x = s[i]
    BY <1>1 DEF Elements
  <2>2. i # 1
    BY <1>2, <2>1
  <2>3. i - 1 \in DOMAIN a /\ a[i - 1] = s[i]
    BY <1>1, <2>2
  <2> QED BY <2>1, <2>3 DEF Elements
<1>6. ASSUME NEW i \in DOMAIN a, NEW j \in DOMAIN a, a[i] = a[j] PROVE i = j
  <2>1. i + 1 \in DOMAIN s /\ j + 1 \in DOMAIN s /\ s[i + 1] = s[j + 1]
    BY <1>1, <1>6
  <2>2. i + 1 = j + 1
    BY <2>1
  <2> QED BY <1>1, <2>2
<1> QED BY <1>1, <1>3, <1>4, <1>5, <1>6

-----------------------------------------------------------------------------

LEMMA PoolStartsTyped ==
    PoolConstants /\ PoolInit => PoolTypeOK
<1> SUFFICES ASSUME PoolConstants, PoolInit PROVE PoolTypeOK
  OBVIOUS
<1>1. tasks \in Seq(Tasks)
  BY EmptySeq DEF PoolInit
<1> QED BY <1>1 DEF PoolInit, PoolTypeOK

LEMMA PoolStaysTyped ==
    PoolConstants /\ PoolTypeOK /\ [PoolNext]_poolVars => PoolTypeOK'
<1> SUFFICES ASSUME PoolConstants, PoolTypeOK, [PoolNext]_poolVars
             PROVE  PoolTypeOK'
  OBVIOUS
<1> USE DEF PoolTypeOK
<1>1. ASSUME NEW r \in Threads, NEW t \in Tasks, Call(r, t)
      PROVE  PoolTypeOK'
  BY <1>1 DEF Call
<1>2. ASSUME NEW r \in Threads, Push(r) PROVE PoolTypeOK'
  <2>1. adding[r] \in Tasks
    BY <1>2 DEF Push
  <2>2. tasks' \in Seq(Tasks)
    BY <1>2, <2>1, AppendAdds DEF Push
  <2> QED BY <1>2, <2>2 DEF Push
<1>3. ASSUME NEW r \in Threads, Notify(r) PROVE PoolTypeOK'
  BY <1>3 DEF Notify, NotifyOne
<1>4. ASSUME NEW w \in Workers, Wait(w) PROVE PoolTypeOK'
  BY <1>4 DEF Wait
<1>5. ASSUME NEW w \in Workers, WakeUp(w) PROVE PoolTypeOK'
  BY <1>5 DEF WakeUp
<1>6. ASSUME NEW w \in Workers, Leave(w) PROVE PoolTypeOK'
  BY <1>6 DEF Leave
<1>7. ASSUME NEW w \in Workers, Take(w) PROVE PoolTypeOK'
  <2>1. Head(tasks) \in Tasks /\ tasks' \in Seq(Tasks)
    BY <1>7, HeadTailProperties DEF Take, Pop
  <2> QED BY <1>7, <2>1 DEF Take
<1>8. ASSUME NEW w \in Workers, Finish(w) PROVE PoolTypeOK'
  <2>1. job[w] \in Tasks
    BY <1>8 DEF Finish
  <2>2. runs' \in [Tasks -> Nat]
    BY <1>8, <2>1 DEF Finish
  <2> QED BY <1>8, <2>2 DEF Finish
<1>9. ASSUME SetStop PROVE PoolTypeOK'
  BY <1>9 DEF SetStop
<1>10. ASSUME NotifyAll PROVE PoolTypeOK'
  BY <1>10 DEF NotifyAll
<1>11. ASSUME Join PROVE PoolTypeOK'
  BY <1>11 DEF Join
<1>12. ASSUME UNCHANGED poolVars PROVE PoolTypeOK'
  BY <1>12 DEF poolVars
<1> QED BY <1>1, <1>2, <1>3, <1>4, <1>5, <1>6, <1>7, <1>8, <1>9, <1>10,
           <1>11, <1>12 DEF PoolNext, EnqueueStep, WorkerStep

\* The pool's queue, threads and counts have their types: PoolTypeOK, of
\* threadpool.hpp, whatever the number of workers and tasks.
THEOREM PoolTyped ==
    ASSUME PoolConstants PROVE PoolSafety => []PoolTypeOK
<1>1. PoolInit => PoolTypeOK
  BY PoolStartsTyped
<1>2. PoolTypeOK /\ [PoolNext]_poolVars => PoolTypeOK'
  BY PoolStaysTyped
<1> QED BY <1>1, <1>2, PTL DEF PoolSafety

-----------------------------------------------------------------------------

LEMMA EndersHold ==
    PoolConstants /\ EndInv /\ [PoolNext]_poolVars => Enders'
<1> SUFFICES ASSUME PoolConstants, PoolTypeOK, Enders, [PoolNext]_poolVars
             PROVE  Enders'
  BY DEF EndInv
<1> USE DEF PoolTypeOK, Enders, Enqueuing, Threads
<1>1. ASSUME NEW r \in Threads, NEW t \in Tasks, Call(r, t)
      PROVE  Enders'
  BY <1>1 DEF Call, MayCall, PoolConstants
<1>2. ASSUME NEW r \in Threads, Push(r) PROVE Enders'
  <2>1. left # Workers
    BY <1>2 DEF Push, PoolConstants
  <2> QED BY <1>2, <2>1 DEF Push
<1>3. ASSUME NEW r \in Threads, Notify(r) PROVE Enders'
  BY <1>3 DEF Notify
<1>4. ASSUME NEW w \in Workers, Wait(w) PROVE Enders'
  BY <1>4 DEF Wait
<1>5. ASSUME NEW w \in Workers, WakeUp(w) PROVE Enders'
  BY <1>5 DEF WakeUp
<1>6. ASSUME NEW w \in Workers, Leave(w) PROVE Enders'
  BY <1>6 DEF Leave, NothingToDo, AtTop
<1>7. ASSUME NEW w \in Workers, Take(w) PROVE Enders'
  <2>1. Head(tasks) \in Tasks /\ w \notin left
    BY <1>7, HeadTailProperties DEF Take, AtTop
  <2> QED BY <1>7, <2>1 DEF Take, PoolConstants
<1>8. ASSUME NEW w \in Workers, Finish(w) PROVE Enders'
  BY <1>8 DEF Finish
<1>9. ASSUME SetStop PROVE Enders'
  BY <1>9 DEF SetStop
<1>10. ASSUME NotifyAll PROVE Enders'
  BY <1>10 DEF NotifyAll
<1>11. ASSUME Join PROVE Enders'
  BY <1>11 DEF Join
<1>12. ASSUME UNCHANGED poolVars PROVE Enders'
  BY <1>12 DEF poolVars
<1> QED BY <1>1, <1>2, <1>3, <1>4, <1>5, <1>6, <1>7, <1>8, <1>9, <1>10,
           <1>11, <1>12 DEF PoolNext, EnqueueStep, WorkerStep

LEMMA EndersLeaveNothing ==
    PoolConstants /\ EndInv => LeftIsEmpty
<1> SUFFICES ASSUME PoolConstants, PoolTypeOK, Enders, left = Workers
             PROVE  tasks = <<>> /\ \A r \in Threads : adding[r] = NoTask
  BY DEF EndInv, LeftIsEmpty
<1>1. destructor # "no"
  BY DEF Enders, PoolConstants
<1> QED BY <1>1 DEF Enders, Enqueuing, Threads

\* A pool whose workers have left is empty, and nobody is about to push:
\* LeftIsEmpty, of worker() and of the test of stop_ without the lock.
THEOREM NothingIsLeft ==
    ASSUME PoolConstants PROVE PoolSafety => []LeftIsEmpty
<1>1. PoolInit => EndInv
  <2>1. PoolInit => Enders
    BY DEF PoolInit, Enders, Enqueuing, Threads, PoolConstants
  <2> QED BY <2>1, PoolStartsTyped DEF EndInv
<1>2. EndInv /\ [PoolNext]_poolVars => EndInv'
  BY PoolStaysTyped, EndersHold DEF EndInv
<1>3. EndInv => LeftIsEmpty
  BY EndersLeaveNothing
<1> QED BY <1>1, <1>2, <1>3, PTL DEF PoolSafety

-----------------------------------------------------------------------------

\* A step that moves no task.
LEMMA RestKeepsPlaces ==
    PoolInv /\ UNCHANGED <<tasks, job, adding, called, refused, runs>>
        => OnePlace' /\ Accepted' /\ NothingLost'
BY DEF PoolInv, OnePlace, Accepted, NothingLost, Queued

LEMMA CallKeepsPlaces ==
    ASSUME PoolConstants, PoolInv, NEW r \in Threads, NEW t \in Tasks, Call(r, t)
    PROVE  OnePlace' /\ Accepted' /\ NothingLost'
<1> USE DEF PoolInv, PoolTypeOK
<1>1. /\ t \notin called /\ called' = called \cup {t}
      /\ adding[r] = NoTask
      /\ UNCHANGED <<tasks, job, runs>>
      /\ \/ refused' = refused \cup {t} /\ adding' = adding
         \/ refused' = refused /\ adding' = [adding EXCEPT ![r] = t]
  <2>1. adding[r] = NoTask
    BY DEF Call, MayCall, Enqueuing
  <2> QED BY <2>1 DEF Call
<1>2. Queued' = Queued /\ t \notin Queued
  BY <1>1 DEF Queued, Accepted
<1>3. /\ \A w \in Workers : job[w] # t
      /\ \A s \in Threads : adding[s] # t
      /\ runs[t] = 0
  <2>2. ~(runs[t] > 0) /\ runs[t] \in Nat
    BY <1>1 DEF Accepted
  <2>3. t # NoTask
    BY DEF PoolConstants
  <2> QED BY <1>1, <2>2, <2>3 DEF Accepted
<1>4. CASE refused' = refused \cup {t} /\ adding' = adding
  <2>1. OnePlace'
    BY <1>1, <1>2, <1>3, <1>4 DEF OnePlace
  <2>2. Accepted'
    BY <1>1, <1>2, <1>3, <1>4 DEF Accepted
  <2>3. NothingLost'
    BY <1>1, <1>2, <1>4 DEF NothingLost
  <2> QED BY <2>1, <2>2, <2>3
<1>5. CASE refused' = refused /\ adding' = [adding EXCEPT ![r] = t]
  <2>1. OnePlace'
    BY <1>1, <1>2, <1>3, <1>5 DEF OnePlace
  <2>2. Accepted'
    BY <1>1, <1>2, <1>3, <1>5 DEF Accepted
  <2>3. NothingLost'
    <3>1. ASSUME NEW u \in called \ refused PROVE
             \/ runs'[u] > 0 \/ u \in Queued'
             \/ \E w \in Workers : job'[w] = u
             \/ \E s \in Threads : adding'[s] = u
      <4>1. u # NoTask
        BY DEF PoolConstants
      <4> QED BY <1>1, <1>2, <1>5, <4>1 DEF NothingLost
    <3>2. adding'[r] = t
      BY <1>5
    <3> QED BY <1>1, <1>5, <3>1, <3>2 DEF NothingLost
  <2> QED BY <2>1, <2>2, <2>3
<1> QED BY <1>1, <1>4, <1>5

LEMMA PushKeepsPlaces ==
    ASSUME PoolConstants, PoolInv, NEW r \in Threads, Push(r)
    PROVE  OnePlace' /\ Accepted' /\ NothingLost'
<1> USE DEF PoolInv, PoolTypeOK
<1> DEFINE t == adding[r]
<1>1. /\ t \in Tasks /\ t # NoTask /\ adding' = [adding EXCEPT ![r] = NoTask]
      /\ tasks' = Append(tasks, t)
      /\ UNCHANGED <<job, called, refused, runs>>
  BY DEF Push
<1>2. t \notin Queued /\ \A i, j \in DOMAIN tasks : tasks[i] = tasks[j] => i = j
  BY <1>1 DEF OnePlace, PoolConstants
<1>3. /\ Queued' = Queued \cup {t}
      /\ \A i, j \in DOMAIN tasks' : tasks'[i] = tasks'[j] => i = j
  <2>1. Queued = Elements(tasks) /\ Queued' = Elements(tasks')
    BY DEF Queued, Elements
  <2> QED BY <1>1, <1>2, <2>1, AppendAdds
<1>4. /\ \A w \in Workers : job[w] # t
      /\ \A s \in Threads \ {r} : adding[s] # t
      /\ ~(runs[t] > 0) /\ t \notin refused /\ t \in called
  BY <1>1 DEF OnePlace, Accepted
<1>5. OnePlace'
  BY <1>1, <1>3, <1>4 DEF OnePlace
<1>6. Accepted'
  BY <1>1, <1>3, <1>4 DEF Accepted
<1>7. NothingLost'
  BY <1>1, <1>3 DEF NothingLost
<1> QED BY <1>5, <1>6, <1>7

LEMMA TakeKeepsPlaces ==
    ASSUME PoolConstants, PoolInv, NEW w \in Workers, Take(w)
    PROVE  OnePlace' /\ Accepted' /\ NothingLost'
<1> USE DEF PoolInv, PoolTypeOK
<1> DEFINE t == Head(tasks)
<1>1. /\ job[w] = NoTask /\ tasks # <<>>
      /\ job' = [job EXCEPT ![w] = t] /\ tasks' = Tail(tasks)
      /\ UNCHANGED <<adding, called, refused, runs>>
  BY DEF Take, AtTop, Pop
<1>2. /\ t \in Tasks /\ t \in Queued /\ Queued' = Queued \ {t}
      /\ \A i, j \in DOMAIN tasks' : tasks'[i] = tasks'[j] => i = j
  <2>1. Queued = Elements(tasks) /\ Queued' = Elements(tasks')
    BY DEF Queued, Elements
  <2>2. \A i, j \in DOMAIN tasks : tasks[i] = tasks[j] => i = j
    BY DEF OnePlace
  <2> QED BY <1>1, <2>1, <2>2, TailRemoves
<1>3. /\ \A v \in Workers : job[v] # t
      /\ \A r \in Threads : adding[r] # t
      /\ ~(runs[t] > 0) /\ t \notin refused /\ t \in called
  <2>1. \A v \in Workers : job[v] # t
    BY <1>2 DEF OnePlace, Threads
  <2>2. \A r \in Threads : adding[r] # t
    <3>1. t # NoTask
      BY <1>2 DEF PoolConstants
    <3> QED BY <1>2, <3>1 DEF OnePlace
  <2>3. ~(runs[t] > 0)
    BY <1>2 DEF OnePlace
  <2>4. t \notin refused /\ t \in called
    BY <1>2 DEF Accepted
  <2> QED BY <2>1, <2>2, <2>3, <2>4
<1>4. OnePlace'
  BY <1>1, <1>2, <1>3 DEF OnePlace
<1>5. Accepted'
  BY <1>1, <1>2, <1>3 DEF Accepted
<1>6. NothingLost'
  BY <1>1, <1>2 DEF NothingLost
<1> QED BY <1>4, <1>5, <1>6

LEMMA FinishKeepsPlaces ==
    ASSUME PoolConstants, PoolInv, NEW w \in Workers, Finish(w)
    PROVE  OnePlace' /\ Accepted' /\ NothingLost'
<1> USE DEF PoolInv, PoolTypeOK
<1> DEFINE t == job[w]
<1>1. /\ t \in Tasks /\ t # NoTask
      /\ runs' = [runs EXCEPT ![t] = @ + 1]
      /\ job' = [job EXCEPT ![w] = NoTask]
      /\ UNCHANGED <<tasks, adding, called, refused>> /\ Queued' = Queued
  BY DEF Finish, Queued
<1>2. /\ \A v \in Workers \ {w} : job[v] # t
      /\ \A r \in Threads : adding[r] # t
      /\ t \notin Queued
      /\ runs[t] = 0 /\ t \notin refused /\ t \in called
  <2>1. \A v \in Workers \ {w} : job[v] # t
    BY <1>1 DEF OnePlace
  <2>2. \A r \in Threads : adding[r] # t
    BY <1>1 DEF OnePlace
  <2>3. t \notin Queued
    BY <1>1 DEF OnePlace, Threads
  <2>4. ~(runs[t] > 0) /\ runs[t] \in Nat
    BY <1>1 DEF OnePlace
  <2>5. t \notin refused /\ t \in called
    BY <1>1 DEF Accepted
  <2> QED BY <2>1, <2>2, <2>3, <2>4, <2>5
<1>3. OnePlace'
  <2>1. \A u \in Tasks : runs'[u] = IF u = t THEN 1 ELSE runs[u]
    BY <1>1, <1>2
  <2>2. NoTask \notin Queued
    BY <1>1 DEF Queued, PoolConstants
  <2> QED BY <1>1, <1>2, <2>1, <2>2 DEF OnePlace
<1>4. Accepted'
  BY <1>1, <1>2 DEF Accepted
<1>5. NothingLost'
  BY <1>1, <1>2 DEF NothingLost
<1> QED BY <1>3, <1>4, <1>5

LEMMA PlacesAreKept ==
    PoolConstants /\ PoolInv /\ [PoolNext]_poolVars => PoolInv'
<1> SUFFICES ASSUME PoolConstants, PoolInv, [PoolNext]_poolVars
             PROVE  PoolInv'
  OBVIOUS
<1>1. PoolTypeOK'
  BY PoolStaysTyped DEF PoolInv
<1>2. OnePlace' /\ Accepted' /\ NothingLost'
  <2>1. \/ UNCHANGED <<tasks, job, adding, called, refused, runs>>
        \/ \E r \in Threads : (\E t \in Tasks : Call(r, t)) \/ Push(r)
        \/ \E w \in Workers : Take(w) \/ Finish(w)
    BY DEF PoolNext, EnqueueStep, WorkerStep, Notify, Wait, WakeUp, Leave,
           SetStop, NotifyAll, Join, poolVars
  <2> QED BY <2>1, RestKeepsPlaces, CallKeepsPlaces, PushKeepsPlaces,
             TakeKeepsPlaces, FinishKeepsPlaces
<1> QED BY <1>1, <1>2 DEF PoolInv

LEMMA PlacesStart == PoolConstants /\ PoolInit => PoolInv
<1> SUFFICES ASSUME PoolConstants, PoolInit PROVE PoolInv
  OBVIOUS
<1>1. PoolTypeOK
  BY PoolStartsTyped
<1>2. Queued = {}
  BY DEF PoolInit, Queued
<1>3. DOMAIN tasks = {}
  BY DEF PoolInit
<1> QED BY <1>1, <1>2, <1>3
        DEF PoolInit, PoolInv, OnePlace, Accepted, NothingLost, Threads

\* No task is held twice, run twice or run after it was refused: OnePlace, of
\* the queue, the workers and enqueue() together.
THEOREM TasksInOnePlace ==
    ASSUME PoolConstants PROVE PoolSafety => []OnePlace
<1>1. PoolInit => PoolInv
  BY PlacesStart
<1>2. PoolInv /\ [PoolNext]_poolVars => PoolInv'
  BY PlacesAreKept
<1>3. PoolInv => OnePlace
  BY DEF PoolInv
<1> QED BY <1>1, <1>2, <1>3, PTL DEF PoolSafety

-----------------------------------------------------------------------------
(***************************************************************************)
(* The pool implements TaskBag.                                            *)
(***************************************************************************)

State == [t \in Tasks |-> TaskState(t)]

\* A step that moves no task and leaves the pool open or not is none of the
\* bag's.
LEMMA RestIsStutter ==
    UNCHANGED <<job, called, refused, runs>> /\ PoolState' = PoolState
        => UNCHANGED Bag!bagVars
BY DEF Bag!bagVars, TaskState

LEMMA CallIsAnswer ==
    ASSUME PoolConstants, EndInv, PoolInv, NEW r \in Threads, NEW t \in Tasks,
           Call(r, t)
    PROVE  Bag!Accept(t) \/ Bag!Refuse(t)
<1> USE DEF PoolInv, PoolTypeOK
<1>1. /\ t \notin called /\ called' = called \cup {t}
      /\ UNCHANGED <<job, runs, destructor>>
      /\ IF stop THEN refused' = refused \cup {t} ELSE refused' = refused
  BY DEF Call
<1>2. ~(runs[t] > 0) /\ t \notin refused
  BY <1>1 DEF Accepted
<1>3. \A w \in Workers : job[w] # t
  <2>1. t # NoTask
    BY DEF PoolConstants
  <2> QED BY <1>1, <2>1 DEF Accepted
<1>4. State[t] = "new"
  BY <1>1, <1>2, <1>3 DEF State, TaskState
<1>5. State' = [State EXCEPT ![t] = IF stop THEN "refused" ELSE "accepted"]
  <2>1. ASSUME NEW u \in Tasks, u # t PROVE TaskState(u)' = TaskState(u)
    BY <1>1, <2>1 DEF TaskState
  <2>2. TaskState(t)' = IF stop THEN "refused" ELSE "accepted"
    BY <1>1, <1>2, <1>3 DEF TaskState
  <2> QED BY <2>1, <2>2 DEF State
<1>6. PoolState' = PoolState
  BY <1>1 DEF PoolState
<1>7. CASE stop
  <2>1. PoolState # "open"
    BY <1>7 DEF EndInv, Enders, PoolState
  <2> QED BY <1>4, <1>5, <1>6, <1>7, <2>1 DEF Bag!Refuse, Bag!Goes, State
<1>8. CASE ~stop
  <2>1. PoolState # "gone"
    BY <1>8 DEF EndInv, Enders, PoolState
  <2> QED BY <1>4, <1>5, <1>6, <1>8, <2>1 DEF Bag!Accept, Bag!Goes, State
<1> QED BY <1>7, <1>8

LEMMA TakeIsBegin ==
    ASSUME PoolConstants, PoolInv, NEW w \in Workers, Take(w),
           NEW t \in Tasks, t = Head(tasks)
    PROVE  Bag!Begin(t)
<1> USE DEF PoolInv, PoolTypeOK
<1>1. /\ job[w] = NoTask /\ tasks # <<>>
      /\ job' = [job EXCEPT ![w] = t]
      /\ UNCHANGED <<called, refused, runs, destructor>>
  BY DEF Take, AtTop
<1>2. t \in Queued
  <2>1. \A i, j \in DOMAIN tasks : tasks[i] = tasks[j] => i = j
    BY DEF OnePlace
  <2> QED BY <1>1, <2>1, TailRemoves DEF Queued, Elements
<1>3. t # NoTask
  BY <1>2 DEF PoolConstants
<1>4. ~(runs[t] > 0) /\ t \notin refused /\ t \in called
  BY <1>2 DEF OnePlace, Accepted
<1>5. \A v \in Workers : job[v] # t
  BY <1>2 DEF OnePlace, Threads
<1>6. TaskState(t) = "accepted" /\ TaskState(t)' = "running"
  BY <1>1, <1>4, <1>5 DEF TaskState
<1>7. ASSUME NEW u \in Tasks, u # t PROVE TaskState(u)' = TaskState(u)
  <2>1. u # NoTask
    BY DEF PoolConstants
  <2>2. (\E v \in Workers : job'[v] = u) <=> (\E v \in Workers : job[v] = u)
    BY <1>1, <1>7, <2>1
  <2> QED BY <1>1, <2>2 DEF TaskState
<1>8. State' = [State EXCEPT ![t] = "running"]
  BY <1>2, <1>6, <1>7 DEF State
<1>9. PoolState' = PoolState
  BY <1>1 DEF PoolState
<1> QED BY <1>2, <1>6, <1>8, <1>9 DEF Bag!Begin, Bag!Goes, State

LEMMA FinishIsEnd ==
    ASSUME PoolConstants, PoolInv, NEW w \in Workers, Finish(w),
           NEW t \in Tasks, t = job[w]
    PROVE  Bag!End(t)
<1> USE DEF PoolInv, PoolTypeOK
<1>1. /\ t # NoTask
      /\ runs' = [runs EXCEPT ![t] = @ + 1]
      /\ job' = [job EXCEPT ![w] = NoTask]
      /\ UNCHANGED <<called, refused, destructor>>
  BY DEF Finish
<1>2. \A v \in Workers \ {w} : job[v] # t
  BY <1>1 DEF OnePlace
<1>3. TaskState(t) = "running"
  BY DEF TaskState
<1>4. TaskState(t)' = "run"
  <2>1. runs'[t] > 0
    BY <1>1
  <2>2. \A v \in Workers : job'[v] # t
    BY <1>1, <1>2
  <2> QED BY <2>1, <2>2 DEF TaskState
<1>5. ASSUME NEW u \in Tasks, u # t PROVE TaskState(u)' = TaskState(u)
  <2>1. u # NoTask
    BY DEF PoolConstants
  <2>2. (\E v \in Workers : job'[v] = u) <=> (\E v \in Workers : job[v] = u)
    BY <1>1, <1>5, <2>1
  <2>3. runs'[u] = runs[u]
    BY <1>1, <1>5
  <2> QED BY <1>1, <2>2, <2>3 DEF TaskState
<1>6. State' = [State EXCEPT ![t] = "run"]
  BY <1>1, <1>4, <1>5 DEF State
<1>7. PoolState' = PoolState
  BY <1>1 DEF PoolState
<1> QED BY <1>1, <1>3, <1>6, <1>7 DEF Bag!End, Bag!Goes, State

LEMMA JoinIsGone ==
    ASSUME PoolConstants, EndInv, PoolInv, Join
    PROVE  Bag!BecomeGone
<1> USE DEF PoolInv, PoolTypeOK
<1>1. /\ destructor = "joining" /\ destructor' = "gone" /\ left = Workers
      /\ UNCHANGED <<job, called, refused, runs>>
  BY DEF Join
<1>2. PoolState = "closing" /\ PoolState' = "gone"
  BY <1>1 DEF PoolState
<1>3. State' = State
  BY <1>1 DEF State, TaskState
<1>4. tasks = <<>> /\ \A r \in Threads : adding[r] = NoTask
  BY <1>1, EndersLeaveNothing DEF LeftIsEmpty
<1>5. \A w \in Workers : job[w] = NoTask
  BY <1>1 DEF EndInv, Enders
<1>6. ASSUME NEW t \in Tasks PROVE State[t] \notin {"accepted", "running"}
  <2>1. t # NoTask
    BY DEF PoolConstants
  <2>2. t \notin Queued
    BY <1>4 DEF Queued
  <2>3. t \in called => t \in refused \/ runs[t] > 0
    BY <1>4, <1>5, <2>1, <2>2 DEF NothingLost
  <2> QED BY <1>5, <2>1, <2>3 DEF State, TaskState
<1> QED BY <1>2, <1>3, <1>6 DEF Bag!BecomeGone, Bag!Finished, State

LEMMA PoolStepIsBagStep ==
    ASSUME PoolConstants, EndInv, PoolInv, [PoolNext]_poolVars
    PROVE  [Bag!BagNext]_(Bag!bagVars)
<1>1. ASSUME NEW r \in Threads, NEW t \in Tasks, Call(r, t)
      PROVE  Bag!BagNext
  BY <1>1, CallIsAnswer DEF Bag!BagNext
<1>2. ASSUME NEW w \in Workers, Take(w) PROVE Bag!BagNext
  <2>1. Head(tasks) \in Tasks
    BY <1>2, HeadTailProperties DEF PoolInv, PoolTypeOK, Take
  <2> QED BY <1>2, <2>1, TakeIsBegin DEF Bag!BagNext
<1>3. ASSUME NEW w \in Workers, Finish(w) PROVE Bag!BagNext
  <2>1. job[w] \in Tasks
    BY <1>3 DEF PoolInv, PoolTypeOK, Finish
  <2> QED BY <1>3, <2>1, FinishIsEnd DEF Bag!BagNext
<1>4. ASSUME SetStop PROVE Bag!BagNext
  <2>1. PoolState = "open" /\ PoolState' = "closing"
    BY <1>4 DEF SetStop, PoolState
  <2>2. State' = State
    BY <1>4 DEF SetStop, State, TaskState
  <2> QED BY <2>1, <2>2 DEF Bag!BagNext, Bag!Close, State
<1>5. ASSUME Join PROVE Bag!BagNext
  BY <1>5, JoinIsGone DEF Bag!BagNext
<1>6. CASE UNCHANGED <<job, called, refused, runs>> /\ PoolState' = PoolState
  BY <1>6, RestIsStutter
<1>7. \/ UNCHANGED <<job, called, refused, runs>> /\ PoolState' = PoolState
      \/ \E r \in Threads, t \in Tasks : Call(r, t)
      \/ \E w \in Workers : Take(w) \/ Finish(w)
      \/ SetStop \/ Join
  BY DEF PoolNext, EnqueueStep, WorkerStep, Push, Notify, Wait, WakeUp, Leave,
         NotifyAll, PoolState, poolVars
<1> QED BY <1>1, <1>2, <1>3, <1>4, <1>5, <1>6, <1>7

\* threadpool does what TaskBag promises, its liveness apart: a task is
\* accepted or refused, is run once if it is accepted, and has been run
\* before the destructor is done.
THEOREM PoolImplementsTaskBag ==
    ASSUME PoolConstants
    PROVE  PoolSafety => Bag!BagInit /\ [][Bag!BagNext]_(Bag!bagVars)
<1>1. PoolInit => EndInv /\ PoolInv
  <2>1. PoolInit => Enders
    BY DEF PoolInit, Enders, Enqueuing, Threads, PoolConstants
  <2> QED BY <2>1, PoolStartsTyped, PlacesStart DEF EndInv
<1>2. EndInv /\ PoolInv /\ [PoolNext]_poolVars => EndInv' /\ PoolInv'
  BY PoolStaysTyped, EndersHold, PlacesAreKept DEF EndInv
<1>3. EndInv /\ PoolInv /\ [PoolNext]_poolVars => [Bag!BagNext]_(Bag!bagVars)
  BY PoolStepIsBagStep
<1>4. PoolInit => Bag!BagInit
  BY DEF PoolInit, Bag!BagInit, TaskState, PoolState
<1> QED BY <1>1, <1>2, <1>3, <1>4, PTL DEF PoolSafety

-----------------------------------------------------------------------------
(***************************************************************************)
(* Proofs about LruOps, LruCache and ChunkCache, for any keys, values,     *)
(* threads' references and limits.                                         *)
(*                                                                         *)
(* A cache is whole when its list, its map and its count agree.  Each      *)
(* operation keeps it whole and leaves a list that is the old one with     *)
(* some pairs left out and at most one in front.  prune_if() is a          *)
(* recursive function on the number of pairs it has looked at; what it has *)
(* dropped so far is shown by induction on that number.  That it drops the *)
(* oldest needs the list in the order of use, which is the invariant.      *)
(***************************************************************************)

Distinct(list) ==
    \A i, j \in DOMAIN list : list[i].key = list[j].key => i = j

\* sub is list with some pairs left out.
PartOf(sub, list) ==
    /\ \A i \in DOMAIN sub : \E a \in DOMAIN list : sub[i] = list[a]
    /\ \A i, j \in DOMAIN sub : i < j =>
          \E a, b \in DOMAIN list : a < b /\ sub[i] = list[a] /\ sub[j] = list[b]

\* The list, the map and the count keep to each other.
Whole(c) ==
    /\ KeysOf(c.list) = c.map /\ Len(c.list) = c.size
    /\ Distinct(c.list)

Pairs(K, V) == [key : K, value : V]

\* The caches with keys in K and values in V.
Caches(K, V) ==
    {c \in [list : Seq(Pairs(K, V)), map : SUBSET K, size : Nat] : Whole(c)}

-----------------------------------------------------------------------------
(***************************************************************************)
(* Lists.                                                                  *)
(***************************************************************************)

LEMMA AtFinds ==
    ASSUME NEW P, NEW l \in Seq(P), NEW k \in KeysOf(l)
    PROVE  At(l, k) \in 1 .. Len(l) /\ l[At(l, k)].key = k
<1>1. \E i \in DOMAIN l : l[i].key = k
  BY DEF KeysOf
<1>2. DOMAIN l = 1 .. Len(l)
  BY LenProperties
<1> QED BY <1>1, <1>2 DEF At

LEMMA AtIs ==
    ASSUME NEW P, NEW l \in Seq(P), Distinct(l), NEW i \in 1 .. Len(l)
    PROVE  l[i].key \in KeysOf(l) /\ At(l, l[i].key) = i
<1>1. l[i].key \in KeysOf(l) /\ i \in DOMAIN l
  BY LenProperties DEF KeysOf
<1>2. At(l, l[i].key) \in DOMAIN l /\ l[At(l, l[i].key)].key = l[i].key
  BY <1>1, AtFinds, LenProperties
<1> QED BY <1>1, <1>2 DEF Distinct

\* The pairs of a list without one of its keys.
LEMMA WithoutPairs ==
    ASSUME NEW P, NEW l \in Seq(P), NEW k \in KeysOf(l)
    PROVE  /\ Without(l, k) \in Seq(P)
           /\ Len(Without(l, k)) = Len(l) - 1
           /\ \A i \in 1 .. Len(l) - 1 :
                 Without(l, k)[i] = IF i < At(l, k) THEN l[i] ELSE l[i + 1]
<1> DEFINE ix == At(l, k)
           s == SubSeq(l, 1, ix - 1)
           t == SubSeq(l, ix + 1, Len(l))
<1>1. ix \in 1 .. Len(l) /\ Len(l) \in Nat
  BY AtFinds, LenProperties
<1>2. Without(l, k) = s \o t
  BY DEF Without
<1> HIDE DEF ix
<1>3. s \in Seq(P) /\ Len(s) = ix - 1 /\ \A i \in 1 .. ix - 1 : s[i] = l[i]
  BY <1>1, SubSeqProperties
<1>4. /\ t \in Seq(P) /\ Len(t) = Len(l) - ix
      /\ \A i \in 1 .. Len(l) - ix : t[i] = l[ix + i]
  BY <1>1, SubSeqProperties
<1> HIDE DEF s, t
<1>5. /\ s \o t \in Seq(P) /\ Len(s \o t) = Len(s) + Len(t)
      /\ \A i \in 1 .. Len(s) + Len(t) :
            (s \o t)[i] = IF i <= Len(s) THEN s[i] ELSE t[i - Len(s)]
  BY <1>3, <1>4, ConcatProperties
<1>6. ASSUME NEW i \in 1 .. Len(l) - 1
      PROVE  (s \o t)[i] = IF i < ix THEN l[i] ELSE l[i + 1]
  <2>1. CASE i < ix
    <3>1. i \in 1 .. ix - 1 /\ i \in 1 .. Len(s) + Len(t) /\ i <= Len(s)
      BY <1>1, <1>3, <1>4, <2>1
    <3> QED BY <2>1, <3>1, <1>3, <1>5
  <2>2. CASE ~(i < ix)
    <3>1. /\ i - Len(s) \in 1 .. Len(l) - ix /\ i \in 1 .. Len(s) + Len(t)
          /\ ~(i <= Len(s)) /\ ix + (i - Len(s)) = i + 1
      BY <1>1, <1>3, <1>4, <2>2
    <3> QED BY <2>2, <3>1, <1>4, <1>5
  <2> QED BY <2>1, <2>2
<1> QED BY <1>1, <1>2, <1>3, <1>4, <1>5, <1>6 DEF ix

LEMMA WithoutLeavesRest ==
    ASSUME NEW P, NEW l \in Seq(P), Distinct(l), NEW k
    PROVE  /\ Without(l, k) \in Seq(P)
           /\ Distinct(Without(l, k))
           /\ KeysOf(Without(l, k)) = KeysOf(l) \ {k}
           /\ Len(Without(l, k)) = IF k \in KeysOf(l) THEN Len(l) - 1 ELSE Len(l)
           /\ PartOf(Without(l, k), l)
<1> DEFINE w == Without(l, k)
           ix == At(l, k)
<1>0. DOMAIN l = 1 .. Len(l) /\ Len(l) \in Nat
  BY LenProperties
<1>1. CASE k \notin KeysOf(l)
  <2>1. w = l
    BY <1>1 DEF Without
  <2>2. PartOf(l, l)
    BY <1>0 DEF PartOf
  <2> QED BY <1>1, <2>1, <2>2
<1>2. CASE k \in KeysOf(l)
  <2>1. /\ w \in Seq(P) /\ Len(w) = Len(l) - 1
        /\ \A i \in 1 .. Len(l) - 1 : w[i] = IF i < ix THEN l[i] ELSE l[i + 1]
    BY <1>2, WithoutPairs
  <2>2. ix \in 1 .. Len(l) /\ l[ix].key = k
    BY <1>2, AtFinds
  <2>3. DOMAIN w = 1 .. Len(l) - 1
    BY <2>1, LenProperties
  <2> HIDE DEF w, ix
  <2>4. \A i, j \in 1 .. Len(l) : l[i].key = l[j].key => i = j
    BY <1>0 DEF Distinct
  <2>5. Distinct(w)
    <3> SUFFICES ASSUME NEW i \in 1 .. Len(l) - 1, NEW j \in 1 .. Len(l) - 1,
                        w[i].key = w[j].key
                 PROVE  i = j
      BY <2>3 DEF Distinct
    <3> DEFINE a == IF i < ix THEN i ELSE i + 1
               b == IF j < ix THEN j ELSE j + 1
    <3>1. a \in 1 .. Len(l) /\ b \in 1 .. Len(l) /\ w[i] = l[a] /\ w[j] = l[b]
      BY <1>0, <2>1
    <3>2. a = b
      BY <3>1, <2>4
    <3> QED BY <1>0, <2>2, <3>2
  <2>6. KeysOf(w) = KeysOf(l) \ {k}
    <3>1. ASSUME NEW i \in 1 .. Len(l) - 1 PROVE w[i].key \in KeysOf(l) \ {k}
      <4> DEFINE a == IF i < ix THEN i ELSE i + 1
      <4>1. a \in 1 .. Len(l) /\ w[i] = l[a] /\ a # ix
        BY <1>0, <2>1, <2>2
      <4> HIDE DEF a
      <4>2. l[a].key # k
        BY <4>1, <2>2, <2>4
      <4> QED BY <4>1, <4>2, <1>0 DEF KeysOf
    <3>2. ASSUME NEW a \in 1 .. Len(l), l[a].key # k PROVE l[a].key \in KeysOf(w)
      <4> DEFINE i == IF a < ix THEN a ELSE a - 1
      <4>1. i \in 1 .. Len(l) - 1 /\ w[i] = l[a]
        <5>1. a # ix
          BY <3>2, <2>2
        <5>2. i \in 1 .. Len(l) - 1 /\ (IF i < ix THEN i ELSE i + 1) = a
          BY <5>1, <1>0, <2>2
        <5> HIDE DEF i
        <5> QED BY <5>2, <2>1
      <4> HIDE DEF i
      <4> QED BY <4>1, <2>3 DEF KeysOf
    <3>3. \A x \in KeysOf(w) : \E i \in 1 .. Len(l) - 1 : x = w[i].key
      BY <2>3 DEF KeysOf
    <3>4. \A x \in KeysOf(l) : \E i \in 1 .. Len(l) : x = l[i].key
      BY <1>0 DEF KeysOf
    <3> QED BY <3>1, <3>2, <3>3, <3>4
  <2>7. PartOf(w, l)
    <3>1. ASSUME NEW i \in 1 .. Len(l) - 1 PROVE \E a \in 1 .. Len(l) : w[i] = l[a]
      <4> DEFINE a == IF i < ix THEN i ELSE i + 1
      <4>1. a \in 1 .. Len(l) /\ w[i] = l[a]
        BY <1>0, <2>1
      <4> QED BY <4>1
    <3>2. ASSUME NEW i \in 1 .. Len(l) - 1, NEW j \in 1 .. Len(l) - 1, i < j
          PROVE  \E a, b \in 1 .. Len(l) : a < b /\ w[i] = l[a] /\ w[j] = l[b]
      <4> DEFINE a == IF i < ix THEN i ELSE i + 1
                 b == IF j < ix THEN j ELSE j + 1
      <4>1. a \in 1 .. Len(l) /\ b \in 1 .. Len(l) /\ w[i] = l[a] /\ w[j] = l[b]
        BY <1>0, <2>1
      <4>2. a < b
        BY <1>0, <2>2, <3>2
      <4> HIDE DEF a, b
      <4> QED BY <4>1, <4>2
    <3>3. \A i \in DOMAIN w : \E a \in DOMAIN l : w[i] = l[a]
      BY <3>1, <1>0, <2>3
    <3>4. \A i, j \in DOMAIN w : i < j =>
             \E a, b \in DOMAIN l : a < b /\ w[i] = l[a] /\ w[j] = l[b]
      <4> SUFFICES ASSUME NEW i \in DOMAIN w, NEW j \in DOMAIN w, i < j
                   PROVE  \E a, b \in DOMAIN l : a < b /\ w[i] = l[a] /\ w[j] = l[b]
        OBVIOUS
      <4>1. i \in 1 .. Len(l) - 1 /\ j \in 1 .. Len(l) - 1
        BY <2>3
      <4>2. PICK a \in 1 .. Len(l), b \in 1 .. Len(l) :
               a < b /\ w[i] = l[a] /\ w[j] = l[b]
        BY <4>1, <3>2
      <4> QED BY <4>2, <1>0
    <3> QED BY <3>3, <3>4 DEF PartOf
  <2> QED BY <1>2, <2>1, <2>5, <2>6, <2>7 DEF w
<1> QED BY <1>1, <1>2

LEMMA PartsOfParts ==
    ASSUME NEW l, NEW m, NEW n, PartOf(l, m), PartOf(m, n) PROVE PartOf(l, n)
<1>1. ASSUME NEW i \in DOMAIN l PROVE \E a \in DOMAIN n : l[i] = n[a]
  BY DEF PartOf
<1>2. ASSUME NEW i \in DOMAIN l, NEW j \in DOMAIN l, i < j
      PROVE  \E a, b \in DOMAIN n : a < b /\ l[i] = n[a] /\ l[j] = n[b]
  <2>1. PICK a \in DOMAIN m, b \in DOMAIN m : a < b /\ l[i] = m[a] /\ l[j] = m[b]
    BY <1>2 DEF PartOf
  <2> QED BY <2>1 DEF PartOf
<1> QED BY <1>1, <1>2 DEF PartOf

LEMMA PartOfSelf ==
    ASSUME NEW P, NEW l \in Seq(P) PROVE PartOf(l, l)
BY LenProperties DEF PartOf

\* A pair in front of a list that has its key no more.
LEMMA PutInFront ==
    ASSUME NEW P, NEW l \in Seq(P), Distinct(l), NEW p \in P, p.key \notin KeysOf(l)
    PROVE  /\ <<p>> \o l \in Seq(P)
           /\ Distinct(<<p>> \o l)
           /\ KeysOf(<<p>> \o l) = KeysOf(l) \cup {p.key}
           /\ Len(<<p>> \o l) = Len(l) + 1
           /\ (<<p>> \o l)[1] = p
           /\ \A i \in 1 .. Len(l) : (<<p>> \o l)[i + 1] = l[i]
<1> DEFINE w == <<p>> \o l
<1>0. DOMAIN l = 1 .. Len(l) /\ Len(l) \in Nat
  BY LenProperties
<1>1. <<p>> \in Seq(P) /\ Len(<<p>>) = 1 /\ <<p>>[1] = p
  OBVIOUS
<1>2. /\ w \in Seq(P) /\ Len(w) = 1 + Len(l)
      /\ \A i \in 1 .. 1 + Len(l) : w[i] = IF i <= 1 THEN <<p>>[i] ELSE l[i - 1]
  BY <1>1, ConcatProperties
<1>3. DOMAIN w = 1 .. Len(l) + 1
  BY <1>0, <1>2, LenProperties
<1> HIDE DEF w
<1>4. w[1] = p
  BY <1>0, <1>1, <1>2
<1>5. \A i \in 1 .. Len(l) : w[i + 1] = l[i]
  BY <1>0, <1>2
<1>6. \A i \in 2 .. Len(l) + 1 : i - 1 \in 1 .. Len(l) /\ w[i] = l[i - 1]
  BY <1>0, <1>2
<1>7. KeysOf(w) = KeysOf(l) \cup {p.key}
  <2>1. ASSUME NEW i \in 1 .. Len(l) + 1 PROVE w[i].key \in KeysOf(l) \cup {p.key}
    <3>1. CASE i = 1
      BY <3>1, <1>4
    <3>2. CASE i # 1
      BY <3>2, <1>0, <1>6 DEF KeysOf
    <3> QED BY <3>1, <3>2
  <2>2. ASSUME NEW i \in 1 .. Len(l) PROVE l[i].key \in KeysOf(w)
    <3>1. i + 1 \in DOMAIN w /\ w[i + 1] = l[i]
      BY <1>0, <1>3, <1>5
    <3> QED BY <3>1 DEF KeysOf
  <2>3. p.key \in KeysOf(w)
    <3>1. 1 \in DOMAIN w
      BY <1>0, <1>3
    <3> QED BY <3>1, <1>4 DEF KeysOf
  <2>4. \A x \in KeysOf(w) : \E i \in 1 .. Len(l) + 1 : x = w[i].key
    BY <1>3 DEF KeysOf
  <2>5. \A x \in KeysOf(l) : \E i \in 1 .. Len(l) : x = l[i].key
    BY <1>0 DEF KeysOf
  <2> QED BY <2>1, <2>2, <2>3, <2>4, <2>5
<1>8. Distinct(w)
  <2> SUFFICES ASSUME NEW i \in 1 .. Len(l) + 1, NEW j \in 1 .. Len(l) + 1,
                      w[i].key = w[j].key
               PROVE  i = j
    BY <1>3 DEF Distinct
  <2>1. \A a \in 1 .. Len(l) : l[a].key # p.key
    BY <1>0 DEF KeysOf
  <2>2. \A a, b \in 1 .. Len(l) : l[a].key = l[b].key => a = b
    BY <1>0 DEF Distinct
  <2>3. CASE i = 1
    BY <2>3, <2>1, <1>0, <1>4, <1>6
  <2>4. CASE j = 1
    BY <2>4, <2>1, <1>0, <1>4, <1>6
  <2>5. CASE i # 1 /\ j # 1
    <3>1. i - 1 \in 1 .. Len(l) /\ j - 1 \in 1 .. Len(l)
          /\ w[i] = l[i - 1] /\ w[j] = l[j - 1]
      BY <2>5, <1>0, <1>6
    <3>2. i - 1 = j - 1
      BY <3>1, <2>2
    <3> QED BY <3>2
  <2> QED BY <2>3, <2>4, <2>5
<1> QED BY <1>0, <1>2, <1>4, <1>5, <1>7, <1>8 DEF w

-----------------------------------------------------------------------------
(***************************************************************************)
(* The operations.                                                         *)
(***************************************************************************)

LEMMA CacheParts ==
    ASSUME NEW K, NEW V, NEW c \in Caches(K, V)
    PROVE  /\ c.list \in Seq(Pairs(K, V)) /\ c.map \in SUBSET K
           /\ c.size \in Nat /\ c = [list |-> c.list, map |-> c.map, size |-> c.size]
           /\ Whole(c)
BY DEF Caches

LEMMA EmptyIsCache ==
    ASSUME NEW K, NEW V PROVE EmptyCache \in Caches(K, V) /\ EmptyCache.map = {}
<1>1. <<>> \in Seq(Pairs(K, V)) /\ Len(<<>>) = 0 /\ DOMAIN <<>> = {}
  OBVIOUS
<1>2. Whole(EmptyCache)
  BY <1>1 DEF EmptyCache, Whole, KeysOf, Distinct
<1> QED BY <1>1, <1>2 DEF EmptyCache, Caches

\* The pair of a key that is there.
LEMMA PairIsFound ==
    ASSUME NEW K, NEW V, NEW c \in Caches(K, V), NEW k \in c.map
    PROVE  /\ At(c.list, k) \in 1 .. Len(c.list)
           /\ PairOf(c, k) \in Pairs(K, V) /\ PairOf(c, k).key = k
           /\ Value(c, k) \in V
<1>1. c.list \in Seq(Pairs(K, V)) /\ k \in KeysOf(c.list)
  BY CacheParts DEF Whole
<1>2. At(c.list, k) \in 1 .. Len(c.list) /\ c.list[At(c.list, k)].key = k
  BY <1>1, AtFinds
<1>3. c.list[At(c.list, k)] \in Pairs(K, V)
  BY <1>1, <1>2, ElementOfSeq
<1> QED BY <1>2, <1>3 DEF PairOf, Value, Pairs

LEMMA ErasedIsCache ==
    ASSUME NEW K, NEW V, NEW c \in Caches(K, V), NEW k \in c.map
    PROVE  /\ Erased(c, k) \in Caches(K, V)
           /\ Erased(c, k).map = c.map \ {k}
           /\ Erased(c, k).size = c.size - 1
           /\ PartOf(Erased(c, k).list, c.list)
<1> DEFINE w == Without(c.list, k)
<1>1. /\ c.list \in Seq(Pairs(K, V)) /\ c.map \in SUBSET K /\ c.size \in Nat
      /\ KeysOf(c.list) = c.map /\ Len(c.list) = c.size /\ Distinct(c.list)
  BY CacheParts DEF Whole
<1>2. /\ w \in Seq(Pairs(K, V)) /\ Distinct(w)
      /\ KeysOf(w) = c.map \ {k} /\ Len(w) = c.size - 1 /\ PartOf(w, c.list)
  BY <1>1, WithoutLeavesRest
<1> HIDE DEF w
<1>3. Len(w) \in Nat
  BY <1>2, LenProperties
<1>4. Erased(c, k) = [list |-> w, map |-> c.map \ {k}, size |-> c.size - 1]
  BY DEF Erased, w
<1>5. Whole(Erased(c, k))
  BY <1>2, <1>4 DEF Whole
<1>6. Erased(c, k) \in [list : Seq(Pairs(K, V)), map : SUBSET K, size : Nat]
  BY <1>1, <1>2, <1>3, <1>4
<1> QED BY <1>2, <1>4, <1>5, <1>6 DEF Caches

LEMMA AssignedIsCache ==
    ASSUME NEW K, NEW V, NEW c \in Caches(K, V), NEW k \in K, NEW v \in V
    PROVE  /\ Assigned(c, k, v) \in Caches(K, V)
           /\ Assigned(c, k, v).map = c.map \cup {k}
           /\ Assigned(c, k, v).list = <<[key |-> k, value |-> v]>> \o Without(c.list, k)
<1> DEFINE w == Without(c.list, k)
           p == [key |-> k, value |-> v]
           l == <<p>> \o w
<1>1. /\ c.list \in Seq(Pairs(K, V)) /\ c.map \in SUBSET K /\ c.size \in Nat
      /\ KeysOf(c.list) = c.map /\ Len(c.list) = c.size /\ Distinct(c.list)
  BY CacheParts DEF Whole
<1>2. /\ w \in Seq(Pairs(K, V)) /\ Distinct(w)
      /\ KeysOf(w) = KeysOf(c.list) \ {k}
      /\ Len(w) = IF k \in KeysOf(c.list) THEN Len(c.list) - 1 ELSE Len(c.list)
  BY <1>1, WithoutLeavesRest
<1>3. p \in Pairs(K, V) /\ p.key = k
  BY DEF Pairs
<1>4. Assigned(c, k, v) = [list |-> l, map |-> c.map \cup {k},
                           size |-> IF k \in c.map THEN c.size ELSE c.size + 1]
  BY DEF Assigned, Has
<1> HIDE DEF w, p
<1>a. p.key \notin KeysOf(w)
  BY <1>2, <1>3
<1>b. /\ l \in Seq(Pairs(K, V)) /\ Distinct(l)
      /\ KeysOf(l) = KeysOf(w) \cup {p.key} /\ Len(l) = Len(w) + 1
  BY <1>2, <1>3, <1>a, PutInFront
<1>5. /\ l \in Seq(Pairs(K, V)) /\ Distinct(l)
      /\ KeysOf(l) = KeysOf(w) \cup {k} /\ Len(l) = Len(w) + 1
  BY <1>3, <1>b
<1> HIDE DEF l
<1>6. Len(l) = IF k \in c.map THEN c.size ELSE c.size + 1
  BY <1>1, <1>2, <1>5
<1>7. Len(l) \in Nat
  BY <1>5, LenProperties
<1>8. Whole(Assigned(c, k, v))
  BY <1>1, <1>2, <1>4, <1>5, <1>6 DEF Whole
<1>9. Assigned(c, k, v) \in [list : Seq(Pairs(K, V)), map : SUBSET K, size : Nat]
  BY <1>1, <1>4, <1>5, <1>6, <1>7
<1> QED BY <1>4, <1>8, <1>9 DEF Caches, l, w, p

LEMMA TouchedIsAssigned ==
    ASSUME NEW K, NEW V, NEW c \in Caches(K, V), NEW k \in c.map
    PROVE  Touched(c, k) = Assigned(c, k, Value(c, k))
<1>1. PairOf(c, k) = [key |-> k, value |-> Value(c, k)]
  BY PairIsFound DEF Value, Pairs
<1>2. c = [list |-> c.list, map |-> c.map, size |-> c.size]
  BY CacheParts
<1>3. c.map \cup {k} = c.map
  OBVIOUS
<1>4. Touched(c, k) = [list |-> <<PairOf(c, k)>> \o Without(c.list, k),
                       map |-> c.map, size |-> c.size]
  <2>1. ASSUME NEW l, NEW m, NEW s, NEW e
        PROVE  [[list |-> l, map |-> m, size |-> s] EXCEPT !.list = e]
                  = [list |-> e, map |-> m, size |-> s]
    OBVIOUS
  <2>2. Touched(c, k) = [c EXCEPT !.list = <<PairOf(c, k)>> \o Without(c.list, k)]
    BY DEF Touched
  <2> DEFINE e == <<PairOf(c, k)>> \o Without(c.list, k)
             l == c.list
             m == c.map
             s == c.size
  <2>3. c = [list |-> l, map |-> m, size |-> s] /\ Touched(c, k) = [c EXCEPT !.list = e]
    BY <1>2, <2>2
  <2>4. e = <<PairOf(c, k)>> \o Without(c.list, k) /\ m = c.map /\ s = c.size
    OBVIOUS
  <2> HIDE DEF e, l, m, s
  <2>5. Touched(c, k) = [list |-> e, map |-> m, size |-> s]
    BY <2>1, <2>3
  <2> QED BY <2>4, <2>5
<1> QED BY <1>1, <1>3, <1>4 DEF Assigned, Has

-----------------------------------------------------------------------------
(***************************************************************************)
(* prune_if().                                                             *)
(***************************************************************************)

\* The i-th oldest pair's key.
Oldest(c, i) == c.list[Len(c.list) + 1 - i].key

\* How far prune_if() is after i pairs: what is gone, and that it had to go.
PrunedSoFar(c, r, n, droppable, i) ==
    LET gone == c.map \ r.map
        looked(k) == \E j \in 1 .. i : k = Oldest(c, j)
    IN  /\ PartOf(r.list, c.list) /\ r.map \subseteq c.map
        /\ \A k \in gone : k \in droppable /\ looked(k)
        /\ gone # {} => r.size >= n
        /\ r.size > n => \A j \in 1 .. i : Oldest(c, j) \in droppable => Oldest(c, j) \in gone
        /\ \A a, b \in 1 .. i :
              a < b /\ Oldest(c, b) \in gone /\ Oldest(c, a) \in droppable
                => Oldest(c, a) \in gone

LEMMA OldestKeys ==
    ASSUME NEW K, NEW V, NEW c \in Caches(K, V)
    PROVE  /\ \A i \in 1 .. Len(c.list) : Oldest(c, i) \in c.map
           /\ \A i, j \in 1 .. Len(c.list) : Oldest(c, i) = Oldest(c, j) => i = j
           /\ \A k \in c.map : \E i \in 1 .. Len(c.list) : k = Oldest(c, i)
<1>1. c.list \in Seq(Pairs(K, V)) /\ KeysOf(c.list) = c.map /\ Distinct(c.list)
  BY CacheParts DEF Whole
<1> DEFINE l == c.list
<1>2. DOMAIN l = 1 .. Len(l) /\ Len(l) \in Nat
  BY <1>1, LenProperties
<1>3. \A i \in 1 .. Len(l) : Oldest(c, i) = l[Len(l) + 1 - i].key
                             /\ Len(l) + 1 - i \in 1 .. Len(l)
  BY <1>2 DEF Oldest
<1> HIDE DEF l
<1>4. \A i \in 1 .. Len(l) : l[i].key \in KeysOf(l)
  BY <1>2 DEF KeysOf
<1>5. \A i, j \in 1 .. Len(l) : l[i].key = l[j].key => i = j
  BY <1>1, <1>2 DEF Distinct, l
<1>6. ASSUME NEW i \in 1 .. Len(l), NEW j \in 1 .. Len(l), Oldest(c, i) = Oldest(c, j)
      PROVE  i = j
  <2>1. Len(l) + 1 - i = Len(l) + 1 - j
    BY <1>3, <1>5, <1>6
  <2> QED BY <2>1, <1>2
<1>7. ASSUME NEW k \in KeysOf(l) PROVE \E i \in 1 .. Len(l) : k = Oldest(c, i)
  <2>1. PICK a \in 1 .. Len(l) : k = l[a].key
    BY <1>2 DEF KeysOf
  <2>2. Len(l) + 1 - a \in 1 .. Len(l) /\ Len(l) + 1 - (Len(l) + 1 - a) = a
    BY <1>2
  <2> QED BY <2>1, <2>2, <1>3
<1> QED BY <1>1, <1>3, <1>4, <1>6, <1>7 DEF l

LEMMA PruneBegins ==
    ASSUME NEW K, NEW V, NEW c \in Caches(K, V), NEW n, NEW droppable
    PROVE  PrunedSoFar(c, c, n, droppable, 0)
<1>1. PartOf(c.list, c.list)
  BY CacheParts, PartOfSelf
<1> QED BY <1>1 DEF PrunedSoFar

LEMMA PruneGoesOn ==
    ASSUME NEW K, NEW V, NEW c \in Caches(K, V), NEW r \in Caches(K, V),
           NEW n \in Nat, NEW droppable, NEW i \in 1 .. Len(c.list),
           PrunedSoFar(c, r, n, droppable, i - 1)
    PROVE  LET s == Visited(r, Oldest(c, i), n, droppable)
           IN  s \in Caches(K, V) /\ PrunedSoFar(c, s, n, droppable, i)
<1> DEFINE k == Oldest(c, i)
           s == Visited(r, k, n, droppable)
           gone == c.map \ r.map
<1>0. Len(c.list) \in Nat /\ r.size \in Nat
  BY CacheParts, LenProperties
<1>1. /\ PartOf(r.list, c.list) /\ r.map \subseteq c.map
      /\ \A x \in gone : x \in droppable /\ \E j \in 1 .. i - 1 : x = Oldest(c, j)
      /\ gone # {} => r.size >= n
      /\ r.size > n => \A j \in 1 .. i - 1 :
            Oldest(c, j) \in droppable => Oldest(c, j) \in gone
      /\ \A a, b \in 1 .. i - 1 :
            a < b /\ Oldest(c, b) \in gone /\ Oldest(c, a) \in droppable
              => Oldest(c, a) \in gone
  BY DEF PrunedSoFar
<1>2. k \in c.map /\ \A j \in 1 .. i - 1 : Oldest(c, j) # k
  BY <1>0, OldestKeys
<1>3. k \in r.map
  BY <1>1, <1>2
<1>4. 1 .. i = (1 .. i - 1) \cup {i} /\ \A j \in 1 .. i - 1 : j < i
  BY <1>0
<1>5. CASE ~(r.size > n /\ k \in droppable)
  <2>1. s = r
    BY <1>5 DEF Visited
  <2>2. k \notin gone
    BY <1>3
  <2> HIDE DEF s, k, gone
  <2>3. \A x \in gone : x \in droppable /\ \E j \in 1 .. i : x = Oldest(c, j)
    BY <1>1, <1>4
  <2>4. r.size > n => \A j \in 1 .. i : Oldest(c, j) \in droppable => Oldest(c, j) \in gone
    BY <1>1, <1>4, <1>5 DEF k
  <2>5. ASSUME NEW a \in 1 .. i, NEW b \in 1 .. i, a < b, Oldest(c, b) \in gone,
               Oldest(c, a) \in droppable
        PROVE  Oldest(c, a) \in gone
    <3>1. b # i
      BY <2>2, <2>5 DEF k
    <3>2. a \in 1 .. i - 1 /\ b \in 1 .. i - 1
      BY <3>1, <2>5, <1>4, <1>0
    <3> QED BY <3>2, <2>5, <1>1
  <2>6. PrunedSoFar(c, r, n, droppable, i)
    BY <1>1, <2>3, <2>4, <2>5 DEF PrunedSoFar, gone
  <2> QED BY <2>1, <2>6 DEF s, k
<1>6. CASE r.size > n /\ k \in droppable
  <2>1. s = Erased(r, k)
    BY <1>6 DEF Visited
  <2>2. /\ s \in Caches(K, V) /\ s.map = r.map \ {k} /\ s.size = r.size - 1
        /\ PartOf(s.list, r.list)
    BY <2>1, <1>3, ErasedIsCache
  <2> HIDE DEF s
  <2>3. PartOf(s.list, c.list) /\ s.map \subseteq c.map /\ s.size >= n
    BY <2>2, <1>0, <1>1, <1>6, PartsOfParts
  <2>4. c.map \ s.map = gone \cup {k}
    BY <2>2, <1>1, <1>2
  <2> HIDE DEF gone
  <2>5. \A x \in gone \cup {k} : x \in droppable /\ \E j \in 1 .. i : x = Oldest(c, j)
    BY <1>1, <1>4, <1>6
  <2>6. \A j \in 1 .. i : Oldest(c, j) \in droppable => Oldest(c, j) \in gone \cup {k}
    BY <1>1, <1>4, <1>6
  <2> HIDE DEF k
  <2>7. PrunedSoFar(c, s, n, droppable, i)
    BY <2>3, <2>4, <2>5, <2>6 DEF PrunedSoFar
  <2> QED BY <2>2, <2>7 DEF s, k
<1> QED BY <1>5, <1>6

\* The recursion of prune_if() is well defined.
LEMMA PruningSteps ==
    ASSUME NEW K, NEW V, NEW c \in Caches(K, V), NEW n, NEW droppable
    PROVE  LET p == Pruning(c, n, droppable)
           IN  /\ p[0] = c
               /\ \A i \in 1 .. Len(c.list) :
                     p[i] = Visited(p[i - 1], Oldest(c, i), n, droppable)
<1> DEFINE P == Pairs(K, V)
           R == [list : Seq(P), map : SUBSET K, size : Int]
           len == Len(c.list)
           step == [i \in 1 .. len |-> [r \in R |-> Visited(r, Oldest(c, i), n, droppable)]]
<1>0. len \in Nat /\ c \in R
  BY CacheParts, LenProperties DEF Caches
<1>1. ASSUME NEW r \in R, NEW k PROVE Visited(r, k, n, droppable) \in R
  <2>1. Without(r.list, k) \in Seq(P)
    <3>1. r.list \in Seq(P)
      OBVIOUS
    <3> HIDE DEF P
    <3> QED BY <3>1, WithoutPairs DEF Without
  <2>2. Erased(r, k) \in R
    BY <2>1 DEF Erased
  <2> QED BY <2>2 DEF Visited
<1> HIDE DEF R
<1>2. step \in [1 .. len -> [R -> R]]
  BY <1>1
<1>3. PICK f \in [0 .. len -> R] :
         f[0] = c /\ \A i \in 1 .. len : f[i] = step[i][f[i - 1]]
  <2>1. step \in LoopSteps(len, R)
    BY <1>2 DEF LoopSteps
  <2> HIDE DEF step, len
  <2>2. Iterations(len, R, c, step) # {}
    BY <1>0, <2>1, IterationExists
  <2> QED BY <2>2 DEF Iterations
<1>4. ASSUME NEW i \in 1 .. len
      PROVE  f[i] = Visited(f[i - 1], Oldest(c, i), n, droppable)
  <2>1. i - 1 \in 0 .. len /\ f[i - 1] \in R
    BY <1>0, <1>3
  <2> QED BY <2>1, <1>3
<1> DEFINE Eq(g) ==
      g = [i \in 0 .. len |->
             IF i = 0 THEN c
             ELSE Visited(g[i - 1], c.list[len + 1 - i].key, n, droppable)]
<1>5. Eq(f)
  BY <1>0, <1>3, <1>4 DEF Oldest
<1>6. Eq(Pruning(c, n, droppable))
  <2>1. Pruning(c, n, droppable) = CHOOSE g : Eq(g)
    BY DEF Pruning
  <2> HIDE DEF Eq
  <2> QED BY <1>5, <2>1
<1> DEFINE g == Pruning(c, n, droppable)
<1>7. g = [i \in 0 .. len |->
             IF i = 0 THEN c
             ELSE Visited(g[i - 1], c.list[len + 1 - i].key, n, droppable)]
  BY <1>6
<1> HIDE DEF g, Eq
<1>8. g[0] = c
  <2>1. 0 \in 0 .. len
    BY <1>0
  <2> QED BY <1>7, <2>1
<1>9. \A i \in 1 .. len : g[i] = Visited(g[i - 1], Oldest(c, i), n, droppable)
  <2> SUFFICES ASSUME NEW i \in 1 .. len
               PROVE  g[i] = Visited(g[i - 1], Oldest(c, i), n, droppable)
    OBVIOUS
  <2>1. i \in 0 .. len /\ i # 0
    BY <1>0
  <2> QED BY <1>7, <2>1 DEF Oldest
<1> QED BY <1>8, <1>9 DEF g

\* What prune_if() leaves and drops.
LEMMA PrunedIfDrops ==
    ASSUME NEW K, NEW V, NEW c \in Caches(K, V), NEW n \in Nat, NEW droppable
    PROVE  LET r == PrunedIf(c, n, droppable)
           IN  r \in Caches(K, V) /\ PrunedSoFar(c, r, n, droppable, Len(c.list))
<1> DEFINE p == Pruning(c, n, droppable)
           len == Len(c.list)
           H == {i \in 0 .. len : p[i] \in Caches(K, V)
                                  /\ PrunedSoFar(c, p[i], n, droppable, i)}
<1>0. len \in Nat
  BY CacheParts, LenProperties
<1>1. p[0] = c /\ \A i \in 1 .. len : p[i] = Visited(p[i - 1], Oldest(c, i), n, droppable)
  BY PruningSteps
<1> HIDE DEF p
<1>2. 0 \in H
  BY <1>0, <1>1, PruneBegins
<1>3. ASSUME NEW i \in 1 .. len, i - 1 \in H PROVE i \in H
  <2>1. p[i - 1] \in Caches(K, V) /\ PrunedSoFar(c, p[i - 1], n, droppable, i - 1)
    BY <1>3
  <2>2. p[i] \in Caches(K, V) /\ PrunedSoFar(c, p[i], n, droppable, i)
    BY <2>1, <1>1, PruneGoesOn
  <2> QED BY <2>2, <1>0
<1>4. len \in H
  <2> HIDE DEF H, len
  <2>1. \A i \in 1 .. len : i - 1 \in H => i \in H
    BY <1>3
  <2> QED BY <1>0, <1>2, <2>1, UpTo
<1> QED BY <1>4 DEF PrunedIf, p

-----------------------------------------------------------------------------
(***************************************************************************)
(* The cache under any sequence of operations.                             *)
(***************************************************************************)

\* The pairs of list are in the order that the keys have in hist.
InOrder(list, hist) ==
    \A i, j \in DOMAIN list :
        i < j => At(hist, list[i].key) < At(hist, list[j].key)

LruInv ==
    /\ lru \in Caches(Keys, Keys)
    /\ \A i \in DOMAIN lru.list : lru.list[i].value = lru.list[i].key
    /\ history \in Seq([key : Keys]) /\ Distinct(history)
    /\ lru.map \subseteq KeysOf(history)
    /\ InOrder(lru.list, history)

LEMMA AtOfWithout ==
    ASSUME NEW P, NEW l \in Seq(P), Distinct(l), NEW k \in KeysOf(l),
           NEW x \in KeysOf(l), x # k
    PROVE  At(Without(l, k), x) = IF At(l, x) < At(l, k) THEN At(l, x) ELSE At(l, x) - 1
<1> DEFINE w == Without(l, k)
           a == At(l, x)
           ix == At(l, k)
           i == IF a < ix THEN a ELSE a - 1
<1>1. /\ ix \in 1 .. Len(l) /\ l[ix].key = k /\ a \in 1 .. Len(l) /\ l[a].key = x
      /\ Len(l) \in Nat
  BY AtFinds, LenProperties
<1>2. /\ w \in Seq(P) /\ Len(w) = Len(l) - 1 /\ Distinct(w)
      /\ \A j \in 1 .. Len(l) - 1 : w[j] = IF j < ix THEN l[j] ELSE l[j + 1]
  BY WithoutPairs, WithoutLeavesRest
<1> HIDE DEF w, a, ix
<1>3. a # ix
  BY <1>1
<1>4. i \in 1 .. Len(l) - 1 /\ (IF i < ix THEN i ELSE i + 1) = a
  BY <1>1, <1>3
<1> HIDE DEF i
<1>5. w[i].key = x
  BY <1>1, <1>2, <1>4
<1>6. At(w, x) = i
  BY <1>2, <1>4, <1>5, AtIs
<1> QED BY <1>6 DEF w, a, ix, i

LEMMA AtOfFront ==
    ASSUME NEW P, NEW l \in Seq(P), Distinct(l), NEW p \in P, p.key \notin KeysOf(l)
    PROVE  /\ At(<<p>> \o l, p.key) = 1
           /\ \A x \in KeysOf(l) : At(<<p>> \o l, x) = At(l, x) + 1
<1> DEFINE w == <<p>> \o l
<1>1. /\ w \in Seq(P) /\ Distinct(w) /\ Len(w) = Len(l) + 1 /\ w[1] = p
      /\ \A i \in 1 .. Len(l) : w[i + 1] = l[i]
  BY PutInFront
<1> HIDE DEF w
<1>2. Len(l) \in Nat
  BY LenProperties
<1>3. At(w, p.key) = 1
  <2>1. 1 \in 1 .. Len(w)
    BY <1>1, <1>2
  <2> QED BY <2>1, <1>1, AtIs
<1>4. ASSUME NEW x \in KeysOf(l) PROVE At(w, x) = At(l, x) + 1
  <2> DEFINE a == At(l, x)
  <2>1. a \in 1 .. Len(l) /\ l[a].key = x
    BY AtFinds
  <2> HIDE DEF a
  <2>2. a + 1 \in 1 .. Len(w) /\ w[a + 1].key = x
    BY <2>1, <1>1, <1>2
  <2>3. At(w, x) = a + 1
    BY <2>2, <1>1, AtIs
  <2> QED BY <2>3 DEF a
<1> QED BY <1>3, <1>4 DEF w

\* A list that was left in order stays so when k is taken out of both.
LEMMA OrderWithout ==
    ASSUME NEW P, NEW hist \in Seq(P), Distinct(hist), NEW k,
           NEW x \in KeysOf(hist) \ {k}, NEW y \in KeysOf(hist) \ {k},
           At(hist, x) < At(hist, y)
    PROVE  At(Without(hist, k), x) < At(Without(hist, k), y)
<1>1. CASE k \notin KeysOf(hist)
  BY <1>1 DEF Without
<1>2. CASE k \in KeysOf(hist)
  <2>1. /\ At(Without(hist, k), x) = IF At(hist, x) < At(hist, k) THEN At(hist, x)
                                     ELSE At(hist, x) - 1
        /\ At(Without(hist, k), y) = IF At(hist, y) < At(hist, k) THEN At(hist, y)
                                     ELSE At(hist, y) - 1
    BY <1>2, AtOfWithout
  <2>2. /\ At(hist, x) \in 1 .. Len(hist) /\ At(hist, y) \in 1 .. Len(hist)
        /\ At(hist, k) \in 1 .. Len(hist)
        /\ hist[At(hist, x)].key = x /\ hist[At(hist, k)].key = k
        /\ hist[At(hist, y)].key = y
    BY <1>2, AtFinds
  <2>3. At(hist, x) # At(hist, k) /\ At(hist, y) # At(hist, k) /\ Len(hist) \in Nat
    BY <2>2, LenProperties
  <2> DEFINE a == At(hist, x)
             b == At(hist, y)
             c == At(hist, k)
  <2>4. a \in Nat /\ b \in Nat /\ c \in Nat /\ a # c /\ b # c /\ a < b
    BY <2>2, <2>3
  <2>5. /\ At(Without(hist, k), x) = IF a < c THEN a ELSE a - 1
        /\ At(Without(hist, k), y) = IF b < c THEN b ELSE b - 1
    BY <2>1
  <2> HIDE DEF a, b, c
  <2> QED BY <2>4, <2>5
<1> QED BY <1>1, <1>2

LEMMA PartInOrder ==
    ASSUME NEW sub, NEW list, NEW hist, PartOf(sub, list), InOrder(list, hist)
    PROVE  InOrder(sub, hist)
<1> SUFFICES ASSUME NEW i \in DOMAIN sub, NEW j \in DOMAIN sub, i < j
             PROVE  At(hist, sub[i].key) < At(hist, sub[j].key)
  BY DEF InOrder
<1>1. PICK a \in DOMAIN list, b \in DOMAIN list :
         a < b /\ sub[i] = list[a] /\ sub[j] = list[b]
  BY DEF PartOf
<1> QED BY <1>1 DEF InOrder

\* What is left of a cache is still in order without k in the history.
LEMMA StillInOrder ==
    ASSUME NEW P, NEW Q, NEW list \in Seq(Q), NEW hist \in Seq(P), Distinct(hist),
           NEW k, KeysOf(list) \subseteq KeysOf(hist) \ {k}, InOrder(list, hist)
    PROVE  InOrder(list, Without(hist, k))
<1> SUFFICES ASSUME NEW i \in DOMAIN list, NEW j \in DOMAIN list, i < j
             PROVE  At(Without(hist, k), list[i].key) < At(Without(hist, k), list[j].key)
  BY DEF InOrder
<1>1. list[i].key \in KeysOf(hist) \ {k} /\ list[j].key \in KeysOf(hist) \ {k}
  BY DEF KeysOf
<1>2. At(hist, list[i].key) < At(hist, list[j].key)
  BY DEF InOrder
<1> QED BY <1>1, <1>2, OrderWithout

LEMMA FrontInOrder ==
    ASSUME NEW P, NEW Q, NEW list \in Seq(Q), Distinct(list), NEW p \in Q,
           NEW hist \in Seq(P), Distinct(hist), NEW h \in P, h.key = p.key,
           p.key \notin KeysOf(list), p.key \notin KeysOf(hist),
           KeysOf(list) \subseteq KeysOf(hist), InOrder(list, hist)
    PROVE  InOrder(<<p>> \o list, <<h>> \o hist)
<1> DEFINE w == <<p>> \o list
           g == <<h>> \o hist
<1>1. /\ w \in Seq(Q) /\ Len(w) = Len(list) + 1 /\ w[1] = p
      /\ \A i \in 1 .. Len(list) : w[i + 1] = list[i]
  <2> HIDE DEF g
  <2>1. /\ <<p>> \o list \in Seq(Q) /\ Len(<<p>> \o list) = Len(list) + 1
        /\ (<<p>> \o list)[1] = p
        /\ \A i \in 1 .. Len(list) : (<<p>> \o list)[i + 1] = list[i]
    BY PutInFront
  <2> QED BY <2>1
<1>2. At(g, p.key) = 1 /\ \A x \in KeysOf(hist) : At(g, x) = At(hist, x) + 1
  BY AtOfFront
<1> HIDE DEF w, g
<1>3. DOMAIN w = 1 .. Len(list) + 1 /\ Len(list) \in Nat /\ DOMAIN list = 1 .. Len(list)
  BY <1>1, LenProperties
<1> SUFFICES ASSUME NEW i \in 1 .. Len(list) + 1, NEW j \in 1 .. Len(list) + 1, i < j
             PROVE  At(g, w[i].key) < At(g, w[j].key)
  BY <1>3 DEF InOrder, w, g
<1>4. /\ j - 1 \in DOMAIN list /\ w[j] = list[j - 1]
      /\ list[j - 1].key \in KeysOf(hist)
  <2>1. j - 1 \in 1 .. Len(list) /\ j - 1 + 1 = j
    BY <1>3
  <2> QED BY <2>1, <1>1, <1>3 DEF KeysOf
<1>5. At(hist, list[j - 1].key) \in Nat /\ At(hist, list[j - 1].key) >= 1
  <2>1. At(hist, list[j - 1].key) \in 1 .. Len(hist) /\ Len(hist) \in Nat
    BY <1>4, AtFinds, LenProperties
  <2> QED BY <2>1
<1>6. CASE i = 1
  BY <1>1, <1>2, <1>4, <1>5, <1>6
<1>7. CASE i # 1
  <2>1. i - 1 \in 1 .. Len(list) /\ i - 1 + 1 = i /\ i - 1 < j - 1
    BY <1>3, <1>7
  <2>2. w[i] = list[i - 1] /\ list[i - 1].key \in KeysOf(hist)
    BY <2>1, <1>1, <1>3 DEF KeysOf
  <2>3. At(hist, list[i - 1].key) < At(hist, list[j - 1].key)
    BY <2>1, <1>3, <1>4 DEF InOrder
  <2>4. At(hist, list[i - 1].key) \in Nat
    <3>1. At(hist, list[i - 1].key) \in 1 .. Len(hist) /\ Len(hist) \in Nat
      BY <2>2, AtFinds, LenProperties
    <3> QED BY <3>1
  <2> QED BY <2>2, <2>3, <2>4, <1>2, <1>4, <1>5
<1> QED BY <1>6, <1>7

HistKeys == [key : Keys]

LEMMA HistoryUsed ==
    ASSUME NEW k \in Keys, history \in Seq(HistKeys), Distinct(history)
    PROVE  /\ Without(history, k) \in Seq(HistKeys)
           /\ Distinct(Without(history, k))
           /\ KeysOf(Without(history, k)) = KeysOf(history) \ {k}
           /\ <<[key |-> k]>> \o Without(history, k) \in Seq(HistKeys)
           /\ Distinct(<<[key |-> k]>> \o Without(history, k))
           /\ KeysOf(<<[key |-> k]>> \o Without(history, k)) = KeysOf(history) \cup {k}
<1> DEFINE w == Without(history, k)
           p == [key |-> k]
<1>1. w \in Seq(HistKeys) /\ Distinct(w) /\ KeysOf(w) = KeysOf(history) \ {k}
  BY WithoutLeavesRest
<1>2. p \in HistKeys /\ p.key = k
  BY DEF HistKeys
<1> HIDE DEF w, p
<1>3. /\ <<p>> \o w \in Seq(HistKeys) /\ Distinct(<<p>> \o w)
      /\ KeysOf(<<p>> \o w) = KeysOf(w) \cup {p.key}
  <2>1. p.key \notin KeysOf(w)
    BY <1>1, <1>2
  <2> QED BY <2>1, <1>1, <1>2, PutInFront
<1>4. KeysOf(w) \cup {p.key} = KeysOf(history) \cup {k}
  BY <1>1, <1>2
<1> QED BY <1>1, <1>3, <1>4 DEF w, p

\* operator[] of a new key or one that is there, and touch()
LEMMA UseKeepsInv ==
    ASSUME LruInv, NEW k \in Keys, lru' = Assigned(lru, k, k), Used(k)
    PROVE  LruInv'
<1> DEFINE w == Without(lru.list, k)
           p == [key |-> k, value |-> k]
           hw == Without(history, k)
           h == [key |-> k]
<1>1. /\ lru \in Caches(Keys, Keys) /\ history \in Seq(HistKeys) /\ Distinct(history)
      /\ lru.map \subseteq KeysOf(history) /\ InOrder(lru.list, history)
      /\ \A i \in DOMAIN lru.list : lru.list[i].value = lru.list[i].key
  BY DEF LruInv, HistKeys
<1>2. /\ lru.list \in Seq(Pairs(Keys, Keys)) /\ Distinct(lru.list)
      /\ KeysOf(lru.list) = lru.map
  BY <1>1, CacheParts DEF Whole
<1>3. /\ lru' \in Caches(Keys, Keys) /\ lru'.map = lru.map \cup {k}
      /\ lru'.list = <<p>> \o w
  BY <1>1, AssignedIsCache
<1>4. /\ hw \in Seq(HistKeys) /\ Distinct(hw) /\ KeysOf(hw) = KeysOf(history) \ {k}
      /\ <<h>> \o hw \in Seq(HistKeys) /\ Distinct(<<h>> \o hw)
      /\ KeysOf(<<h>> \o hw) = KeysOf(history) \cup {k}
  BY <1>1, HistoryUsed
<1>5. /\ w \in Seq(Pairs(Keys, Keys)) /\ Distinct(w) /\ KeysOf(w) = lru.map \ {k}
      /\ PartOf(w, lru.list)
  BY <1>2, WithoutLeavesRest
<1>6. history' = <<h>> \o hw
  BY DEF Used
<1>7. p \in Pairs(Keys, Keys) /\ p.key = k /\ p.value = k /\ h \in HistKeys /\ h.key = k
  BY DEF Pairs, HistKeys
<1> HIDE DEF w, p, hw, h
<1>8. InOrder(w, hw)
  <2>1. InOrder(w, history)
    BY <1>1, <1>5, PartInOrder
  <2>2. KeysOf(w) \subseteq KeysOf(history) \ {k}
    BY <1>1, <1>5
  <2> QED BY <2>1, <2>2, <1>1, <1>5, StillInOrder DEF hw
<1>9. InOrder(<<p>> \o w, <<h>> \o hw)
  <2>1. /\ p.key \notin KeysOf(w) /\ p.key \notin KeysOf(hw) /\ h.key = p.key
        /\ KeysOf(w) \subseteq KeysOf(hw)
    BY <1>1, <1>4, <1>5, <1>7
  <2> QED BY <2>1, <1>4, <1>5, <1>7, <1>8, FrontInOrder
<1>10. \A i \in DOMAIN lru'.list : lru'.list[i].value = lru'.list[i].key
  <2>1. \A i \in DOMAIN w : w[i].value = w[i].key
    BY <1>1, <1>5 DEF PartOf
  <2>2. /\ <<p>> \o w \in Seq(Pairs(Keys, Keys)) /\ Len(<<p>> \o w) = Len(w) + 1
        /\ (<<p>> \o w)[1] = p
        /\ \A i \in 1 .. Len(w) : (<<p>> \o w)[i + 1] = w[i]
    <3>1. p.key \notin KeysOf(w)
      BY <1>5, <1>7
    <3> QED BY <3>1, <1>5, <1>7, PutInFront
  <2>3. DOMAIN (<<p>> \o w) = 1 .. Len(w) + 1 /\ DOMAIN w = 1 .. Len(w) /\ Len(w) \in Nat
    BY <2>2, <1>5, LenProperties
  <2>4. ASSUME NEW i \in 1 .. Len(w) + 1
        PROVE  (<<p>> \o w)[i].value = (<<p>> \o w)[i].key
    <3>1. CASE i = 1
      BY <3>1, <2>2, <1>7
    <3>2. CASE i # 1
      <4>1. i - 1 \in 1 .. Len(w) /\ i - 1 + 1 = i
        BY <2>3, <3>2
      <4>2. (<<p>> \o w)[i] = w[i - 1]
        BY <4>1, <2>2
      <4> QED BY <4>1, <4>2, <2>1, <2>3
    <3> QED BY <3>1, <3>2
  <2> QED BY <2>3, <2>4, <1>3
<1>11. lru'.map \subseteq KeysOf(history')
  BY <1>1, <1>3, <1>4, <1>6
<1>12. InOrder(lru'.list, history')
  BY <1>3, <1>6, <1>9
<1> QED BY <1>3, <1>4, <1>6, <1>10, <1>11, <1>12 DEF LruInv, HistKeys

\* What is left of the cache after some of it is gone.
LEMMA LessKeepsInv ==
    ASSUME LruInv, lru' \in Caches(Keys, Keys), PartOf(lru'.list, lru.list),
           UNCHANGED history
    PROVE  LruInv'
<1>1. lru'.map = KeysOf(lru'.list) /\ lru.map = KeysOf(lru.list)
  BY CacheParts DEF LruInv, Whole
<1>2. lru'.map \subseteq lru.map
  BY <1>1 DEF PartOf, KeysOf
<1>3. \A i \in DOMAIN lru'.list : lru'.list[i].value = lru'.list[i].key
  BY DEF LruInv, PartOf
<1>4. InOrder(lru'.list, history)
  BY PartInOrder DEF LruInv
<1> QED BY <1>2, <1>3, <1>4 DEF LruInv

LEMMA RemoveKeepsInv ==
    ASSUME LruInv, NEW k \in Keys, Remove(k) PROVE LruInv'
<1>1. /\ lru \in Caches(Keys, Keys) /\ history \in Seq(HistKeys) /\ Distinct(history)
      /\ lru.map \subseteq KeysOf(history) /\ InOrder(lru.list, history)
      /\ \A i \in DOMAIN lru.list : lru.list[i].value = lru.list[i].key
  BY DEF LruInv, HistKeys
<1>2. /\ lru' \in Caches(Keys, Keys) /\ lru'.map = lru.map \ {k}
      /\ PartOf(lru'.list, lru.list)
  <2>1. CASE Has(lru, k)
    BY <1>1, <2>1, ErasedIsCache DEF Remove, Removed, Has
  <2>2. CASE ~Has(lru, k)
    <3>1. lru' = lru
      BY <2>2 DEF Remove, Removed
    <3>2. PartOf(lru.list, lru.list)
      BY <1>1, CacheParts, PartOfSelf
    <3> QED BY <3>1, <3>2, <2>2, <1>1 DEF Has
  <2> QED BY <2>1, <2>2
<1>3. history' = Without(history, k)
  BY DEF Remove
<1>4. /\ history' \in Seq(HistKeys) /\ Distinct(history')
      /\ KeysOf(history') = KeysOf(history) \ {k}
  BY <1>1, <1>3, HistoryUsed
<1>5. InOrder(lru'.list, history')
  <2>1. InOrder(lru'.list, history)
    BY <1>1, <1>2, PartInOrder
  <2>2. lru'.list \in Seq(Pairs(Keys, Keys)) /\ KeysOf(lru'.list) \subseteq KeysOf(history) \ {k}
    <3>1. lru'.list \in Seq(Pairs(Keys, Keys)) /\ KeysOf(lru'.list) = lru'.map
      BY <1>2, CacheParts DEF Whole
    <3> QED BY <3>1, <1>1, <1>2
  <2> QED BY <2>1, <2>2, <1>1, <1>3, StillInOrder
<1>6. \A i \in DOMAIN lru'.list : lru'.list[i].value = lru'.list[i].key
  BY <1>1, <1>2 DEF PartOf
<1>7. lru'.map \subseteq KeysOf(history')
  BY <1>1, <1>2, <1>4
<1> QED BY <1>2, <1>4, <1>5, <1>6, <1>7 DEF LruInv, HistKeys

LEMMA UsedIsAssigned ==
    ASSUME LruInv, NEW k \in lru.map
    PROVE  Touched(lru, k) = Assigned(lru, k, k)
<1>1. lru \in Caches(Keys, Keys) /\ k \in Keys
  BY CacheParts DEF LruInv
<1>2. At(lru.list, k) \in 1 .. Len(lru.list) /\ PairOf(lru, k).key = k
  BY <1>1, PairIsFound
<1>3. DOMAIN lru.list = 1 .. Len(lru.list)
  BY <1>1, CacheParts, LenProperties
<1>4. Value(lru, k) = k
  BY <1>2, <1>3 DEF Value, PairOf, LruInv
<1> QED BY <1>1, <1>4, TouchedIsAssigned

LEMMA LruStepKeepsInv ==
    ASSUME LruInv, [LruNext]_lruVars PROVE LruInv'
<1>0. lru \in Caches(Keys, Keys)
  BY DEF LruInv
<1>1. ASSUME NEW k \in Keys, Index(k) PROVE LruInv'
  BY <1>1, UseKeepsInv, UsedIsAssigned DEF Index, Has
<1>2. ASSUME NEW k \in Keys, Touch(k) PROVE LruInv'
  BY <1>2, UseKeepsInv, UsedIsAssigned DEF Touch, Has
<1>3. ASSUME NEW k \in Keys, Remove(k) PROVE LruInv'
  BY <1>3, RemoveKeepsInv
<1>4. ASSUME NEW n \in Nat, NEW droppable, PruneIf(n, droppable) PROVE LruInv'
  <2>1. lru' \in Caches(Keys, Keys) /\ PartOf(lru'.list, lru.list)
    BY <1>0, <1>4, PrunedIfDrops DEF PruneIf, PrunedSoFar
  <2> QED BY <2>1, <1>4, LessKeepsInv DEF PruneIf
<1>5. ASSUME NEW n \in Nat, Prune(n) PROVE LruInv'
  BY <1>4, <1>5 DEF Prune, PruneIf, Pruned
<1>6. CASE Clear
  <2>1. lru' \in Caches(Keys, Keys) /\ lru'.map = {} /\ lru'.list = <<>>
    BY <1>6, EmptyIsCache DEF Clear, EmptyCache
  <2>2. history' = <<>> /\ DOMAIN <<>> = {} /\ <<>> \in Seq([key : Keys])
    BY <1>6 DEF Clear
  <2> QED BY <2>1, <2>2 DEF LruInv, InOrder, Distinct
<1>7. CASE UNCHANGED lruVars
  BY <1>7 DEF lruVars, LruInv
<1>8. Sizes \subseteq Nat
  BY DEF Sizes
<1> QED BY <1>1, <1>2, <1>3, <1>4, <1>5, <1>6, <1>7, <1>8 DEF LruNext

\* The inductive invariant: the cache is whole, and its list is in the order
\* of use.
THEOREM LruInvariant == LruSpec => []LruInv
<1>1. LruInit => LruInv
  <2> SUFFICES ASSUME LruInit PROVE LruInv
    OBVIOUS
  <2>1. lru \in Caches(Keys, Keys) /\ lru.map = {} /\ lru.list = <<>>
    BY EmptyIsCache DEF LruInit, EmptyCache
  <2>2. history = <<>> /\ DOMAIN <<>> = {} /\ <<>> \in Seq([key : Keys])
    BY DEF LruInit
  <2> QED BY <2>1, <2>2 DEF LruInv, InOrder, Distinct
<1>2. LruInv /\ [LruNext]_lruVars => LruInv'
  BY LruStepKeepsInv
<1> QED BY <1>1, <1>2, PTL DEF LruSpec

\* The list, the map and the count of a cache agree after any operations, for
\* any keys: no iterator is left without its pair, and prune() never takes from
\* an empty list.
THEOREM ListAndMapAgree == LruSpec => []ListMapAgree
<1>1. LruInv => ListMapAgree
  <2> SUFFICES ASSUME LruInv PROVE ListMapAgree
    OBVIOUS
  <2>1. Whole(lru)
    BY CacheParts DEF LruInv
  <2> QED BY <2>1 DEF LruInv, Whole, Distinct, ListMapAgree
<1> QED BY <1>1, LruInvariant, PTL

-----------------------------------------------------------------------------

\* What prune_if() drops is older than what it could have dropped and did not.
LEMMA DropsOldest ==
    ASSUME LruInv, NEW n \in Nat, NEW droppable, PruneIf(n, droppable)
    PROVE  DroppedOldest(n, droppable)
<1> DEFINE l == lru.list
           gone == lru.map \ lru'.map
           stays == (lru.map \cap droppable) \ gone
<1>1. lru \in Caches(Keys, Keys) /\ history' = history
  BY DEF LruInv, PruneIf
<1>2. l \in Seq(Pairs(Keys, Keys)) /\ DOMAIN l = 1 .. Len(l) /\ Len(l) \in Nat
  BY <1>1, CacheParts, LenProperties
<1>3. lru' \in Caches(Keys, Keys) /\ PrunedSoFar(lru, lru', n, droppable, Len(l))
  BY <1>1, PrunedIfDrops DEF PruneIf
<1>4. /\ \A k \in gone : k \in droppable
      /\ gone # {} => lru'.size >= n
      /\ lru'.size > n => \A j \in 1 .. Len(l) :
            Oldest(lru, j) \in droppable => Oldest(lru, j) \in gone
      /\ \A a, b \in 1 .. Len(l) :
            a < b /\ Oldest(lru, b) \in gone /\ Oldest(lru, a) \in droppable
              => Oldest(lru, a) \in gone
  BY <1>3 DEF PrunedSoFar
<1>5. \A k \in lru.map : \E i \in 1 .. Len(l) : k = Oldest(lru, i)
  BY <1>1, OldestKeys
<1>6. ASSUME NEW k \in gone, NEW j \in stays PROVE Age(k) > Age(j)
  <2>1. PICK b \in 1 .. Len(l) : k = Oldest(lru, b)
    BY <1>5
  <2>2. PICK a \in 1 .. Len(l) : j = Oldest(lru, a)
    BY <1>5
  <2>3. ~(a < b)
    BY <1>4, <2>1, <2>2
  <2>4. a # b
    BY <2>1, <2>2
  <2>5. /\ Len(l) + 1 - a \in DOMAIN l /\ Len(l) + 1 - b \in DOMAIN l
        /\ Len(l) + 1 - a < Len(l) + 1 - b
    BY <1>2, <2>3, <2>4
  <2>6. j = l[Len(l) + 1 - a].key /\ k = l[Len(l) + 1 - b].key
    BY <2>1, <2>2 DEF Oldest
  <2>7. At(history, j) < At(history, k)
    BY <2>5, <2>6 DEF LruInv, InOrder
  <2>8. At(history, j) \in Nat /\ At(history, k) \in Nat
    <3>1. j \in KeysOf(history) /\ k \in KeysOf(history) /\ history \in Seq([key : Keys])
      BY DEF LruInv
    <3>2. Len(history) \in Nat /\ At(history, j) \in 1 .. Len(history)
          /\ At(history, k) \in 1 .. Len(history)
      BY <3>1, AtFinds, LenProperties
    <3> QED BY <3>2
  <2> QED BY <2>7, <2>8 DEF Age
<1>7. lru'.size > n => stays = {}
  BY <1>4, <1>5
<1> QED BY <1>4, <1>6, <1>7 DEF DroppedOldest

\* prune() and prune_if() drop the least recently used elements that may go,
\* and no more than they have to, after any use of the cache.
THEOREM AlwaysDropsOldest == LruSpec => PruneDropsOldest
<1>1. ASSUME LruInv, [LruNext]_lruVars
      PROVE  [/\ \A n \in Sizes, droppable \in SUBSET Keys :
                    PruneIf(n, droppable) => DroppedOldest(n, droppable)
              /\ \A n \in Sizes : Prune(n) => DroppedOldest(n, Keys)]_lruVars
  <2>1. Sizes \subseteq Nat
    BY DEF Sizes
  <2>2. ASSUME NEW n \in Sizes, NEW droppable \in SUBSET Keys, PruneIf(n, droppable)
        PROVE  DroppedOldest(n, droppable)
    BY <1>1, <2>1, <2>2, DropsOldest
  <2>3. ASSUME NEW n \in Sizes, Prune(n) PROVE DroppedOldest(n, Keys)
    <3>1. PruneIf(n, KeysOf(lru.list))
      BY <2>3 DEF Prune, PruneIf, Pruned
    <3>2. DroppedOldest(n, KeysOf(lru.list))
      BY <1>1, <2>1, <3>1, DropsOldest
    <3>3. lru.map \cap KeysOf(lru.list) = lru.map \cap Keys
      BY <1>1, CacheParts DEF LruInv, Whole
    <3> QED BY <3>2, <3>3 DEF DroppedOldest
  <2> QED BY <2>2, <2>3
<1> QED BY <1>1, LruInvariant, PTL DEF LruSpec, PruneDropsOldest

-----------------------------------------------------------------------------
(***************************************************************************)
(* The chunk cache.                                                        *)
(***************************************************************************)

\* What is in the cache is what is in the store.
Agrees(c, s) == \A i \in DOMAIN c.list : c.list[i].value = s[c.list[i].key]

StoresTyped ==
    /\ store \in [Kinds -> [Chunks -> Versions \cup {Nothing}]]
    /\ heightStore \in [Columns -> Versions \cup {Nothing}]

ThreadsTyped ==
    /\ bg \in [at : BgStages, chunk : Chunks \cup {Nothing},
               version : Versions \cup {Nothing}]
    /\ render \in [chunk : Chunks \cup {Nothing}, kinds : SUBSET Kinds]
    /\ held \in [Readers -> SUBSET Refs]
    /\ dangling \in [Readers -> SUBSET Refs]

CachesAgree ==
    /\ cache \in [Kinds -> Caches(Chunks, Versions)]
    /\ heights \in Caches(Columns, Versions)
    /\ \A kind \in Kinds : Agrees(cache[kind], store[kind])
    /\ Agrees(heights, heightStore)

\* What the render thread looks for was there, and nothing leaves the store.
LookIsStored ==
    render.kinds # {} =>
        render.chunk \in Chunks
        /\ \A kind \in render.kinds : store[kind][render.chunk] # Nothing

\* What the update has stored so far.
UpdateIsStored ==
    /\ bg.at \in {"surface", "stored"} =>
          bg.chunk \in Chunks /\ store["surface"][bg.chunk] = bg.version
          /\ bg.version \in Versions
    /\ bg.at = "stored" => store["light"][bg.chunk] = bg.version

\* The background thread holds references only between its last store and
\* SetScene, and they are alive.
HeldAreAlive ==
    /\ held["background"] # {} => bg.at = "stored"
    /\ \A r \in held["background"] : r[2] = bg.chunk /\ Has(cache[r[1]], r[2])
    /\ dangling["background"] = {}

CacheInv ==
    /\ StoresTyped /\ ThreadsTyped /\ CachesAgree
    /\ LookIsStored /\ UpdateIsStored /\ HeldAreAlive

-----------------------------------------------------------------------------

LEMMA ValueAgrees ==
    ASSUME NEW K, NEW V, NEW c \in Caches(K, V), NEW s, Agrees(c, s), NEW k \in c.map
    PROVE  Value(c, k) = s[k]
<1>1. At(c.list, k) \in DOMAIN c.list /\ PairOf(c, k).key = k
  BY PairIsFound, CacheParts, LenProperties
<1> QED BY <1>1 DEF Agrees, Value, PairOf

LEMMA PartAgrees ==
    ASSUME NEW c, NEW d, NEW s, Agrees(c, s), PartOf(d.list, c.list) PROVE Agrees(d, s)
BY DEF Agrees, PartOf

LEMMA AssignedAgrees ==
    ASSUME NEW K, NEW V, NEW c \in Caches(K, V), NEW s, Agrees(c, s),
           NEW k \in K, NEW v \in V, NEW t, t[k] = v, \A x \in K \ {k} : t[x] = s[x]
    PROVE  Agrees(Assigned(c, k, v), t)
<1> DEFINE w == Without(c.list, k)
           p == [key |-> k, value |-> v]
<1>1. Assigned(c, k, v).list = <<p>> \o w
  BY AssignedIsCache
<1>2. /\ c.list \in Seq(Pairs(K, V)) /\ Distinct(c.list) /\ KeysOf(c.list) \subseteq K
  BY CacheParts DEF Whole
<1>3. /\ w \in Seq(Pairs(K, V)) /\ Distinct(w) /\ KeysOf(w) = KeysOf(c.list) \ {k}
      /\ PartOf(w, c.list)
  BY <1>2, WithoutLeavesRest
<1>4. p \in Pairs(K, V) /\ p.key = k /\ p.value = v
  BY DEF Pairs
<1> HIDE DEF w, p
<1>5. /\ <<p>> \o w \in Seq(Pairs(K, V)) /\ Len(<<p>> \o w) = Len(w) + 1
      /\ (<<p>> \o w)[1] = p
      /\ \A i \in 1 .. Len(w) : (<<p>> \o w)[i + 1] = w[i]
  <2>1. p.key \notin KeysOf(w)
    BY <1>3, <1>4
  <2> QED BY <2>1, <1>3, <1>4, PutInFront
<1>6. DOMAIN (<<p>> \o w) = 1 .. Len(w) + 1 /\ DOMAIN w = 1 .. Len(w) /\ Len(w) \in Nat
  BY <1>3, <1>5, LenProperties
<1>7. \A i \in DOMAIN w : w[i].value = t[w[i].key]
  <2> SUFFICES ASSUME NEW i \in DOMAIN w PROVE w[i].value = t[w[i].key]
    OBVIOUS
  <2>1. w[i].value = s[w[i].key]
    BY <1>3 DEF PartOf, Agrees
  <2>2. w[i].key \in K \ {k}
    BY <1>2, <1>3 DEF KeysOf
  <2> QED BY <2>1, <2>2
<1>8. ASSUME NEW i \in 1 .. Len(w) + 1
      PROVE  (<<p>> \o w)[i].value = t[(<<p>> \o w)[i].key]
  <2>1. CASE i = 1
    BY <2>1, <1>4, <1>5
  <2>2. CASE i # 1
    <3>1. i - 1 \in 1 .. Len(w) /\ i - 1 + 1 = i
      BY <1>6, <2>2
    <3>2. (<<p>> \o w)[i] = w[i - 1]
      BY <3>1, <1>5
    <3> QED BY <3>1, <3>2, <1>6, <1>7
  <2> QED BY <2>1, <2>2
<1> QED BY <1>1, <1>6, <1>8 DEF Agrees

\* get_surface(), get_lightmap() and get_coarse_height()
LEMMA GotAgrees ==
    ASSUME NEW K, NEW V, NEW c \in Caches(K, V), NEW s, Agrees(c, s), NEW k \in K,
           s[k] \in V \/ Has(c, k)
    PROVE  /\ Got(c, k, s[k]) \in Caches(K, V)
           /\ Got(c, k, s[k]).map = c.map \cup {k}
           /\ Agrees(Got(c, k, s[k]), s)
<1>1. k \in c.map => Value(c, k) = s[k] /\ Value(c, k) \in V
  BY ValueAgrees, PairIsFound
<1>2. s[k] \in V
  BY <1>1 DEF Has
<1>3. Got(c, k, s[k]) = Assigned(c, k, s[k])
  BY <1>1, TouchedIsAssigned DEF Got, Fetched, Has
<1>4. ASSUME NEW v \in V, s[k] = v
      PROVE  /\ Assigned(c, k, v) \in Caches(K, V)
             /\ Assigned(c, k, v).map = c.map \cup {k}
             /\ Agrees(Assigned(c, k, v), s)
  <2>1. Agrees(Assigned(c, k, v), s)
    BY <1>4, AssignedAgrees
  <2>2. Assigned(c, k, v) \in Caches(K, V)
    BY AssignedIsCache
  <2>3. Assigned(c, k, v).map = c.map \cup {k}
    BY DEF Assigned
  <2> QED BY <2>1, <2>2, <2>3
<1> QED BY <1>2, <1>3, <1>4

\* store_surface() and store_lightmap()
LEMMA DroppedAgrees ==
    ASSUME NEW K, NEW V, NEW c \in Caches(K, V), NEW s, Agrees(c, s), NEW k,
           NEW t, \A x \in K \ {k} : t[x] = s[x]
    PROVE  /\ Dropped(c, k) \in Caches(K, V)
           /\ Dropped(c, k).map = c.map \ {k}
           /\ Agrees(Dropped(c, k), t)
<1> DEFINE d == Dropped(c, k)
<1>1. d \in Caches(K, V) /\ d.map = c.map \ {k} /\ PartOf(d.list, c.list)
  <2>1. CASE k \in c.map
    BY <2>1, ErasedIsCache DEF Dropped, Removed, Has
  <2>2. CASE k \notin c.map
    BY <2>2, CacheParts, PartOfSelf DEF Dropped, Removed, Has
  <2> QED BY <2>1, <2>2
<1> HIDE DEF d
<1>2. Agrees(d, s)
  BY <1>1, PartAgrees
<1>3. \A i \in DOMAIN d.list : d.list[i].key \in K \ {k}
  <2>1. KeysOf(d.list) = c.map \ {k} /\ c.map \subseteq K
    BY <1>1, CacheParts DEF Whole
  <2> QED BY <2>1 DEF KeysOf
<1> QED BY <1>1, <1>2, <1>3 DEF Agrees, d

\* cleanup()
LEMMA PrunedAgrees ==
    ASSUME NEW K, NEW V, NEW c \in Caches(K, V), NEW s, Agrees(c, s), NEW n \in Nat
    PROVE  Pruned(c, n) \in Caches(K, V) /\ Agrees(Pruned(c, n), s)
BY PrunedIfDrops, PartAgrees DEF Pruned, PrunedSoFar

-----------------------------------------------------------------------------
(***************************************************************************)
(* One step of each thread.                                                *)
(***************************************************************************)

\* Get(), by either thread, of what is stored.
LEMMA GetKeeps ==
    ASSUME CacheInv, NEW th \in Readers, NEW kind \in Kinds, NEW p \in Chunks,
           store[kind][p] \in Versions, Get(th, kind, p),
           UNCHANGED <<store, heights, heightStore>>
    PROVE  /\ CachesAgree'
           /\ held' \in [Readers -> SUBSET Refs] /\ dangling' \in [Readers -> SUBSET Refs]
           /\ \A r \in held["background"] : Has(cache[r[1]], r[2]) => Has(cache'[r[1]], r[2])
           /\ Has(cache'[kind], p)
           /\ dangling'["background"] = {}
<1> DEFINE next == Got(cache[kind], p, store[kind][p])
<1>0. /\ cache \in [Kinds -> Caches(Chunks, Versions)] /\ Agrees(cache[kind], store[kind])
      /\ held \in [Readers -> SUBSET Refs] /\ dangling \in [Readers -> SUBSET Refs]
      /\ dangling["background"] = {}
      /\ \A r \in held["background"] : Has(cache[r[1]], r[2])
  BY DEF CacheInv, CachesAgree, ThreadsTyped, HeldAreAlive
<1>1. /\ next \in Caches(Chunks, Versions) /\ next.map = cache[kind].map \cup {p}
      /\ Agrees(next, store[kind])
  BY <1>0, GotAgrees
<1>2. /\ cache' = [cache EXCEPT ![kind] = next]
      /\ held' = [held EXCEPT ![th] = @ \cup {<<kind, p>>}]
      /\ dangling' = [x \in Readers |-> dangling[x] \cup
                         {r \in held[x] : r[1] = kind /\ ~Has(next, r[2])}]
  BY DEF Get, Dangle
<1> HIDE DEF next
<1>3. CachesAgree'
  <2>1. cache' \in [Kinds -> Caches(Chunks, Versions)]
    BY <1>0, <1>1, <1>2
  <2>2. \A x \in Kinds : Agrees(cache'[x], store[x])
    BY <1>0, <1>1, <1>2 DEF CacheInv, CachesAgree
  <2> QED BY <2>1, <2>2 DEF CacheInv, CachesAgree
<1>4. \A x \in Kinds : cache[x].map \subseteq cache'[x].map
  BY <1>0, <1>1, <1>2
<1>5. \A r \in held["background"] : r[1] \in Kinds /\ r[2] \in Chunks
  <2>1. held["background"] \subseteq Refs
    BY <1>0 DEF Readers
  <2> QED BY <2>1 DEF Refs
<1>6. held' \in [Readers -> SUBSET Refs] /\ dangling' \in [Readers -> SUBSET Refs]
  <2>1. <<kind, p>> \in Refs
    BY DEF Refs
  <2> QED BY <1>0, <1>2, <2>1
<1>7. {r \in held["background"] : r[1] = kind /\ ~Has(next, r[2])} = {}
  BY <1>0, <1>1 DEF Has
<1>8. dangling'["background"] = {}
  BY <1>0, <1>2, <1>7 DEF Readers
<1>9. Has(cache'[kind], p)
  BY <1>0, <1>1, <1>2 DEF Has
<1> QED BY <1>3, <1>4, <1>5, <1>6, <1>8, <1>9 DEF Has

\* Put(), while the background thread holds nothing.
LEMMA PutKeeps ==
    ASSUME CacheInv, NEW kind \in Kinds, NEW p \in Chunks, NEW v \in Versions,
           Put(kind, p, v), held["background"] = {}, UNCHANGED <<heights, heightStore>>
    PROVE  /\ StoresTyped' /\ CachesAgree' /\ held' = held
           /\ dangling' \in [Readers -> SUBSET Refs] /\ dangling'["background"] = {}
           /\ store'[kind][p] = v
           /\ \A x \in Kinds, q \in Chunks : x # kind \/ q # p => store'[x][q] = store[x][q]
<1> DEFINE next == Dropped(cache[kind], p)
<1>0. /\ cache \in [Kinds -> Caches(Chunks, Versions)] /\ Agrees(cache[kind], store[kind])
      /\ held \in [Readers -> SUBSET Refs] /\ dangling \in [Readers -> SUBSET Refs]
      /\ dangling["background"] = {}
      /\ store \in [Kinds -> [Chunks -> Versions \cup {Nothing}]]
      /\ heightStore \in [Columns -> Versions \cup {Nothing}]
  BY DEF CacheInv, CachesAgree, ThreadsTyped, HeldAreAlive, StoresTyped
<1>2. /\ cache' = [cache EXCEPT ![kind] = next]
      /\ store' = [store EXCEPT ![kind][p] = v]
      /\ held' = held
      /\ dangling' = [x \in Readers |-> dangling[x] \cup
                         {r \in held[x] : r[1] = kind /\ ~Has(next, r[2])}]
  BY DEF Put, Dangle
<1>3. /\ store' \in [Kinds -> [Chunks -> Versions \cup {Nothing}]]
      /\ store'[kind][p] = v
      /\ \A x \in Kinds, q \in Chunks : x # kind \/ q # p => store'[x][q] = store[x][q]
  BY <1>0, <1>2
<1>4. next \in Caches(Chunks, Versions) /\ Agrees(next, store'[kind])
  <2>1. \A q \in Chunks \ {p} : store'[kind][q] = store[kind][q]
    BY <1>3
  <2> QED BY <1>0, <2>1, DroppedAgrees
<1> HIDE DEF next
<1>5. CachesAgree'
  <2>1. cache' \in [Kinds -> Caches(Chunks, Versions)]
    BY <1>0, <1>2, <1>4
  <2>2. ASSUME NEW x \in Kinds PROVE Agrees(cache'[x], store'[x])
    <3>1. CASE x = kind
      BY <3>1, <1>0, <1>2, <1>4
    <3>2. CASE x # kind
      <4>1. cache'[x] = cache[x] /\ store'[x] = store[x]
        BY <3>2, <1>0, <1>2
      <4> QED BY <4>1 DEF CacheInv, CachesAgree
    <3> QED BY <3>1, <3>2
  <2> QED BY <2>1, <2>2 DEF CacheInv, CachesAgree
<1>6. dangling' \in [Readers -> SUBSET Refs] /\ dangling'["background"] = {}
  BY <1>0, <1>2 DEF Readers
<1> QED BY <1>0, <1>2, <1>3, <1>5, <1>6 DEF StoresTyped

\* cleanup() of one cache, while the background thread holds nothing.
LEMMA CleanKeeps ==
    ASSUME CacheInv, NEW kind \in Kinds, NEW stage, NEW next \in BgStages,
           Clean(kind, stage, next), stage \notin {"surface", "stored"},
           next \notin {"surface", "stored"}
    PROVE  CacheInv'
<1> DEFINE pruned == Pruned(cache[kind], Limit)
<1>0. /\ cache \in [Kinds -> Caches(Chunks, Versions)] /\ Agrees(cache[kind], store[kind])
      /\ held \in [Readers -> SUBSET Refs] /\ dangling \in [Readers -> SUBSET Refs]
      /\ dangling["background"] = {} /\ bg.at = stage /\ held["background"] = {}
  BY DEF CacheInv, CachesAgree, ThreadsTyped, HeldAreAlive, Clean
<1>1. pruned \in Caches(Chunks, Versions) /\ Agrees(pruned, store[kind])
  BY <1>0, PrunedAgrees, CacheConstants
<1>2. /\ cache' = [cache EXCEPT ![kind] = pruned]
      /\ dangling' = [x \in Readers |-> dangling[x] \cup
                         {r \in held[x] : r[1] = kind /\ ~Has(pruned, r[2])}]
      /\ bg' = [bg EXCEPT !.at = next]
      /\ UNCHANGED <<store, heights, heightStore, render, held>>
  BY DEF Clean, Dangle
<1> HIDE DEF pruned
<1>3. CachesAgree'
  <2>1. cache' \in [Kinds -> Caches(Chunks, Versions)]
    BY <1>0, <1>1, <1>2
  <2>2. \A x \in Kinds : Agrees(cache'[x], store[x])
    BY <1>0, <1>1, <1>2 DEF CacheInv, CachesAgree
  <2> QED BY <2>1, <2>2, <1>2 DEF CacheInv, CachesAgree
<1>4. dangling' \in [Readers -> SUBSET Refs] /\ dangling'["background"] = {}
  BY <1>0, <1>2 DEF Readers
<1>5. bg' \in [at : BgStages, chunk : Chunks \cup {Nothing},
               version : Versions \cup {Nothing}] /\ bg'.at = next
  BY <1>2 DEF CacheInv, ThreadsTyped
<1>6. StoresTyped' /\ LookIsStored' /\ ThreadsTyped'
  BY <1>2, <1>4, <1>5 DEF CacheInv, StoresTyped, LookIsStored, ThreadsTyped
<1>7. UpdateIsStored' /\ HeldAreAlive'
  BY <1>0, <1>2, <1>4, <1>5 DEF UpdateIsStored, HeldAreAlive
<1> QED BY <1>3, <1>6, <1>7 DEF CacheInv

-----------------------------------------------------------------------------

\* What a step leaves alone of the stores, the threads and the references.
LEMMA Rest ==
    ASSUME CacheInv
    PROVE  /\ bg \in [at : BgStages, chunk : Chunks \cup {Nothing},
                      version : Versions \cup {Nothing}]
           /\ render \in [chunk : Chunks \cup {Nothing}, kinds : SUBSET Kinds]
           /\ held \in [Readers -> SUBSET Refs] /\ dangling \in [Readers -> SUBSET Refs]
           /\ held["background"] # {} => bg.at = "stored"
           /\ \A r \in held["background"] : r \in Refs /\ r[1] \in Kinds /\ r[2] \in Chunks
BY DEF CacheInv, ThreadsTyped, HeldAreAlive, Refs, Readers

LEMMA StoreSurfaceKeeps ==
    ASSUME CacheInv, NEW p \in Chunks, NEW v \in Versions, StoreSurface(p, v)
    PROVE  CacheInv'
<1>1. bg.at = "poll" /\ held["background"] = {}
  BY Rest DEF StoreSurface
<1>2. Put("surface", p, v) /\ UNCHANGED <<heights, heightStore, render>>
      /\ bg' = [at |-> "surface", chunk |-> p, version |-> v]
  BY DEF StoreSurface
<1>3. /\ StoresTyped' /\ CachesAgree' /\ held' = held
      /\ dangling' \in [Readers -> SUBSET Refs] /\ dangling'["background"] = {}
      /\ store'["surface"][p] = v
      /\ \A x \in Kinds, q \in Chunks : x # "surface" \/ q # p => store'[x][q] = store[x][q]
  BY <1>1, <1>2, PutKeeps DEF Kinds
<1>4. ThreadsTyped'
  BY <1>2, <1>3, Rest DEF ThreadsTyped, BgStages
<1>5. LookIsStored'
  <2>1. render \in [chunk : Chunks \cup {Nothing}, kinds : SUBSET Kinds]
    BY Rest
  <2> QED BY <1>2, <1>3, <2>1, CacheConstants DEF CacheInv, LookIsStored
<1>6. UpdateIsStored' /\ HeldAreAlive'
  BY <1>1, <1>2, <1>3 DEF UpdateIsStored, HeldAreAlive
<1> QED BY <1>3, <1>4, <1>5, <1>6 DEF CacheInv

LEMMA StoreLightKeeps ==
    ASSUME CacheInv, StoreLight
    PROVE  CacheInv'
<1> DEFINE p == bg.chunk
           v == bg.version
<1>1. bg.at = "surface" /\ held["background"] = {}
  BY Rest DEF StoreLight
<1>2. Put("light", p, v) /\ UNCHANGED <<heights, heightStore, render>>
      /\ bg' = [bg EXCEPT !.at = "stored"]
  BY DEF StoreLight
<1>3. p \in Chunks /\ v \in Versions /\ store["surface"][p] = v
  BY <1>1 DEF CacheInv, UpdateIsStored
<1>4. bg' = [at |-> "stored", chunk |-> p, version |-> v]
  BY <1>2, Rest
<1> HIDE DEF p, v
<1>5. /\ StoresTyped' /\ CachesAgree' /\ held' = held
      /\ dangling' \in [Readers -> SUBSET Refs] /\ dangling'["background"] = {}
      /\ store'["light"][p] = v
      /\ \A x \in Kinds, q \in Chunks : x # "light" \/ q # p => store'[x][q] = store[x][q]
  BY <1>1, <1>2, <1>3, PutKeeps DEF Kinds
<1>6. ThreadsTyped'
  BY <1>2, <1>3, <1>4, <1>5, Rest DEF ThreadsTyped, BgStages
<1>7. LookIsStored'
  <2>1. render \in [chunk : Chunks \cup {Nothing}, kinds : SUBSET Kinds]
    BY Rest
  <2> QED BY <1>2, <1>3, <1>5, <2>1, CacheConstants DEF CacheInv, LookIsStored
<1>8. store'["surface"][p] = v
  BY <1>3, <1>5 DEF Kinds
<1>9. UpdateIsStored' /\ HeldAreAlive'
  BY <1>1, <1>3, <1>4, <1>5, <1>8 DEF UpdateIsStored, HeldAreAlive
<1> QED BY <1>5, <1>6, <1>7, <1>9 DEF CacheInv

LEMMA GetForSceneKeeps ==
    ASSUME CacheInv, NEW kind \in Kinds, GetForScene(kind)
    PROVE  CacheInv'
<1>1. /\ bg.at = "stored" /\ bg.chunk \in Chunks /\ bg.version \in Versions
      /\ store[kind][bg.chunk] = bg.version
  BY DEF GetForScene, CacheInv, UpdateIsStored, Kinds
<1>2. Get("background", kind, bg.chunk)
      /\ UNCHANGED <<store, heights, heightStore, bg, render>>
  BY DEF GetForScene
<1>3. /\ CachesAgree'
      /\ held' \in [Readers -> SUBSET Refs] /\ dangling' \in [Readers -> SUBSET Refs]
      /\ \A r \in held["background"] : Has(cache[r[1]], r[2]) => Has(cache'[r[1]], r[2])
      /\ Has(cache'[kind], bg.chunk)
      /\ dangling'["background"] = {}
  BY <1>1, <1>2, GetKeeps DEF Readers
<1>4. held'["background"] = held["background"] \cup {<<kind, bg.chunk>>}
  BY <1>2, Rest DEF Get, Readers
<1>5. HeldAreAlive'
  <2>1. \A r \in held'["background"] : r[2] = bg.chunk /\ Has(cache'[r[1]], r[2])
    BY <1>3, <1>4 DEF CacheInv, HeldAreAlive
  <2> QED BY <1>1, <1>2, <1>3, <2>1 DEF HeldAreAlive
<1>6. StoresTyped' /\ LookIsStored' /\ UpdateIsStored' /\ ThreadsTyped'
  BY <1>2, <1>3, Rest DEF CacheInv, StoresTyped, LookIsStored, UpdateIsStored, ThreadsTyped
<1> QED BY <1>3, <1>5, <1>6 DEF CacheInv

LEMMA GetToDrawKeeps ==
    ASSUME CacheInv, NEW kind \in Kinds, GetToDraw(kind)
    PROVE  CacheInv'
<1>1. /\ Get("render", kind, render.chunk) /\ kind \in render.kinds
      /\ render' = [render EXCEPT !.kinds = @ \ {kind}]
      /\ UNCHANGED <<store, heights, heightStore, bg>>
  BY DEF GetToDraw
<1>2. render.chunk \in Chunks /\ \A x \in render.kinds : store[x][render.chunk] # Nothing
  BY <1>1 DEF CacheInv, LookIsStored
<1>3. store[kind][render.chunk] \in Versions
  BY <1>1, <1>2 DEF CacheInv, StoresTyped
<1>4. /\ CachesAgree'
      /\ held' \in [Readers -> SUBSET Refs] /\ dangling' \in [Readers -> SUBSET Refs]
      /\ \A r \in held["background"] : Has(cache[r[1]], r[2]) => Has(cache'[r[1]], r[2])
      /\ dangling'["background"] = {}
  BY <1>1, <1>2, <1>3, GetKeeps DEF Readers
<1>5. held'["background"] = held["background"]
  BY <1>1, Rest DEF Get, Readers
<1>6. /\ render' \in [chunk : Chunks \cup {Nothing}, kinds : SUBSET Kinds]
      /\ render'.chunk = render.chunk /\ render'.kinds \subseteq render.kinds
  BY <1>1, Rest
<1>7. HeldAreAlive'
  BY <1>1, <1>4, <1>5 DEF CacheInv, HeldAreAlive
<1>8. LookIsStored'
  BY <1>1, <1>2, <1>6 DEF LookIsStored
<1>9. StoresTyped' /\ UpdateIsStored' /\ ThreadsTyped'
  BY <1>1, <1>4, <1>6, Rest DEF CacheInv, StoresTyped, UpdateIsStored, ThreadsTyped
<1> QED BY <1>4, <1>7, <1>8, <1>9 DEF CacheInv

\* SetScene and DoneWithLook: a thread is done with what it holds.
LEMMA ReleaseKeeps ==
    ASSUME CacheInv, NEW th \in Readers, Release(th),
           UNCHANGED <<cache, store, heights, heightStore>>,
           \/ th = "background" /\ bg' = Polling /\ UNCHANGED render
           \/ th = "render" /\ render' = NoLook /\ UNCHANGED bg
    PROVE  CacheInv'
<1>1. /\ held' \in [Readers -> SUBSET Refs] /\ dangling' \in [Readers -> SUBSET Refs]
      /\ dangling'["background"] = {} /\ held'["background"] \subseteq held["background"]
      /\ th = "background" => held'["background"] = {}
  BY Rest DEF Release, CacheInv, HeldAreAlive, Readers
<1>2. StoresTyped' /\ CachesAgree'
  BY DEF CacheInv, StoresTyped, CachesAgree
<1>3. ThreadsTyped'
  <2>1. Polling \in [at : BgStages, chunk : Chunks \cup {Nothing},
                     version : Versions \cup {Nothing}]
        /\ NoLook \in [chunk : Chunks \cup {Nothing}, kinds : SUBSET Kinds]
    BY DEF Polling, NoLook, BgStages
  <2>2. /\ bg' \in [at : BgStages, chunk : Chunks \cup {Nothing},
                    version : Versions \cup {Nothing}]
        /\ render' \in [chunk : Chunks \cup {Nothing}, kinds : SUBSET Kinds]
    BY <2>1, Rest
  <2> QED BY <1>1, <2>2 DEF ThreadsTyped
<1>4. LookIsStored' /\ UpdateIsStored'
  BY DEF CacheInv, LookIsStored, UpdateIsStored, Polling, NoLook
<1>5. HeldAreAlive'
  BY <1>1 DEF CacheInv, HeldAreAlive
<1> QED BY <1>2, <1>3, <1>4, <1>5 DEF CacheInv

LEMMA LookKeeps ==
    ASSUME CacheInv, NEW p \in Chunks, NEW kinds \in SUBSET Kinds, Look(p, kinds)
    PROVE  CacheInv'
<1>1. ASSUME NEW kind \in kinds PROVE store[kind][p] # Nothing
  <2>1. CASE store[kind][p] # Nothing
    BY <2>1
  <2>2. CASE Has(cache[kind], p)
    <3>1. cache[kind] \in Caches(Chunks, Versions) /\ Agrees(cache[kind], store[kind])
      BY DEF CacheInv, CachesAgree
    <3>2. Value(cache[kind], p) = store[kind][p] /\ Value(cache[kind], p) \in Versions
      BY <2>2, <3>1, ValueAgrees, PairIsFound DEF Has
    <3> QED BY <3>2, CacheConstants
  <2> QED BY <2>1, <2>2 DEF Look, Available
<1>2. /\ render' = [chunk |-> p, kinds |-> kinds]
      /\ UNCHANGED <<cache, store, heights, heightStore, bg, held, dangling>>
  BY DEF Look
<1>3. LookIsStored' /\ ThreadsTyped'
  BY <1>1, <1>2, Rest DEF LookIsStored, ThreadsTyped
<1>4. StoresTyped' /\ CachesAgree' /\ UpdateIsStored' /\ HeldAreAlive'
  BY <1>2 DEF CacheInv, StoresTyped, CachesAgree, UpdateIsStored, HeldAreAlive
<1> QED BY <1>3, <1>4 DEF CacheInv

\* What a step does to the heights alone.
LEMMA HeightsKeep ==
    ASSUME CacheInv, UNCHANGED <<cache, store, bg, render, held, dangling>>,
           heights' \in Caches(Columns, Versions), Agrees(heights', heightStore'),
           heightStore' \in [Columns -> Versions \cup {Nothing}]
    PROVE  CacheInv'
<1>1. StoresTyped' /\ CachesAgree'
  BY DEF CacheInv, StoresTyped, CachesAgree
<1>2. ThreadsTyped' /\ LookIsStored' /\ UpdateIsStored' /\ HeldAreAlive'
  BY DEF CacheInv, ThreadsTyped, LookIsStored, UpdateIsStored, HeldAreAlive
<1> QED BY <1>1, <1>2 DEF CacheInv

LEMMA GetHeightKeeps ==
    ASSUME CacheInv, NEW x \in Columns, GetHeight(x)
    PROVE  CacheInv'
<1>1. /\ heights \in Caches(Columns, Versions) /\ Agrees(heights, heightStore)
      /\ heightStore \in [Columns -> Versions \cup {Nothing}]
  BY DEF CacheInv, CachesAgree, StoresTyped
<1>2. heightStore[x] \in Versions \/ Has(heights, x)
  BY <1>1 DEF GetHeight
<1>3. heights' = Got(heights, x, heightStore[x])
      /\ UNCHANGED <<cache, store, heightStore, bg, render, held, dangling>>
  BY DEF GetHeight
<1>4. heights' \in Caches(Columns, Versions) /\ Agrees(heights', heightStore)
  BY <1>1, <1>2, <1>3, GotAgrees
<1> QED BY <1>1, <1>3, <1>4, HeightsKeep

LEMMA StoreHeightKeeps ==
    ASSUME CacheInv, NEW x \in Columns, NEW v \in Versions, StoreHeight(x, v)
    PROVE  CacheInv'
<1>1. /\ heights \in Caches(Columns, Versions) /\ Agrees(heights, heightStore)
      /\ heightStore \in [Columns -> Versions \cup {Nothing}]
  BY DEF CacheInv, CachesAgree, StoresTyped
<1>2. /\ heights' = Assigned(heights, x, v)
      /\ heightStore' = [heightStore EXCEPT ![x] = v]
      /\ UNCHANGED <<cache, store, bg, render, held, dangling>>
  BY DEF StoreHeight, PutHeight
<1>3. /\ heightStore' \in [Columns -> Versions \cup {Nothing}]
      /\ heightStore'[x] = v /\ \A y \in Columns \ {x} : heightStore'[y] = heightStore[y]
  BY <1>1, <1>2
<1>4. heights' \in Caches(Columns, Versions)
  BY <1>1, <1>2, AssignedIsCache
<1>5. Agrees(Assigned(heights, x, v), heightStore')
  BY <1>1, <1>3, AssignedAgrees
<1>6. Agrees(heights', heightStore')
  BY <1>2, <1>5
<1> QED BY <1>2, <1>3, <1>4, <1>6, HeightsKeep

LEMMA CleanHeightsKeeps ==
    ASSUME CacheInv, CleanHeights
    PROVE  CacheInv'
<1>1. /\ heights \in Caches(Columns, Versions) /\ Agrees(heights, heightStore)
      /\ held["background"] = {} /\ bg.at = "clean heights"
  BY Rest DEF CacheInv, CachesAgree, CleanHeights
<1>2. Limit * HeightShare \in Nat
  BY CacheConstants
<1>3. /\ heights' = Pruned(heights, Limit * HeightShare) /\ bg' = Polling
      /\ UNCHANGED <<cache, store, heightStore, render, held, dangling>>
  BY DEF CleanHeights
<1>4. heights' \in Caches(Columns, Versions) /\ Agrees(heights', heightStore)
  BY <1>1, <1>2, <1>3, PrunedAgrees
<1>5. StoresTyped' /\ CachesAgree'
  BY <1>3, <1>4 DEF CacheInv, StoresTyped, CachesAgree
<1>6. ThreadsTyped' /\ LookIsStored'
  BY <1>3, Rest DEF CacheInv, ThreadsTyped, LookIsStored, Polling, BgStages
<1>7. UpdateIsStored' /\ HeldAreAlive'
  BY <1>1, <1>3 DEF CacheInv, UpdateIsStored, HeldAreAlive, Polling
<1> QED BY <1>5, <1>6, <1>7 DEF CacheInv

LEMMA StartCleanupKeeps ==
    ASSUME CacheInv, StartCleanup
    PROVE  CacheInv'
<1>1. /\ bg.at = "poll" /\ held["background"] = {}
      /\ bg' = [bg EXCEPT !.at = "clean surfaces"]
      /\ UNCHANGED <<cache, store, heights, heightStore, render, held, dangling>>
  BY Rest DEF StartCleanup
<1>2. StoresTyped' /\ CachesAgree' /\ LookIsStored'
  BY <1>1 DEF CacheInv, StoresTyped, CachesAgree, LookIsStored
<1>3. ThreadsTyped' /\ bg'.at = "clean surfaces"
  BY <1>1, Rest DEF ThreadsTyped, BgStages
<1>4. UpdateIsStored' /\ HeldAreAlive'
  BY <1>1, <1>3 DEF CacheInv, UpdateIsStored, HeldAreAlive
<1> QED BY <1>2, <1>3, <1>4 DEF CacheInv

LEMMA CacheStepKeepsInv ==
    ASSUME CacheInv, [CacheNext]_chunkVars
    PROVE  CacheInv'
<1>1. CASE UNCHANGED chunkVars
  BY <1>1 DEF chunkVars, CacheInv, StoresTyped, ThreadsTyped, CachesAgree,
       LookIsStored, UpdateIsStored, HeldAreAlive
<1>2. CASE TerrainStep
  <2>1. ASSUME NEW p \in Chunks, NEW v \in Versions, StoreSurface(p, v) PROVE CacheInv'
    BY <2>1, StoreSurfaceKeeps
  <2>2. CASE StoreLight
    BY <2>2, StoreLightKeeps
  <2>3. CASE SetScene
    BY <2>3, ReleaseKeeps DEF SetScene, Readers
  <2>4. CASE DoneWithLook
    BY <2>4, ReleaseKeeps DEF DoneWithLook, Readers
  <2>5. ASSUME NEW kind \in Kinds, GetForScene(kind) \/ GetToDraw(kind) PROVE CacheInv'
    BY <2>5, GetForSceneKeeps, GetToDrawKeeps
  <2>6. ASSUME NEW p \in Chunks, Look(p, {"surface"}) \/ Look(p, Kinds) PROVE CacheInv'
    <3>1. {"surface"} \in SUBSET Kinds /\ Kinds \in SUBSET Kinds
      BY DEF Kinds
    <3> QED BY <2>6, <3>1, LookKeeps
  <2> QED BY <1>2, <2>1, <2>2, <2>3, <2>4, <2>5, <2>6 DEF TerrainStep
<1>3. CASE HeightStep
  BY <1>3, GetHeightKeeps, StoreHeightKeeps DEF HeightStep
<1>4. CASE Cleanup
  <2>1. CASE StartCleanup
    BY <2>1, StartCleanupKeeps
  <2>2. CASE Clean("surface", "clean surfaces", "clean lights")
    <3>1. /\ "surface" \in Kinds /\ "clean lights" \in BgStages
          /\ "clean surfaces" \notin {"surface", "stored"}
          /\ "clean lights" \notin {"surface", "stored"}
      BY DEF Kinds, BgStages
    <3> QED BY ONLY CacheInv, <2>2, <3>1, CleanKeeps
  <2>3. CASE Clean("light", "clean lights", "clean heights")
    <3>1. /\ "light" \in Kinds /\ "clean heights" \in BgStages
          /\ "clean lights" \notin {"surface", "stored"}
          /\ "clean heights" \notin {"surface", "stored"}
      BY DEF Kinds, BgStages
    <3> QED BY ONLY CacheInv, <2>3, <3>1, CleanKeeps
  <2>4. CASE CleanHeights
    BY <2>4, CleanHeightsKeeps
  <2> QED BY <1>4, <2>1, <2>2, <2>3, <2>4 DEF Cleanup
<1> QED BY <1>1, <1>2, <1>3, <1>4 DEF CacheNext

\* The inductive invariant of the chunk cache: every cached value is the stored
\* one, and the update that is under way has its two records in the store.
THEOREM CacheInvariant == CacheSpec => []CacheInv
<1>1. ASSUME CacheInit PROVE CacheInv
  <2>1. StoresTyped /\ ThreadsTyped
    BY <1>1 DEF CacheInit, StoresTyped, ThreadsTyped, Polling, NoLook, BgStages
  <2>2. CachesAgree
    <3>1. /\ EmptyCache \in Caches(Chunks, Versions) /\ EmptyCache \in Caches(Columns, Versions)
          /\ DOMAIN EmptyCache.list = {}
      BY EmptyIsCache DEF EmptyCache
    <3> QED BY <1>1, <3>1 DEF CacheInit, CachesAgree, Agrees
  <2>3. LookIsStored /\ UpdateIsStored /\ HeldAreAlive
    BY <1>1 DEF CacheInit, LookIsStored, UpdateIsStored, HeldAreAlive, Polling, NoLook, Readers
  <2> QED BY <2>1, <2>2, <2>3 DEF CacheInv
<1>2. CacheInv /\ [CacheNext]_chunkVars => CacheInv'
  BY CacheStepKeepsInv
<1> QED BY <1>1, <1>2, PTL DEF CacheSpec

\* A reader of the chunk cache sees the last stored version, for any places,
\* versions and limits, and finds what it was told is available.
THEOREM CacheShowsStore == CacheSpec => []CachedIsStored
<1>1. CacheInv => CachedIsStored
  <2> SUFFICES ASSUME CacheInv PROVE CachedIsStored
    OBVIOUS
  <2>1. ASSUME NEW kind \in Kinds, NEW p \in Chunks, Has(cache[kind], p)
        PROVE  Value(cache[kind], p) = store[kind][p]
    <3>1. cache[kind] \in Caches(Chunks, Versions) /\ Agrees(cache[kind], store[kind])
      BY DEF CacheInv, CachesAgree
    <3> QED BY <2>1, <3>1, ValueAgrees DEF Has
  <2>2. ASSUME NEW x \in Columns, Has(heights, x) PROVE Value(heights, x) = heightStore[x]
    <3>1. heights \in Caches(Columns, Versions) /\ Agrees(heights, heightStore)
      BY DEF CacheInv, CachesAgree
    <3> QED BY <2>2, <3>1, ValueAgrees DEF Has
  <2>3. \A kind \in render.kinds : store[kind][render.chunk] # Nothing
    BY DEF CacheInv, LookIsStored
  <2> QED BY <2>1, <2>2, <2>3 DEF CachedIsStored
<1> QED BY <1>1, CacheInvariant, PTL

\* What surface_update() hands to the scene is the surface and the light map of
\* this update, by references no other call has made stale.
THEOREM SceneGetsUpdate == CacheSpec => []UpdateReachesScene
<1>1. CacheInv => UpdateReachesScene
  <2> SUFFICES ASSUME CacheInv PROVE UpdateReachesScene
    OBVIOUS
  <2>1. ASSUME NEW r \in held["background"]
        PROVE  Has(cache[r[1]], r[2]) /\ Value(cache[r[1]], r[2]) = bg.version
    <3>1. r[1] \in Kinds /\ r[2] \in Chunks /\ bg.at = "stored"
      BY Rest
    <3>2. r[2] = bg.chunk /\ Has(cache[r[1]], r[2])
      BY DEF CacheInv, HeldAreAlive
    <3>3. store[r[1]][bg.chunk] = bg.version
      BY <3>1 DEF CacheInv, UpdateIsStored, Kinds
    <3>4. cache[r[1]] \in Caches(Chunks, Versions) /\ Agrees(cache[r[1]], store[r[1]])
      BY <3>1 DEF CacheInv, CachesAgree
    <3>5. Value(cache[r[1]], r[2]) = store[r[1]][r[2]]
      BY <3>2, <3>4, ValueAgrees DEF Has
    <3> QED BY <3>2, <3>3, <3>5
  <2>2. dangling["background"] = {}
    BY DEF CacheInv, HeldAreAlive
  <2> QED BY <2>1, <2>2 DEF UpdateReachesScene
<1> QED BY <1>1, CacheInvariant, PTL

-----------------------------------------------------------------------------
(***************************************************************************)
(* Proofs about DistanceMap, for any chunks and radii.                     *)
(*                                                                         *)
(* That the shells are enough for the sphere is arithmetic: a sum of three *)
(* numbers squared is at most three times the sum of their squares, and    *)
(* 1.7321 is more than the square root of three.                           *)
(***************************************************************************)

MapInv == MapTypeOK /\ \A i \in DOMAIN data : \A p \in data[i] : IndexOf(p) = i

-----------------------------------------------------------------------------

LEMMA SquareGrows ==
    ASSUME NEW a \in Nat, NEW b \in Nat, a <= b PROVE a * a <= b * b
<1>1. a * a <= a * b
  OBVIOUS
<1>2. a * b <= b * b
  OBVIOUS
<1> QED BY <1>1, <1>2

LEMMA SumOfThreeSquared ==
    ASSUME NEW x \in Int, NEW y \in Int, NEW z \in Int
    PROVE  (x + y + z) * (x + y + z) <= 3 * (x * x + y * y + z * z)
<1>1. (x - y) * (x - y) >= 0 /\ (y - z) * (y - z) >= 0 /\ (x - z) * (x - z) >= 0
  OBVIOUS
<1>2. 3 * (x * x + y * y + z * z) - (x + y + z) * (x + y + z)
         = (x - y) * (x - y) + (y - z) * (y - z) + (x - z) * (x - z)
  OBVIOUS
<1> QED BY <1>1, <1>2

\* ceil(1.7321 * radius), in whole numbers.
LEMMA OctahedronIsCeiling ==
    ASSUME NEW r \in Nat
    PROVE  /\ Octahedron(r) \in Nat
           /\ 10000 * Octahedron(r) >= 17321 * r
BY DEF Octahedron

\* The octahedron holds the sphere that it is sized for.
LEMMA SphereFits ==
    ASSUME NEW r \in Nat \ {0}, NEW x \in Nat, NEW y \in Nat, NEW z \in Nat,
           x * x + y * y + z * z <= r * r
    PROVE  x + y + z < Octahedron(r)
<1> DEFINE s == x + y + z
           n == Octahedron(r)
<1> SUFFICES ASSUME n <= s PROVE FALSE
  BY OctahedronIsCeiling
<1>1. n \in Nat /\ 10000 * n >= 17321 * r
  BY OctahedronIsCeiling
<1> HIDE DEF n
<1>2. s * s <= 3 * (r * r)
  BY SumOfThreeSquared
<1>3. n * n <= s * s
  BY <1>1, SquareGrows
<1>4. (17321 * r) * (17321 * r) <= (10000 * n) * (10000 * n)
  BY <1>1, SquareGrows
<1>5. 300017041 * (r * r) <= 100000000 * (n * n)
  BY <1>1, <1>4
<1>6. r * r > 0
  OBVIOUS
<1> DEFINE rr == r * r
           nn == n * n
<1>7. rr \in Nat /\ nn \in Nat /\ rr > 0 /\ 300017041 * rr <= 100000000 * nn
      /\ nn <= 3 * rr
  BY <1>1, <1>2, <1>3, <1>5, <1>6
<1> HIDE DEF rr, nn
<1> QED BY <1>7

-----------------------------------------------------------------------------
(***************************************************************************)
(* The map.                                                                *)
(***************************************************************************)

LEMMA DiffIsNatural ==
    ASSUME NEW p \in Positions, NEW q \in Positions
    PROVE  /\ Diff(p, q, 1) \in Nat /\ Diff(p, q, 2) \in Nat
           /\ Diff(p, q, 3) \in Nat
<1>1. p \in Int \X Int \X Int /\ q \in Int \X Int \X Int
  BY MapConstants
<1>2. p[1] \in Int /\ p[2] \in Int /\ p[3] \in Int
  BY <1>1
<1>3. q[1] \in Int /\ q[2] \in Int /\ q[3] \in Int
  BY <1>1
<1> QED BY <1>2, <1>3 DEF Diff, Abs

\* The shell of what is in the sphere is one of the octahedron's.
LEMMA ShellIsThere ==
    ASSUME NEW p \in Positions, NEW center \in Positions, NEW r \in Radii,
           InSphere(p, center, r)
    PROVE  ManhattanDistance(p, center) \in ShellsOf(r)
<1> DEFINE x == Diff(p, center, 1)
           y == Diff(p, center, 2)
           z == Diff(p, center, 3)
<1>1. x \in Nat /\ y \in Nat /\ z \in Nat
  BY DiffIsNatural
<1>2. r \in Nat \ {0}
  BY MapConstants
<1>3. x * x + y * y + z * z <= r * r
  BY DEF InSphere, SquaredDistance
<1>4. x + y + z = ManhattanDistance(p, center)
  BY DEF ManhattanDistance
<1>5. Octahedron(r) \in Nat
  BY <1>2, OctahedronIsCeiling
<1> HIDE DEF x, y, z
<1>6. x + y + z < Octahedron(r)
  BY <1>1, <1>2, <1>3, SphereFits
<1>7. x + y + z \in 0 .. Octahedron(r) - 1
  BY <1>1, <1>5, <1>6
<1> QED BY <1>4, <1>7 DEF ShellsOf

\* More radius, no fewer shells.
LEMMA ShellsGrow ==
    ASSUME NEW r \in Nat, NEW s \in Nat, r <= s
    PROVE  ShellsOf(r) \subseteq ShellsOf(s)
<1>1. Octahedron(r) <= Octahedron(s) /\ Octahedron(r) \in Int
      /\ Octahedron(s) \in Int
  BY DEF Octahedron
<1> QED BY <1>1 DEF ShellsOf

LEMMA ContentIsPositions ==
    ASSUME MapTypeOK PROVE Content \subseteq Positions
BY DEF MapTypeOK, Content

\* The inductive invariant.
THEOREM MapInvariant == MapSpec => []MapInv
<1>1. MapInit => MapInv
  BY DEF MapInit, MapInv, MapTypeOK
<1>2. MapInv /\ [MapNext]_mapVars => MapInv'
  <2> SUFFICES ASSUME MapInv, [MapNext]_mapVars PROVE MapInv'
    OBVIOUS
  <2> USE DEF MapInv
  <2>0. MapTypeOK
    OBVIOUS
  <2>1. ASSUME NEW p \in Positions, SetChunk(p) PROVE MapInv'
    <3>1. data' \in [ShellsOf(viewDist) -> SUBSET Positions]
      BY <2>1 DEF SetChunk, MapTypeOK
    <3>2. MapTypeOK'
      BY <2>1, <3>1 DEF SetChunk, MapTypeOK
    <3>3. \A i \in DOMAIN data' : \A q \in data'[i] : IndexOf(q)' = i
      BY <2>1 DEF SetChunk, MapTypeOK, IndexOf
    <3> QED BY <3>2, <3>3
  <2>2. ASSUME NEW p \in Positions, RemoveChunk(p) PROVE MapInv'
    <3>1. data' \in [ShellsOf(viewDist) -> SUBSET Positions]
      BY <2>2 DEF RemoveChunk, MapTypeOK
    <3>2. MapTypeOK'
      BY <2>2, <3>1 DEF RemoveChunk, MapTypeOK
    <3>3. \A i \in DOMAIN data' : \A q \in data'[i] : IndexOf(q)' = i
      BY <2>2 DEF RemoveChunk, MapTypeOK, IndexOf
    <3> QED BY <3>2, <3>3
  <2>3. ASSUME NEW center \in Positions, Center(center) PROVE MapInv'
    <3> DEFINE kept == {p \in Content : InSphere(p, center, viewDist)}
    <3>1. data' = SortedBy(center, kept) /\ told' = told \ (Content \ kept)
      BY <2>3 DEF Center, TellDropped
    <3>2. kept \subseteq Positions
      BY ContentIsPositions
    <3> HIDE DEF kept
    <3>3. data' \in [ShellsOf(viewDist) -> SUBSET Positions]
      BY <3>1, <3>2 DEF SortedBy
    <3>4. MapTypeOK'
      BY <2>3, <3>1, <3>3 DEF Center, MapTypeOK
    <3>5. \A i \in DOMAIN data' : \A q \in data'[i] : IndexOf(q)' = i
      BY <2>3, <3>1 DEF Center, SortedBy, IndexOf
    <3> QED BY <3>4, <3>5
  <2>4. ASSUME NEW radius \in Radii, Grow(radius) PROVE MapInv'
    <3>1. data' \in [ShellsOf(radius) -> SUBSET Positions]
      BY <2>4 DEF Grow, MapTypeOK
    <3>2. MapTypeOK'
      BY <2>4, <3>1 DEF Grow, MapTypeOK
    <3>3. \A i \in DOMAIN data' : \A q \in data'[i] : IndexOf(q)' = i
      BY <2>4 DEF Grow, MapTypeOK, IndexOf
    <3> QED BY <3>2, <3>3
  <2>5. ASSUME NEW radius \in Radii, Shrink(radius) PROVE MapInv'
    <3>1. ShellsOf(radius) \subseteq ShellsOf(viewDist)
      <4>1. radius \in Nat /\ viewDist \in Nat /\ radius <= viewDist
        BY <2>5, MapConstants DEF Shrink, MapTypeOK
      <4> QED BY <4>1, ShellsGrow
    <3>2. PICK stays \in SUBSET {p \in Content : ~InSphere(p, pos, radius)} :
             data' = [i \in ShellsOf(radius) |->
                        {p \in data[i] : InSphere(p, pos, radius) \/ p \in stays}]
      BY <2>5 DEF Shrink
    <3>3. data' \in [ShellsOf(radius) -> SUBSET Positions]
      BY <3>1, <3>2 DEF MapTypeOK
    <3>4. MapTypeOK'
      BY <2>5, <3>3 DEF Shrink, MapTypeOK
    <3>5. \A i \in DOMAIN data' : \A q \in data'[i] : IndexOf(q)' = i
      BY <2>5, <3>1, <3>2 DEF Shrink, MapTypeOK, IndexOf
    <3> QED BY <3>4, <3>5
  <2>6. ASSUME UNCHANGED mapVars PROVE MapInv'
    BY <2>6 DEF mapVars, MapTypeOK, IndexOf
  <2> QED BY <2>1, <2>2, <2>3, <2>4, <2>5, <2>6 DEF MapNext
<1> QED BY <1>1, <1>2, PTL DEF MapSpec

\* Whatever has moved, every chunk is in the shell where it is looked for, and
\* there is a shell for every chunk in view: index() never fails its assertion.
THEOREM ShellsHold == MapSpec => []InItsShell
<1>1. MapInv => InItsShell
  <2> SUFFICES ASSUME MapInv PROVE InItsShell
    OBVIOUS
  <2>1. ASSUME NEW p \in Positions, IsInside(p) PROVE IndexOf(p) \in DOMAIN data
    BY <2>1, ShellIsThere DEF MapInv, MapTypeOK, IsInside, IndexOf
  <2> QED BY <2>1 DEF InItsShell, MapInv
<1> QED BY <1>1, MapInvariant, PTL

\* A chunk that is in view before and after a move stays in the map, and a
\* change of the radius loses none in the view.
THEOREM ViewIsKept == MapSpec => KeptInView
<1>1. ASSUME MapInv, MapInv', [MapNext]_mapVars, NEW p \in Positions,
             HasChunk(p), IsInside(p)', ~RemoveChunk(p)
      PROVE  HasChunk(p)'
  <2> USE <1>1
  <2>0. IndexOf(p) \in ShellsOf(viewDist) /\ IsInside(p) /\ p \in data[IndexOf(p)]
    BY ShellIsThere DEF HasChunk, IsInside, IndexOf, MapInv, MapTypeOK
  <2>1. ASSUME NEW q \in Positions, SetChunk(q) PROVE p \in data'[IndexOf(p)']
    BY <2>0, <2>1 DEF SetChunk, MapInv, MapTypeOK, IndexOf
  <2>2. ASSUME NEW q \in Positions, RemoveChunk(q) PROVE p \in data'[IndexOf(p)']
    <3>1. q # p
      BY <2>2
    <3> QED BY <2>0, <2>2, <3>1 DEF RemoveChunk, MapInv, MapTypeOK, IndexOf
  <2>3. ASSUME NEW center \in Positions, Center(center)
        PROVE  p \in data'[IndexOf(p)']
    <3>1. p \in Content
      BY <2>0 DEF Content, MapInv, MapTypeOK
    <3>2. InSphere(p, center, viewDist) /\ IndexOf(p)' = ManhattanDistance(p, center)
      BY <2>3 DEF IsInside, Center, IndexOf
    <3>3. ManhattanDistance(p, center) \in ShellsOf(viewDist)
      BY <3>2, ShellIsThere DEF MapInv, MapTypeOK
    <3> QED BY <2>3, <3>1, <3>2, <3>3 DEF Center, SortedBy
  <2>4. ASSUME NEW radius \in Radii, Grow(radius) PROVE p \in data'[IndexOf(p)']
    <3>1. ShellsOf(viewDist) \subseteq ShellsOf(radius)
      <4>1. radius \in Nat /\ viewDist \in Nat /\ viewDist <= radius
        BY <2>4, MapConstants DEF Grow, MapInv, MapTypeOK
      <4> QED BY <4>1, ShellsGrow
    <3> QED BY <2>0, <2>4, <3>1 DEF Grow, MapInv, MapTypeOK, IndexOf
  <2>5. ASSUME NEW radius \in Radii, Shrink(radius) PROVE p \in data'[IndexOf(p)']
    <3>1. InSphere(p, pos, radius) /\ IndexOf(p)' = IndexOf(p)
      BY <2>5 DEF IsInside, Shrink, IndexOf
    <3>2. IndexOf(p) \in ShellsOf(radius)
      BY <3>1, ShellIsThere DEF IndexOf, MapInv, MapTypeOK
    <3> QED BY <2>0, <2>5, <3>1, <3>2 DEF Shrink
  <2>6. ASSUME UNCHANGED mapVars PROVE p \in data'[IndexOf(p)']
    BY <2>0, <2>6 DEF mapVars, IndexOf
  <2>7. p \in data'[IndexOf(p)']
    BY <2>1, <2>2, <2>3, <2>4, <2>5, <2>6 DEF MapNext
  <2> QED BY <2>7 DEF HasChunk
<1>2. MapInv /\ MapInv' /\ [MapNext]_mapVars
        => [\A p \in Positions :
               HasChunk(p) /\ IsInside(p)' => HasChunk(p)' \/ RemoveChunk(p)]_mapVars
  BY <1>1
<1> QED BY <1>2, MapInvariant, PTL DEF MapSpec, KeptInView

-----------------------------------------------------------------------------

\* As long as the radius has not got smaller, the map and who listens to it
\* have the same chunks, all of them in view.
KnownInv == shrinks = 0 => told = Content /\ \A p \in told : IsInside(p)

LEMMA InContent ==
    ASSUME MapInv, NEW p
    PROVE  p \in Content <=> IndexOf(p) \in ShellsOf(viewDist) /\ p \in data[IndexOf(p)]
BY DEF MapInv, MapTypeOK, Content

LEMMA KnownStep ==
    ASSUME MapInv, MapInv', KnownInv, [MapNext]_mapVars
    PROVE  KnownInv'
<1>0. viewDist \in Radii /\ pos \in Positions /\ told \subseteq Positions /\ shrinks \in Nat
      /\ data \in [ShellsOf(viewDist) -> SUBSET Positions]
  BY DEF MapInv, MapTypeOK
<1>1. ASSUME NEW p \in Positions, SetChunk(p) PROVE KnownInv'
  <2>1. IndexOf(p) \in ShellsOf(viewDist)
    BY <1>0, <1>1, ShellIsThere DEF SetChunk, IsInside, IndexOf
  <2>2. Content' = Content \cup {p}
    BY <1>0, <1>1, <2>1 DEF SetChunk, Content
  <2> QED BY <1>1, <2>2 DEF SetChunk, KnownInv, IsInside
<1>2. ASSUME NEW p \in Positions, RemoveChunk(p) PROVE KnownInv'
  <2>1. IndexOf(p) \in ShellsOf(viewDist)
    BY <1>0, <1>2, ShellIsThere DEF RemoveChunk, HasChunk, IsInside, IndexOf
  <2>2. \A i \in ShellsOf(viewDist) : p \in data[i] => i = IndexOf(p)
    BY DEF MapInv, MapTypeOK
  <2>3. Content' = Content \ {p}
    BY <1>0, <1>2, <2>1, <2>2 DEF RemoveChunk, Content
  <2> QED BY <1>2, <2>3 DEF RemoveChunk, KnownInv, IsInside
<1>3. ASSUME NEW center \in Positions, Center(center) PROVE KnownInv'
  <2> DEFINE kept == {p \in Content : InSphere(p, center, viewDist)}
  <2>1. /\ data' = SortedBy(center, kept) /\ told' = told \ (Content \ kept)
        /\ pos' = center /\ UNCHANGED <<viewDist, shrinks>>
    BY <1>3 DEF Center, TellDropped
  <2>2. \A p \in kept : p \in Content /\ p \in Positions /\ InSphere(p, center, viewDist)
    BY <1>0, ContentIsPositions DEF MapInv
  <2>3. kept \subseteq Content
    OBVIOUS
  <2> HIDE DEF kept
  <2>4. \A p \in kept : ManhattanDistance(p, center) \in ShellsOf(viewDist)
    BY <1>0, <2>2, ShellIsThere
  <2>5. Content' = kept
    BY <2>1, <2>4 DEF SortedBy, Content
  <2> QED BY <2>1, <2>2, <2>3, <2>5 DEF KnownInv, IsInside
<1>4. ASSUME NEW radius \in Radii, Grow(radius) PROVE KnownInv'
  <2>1. radius \in Nat /\ viewDist \in Nat /\ viewDist <= radius
    BY <1>0, <1>4, MapConstants DEF Grow
  <2>2. ShellsOf(viewDist) \subseteq ShellsOf(radius)
    BY <2>1, ShellsGrow
  <2>3. Content' = Content
    BY <1>0, <1>4, <2>2 DEF Grow, Content
  <2>4. viewDist * viewDist <= radius * radius
    BY <2>1, SquareGrows
  <2>5. ASSUME NEW p \in Positions, IsInside(p) PROVE IsInside(p)'
    <3> DEFINE d == SquaredDistance(p, pos)
               v == viewDist * viewDist
               r == radius * radius
    <3>1. d \in Int
      <4> DEFINE x == Diff(p, pos, 1)
                 y == Diff(p, pos, 2)
                 z == Diff(p, pos, 3)
      <4>1. x \in Nat /\ y \in Nat /\ z \in Nat
        BY <1>0, DiffIsNatural
      <4>2. d = x * x + y * y + z * z
        BY DEF SquaredDistance
      <4> HIDE DEF x, y, z, d
      <4> QED BY <4>1, <4>2
    <3>2. d <= v /\ v \in Int /\ r \in Int /\ v <= r
      BY <2>1, <2>4, <2>5 DEF IsInside, InSphere
    <3>3. IsInside(p)' <=> d <= r
      BY <1>4 DEF IsInside, InSphere, Grow
    <3> HIDE DEF d, v, r
    <3> QED BY <3>1, <3>2, <3>3
  <2> QED BY <1>0, <1>4, <2>3, <2>5 DEF Grow, KnownInv
<1>5. ASSUME NEW radius \in Radii, Shrink(radius) PROVE KnownInv'
  BY <1>0, <1>5 DEF Shrink, KnownInv
<1>6. ASSUME UNCHANGED mapVars PROVE KnownInv'
  BY <1>6 DEF mapVars, KnownInv, Content, IsInside
<1> QED BY <1>1, <1>2, <1>3, <1>4, <1>5, <1>6 DEF MapNext

\* Who listens to on_new and on_remove knows exactly the chunks of the map, and
\* all of them are in view, for any chunks and radii, after any moves and any
\* growth of the view.
THEOREM ListenersAreTold == MapSpec => []ListenersKnow
<1>1. MapInit => KnownInv
  BY DEF MapInit, KnownInv, Content
<1>2. MapInv /\ MapInv' /\ KnownInv /\ [MapNext]_mapVars => KnownInv'
  BY KnownStep
<1>3. ASSUME MapInv, KnownInv PROVE ListenersKnow
  BY <1>3, InContent DEF KnownInv, ListenersKnow, HasChunk
<1> QED BY <1>1, <1>2, <1>3, MapInvariant, PTL DEF MapSpec

-----------------------------------------------------------------------------
(***************************************************************************)
(* Proofs about GameStates, for any time to fade and number of exceptions. *)
(*                                                                         *)
(* That a game which is taken off the stack was stopped is shown backwards *)
(* from its end: it is done without having been stopped only while it      *)
(* waits for data; it is on top and waits for data only if the loading     *)
(* screen over it was ended by a key; and that key stops the game as well, *)
(* as long as the game has the mouse and the line for messages is closed.  *)
(***************************************************************************)

Menu == <<"menu">>
InGame == <<"menu", "game">>
Loading == <<"menu", "game", "loading">>

\* The loading screen and the game have what they need for escape to end both.
EscapeStops ==
    states = Loading \/ (states = InGame /\ ~loadingShown) => relative /\ ~input

\* A loading screen that is about to go leaves a game that goes on or ends.
NoneWaits ==
    states = Loading /\ "loading" \in done => stopped \/ ~waitingForData

\* A game without its loading screen goes only when it is stopped.
GoesOnlyStopped ==
    states = InGame /\ loadingShown /\ ~stopped
        => ~waitingForData /\ "game" \notin done

UpToNow == EscapeStops /\ NoneWaits /\ GoesOnlyStopped

StatesInv ==
    /\ throws \in Nat
    /\ LoadingHasGame
    /\ program = "running" /\ throws = 0 => states # <<>>
    /\ program = "running" /\ throws = 0 /\ ~meddled => UpToNow
    /\ LeavesStopped

-----------------------------------------------------------------------------

LEMMA Stacks ==
    /\ Len(Menu) = 1 /\ Menu[1] = "menu"
    /\ Len(InGame) = 2 /\ InGame[2] = "game"
    /\ Len(Loading) = 3 /\ Loading[3] = "loading"
    /\ Menu # <<>> /\ InGame # <<>> /\ Loading # <<>>
    /\ Menu # InGame /\ Menu # Loading /\ InGame # Loading
BY DEF Menu, InGame, Loading

LEMMA PoppedStacks ==
    SubSeq(InGame, 1, 1) = Menu /\ SubSeq(Loading, 1, 2) = InGame
<1>1. Menu \in Seq(States) /\ InGame \in Seq(States) /\ Loading \in Seq(States)
  BY DEF Menu, InGame, Loading, States
<1>2. ASSUME NEW s \in Seq(States), NEW n \in 0 .. Len(s)
      PROVE  /\ Len(SubSeq(s, 1, n)) = n
             /\ \A i \in 1 .. n : SubSeq(s, 1, n)[i] = s[i]
             /\ SubSeq(s, 1, n) \in Seq(States)
  OBVIOUS
<1>3. ASSUME NEW s \in Seq(States), NEW t \in Seq(States), Len(s) = Len(t),
             \A i \in 1 .. Len(t) : s[i] = t[i]
      PROVE  s = t
  BY <1>3
<1>4. SubSeq(InGame, 1, 1) = Menu
  <2>1. Len(InGame) = 2 /\ Len(Menu) = 1 /\ InGame[1] = "menu" /\ Menu[1] = "menu"
    BY DEF InGame, Menu
  <2> QED BY <2>1, <1>1, <1>2, <1>3
<1>5. SubSeq(Loading, 1, 2) = InGame
  <2>1. /\ Len(Loading) = 3 /\ Len(InGame) = 2
        /\ Loading[1] = "menu" /\ Loading[2] = "game"
        /\ InGame[1] = "menu" /\ InGame[2] = "game"
    BY DEF Loading, InGame
  <2> QED BY <2>1, <1>1, <1>2, <1>3
<1> QED BY <1>4, <1>5

LEMMA GrownStacks ==
    Append(Menu, "game") = InGame /\ Append(InGame, "loading") = Loading
<1>1. Menu \in Seq(States) /\ InGame \in Seq(States) /\ Loading \in Seq(States)
      /\ "game" \in States /\ "loading" \in States
  BY DEF Menu, InGame, Loading, States
<1>2. ASSUME NEW s \in Seq(States), NEW e \in States
      PROVE  /\ Len(Append(s, e)) = Len(s) + 1
             /\ \A i \in 1 .. Len(s) : Append(s, e)[i] = s[i]
             /\ Append(s, e)[Len(s) + 1] = e
             /\ Append(s, e) \in Seq(States)
  OBVIOUS
<1>3. ASSUME NEW s \in Seq(States), NEW t \in Seq(States), Len(s) = Len(t),
             \A i \in 1 .. Len(t) : s[i] = t[i]
      PROVE  s = t
  BY <1>3
<1>4. Append(Menu, "game") = InGame
  <2>1. /\ Len(InGame) = 2 /\ Len(Menu) = 1 /\ Menu[1] = "menu"
        /\ InGame[1] = "menu" /\ InGame[2] = "game"
    BY DEF InGame, Menu
  <2>2. /\ Len(Append(Menu, "game")) = 2 /\ Append(Menu, "game") \in Seq(States)
        /\ Append(Menu, "game")[1] = "menu" /\ Append(Menu, "game")[2] = "game"
    BY <2>1, <1>1, <1>2
  <2> QED BY <2>1, <2>2, <1>1, <1>3
<1>5. Append(InGame, "loading") = Loading
  <2> DEFINE longer == Append(InGame, "loading")
  <2>1. /\ Len(Loading) = 3 /\ Len(InGame) = 2
        /\ Loading[1] = "menu" /\ Loading[2] = "game" /\ Loading[3] = "loading"
        /\ InGame[1] = "menu" /\ InGame[2] = "game"
    BY DEF Loading, InGame
  <2>2. /\ Len(longer) = 3 /\ longer \in Seq(States)
        /\ longer[1] = "menu" /\ longer[2] = "game" /\ longer[3] = "loading"
    <3>1. /\ Len(longer) = Len(InGame) + 1 /\ longer[Len(InGame) + 1] = "loading"
          /\ longer \in Seq(States)
          /\ \A i \in 1 .. Len(InGame) : longer[i] = InGame[i]
      BY <1>1, <1>2, Zenon
    <3> HIDE DEF longer
    <3> QED BY <2>1, <3>1
  <2> QED BY <2>1, <2>2, <1>1, <1>3
<1> QED BY <1>4, <1>5

LEMMA FourStacks ==
    LoadingHasGame <=> states \in {<<>>, Menu, InGame, Loading}
BY DEF LoadingHasGame, Menu, InGame, Loading

\* What is on top of each.
LEMMA Tops ==
    /\ states = Menu => Top = "menu" /\ Len(states) = 1
    /\ states = InGame => Top = "game" /\ Len(states) = 2 /\ Popped = Menu
    /\ states = Loading => Top = "loading" /\ Len(states) = 3 /\ Popped = InGame
<1>1. states = Menu => Top = "menu" /\ Len(states) = 1
  BY Stacks DEF Top
<1>2. states = InGame => Top = "game" /\ Len(states) = 2
  BY Stacks DEF Top
<1>3. states = Loading => Top = "loading" /\ Len(states) = 3
  BY Stacks DEF Top
<1>4. ASSUME states = InGame PROVE Popped = Menu
  <2>1. Len(states) - 1 = 1
    BY <1>2, <1>4
  <2>2. Popped = SubSeq(InGame, 1, 1)
    BY <2>1, <1>4, Zenon DEF Popped
  <2> QED BY <2>2, PoppedStacks
<1>5. ASSUME states = Loading PROVE Popped = InGame
  <2>1. Len(states) - 1 = 2
    BY <1>3, <1>5
  <2>2. Popped = SubSeq(Loading, 1, 2)
    BY <2>1, <1>5, Zenon DEF Popped
  <2> QED BY <2>2, PoppedStacks
<1> QED BY <1>1, <1>2, <1>3, <1>4, <1>5

\* What a pop makes of each of them.
LEMMA Pops ==
    ASSUME PopState
    PROVE  /\ states = Menu => states' = <<>> /\ UNCHANGED program
           /\ states = InGame /\ stopped => states' = Menu /\ UNCHANGED program
           /\ states = InGame /\ ~stopped => program' = "stuck" /\ UNCHANGED states
           /\ states = Loading => /\ states' = InGame
                                  /\ done' = (done \ {"loading"}) \ {"game"}
                                  /\ UNCHANGED <<program, relative>>
<1>1. ASSUME states = Menu PROVE states' = <<>> /\ UNCHANGED program
  BY <1>1, Tops DEF PopState
<1>2. ASSUME states = InGame, stopped PROVE states' = Menu /\ UNCHANGED program
  <2>1. Expose(Popped, done \ {"game"}) /\ UNCHANGED program
    BY <1>2, Tops DEF PopState
  <2> QED BY <1>2, <2>1, Tops DEF Expose
<1>3. ASSUME states = InGame, ~stopped
      PROVE  program' = "stuck" /\ UNCHANGED states
  BY <1>3, Tops DEF PopState
<1>4. ASSUME states = Loading
      PROVE  /\ states' = InGame
             /\ done' = (done \ {"loading"}) \ {"game"}
             /\ UNCHANGED <<program, relative>>
  <2>1. Expose(InGame, done \ {"loading"}) /\ UNCHANGED program
    BY <1>4, Tops DEF PopState
  <2>2. InGame[Len(InGame)] = "game"
    BY Stacks
  <2> QED BY <2>1, <2>2 DEF Expose
<1> QED BY <1>1, <1>2, <1>3, <1>4

-----------------------------------------------------------------------------
(***************************************************************************)
(* The steps.                                                              *)
(***************************************************************************)

LEMMA EventKeeps ==
    ASSUME StatesInv, NEW ev \in Events, Event(ev)
    PROVE  StatesInv'
<1>1. /\ UNCHANGED <<program, states, throws>>
      /\ LoadingHasGame' /\ throws' \in Nat
      /\ program' = "running" /\ (throws' = 0 => states' # <<>>)
  BY DEF StatesInv, Event, LoadingHasGame
<1>2. LeavesStopped'
  BY <1>1 DEF LeavesStopped
<1>3. ASSUME throws' = 0, ~meddled' PROVE UpToNow'
  <2>1. CASE Top = "menu"
    BY <1>1, <1>3, <2>1, Tops, Stacks
       DEF UpToNow, EscapeStops, NoneWaits, GoesOnlyStopped
  <2>2. CASE Top # "menu"
    <3>1. GameEvent(ev) /\ UNCHANGED <<loadingShown, waitingForData>>
      BY <2>2 DEF Event, GameEvent
    <3>2. ~meddled /\ UpToNow
      BY <1>1, <1>3, <3>1 DEF GameEvent, StatesInv, Event
    <3>3. /\ ~Stops(ev) => ("game" \in done' => "game" \in done)
          /\ Stops(ev) \/ stopped => stopped'
          /\ "loading" \in done' => "loading" \in done \/ ev = "escape"
          /\ ev \in {"escape up", "talk"} => Top # "loading" /\ loadingShown
          /\ ev # "escape up" => (relative => relative')
          /\ relative /\ ~input /\ ev # "talk" => ~input'
          /\ ev = "escape" /\ relative /\ ~input => Stops(ev)
      BY <3>1, <1>3, Zenon DEF GameEvent, Stops
    <3>4. EscapeStops'
      BY <1>1, <3>1, <3>2, <3>3, Tops DEF UpToNow, EscapeStops
    <3>5. NoneWaits'
      BY <1>1, <3>1, <3>2, <3>3, Tops DEF UpToNow, EscapeStops, NoneWaits
    <3>6. GoesOnlyStopped'
      BY <1>1, <3>1, <3>2, <3>3 DEF UpToNow, GoesOnlyStopped
    <3> QED BY <3>4, <3>5, <3>6 DEF UpToNow
  <2> QED BY <2>1, <2>2
<1> QED BY <1>1, <1>2, <1>3 DEF StatesInv

LEMMA FrameKeeps ==
    ASSUME StatesInv, Frame
    PROVE  StatesInv'
<1>1. /\ UNCHANGED <<program, states, throws, meddled, relative, gameVars>>
      /\ LoadingHasGame' /\ LeavesStopped' /\ throws' \in Nat
      /\ program' = "running" /\ (throws' = 0 => states' # <<>>)
  BY DEF StatesInv, Frame, LoadingHasGame, LeavesStopped
<1>2. ASSUME throws' = 0, ~meddled' PROVE UpToNow'
  <2>1. UpToNow
    BY <1>1, <1>2 DEF StatesInv
  <2>2. /\ "loading" \in done' => "loading" \in done \/ ~waitingForData
        /\ "game" \in done' => "game" \in done \/ waitingForData
    BY DEF Frame, Updated, UpdateDone, Fades
  <2> QED BY <1>1, <2>1, <2>2
          DEF gameVars, UpToNow, EscapeStops, NoneWaits, GoesOnlyStopped
<1> QED BY <1>1, <1>2 DEF StatesInv

LEMMA ThrowKeeps ==
    ASSUME StatesInv, Throw
    PROVE  StatesInv'
<1>1. throws' \in Nat /\ throws' > 0
  BY DEF StatesInv, Throw
<1>2. PopState
  BY DEF Throw
<1>3. LoadingHasGame'
  <2>1. states \in {<<>>, Menu, InGame, Loading}
    BY FourStacks DEF StatesInv
  <2>2. CASE states = <<>>
    <3>1. UNCHANGED states \/ states' = <<>> \/ states' = Popped
      BY <1>2 DEF PopState, Expose
    <3>2. Popped = <<>>
      BY <2>2 DEF Popped
    <3> QED BY <2>2, <3>1, <3>2 DEF LoadingHasGame
  <2>3. CASE states \in {Menu, InGame, Loading}
    <3>1. states' \in {<<>>, Menu, InGame, Loading}
      BY <2>3, <1>2, Pops
    <3> QED BY <3>1 DEF LoadingHasGame, Menu, InGame, Loading
  <2> QED BY <2>1, <2>2, <2>3
<1> QED BY <1>1, <1>3 DEF StatesInv, LeavesStopped

LEMMA TransitionKeeps ==
    ASSUME StatesInv, Transition
    PROVE  StatesInv'
<1>1. /\ throws' = throws /\ throws \in Nat
      /\ states \in {<<>>, Menu, InGame, Loading}
      /\ program = "running" /\ LeavesStopped
  BY FourStacks DEF StatesInv, Transition
<1>2. CASE states = <<>>
  BY <1>1, <1>2 DEF Transition, StatesInv, LeavesStopped, LoadingHasGame
<1>3. CASE states # <<>> /\ Top \notin done
  BY <1>1, <1>3 DEF Transition, StatesInv, LeavesStopped, LoadingHasGame, gameVars,
        UpToNow, EscapeStops, NoneWaits, GoesOnlyStopped
<1>4. CASE states # <<>> /\ MenuNext
  <2>1. states = Menu
    BY <1>1, <1>4, Tops DEF MenuNext
  <2>2. CASE exit
    BY <1>1, <1>4, <2>2 DEF MenuNext, StatesInv, LeavesStopped, LoadingHasGame
  <2>3. CASE ~exit
    <3>1. StartGame /\ UNCHANGED program
      BY <1>4, <2>3 DEF MenuNext
    <3>2. \/ /\ states' = InGame /\ relative' = TRUE /\ loadingShown' = FALSE
             /\ input' = FALSE
          \/ states' = Menu
      BY <2>1, <3>1, GrownStacks DEF StartGame, Expose
    <3>3. UpToNow' /\ states' # <<>>
      BY <3>2, Stacks DEF UpToNow, EscapeStops, NoneWaits, GoesOnlyStopped
    <3>4. LoadingHasGame'
      BY <3>2 DEF LoadingHasGame, Menu, InGame
    <3> QED BY <1>1, <3>1, <3>3, <3>4 DEF StatesInv, LeavesStopped
  <2> QED BY <2>2, <2>3
<1>5. CASE states # <<>> /\ GameNext /\ "game" \in done
  <2>1. states = InGame /\ UNCHANGED <<waitingForData, stopped, input, meddled>>
    BY <1>1, <1>5, Tops DEF GameNext
  <2>2. CASE loadingShown
    <3>1. PopState /\ UNCHANGED loadingShown
      BY <1>5, <2>2 DEF GameNext
    <3>2. CASE stopped
      <4>1. states' = Menu /\ UNCHANGED program
        BY <2>1, <3>1, <3>2, Pops
      <4>2. LoadingHasGame'
        BY <4>1 DEF LoadingHasGame, Menu
      <4> QED BY <1>1, <4>1, <4>2, Stacks
              DEF StatesInv, LeavesStopped, UpToNow, EscapeStops, NoneWaits,
                  GoesOnlyStopped
    <3>3. CASE ~stopped
      <4>1. program' = "stuck" /\ UNCHANGED states
        BY <2>1, <3>1, <3>3, Pops
      <4>2. throws > 0 \/ meddled
        BY <1>1, <1>5, <2>1, <2>2, <3>3
           DEF StatesInv, UpToNow, GoesOnlyStopped
      <4> QED BY <1>1, <2>1, <4>1, <4>2
              DEF StatesInv, LeavesStopped, LoadingHasGame
    <3> QED BY <3>2, <3>3
  <2>3. CASE ~loadingShown
    <3>1. Expose(LoadingOverGame, done) /\ UNCHANGED program
      BY <1>5, <2>3 DEF GameNext
    <3>2. LoadingOverGame = Loading
      BY <2>1, GrownStacks DEF LoadingOverGame
    <3>3. states' = Loading /\ done' = done \ {"loading"} /\ relative' = relative
      BY <3>1, <3>2, Stacks DEF Expose
    <3>4. throws' = 0 /\ ~meddled' => UpToNow'
      BY <1>1, <2>1, <2>3, <3>3, Stacks
         DEF StatesInv, UpToNow, EscapeStops, NoneWaits, GoesOnlyStopped
    <3>5. LoadingHasGame' /\ states' # <<>>
      BY <3>3, Stacks DEF LoadingHasGame, Loading
    <3> QED BY <1>1, <2>1, <3>1, <3>4, <3>5 DEF StatesInv, LeavesStopped
  <2> QED BY <2>2, <2>3
<1>6. CASE states # <<>> /\ LoadingNext /\ "loading" \in done
  <2>1. states = Loading /\ UNCHANGED <<gameVars, meddled>> /\ PopState
    BY <1>1, <1>6, Tops DEF LoadingNext
  <2>2. /\ states' = InGame /\ "game" \notin done'
        /\ UNCHANGED <<program, relative>>
    BY <2>1, Pops
  <2>3. throws' = 0 /\ ~meddled' => UpToNow'
    BY <1>1, <1>6, <2>1, <2>2, Stacks
       DEF gameVars, StatesInv, UpToNow, EscapeStops, NoneWaits, GoesOnlyStopped
  <2>4. LoadingHasGame' /\ states' # <<>>
    BY <2>2, Stacks DEF LoadingHasGame, InGame
  <2> QED BY <1>1, <2>1, <2>2, <2>3, <2>4 DEF StatesInv, LeavesStopped
<1>7. states = <<>> \/ Top \notin done
        \/ MenuNext \/ (GameNext /\ "game" \in done)
        \/ (LoadingNext /\ "loading" \in done)
  BY DEF Transition, GameNext, LoadingNext
<1> QED BY <1>2, <1>3, <1>4, <1>5, <1>6, <1>7

THEOREM StatesInvariant == StatesSafety => []StatesInv
<1>1. StatesInit => StatesInv
  BY Stacks DEF StatesInit, StatesInv, LoadingHasGame, LeavesStopped, UpToNow,
     EscapeStops, NoneWaits, GoesOnlyStopped, Menu, InGame, Loading
<1>2. StatesInv /\ [StatesNext]_stateVars => StatesInv'
  <2> SUFFICES ASSUME StatesInv, [StatesNext]_stateVars PROVE StatesInv'
    OBVIOUS
  <2>1. CASE \E ev \in Events : Event(ev)
    BY <2>1, EventKeeps
  <2>2. CASE EventsDone
    BY <2>2 DEF EventsDone, gameVars, StatesInv, LoadingHasGame, LeavesStopped,
       UpToNow, EscapeStops, NoneWaits, GoesOnlyStopped
  <2>3. CASE Frame
    BY <2>3, FrameKeeps
  <2>4. CASE Transition
    BY <2>4, TransitionKeeps
  <2>5. CASE Throw
    BY <2>5, ThrowKeeps
  <2>6. CASE Data
    BY <2>6 DEF Data, StatesInv, LoadingHasGame, LeavesStopped, UpToNow,
       EscapeStops, NoneWaits, GoesOnlyStopped
  <2>7. CASE UNCHANGED stateVars
    BY <2>7 DEF stateVars, gameVars, StatesInv, LoadingHasGame, LeavesStopped,
       UpToNow, EscapeStops, NoneWaits, GoesOnlyStopped
  <2> QED BY <2>1, <2>2, <2>3, <2>4, <2>5, <2>6, <2>7 DEF StatesNext, Turn
<1> QED BY <1>1, <1>2, PTL DEF StatesSafety

\* The loading screen's reference to a flag of the game is good: the game is
\* below it, whatever is thrown and in whatever order states are done.
THEOREM LoadingAlwaysHasGame == StatesSafety => []LoadingHasGame
<1>1. StatesInv => LoadingHasGame
  BY DEF StatesInv
<1> QED BY <1>1, StatesInvariant, PTL

\* The assertion that a game which leaves was stopped holds unless a frame has
\* thrown or the player has talked, or let go of the mouse, while loading.
THEOREM AlwaysLeavesStopped == StatesSafety => []LeavesStopped
<1>1. StatesInv => LeavesStopped
  BY DEF StatesInv
<1> QED BY <1>1, StatesInvariant, PTL

-----------------------------------------------------------------------------

\* The types, but for the stack, which LoadingHasGame says more about.
FlagsTyped ==
    /\ program \in {"running", "ended", "stuck", "undefined"}
    /\ phase \in {"events", "frame", "transition"}
    /\ done \subseteq States
    /\ exit \in BOOLEAN /\ loadingShown \in BOOLEAN /\ waitingForData \in BOOLEAN
    /\ stopped \in BOOLEAN /\ input \in BOOLEAN /\ relative \in BOOLEAN
    /\ meddled \in BOOLEAN
    /\ fade \in Nat /\ throws \in 0 .. MaxThrows

LEMMA PopKeepsTypes ==
    ASSUME FlagsTyped, PopState
    PROVE  /\ program' \in {"running", "ended", "stuck", "undefined"}
           /\ done' \subseteq States /\ relative' \in BOOLEAN
BY DEF FlagsTyped, PopState, Expose

LEMMA EventKeepsTypes ==
    ASSUME FlagsTyped, NEW ev, Event(ev)
    PROVE  FlagsTyped'
<1>1. CASE Top = "menu"
  BY <1>1 DEF FlagsTyped, Event, MenuEvent, gameVars, States
<1>2. CASE Top # "menu"
  BY <1>2 DEF FlagsTyped, Event, GameEvent, States
<1> QED BY <1>1, <1>2

LEMMA TransitionKeepsTypes ==
    ASSUME FlagsTyped, Transition
    PROVE  FlagsTyped'
<1>0. phase' = "events" /\ UNCHANGED <<exit, throws>>
  BY DEF Transition
<1>1. CASE MenuNext
  BY <1>0, <1>1 DEF FlagsTyped, MenuNext, StartGame, Expose, gameVars
<1>2. CASE GameNext /\ loadingShown
  BY <1>0, <1>2, PopKeepsTypes DEF FlagsTyped, GameNext
<1>3. CASE GameNext /\ ~loadingShown
  <2>1. /\ loadingShown' = TRUE /\ Expose(LoadingOverGame, done) /\ fade' = 0
        /\ UNCHANGED <<program, waitingForData, stopped, input, meddled>>
    BY <1>3 DEF GameNext
  <2>2. done' \subseteq States /\ relative' \in BOOLEAN
    BY <2>1 DEF FlagsTyped, Expose
  <2> QED BY <1>0, <2>1, <2>2 DEF FlagsTyped
<1>4. CASE LoadingNext
  BY <1>0, <1>4, PopKeepsTypes DEF FlagsTyped, LoadingNext, gameVars
<1>5. CASE /\ program' \in {"undefined", program}
           /\ UNCHANGED <<done, gameVars, relative, fade, meddled>>
  BY <1>0, <1>5 DEF FlagsTyped, gameVars
<1> QED BY <1>1, <1>2, <1>3, <1>4, <1>5 DEF Transition

LEMMA TypesKept == FlagsTyped /\ [StatesNext]_stateVars => FlagsTyped'
<1> SUFFICES ASSUME FlagsTyped, [StatesNext]_stateVars PROVE FlagsTyped'
  OBVIOUS
<1>1. CASE \E ev \in Events : Event(ev)
  BY <1>1, EventKeepsTypes
<1>2. CASE EventsDone
  BY <1>2 DEF FlagsTyped, EventsDone, gameVars
<1>3. CASE Frame
  <2>1. UpdateDone(Drawn) \subseteq States
    BY DEF UpdateDone, Fades, States
  <2> QED BY <1>3, <2>1 DEF FlagsTyped, Frame, Updated, gameVars
<1>4. CASE Transition
  BY <1>4, TransitionKeepsTypes
<1>5. CASE Throw
  <2>1. throws' \in 0 .. MaxThrows
    BY <1>5, StateConstants DEF FlagsTyped, Throw
  <2> QED BY <1>5, <2>1, PopKeepsTypes DEF FlagsTyped, Throw, gameVars
<1>6. CASE Data
  BY <1>6 DEF FlagsTyped, Data
<1>7. CASE UNCHANGED stateVars
  BY <1>7 DEF FlagsTyped, stateVars, gameVars
<1> QED BY <1>1, <1>2, <1>3, <1>4, <1>5, <1>6, <1>7 DEF StatesNext, Turn

\* Every variable of the client's states has its type.
THEOREM StatesTyped == StatesSafety => []StatesTypeOK
<1>1. StatesInit => FlagsTyped
  <2> SUFFICES ASSUME StatesInit PROVE FlagsTyped
    OBVIOUS
  <2>1. throws \in 0 .. MaxThrows /\ fade \in Nat
    BY StateConstants DEF StatesInit
  <2>2. /\ exit \in BOOLEAN /\ loadingShown \in BOOLEAN /\ waitingForData \in BOOLEAN
        /\ stopped \in BOOLEAN /\ input \in BOOLEAN /\ relative \in BOOLEAN
        /\ meddled \in BOOLEAN
    BY DEF StatesInit
  <2> QED BY <2>1, <2>2 DEF StatesInit, FlagsTyped
<1>2. StatesInv /\ FlagsTyped => StatesTypeOK
  <2> SUFFICES ASSUME LoadingHasGame, FlagsTyped PROVE StatesTypeOK
    BY DEF StatesInv
  <2>1. states \in Seq(States)
    <3>1. Menu \in Seq(States) /\ InGame \in Seq(States) /\ Loading \in Seq(States)
          /\ <<>> \in Seq(States)
      BY DEF Menu, InGame, Loading, States
    <3> QED BY <3>1, FourStacks
  <2> QED BY <2>1 DEF FlagsTyped, StatesTypeOK
<1> QED BY <1>1, <1>2, TypesKept, StatesInvariant, PTL DEF StatesSafety

-----------------------------------------------------------------------------
(***************************************************************************)
(* MCLibrary: the parts side by side.                                      *)
(***************************************************************************)

\* A behaviour of all parts is one of each: a step of one leaves the variables
\* of the others alone.
THEOREM PartsAsSpecified ==
    Spec => /\ PoolSafety /\ LruSpec /\ CacheSpec /\ MapSpec
            /\ StatesSafety /\ AreasSpec /\ TerrainSpec
<1>1. Init => /\ PoolInit /\ LruInit /\ CacheInit /\ MapInit
              /\ StatesInit /\ AreasInit /\ TerrainInit
  BY DEF Init
<1>2. [Next]_vars => /\ [PoolNext]_poolVars /\ [LruNext]_lruVars
                     /\ [CacheNext]_chunkVars /\ [MapNext]_mapVars
                     /\ [StatesNext]_stateVars /\ [AreasNext]_areaVars
                     /\ [TerrainNext]_terrainVars
  <2> SUFFICES ASSUME [Next]_vars
               PROVE  /\ [PoolNext]_poolVars /\ [LruNext]_lruVars
                      /\ [CacheNext]_chunkVars /\ [MapNext]_mapVars
                      /\ [StatesNext]_stateVars /\ [AreasNext]_areaVars
                      /\ [TerrainNext]_terrainVars
    OBVIOUS
  <2>1. CASE UNCHANGED vars
    <3>1. UNCHANGED <<poolVars, lruVars, chunkVars, mapVars, stateVars, areaVars,
                      terrainVars>>
      BY ONLY <2>1 DEF vars
    <3> QED BY ONLY <3>1
  <2>2. CASE Next
    BY ONLY <2>2 DEF Next, Step, CacheNext
  <2> QED BY <2>1, <2>2
<1> QED BY <1>1, <1>2, PTL DEF Spec, PoolSafety, LruSpec, CacheSpec, MapSpec,
           StatesSafety, AreasSpec, TerrainSpec

\* Every variable of every part has its type, for all values of the constants.
THEOREM PartsTyped == Spec => []TypeOK
<1>1. PoolSafety => []PoolTypeOK
  BY PoolTyped, PoolConstants
<1>2. LruInv => LruTypeOK
  <2> SUFFICES ASSUME LruInv PROVE LruTypeOK
    OBVIOUS
  <2>1. lru.list \in Seq(Pairs(Keys, Keys)) /\ lru.map \in SUBSET Keys /\ lru.size \in Nat
    BY DEF LruInv, Caches
  <2>2. history \in Seq([key : Keys])
    BY DEF LruInv
  <2>3. \A i \in DOMAIN lru.list : lru.list[i] \in Pairs(Keys, Keys)
    BY <2>1, ElementOfSeq, LenProperties
  <2>4. \A i \in DOMAIN history : history[i] \in [key : Keys]
    BY <2>2, ElementOfSeq, LenProperties
  <2> QED BY <2>1, <2>3, <2>4 DEF LruTypeOK, Pairs
<1>3. CacheInv => CacheTypeOK
  <2> SUFFICES ASSUME CacheInv PROVE CacheTypeOK
    OBVIOUS
  <2>1. ASSUME NEW K, NEW V, NEW c \in Caches(K, V), NEW i \in DOMAIN c.list
        PROVE  c.list[i] \in [key : K, value : V]
    <3>1. c.list \in Seq(Pairs(K, V))
      BY DEF Caches
    <3>2. c.list[i] \in Pairs(K, V)
      BY <3>1, ElementOfSeq, LenProperties
    <3> QED BY <3>2 DEF Pairs
  <2>2. cache \in [Kinds -> Caches(Chunks, Versions)] /\ heights \in Caches(Columns, Versions)
    BY DEF CacheInv, CachesAgree
  <2>3. \A c \in {cache[kind] : kind \in Kinds} :
           \A i \in DOMAIN c.list : c.list[i] \in [key : Chunks, value : Versions]
    BY <2>1, <2>2
  <2>4. \A i \in DOMAIN heights.list :
           heights.list[i] \in [key : Columns, value : Versions]
    BY <2>1, <2>2
  <2> QED BY <2>3, <2>4 DEF CacheInv, StoresTyped, ThreadsTyped, CacheTypeOK
<1>4. MapInv => MapTypeOK
  BY DEF MapInv
<1>5. AreaInv => AreasTypeOK
  BY DEF AreaInv
<1>6. TerrainInv => TerrainTypeOK
  BY DEF TerrainInv
<1>7. PoolTypeOK /\ LruTypeOK /\ CacheTypeOK /\ MapTypeOK /\ StatesTypeOK
        /\ AreasTypeOK /\ TerrainTypeOK => TypeOK
  BY DEF TypeOK
<1> QED BY <1>1, <1>2, <1>3, <1>4, <1>5, <1>6, <1>7, PartsAsSpecified, LruInvariant,
           CacheInvariant, MapInvariant, StatesTyped, AreaInvariant, TerrainInvariant, PTL
=============================================================================

------------------------ MODULE ServerThreadsProofs ------------------------
(***************************************************************************)
(* The threads of the server never wait for each other in a circle,        *)
(* whatever login scripts lock, as long as they keep to the order, and     *)
(* however long the queues become.                                         *)
(***************************************************************************)
EXTENDS ServerThreads, SequenceTheorems, TLAPS

\* The thread t holds the first depth[t] locks of its nest, and no others.
Holds(t, l) ==
    /\ work[t] # <<>>
    /\ \E i \in 1 .. depth[t] : Head(work[t])[i] = l

HeldInv ==
    /\ \A t \in Thread : depth[t] # 0 => work[t] # <<>>
    /\ \A t \in Thread : work[t] # <<>> => depth[t] <= Len(Head(work[t]))
    /\ \A t \in Thread : giving[t] => depth[t] # 0
    /\ \A t \in Thread, l \in Lock : owner[l] = t <=> Holds(t, l)

\* What has ended stays so: only the network thread hands tasks to the worker,
\* and the worker is not told to stop before the network thread has ended.
Quiet == {n \in Nests : \A i \in 1 .. Len(n) : n[i] # "pool"}

JoinInv ==
    /\ "network" \in ended => netpc = "ended"
    /\ stopPool => "network" \in ended
    /\ "worker" \in ended => stopPool /\ tasks = 0
    /\ \A t \in ended : work[t] = <<>>
    /\ \A t \in Thread : t # "network" => work[t] \in Seq(Quiet)

IInv == TypeOK /\ HeldInv /\ JoinInv

-----------------------------------------------------------------------------
(***************************************************************************)
(* Locks and nests.                                                        *)
(***************************************************************************)

\* The five locks have the ranks one to five.
LEMMA RankType == \A l \in Lock : Rank(l) \in 1 .. 5
BY DEF Lock, Rank

\* A nest takes locks, and no lock twice.
LEMMA NestOrder ==
    ASSUME NEW n \in Nests
    PROVE  /\ Len(n) \in Nat
           /\ \A i \in 1 .. Len(n) : n[i] \in Lock
           /\ \A i, j \in 1 .. Len(n) : i < j => Rank(n[i]) < Rank(n[j])
BY DEF Nests, InOrder

\* The nests that the code has take their locks in order.
LEMMA FixedNests ==
    /\ ReadWorld \in Nests /\ WriteWorld \in Nests
    /\ Send \in Nests /\ Enqueue \in Nests /\ Entities \in Nests
    /\ Step \in Nests /\ <<"jobs">> \in Nests
    /\ <<"entities", "enet">> \in Nests
BY DEF ReadWorld, WriteWorld, Send, Enqueue, Entities, Step, Nests, InOrder, Rank, Lock

\* Every handler is a sequence of nests.
LEMMA HandlersAreNests == Handlers \subseteq Seq(Nests)
<1>1. Login \subseteq Seq(Nests)
    <2> SUFFICES ASSUME NEW n \in LoginNests
                 PROVE  <<ReadWorld, Entities, Send, ReadWorld, Send, Enqueue,
                          Send, Entities, Send, n>> \in Seq(Nests)
        BY Zenon DEF Login, LoginCallbacks
    <2>1. n \in Nests BY LoginScripts
    <2> QED BY <2>1, FixedNests
<1>2. ReqChunks \cup Motion \cup ButtonPress \cup Disconnected \subseteq Seq(Nests)
    BY FixedNests DEF ReqChunks, Motion, ButtonPress, Disconnected
<1> QED BY <1>1, <1>2 DEF Handlers

\* The nest at hand is one of Nests.
LEMMA Present ==
    ASSUME TypeOK, NEW t \in Thread, work[t] # <<>>
    PROVE  Head(work[t]) \in Nests /\ Tail(work[t]) \in Seq(Nests)
BY HeadTailProperties DEF TypeOK

\* A thread that waits has locks left to take, all of a higher rank than the
\* ones it holds.
LEMMA WantsMore ==
    ASSUME TypeOK, HeldInv, NEW t \in Thread, Wanted(t) # None
    PROVE  /\ work[t] # <<>> /\ ~giving[t] /\ depth[t] \in Nat
           /\ depth[t] + 1 \in 1 .. Len(Head(work[t]))
           /\ Wanted(t) = Head(work[t])[depth[t] + 1]
           /\ Wanted(t) \in Lock
           /\ \A l \in Lock : Holds(t, l) => Rank(l) < Rank(Wanted(t))
<1>1. /\ work[t] # <<>> /\ ~giving[t] /\ depth[t] \in Nat
      /\ depth[t] # Len(Head(work[t]))
      /\ Wanted(t) = Head(work[t])[depth[t] + 1]
    BY DEF Wanted, Free, TypeOK
<1>2. Head(work[t]) \in Nests BY <1>1, Present
<1>3. depth[t] + 1 \in 1 .. Len(Head(work[t]))
    BY <1>1, <1>2, NestOrder DEF HeldInv
<1>4. Wanted(t) \in Lock BY <1>1, <1>2, <1>3, NestOrder
<1>5. \A l \in Lock : Holds(t, l) => Rank(l) < Rank(Wanted(t))
    <2> SUFFICES ASSUME NEW i \in 1 .. depth[t]
                 PROVE  Rank(Head(work[t])[i]) < Rank(Wanted(t))
        BY DEF Holds
    <2> DEFINE n == Head(work[t])
    <2>1. \A j, k \in 1 .. Len(n) : j < k => Rank(n[j]) < Rank(n[k])
        BY <1>2, NestOrder
    <2>2. i \in 1 .. Len(n) /\ i < depth[t] + 1 BY <1>1, <1>2, <1>3, NestOrder
    <2>3. Rank(n[i]) < Rank(n[depth[t] + 1]) BY <1>3, <2>1, <2>2
    <2> QED BY <1>1, <2>3, Zenon
<1> QED BY <1>1, <1>3, <1>4, <1>5

-----------------------------------------------------------------------------
(***************************************************************************)
(* Types.                                                                  *)
(***************************************************************************)

\* The parts of TypeOK that the critical sections, and the rest, can disturb.
SectionsTyped ==
    /\ owner \in [Lock -> Thread \cup {None}]
    /\ work \in [Thread -> Seq(Nests)]
    /\ depth \in [Thread -> Nat]
    /\ giving \in [Thread -> BOOLEAN]

LEMMA InitTyped == Init => TypeOK /\ HeldInv
<1> SUFFICES ASSUME Init PROVE TypeOK /\ HeldInv
    OBVIOUS
<1>1. TypeOK
    <2>1. SectionsTyped BY DEF Init, SectionsTyped
    <2>2. /\ netpc \in {"start", "poll", "drain", "ended"}
          /\ running \in BOOLEAN /\ quit \in BOOLEAN /\ stopPool \in BOOLEAN
          /\ mainpc \in MainSteps /\ ended \in SUBSET Thread
        BY DEF Init, MainSteps
    <2>3. jobs \in Seq(Jobs) /\ tasks \in Nat BY DEF Init
    <2> QED BY <2>1, <2>2, <2>3 DEF SectionsTyped, TypeOK
<1>2. HeldInv BY NoneIsNoThread DEF Init, HeldInv, Holds
<1> QED BY <1>1, <1>2

\* A lock is taken.
LEMMA TakeTyped ==
    ASSUME TypeOK, HeldInv, NEW t \in Thread, Take(t)
    PROVE  TypeOK'
<1>1. Wanted(t) \in Lock BY WantsMore DEF Take
<1>2. SectionsTyped' BY <1>1 DEF SectionsTyped, TypeOK, Take
<1> QED BY <1>2 DEF SectionsTyped, TypeOK, Take, control

\* A lock is given back.
LEMMA GiveTyped ==
    ASSUME TypeOK, HeldInv, NEW t \in Thread, Give(t)
    PROVE  TypeOK'
<1>1. work[t] # <<>> /\ depth[t] \in Nat /\ depth[t] # 0
    BY DEF Give, Free, TypeOK
<1>2. Head(work[t]) \in Nests /\ Tail(work[t]) \in Seq(Nests) BY <1>1, Present
<1>3. work' \in [Thread -> Seq(Nests)] BY <1>2 DEF Give, TypeOK
<1>4. depth' \in [Thread -> Nat] /\ giving' \in [Thread -> BOOLEAN]
    BY <1>1 DEF Give, TypeOK
<1>5. owner' \in [Lock -> Thread \cup {None}]
    <2> DEFINE l == Head(work[t])[depth[t]]
    <2>1. owner' = [owner EXCEPT ![l] = None] BY DEF Give
    <2> QED BY <2>1 DEF TypeOK
<1>6. jobs' \in Seq(Jobs) /\ tasks' \in Nat BY DEF Give, TypeOK, Jobs
<1> QED BY <1>3, <1>4, <1>5, <1>6 DEF Give, TypeOK

\* New work is a sequence of nests.
LEMMA DoesTyped ==
    ASSUME TypeOK, NEW t \in Thread, NEW nests \in Seq(Nests), Does(t, nests)
    PROVE  SectionsTyped'
BY DEF TypeOK, SectionsTyped, Does

\* The threads that do something: what it is, each a sequence of nests.
LEMMA WorkTyped ==
    /\ NetworkPoll => \E n \in Seq(Nests) : Does("network", n)
    /\ NetworkJob => \E n \in Seq(Nests) : Does("network", n)
    /\ Physics => \E n \in Seq(Nests) : Does("physics", n)
    /\ WorkerTask => \E n \in Seq(Nests) : Does("worker", n)
<1>1. ASSUME NetworkPoll PROVE \E n \in Seq(Nests) : Does("network", n)
    <2>1. PICK h \in Handlers, b \in {<<>>, <<<<"entities", "enet">>>>} :
              Does("network", <<Send>> \o h \o b)
        BY <1>1 DEF NetworkPoll
    <2>2. h \in Seq(Nests) /\ b \in Seq(Nests) /\ <<Send>> \in Seq(Nests)
        <3>1. b = <<>> \/ b = <<<<"entities", "enet">>>> OBVIOUS
        <3>2. <<<<"entities", "enet">>>> \in Seq(Nests) /\ <<Send>> \in Seq(Nests)
            BY FixedNests
        <3>3. <<>> \in Seq(Nests) OBVIOUS
        <3>4. b \in Seq(Nests) BY <3>1, <3>2, <3>3, Zenon
        <3> QED BY <3>2, <3>4, HandlersAreNests, Zenon
    <2>3. <<Send>> \o h \o b \in Seq(Nests) BY <2>2, ConcatProperties
    <2> QED BY <2>1, <2>3
<1>2. <<ReadWorld>> \in Seq(Nests) /\ <<Step>> \in Seq(Nests)
      /\ <<ReadWorld, <<"jobs">>>> \in Seq(Nests)
    BY FixedNests
<1> QED BY <1>1, <1>2 DEF NetworkJob, Physics, WorkerTask

LEMMA TypeStep ==
    ASSUME TypeOK, HeldInv, [Next]_vars
    PROVE  TypeOK'
<1>1. CASE \E t \in Thread : Section(t)
    BY <1>1, TakeTyped, GiveTyped DEF Section
<1>2. CASE NetworkStart BY <1>2 DEF NetworkStart, TypeOK, threads
<1>3. CASE NetworkPoll
    <2>1. SectionsTyped' BY <1>3, WorkTyped, DoesTyped DEF Thread
    <2> QED BY <1>3, <2>1 DEF NetworkPoll, SectionsTyped, TypeOK
<1>4. CASE NetworkJob
    <2>1. SectionsTyped' BY <1>4, WorkTyped, DoesTyped DEF Thread
    <2>2. jobs' \in Seq(Jobs) BY <1>4, HeadTailProperties DEF NetworkJob, TypeOK
    <2> QED BY <1>4, <2>1, <2>2 DEF NetworkJob, SectionsTyped, TypeOK
<1>5. CASE NetworkNoJob BY <1>5 DEF NetworkNoJob, TypeOK, threads
<1>6. CASE NetworkQuit
    <2>1. jobs' \in Seq(Jobs) BY <1>6, HeadTailProperties DEF NetworkQuit, TypeOK
    <2> QED BY <1>6, <2>1 DEF NetworkQuit, NotRunning, TypeOK, threads, Thread
<1>7. CASE Physics
    <2>1. SectionsTyped' BY <1>7, WorkTyped, DoesTyped DEF Thread
    <2> QED BY <1>7, <2>1 DEF Physics, SectionsTyped, TypeOK, control
<1>8. CASE PhysicsEnd BY <1>8 DEF PhysicsEnd, TypeOK, threads, Thread
<1>9. CASE WorkerTask
    <2>1. SectionsTyped' BY <1>9, WorkTyped, DoesTyped DEF Thread
    <2> QED BY <1>9, <2>1 DEF WorkerTask, SectionsTyped, TypeOK
<1>10. CASE WorkerEnd BY <1>10 DEF WorkerEnd, TypeOK, threads, Thread
<1>11. CASE Signalled BY <1>11 DEF Signalled, MainAt, MainSteps, TypeOK, threads
<1>12. CASE Shutdown
    <2>1. CASE Stop BY <2>1 DEF Stop, MainAt, PushQuit, MainSteps, Jobs, TypeOK, threads
    <2>2. CASE StopAgain
        BY <2>2 DEF StopAgain, MainAt, PushQuit, MainSteps, Jobs, TypeOK, threads
    <2>3. CASE Stopped \/ JoinPhysics \/ JoinNetwork \/ JoinWorker
        BY <2>3 DEF Stopped, JoinPhysics, JoinNetwork, JoinWorker, MainAt,
                    MainSteps, TypeOK, threads
    <2> QED BY <1>12, <2>1, <2>2, <2>3 DEF Shutdown
<1>13. CASE UNCHANGED vars BY <1>13 DEF TypeOK, vars, threads, control
<1> QED BY <1>1, <1>2, <1>3, <1>4, <1>5, <1>6, <1>7, <1>8, <1>9, <1>10, <1>11,
           <1>12, <1>13 DEF Next, Network, Worker

-----------------------------------------------------------------------------
(***************************************************************************)
(* Who holds what.                                                         *)
(***************************************************************************)

LEMMA TakeHeld ==
    ASSUME TypeOK, HeldInv, NEW t \in Thread, Take(t)
    PROVE  HeldInv'
<1> DEFINE w == Wanted(t)  n == Head(work[t])
<1>1. /\ work[t] # <<>> /\ ~giving[t] /\ depth[t] \in Nat
      /\ depth[t] + 1 \in 1 .. Len(n) /\ w = n[depth[t] + 1] /\ w \in Lock
    BY WantsMore DEF Take
<1>2. /\ owner' = [owner EXCEPT ![w] = t] /\ owner[w] = None
      /\ depth' = [depth EXCEPT ![t] = depth[t] + 1]
      /\ work' = work /\ giving' = giving
    BY DEF Take
<1> HIDE DEF w
<1>3. \A u \in Thread : u # t => depth'[u] = depth[u]
    BY <1>2 DEF TypeOK
<1>4. depth'[t] = depth[t] + 1 BY <1>2 DEF TypeOK
<1>5. \A l \in Lock : owner'[l] = IF l = w THEN t ELSE owner[l]
    BY <1>1, <1>2 DEF TypeOK
<1>6. ASSUME NEW u \in Thread, NEW l \in Lock
      PROVE  owner'[l] = u <=> Holds(u, l)'
    <2>1. CASE u # t
        <3>1. Holds(u, l)' <=> Holds(u, l) BY <1>2, <1>3, <2>1 DEF Holds
        <3>2. owner[l] = u <=> Holds(u, l) BY DEF HeldInv
        <3> QED BY <1>2, <1>5, <2>1, <3>1, <3>2, NoneIsNoThread
    <2>2. CASE u = t
        <3>1. Holds(t, l)' <=> Holds(t, l) \/ l = w
            BY <1>1, <1>2, <1>4 DEF Holds
        <3>2. owner[l] = t <=> Holds(t, l) BY DEF HeldInv
        <3> QED BY <1>5, <2>2, <3>1, <3>2
    <2> QED BY <2>1, <2>2
<1>7. \A u \in Thread : /\ depth'[u] # 0 => work'[u] # <<>>
                        /\ work'[u] # <<>> => depth'[u] <= Len(Head(work'[u]))
                        /\ giving'[u] => depth'[u] # 0
    BY <1>1, <1>2, <1>3, <1>4 DEF HeldInv
<1> QED BY <1>6, <1>7 DEF HeldInv

LEMMA GiveHeld ==
    ASSUME TypeOK, HeldInv, NEW t \in Thread, Give(t)
    PROVE  HeldInv'
<1> DEFINE n == Head(work[t])  g == n[depth[t]]
<1>1. work[t] # <<>> /\ depth[t] \in Nat /\ depth[t] > 0
    BY DEF Give, Free, TypeOK
<1>2. n \in Nests /\ Tail(work[t]) \in Seq(Nests) BY <1>1, Present
<1>3. depth[t] \in 1 .. Len(n) /\ g \in Lock
    BY <1>1, <1>2, NestOrder DEF HeldInv
<1>4. \A i \in 1 .. Len(n) : n[i] = g => i = depth[t]
    <2>1. \A i, j \in 1 .. Len(n) : i < j => Rank(n[i]) < Rank(n[j])
        BY <1>2, NestOrder
    <2>2. \A i \in 1 .. Len(n) : Rank(n[i]) \in Int
        BY <1>2, NestOrder, RankType
    <2> SUFFICES ASSUME NEW i \in 1 .. Len(n), n[i] = g, i # depth[t] PROVE FALSE
        OBVIOUS
    <2>3. i < depth[t] \/ depth[t] < i BY <1>3
    <2>4. Rank(n[i]) = Rank(n[depth[t]]) OBVIOUS
    <2> QED BY <1>3, <2>1, <2>2, <2>3, <2>4
<1>5. /\ owner' = [owner EXCEPT ![g] = None]
      /\ depth' = [depth EXCEPT ![t] = depth[t] - 1]
      /\ giving' = [giving EXCEPT ![t] = depth[t] > 1]
      /\ work' = IF depth[t] = 1 THEN [work EXCEPT ![t] = Tail(work[t])] ELSE work
    BY DEF Give
<1> HIDE DEF g
<1>6. \A u \in Thread : u # t => /\ depth'[u] = depth[u] /\ giving'[u] = giving[u]
                                /\ work'[u] = work[u]
    BY <1>5 DEF TypeOK
<1>7. /\ depth'[t] = depth[t] - 1
      /\ depth[t] # 1 => work'[t] = work[t]
      /\ depth[t] = 1 => work'[t] = Tail(work[t])
    BY <1>5 DEF TypeOK
<1>8. \A l \in Lock : owner'[l] = IF l = g THEN None ELSE owner[l]
    BY <1>3, <1>5 DEF TypeOK
<1>9. Holds(t, g) BY <1>1, <1>3 DEF Holds, g
<1>10. ASSUME NEW u \in Thread, NEW l \in Lock
       PROVE  owner'[l] = u <=> Holds(u, l)'
    <2>1. owner[l] = u <=> Holds(u, l) BY DEF HeldInv
    <2>2. CASE u # t
        <3>1. Holds(u, l)' <=> Holds(u, l) BY <1>6, <2>2 DEF Holds
        <3>2. owner[g] = t BY <1>3, <1>9 DEF HeldInv
        <3> QED BY <1>8, <2>1, <2>2, <3>1, <3>2, NoneIsNoThread
    <2>3. CASE u = t /\ depth[t] = 1
        <3>1. ~Holds(t, l)' BY <1>7, <2>3 DEF Holds
        <3>2. Holds(t, l) => l = g BY <2>3 DEF Holds, g
        <3> QED BY <1>8, <2>1, <2>3, <3>1, <3>2, NoneIsNoThread
    <2>4. CASE u = t /\ depth[t] # 1
        <3>1. Holds(t, l)' <=> \E i \in 1 .. depth[t] - 1 : n[i] = l
            BY <1>1, <1>7, <2>4 DEF Holds
        <3>2. Holds(t, l) <=> \E i \in 1 .. depth[t] : n[i] = l
            BY <1>1 DEF Holds
        <3>3. Holds(t, l)' <=> Holds(t, l) /\ l # g
            BY <1>1, <1>3, <1>4, <3>1, <3>2 DEF g
        <3> QED BY <1>8, <2>1, <2>4, <3>3, NoneIsNoThread
    <2> QED BY <2>2, <2>3, <2>4
<1>11. /\ depth'[t] # 0 => work'[t] # <<>>
       /\ giving'[t] => depth'[t] # 0
    <2>1. depth'[t] # 0 => work'[t] # <<>> BY <1>1, <1>7
    <2>2. depth[t] > 1 => depth'[t] # 0 BY <1>1, <1>7
    <2>3. giving'[t] = (depth[t] > 1) BY <1>5, Zenon DEF TypeOK
    <2> QED BY <2>1, <2>2, <2>3
<1>12. work'[t] # <<>> => depth'[t] <= Len(Head(work'[t]))
    <2>1. CASE depth[t] # 1 BY <1>1, <1>3, <1>7, <2>1
    <2>2. CASE depth[t] = 1
        <3>1. work'[t] # <<>> => Head(work'[t]) \in Nests
            BY <1>2, <1>7, <2>2, HeadTailProperties
        <3> QED BY <1>7, <2>2, <3>1, NestOrder
    <2> QED BY <2>1, <2>2
<1>13. \A u \in Thread : /\ depth'[u] # 0 => work'[u] # <<>>
                         /\ work'[u] # <<>> => depth'[u] <= Len(Head(work'[u]))
                         /\ giving'[u] => depth'[u] # 0
    BY <1>6, <1>11, <1>12 DEF HeldInv
<1> QED BY <1>10, <1>13 DEF HeldInv

LEMMA DoesHeld ==
    ASSUME TypeOK, HeldInv, NEW t \in Thread, NEW n \in Seq(Nests), Does(t, n)
    PROVE  HeldInv'
<1>1. work[t] = <<>> /\ depth[t] = 0 /\ work' = [work EXCEPT ![t] = n]
      /\ owner' = owner /\ depth' = depth /\ giving' = giving
    BY DEF Does, Free, HeldInv
<1>2. \A u \in Thread : u # t => work'[u] = work[u] BY <1>1 DEF TypeOK
<1>3. \A u \in Thread, l \in Lock : Holds(u, l)' <=> Holds(u, l)
    BY <1>1, <1>2 DEF Holds
<1>4. work'[t] = n BY <1>1 DEF TypeOK
<1>5. n # <<>> => Len(Head(n)) \in Nat
    BY HeadTailProperties, NestOrder
<1> QED BY <1>1, <1>2, <1>3, <1>4, <1>5 DEF HeldInv

LEMMA HeldStep ==
    ASSUME TypeOK, HeldInv, [Next]_vars
    PROVE  HeldInv'
<1>1. CASE \E t \in Thread : Section(t)
    BY <1>1, TakeHeld, GiveHeld DEF Section
<1>2. CASE NetworkPoll \/ NetworkJob \/ Physics \/ WorkerTask
    BY <1>2, WorkTyped, DoesHeld DEF Thread
<1>3. CASE UNCHANGED threads
    BY <1>3 DEF HeldInv, Holds, threads
<1>4. NetworkStart \/ NetworkNoJob \/ NetworkQuit \/ PhysicsEnd \/ WorkerEnd
      \/ Signalled \/ Shutdown \/ UNCHANGED vars => UNCHANGED threads
    BY DEF NetworkStart, NetworkNoJob, NetworkQuit, PhysicsEnd, WorkerEnd, Signalled,
           Shutdown, Stop, Stopped, StopAgain, JoinPhysics, JoinNetwork, JoinWorker,
           vars
<1> QED BY <1>1, <1>2, <1>3, <1>4 DEF Next, Network, Worker

-----------------------------------------------------------------------------
(***************************************************************************)
(* What has ended.                                                         *)
(***************************************************************************)

LEMMA QuietNests == Step \in Quiet /\ ReadWorld \in Quiet /\ <<"jobs">> \in Quiet
BY FixedNests DEF Quiet, Step, ReadWorld

\* A section that goes on: only a thread that is at work, and only the network
\* thread hands in a task.
LEMMA SectionJoin ==
    ASSUME IInv, NEW t \in Thread, Section(t)
    PROVE  JoinInv'
<1>1. work[t] # <<>> BY WantsMore DEF IInv, Section, Take, Give, Free
<1>2. t \notin ended BY <1>1 DEF IInv, JoinInv
<1>3. ended' = ended /\ netpc' = netpc /\ stopPool' = stopPool
    BY DEF Section, Take, Give, control
<1>4. \A u \in Thread : work'[u] = work[u] \/ (u = t /\ work'[u] = Tail(work[u]))
    BY DEF IInv, TypeOK, Section, Take, Give
<1>5. \A u \in ended : work'[u] = <<>>
    BY <1>2, <1>4 DEF IInv, JoinInv, TypeOK
<1>6. \A u \in Thread : u # "network" => work'[u] \in Seq(Quiet)
    <2> SUFFICES ASSUME NEW u \in Thread, u # "network" PROVE work'[u] \in Seq(Quiet)
        OBVIOUS
    <2>1. work[u] \in Seq(Quiet) BY DEF IInv, JoinInv
    <2>2. work[u] # <<>> => Tail(work[u]) \in Seq(Quiet) BY <2>1, HeadTailProperties
    <2> QED BY <1>1, <1>4, <2>1, <2>2
<1>7. t # "network" => tasks' = tasks
    <2>1. CASE Take(t) BY <2>1 DEF Take, control
    <2>2. CASE Give(t) /\ t # "network"
        <3> DEFINE n == Head(work[t])
        <3>1. n \in Quiet BY <1>1, <2>2, HeadTailProperties DEF IInv, JoinInv
        <3>2. depth[t] \in 1 .. Len(n)
            BY <1>1, <2>2 DEF IInv, HeldInv, TypeOK, Give
        <3>3. n[depth[t]] # "pool" BY <3>1, <3>2 DEF Quiet
        <3> QED BY <2>2, <3>3 DEF Give
    <2> QED BY <2>1, <2>2 DEF Section
<1>8. "worker" \in ended => stopPool' /\ tasks' = 0
    <2> SUFFICES ASSUME "worker" \in ended PROVE stopPool' /\ tasks' = 0
        OBVIOUS
    <2>1. stopPool /\ tasks = 0 /\ "network" \in ended BY DEF IInv, JoinInv
    <2>2. t # "network" BY <1>2, <2>1
    <2> QED BY <1>3, <1>7, <2>1, <2>2
<1> QED BY <1>3, <1>5, <1>6, <1>8 DEF IInv, JoinInv

\* A thread takes on new work: it has not ended.
LEMMA DoesJoin ==
    ASSUME IInv, NEW t \in Thread, t \notin ended, NEW n \in Seq(Nests),
           t # "network" => n \in Seq(Quiet), Does(t, n),
           ended' = ended, stopPool' = stopPool, netpc' \in {netpc, "drain"},
           netpc = "ended" => netpc' = "ended",
           "worker" \in ended => tasks' = tasks
    PROVE  JoinInv'
<1>1. work' = [work EXCEPT ![t] = n] BY DEF Does
<1>2. \A u \in Thread : work'[u] = IF u = t THEN n ELSE work[u]
    BY <1>1 DEF IInv, TypeOK
<1>3. \A u \in ended : work'[u] = <<>> BY <1>2 DEF IInv, JoinInv, TypeOK
<1>4. \A u \in Thread : u # "network" => work'[u] \in Seq(Quiet)
    BY <1>2 DEF IInv, JoinInv
<1> QED BY <1>3, <1>4 DEF IInv, JoinInv

LEMMA JoinStep ==
    ASSUME IInv, [Next]_vars
    PROVE  JoinInv'
<1>1. CASE \E t \in Thread : Section(t) BY <1>1, SectionJoin
<1>2. CASE NetworkPoll
    <2>1. PICK n \in Seq(Nests) : Does("network", n)
        BY <1>2, WorkTyped
    <2>2. "network" \notin ended BY <1>2 DEF NetworkPoll, IInv, JoinInv
    <2> QED BY <1>2, <2>1, <2>2, DoesJoin DEF NetworkPoll, Thread
<1>3. CASE NetworkJob
    <2>1. PICK n \in Seq(Nests) : Does("network", n)
        BY <1>3, WorkTyped
    <2>2. "network" \notin ended BY <1>3 DEF NetworkJob, IInv, JoinInv
    <2> QED BY <1>3, <2>1, <2>2, DoesJoin DEF NetworkJob, Thread
<1>4. CASE Physics
    <2>1. Does("physics", <<Step>>) /\ <<Step>> \in Seq(Quiet) /\ <<Step>> \in Seq(Nests)
        BY <1>4, QuietNests, FixedNests DEF Physics
    <2>2. "physics" \notin ended /\ UNCHANGED control BY <1>4 DEF Physics
    <2> QED BY <2>1, <2>2, DoesJoin DEF control, Thread
<1>5. CASE WorkerTask
    <2>1. /\ Does("worker", <<ReadWorld, <<"jobs">>>>)
          /\ <<ReadWorld, <<"jobs">>>> \in Seq(Quiet)
          /\ <<ReadWorld, <<"jobs">>>> \in Seq(Nests)
        BY <1>5, QuietNests, FixedNests DEF WorkerTask
    <2>2. "worker" \notin ended BY <1>5 DEF WorkerTask, IInv, JoinInv
    <2> QED BY <1>5, <2>1, <2>2, DoesJoin DEF WorkerTask, Thread
<1>6. CASE NetworkQuit
    BY <1>6 DEF NetworkQuit, IInv, JoinInv, Free, threads
<1>7. CASE PhysicsEnd
    BY <1>7 DEF PhysicsEnd, IInv, JoinInv, Free, threads
<1>8. CASE WorkerEnd
    BY <1>8 DEF WorkerEnd, NothingLeft, IInv, JoinInv, Free, threads
<1>9. CASE NetworkStart \/ NetworkNoJob
    <2>1. "network" \notin ended
        BY <1>9 DEF NetworkStart, NetworkNoJob, IInv, JoinInv
    <2> QED BY <1>9, <2>1 DEF NetworkStart, NetworkNoJob, IInv, JoinInv, threads
<1>10. CASE Signalled \/ Shutdown
    BY <1>10 DEF Signalled, Shutdown, Stop, Stopped, StopAgain, JoinPhysics,
                 JoinNetwork, JoinWorker, IInv, JoinInv, threads
<1>11. CASE UNCHANGED vars
    BY <1>11 DEF vars, threads, control, IInv, JoinInv
<1> QED BY <1>1, <1>2, <1>3, <1>4, <1>5, <1>6, <1>7, <1>8, <1>9, <1>10, <1>11
       DEF Next, Network, Worker

-----------------------------------------------------------------------------
(***************************************************************************)
(* The theorems.                                                           *)
(***************************************************************************)

\* The inductive invariant: every thread holds exactly the locks it has come
\* to in its nest, and a thread that has ended has nothing left to do.
THEOREM Inductive == Spec => []IInv
<1>1. Init => IInv
    <2> SUFFICES ASSUME Init PROVE JoinInv
        BY InitTyped DEF IInv
    <2> QED BY DEF Init, JoinInv
<1>2. IInv /\ [Next]_vars => IInv'
    BY TypeStep, HeldStep, JoinStep DEF IInv
<1> QED BY <1>1, <1>2, PTL DEF Spec

\* The threads of main.cpp, network.cpp and threadpool.hpp, their queues and
\* their locks have their types.
THEOREM ThreadsTyped == Spec => []TypeOK
<1>1. IInv => TypeOK BY DEF IInv
<1> QED BY <1>1, Inductive, PTL

\* In a set of threads that all wait for locks held in the set, every lock
\* wanted has one above it that is wanted too: there is no such set.
LEMMA OrderedLocks ==
    ASSUME TypeOK, HeldInv
    PROVE  NoCircularWait
<1> SUFFICES ASSUME NEW S \in SUBSET Thread, S # {}, Blocked(S) PROVE FALSE
    BY DEF NoCircularWait
<1> DEFINE r(t) == Rank(Wanted(t))
<1>1. \A t \in S : Wanted(t) \in Lock /\ r(t) \in 1 .. 5
    BY WantsMore, RankType DEF Blocked
<1>2. \A t \in S : \E u \in S : r(t) < r(u)
    <2> SUFFICES ASSUME NEW t \in S PROVE \E u \in S : r(t) < r(u)
        OBVIOUS
    <2>1. owner[Wanted(t)] \in S BY DEF Blocked
    <2>2. PICK u \in S : owner[Wanted(t)] = u BY <2>1
    <2>3. Wanted(t) \in Lock /\ u \in Thread /\ Wanted(u) # None
        BY <1>1 DEF Blocked
    <2>4. Holds(u, Wanted(t)) BY <2>2, <2>3 DEF HeldInv
    <2>5. r(t) < r(u) BY <2>3, <2>4, WantsMore
    <2> QED BY <2>5
<1> HIDE DEF r
<1>3. \A t \in S : r(t) <= 4 BY <1>1, <1>2
<1>4. \A t \in S : r(t) <= 3 BY <1>1, <1>2, <1>3
<1>5. \A t \in S : r(t) <= 2 BY <1>1, <1>2, <1>4
<1>6. \A t \in S : r(t) <= 1 BY <1>1, <1>2, <1>5
<1> QED BY <1>1, <1>2, <1>6

\* No thread of the server ever waits in a circle of threads, whatever locks
\* a login script takes in order and however many tasks are queued.
THEOREM NoDeadlock == Spec => []NoCircularWait
<1>1. IInv => NoCircularWait BY OrderedLocks DEF IInv
<1> QED BY <1>1, Inductive, PTL

\* A thread that main() or the destructor of the network has joined holds no
\* lock and has left nothing undone: no task is dropped when the server stops.
THEOREM JoinedThreads == Spec => []JoinedIsDone
<1>1. IInv => JoinedIsDone
    <2> SUFFICES ASSUME IInv, NEW t \in ended
                 PROVE  /\ work[t] = <<>>
                        /\ \A l \in Lock : owner[l] # t
                        /\ t = "worker" => tasks = 0
        BY DEF JoinedIsDone
    <2>1. work[t] = <<>> /\ t \in Thread BY DEF IInv, JoinInv, TypeOK
    <2>2. \A l \in Lock : ~Holds(t, l) BY <2>1 DEF Holds
    <2>3. \A l \in Lock : owner[l] # t BY <2>1, <2>2 DEF IInv, HeldInv
    <2> QED BY <2>1, <2>3 DEF IInv, JoinInv
<1> QED BY <1>1, Inductive, PTL
=============================================================================

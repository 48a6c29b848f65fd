--------------------------- MODULE ServerThreads ---------------------------
(***************************************************************************)
(* The threads of the server and the locks they share: hexa/server/main.cpp*)
(* (start, physics(), shutdown), network::run(), network::stop() and the   *)
(* packet handlers, and the worker of network::workers_.                   *)
(*                                                                         *)
(* What a thread does is a sequence of nested critical sections.  A nest   *)
(* is the sequence of locks it takes, from the outside in; they are given  *)
(* back from the inside out.  A section with several inner ones in turn is *)
(* split into nests, between which others may come in.  Three locks stand  *)
(* for what is done under them: "jobs" for network::jobs.push(), "pool"    *)
(* for workers_.enqueue(), "enet" for udp_server::send() and the wait in   *)
(* poll().                                                                 *)
(***************************************************************************)
EXTENDS Naturals, Sequences

CONSTANTS
    LoginNests,   \* the locks that a script's on_login() may come to hold
    None,
    MaxTasks      \* bound: tasks in the pool when another packet is handled

Thread == {"main", "network", "physics", "worker"}

\* world::single_lock, entity_system::access_, the queue of the pool, the
\* mutex of network::jobs, udp_server::enet_mutex_.
Lock == {"world", "entities", "pool", "jobs", "enet"}

\* An order in which no nest of the code takes two locks the wrong way.
Rank(l) == IF l = "world" THEN 1 ELSE IF l = "entities" THEN 2
           ELSE IF l = "pool" THEN 3 ELSE IF l = "jobs" THEN 4 ELSE 5

InOrder(nest) ==
    \A i, j \in 1 .. Len(nest) : i < j => Rank(nest[i]) < Rank(nest[j])

Nests == {n \in Seq(Lock) : InOrder(n)}

\* Login scripts run under the entity lock: they may send, but not touch the
\* world.  The shipped games keep to it.
ASSUME LoginScripts == LoginNests \subseteq Nests
ASSUME NoneIsNoThread == None \notin Thread /\ None \notin Lock
ASSUME TaskBound == MaxTasks \in Nat \ {0}

VARIABLES
    owner,      \* who holds each lock
    work,       \* the nests each thread has left to do, the present one first
    depth,      \* how many locks of it the thread has taken
    giving,     \* on the way out?
    netpc, running, jobs, tasks,
    mainpc, quit, stopPool, ended

threads == <<owner, work, depth, giving>>
control == <<netpc, running, jobs, tasks, mainpc, quit, stopPool, ended>>
vars == <<threads, control>>

Jobs == {"surface", "quit"}
MainSteps == {"serve", "stop", "wait", "again", "physics", "network",
              "worker", "done"}

TypeOK ==
    /\ owner \in [Lock -> Thread \cup {None}]
    /\ work \in [Thread -> Seq(Nests)]
    /\ depth \in [Thread -> Nat]
    /\ giving \in [Thread -> BOOLEAN]
    /\ netpc \in {"start", "poll", "drain", "ended"}
    /\ running \in BOOLEAN /\ quit \in BOOLEAN /\ stopPool \in BOOLEAN
    /\ jobs \in Seq(Jobs) /\ tasks \in Nat
    /\ mainpc \in MainSteps
    /\ ended \in SUBSET Thread

Init ==
    /\ owner = [l \in Lock |-> None]
    /\ work = [t \in Thread |-> <<>>]
    /\ depth = [t \in Thread |-> 0]
    /\ giving = [t \in Thread |-> FALSE]
    /\ netpc = "start" /\ running = FALSE
    /\ jobs = <<>> /\ tasks = 0
    /\ mainpc = "serve" /\ quit = FALSE /\ stopPool = FALSE
    /\ ended = {}

-----------------------------------------------------------------------------
(***************************************************************************)
(* Critical sections.                                                      *)
(***************************************************************************)

Free(t) == work[t] = <<>>

\* The lock that t takes next, or None.
Wanted(t) == IF Free(t) \/ giving[t] \/ depth[t] = Len(Head(work[t])) THEN None
            ELSE Head(work[t])[depth[t] + 1]

Take(t) ==
    /\ Wanted(t) # None
    /\ owner[Wanted(t)] = None
    /\ owner' = [owner EXCEPT ![Wanted(t)] = t]
    /\ depth' = [depth EXCEPT ![t] = @ + 1]
    /\ UNCHANGED <<work, giving, control>>

\* The innermost lock is given back, and what was done under it is done.
Give(t) ==
    /\ ~Free(t)
    /\ depth[t] > 0
    /\ giving[t] \/ depth[t] = Len(Head(work[t]))
    /\ LET l == Head(work[t])[depth[t]] IN
          /\ owner' = [owner EXCEPT ![l] = None]
          /\ jobs' = IF l = "jobs" THEN Append(jobs, "surface") ELSE jobs
          /\ tasks' = IF l = "pool" THEN tasks + 1 ELSE tasks
    /\ depth' = [depth EXCEPT ![t] = @ - 1]
    /\ giving' = [giving EXCEPT ![t] = depth[t] > 1]
    /\ work' = IF depth[t] = 1 THEN [work EXCEPT ![t] = Tail(@)] ELSE work
    /\ UNCHANGED <<netpc, running, mainpc, quit, stopPool, ended>>

Does(t, nests) ==
    /\ Free(t)
    /\ work' = [work EXCEPT ![t] = nests]
    /\ UNCHANGED <<owner, depth, giving>>

-----------------------------------------------------------------------------
(***************************************************************************)
(* What the threads lock.  Reading the world may generate terrain and set  *)
(* a coarse height, which is sent to everybody; a commit also queues the   *)
(* surfaces that changed.                                                  *)
(***************************************************************************)

Send == <<"enet">>
Enqueue == <<"pool">>
Entities == <<"entities">>
ReadWorld == <<"world", "enet">>
WriteWorld == <<"world", "jobs">>

\* physics(): the world, then the entities; get_surface() may send a height.
Step == <<"world", "entities", "enet">>

\* (Slip: a script looks at the world when a player logs in.)
LoginAtWorld == {<<"entities", "world", "enet">>}

\* The callbacks of on_login, under the entity lock.
LoginCallbacks == LoginNests

Login == {<<ReadWorld, Entities, Send, ReadWorld, Send, Enqueue, Send,
            Entities, Send, n>> : n \in LoginCallbacks}

\* req_chunks(): an answer at once, or a task; req_heights() and the scripts
\* of button_press() lock in the same way.
ReqChunks == {<<ReadWorld, ReadWorld, ReadWorld>>, <<ReadWorld, ReadWorld, Enqueue>>}
Motion == {<<Entities>>}
ButtonPress == {<<ReadWorld, WriteWorld>>}
Disconnected == {<<>>}

\* What poll() may come back with.
Handlers == Login \cup ReqChunks \cup Motion \cup ButtonPress \cup Disconnected

-----------------------------------------------------------------------------
(***************************************************************************)
(* The threads.                                                            *)
(***************************************************************************)

NetworkStart ==
    /\ netpc = "start"
    /\ running' = TRUE
    /\ netpc' = "poll"
    /\ UNCHANGED <<threads, jobs, tasks, mainpc, quit, stopPool, ended>>

\* One turn of the loop: poll(), a handler, and every now and then a
\* broadcast of positions under the entity lock.
NetworkPoll ==
    /\ netpc = "poll"
    /\ \E h \in Handlers, b \in {<<>>, <<<<"entities", "enet">>>>} :
          /\ tasks < MaxTasks \/ h = <<>>
          /\ Does("network", <<Send>> \o h \o b)
    /\ netpc' = "drain"
    /\ UNCHANGED <<running, jobs, tasks, mainpc, quit, stopPool, ended>>

\* while (!jobs.empty()) ... send_surface()
NetworkJob ==
    /\ netpc = "drain"
    /\ owner["jobs"] = None
    /\ jobs # <<>> /\ Head(jobs) = "surface"
    /\ jobs' = Tail(jobs)
    /\ Does("network", <<ReadWorld>>)
    /\ UNCHANGED <<netpc, running, tasks, mainpc, quit, stopPool, ended>>

NetworkNoJob ==
    /\ netpc = "drain"
    /\ Free("network")
    /\ owner["jobs"] = None
    /\ jobs = <<>>
    /\ netpc' = "poll"
    /\ UNCHANGED <<threads, running, jobs, tasks, mainpc, quit, stopPool, ended>>

\* (Slip: nobody is told that the loop has ended.)
StillRunning == UNCHANGED running

NotRunning == running' = FALSE

NetworkQuit ==
    /\ netpc = "drain"
    /\ Free("network")
    /\ owner["jobs"] = None
    /\ jobs # <<>> /\ Head(jobs) = "quit"
    /\ jobs' = Tail(jobs)
    /\ NotRunning
    /\ netpc' = "ended"
    /\ ended' = ended \cup {"network"}
    /\ UNCHANGED <<threads, tasks, mainpc, quit, stopPool>>

Physics ==
    /\ "physics" \notin ended
    /\ ~quit
    /\ Does("physics", <<Step>>)
    /\ UNCHANGED control

PhysicsEnd ==
    /\ "physics" \notin ended
    /\ Free("physics")
    /\ quit
    /\ ended' = ended \cup {"physics"}
    /\ UNCHANGED <<threads, netpc, running, jobs, tasks, mainpc, quit, stopPool>>

\* prepare_for_player(), then send_surface_queue().
WorkerTask ==
    /\ owner["pool"] = None
    /\ tasks > 0
    /\ tasks' = tasks - 1
    /\ Does("worker", <<ReadWorld, <<"jobs">>>>)
    /\ UNCHANGED <<netpc, running, jobs, mainpc, quit, stopPool, ended>>

NothingLeft == stopPool /\ tasks = 0

WorkerEnd ==
    /\ "worker" \notin ended
    /\ Free("worker")
    /\ owner["pool"] = None
    /\ NothingLeft
    /\ ended' = ended \cup {"worker"}
    /\ UNCHANGED <<threads, netpc, running, jobs, tasks, mainpc, quit, stopPool>>

-----------------------------------------------------------------------------
(***************************************************************************)
(* main(): a signal arrives; network::stop(); a second quit job; both      *)
(* loops are joined; the destructor of the network joins the worker.       *)
(***************************************************************************)

MainAt(here, there) == mainpc = here /\ mainpc' = there

PushQuit ==
    /\ owner["jobs"] = None
    /\ jobs' = Append(jobs, "quit")

Signalled ==
    /\ MainAt("serve", "stop")
    /\ UNCHANGED <<threads, netpc, running, jobs, tasks, quit, stopPool, ended>>

Stop ==
    /\ MainAt("stop", "wait")
    /\ PushQuit
    /\ UNCHANGED <<threads, netpc, running, tasks, quit, stopPool, ended>>

Stopped ==
    /\ MainAt("wait", "again")
    /\ ~running
    /\ UNCHANGED <<threads, netpc, running, jobs, tasks, quit, stopPool, ended>>

StopAgain ==
    /\ MainAt("again", "physics")
    /\ PushQuit
    /\ quit' = TRUE
    /\ UNCHANGED <<threads, netpc, running, tasks, stopPool, ended>>

JoinPhysics ==
    /\ MainAt("physics", "network")
    /\ "physics" \in ended
    /\ UNCHANGED <<threads, netpc, running, jobs, tasks, quit, stopPool, ended>>

JoinNetwork ==
    /\ MainAt("network", "worker")
    /\ "network" \in ended
    /\ stopPool' = TRUE
    /\ UNCHANGED <<threads, netpc, running, jobs, tasks, quit, ended>>

JoinWorker ==
    /\ MainAt("worker", "done")
    /\ "worker" \in ended
    /\ UNCHANGED <<threads, netpc, running, jobs, tasks, quit, stopPool, ended>>

Shutdown == Stop \/ Stopped \/ StopAgain \/ JoinPhysics \/ JoinNetwork \/ JoinWorker

Network == NetworkStart \/ NetworkPoll \/ NetworkJob \/ NetworkNoJob \/ NetworkQuit
Worker == WorkerTask \/ WorkerEnd

Section(t) == Take(t) \/ Give(t)

Next ==
    \/ \E t \in Thread : Section(t)
    \/ Network \/ Physics \/ PhysicsEnd \/ Worker
    \/ Signalled \/ Shutdown

Spec == Init /\ [][Next]_vars

\* Every thread runs on.  A mutex that is free again and again is taken in
\* the end: physics() sleeps between its steps and poll() gives enet_mutex_
\* back every millisecond.
FairSpec ==
    /\ Spec
    /\ SF_vars(Section("network") \/ Network)
    /\ SF_vars(Section("physics") \/ Physics \/ PhysicsEnd)
    /\ SF_vars(Section("worker") \/ Worker)
    /\ SF_vars(Shutdown)
-----------------------------------------------------------------------------
(***************************************************************************)
(* Properties.                                                             *)
(***************************************************************************)

\* No thread waits, directly or through others, for a lock that it holds
\* itself: whatever packets arrive, the world, entity, queue and socket locks
\* of network.cpp, main.cpp and world.cpp are taken in one order.
Blocked(S) == \A t \in S : Wanted(t) # None /\ owner[Wanted(t)] \in S
NoCircularWait == \A S \in SUBSET Thread : S # {} => ~Blocked(S)

\* A thread that has ended holds nothing and leaves nothing to do: the worker
\* has run every task that was handed in before network::run() came to its
\* quit job.
JoinedIsDone ==
    \A t \in ended :
        /\ work[t] = <<>>
        /\ \A l \in Lock : owner[l] # t
        /\ t = "worker" => tasks = 0

\* Once the signal has arrived the server comes to its end, whatever the
\* threads were doing and however often they were asked to stop.
ServerStops == (mainpc = "stop") ~> (mainpc = "done")

\* While the server runs, a job is always taken off the queue in the end.
JobsAreDone == (jobs # <<>>) ~> (jobs = <<>> \/ netpc = "ended")
=============================================================================

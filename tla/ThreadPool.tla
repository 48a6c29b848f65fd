----------------------------- MODULE ThreadPool -----------------------------
(***************************************************************************)
(* hexa/threadpool.hpp: a queue of tasks under a mutex, a condition        *)
(* variable, and workers that run the tasks.  The server has one worker    *)
(* for surfaces, the client's scene four for meshes.                       *)
(*                                                                         *)
(* What is done under the mutex is one step.  enqueue() is three: the test *)
(* of stop_, which takes no lock, the push, and the notification.  Any     *)
(* thread may call it as long as the pool lives, and so may the tasks that *)
(* the pool runs, even while its destructor waits for them.                *)
(***************************************************************************)
EXTENDS Naturals, Sequences

CONSTANTS
    Workers,     \* the threads of the pool
    Callers,     \* other threads
    Tasks,       \* tasks, each handed in at most once
    NoTask       \* not a task

ASSUME PoolConstants ==
    /\ Workers # {} /\ Workers \cap Callers = {}
    /\ NoTask \notin Tasks

VARIABLES
    stop,        \* stop_
    tasks,       \* tasks_
    waiting,     \* workers asleep on condition_
    left,        \* workers that have left worker()
    job,         \* the task each worker has taken off the queue
    adding,      \* the task each thread has passed the test of stop_ with
    telling,     \* threads about to call notify_one()
    destructor,  \* how far ~threadpool() is
    called,      \* tasks that enqueue() was called with
    refused,     \* those it has thrown for
    runs         \* how often each task was run

poolVars == <<stop, tasks, waiting, left, job, adding, telling, destructor,
              called, refused, runs>>

Threads == Workers \cup Callers

PoolTypeOK ==
    /\ stop \in BOOLEAN
    /\ tasks \in Seq(Tasks)
    /\ waiting \in SUBSET Workers /\ left \in SUBSET Workers
    /\ job \in [Workers -> Tasks \cup {NoTask}]
    /\ adding \in [Threads -> Tasks \cup {NoTask}]
    /\ telling \in SUBSET Threads
    /\ destructor \in {"no", "stopping", "joining", "gone"}
    /\ called \in SUBSET Tasks /\ refused \in SUBSET called
    /\ runs \in [Tasks -> Nat]

PoolInit ==
    /\ stop = FALSE /\ tasks = <<>>
    /\ waiting = {} /\ left = {}
    /\ job = [w \in Workers |-> NoTask]
    /\ adding = [r \in Threads |-> NoTask]
    /\ telling = {}
    /\ destructor = "no"
    /\ called = {} /\ refused = {}
    /\ runs = [t \in Tasks |-> 0]

-----------------------------------------------------------------------------
(***************************************************************************)
(* enqueue()                                                               *)
(***************************************************************************)

\* The thread is in the middle of enqueue().
Enqueuing(r) == adding[r] # NoTask \/ r \in telling

\* A task calls on its worker; other threads are done with the pool before
\* they let it be destroyed.
MayCall(r) ==
    /\ ~Enqueuing(r)
    /\ IF r \in Workers THEN job[r] # NoTask ELSE destructor = "no"

\* The test of stop_.
Call(r, t) ==
    /\ MayCall(r) /\ t \notin called
    /\ called' = called \cup {t}
    /\ IF stop
       THEN /\ refused' = refused \cup {t}
            /\ UNCHANGED adding
       ELSE /\ adding' = [adding EXCEPT ![r] = t]
            /\ UNCHANGED refused
    /\ UNCHANGED <<stop, tasks, waiting, left, job, telling, destructor, runs>>

Push(r) ==
    /\ adding[r] # NoTask
    /\ tasks' = Append(tasks, adding[r])
    /\ adding' = [adding EXCEPT ![r] = NoTask]
    /\ telling' = telling \cup {r}
    /\ UNCHANGED <<stop, waiting, left, job, destructor, called, refused, runs>>

\* (Slip: nobody is told of the new task.)
NotifyNone == {waiting}

\* The workers that notify_one() may leave asleep.
NotifyOne ==
    IF waiting = {} THEN {{}} ELSE {waiting \ {w} : w \in waiting}

Notify(r) ==
    /\ r \in telling
    /\ telling' = telling \ {r}
    /\ waiting' \in NotifyOne
    /\ UNCHANGED <<stop, tasks, left, job, adding, destructor, called, refused,
                   runs>>

-----------------------------------------------------------------------------
(***************************************************************************)
(* worker()                                                                *)
(***************************************************************************)

\* The worker has the mutex or is after it.
AtTop(w) == w \notin waiting \cup left /\ job[w] = NoTask

Wait(w) ==
    /\ AtTop(w) /\ ~stop /\ tasks = <<>>
    /\ waiting' = waiting \cup {w}
    /\ UNCHANGED <<stop, tasks, left, job, adding, telling, destructor, called,
                   refused, runs>>

\* A condition variable may wake a thread for no reason.
WakeUp(w) ==
    /\ w \in waiting
    /\ waiting' = waiting \ {w}
    /\ UNCHANGED <<stop, tasks, left, job, adding, telling, destructor, called,
                   refused, runs>>

\* (Slip: a worker that is told to stop leaves at once.)
WhenTold == stop

\* The test before the break.
NothingToDo == stop /\ tasks = <<>>

Leave(w) ==
    /\ AtTop(w) /\ NothingToDo
    /\ left' = left \cup {w}
    /\ UNCHANGED <<stop, tasks, waiting, job, adding, telling, destructor,
                   called, refused, runs>>

\* tasks_.pop()
Pop == tasks' = Tail(tasks)

Take(w) ==
    /\ AtTop(w) /\ tasks # <<>>
    /\ job' = [job EXCEPT ![w] = Head(tasks)]
    /\ Pop
    /\ UNCHANGED <<stop, waiting, left, adding, telling, destructor, called,
                   refused, runs>>

\* The task returns, or throws into its future.
Finish(w) ==
    /\ job[w] # NoTask /\ ~Enqueuing(w)
    /\ runs' = [runs EXCEPT ![job[w]] = @ + 1]
    /\ job' = [job EXCEPT ![w] = NoTask]
    /\ UNCHANGED <<stop, tasks, waiting, left, adding, telling, destructor,
                   called, refused>>

-----------------------------------------------------------------------------
(***************************************************************************)
(* ~threadpool()                                                           *)
(***************************************************************************)

SetStop ==
    /\ destructor = "no"
    /\ \A r \in Callers : ~Enqueuing(r)
    /\ destructor' = "stopping"
    /\ stop' = TRUE
    /\ UNCHANGED <<tasks, waiting, left, job, adding, telling, called, refused,
                   runs>>

\* notify_all()
NotifyAll ==
    /\ destructor = "stopping" /\ destructor' = "joining"
    /\ waiting' = {}
    /\ UNCHANGED <<stop, tasks, left, job, adding, telling, called, refused,
                   runs>>

Join ==
    /\ destructor = "joining" /\ left = Workers
    /\ destructor' = "gone"
    /\ UNCHANGED <<stop, tasks, waiting, left, job, adding, telling, called,
                   refused, runs>>

-----------------------------------------------------------------------------

EnqueueStep(r) == (\E t \in Tasks : Call(r, t)) \/ Push(r) \/ Notify(r)

WorkerStep(w) == Wait(w) \/ WakeUp(w) \/ Leave(w) \/ Take(w) \/ Finish(w)

PoolNext ==
    \/ \E r \in Threads : EnqueueStep(r)
    \/ \E w \in Workers : WorkerStep(w)
    \/ SetStop \/ NotifyAll \/ Join

PoolSafety == PoolInit /\ [][PoolNext]_poolVars

\* Threads run, and a task ends unless it is stuck in enqueue().  Nobody has
\* to hand in a task, wake up for no reason or destroy the pool.
PoolFairness ==
    /\ \A r \in Threads : WF_poolVars(Push(r)) /\ WF_poolVars(Notify(r))
    /\ \A w \in Workers : /\ WF_poolVars(Wait(w)) /\ WF_poolVars(Leave(w))
                          /\ WF_poolVars(Take(w)) /\ WF_poolVars(Finish(w))
    /\ WF_poolVars(NotifyAll) /\ WF_poolVars(Join)

PoolSpec == PoolSafety /\ PoolFairness

-----------------------------------------------------------------------------
(***************************************************************************)
(* Properties.                                                             *)
(***************************************************************************)

Queued == {tasks[i] : i \in DOMAIN tasks}

\* A task is in one place at a time: with the thread that hands it in, in the
\* queue, with one worker, done, or refused.  So no future is answered twice
\* and no task is held by two threads.
OnePlace ==
    /\ \A i, j \in DOMAIN tasks : tasks[i] = tasks[j] => i = j
    /\ \A w, v \in Workers : job[w] = job[v] /\ job[w] # NoTask => w = v
    /\ \A r, s \in Threads : adding[r] = adding[s] /\ adding[r] # NoTask => r = s
    /\ \A r \in Threads, w \in Workers :
          /\ adding[r] # NoTask => adding[r] \notin Queued \cup {job[w]}
          /\ job[w] \notin Queued
    /\ \A t \in Tasks :
          runs[t] > 0 \/ t \in refused =>
             /\ runs[t] < 2 /\ (t \in refused => runs[t] = 0)
             /\ t \notin Queued
             /\ \A w \in Workers : job[w] # t
             /\ \A r \in Threads : adding[r] # t

\* Nothing is left in a pool whose workers have left: a task that came in
\* between the test of stop_ and the push was handed in by a task, whose
\* worker looks at the queue again before it leaves.
LeftIsEmpty ==
    left = Workers => tasks = <<>> /\ \A r \in Threads : adding[r] = NoTask

TaskState(t) ==
    IF \E w \in Workers : job[w] = t THEN "running"
    ELSE IF runs[t] > 0 THEN "run"
    ELSE IF t \in refused THEN "refused"
    ELSE IF t \in called THEN "accepted" ELSE "new"

PoolState ==
    IF destructor = "gone" THEN "gone"
    ELSE IF destructor = "no" THEN "open" ELSE "closing"

Bag == INSTANCE TaskBag WITH
    task <- [t \in Tasks |-> TaskState(t)], pool <- PoolState
=============================================================================

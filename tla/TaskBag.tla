------------------------------ MODULE TaskBag ------------------------------
(***************************************************************************)
(* What a pool of workers promises to those who hand in tasks: a task is   *)
(* accepted or refused; one that is accepted is run, once, and has been    *)
(* run before the pool is gone.                                            *)
(***************************************************************************)

CONSTANT Tasks

VARIABLES
    task,        \* how far each task is
    pool         \* "open", "closing" or "gone"

bagVars == <<task, pool>>

BagInit ==
    /\ task = [t \in Tasks |-> "new"]
    /\ pool = "open"

Goes(t, from, to) ==
    /\ task[t] = from
    /\ task' = [task EXCEPT ![t] = to]
    /\ UNCHANGED pool

Accept(t) == pool # "gone" /\ Goes(t, "new", "accepted")

Refuse(t) == pool # "open" /\ Goes(t, "new", "refused")

Begin(t) == Goes(t, "accepted", "running")

End(t) == Goes(t, "running", "run")

Close ==
    /\ pool = "open" /\ pool' = "closing"
    /\ UNCHANGED task

\* A pool that is gone has run all it has accepted.
Finished == \A t \in Tasks : task[t] \notin {"accepted", "running"}

BecomeGone ==
    /\ pool = "closing" /\ Finished
    /\ pool' = "gone"
    /\ UNCHANGED task

BagNext ==
    \/ \E t \in Tasks : Accept(t) \/ Refuse(t) \/ Begin(t) \/ End(t)
    \/ Close \/ BecomeGone

BagSpec ==
    /\ BagInit /\ [][BagNext]_bagVars
    /\ \A t \in Tasks : WF_bagVars(Begin(t)) /\ WF_bagVars(End(t))
    /\ WF_bagVars(BecomeGone)
=============================================================================

---------------------------- MODULE SessionJobs ----------------------------
(***************************************************************************)
(* The job list of a session (JobList) in the hands of any goroutines of a *)
(* server, in any order: they create tasks and add them, as AuthAccount    *)
(* and UserVerify of the login server do, remove jobs, and close the       *)
(* session.                                                                *)
(***************************************************************************)
EXTENDS JobList

VARIABLES
    proc,     \* the callers: the task each is about to add, or none
    owed      \* calls of the task function the schedule still asks for

vars == <<jobs, task, lock, closing, proc, owed>>

-----------------------------------------------------------------------------
\* The callers.

Init ==
    /\ JobsInit
    /\ proc = [p \in Procs |-> NoTask]
    /\ owed = [t \in Tasks |-> 1]

\* Create a task, as AuthAccount and UserVerify do ...
StartTask(p, t) ==
    /\ proc[p] = NoTask
    /\ Returned(p)
    /\ NewPeriodicTask(t)
    /\ proc' = [proc EXCEPT ![p] = t]
    /\ UNCHANGED <<jobs, lock, closing, owed>>

\* ... and add it to the list of the session, which may be closed by then.
AddTask(p, n) ==
    /\ proc[p] # NoTask
    /\ AddJob(n, proc[p])
    /\ proc' = [proc EXCEPT ![p] = NoTask]
    /\ UNCHANGED <<task, lock, closing, owed>>

RemoveTask(p, n) ==
    /\ proc[p] = NoTask
    /\ RemoveJob(p, n)
    /\ UNCHANGED <<jobs, task, closing, proc, owed>>

\* Session.Close, under closeOnce: mark the session, then stop the jobs.
Close(p) ==
    /\ closing = "open"
    /\ proc[p] = NoTask
    /\ Returned(p)
    /\ closing' = "closing"
    /\ UNCHANGED <<jobs, task, lock, proc, owed>>

CloseJobs(p) ==
    /\ closing = "closing"
    /\ proc[p] = NoTask
    /\ RemoveAllJobs(p)
    /\ closing' = "closed"
    /\ UNCHANGED <<jobs, task, proc, owed>>

\* A call of the task function uses up one call the schedule asks for; the
\* count stops one below zero.
Called(t) == owed' = [owed EXCEPT ![t] = IF @ >= 0 THEN @ - 1 ELSE @]

\* Mutated form: after a tick the task goes on calling its function.
TaskStepLoops(t) ==
    /\ \/ CallAtTop(t) /\ Called(t)
       \/ task[t] = "tick" /\ Called(t) /\ UNCHANGED task
       \/ Tick(t) /\ owed' = [owed EXCEPT ![t] = @ + 1]
    /\ UNCHANGED <<jobs, lock, closing, proc>>

TaskStep(t) ==
    /\ \/ CallAtTop(t) /\ Called(t)
       \/ CallOnTick(t) /\ Called(t)
       \/ Tick(t) /\ owed' = [owed EXCEPT ![t] = @ + 1]
    /\ UNCHANGED <<jobs, lock, closing, proc>>

StopStep(n) == Stop(n) /\ UNCHANGED <<closing, proc, owed>>

Next ==
    \/ \E p \in Procs, t \in Tasks : StartTask(p, t)
    \/ \E p \in Procs, n \in Names : AddTask(p, n) \/ RemoveTask(p, n)
    \/ \E p \in Procs : Close(p) \/ CloseJobs(p)
    \/ \E t \in Tasks : TaskStep(t)
    \/ \E n \in Names : StopStep(n)

Spec == Init /\ [][Next]_vars

\* A started goroutine goes on: a created task is added, the close path runs,
\* tasks run and their tickers tick.  A select whose two channels are ready
\* takes either one, so a waiting Stop is met sooner or later: strong fairness.
Fairness ==
    /\ \A p \in Procs : WF_vars(\E n \in Names : AddTask(p, n))
    /\ WF_vars(\E p \in Procs : CloseJobs(p))
    /\ \A t \in Tasks : WF_vars(TaskStep(t))
    /\ \A n \in Names : SF_vars(StopStep(n))

FairSpec == Spec /\ Fairness

-----------------------------------------------------------------------------
\* Types.
TypeOK ==
    /\ JobsTypeOK
    /\ proc \in [Procs -> Tasks \cup {NoTask}]
    /\ owed \in [Tasks -> -1..1]

\* A task that a caller has created and not yet added runs, is in nobody
\* else's hands and is not listed.
PendingRun ==
    \A p \in Procs : proc[p] # NoTask =>
        /\ Running(proc[p])
        /\ \A n \in Names : jobs[n] # proc[p]
        /\ \A q \in Procs \ {p} : proc[q] # proc[p]

\* RemoveJob, RemoveAllJobs and with them Close come back, whatever the tasks
\* are doing when they are stopped.
StopReturns == []<>(lock = Free)

=============================================================================

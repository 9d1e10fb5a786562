------------------------------- MODULE JobList ------------------------------
(***************************************************************************)
(* The periodic jobs of a client session: share/network/session.go and     *)
(* periodic_task.go.  A job is a goroutine that calls its function, waits  *)
(* for a tick or for Stop, calls its function again on a tick and starts   *)
(* over.  Stop is a send on an unbuffered channel: it returns only when    *)
(* the goroutine has reached its select.  The job list is guarded by       *)
(* jobMutex, which RemoveJob and RemoveAllJobs hold while they stop a job. *)
(*                                                                         *)
(* The operations below say nothing of their callers: SessionJobs has      *)
(* callers of every kind, BattleMode the ones of the battle mode.          *)
(***************************************************************************)
EXTENDS Naturals, Integers, FiniteSets

CONSTANTS
    Procs,      \* goroutines that use the job list
    Tasks,      \* periodic tasks; each is created once
    Names,      \* job names
    NoProc, NoTask

ASSUME SessionAssumption == NoProc \notin Procs /\ NoTask \notin Tasks

VARIABLES
    jobs,     \* Session.PeriodicJobs
    task,     \* where the goroutine of each task is
    lock,     \* jobMutex while jobs are stopped under it: by whom, and which
    closing   \* Session.Close: "open", "closing" (closed channel), "closed"

jobVars == <<jobs, task, lock>>

Free == [by |-> NoProc, todo |-> {}]
Running(t) == task[t] \in {"top", "select", "tick"}

JobsInit ==
    /\ jobs = [n \in Names |-> NoTask]
    /\ task = [t \in Tasks |-> "new"]
    /\ lock = Free
    /\ closing = "open"

JobsTypeOK ==
    /\ jobs \in [Names -> Tasks \cup {NoTask}]
    /\ task \in [Tasks -> {"new", "top", "select", "tick", "done"}]
    /\ lock \in [by : Procs \cup {NoProc}, todo : SUBSET Names]
    /\ closing \in {"open", "closing", "closed"}

-----------------------------------------------------------------------------
\* PeriodicTask.  The goroutine runs from "top" (the call at the head of the
\* loop) to "select", and from there to "tick" (the call in the ticker branch).

NewPeriodicTask(t) == task[t] = "new" /\ task' = [task EXCEPT ![t] = "top"]

CallAtTop(t) == task[t] = "top" /\ task' = [task EXCEPT ![t] = "select"]

Tick(t) == task[t] = "select" /\ task' = [task EXCEPT ![t] = "tick"]

CallOnTick(t) == task[t] = "tick" /\ task' = [task EXCEPT ![t] = "top"]

\* Mutated form: the job stays in the list.
StopKeepsJob(n) ==
    /\ n \in lock.todo
    /\ task[jobs[n]] = "select"
    /\ task' = [task EXCEPT ![jobs[n]] = "done"]
    /\ jobs' = jobs
    /\ lock' = IF lock.todo = {n} THEN Free ELSE [lock EXCEPT !.todo = @ \ {n}]

\* Stop meets the select of the task; the caller then deletes the job, and
\* unlocks after the last one.
Stop(n) ==
    /\ n \in lock.todo
    /\ task[jobs[n]] = "select"
    /\ task' = [task EXCEPT ![jobs[n]] = "done"]
    /\ jobs' = [jobs EXCEPT ![n] = NoTask]
    /\ lock' = IF lock.todo = {n} THEN Free ELSE [lock EXCEPT !.todo = @ \ {n}]

-----------------------------------------------------------------------------
\* The job list.

AddJob(n, t) ==
    /\ lock = Free
    /\ jobs' = [jobs EXCEPT ![n] = t]

\* RemoveJob and RemoveAllJobs up to the first Stop.  With nothing to stop
\* they are over at once.
RemoveJobs(p, names) ==
    LET todo == {n \in names : jobs[n] # NoTask}
    IN /\ lock = Free
       /\ lock' = IF todo = {} THEN Free ELSE [by |-> p, todo |-> todo]

RemoveJob(p, n) == RemoveJobs(p, {n})
RemoveAllJobs(p) == RemoveJobs(p, Names)

\* p has left the job list.
Returned(p) == lock.by # p

-----------------------------------------------------------------------------
\* What the list promises, whoever uses it.

\* A job in the list is a running task, and no task is listed twice: Stop is
\* never sent to a goroutine that has returned, which would block for ever
\* with jobMutex held (RemoveJob deletes what it stops, AddJob adds a new task).
ListedRun ==
    /\ \A n \in Names : jobs[n] # NoTask => Running(jobs[n])
    /\ \A n, m \in Names : jobs[n] = jobs[m] /\ jobs[n] # NoTask => n = m

\* While jobMutex is held across a Stop, the jobs to stop are still listed:
\* nothing changes the list under the holder's feet.
LockedListed ==
    /\ \A n \in lock.todo : jobs[n] # NoTask
    /\ lock.by = NoProc <=> lock.todo = {}
=============================================================================

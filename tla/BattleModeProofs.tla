-------------------------- MODULE BattleModeProofs --------------------------
(***************************************************************************)
(* An active battle mode always has something under way that ends it, for  *)
(* any number of packet handlers that overlap in any way, and of lamps.    *)
(***************************************************************************)
EXTENDS BattleMode, TLAPS

\* A handler that has made its timer holds the number of it, and the timer
\* carries the generation the handler has read.
RunOK ==
    \A p \in Handlers :
        h[p].pc \in {"armed", "active", "created"} =>
            /\ h[p].run \in Tasks
            /\ timer[h[p].run].pc # "new"
            /\ timer[h[p].run].gen = h[p].gen

\* The stored timer has been made.
StoredMade == endTimer # 0 => timer[endTimer].pc # "new"

\* The inductive invariant.
IInv == TypeOK /\ RunOK /\ StoredMade /\ TimerOfMode /\ EndIsComing

\* The part of TypeOK the mode, the timers and the handlers rest on.
CtxOK ==
    /\ mode \in [type : Modes \cup {0}, gen : Nat, sp : Nat]
    /\ gen \in Nat
    /\ endTimer \in Tasks \cup {0}
    /\ timer \in [Tasks -> [pc : {"new", "armed", "stopped", "firing", "ended", "done"},
                           gen : Nat]]
    /\ h \in [Handlers -> Handler]

\* Tasks are numbered from 1, and every handler and task may lock jobMutex.
LEMMA Constants ==
  /\ 0 \notin Tasks /\ 0 \notin Modes
  /\ Handlers \subseteq Procs /\ Tasks \subseteq Procs
  /\ Closer \in Procs /\ Remover \in Procs
  /\ Drain \in Names /\ NoTask = 0
  BY BattleAssumption

\* What StopTimer leaves: the same timers, one of them perhaps stopped.
LEMMA StopTimerOK ==
  ASSUME CtxOK, NEW t \in Tasks \cup {0}
  PROVE  /\ StopTimer(t) \in [Tasks -> [pc : {"new", "armed", "stopped", "firing", "ended", "done"},
                                       gen : Nat]]
         /\ \A k \in Tasks : /\ StopTimer(t)[k].gen = timer[k].gen
                             /\ (StopTimer(t)[k].pc = "new") <=> (timer[k].pc = "new")
                             /\ k # t => StopTimer(t)[k].pc = timer[k].pc
  BY Constants DEF StopTimer, CtxOK

\* The job list keeps its type in every step on it.
LEMMA JobTypes ==
  ASSUME JobsTypeOK, NEW p \in Procs, NEW k \in Tasks
  PROVE  /\ RemoveJob(p, Drain) /\ UNCHANGED <<jobs, task, closing>> => JobsTypeOK'
         /\ RemoveAllJobs(p) /\ UNCHANGED <<jobs, task>> /\ closing' = "closed" => JobsTypeOK'
         /\ AddJob(Drain, k) /\ UNCHANGED <<task, lock, closing>> => JobsTypeOK'
         /\ task' \in [Tasks -> {"new", "top", "select", "tick", "done"}]
               /\ UNCHANGED <<jobs, lock, closing>> => JobsTypeOK'
         /\ UNCHANGED <<jobVars, closing>> => JobsTypeOK'
  BY Constants DEF JobsTypeOK, RemoveJob, RemoveAllJobs, RemoveJobs, Free, AddJob, jobVars

\* Nothing is active at first.
LEMMA InitIInv == Init => IInv
  BY BattleAssumption, Constants, SessionAssumption
     DEF Init, JobsInit, JobsTypeOK, Free, NoMode, IdleHandler, Handler, MaxRemovers, Active,
         IInv, TypeOK, RunOK, StoredMade, TimerOfMode, EndIsComing

\* The types of what is not the job list, one conjunct of TypeOK per line.
RestOK ==
    /\ CtxOK
    /\ sp \in 0..Lamps
    /\ drain \in [Tasks -> {"first", "ready", "drained"}]
    /\ removers \in 0..MaxRemovers
    /\ resets \in 0..MaxResets
    /\ inWorld \in BOOLEAN

\* TypeOK is the types of the job list and of the rest.
LEMMA TypeParts == TypeOK <=> JobsTypeOK /\ RestOK
  BY DEF TypeOK, RestOK, CtxOK

\* The same for the state after a step, with the rest of the invariant.
LEMMA Assemble ==
  ASSUME JobsTypeOK', RestOK', RunOK', StoredMade', TimerOfMode', EndIsComing'
  PROVE  IInv'
  <1>1. TypeOK'
    BY DEF TypeOK, RestOK, CtxOK
  <1> QED
    BY <1>1 DEF IInv

\* A step that leaves mode and timers alone and takes one handler from a place
\* where it owes nothing to another one.
LEMMA HandlerMoves ==
  ASSUME IInv, NEW p \in Handlers, NEW r \in Handler,
         h' = [h EXCEPT ![p] = r],
         UNCHANGED <<mode, endTimer, timer>>,
         h[p].pc \in {"saved", "read", "removed"} /\ Active =>
            \/ r.pc \in {"read", "removed"} /\ r.gen = mode.gen
            \/ h[p].pc \in {"read", "removed"} /\ h[p].gen # mode.gen,
         r.pc \in {"armed", "active", "created"} =>
            h[p].pc \in {"armed", "active", "created"} /\ r.run = h[p].run /\ r.gen = h[p].gen
  PROVE  RunOK' /\ StoredMade' /\ TimerOfMode' /\ EndIsComing'
  <1>1. h \in [Handlers -> Handler]
    BY DEF IInv, TypeOK
  <1>2. RunOK'
    BY <1>1 DEF IInv, RunOK
  <1>3. StoredMade' /\ TimerOfMode'
    BY DEF IInv, StoredMade, TimerOfMode, Active
  <1>4. EndIsComing'
    BY <1>1 DEF IInv, EndIsComing, Active
  <1> QED
    BY <1>2, <1>3, <1>4

\* A step that ends the mode and drops its timer: nothing is left to show but
\* that the timers have not been made anew.
LEMMA ModeDrops ==
  ASSUME IInv, mode' = NoMode, endTimer' = 0,
         \A k \in Tasks : /\ timer'[k].gen = timer[k].gen
                          /\ timer[k].pc # "new" => timer'[k].pc # "new",
         \A p \in Handlers :
            h'[p].pc \in {"armed", "active", "created"} =>
              h[p].pc = h'[p].pc /\ h'[p].run = h[p].run /\ h'[p].gen = h[p].gen
  PROVE  RunOK' /\ StoredMade' /\ TimerOfMode' /\ EndIsComing'
  BY DEF IInv, RunOK, StoredMade, TimerOfMode, EndIsComing, Active, NoMode

\* A step of the timer or of the drain job that leaves the mode's generation
\* and, of the timers made for it, those under way.
LEMMA ModeStays ==
  ASSUME IInv, mode'.type = mode.type, mode'.gen = mode.gen,
         UNCHANGED <<endTimer, h>>,
         \A k \in Tasks : /\ timer'[k].gen = timer[k].gen
                          /\ timer[k].pc # "new" => timer'[k].pc # "new"
                          /\ Active /\ timer[k].pc \in {"armed", "firing"} /\ timer[k].gen = mode.gen
                               => timer'[k].pc \in {"armed", "firing"}
  PROVE  RunOK' /\ StoredMade' /\ TimerOfMode' /\ EndIsComing'
  <1>1. endTimer \in Tasks \cup {0}
    BY DEF IInv, TypeOK
  <1>2. RunOK'
    BY DEF IInv, RunOK
  <1>3. StoredMade' /\ TimerOfMode'
    BY <1>1 DEF IInv, StoredMade, TimerOfMode, Active
  <1>4. EndIsComing'
    BY DEF IInv, EndIsComing, Active
  <1> QED
    BY <1>2, <1>3, <1>4

\* The packet arrives, the mode is started or stopped.
LEMMA SkillSteps ==
  ASSUME IInv, NEW p \in Handlers,
         \/ \E m \in Modes : Receive(p, "start", m) \/ Receive(p, "stop", m)
         \/ StartMode(p) \/ StopMode(p) \/ StopModeJob(p) \/ Leave(p)
  PROVE  IInv'
  <1>0. JobsTypeOK /\ RestOK /\ h[p] \in Handler /\ p \in Procs
    BY TypeParts, Constants DEF IInv, RestOK, CtxOK
  <1>1. ASSUME NEW m \in Modes, Receive(p, "start", m) \/ Receive(p, "stop", m) PROVE IInv'
    <2> DEFINE r(pc) == [IdleHandler EXCEPT !.pc = pc, !.type = m]
    <2>1. r("start") \in Handler /\ r("stop") \in Handler
          /\ r("start").pc = "start" /\ r("stop").pc = "stop"
      BY DEF IdleHandler, Handler
    <2>a. PICK pc \in {"start", "stop"} : Receive(p, pc, m)
      BY <1>1
    <2> DEFINE q == r(pc)
    <2>b. /\ q \in Handler /\ q.pc \in {"start", "stop"}
          /\ h' = [h EXCEPT ![p] = q] /\ h[p].pc = "idle"
          /\ UNCHANGED <<jobVars, closing, ctxVars, timer, drain, removers, resets, inWorld>>
      BY <2>1, <2>a DEF Receive, Idle
    <2> HIDE DEF q
    <2>2. JobsTypeOK' /\ RestOK'
      BY <1>0, <2>b DEF RestOK, CtxOK, ctxVars, jobVars, JobsTypeOK
    <2>3. RunOK' /\ StoredMade' /\ TimerOfMode' /\ EndIsComing'
      BY <2>b, HandlerMoves DEF ctxVars
    <2> QED
      BY <2>2, <2>3, Assemble
  <1>2. CASE StartMode(p)
    <2>1. h' \in [Handlers -> Handler]
      BY <1>0, <1>2 DEF StartMode, Goto, Handler, RestOK, CtxOK
    <2>2. CASE ~Active /\ sp >= 1
      <3>1. /\ mode' = [type |-> h[p].type, gen |-> gen + 1, sp |-> GaugeSP]
            /\ sp' = sp - 1 /\ gen' = gen + 1
            /\ h' = [h EXCEPT ![p].pc = "saved"]
            /\ UNCHANGED <<jobVars, closing, endTimer, timer, drain, removers, resets, inWorld>>
        BY <1>2, <2>2 DEF StartMode, Goto
      <3>a. JobsTypeOK'
        BY <1>0, <3>1 DEF JobsTypeOK, jobVars
      <3>d. h[p].type \in Modes \cup {0}
        BY <1>0 DEF Handler
      <3>e. gen + 1 \in Nat /\ GaugeSP \in Nat
        BY <1>0, BattleAssumption DEF RestOK, CtxOK
      <3>b. mode' \in [type : Modes \cup {0}, gen : Nat, sp : Nat] /\ gen' \in Nat
        BY <3>1, <3>d, <3>e
      <3>c. sp' \in 0..Lamps
        BY <1>0, <2>2, <3>1, BattleAssumption DEF RestOK
      <3>2. JobsTypeOK' /\ RestOK'
        BY <1>0, <2>1, <3>1, <3>a, <3>b, <3>c DEF RestOK, CtxOK
      <3>3. endTimer = 0
        BY <2>2 DEF IInv, TimerOfMode
      <3>4. RunOK' /\ StoredMade' /\ TimerOfMode'
        BY <1>0, <3>1, <3>3 DEF IInv, RunOK, StoredMade, TimerOfMode, RestOK, CtxOK
      <3>5. EndIsComing'
        BY <1>0, <3>1 DEF EndIsComing, RestOK, CtxOK
      <3> QED
        BY <3>2, <3>4, <3>5, Assemble
    <2>3. CASE ~(~Active /\ sp >= 1)
      <3>1. /\ h' = [h EXCEPT ![p].pc = "leave"] /\ h[p].pc = "start"
            /\ UNCHANGED <<jobVars, closing, mode, gen, sp, endTimer, timer, drain, removers,
                           resets, inWorld>>
        BY <1>2, <2>3 DEF StartMode, Goto
      <3> DEFINE r == [h[p] EXCEPT !.pc = "leave"]
      <3>2. r \in Handler /\ r.pc = "leave" /\ h' = [h EXCEPT ![p] = r]
        BY <1>0, <3>1 DEF Handler
      <3>3. RunOK' /\ StoredMade' /\ TimerOfMode' /\ EndIsComing'
        <4> HIDE DEF r
        <4> QED
          BY <3>1, <3>2, HandlerMoves
      <3>4. JobsTypeOK' /\ RestOK'
        BY <1>0, <2>1, <3>1 DEF RestOK, CtxOK, JobsTypeOK, jobVars
      <3> QED
        BY <3>3, <3>4, Assemble
    <2> QED
      BY <2>2, <2>3
  <1>3. CASE StopMode(p)
    <2>1. h' \in [Handlers -> Handler]
      BY <1>0, <1>3 DEF StopMode, Goto, Handler, RestOK, CtxOK
    <2>2. CASE Active => mode.type = h[p].type
      <3>1. /\ mode' = NoMode /\ endTimer' = 0 /\ timer' = StopTimer(endTimer)
            /\ h' = [h EXCEPT ![p].pc = "stopped"]
            /\ UNCHANGED <<jobVars, closing, gen, sp, drain, removers, resets, inWorld>>
        BY <1>3, <2>2 DEF StopMode, Goto
      <3>2. JobsTypeOK' /\ RestOK'
        BY <1>0, <2>1, <3>1, StopTimerOK DEF RestOK, CtxOK, JobsTypeOK, jobVars, NoMode
      <3>3. RunOK' /\ StoredMade' /\ TimerOfMode' /\ EndIsComing'
        BY <1>0, <3>1, StopTimerOK, ModeDrops DEF RestOK, CtxOK
      <3> QED
        BY <3>2, <3>3, Assemble
    <2>3. CASE ~(Active => mode.type = h[p].type)
      <3>1. /\ h' = [h EXCEPT ![p].pc = "leave"] /\ h[p].pc = "stop"
            /\ UNCHANGED <<jobVars, closing, mode, gen, sp, endTimer, timer, drain, removers,
                           resets, inWorld>>
        BY <1>3, <2>3 DEF StopMode, Goto
      <3> DEFINE r == [h[p] EXCEPT !.pc = "leave"]
      <3>2. r \in Handler /\ r.pc = "leave" /\ h' = [h EXCEPT ![p] = r]
        BY <1>0, <3>1 DEF Handler
      <3>3. RunOK' /\ StoredMade' /\ TimerOfMode' /\ EndIsComing'
        <4> HIDE DEF r
        <4> QED
          BY <3>1, <3>2, HandlerMoves
      <3>4. JobsTypeOK' /\ RestOK'
        BY <1>0, <2>1, <3>1 DEF RestOK, CtxOK, JobsTypeOK, jobVars
      <3> QED
        BY <3>3, <3>4, Assemble
    <2> QED
      BY <2>2, <2>3
  <1>4. CASE StopModeJob(p)
    <2> DEFINE r == [h[p] EXCEPT !.pc = "leave"]
    <2>1. /\ h[p].pc = "stopped" /\ h' = [h EXCEPT ![p] = r] /\ r \in Handler /\ r.pc = "leave"
          /\ RemoveJob(p, Drain)
          /\ UNCHANGED <<jobs, task, closing, ctxVars, timer, drain, removers, resets, inWorld>>
      BY <1>0, <1>4 DEF StopModeJob, Goto, Handler
    <2> HIDE DEF r
    <2>2. JobsTypeOK'
      BY <1>0, <2>1, JobTypes, Constants DEF JobsTypeOK, RemoveJob, RemoveJobs, Free
    <2>3. RestOK'
      BY <1>0, <2>1 DEF RestOK, CtxOK, ctxVars
    <2>4. RunOK' /\ StoredMade' /\ TimerOfMode' /\ EndIsComing'
      BY <2>1, HandlerMoves DEF ctxVars
    <2> QED
      BY <2>2, <2>3, <2>4, Assemble
  <1>5. CASE Leave(p)
    <2>1. /\ h[p].pc = "leave" /\ h' = [h EXCEPT ![p] = IdleHandler]
          /\ IdleHandler \in Handler /\ IdleHandler.pc = "idle"
          /\ UNCHANGED <<jobVars, closing, ctxVars, timer, drain, removers, resets, inWorld>>
      BY <1>5 DEF Leave, IdleHandler, Handler
    <2>2. JobsTypeOK' /\ RestOK'
      BY <1>0, <2>1 DEF RestOK, CtxOK, ctxVars, JobsTypeOK, jobVars
    <2>3. RunOK' /\ StoredMade' /\ TimerOfMode' /\ EndIsComing'
      BY <2>1, HandlerMoves DEF ctxVars
    <2> QED
      BY <2>2, <2>3, Assemble
  <1> QED
    BY <1>1, <1>2, <1>3, <1>4, <1>5

\* startBattleModeDrain up to the timer, and from the timer on.
LEMMA DrainSetup ==
  ASSUME IInv, NEW p \in Handlers,
         ReadGeneration(p) \/ RemoveOldDrain(p) \/ CreateDrain(p) \/ AddDrain(p)
  PROVE  IInv'
  <1>0. JobsTypeOK /\ RestOK /\ h[p] \in Handler /\ p \in Procs
    BY TypeParts, Constants DEF IInv, RestOK, CtxOK
  <1>a. mode.gen \in Nat
    BY <1>0 DEF RestOK, CtxOK
  <1>1. CASE ReadGeneration(p)
    <2> DEFINE r == [h[p] EXCEPT !.pc = "read", !.gen = mode.gen]
    <2>1. /\ h' = [h EXCEPT ![p] = r] /\ r \in Handler
          /\ r.pc = "read" /\ r.gen = mode.gen
          /\ UNCHANGED <<jobVars, closing, ctxVars, timer, drain, removers, resets, inWorld>>
      BY <1>0, <1>1, <1>a DEF ReadGeneration, Handler
    <2> HIDE DEF r
    <2>2. JobsTypeOK' /\ RestOK'
      BY <1>0, <2>1 DEF RestOK, CtxOK, ctxVars, jobVars, JobsTypeOK
    <2>3. RunOK' /\ StoredMade' /\ TimerOfMode' /\ EndIsComing'
      BY <2>1, HandlerMoves DEF ctxVars
    <2> QED
      BY <2>2, <2>3, Assemble
  <1>2. CASE RemoveOldDrain(p)
    <2> DEFINE r == [h[p] EXCEPT !.pc = "removed"]
    <2>1. /\ h' = [h EXCEPT ![p] = r] /\ r \in Handler /\ h[p].pc = "read"
          /\ r.pc = "removed" /\ r.gen = h[p].gen
          /\ RemoveJob(p, Drain)
          /\ UNCHANGED <<jobs, task, closing, ctxVars, timer, drain, removers, resets, inWorld>>
      BY <1>0, <1>2 DEF RemoveOldDrain, Goto, Handler
    <2> HIDE DEF r
    <2>2. JobsTypeOK'
      BY <1>0, <2>1, Constants DEF JobsTypeOK, RemoveJob, RemoveJobs, Free
    <2>3. RestOK'
      BY <1>0, <2>1 DEF RestOK, CtxOK, ctxVars
    <2>4. RunOK' /\ StoredMade' /\ TimerOfMode' /\ EndIsComing'
      BY <2>1, HandlerMoves DEF ctxVars
    <2> QED
      BY <2>2, <2>3, <2>4, Assemble
  <1>3. CASE CreateDrain(p)
    <2> DEFINE r == [h[p] EXCEPT !.pc = "created"]
    <2>1. /\ h' = [h EXCEPT ![p] = r] /\ r \in Handler /\ h[p].pc = "active"
          /\ r.pc = "created" /\ r.gen = h[p].gen /\ r.run = h[p].run
          /\ UNCHANGED <<jobs, lock, closing, ctxVars, timer, drain, removers, resets, inWorld>>
      BY <1>0, <1>3 DEF CreateDrain, Goto, Handler
    <2> HIDE DEF r
    <2>2. JobsTypeOK'
      BY <1>0, <1>3, <2>1 DEF CreateDrain, NewPeriodicTask, JobsTypeOK
    <2>3. RestOK'
      BY <1>0, <2>1 DEF RestOK, CtxOK, ctxVars
    <2>4. RunOK' /\ StoredMade' /\ TimerOfMode' /\ EndIsComing'
      BY <2>1, HandlerMoves DEF ctxVars
    <2> QED
      BY <2>2, <2>3, <2>4, Assemble
  <1>4. CASE AddDrain(p)
    <2> DEFINE r == [h[p] EXCEPT !.pc = "leave"]
    <2>1. /\ h' = [h EXCEPT ![p] = r] /\ r \in Handler /\ h[p].pc = "created"
          /\ r.pc = "leave"
          /\ UNCHANGED <<task, lock, closing, ctxVars, timer, drain, removers, resets, inWorld>>
      BY <1>0, <1>4 DEF AddDrain, Goto, Handler
    <2> HIDE DEF r
    <2>a. h[p].run \in Tasks /\ jobs' = [jobs EXCEPT ![Drain] = h[p].run]
      BY <1>4, <2>1 DEF AddDrain, AddJob, IInv, RunOK
    <2>2. JobsTypeOK'
      BY <1>0, <2>1, <2>a DEF JobsTypeOK
    <2>3. RestOK'
      BY <1>0, <2>1 DEF RestOK, CtxOK, ctxVars
    <2>4. RunOK' /\ StoredMade' /\ TimerOfMode' /\ EndIsComing'
      BY <2>1, HandlerMoves DEF ctxVars
    <2> QED
      BY <2>2, <2>3, <2>4, Assemble
  <1> QED
    BY <1>1, <1>2, <1>3, <1>4

\* The timer is made and stored, or stopped when its mode is over.
LEMMA TimerSetup ==
  ASSUME IInv, NEW p \in Handlers,
         StoreTimer(p) \/ \E k \in Tasks : ArmTimer(p, k)
  PROVE  IInv'
  <1>0. JobsTypeOK /\ RestOK /\ CtxOK /\ h[p] \in Handler
    BY TypeParts DEF IInv, RestOK, CtxOK
  <1>1. ASSUME NEW k \in Tasks, ArmTimer(p, k) PROVE IInv'
    <2>a. h[p].gen \in Nat
      BY <1>0 DEF Handler
    <2>1. /\ timer' = [timer EXCEPT ![k] = [pc |-> "armed", gen |-> h[p].gen]]
          /\ h' = [h EXCEPT ![p].pc = "armed", ![p].run = k]
          /\ h[p].pc = "removed" /\ timer[k].pc = "new"
          /\ UNCHANGED <<jobVars, closing, ctxVars, drain, removers, resets, inWorld>>
      BY <1>1 DEF ArmTimer
    <2>2. h' \in [Handlers -> Handler]
      BY <1>0, <2>1 DEF CtxOK, Handler
    <2>b. /\ h'[p].pc = "armed" /\ h'[p].run = k /\ h'[p].gen = h[p].gen
          /\ \A q \in Handlers \ {p} : h'[q] = h[q]
      BY <1>0, <2>1 DEF CtxOK, Handler
    <2>3. /\ timer' \in [Tasks -> [pc : {"new", "armed", "stopped", "firing", "ended", "done"},
                                  gen : Nat]]
          /\ timer'[k].pc = "armed" /\ timer'[k].gen = h[p].gen
          /\ \A j \in Tasks \ {k} : timer'[j] = timer[j]
      BY <1>0, <2>1, <2>a DEF CtxOK
    <2>4. JobsTypeOK' /\ RestOK'
      BY <1>0, <2>1, <2>2, <2>3 DEF RestOK, CtxOK, ctxVars, jobVars, JobsTypeOK
    <2>5. RunOK'
      <3> SUFFICES ASSUME NEW q \in Handlers, h'[q].pc \in {"armed", "active", "created"}
                   PROVE  /\ h'[q].run \in Tasks
                          /\ timer'[h'[q].run].pc # "new"
                          /\ timer'[h'[q].run].gen = h'[q].gen
        BY DEF RunOK
      <3>1. CASE q = p
        BY <2>b, <2>3, <3>1
      <3>2. CASE q # p
        <4>1. h'[q] = h[q]
          BY <2>b, <3>2
        <4>2. h[q].run \in Tasks /\ timer[h[q].run].pc # "new" /\ timer[h[q].run].gen = h[q].gen
          BY <4>1 DEF IInv, RunOK
        <4>3. timer'[h[q].run] = timer[h[q].run]
          BY <2>1, <2>3, <4>2
        <4> QED
          BY <4>1, <4>2, <4>3
      <3> QED
        BY <3>1, <3>2
    <2>6. StoredMade' /\ TimerOfMode'
      BY <1>0, <2>1, <2>3 DEF IInv, StoredMade, TimerOfMode, Active, CtxOK, ctxVars
    <2>7. EndIsComing'
      <3> SUFFICES ASSUME Active PROVE EndIsComing'
        BY <2>1 DEF EndIsComing, Active, ctxVars
      <3>1. CASE \E j \in Tasks : timer[j].pc \in {"armed", "firing"} /\ timer[j].gen = mode.gen
        BY <2>1, <2>3, <3>1 DEF EndIsComing, ctxVars
      <3>2. CASE h[p].gen = mode.gen
        BY <2>1, <2>3, <3>2 DEF EndIsComing, ctxVars
      <3>3. CASE \E q \in Handlers \ {p} :
                    \/ h[q].pc = "saved"
                    \/ h[q].pc \in {"read", "removed"} /\ h[q].gen = mode.gen
        BY <2>1, <2>b, <3>3 DEF EndIsComing, ctxVars
      <3> QED
        BY <2>1, <3>1, <3>2, <3>3 DEF IInv, EndIsComing
    <2> QED
      BY <2>4, <2>5, <2>6, <2>7, Assemble
  <1>2. CASE StoreTimer(p)
    <2> DEFINE k == h[p].run
               mine == Active /\ mode.gen = h[p].gen
    <2>1. /\ endTimer' = IF mine THEN k ELSE endTimer
          /\ timer' = IF mine THEN timer ELSE StopTimer(k)
          /\ h' = [h EXCEPT ![p].pc = IF mine THEN "active" ELSE "leave"]
          /\ h[p].pc = "armed"
          /\ UNCHANGED <<jobVars, closing, mode, gen, sp, drain, removers, resets, inWorld>>
      BY <1>2 DEF StoreTimer, Goto
    <2>2. k \in Tasks /\ timer[k].pc # "new" /\ timer[k].gen = h[p].gen
      BY <2>1 DEF IInv, RunOK
    <2>3. h' \in [Handlers -> Handler]
      BY <1>0, <2>1 DEF CtxOK, Handler
    <2>4. /\ h'[p].pc \in {"active", "leave"} /\ h'[p].run = h[p].run /\ h'[p].gen = h[p].gen
          /\ \A q \in Handlers \ {p} : h'[q] = h[q]
      BY <1>0, <2>1 DEF CtxOK, Handler
    <2> HIDE DEF k
    <2>5. /\ timer' \in [Tasks -> [pc : {"new", "armed", "stopped", "firing", "ended", "done"},
                                  gen : Nat]]
          /\ \A j \in Tasks : /\ timer'[j].gen = timer[j].gen
                              /\ (timer'[j].pc = "new") <=> (timer[j].pc = "new")
                              /\ j # k \/ mine => timer'[j].pc = timer[j].pc
      <3>1. CASE mine
        BY <1>0, <2>1, <3>1 DEF CtxOK
      <3>2. CASE ~mine
        <4> HIDE DEF mine
        <4> QED
          BY <1>0, <2>1, <2>2, <3>2, StopTimerOK
      <3> QED
        BY <3>1, <3>2
    <2>6. endTimer' \in Tasks \cup {0}
      BY <1>0, <2>1, <2>2 DEF CtxOK
    <2>7. JobsTypeOK' /\ RestOK'
      BY <1>0, <2>1, <2>3, <2>5, <2>6 DEF RestOK, CtxOK, jobVars, JobsTypeOK
    <2>8. RunOK'
      <3> SUFFICES ASSUME NEW q \in Handlers, h'[q].pc \in {"armed", "active", "created"}
                   PROVE  /\ h'[q].run \in Tasks
                          /\ timer'[h'[q].run].pc # "new"
                          /\ timer'[h'[q].run].gen = h'[q].gen
        BY DEF RunOK
      <3>1. h[q].pc \in {"armed", "active", "created"} /\ h'[q].run = h[q].run /\ h'[q].gen = h[q].gen
        BY <2>1, <2>4
      <3>2. h[q].run \in Tasks /\ timer[h[q].run].pc # "new" /\ timer[h[q].run].gen = h[q].gen
        BY <3>1 DEF IInv, RunOK
      <3> HIDE DEF mine
      <3> QED
        BY <2>5, <3>1, <3>2
    <2>9. StoredMade' /\ TimerOfMode'
      BY <1>0, <2>1, <2>2, <2>5 DEF IInv, StoredMade, TimerOfMode, Active, CtxOK
    <2>10. EndIsComing'
      <3> SUFFICES ASSUME Active PROVE EndIsComing'
        BY <2>1 DEF EndIsComing, Active
      <3>1. CASE \E j \in Tasks : timer[j].pc \in {"armed", "firing"} /\ timer[j].gen = mode.gen
        BY <2>1, <2>2, <2>5, <3>1 DEF EndIsComing
      <3>2. CASE \E q \in Handlers \ {p} :
                    \/ h[q].pc = "saved"
                    \/ h[q].pc \in {"read", "removed"} /\ h[q].gen = mode.gen
        BY <2>1, <2>4, <3>2 DEF EndIsComing
      <3> QED
        BY <2>1, <3>1, <3>2 DEF IInv, EndIsComing
    <2> QED
      BY <2>7, <2>8, <2>9, <2>10, Assemble
  <1> QED
    BY <1>1, <1>2

\* The timer fires, ends its mode or finds it over, and removes the drain job.
LEMMA TimerSteps ==
  ASSUME IInv, NEW k \in Tasks, TimerStep(k)
  PROVE  IInv'
  <1>0. JobsTypeOK /\ RestOK /\ CtxOK /\ k \in Procs
    BY TypeParts, Constants DEF IInv, RestOK
  <1>a. ASSUME NEW pc \in {"firing", "ended", "done"}, timer' = [timer EXCEPT ![k].pc = pc]
        PROVE  /\ timer' \in [Tasks -> [pc : {"new", "armed", "stopped", "firing", "ended", "done"},
                                       gen : Nat]]
               /\ \A j \in Tasks : /\ timer'[j].gen = timer[j].gen
                                   /\ timer[j].pc # "new" => timer'[j].pc # "new"
                                   /\ j # k => timer'[j].pc = timer[j].pc
               /\ timer'[k].pc = pc
    BY <1>0, <1>a DEF CtxOK
  <1>1. CASE FireTimer(k)
    <2>1. /\ timer' = [timer EXCEPT ![k].pc = "firing"]
          /\ UNCHANGED <<jobVars, closing, mode, gen, endTimer, sp, drain, removers, h, resets,
                         inWorld>>
      BY <1>1 DEF FireTimer, ctxVars
    <2>2. JobsTypeOK' /\ RestOK'
      BY <1>0, <1>a, <2>1 DEF RestOK, CtxOK, jobVars, JobsTypeOK
    <2>3. RunOK' /\ StoredMade' /\ TimerOfMode' /\ EndIsComing'
      BY <1>a, <2>1, ModeStays
    <2> QED
      BY <2>2, <2>3, Assemble
  <1>2. CASE finishBattleMode(k)
    <2>1. CASE Active /\ mode.gen = timer[k].gen
      <3>1. /\ timer' = [timer EXCEPT ![k].pc = "ended"] /\ mode' = NoMode /\ endTimer' = 0
            /\ UNCHANGED <<jobVars, closing, gen, sp, drain, removers, h, resets, inWorld>>
        BY <1>2, <2>1 DEF finishBattleMode
      <3>2. JobsTypeOK' /\ RestOK'
        BY <1>0, <1>a, <3>1 DEF RestOK, CtxOK, jobVars, JobsTypeOK, NoMode
      <3>3. RunOK' /\ StoredMade' /\ TimerOfMode' /\ EndIsComing'
        BY <1>a, <3>1, ModeDrops
      <3> QED
        BY <3>2, <3>3, Assemble
    <2>2. CASE ~(Active /\ mode.gen = timer[k].gen)
      <3>1. /\ timer' = [timer EXCEPT ![k].pc = "done"]
            /\ UNCHANGED <<jobVars, closing, mode, endTimer, gen, sp, drain, removers, h, resets,
                           inWorld>>
        BY <1>2, <2>2 DEF finishBattleMode
      <3>2. JobsTypeOK' /\ RestOK'
        BY <1>0, <1>a, <3>1 DEF RestOK, CtxOK, jobVars, JobsTypeOK
      <3>3. RunOK' /\ StoredMade' /\ TimerOfMode' /\ EndIsComing'
        BY <1>a, <2>2, <3>1, ModeStays
      <3> QED
        BY <3>2, <3>3, Assemble
    <2> QED
      BY <2>1, <2>2
  <1>3. CASE TimerJob(k)
    <2>1. /\ timer' = [timer EXCEPT ![k].pc = "done"] /\ timer[k].pc = "ended"
          /\ RemoveJob(k, Drain)
          /\ UNCHANGED <<jobs, task, closing, mode, gen, endTimer, sp, drain, removers, h, resets,
                         inWorld>>
      BY <1>3 DEF TimerJob, ctxVars
    <2>2. JobsTypeOK'
      BY <1>0, <2>1, Constants DEF JobsTypeOK, RemoveJob, RemoveJobs, Free
    <2>3. RestOK'
      BY <1>0, <1>a, <2>1 DEF RestOK, CtxOK
    <2>4. RunOK' /\ StoredMade' /\ TimerOfMode' /\ EndIsComing'
      BY <1>a, <2>1, ModeStays
    <2> QED
      BY <2>2, <2>3, <2>4, Assemble
  <1> QED
    BY <1>1, <1>2, <1>3 DEF TimerStep

\* The drain job takes its share, ends the mode or leaves it alone.
LEMMA DrainSteps ==
  ASSUME IInv, NEW k \in Tasks, DrainStep(k)
  PROVE  IInv'
  <1>0. JobsTypeOK /\ RestOK /\ CtxOK
    BY TypeParts DEF IInv, RestOK
  <1>1. task' \in [Tasks -> {"new", "top", "select", "tick", "done"}]
    BY <1>0 DEF DrainStep, CallAtTop, CallOnTick, Tick, JobsTypeOK
  <1>2. UNCHANGED <<jobs, lock, closing, gen, sp, h, resets, inWorld>>
    BY DEF DrainStep
  <1>3. JobsTypeOK'
    BY <1>0, <1>1, <1>2 DEF JobsTypeOK
  <1>4. drain' \in [Tasks -> {"first", "ready", "drained"}]
    BY <1>0 DEF DrainStep, DrainCallback, RestOK
  <1>5. CASE UNCHANGED <<mode, endTimer, timer, removers>>
    <2>1. RestOK'
      BY <1>0, <1>2, <1>4, <1>5 DEF RestOK, CtxOK
    <2>2. RunOK' /\ StoredMade' /\ TimerOfMode' /\ EndIsComing'
      BY <1>2, <1>5, ModeStays
    <2> QED
      BY <1>3, <2>1, <2>2, Assemble
  <1>6. CASE consumeBattleModeGauge(k)
    <2> DEFINE mine == Active /\ mode.gen = timer[k].gen
               left == mode.sp - SPWaste
               goesOn == mine /\ SPWaste > 0 /\ left >= SPWaste
               ends == mine /\ ~goesOn
    <2>1. /\ mode' = IF goesOn THEN [mode EXCEPT !.sp = left] ELSE IF ends THEN NoMode ELSE mode
          /\ endTimer' = IF ends THEN 0 ELSE endTimer
          /\ timer' = IF ends THEN StopTimer(endTimer) ELSE timer
          /\ IF goesOn THEN UNCHANGED removers ELSE GoRemove
      BY <1>6 DEF consumeBattleModeGauge
    <2>2. removers' \in 0..MaxRemovers
      BY <1>0, <2>1 DEF GoRemove, MaxRemovers, RestOK
    <2>3. CASE ends
      <3>1. mode' = NoMode /\ endTimer' = 0 /\ timer' = StopTimer(endTimer)
        BY <2>1, <2>3
      <3>2. RestOK'
        BY <1>0, <1>2, <1>4, <2>2, <3>1, StopTimerOK DEF RestOK, CtxOK, NoMode
      <3>3. RunOK' /\ StoredMade' /\ TimerOfMode' /\ EndIsComing'
        BY <1>0, <1>2, <3>1, StopTimerOK, ModeDrops DEF CtxOK
      <3> QED
        BY <1>3, <3>2, <3>3, Assemble
    <2>4. CASE ~ends
      <3>1. endTimer' = endTimer /\ timer' = timer
        BY <2>1, <2>4
      <3>2. /\ mode' \in [type : Modes \cup {0}, gen : Nat, sp : Nat]
            /\ mode'.type = mode.type /\ mode'.gen = mode.gen
        <4>1. CASE goesOn
          <5>1. left \in Nat
            BY <1>0, <4>1, BattleAssumption DEF CtxOK
          <5>2. mode' = [mode EXCEPT !.sp = left]
            BY <2>1, <4>1
          <5> HIDE DEF left, goesOn, mine
          <5> QED
            BY <1>0, <5>1, <5>2 DEF CtxOK
        <4>2. CASE ~goesOn
          BY <1>0, <2>1, <2>4, <4>2 DEF CtxOK
        <4> QED
          BY <4>1, <4>2
      <3>3. RestOK'
        BY <1>0, <1>2, <1>4, <2>2, <3>1, <3>2 DEF RestOK, CtxOK
      <3>4. RunOK' /\ StoredMade' /\ TimerOfMode' /\ EndIsComing'
        BY <1>2, <3>1, <3>2, ModeStays
      <3> QED
        BY <1>3, <3>3, <3>4, Assemble
    <2> QED
      BY <2>3, <2>4
  <1> QED
    BY <1>5, <1>6 DEF DrainStep, DrainCallback

\* Steps on the job list alone, deaths, departures and the next character.
LEMMA SessionSteps ==
  ASSUME IInv,
         \/ RemoverJob \/ StopDrain \/ Initialized \/ CloseSession
  PROVE  IInv'
  <1>0. JobsTypeOK /\ RestOK /\ CtxOK
    BY TypeParts DEF IInv, RestOK
  <1>1. UNCHANGED <<mode, gen, endTimer, sp, timer, drain, h, resets>>
        /\ removers' \in 0..MaxRemovers /\ inWorld' \in BOOLEAN
    <2>1. CASE RemoverJob
      BY <1>0, <2>1 DEF RemoverJob, ctxVars, RestOK, MaxRemovers
    <2>2. CASE StopDrain \/ CloseSession
      BY <1>0, <2>2 DEF StopDrain, CloseSession, modeVars, RestOK
    <2>3. CASE Initialized
      BY <1>0, <2>3 DEF Initialized, ctxVars, RestOK
    <2> QED
      BY <2>1, <2>2, <2>3
  <1>2. RestOK'
    BY <1>0, <1>1 DEF RestOK, CtxOK
  <1>3. RunOK' /\ StoredMade' /\ TimerOfMode' /\ EndIsComing'
    BY <1>1, ModeStays
  <1>4. JobsTypeOK'
    <2>1. CASE RemoverJob
      BY <1>0, <2>1, Constants DEF RemoverJob, JobsTypeOK, RemoveJob, RemoveJobs, Free
    <2>2. CASE StopDrain
      BY <1>0, <2>2, Constants DEF StopDrain, Stop, JobsTypeOK, Free
    <2>3. CASE Initialized
      BY <1>0, <2>3 DEF Initialized, jobVars, JobsTypeOK
    <2>4. CASE CloseSession
      BY <1>0, <2>4, Constants DEF CloseSession, JobsTypeOK, RemoveAllJobs, RemoveJobs, Free
    <2> QED
      BY <2>1, <2>2, <2>3, <2>4
  <1> QED
    BY <1>2, <1>3, <1>4, Assemble

\* A death or a departure from the world drops job, mode and timer.
LEMMA ResetSteps ==
  ASSUME IInv, NEW p \in Handlers,
         Uninitialze(p) \/ DeathWarp(p) \/ resetBattleMode(p)
  PROVE  IInv'
  <1>0. JobsTypeOK /\ RestOK /\ CtxOK /\ h[p] \in Handler /\ p \in Procs
    BY TypeParts, Constants DEF IInv, RestOK, CtxOK
  <1>1. ASSUME NEW pc \in {"exit", "reset"}, Reset(p, pc) PROVE IInv'
    <2> DEFINE r == [h[p] EXCEPT !.pc = pc]
    <2>1. /\ h' = [h EXCEPT ![p] = r] /\ r \in Handler /\ h[p].pc = "idle"
          /\ r.pc \in {"exit", "reset"}
          /\ resets < MaxResets /\ resets' = resets + 1
          /\ RemoveJob(p, Drain)
          /\ UNCHANGED <<jobs, task, closing, ctxVars, timer, drain, removers, inWorld>>
      BY <1>0, <1>1 DEF Reset, Goto, Handler, Idle
    <2> HIDE DEF r
    <2>2. JobsTypeOK'
      BY <1>0, <2>1, Constants DEF JobsTypeOK, RemoveJob, RemoveJobs, Free
    <2>a. resets' \in 0..MaxResets
      BY <1>0, <2>1, BattleAssumption DEF RestOK
    <2>3. RestOK'
      BY <1>0, <2>1, <2>a DEF RestOK, CtxOK, ctxVars
    <2>4. RunOK' /\ StoredMade' /\ TimerOfMode' /\ EndIsComing'
      BY <2>1, HandlerMoves DEF ctxVars
    <2> QED
      BY <2>2, <2>3, <2>4, Assemble
  <1>2. CASE resetBattleMode(p)
    <2>1. /\ mode' = NoMode /\ endTimer' = 0 /\ timer' = StopTimer(endTimer) /\ gen' = gen + 1
          /\ inWorld' \in BOOLEAN
          /\ h' = [h EXCEPT ![p] = IdleHandler]
          /\ IdleHandler \in Handler /\ IdleHandler.pc = "idle"
          /\ UNCHANGED <<jobVars, closing, sp, drain, removers, resets>>
      BY <1>2 DEF resetBattleMode, IdleHandler, Handler
    <2>2. JobsTypeOK'
      BY <1>0, <2>1 DEF JobsTypeOK, jobVars
    <2>3. RestOK'
      BY <1>0, <2>1, StopTimerOK DEF RestOK, CtxOK, NoMode
    <2>4. RunOK' /\ StoredMade' /\ TimerOfMode' /\ EndIsComing'
      BY <1>0, <2>1, StopTimerOK, ModeDrops DEF CtxOK
    <2> QED
      BY <2>2, <2>3, <2>4, Assemble
  <1> QED
    BY <1>1, <1>2 DEF Uninitialze, DeathWarp

\* Every step keeps the invariant.
LEMMA NextIInv == IInv /\ [Next]_vars => IInv'
  <1> SUFFICES ASSUME IInv, [Next]_vars PROVE IInv'
    OBVIOUS
  <1>1. CASE UNCHANGED vars
    BY <1>1 DEF vars, IInv, TypeOK, JobsTypeOK, RunOK, StoredMade, TimerOfMode, EndIsComing, Active
  <1>2. CASE \E p \in Handlers, m \in Modes : Receive(p, "start", m) \/ Receive(p, "stop", m)
    BY <1>2, SkillSteps
  <1>3. CASE \E p \in Handlers : Uninitialze(p) \/ DeathWarp(p) \/ HandlerStep(p)
    BY <1>3, SkillSteps, DrainSetup, TimerSetup, ResetSteps DEF HandlerStep
  <1>4. CASE \E k \in Tasks : TimerStep(k) \/ DrainStep(k)
    BY <1>4, TimerSteps, DrainSteps
  <1>5. CASE RemoverJob \/ StopDrain \/ Initialized \/ CloseSession
    BY <1>5, SessionSteps
  <1> QED
    BY <1>1, <1>2, <1>3, <1>4, <1>5 DEF Next

\* The invariant holds in every reachable state.
THEOREM BattleInvariant == Spec => []IInv
  BY InitIInv, NextIInv, PTL DEF Spec

\* Types, for every number of handlers, lamps and resets (battle_mode.go).
THEOREM BattleTypeOK == Spec => []TypeOK
  <1>1. IInv => TypeOK
    BY DEF IInv
  <1> QED
    BY <1>1, BattleInvariant, PTL

\* No interleaving of starts, stops, resets, timers and drain jobs leaves an
\* active mode that nothing is under way to end (startBattleModeDrain).
THEOREM BattleEndIsComing == Spec => []EndIsComing
  <1>1. IInv => EndIsComing
    BY DEF IInv
  <1> QED
    BY <1>1, BattleInvariant, PTL

\* Context.BattleModeEndTimer is always the timer of the active mode
\* (startBattleModeDrain, finishBattleMode, resetBattleMode).
THEOREM BattleTimerOfMode == Spec => []TimerOfMode
  <1>1. IInv => TimerOfMode
    BY DEF IInv
  <1> QED
    BY <1>1, BattleInvariant, PTL
-----------------------------------------------------------------------------
(* What is left of an earlier mode. *)

\* Only finishBattleMode ends a timer that fires, only the drain job takes a share.
LEMMA OthersSpare ==
  ASSUME IInv, [Next]_vars, NEW k \in Tasks
  PROVE  /\ timer[k].pc = "firing" /\ timer'[k].pc # "firing" => finishBattleMode(k)
         /\ drain[k] = "ready" /\ drain'[k] = "drained" => consumeBattleModeGauge(k)
  <1>1. CtxOK /\ timer \in [Tasks -> [pc : {"new", "armed", "stopped", "firing", "ended", "done"}, gen : Nat]]
        /\ drain \in [Tasks -> {"first", "ready", "drained"}]
    BY DEF IInv, TypeOK, CtxOK
  <1>2. ASSUME NEW t \in Tasks \cup {0}
        PROVE  timer[k].pc = "firing" => StopTimer(t)[k] = timer[k]
    BY <1>1 DEF StopTimer
  <1>3. endTimer \in Tasks \cup {0} /\ h \in [Handlers -> Handler]
    BY <1>1 DEF CtxOK
  <1>4. CASE UNCHANGED <<timer, drain>>
    BY <1>1, <1>4
  <1>5. CASE UNCHANGED drain /\ \E t \in Tasks \cup {0} : timer' = StopTimer(t)
    BY <1>1, <1>2, <1>5
  <1>6. CASE UNCHANGED vars
    BY <1>4, <1>6 DEF vars
  <1>7. CASE \E p \in Handlers, m \in Modes : Receive(p, "start", m) \/ Receive(p, "stop", m)
    BY <1>4, <1>7 DEF Receive
  <1>8. CASE \E p \in Handlers : Uninitialze(p) \/ DeathWarp(p) \/ HandlerStep(p)
    <2>1. PICK p \in Handlers : Uninitialze(p) \/ DeathWarp(p) \/ HandlerStep(p)
      BY <1>8
    <2>2. CASE StopMode(p) \/ resetBattleMode(p)
      <3>1. UNCHANGED drain /\ (timer' = timer \/ timer' = StopTimer(endTimer))
        BY <2>2 DEF StopMode, resetBattleMode
      <3> QED BY <1>3, <1>4, <1>5, <3>1
    <2>3. CASE StoreTimer(p)
      <3>1. UNCHANGED drain /\ (timer' = timer \/ timer' = StopTimer(h[p].run))
        BY <2>3 DEF StoreTimer
      <3>2. h[p].run \in Tasks \cup {0}
        BY <1>3 DEF Handler
      <3> QED BY <1>4, <1>5, <3>1, <3>2
    <2>4. CASE \E j \in Tasks : ArmTimer(p, j)
      BY <1>1, <2>4 DEF ArmTimer
    <2> QED BY <1>4, <2>1, <2>2, <2>3, <2>4
            DEF HandlerStep, Uninitialze, DeathWarp, Reset, StartMode, StopModeJob, Leave, ReadGeneration,
                RemoveOldDrain, CreateDrain, AddDrain
  <1>9. CASE \E j \in Tasks : TimerStep(j)
    <2>1. PICK j \in Tasks : TimerStep(j)
      BY <1>9
    <2>2. CASE finishBattleMode(j)
      BY <1>1, <2>2 DEF finishBattleMode
    <2>3. CASE FireTimer(j) \/ TimerJob(j)
      BY <1>1, <2>3 DEF FireTimer, TimerJob
    <2> QED BY <2>1, <2>2, <2>3 DEF TimerStep
  <1>10. CASE \E j \in Tasks : DrainStep(j)
    <2>1. PICK j \in Tasks : DrainStep(j)
      BY <1>10
    <2>2. CASE Tick(j) /\ drain' = [drain EXCEPT ![j] = IF @ = "drained" THEN "ready" ELSE @] /\ timer' = timer
      BY <1>1, <2>2
    <2>3. CASE drain[j] # "first" /\ UNCHANGED <<timer, drain>>
      BY <1>4, <2>3
    <2>4. CASE drain' = [drain EXCEPT ![j] = "ready"] /\ timer' = timer
      BY <1>1, <2>4
    <2>5. CASE drain[j] = "ready" /\ drain' = [drain EXCEPT ![j] = "drained"] /\ consumeBattleModeGauge(j)
      <3>1. timer' = timer \/ timer' = StopTimer(endTimer)
        BY <2>5 DEF consumeBattleModeGauge
      <3>2. timer[k].pc = "firing" => timer'[k] = timer[k]
        BY <1>2, <1>3, <3>1
      <3> QED BY <1>1, <2>5, <3>2
    <2> QED BY <2>1, <2>2, <2>3, <2>4, <2>5 DEF DrainStep, DrainCallback
  <1>11. CASE RemoverJob \/ StopDrain \/ Initialized \/ CloseSession
    BY <1>4, <1>11 DEF RemoverJob, StopDrain, Initialized, CloseSession, modeVars
  <1> QED BY <1>6, <1>7, <1>8, <1>9, <1>10, <1>11 DEF Next

\* A timer that fires late and a drain job that runs late leave the next mode
\* alone, however starts, stops and resets overlap (finishBattleMode,
\* consumeBattleModeGauge compare generations).
THEOREM BattleSparesNextMode == Spec => SparesNextMode
  <1>1. IInv /\ [Next]_vars =>
          [\A k \in Tasks :
             \/ timer[k].pc = "firing" /\ timer'[k].pc # "firing"
             \/ drain[k] = "ready" /\ drain'[k] = "drained"
             => mode' = mode \/ mode.gen = timer[k].gen]_vars
    <2> SUFFICES ASSUME IInv, [Next]_vars, NEW k \in Tasks, finishBattleMode(k) \/ consumeBattleModeGauge(k)
                 PROVE  mode' = mode \/ mode.gen = timer[k].gen
      BY OthersSpare
    <2> QED BY DEF finishBattleMode, consumeBattleModeGauge
  <1> QED BY <1>1, BattleInvariant, PTL DEF Spec, SparesNextMode

-----------------------------------------------------------------------------
(* Handlers that do not overlap. *)

\* One packet is handled at a time.
Alone == \A p, q \in Handlers : p = q

\* From the removal of the old drain job to the new one there is no job.
OldGone ==
    \A p \in Handlers :
        /\ h[p].pc = "removed" => jobs[Drain] = NoTask \/ lock.by = p
        /\ h[p].pc \in {"armed", "active", "created"} => jobs[Drain] = NoTask

\* Out of the world there is no mode and no packet to start one.
Away == ~inWorld => ~Active /\ \A p \in Handlers : Idle(p)

SoloInv == OldGone /\ NoOrphan /\ Away

\* A step that takes a handler to no place where it relies on an empty job list.
LEMMA JobsStay ==
  ASSUME IInv, SoloInv, UNCHANGED jobVars,
         \A p \in Handlers : h'[p].pc \in {"removed", "armed", "active", "created"} =>
           (h[p].pc \in {"armed", "active", "created"} \/ h'[p].pc = h[p].pc
             \/ (h[p].pc = "removed" /\ lock.by # p)),
         \A p \in Handlers : h[p].pc = "created" => h'[p] = h[p]
  PROVE  OldGone' /\ NoOrphan'
  <1>1. OldGone'
    BY DEF SoloInv, OldGone, jobVars
  <1>2. NoOrphan'
    BY DEF SoloInv, NoOrphan, Running, jobVars
  <1> QED BY <1>1, <1>2

\* A goroutine asks for the removal of the drain job: it holds jobMutex, or there
\* is no job.
LEMMA RemovalKeeps ==
  ASSUME IInv, SoloInv, NEW r \in Procs, RemoveJob(r, Drain), UNCHANGED <<jobs, task>>,
         \A p \in Handlers :
           \/ h'[p] = h[p]
           \/ h[p].pc # "created" /\ h'[p].pc \notin {"removed", "armed", "active", "created"}
           \/ h[p].pc # "created" /\ h'[p].pc = "removed" /\ p = r
  PROVE  OldGone' /\ NoOrphan'
  <1>1. lock.by = NoProc /\ (jobs[Drain] = NoTask \/ lock'.by = r)
    BY DEF RemoveJob, RemoveJobs, Free
  <1>2. \A p \in Handlers : p # NoProc
    BY Constants, SessionAssumption
  <1>3. OldGone'
    BY <1>1, <1>2 DEF SoloInv, OldGone
  <1>4. NoOrphan'
    BY DEF SoloInv, NoOrphan, Running
  <1> QED BY <1>3, <1>4

\* The list and the task of one handler's drain job.
LEMMA SoloJobs ==
  ASSUME IInv, SoloInv, Alone, [Next]_vars
  PROVE  OldGone' /\ NoOrphan'
  <1>1. /\ h \in [Handlers -> Handler] /\ jobs \in [Names -> Tasks \cup {NoTask}]
        /\ task \in [Tasks -> {"new", "top", "select", "tick", "done"}]
        /\ lock \in [by : Procs \cup {NoProc}, todo : SUBSET Names]
    BY DEF IInv, TypeOK, JobsTypeOK
  <1>2. CASE UNCHANGED vars
    BY <1>2, JobsStay DEF vars, jobVars
  <1>3. CASE \E p \in Handlers, m \in Modes : Receive(p, "start", m) \/ Receive(p, "stop", m)
    <2>1. PICK p \in Handlers, m \in Modes, pc \in {"start", "stop"} : Receive(p, pc, m)
      BY <1>3
    <2>2. /\ UNCHANGED jobVars /\ h[p].pc = "idle"
          /\ \A q \in Handlers : h'[q] = h[q] \/ (q = p /\ h'[q].pc = pc)
      BY <1>1, <2>1 DEF Receive, Idle, IdleHandler
    <2> QED BY <2>2, JobsStay
  <1>4. ASSUME NEW p \in Handlers, Uninitialze(p) \/ DeathWarp(p) \/ StopModeJob(p) \/ RemoveOldDrain(p)
        PROVE  OldGone' /\ NoOrphan'
    <2>1. /\ p \in Procs /\ RemoveJob(p, Drain) /\ UNCHANGED <<jobs, task>> /\ h[p].pc # "created"
          /\ \E pc \in {"exit", "reset", "leave", "removed"} : Goto(p, pc)
      BY <1>4, Constants DEF Uninitialze, DeathWarp, Reset, StopModeJob, RemoveOldDrain, Idle
    <2>2. \A q \in Handlers : h'[q] = h[q] \/ (q = p /\ h'[q].pc \in {"exit", "reset", "leave", "removed"})
      BY <1>1, <2>1 DEF Goto
    <2> QED BY <2>1, <2>2, RemovalKeeps
  <1>5. ASSUME NEW p \in Handlers,
               \/ StartMode(p) \/ StopMode(p) \/ Leave(p) \/ ReadGeneration(p) \/ StoreTimer(p)
               \/ resetBattleMode(p) \/ \E k \in Tasks : ArmTimer(p, k)
        PROVE  OldGone' /\ NoOrphan'
    <2>1. UNCHANGED jobVars
      BY <1>5 DEF StartMode, StopMode, Leave, ReadGeneration, StoreTimer, resetBattleMode, ArmTimer
    <2>2. \A q \in Handlers : q # p => h'[q] = h[q]
      BY <1>1, <1>5 DEF StartMode, StopMode, Leave, ReadGeneration, StoreTimer, resetBattleMode, ArmTimer, Goto
    <2>3. h[p].pc # "created"
      BY <1>5 DEF StartMode, StopMode, Leave, ReadGeneration, StoreTimer, resetBattleMode, ArmTimer
    <2>4. \/ h'[p].pc \notin {"removed", "armed", "active", "created"}
          \/ h[p].pc = "armed"
          \/ h[p].pc = "removed" /\ lock.by # p
      <3>1. ASSUME NEW pc, Goto(p, pc) PROVE h'[p].pc = pc
        BY <1>1, <3>1 DEF Goto, Handler
      <3>2. CASE StartMode(p)
        BY <3>1, <3>2 DEF StartMode
      <3>3. CASE StopMode(p)
        BY <3>1, <3>3 DEF StopMode
      <3>4. CASE Leave(p) \/ resetBattleMode(p)
        BY <1>1, <3>4 DEF Leave, resetBattleMode, IdleHandler
      <3>5. CASE ReadGeneration(p)
        <4>1. h'[p] = [h[p] EXCEPT !.pc = "read", !.gen = mode.gen]
          BY <1>1, <3>5 DEF ReadGeneration
        <4> QED BY <1>1, <4>1 DEF Handler
      <3>6. CASE StoreTimer(p) \/ \E k \in Tasks : ArmTimer(p, k)
        BY <3>6 DEF StoreTimer, ArmTimer, Returned
      <3> QED BY <1>5, <3>2, <3>3, <3>4, <3>5, <3>6
    <2> QED BY <2>1, <2>2, <2>3, <2>4, JobsStay
  <1>6. ASSUME NEW p \in Handlers, CreateDrain(p)
        PROVE  OldGone' /\ NoOrphan'
    <2>1. PICK k \in Tasks : k = h[p].run
      BY <1>6 DEF CreateDrain, IInv, RunOK
    <2>2. /\ task' = [task EXCEPT ![k] = "top"] /\ jobs' = jobs /\ lock' = lock
          /\ h[p].pc = "active" /\ h' = [h EXCEPT ![p].pc = "created"]
      BY <1>6, <2>1 DEF CreateDrain, NewPeriodicTask, Goto
    <2>3. OldGone'
      BY <1>1, <2>2 DEF SoloInv, OldGone
    <2>4. h'[p].pc = "created" /\ h'[p].run = k /\ \A q \in Handlers : h[q].pc = "created" => h'[q] = h[q]
      BY <1>1, <2>1, <2>2 DEF Handler
    <2>5. \A j \in Tasks : j # k => task'[j] = task[j]
      BY <1>1, <2>2
    <2>6. NoOrphan'
      BY <2>2, <2>4, <2>5 DEF SoloInv, NoOrphan, Running
    <2> QED BY <2>3, <2>6
  <1>7. ASSUME NEW p \in Handlers, AddDrain(p)
        PROVE  OldGone' /\ NoOrphan'
    <2>1. /\ jobs' = [jobs EXCEPT ![Drain] = h[p].run] /\ task' = task /\ h[p].pc = "created"
          /\ h' = [h EXCEPT ![p].pc = "leave"]
      BY <1>7 DEF AddDrain, AddJob, Goto
    <2>2. \A q \in Handlers : q = p
      BY DEF Alone
    <2>3. jobs[Drain] = NoTask /\ jobs'[Drain] = h[p].run
      BY <1>1, <2>1, Constants DEF SoloInv, OldGone
    <2>4. \A k \in Tasks : Running(k) => k = h[p].run
      BY <2>2, <2>3, Constants DEF SoloInv, NoOrphan
    <2>5. NoOrphan'
      BY <2>1, <2>3, <2>4 DEF NoOrphan, Running
    <2>6. OldGone'
      BY <1>1, <2>1, <2>2 DEF OldGone
    <2> QED BY <2>5, <2>6
  <1>8. CASE \E p \in Handlers : Uninitialze(p) \/ DeathWarp(p) \/ HandlerStep(p)
    BY <1>4, <1>5, <1>6, <1>7, <1>8 DEF HandlerStep
  <1>9. CASE \E k \in Tasks : TimerStep(k)
    <2>1. PICK k \in Tasks : TimerStep(k)
      BY <1>9
    <2>2. CASE TimerJob(k)
      BY <2>2, Constants, RemovalKeeps DEF TimerJob
    <2>3. CASE FireTimer(k) \/ finishBattleMode(k)
      BY <2>3, JobsStay DEF FireTimer, finishBattleMode
    <2> QED BY <2>1, <2>2, <2>3 DEF TimerStep
  <1>10. CASE \E k \in Tasks : DrainStep(k)
    <2>1. PICK k \in Tasks : DrainStep(k)
      BY <1>10
    <2>2. jobs' = jobs /\ lock' = lock /\ h' = h
      BY <2>1 DEF DrainStep
    <2>3. \A j \in Tasks : Running(j)' => Running(j)
      BY <1>1, <2>1 DEF DrainStep, CallAtTop, CallOnTick, Tick, Running
    <2>4. OldGone'
      BY <2>2 DEF SoloInv, OldGone
    <2>5. NoOrphan'
      BY <2>2, <2>3 DEF SoloInv, NoOrphan
    <2> QED BY <2>4, <2>5
  <1>11. CASE StopDrain
    <2>1. /\ Drain \in lock.todo /\ task' = [task EXCEPT ![jobs[Drain]] = "done"]
          /\ jobs' = [jobs EXCEPT ![Drain] = NoTask] /\ h' = h
      BY <1>11 DEF StopDrain, Stop, modeVars
    <2>2. jobs'[Drain] = NoTask /\ \A k \in Tasks : Running(k)' => Running(k) /\ k # jobs[Drain]
      BY <1>1, <2>1, Constants DEF Running
    <2>3. OldGone'
      BY <2>1, <2>2 DEF OldGone
    <2>4. NoOrphan'
      BY <2>1, <2>2 DEF SoloInv, NoOrphan
    <2> QED BY <2>3, <2>4
  <1>12. CASE RemoverJob
    BY <1>12, Constants, RemovalKeeps DEF RemoverJob
  <1>13. CASE CloseSession
    <2>1. RemoveJob(Closer, Drain)
      BY <1>13, BattleAssumption DEF CloseSession, RemoveAllJobs, RemoveJob
    <2> QED BY <1>13, <2>1, Constants, RemovalKeeps DEF CloseSession, modeVars
  <1>14. CASE Initialized
    BY <1>14, JobsStay DEF Initialized
  <1> QED BY <1>2, <1>3, <1>8, <1>9, <1>10, <1>11, <1>12, <1>13, <1>14 DEF Next

\* No packet comes in the lobby, and the one that left the world was the last.
LEMMA SoloAway ==
  ASSUME IInv, Away, Alone, [Next]_vars
  PROVE  Away'
  <1>1. h \in [Handlers -> Handler] /\ inWorld \in BOOLEAN
    BY DEF IInv, TypeOK
  <1>2. CASE UNCHANGED <<inWorld, h>> /\ (mode' = mode \/ mode' = NoMode \/ (Active /\ mode'.type = mode.type))
    BY <1>2 DEF Away, Active, Idle, NoMode
  <1>3. CASE inWorld /\ inWorld'
    BY <1>3 DEF Away
  <1>4. ASSUME NEW p \in Handlers, ~Idle(p)
        PROVE  inWorld
    BY <1>1, <1>4 DEF Away
  <1>5. CASE UNCHANGED vars
    BY <1>2, <1>5 DEF vars
  <1>6. CASE \E p \in Handlers, m \in Modes : Receive(p, "start", m) \/ Receive(p, "stop", m)
    BY <1>3, <1>6 DEF Receive
  <1>7. CASE \E p \in Handlers : Uninitialze(p) \/ DeathWarp(p) \/ HandlerStep(p)
    <2>1. PICK p \in Handlers : Uninitialze(p) \/ DeathWarp(p) \/ HandlerStep(p)
      BY <1>7
    <2>2. CASE Uninitialze(p) \/ DeathWarp(p)
      BY <1>3, <2>2 DEF Uninitialze, DeathWarp, Reset
    <2>3. CASE resetBattleMode(p)
      <3>1. mode' = NoMode /\ h' = [h EXCEPT ![p] = IdleHandler]
        BY <2>3 DEF resetBattleMode
      <3>2. \A q \in Handlers : q = p /\ h'[q] = IdleHandler
        BY <1>1, <3>1 DEF Alone
      <3> QED BY <3>1, <3>2 DEF Away, Active, NoMode, Idle, IdleHandler
    <2>4. CASE ~Idle(p) /\ inWorld' = inWorld
      BY <1>3, <1>4, <2>4
    <2> QED BY <2>1, <2>2, <2>3, <2>4
            DEF HandlerStep, StartMode, StopMode, StopModeJob, Leave, ReadGeneration, RemoveOldDrain, StoreTimer,
                ArmTimer, CreateDrain, AddDrain, Idle
  <1>8. CASE \E k \in Tasks : TimerStep(k)
    BY <1>2, <1>8 DEF TimerStep, FireTimer, finishBattleMode, TimerJob, ctxVars
  <1>9. CASE \E k \in Tasks : DrainStep(k)
    <2>1. UNCHANGED <<inWorld, h>>
      BY <1>9 DEF DrainStep
    <2>2. mode \in [type : Modes \cup {0}, gen : Nat, sp : Nat]
      BY DEF IInv, TypeOK
    <2>3. mode' = mode \/ mode' = NoMode \/ (Active /\ mode'.type = mode.type)
      BY <1>9, <2>2 DEF DrainStep, DrainCallback, consumeBattleModeGauge
    <2> QED BY <1>2, <2>1, <2>3
  <1>10. CASE RemoverJob \/ StopDrain \/ CloseSession
    BY <1>2, <1>10 DEF RemoverJob, StopDrain, CloseSession, modeVars, ctxVars
  <1>11. CASE Initialized
    BY <1>11 DEF Initialized, Away
  <1> QED BY <1>5, <1>6, <1>7, <1>8, <1>9, <1>10, <1>11 DEF Next

\* With one packet at a time the parts hold in every state.
LEMMA SoloInvariant ==
  ASSUME Alone
  PROVE  Spec => []SoloInv
  <1>1. Init => SoloInv
    BY Constants DEF Init, JobsInit, SoloInv, OldGone, NoOrphan, Away, Running, IdleHandler, NoMode
  <1>2. IInv /\ SoloInv /\ [Next]_vars => SoloInv'
    BY SoloJobs, SoloAway DEF SoloInv
  <1> QED BY <1>1, <1>2, BattleInvariant, PTL DEF Spec

\* As long as packets do not overlap, a drain job that runs is listed under its
\* name or about to be, so that the next start, stop or close can stop it
\* (startBattleModeDrain, Session.AddJob), for any number of modes and resets.
THEOREM BattleNoOrphan == ASSUME Alone PROVE Spec => []NoOrphan
  <1>1. SoloInv => NoOrphan
    BY DEF SoloInv
  <1> QED BY <1>1, SoloInvariant, PTL

\* As long as packets do not overlap, no mode survives the return to the lobby
\* (Uninitialze, resetBattleMode).
THEOREM BattleLobbyClean == ASSUME Alone PROVE Spec => []LobbyClean
  <1>1. SoloInv => LobbyClean
    BY DEF SoloInv, Away, LobbyClean
  <1> QED BY <1>1, SoloInvariant, PTL
=============================================================================

----------------------------- MODULE BattleMode -----------------------------
(***************************************************************************)
(* Battle mode of one character: cmd/gameserver/packet/battle_mode.go and  *)
(* the branch of handleShortStyleSkill that calls it, on the session's     *)
(* JobList.  A mode ends when the player stops it, when its gauge is   *)
(* drained by the periodic job, when its end timer fires, or when the      *)
(* character dies or leaves the world.  Packet handlers, the timer         *)
(* callbacks, the drain job and Close run in goroutines of their own;      *)
(* every section under Context.Mutex is one step.                          *)
(*                                                                         *)
(* Abstracted: time (a timer fires and a ticker ticks at any moment), the  *)
(* mana cost, the learned skills, and the packets to the client.           *)
(***************************************************************************)
EXTENDS JobList

CONSTANTS
    Handlers,     \* goroutines of packet handlers
    Closer,       \* the goroutine in Session.Close
    Remover,      \* a goroutine of "go session.RemoveJob" in the drain job
    Drain,        \* battleModeDrainJob, the only job name
    Modes,        \* battle mode types, subset of {1, 2}
    Lamps,        \* CurrentSP at the start, in lamps of SpiritPointsPerLamp
    GaugeSP,      \* SpiritPointsPerLamp
    SPWaste,      \* SPWaste of the skill
    MaxResets,    \* bound on deaths and on departures from the world
    MayClose      \* whether the session is closed at some time

\* One call of startBattleModeDrain per lamp, each with one task and one timer.
ASSUME BattleAssumption ==
    /\ Lamps \in Nat /\ GaugeSP \in Nat /\ SPWaste \in Nat /\ MaxResets \in Nat
    /\ GaugeSP > 0
    /\ Tasks = 1..Lamps
    /\ NoTask = 0
    /\ Modes \subseteq {1, 2}
    /\ Names = {Drain}
    /\ Procs = Handlers \cup Tasks \cup {Closer, Remover}

VARIABLES
    mode,      \* Context.BattleMode
    gen,       \* Context.BattleModeGeneration
    endTimer,  \* Context.BattleModeEndTimer: a timer, or 0
    sp,        \* lamps left
    timer,     \* the timers of the calls of startBattleModeDrain
    drain,     \* what the callback of each drain job remembers
    removers,  \* goroutines of "go session.RemoveJob" not yet run
    h,         \* the packet handlers
    resets,    \* deaths and departures so far
    inWorld    \* the character is in the world

ctxVars == <<mode, gen, endTimer, sp>>
modeVars == <<mode, gen, endTimer, sp, timer, drain, removers, h, resets, inWorld>>
vars == <<jobs, task, lock, closing, mode, gen, endTimer, sp, timer, drain, removers,
          h, resets, inWorld>>

NoMode == [type |-> 0, gen |-> 0, sp |-> 0]
Active == mode.type # 0

\* A handler: the mode type it asks for, the generation startBattleModeDrain
\* has read, and the number of its timer and task.
Handler ==
    [pc : {"idle", "start", "stop", "saved", "read", "removed", "armed", "active",
           "created", "stopped", "leave", "reset", "exit"},
     type : Modes \cup {0}, gen : Nat, run : Tasks \cup {0}]

IdleHandler == [pc |-> "idle", type |-> 0, gen |-> 0, run |-> 0]
Idle(p) == h[p].pc = "idle"
Goto(p, pc) == h' = [h EXCEPT ![p].pc = pc]

Init ==
    /\ JobsInit
    /\ mode = NoMode
    /\ gen = 0
    /\ endTimer = 0
    /\ sp = Lamps
    /\ timer = [t \in Tasks |-> [pc |-> "new", gen |-> 0]]
    /\ drain = [t \in Tasks |-> "first"]
    /\ removers = 0
    /\ h = [p \in Handlers |-> IdleHandler]
    /\ resets = 0
    /\ inWorld = TRUE

\* time.Timer.Stop: too late once the callback has been started.
StopTimer(t) ==
    IF t # 0 /\ timer[t].pc = "armed" THEN [timer EXCEPT ![t].pc = "stopped"] ELSE timer

-----------------------------------------------------------------------------
\* handleBattleModeSkill, under the lock of the context.

\* A packet is received in the world; its goroutine may run much later.
Receive(p, pc, m) ==
    /\ Idle(p) /\ inWorld
    /\ h' = [h EXCEPT ![p] = [IdleHandler EXCEPT !.pc = pc, !.type = m]]
    /\ UNCHANGED <<jobVars, closing, ctxVars, timer, drain, removers, resets, inWorld>>

StartMode(p) ==
    LET accepted == ~Active /\ sp >= 1
    IN /\ h[p].pc = "start"
       /\ IF accepted
            THEN /\ sp' = sp - 1
                 /\ gen' = gen + 1
                 /\ mode' = [type |-> h[p].type, gen |-> gen + 1, sp |-> GaugeSP]
                 /\ Goto(p, "saved")
            ELSE /\ UNCHANGED <<sp, gen, mode>>
                 /\ Goto(p, "leave")
       /\ UNCHANGED <<jobVars, closing, endTimer, timer, drain, removers, resets, inWorld>>

StopMode(p) ==
    LET accepted == Active => mode.type = h[p].type
    IN /\ h[p].pc = "stop"
       /\ IF accepted
            THEN /\ timer' = StopTimer(endTimer)
                 /\ endTimer' = 0
                 /\ mode' = NoMode
                 /\ Goto(p, "stopped")
            ELSE /\ UNCHANGED <<timer, endTimer, mode>>
                 /\ Goto(p, "leave")
       /\ UNCHANGED <<jobVars, closing, gen, sp, drain, removers, resets, inWorld>>

\* handleShortStyleSkill removes the drain job after a stop.
StopModeJob(p) ==
    /\ h[p].pc = "stopped"
    /\ RemoveJob(p, Drain)
    /\ Goto(p, "leave")
    /\ UNCHANGED <<jobs, task, closing, ctxVars, timer, drain, removers, resets, inWorld>>

Leave(p) ==
    /\ h[p].pc = "leave"
    /\ Returned(p)
    /\ h' = [h EXCEPT ![p] = IdleHandler]
    /\ UNCHANGED <<jobVars, closing, ctxVars, timer, drain, removers, resets, inWorld>>

-----------------------------------------------------------------------------
\* startBattleModeDrain, after the reply and the save of the vitals: another
\* handler may have stopped the mode, or started the next one, by now.

ReadGeneration(p) ==
    /\ h[p].pc = "saved"
    /\ h' = [h EXCEPT ![p].pc = "read", ![p].gen = mode.gen]
    /\ UNCHANGED <<jobVars, closing, ctxVars, timer, drain, removers, resets, inWorld>>

\* Mutated form: an old drain job is left in the list.
RemoveOldDrainSkipped(p) ==
    /\ h[p].pc = "read"
    /\ Goto(p, "removed")
    /\ UNCHANGED <<jobVars, closing, ctxVars, timer, drain, removers, resets, inWorld>>

RemoveOldDrain(p) ==
    /\ h[p].pc = "read"
    /\ RemoveJob(p, Drain)
    /\ Goto(p, "removed")
    /\ UNCHANGED <<jobs, task, closing, ctxVars, timer, drain, removers, resets, inWorld>>

\* time.AfterFunc; k numbers the calls.
ArmTimer(p, k) ==
    /\ h[p].pc = "removed"
    /\ Returned(p)
    /\ timer[k].pc = "new" /\ \A j \in 1..(k - 1) : timer[j].pc # "new"
    /\ timer' = [timer EXCEPT ![k] = [pc |-> "armed", gen |-> h[p].gen]]
    /\ h' = [h EXCEPT ![p].pc = "armed", ![p].run = k]
    /\ UNCHANGED <<jobVars, closing, ctxVars, drain, removers, resets, inWorld>>

\* Mutated form: the mode is not looked at again.
StoreTimerBlind(p) ==
    /\ h[p].pc = "armed"
    /\ endTimer' = h[p].run
    /\ Goto(p, "active")
    /\ UNCHANGED <<jobVars, closing, mode, gen, sp, timer, drain, removers, resets, inWorld>>

\* The mode may have ended meanwhile: then the timer is stopped.
StoreTimer(p) ==
    LET k == h[p].run
        mine == Active /\ mode.gen = h[p].gen
    IN /\ h[p].pc = "armed"
       /\ endTimer' = IF mine THEN k ELSE endTimer
       /\ timer' = IF mine THEN timer ELSE StopTimer(k)
       /\ Goto(p, IF mine THEN "active" ELSE "leave")
       /\ UNCHANGED <<jobVars, closing, mode, gen, sp, drain, removers, resets, inWorld>>

CreateDrain(p) ==
    /\ h[p].pc = "active"
    /\ NewPeriodicTask(h[p].run)
    /\ Goto(p, "created")
    /\ UNCHANGED <<jobs, lock, closing, ctxVars, timer, drain, removers, resets, inWorld>>

AddDrain(p) ==
    /\ h[p].pc = "created"
    /\ AddJob(Drain, h[p].run)
    /\ Goto(p, "leave")
    /\ UNCHANGED <<task, lock, closing, ctxVars, timer, drain, removers, resets, inWorld>>

-----------------------------------------------------------------------------
\* The end timer.

FireTimer(k) ==
    /\ timer[k].pc = "armed"
    /\ timer' = [timer EXCEPT ![k].pc = "firing"]
    /\ UNCHANGED <<jobVars, closing, ctxVars, drain, removers, h, resets, inWorld>>

\* Mutated form: the generation is not compared.
finishBattleModeAny(k) ==
    /\ timer[k].pc = "firing"
    /\ mode' = NoMode
    /\ endTimer' = IF Active THEN 0 ELSE endTimer
    /\ timer' = [timer EXCEPT ![k].pc = IF Active THEN "ended" ELSE "done"]
    /\ UNCHANGED <<jobVars, closing, gen, sp, drain, removers, h, resets, inWorld>>

\* Mutated form: the generation is compared with the one after the next start.
finishBattleModeLate(k) ==
    LET mine == Active /\ mode.gen = timer[k].gen + 1
    IN /\ timer[k].pc = "firing"
       /\ mode' = IF mine THEN NoMode ELSE mode
       /\ endTimer' = IF mine THEN 0 ELSE endTimer
       /\ timer' = [timer EXCEPT ![k].pc = IF mine THEN "ended" ELSE "done"]
       /\ UNCHANGED <<jobVars, closing, gen, sp, drain, removers, h, resets, inWorld>>

finishBattleMode(k) ==
    LET mine == Active /\ mode.gen = timer[k].gen
    IN /\ timer[k].pc = "firing"
       /\ mode' = IF mine THEN NoMode ELSE mode
       /\ endTimer' = IF mine THEN 0 ELSE endTimer
       /\ timer' = [timer EXCEPT ![k].pc = IF mine THEN "ended" ELSE "done"]
       /\ UNCHANGED <<jobVars, closing, gen, sp, drain, removers, h, resets, inWorld>>

\* The callback removes the drain job, whichever mode it belongs to by now.
TimerJob(k) ==
    /\ timer[k].pc = "ended"
    /\ RemoveJob(k, Drain)
    /\ timer' = [timer EXCEPT ![k].pc = "done"]
    /\ UNCHANGED <<jobs, task, closing, ctxVars, drain, removers, h, resets, inWorld>>

-----------------------------------------------------------------------------
\* The drain job.  `drain' says what its callback remembers: "first" before
\* the first call, "drained" after it took its share in this interval.

\* At most MaxRemovers pending goroutines are told apart.
MaxRemovers == 2
GoRemove == removers' = IF removers < MaxRemovers THEN removers + 1 ELSE removers

\* Mutated form: the end timer is stopped before the generation is compared.
consumeBattleModeGaugeEager(k) ==
    LET mine == Active /\ mode.gen = timer[k].gen
        left == mode.sp - SPWaste
        goesOn == mine /\ SPWaste > 0 /\ left >= SPWaste
    IN /\ mode' = IF goesOn THEN [mode EXCEPT !.sp = left]
                  ELSE IF mine THEN NoMode ELSE mode
       /\ endTimer' = IF goesOn THEN endTimer ELSE 0
       /\ timer' = IF goesOn THEN timer ELSE StopTimer(endTimer)
       /\ IF goesOn THEN UNCHANGED removers ELSE GoRemove

\* Mutated form: a drain job whose mode is over is not removed.
consumeBattleModeGaugeSilent(k) ==
    LET mine == Active /\ mode.gen = timer[k].gen
        left == mode.sp - SPWaste
        goesOn == mine /\ SPWaste > 0 /\ left >= SPWaste
        ends == mine /\ ~goesOn
    IN /\ mode' = IF goesOn THEN [mode EXCEPT !.sp = left]
                  ELSE IF ends THEN NoMode ELSE mode
       /\ endTimer' = IF ends THEN 0 ELSE endTimer
       /\ timer' = IF ends THEN StopTimer(endTimer) ELSE timer
       /\ IF ends THEN GoRemove ELSE UNCHANGED removers

\* The gauge loses SPWaste.  A mode that is over, a skill without a cost and a
\* gauge below the next share make the callback send for the removal.
consumeBattleModeGauge(k) ==
    LET mine == Active /\ mode.gen = timer[k].gen
        left == mode.sp - SPWaste
        goesOn == mine /\ SPWaste > 0 /\ left >= SPWaste
        ends == mine /\ ~goesOn
    IN /\ mode' = IF goesOn THEN [mode EXCEPT !.sp = left]
                  ELSE IF ends THEN NoMode ELSE mode
       /\ endTimer' = IF ends THEN 0 ELSE endTimer
       /\ timer' = IF ends THEN StopTimer(endTimer) ELSE timer
       /\ IF goesOn THEN UNCHANGED removers ELSE GoRemove

\* The callback: nothing on the first call, before the first drain is due, or
\* within the interval of the last drain.
DrainCallback(k) ==
    \/ /\ drain[k] # "first"
       /\ UNCHANGED <<mode, endTimer, timer, drain, removers>>
    \/ /\ drain[k] = "first"
       /\ drain' = [drain EXCEPT ![k] = "ready"]
       /\ UNCHANGED <<mode, endTimer, timer, removers>>
    \/ /\ drain[k] = "ready"
       /\ drain' = [drain EXCEPT ![k] = "drained"]
       /\ consumeBattleModeGauge(k)

DrainStep(k) ==
    /\ \/ (CallAtTop(k) \/ CallOnTick(k)) /\ DrainCallback(k)
       \/ /\ Tick(k)
          /\ drain' = [drain EXCEPT ![k] = IF @ = "drained" THEN "ready" ELSE @]
          /\ UNCHANGED <<mode, endTimer, timer, removers>>
    /\ UNCHANGED <<jobs, lock, closing, gen, sp, h, resets, inWorld>>

\* One of the goroutines the callback has started.
RemoverJob ==
    /\ removers > 0
    /\ RemoveJob(Remover, Drain)
    /\ removers' = removers - 1
    /\ UNCHANGED <<jobs, task, closing, ctxVars, timer, drain, h, resets, inWorld>>

StopDrain == Stop(Drain) /\ UNCHANGED <<closing, modeVars>>

-----------------------------------------------------------------------------
\* resetBattleMode: the job first, then the state, then the timer.

\* Uninitialze and the death branch of WarpCommand.
Reset(p, pc) ==
    /\ Idle(p) /\ inWorld
    /\ resets < MaxResets
    /\ resets' = resets + 1
    /\ RemoveJob(p, Drain)
    /\ Goto(p, pc)
    /\ UNCHANGED <<jobs, task, closing, ctxVars, timer, drain, removers, inWorld>>

Uninitialze(p) == Reset(p, "exit")
DeathWarp(p) == Reset(p, "reset")

\* Mutated form: only the timer is stopped.
resetBattleModeTimerOnly(p) ==
    /\ h[p].pc \in {"reset", "exit"}
    /\ Returned(p)
    /\ gen' = gen + 1
    /\ mode' = mode
    /\ endTimer' = 0
    /\ timer' = StopTimer(endTimer)
    /\ inWorld' = (inWorld /\ h[p].pc = "reset")
    /\ h' = [h EXCEPT ![p] = IdleHandler]
    /\ UNCHANGED <<jobVars, closing, sp, drain, removers, resets>>

resetBattleMode(p) ==
    /\ h[p].pc \in {"reset", "exit"}
    /\ Returned(p)
    /\ gen' = gen + 1
    /\ mode' = NoMode
    /\ endTimer' = 0
    /\ timer' = StopTimer(endTimer)
    /\ inWorld' = (inWorld /\ h[p].pc = "reset")
    /\ h' = [h EXCEPT ![p] = IdleHandler]
    /\ UNCHANGED <<jobVars, closing, sp, drain, removers, resets>>

\* The next character enters the world on the same session.
Initialized ==
    /\ ~inWorld
    /\ inWorld' = TRUE
    /\ UNCHANGED <<jobVars, closing, ctxVars, timer, drain, removers, h, resets>>

\* Session.Close stops the job and leaves mode and timer alone.
CloseSession ==
    /\ MayClose
    /\ closing = "open"
    /\ RemoveAllJobs(Closer)
    /\ closing' = "closed"
    /\ UNCHANGED <<jobs, task, modeVars>>

-----------------------------------------------------------------------------
HandlerStep(p) ==
    \/ StartMode(p) \/ StopMode(p)
    \/ StopModeJob(p) \/ Leave(p)
    \/ ReadGeneration(p) \/ RemoveOldDrain(p) \/ StoreTimer(p)
    \/ \E k \in Tasks : ArmTimer(p, k)
    \/ CreateDrain(p) \/ AddDrain(p)
    \/ resetBattleMode(p)

TimerStep(k) == FireTimer(k) \/ finishBattleMode(k) \/ TimerJob(k)

Next ==
    \/ \E p \in Handlers, m \in Modes : Receive(p, "start", m) \/ Receive(p, "stop", m)
    \/ \E p \in Handlers : Uninitialze(p) \/ DeathWarp(p) \/ HandlerStep(p)
    \/ \E k \in Tasks : TimerStep(k) \/ DrainStep(k)
    \/ RemoverJob \/ StopDrain
    \/ Initialized \/ CloseSession

Spec == Init /\ [][Next]_vars

\* Goroutines go on, timers fire and tickers tick.  Go's Mutex lets no waiter
\* starve and its select no ready case, so what has to wait for jobMutex or
\* for a select gets its turn: strong fairness.  A callback that finds it too
\* early to drain finds it late enough sooner or later.  No player has to do
\* anything.
Fairness ==
    /\ \A p \in Handlers : SF_vars(HandlerStep(p))
    /\ \A k \in Tasks : SF_vars(TimerStep(k)) /\ WF_vars(DrainStep(k))
    /\ \A k \in Tasks : SF_vars(DrainStep(k) /\ drain' # drain)
    /\ SF_vars(RemoverJob) /\ SF_vars(StopDrain)

FairSpec == Spec /\ Fairness

-----------------------------------------------------------------------------
\* Types.
TypeOK ==
    /\ JobsTypeOK
    /\ mode \in [type : Modes \cup {0}, gen : Nat, sp : Nat]
    /\ gen \in Nat
    /\ endTimer \in Tasks \cup {0}
    /\ sp \in 0..Lamps
    /\ timer \in [Tasks -> [pc : {"new", "armed", "stopped", "firing", "ended", "done"},
                           gen : Nat]]
    /\ drain \in [Tasks -> {"first", "ready", "drained"}]
    /\ removers \in 0..MaxRemovers
    /\ h \in [Handlers -> Handler]
    /\ resets \in 0..MaxResets
    /\ inWorld \in BOOLEAN

\* Whatever stops, starts and resets overlap, an active mode has a timer under
\* way that was made for it, or the handler that is about to make one: no
\* interleaving leaves a mode that nothing will end.  (startBattleModeDrain
\* makes the timer before it looks again; nobody stops a timer of a mode that
\* goes on.)
EndIsComing ==
    Active =>
        \/ \E k \in Tasks : timer[k].pc \in {"armed", "firing"} /\ timer[k].gen = mode.gen
        \/ \E p \in Handlers :
             \/ h[p].pc = "saved"
             \/ h[p].pc \in {"read", "removed"} /\ h[p].gen = mode.gen

\* The stored end timer is the one of the active mode (resetBattleMode,
\* finishBattleMode and consumeBattleModeGauge drop it with the mode).
TimerOfMode == endTimer # 0 => Active /\ timer[endTimer].gen = mode.gen

\* A timer or a drain job ends or drains no mode but the one it was made for:
\* what is left of an earlier mode leaves the next one alone.
SparesNextMode ==
    [][\A k \in Tasks :
         \/ timer[k].pc = "firing" /\ timer'[k].pc # "firing"
         \/ drain[k] = "ready" /\ drain'[k] = "drained"
         => mode' = mode \/ mode.gen = timer[k].gen]_vars

\* A drain job runs under its name: it is listed, or its handler is about to
\* add it ("The job can be referenced and managed by its name",
\* session.go:217).
NoOrphan ==
    \A k \in Tasks : Running(k) =>
        jobs[Drain] = k \/ \E p \in Handlers : h[p].pc = "created" /\ h[p].run = k

\* "Battle mode is runtime state and must not survive a return to the
\* character lobby" (battle_mode.go:235): no mode once the character has left
\* and the handlers have come to an end.
LobbyClean == ~inWorld /\ (\A p \in Handlers : Idle(p)) => ~Active

\* Every mode ends, whatever the player does afterwards.
ModeEnds == []<>~Active

\* Every drain job comes to an end: with the lamps spent, none is left.
DrainsEnd == <>[](\A k \in Tasks : ~Running(k))
=============================================================================

------------------------------- MODULE Growth -------------------------------
(***************************************************************************)
(* How a character grows: experience and levels, stat points, the progress *)
(* of the sword and the magic rank, the skills a level grants, a trained   *)
(* skill and the quick links.  The handlers of the game server             *)
(* (packet/attack.go, skill.go, stat.go, hp.go, battle_mode.go,            *)
(* character.go) change the copy of the session, game, and ask the master  *)
(* server (masterserver/rpc) to change the row, db, most often on the      *)
(* condition that the row still is what the copy was.                      *)
(*                                                                         *)
(* Several handlers of one character may run at once.  Some hold ctx.Mutex *)
(* during the call, others only before and after it.  A call may fail      *)
(* before the master has seen it, with the request served later or never,  *)
(* or after the master has acted.                                          *)
(*                                                                         *)
(* stat is the sum of STR, DEX and INT; cur and max stand for the current  *)
(* and the maximum of HP and MP alike.  The mobs, the damage and what the  *)
(* client is told are left out: whether a hit kills is any choice.         *)
(***************************************************************************)
EXTENDS Integers, Sequences, FiniteSetsExt

CONSTANTS
    Handlers,       \* goroutines that handle packets of the character
    AccumulatedExp, \* level -> experience that ends it (cabal.dec, level_up)
    LevelsPerRank,  \* levels of one class rank, 10
    SkillRankLimit, \* class rank -> skill rank it allows (rank_limit)
    MaxRank,        \* maxSkillRank
    ExpForPoint,    \* skill rank -> skill experience of one point
    PointsForRank,  \* skill rank -> points that complete it
    RankBonus,      \* skill rank -> stat points its completion gives
    StatPoints,     \* statPointsPerLevel
    MaxExp,         \* the largest uint64
    Gains,          \* experience a kill may give, multiplied already
    SkillGains,     \* skill experience of a skill, multiplied already
    ManaCosts,      \* MP a skill may cost
    MaxSpend,       \* bound: stat points of one distribution
    BattleSkills,   \* battle mode skills by the level that grants them
    BaseStat, BaseVital, StartSkill, StartAlz,
    MaxSkillLevel,  \* the largest byte
    UntrainPrice, QuestTrained,
    Slots, Skill, OtherSkill,
    MaxFails,       \* bound: calls that fail
    None

Types == {"sword", "magic"}
TopLevel == Len(AccumulatedExp)

\* The tables grow with the level and with the rank, and the first level does
\* not end with the experience of a new character.
ASSUME TableAssumption ==
    /\ AccumulatedExp \in Seq(Nat) /\ TopLevel > 0 /\ AccumulatedExp[1] > 0
    /\ \A k, l \in 1 .. TopLevel : k <= l => AccumulatedExp[k] <= AccumulatedExp[l]
    /\ LevelsPerRank \in Nat \ {0} /\ StatPoints \in Nat /\ MaxExp \in Nat
ASSUME RankAssumption ==
    /\ MaxRank \in Nat \ {0} /\ SkillRankLimit \in Seq(1 .. MaxRank)
    /\ \A q, r \in 1 .. Len(SkillRankLimit) : q <= r => SkillRankLimit[q] <= SkillRankLimit[r]
    /\ ExpForPoint \in [1 .. MaxRank -> Nat \ {0}]
    /\ PointsForRank \in [1 .. MaxRank -> Nat \ {0}]
    /\ RankBonus \in [1 .. MaxRank - 1 -> Nat]
ASSUME GainAssumption ==
    /\ Gains \subseteq Nat \ {0} /\ SkillGains \subseteq Nat \ {0}
    /\ ManaCosts \subseteq Nat /\ MaxSpend \in Nat
ASSUME StartAssumption ==
    /\ {BaseStat, BaseVital, StartSkill, StartAlz, UntrainPrice, MaxFails} \subseteq Nat
    /\ None \notin Handlers

VARIABLES
    db,         \* the rows of the character
    game,       \* ctx.Char, the copy of the session
    lock,       \* the handler that holds ctx.Mutex during a call
    linkLock,   \* the handler that holds the mutex of the quick links
    run,        \* what each handler is doing
    late,       \* requests of failed calls that are still under way
    fails       \* failed calls so far

vars == <<db, game, lock, linkLock, run, late, fails>>

Sum(p, F(_)) == F(p["sword"]) + F(p["magic"])

(***************************************************************************)
(* The tables of the client's data.                                        *)
(***************************************************************************)

\* Levels go up one at a time while the experience has reached the end of
\* the level and there is a next one.
LevelForExperience(level, exp) ==
    Max({l \in level .. TopLevel : \A k \in level .. l - 1 : exp >= AccumulatedExp[k]})

ClassRankForLevel(level) == level \div LevelsPerRank + 1

SkillRankLimitFor(level) ==
    LET classRank == ClassRankForLevel(level)
    IN IF classRank <= Len(SkillRankLimit) THEN SkillRankLimit[classRank] ELSE MaxRank

\* Each vital grows with the level and with every rank.
rankBonus(p) == p.rank - 1
CalculateMax(level, prog) == BaseVital + level - 1 + Sum(prog, rankBonus)

\* A level and a rank restore the vitals: recalculated from full, they are
\* full.
Recalculated(c, level, prog) ==
    LET max == CalculateMax(level, prog) IN [c EXCEPT !.cur = max, !.max = max]

FindBattleModeSkillsForLevel(level) == {s \in BattleSkills : s <= level}

Climbing == [exp : Nat, point : Nat, rankExp : Nat, rank : 1 .. MaxRank, stat : Nat,
             limit : 1 .. MaxRank]

\* The loop that turns skill experience into points and points into ranks.
\* A point that would complete a rank the level does not allow is undone and
\* the bar stays full; at the last rank what is left over is dropped.
Climb[s \in Climbing] ==
    LET need == ExpForPoint[s.rank]
        more == [s EXCEPT !.exp = @ - need, !.point = @ + 1, !.rankExp = @ + 1]
    IN IF s.exp < need THEN s
       ELSE IF more.rankExp < PointsForRank[s.rank] THEN Climb[more]
       ELSE IF s.rank >= MaxRank THEN [more EXCEPT !.exp = 0]
       ELSE IF s.rank >= s.limit THEN [s EXCEPT !.exp = need]
       ELSE Climb[[more EXCEPT !.rank = @ + 1, !.rankExp = 0, !.stat = @ + RankBonus[s.rank]]]

Climbed(c, t, gained) ==
    LET p == c.prog[t]
    IN Climb[[exp |-> p.exp + gained, point |-> p.point, rankExp |-> p.rankExp,
              rank |-> p.rank, stat |-> c.stat, limit |-> SkillRankLimitFor(c.level)]]

\* What addSkillExperienceForType makes of the copy c.  Its two early returns
\* are the guard of AddSkillExperience.
SkillUpdated(c, t, gained) ==
    LET end == Climbed(c, t, gained)
        prog == [c.prog EXCEPT ![t] = [exp |-> end.exp, point |-> end.point,
                                       rankExp |-> end.rankExp, rank |-> end.rank]]
        full == IF end.rank > c.prog[t].rank THEN Recalculated(c, c.level, prog) ELSE c
    IN [full EXCEPT !.prog = prog, !.stat = end.stat]

\* The columns SaveSkillExperience compares and sets.
Matched(c) == [prog |-> c.prog, stat |-> c.stat, cur |-> c.cur, max |-> c.max]

(***************************************************************************)
(* The master server.  Each operation is one statement or one transaction  *)
(* that locks what it reads; it makes of the rows d and the request r new  *)
(* rows and an answer.                                                     *)
(***************************************************************************)
Rejected(d) == [row |-> d, res |-> [ok |-> FALSE]]
Done(d) == [row |-> d, res |-> [ok |-> TRUE]]

\* The row and the copy take over experience, level and points alike, and the
\* vitals when there are any in the request.
Experienced(c, r) ==
    LET full == IF r.max # 0 THEN [c EXCEPT !.cur = r.max, !.max = r.max] ELSE c
    IN [full EXCEPT !.exp = r.exp, !.level = r.level, !.pnt = @ + r.points]

SaveExperienceByLevel(d, r) ==
    IF d.level = r.was.level THEN Done(Experienced(d, r)) ELSE Rejected(d)

SaveExperience(d, r) ==
    IF d.exp = r.was.exp /\ d.level = r.was.level THEN Done(Experienced(d, r)) ELSE Rejected(d)

SaveVitals(d, r) == Done([d EXCEPT !.cur = r.cur, !.max = r.max])

SaveStat(d, r) ==
    IF d.pnt = 0 \/ d.pnt # r.pnt THEN Rejected(d)
    ELSE [row |-> [d EXCEPT !.stat = @ + 1, !.pnt = @ - 1],
          res |-> [ok |-> TRUE, stat |-> d.stat + 1, pnt |-> d.pnt - 1]]

SaveStatDistribution(d, r) ==
    IF r.points = 0 \/ d.pnt # r.pnt \/ r.points > d.pnt THEN Rejected(d)
    ELSE [row |-> [d EXCEPT !.stat = @ + r.points, !.pnt = @ - r.points],
          res |-> [ok |-> TRUE, stat |-> d.stat + r.points, pnt |-> d.pnt - r.points]]

SaveSkillExperienceByRank(d, r) ==
    IF d.prog = r.was.prog
    THEN Done([d EXCEPT !.prog = r.new.prog, !.stat = r.new.stat, !.cur = r.new.cur, !.max = r.new.max])
    ELSE Rejected(d)

\* An UPDATE that changes nothing affects no row: the full bar of a rank the
\* level does not allow is "rejected".
SaveSkillExperience(d, r) ==
    LET new == [d EXCEPT !.prog = r.new.prog, !.stat = r.new.stat, !.cur = r.new.cur, !.max = r.new.max]
    IN IF Matched(d) = r.was /\ new # d THEN Done(new) ELSE Rejected(d)

\* The skills in the reserved slots become exactly those of the request.
GrantBattleModeSkills(d, r) ==
    [row |-> [d EXCEPT !.granted = r.skills],
     res |-> [ok |-> TRUE, added |-> r.skills \ d.granted, removed |-> d.granted \ r.skills]]

SaveSkill(d, r) ==
    IF d.skill = r.previous /\ d.skill # 0 THEN Done([d EXCEPT !.skill = r.previous + 1]) ELSE Rejected(d)

Without(links, skill) == [s \in Slots |-> IF links[s] = skill THEN None ELSE links[s]]

UntrainSkill(d, r) ==
    IF d.alz < UntrainPrice \/ d.skill = 0 \/ d.skill # r.previous THEN Rejected(d)
    ELSE [row |-> [d EXCEPT !.skill = @ - 1, !.alz = @ - UntrainPrice,
                            !.links = IF d.skill = 1 THEN Without(@, Skill) ELSE @],
          res |-> [ok |-> TRUE, level |-> d.skill - 1, alz |-> d.alz - UntrainPrice]]

QuickLinkSet(d, r) == Done([d EXCEPT !.links[r.slot] = r.link])
QuickLinkRemove(d, r) == Done([d EXCEPT !.links[r.slot] = None])
QuickLinkSwap(d, r) == Done([d EXCEPT !.links[r.slot] = d.links[r.to], !.links[r.to] = d.links[r.slot]])

Handled(d, r) ==
    CASE r.call = "SaveExperience" -> SaveExperience(d, r)
      [] r.call = "SaveVitals" -> SaveVitals(d, r)
      [] r.call = "SaveStat" -> SaveStat(d, r)
      [] r.call = "SaveStatDistribution" -> SaveStatDistribution(d, r)
      [] r.call = "SaveSkillExperience" -> SaveSkillExperience(d, r)
      [] r.call = "GrantBattleModeSkills" -> GrantBattleModeSkills(d, r)
      [] r.call = "SaveSkill" -> SaveSkill(d, r)
      [] r.call = "UntrainSkill" -> UntrainSkill(d, r)
      [] r.call = "QuickLinkSet" -> QuickLinkSet(d, r)
      [] r.call = "QuickLinkRemove" -> QuickLinkRemove(d, r)
      [] r.call = "QuickLinkSwap" -> QuickLinkSwap(d, r)

(***************************************************************************)
(* The handlers.  run[h].todo lists the steps of the packet that are left; *)
(* run[h].st says how far the call of the current step is.                 *)
(***************************************************************************)
Idle == [todo |-> <<>>, st |-> "idle", req |-> None, res |-> None]
Doing(todo) == [Idle EXCEPT !.todo = todo]

Start ==
    [exp |-> 0, level |-> 1, pnt |-> 0, stat |-> BaseStat, cur |-> BaseVital, max |-> BaseVital,
     prog |-> [t \in Types |-> [exp |-> 0, point |-> 0, rankExp |-> 0, rank |-> 1]],
     granted |-> FindBattleModeSkillsForLevel(1),
     skill |-> StartSkill, alz |-> StartAlz, links |-> [s \in Slots |-> None]]

Init ==
    /\ db = Start /\ game = Start
    /\ lock = None /\ linkLock = None
    /\ run = [h \in Handlers |-> Idle]
    /\ late = {} /\ fails = 0

master == <<db, late, fails>>

Free(h) == run[h] = Idle
Rest(h) == Tail(run[h].todo)

Send(h, todo, r) == run' = [run EXCEPT ![h] = [todo |-> todo, st |-> "sent", req |-> r, res |-> None]]
\* The step is done without a call.
Skip(h) == run' = [run EXCEPT ![h] = Doing(Rest(h))]

If(cond, s) == IF cond THEN s ELSE <<>>

(***************************************************************************)
(* Packets.                                                                *)
(***************************************************************************)
AttckToMobs(h, spirits) ==
    /\ Free(h) /\ lock = None
    /\ \E gained \in Gains \cup {0}, spirit \in spirits :
         run' = [run EXCEPT ![h] = Doing(If(gained # 0, <<<<"exp", gained>>>>)
                                         \o If(spirit, <<<<"vitals", 0>>>>))]
    /\ UNCHANGED <<db, game, lock, linkLock, late, fails>>

\* One value advances both types.
addSkillExperience(gained) == <<<<"sword", gained>>, <<"magic", gained>>>>

\* What follows the hits of a skill, in this order.
SkillSteps(save, skillGained, gained) ==
    If(save, <<<<"vitals", 0>>>>)
    \o If(skillGained # 0, addSkillExperience(skillGained))
    \o If(gained # 0, <<<<"exp", gained>>>>)

consumeSkillMana(cost) ==
    /\ cost <= game.cur
    /\ game' = [game EXCEPT !.cur = @ - cost]

\* Without the MP the handler answers with an error and changes nothing.
SkillToMobs(h, costs, skillGains, spirits) ==
    /\ Free(h) /\ lock = None
    /\ \E cost \in costs, gained \in Gains \cup {0}, skillGained \in skillGains, spirit \in spirits :
         /\ consumeSkillMana(cost)
         /\ run' = [run EXCEPT ![h] = Doing(SkillSteps(spirit \/ cost # 0, skillGained, gained))]
    /\ UNCHANGED <<db, lock, linkLock, late, fails>>

\* WarpCommand of a character that has died.
Revive(h) ==
    /\ Free(h) /\ lock = None
    /\ game' = [game EXCEPT !.cur = game.max]
    /\ run' = [run EXCEPT ![h] = Doing(<<<<"vitals", 0>>>>)]
    /\ UNCHANGED <<db, lock, linkLock, late, fails>>

UseStatBons(h) ==
    /\ Free(h) /\ lock = None /\ game.pnt # 0
    /\ Send(h, <<>>, [call |-> "SaveStat", pnt |-> game.pnt])
    /\ UNCHANGED <<db, game, lock, linkLock, late, fails>>

UserStatAutoDistribution(h) ==
    /\ Free(h) /\ lock = None
    /\ \E n \in 0 .. MaxSpend :
         Send(h, <<>>, [call |-> "SaveStatDistribution", pnt |-> game.pnt, points |-> n])
    /\ UNCHANGED <<db, game, lock, linkLock, late, fails>>

UpgradeSkill(h) ==
    /\ Free(h) /\ lock = None
    /\ game.skill # 0 /\ game.skill # MaxSkillLevel
    /\ lock' = h
    /\ Send(h, <<>>, [call |-> "SaveSkill", previous |-> game.skill])
    /\ UNCHANGED <<db, game, linkLock, late, fails>>

Untrain(h) ==
    /\ Free(h) /\ lock = None
    /\ game.skill # 0 /\ ~ (game.skill = 1 /\ QuestTrained)
    /\ lock' = h
    /\ Send(h, <<>>, [call |-> "UntrainSkill", previous |-> game.skill])
    /\ UNCHANGED <<db, game, linkLock, late, fails>>

LinkSet(h, slots) ==
    /\ Free(h)
    /\ \E s \in slots, l \in {Skill, OtherSkill} :
         Send(h, <<>>, [call |-> "QuickLinkSet", slot |-> s, link |-> l])
    /\ UNCHANGED <<db, game, lock, linkLock, late, fails>>

LinkRemove(h) ==
    /\ Free(h) /\ linkLock = None
    /\ \E s \in Slots :
         /\ game.links[s] # None
         /\ Send(h, <<>>, [call |-> "QuickLinkRemove", slot |-> s])
    /\ linkLock' = h
    /\ UNCHANGED <<db, game, lock, late, fails>>

\* The two links are read before the mutex is taken for the call.
LinkSwap(h) ==
    /\ Free(h) /\ linkLock = None
    /\ \E s, t \in Slots :
         /\ game.links[s] # None /\ game.links[t] # None
         /\ run' = [run EXCEPT ![h] =
              [Idle EXCEPT !.st = "ready",
                           !.req = [call |-> "QuickLinkSwap", slot |-> s, to |-> t,
                                    old |-> game.links[s], new |-> game.links[t]]]]
    /\ UNCHANGED <<db, game, lock, linkLock, late, fails>>

LinkSwapCall(h) ==
    /\ run[h].st = "ready" /\ linkLock = None
    /\ linkLock' = h
    /\ run' = [run EXCEPT ![h].st = "sent"]
    /\ UNCHANGED <<db, game, lock, late, fails>>

(***************************************************************************)
(* The steps of the fights.                                                *)
(***************************************************************************)
Gained(h) == Head(run[h].todo)[2]
At(h, step) == run[h].st = "idle" /\ run[h].todo # <<>> /\ Head(run[h].todo)[1] = step

\* The request of addExperience for what the copy holds now.
ExperienceReq(gained) ==
    LET exp == game.exp + gained
        level == LevelForExperience(game.level, exp)
    IN [call |-> "SaveExperience", was |-> [exp |-> game.exp, level |-> game.level],
        exp |-> exp, level |-> level, points |-> StatPoints * (level - game.level),
        max |-> IF level > game.level THEN Recalculated(game, level, game.prog).max ELSE 0]

AddExperienceUnlocked(h) ==
    /\ At(h, "exp") /\ lock = None
    /\ Send(h, Rest(h), ExperienceReq(Gained(h)))
    /\ UNCHANGED <<db, game, lock, linkLock, late, fails>>

\* Experience that would overflow is not added.
AddExperience(h) ==
    /\ At(h, "exp") /\ lock = None
    /\ IF game.exp + Gained(h) > MaxExp
       THEN Skip(h) /\ UNCHANGED lock
       ELSE lock' = h /\ Send(h, Rest(h), ExperienceReq(Gained(h)))
    /\ UNCHANGED <<db, game, linkLock, late, fails>>

\* A rank above the limit, and a last rank that is complete, gain nothing.
AddSkillExperience(h, t) ==
    /\ At(h, t) /\ lock = None
    /\ IF \/ game.prog[t].rank > SkillRankLimitFor(game.level)
          \/ game.prog[t].rank = MaxRank /\ game.prog[t].rankExp >= PointsForRank[MaxRank]
       THEN Skip(h) /\ UNCHANGED lock
       ELSE /\ lock' = h
            /\ Send(h, Rest(h), [call |-> "SaveSkillExperience", was |-> Matched(game),
                                 new |-> Matched(SkillUpdated(game, t, Gained(h)))])
    /\ UNCHANGED <<db, game, linkLock, late, fails>>

\* A snapshot of the vitals is saved without the mutex.
saveContextVitals(h) ==
    /\ At(h, "vitals") /\ lock = None
    /\ Send(h, Rest(h), [call |-> "SaveVitals", cur |-> game.cur, max |-> game.max])
    /\ UNCHANGED <<db, game, lock, linkLock, late, fails>>

ensureBattleModeSkills(h) ==
    /\ At(h, "grant") /\ lock = None
    /\ Send(h, Rest(h), [call |-> "GrantBattleModeSkills",
                         skills |-> FindBattleModeSkillsForLevel(game.level)])
    /\ UNCHANGED <<db, game, lock, linkLock, late, fails>>

(***************************************************************************)
(* The calls.                                                              *)
(***************************************************************************)
Serve(h) ==
    /\ run[h].st = "sent"
    /\ LET out == Handled(db, run[h].req)
       IN /\ db' = out.row
          /\ run' = [run EXCEPT ![h].st = "done", ![h].res = out.res]
    /\ UNCHANGED <<game, lock, linkLock, late, fails>>

Failed == [ok |-> FALSE]

\* The call returns an error: the request is lost, or late, or was served.
CallFails(h) ==
    /\ fails < MaxFails
    /\ run[h].st \in {"sent", "done"} /\ run[h].res # Failed
    /\ \/ late' = late
       \/ run[h].st = "sent" /\ late' = late \cup {run[h].req}
    /\ fails' = fails + 1
    /\ run' = [run EXCEPT ![h].st = "done", ![h].res = Failed]
    /\ UNCHANGED <<db, game, lock, linkLock>>

ServeLate ==
    /\ \E r \in late : db' = Handled(db, r).row /\ late' = late \ {r}
    /\ UNCHANGED <<game, lock, linkLock, run, fails>>

Unlock(h) == lock' = IF lock = h THEN None ELSE lock
UnlockLinks(h) == linkLock' = IF linkLock = h THEN None ELSE linkLock
Finish(h, more) == run' = [run EXCEPT ![h] = Doing(run[h].todo \o more)]

\* A rejected or failed call changes nothing in the copy.
Refused(h) ==
    /\ run[h].st = "done" /\ ~ run[h].res.ok
    /\ Finish(h, <<>>) /\ Unlock(h) /\ UnlockLinks(h)
    /\ UNCHANGED <<game, master>>

Answered(h, name) == run[h].st = "done" /\ run[h].res.ok /\ run[h].req.call = name

ExperienceSaved(h) ==
    /\ Answered(h, "SaveExperience")
    /\ LET r == run[h].req
       IN /\ game' = Experienced(game, r)
          /\ Finish(h, If(r.level > r.was.level, <<<<"grant", 0>>>>))
    /\ Unlock(h)
    /\ UNCHANGED <<linkLock, master>>

SkillExperienceSaved(h) ==
    /\ Answered(h, "SaveSkillExperience")
    /\ LET new == run[h].req.new
       IN game' = [game EXCEPT !.prog = new.prog, !.stat = new.stat, !.cur = new.cur, !.max = new.max]
    /\ Finish(h, <<>>) /\ Unlock(h)
    /\ UNCHANGED <<linkLock, master>>

VitalsSaved(h) ==
    /\ Answered(h, "SaveVitals")
    /\ Finish(h, <<>>)
    /\ UNCHANGED <<game, lock, linkLock, master>>

\* The answer carries the stats and the points left, and replaces the copy's.
StatSavedPoints(h) ==
    /\ Answered(h, "SaveStat") \/ Answered(h, "SaveStatDistribution")
    /\ lock = None
    /\ game' = [game EXCEPT !.pnt = run[h].res.pnt]
    /\ Finish(h, <<>>)
    /\ UNCHANGED <<lock, linkLock, master>>

StatSaved(h) ==
    /\ Answered(h, "SaveStat") \/ Answered(h, "SaveStatDistribution")
    /\ lock = None
    /\ game' = [game EXCEPT !.stat = run[h].res.stat, !.pnt = run[h].res.pnt]
    /\ Finish(h, <<>>)
    /\ UNCHANGED <<lock, linkLock, master>>

SkillsGranted(h) ==
    /\ Answered(h, "GrantBattleModeSkills")
    /\ lock = None \/ run[h].res.added \cup run[h].res.removed = {}
    /\ game' = [game EXCEPT !.granted = (@ \ run[h].res.removed) \cup run[h].res.added]
    /\ Finish(h, <<>>)
    /\ UNCHANGED <<lock, linkLock, master>>

SkillSaved(h) ==
    /\ Answered(h, "SaveSkill")
    /\ game' = [game EXCEPT !.skill = run[h].req.previous + 1]
    /\ Finish(h, <<>>) /\ Unlock(h)
    /\ UNCHANGED <<linkLock, master>>

\* A skill that is gone takes its links with it; their mutex is needed.
SkillUntrained(h) ==
    /\ Answered(h, "UntrainSkill")
    /\ LET res == run[h].res
       IN /\ res.level = 0 => linkLock = None
          /\ game' = [game EXCEPT !.alz = res.alz, !.skill = res.level,
                                  !.links = IF res.level = 0 THEN Without(@, Skill) ELSE @]
    /\ Finish(h, <<>>) /\ Unlock(h)
    /\ UNCHANGED <<linkLock, master>>

LinkSetSaved(h) ==
    /\ Answered(h, "QuickLinkSet") /\ linkLock = None
    /\ game' = [game EXCEPT !.links[run[h].req.slot] = run[h].req.link]
    /\ Finish(h, <<>>)
    /\ UNCHANGED <<lock, linkLock, master>>

LinkRemoved(h) ==
    /\ Answered(h, "QuickLinkRemove")
    /\ game' = [game EXCEPT !.links[run[h].req.slot] = None]
    /\ Finish(h, <<>>) /\ UnlockLinks(h)
    /\ UNCHANGED <<lock, master>>

LinksSwapped(h) ==
    /\ Answered(h, "QuickLinkSwap")
    /\ game' = [game EXCEPT !.links[run[h].req.slot] = run[h].req.new,
                            !.links[run[h].req.to] = run[h].req.old]
    /\ Finish(h, <<>>) /\ UnlockLinks(h)
    /\ UNCHANGED <<lock, master>>

Fight(h) ==
    \/ AttckToMobs(h, BOOLEAN) \/ SkillToMobs(h, ManaCosts, SkillGains \cup {0}, BOOLEAN) \/ Revive(h)
Spend(h) == UseStatBons(h) \/ UserStatAutoDistribution(h)
Train(h) == UpgradeSkill(h) \/ Untrain(h) \/ LinkSet(h, Slots) \/ LinkRemove(h) \/ LinkSwap(h)

Step(h) ==
    \/ AddExperience(h) \/ \E t \in Types : AddSkillExperience(h, t)
    \/ saveContextVitals(h) \/ ensureBattleModeSkills(h) \/ LinkSwapCall(h)
    \/ Serve(h) \/ Refused(h)
    \/ ExperienceSaved(h) \/ SkillExperienceSaved(h) \/ VitalsSaved(h) \/ StatSaved(h)
    \/ SkillsGranted(h) \/ SkillSaved(h) \/ SkillUntrained(h)
    \/ LinkSetSaved(h) \/ LinkRemoved(h) \/ LinksSwapped(h)

Next ==
    \/ \E h \in Handlers : Fight(h) \/ Spend(h) \/ Train(h) \/ Step(h) \/ CallFails(h)
    \/ ServeLate

Spec == Init /\ [][Next]_vars

(***************************************************************************)
(* Properties.                                                             *)
(***************************************************************************)

\* Points of the ranks below r.
PointsBelow[r \in 1 .. MaxRank] == IF r = 1 THEN 0 ELSE PointsBelow[r - 1] + PointsForRank[r - 1]
BonusBelow[r \in 1 .. MaxRank] == IF r = 1 THEN 0 ELSE BonusBelow[r - 1] + RankBonus[r - 1]

bonusBelow(p) == BonusBelow[p.rank]

\* The stat points of c, spent or not, are those of its levels and its ranks.
PointsEarned(c) == c.stat + c.pnt = BaseStat + StatPoints * (c.level - 1) + Sum(c.prog, bonusBelow)

\* The level of c is the one its experience gives, and no rank is above what
\* the level allows, with every point of it accounted for.
RanksEarned(c) ==
    /\ c.level = LevelForExperience(1, c.exp)
    /\ \A t \in Types :
         LET p == c.prog[t]
         IN /\ p.rank <= SkillRankLimitFor(c.level)
            /\ p.point = PointsBelow[p.rank] + p.rankExp
            /\ p.exp <= ExpForPoint[p.rank]
            /\ p.rankExp < PointsForRank[p.rank] \/ p.rank = MaxRank

\* The row has the level, the ranks and the stat points it has earned, no more
\* and no less, however handlers overlap and calls fail (SaveExperience,
\* SaveStat, SaveStatDistribution and SaveSkillExperience change its columns
\* independently).
Earned == PointsEarned(db) /\ RanksEarned(db)

\* Nothing a character has earned is ever taken back from the row, not even
\* by the late request of a call that failed (addExperience, skill.go:331).
Grows ==
    [][/\ db'.exp >= db.exp /\ db'.level >= db.level
       /\ \A t \in Types : db'.prog[t].point >= db.prog[t].point /\ db'.prog[t].rank >= db.prog[t].rank]_vars

\* As long as no call has failed, what only changes under ctx.Mutex is the
\* same in the copy and in the row whenever nobody holds it.
LockedAgree ==
    lock = None /\ fails = 0 =>
        /\ game.exp = db.exp /\ game.level = db.level /\ game.prog = db.prog
        /\ game.skill = db.skill /\ game.alz = db.alz

Quiet == \A h \in Handlers : Free(h)

\* The copy is the row.
CopyFollows == Quiet => game = db
=============================================================================

------------------------------ MODULE MCGrowth ------------------------------
(***************************************************************************)
(* One character with three levels and two skill ranks, the second of      *)
(* which needs the second level.  In the modes solo (fights and stats),    *)
(* book (skills and links) and faults one packet is handled at a time, and *)
(* in faults calls fail, so that a late request meets the next packets; in *)
(* the modes fight and train two handlers overlap, in train with failing   *)
(* calls.                                                                  *)
(***************************************************************************)
EXTENDS Growth, TLC

VARIABLE mode

MCAccumulatedExp == <<1, 2, 3>>
MCSkillRankLimit == <<1, 2>>
MCExpForPoint == <<1, 2>>
MCPointsForRank == <<2, 1>>
MCRankBonus == <<1>>

mcvars == <<vars, mode>>

MCInit == Init /\ mode \in {"solo", "book", "faults", "fight", "train"}

Onward == \E h \in Handlers : Step(h)
Faults == ServeLate \/ \E h \in Handlers : CallFails(h)
Fights(h) == AttckToMobs(h, {FALSE}) \/ SkillToMobs(h, {1}, SkillGains, {FALSE}) \/ UseStatBons(h)

SoloNext == Onward \/ (Quiet /\ \E h \in Handlers : Fight(h) \/ Spend(h))
BookNext == Onward \/ (Quiet /\ \E h \in Handlers : Train(h))
FaultsNext == Onward \/ Faults \/ (Quiet /\ \E h \in Handlers : Fights(h))
FightNext == Onward \/ \E h \in Handlers : Fights(h)
TrainNext ==
    \/ Onward \/ Faults
    \/ \E h \in Handlers :
         \/ UpgradeSkill(h) \/ Untrain(h)
         \/ LinkSet(h, {CHOOSE s \in Slots : TRUE}) \/ LinkRemove(h) \/ LinkSwap(h)

MCNext ==
    /\ UNCHANGED mode
    /\ \/ mode = "solo" /\ SoloNext
       \/ mode = "book" /\ BookNext
       \/ mode = "faults" /\ FaultsNext
       \/ mode = "fight" /\ FightNext
       \/ mode = "train" /\ TrainNext

MCSpec == MCInit /\ [][MCNext]_mcvars

Symmetry == Permutations(Handlers)

\* With one packet at a time, and every call answered, the copy of the
\* session is the row whenever no packet is being handled (skill.go, stat.go,
\* hp.go, battle_mode.go and links.go each keep their part of it up to date).
SoloCopies == mode \in {"solo", "book"} => CopyFollows
=============================================================================

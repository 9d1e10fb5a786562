---------------------------- MODULE MCBattleMode ----------------------------
(***************************************************************************)
(* Instances of BattleMode for TLC.                                        *)
(***************************************************************************)
EXTENDS BattleMode, TLC

TheNames == {Drain}
TheTasks == 1..Lamps
TheProcs == Handlers \cup (1..Lamps) \cup {Closer, Remover}
HandlerSymmetry == Permutations(Handlers)
=============================================================================

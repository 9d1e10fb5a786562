------------------------------ MODULE MCTrade ------------------------------
(***************************************************************************)
(* Instances of Trade for TLC.  In the mode exchange two goroutines and a  *)
(* player who leaves meet in the trade of one item; in the mode items one  *)
(* handler runs at a time, items are moved under it and Alz is traded up   *)
(* to the limit; in the mode live two goroutines trade Alz.                *)
(***************************************************************************)
EXTENDS Trade, TLC

CONSTANTS sword, ring, Kinds

VARIABLE kind

\* Player 0 owns a sword, player 1 a ring, the others nothing; every player
\* has one free slot.
TwoItems ==
    [u \in Users |-> [s \in Slots |->
        CASE u = 0 /\ s = 1 -> sword [] u = 1 /\ s = 1 -> ring [] OTHER -> NoItem]]

TwoAndOne == [u \in Users |-> IF u = 0 THEN 2 ELSE 1]

mcvars == <<vars, kind>>

MCInit == Init /\ kind \in Kinds

Goes == \E h \in Handlers : Continue(h)
Starts == \E h \in Handlers, u \in Users : Start(h, u)
Leaves == \E u \in Leavers : Lifecycle(u)
Moves == \E u \in Movers, s, t \in Slots : InventoryMove(u, s, t)
Alone == \A h \in Handlers : Idle(h)

ItemsNext == Goes \/ (Alone /\ Starts) \/ Moves
ExchangeNext ==
    /\ Goes \/ Starts \/ Leaves
    /\ \A u \in Users : trade'[u].alz = 0 /\ (u # 0 => trade'[u].items = <<>>)
LiveNext ==
    /\ Goes \/ Starts
    /\ \A u \in Users : trade'[u].items = <<>>

MCNext ==
    /\ UNCHANGED kind
    /\ \/ kind = "items" /\ ItemsNext
       \/ kind = "exchange" /\ ExchangeNext
       \/ kind = "live" /\ LiveNext

MCSpec == MCInit /\ [][MCNext]_mcvars

HandlerSymmetry == Permutations(Handlers)
=============================================================================

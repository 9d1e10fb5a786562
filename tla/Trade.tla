------------------------------- MODULE Trade -------------------------------
(***************************************************************************)
(* Player-to-player trade on one game server: the handshake, the offer     *)
(* window, and the exchange that the master server commits in the World    *)
(* database (cmd/gameserver/packet/trade.go, TradeItems in                 *)
(* cmd/masterserver/rpc/inventory.go).                                     *)
(*                                                                         *)
(* share/event starts a goroutine for every packet, so handlers of the     *)
(* same session overlap and run in any order.  A handler first copies the  *)
(* trade state and looks the opponent's session up, and only then locks    *)
(* both contexts; each such stretch is one step here.  A packet's contents *)
(* are not read before the locked stretch, so the model picks the kind of  *)
(* request and its arguments there.  Requests that fail before the first   *)
(* read change nothing and are not steps.                                  *)
(***************************************************************************)
EXTENDS Integers, Sequences, SequencesExt

CONSTANTS
    Users,       \* session indexes (Session.UserIdx) of characters in the world
    Handlers,    \* bound on the goroutines that run at the same time
    Slots,       \* inventory slots
    TradeSlots,  \* slots of the trade window
    Items,       \* inventory items
    NoItem,      \* an empty slot: Inventory.Get returns Item{} with Kind 0
    StartInv,    \* the inventories the characters were loaded with
    StartAlz,    \* the Alz they were loaded with
    AlzLimit,    \* stands for ^uint64(0)
    Leavers,     \* users who may disconnect or leave the world
    Movers,      \* users who also rearrange their inventory
    LossyRPC     \* whether the connection to the master server may break

ASSUME TradeAssumption ==
    /\ Users \subseteq Nat
    /\ NoItem \notin Items
    /\ AlzLimit \in Nat
    /\ StartInv \in [Users -> [Slots -> Items \cup {NoItem}]]
    /\ \A u, v \in Users, s, t \in Slots :
          StartInv[u][s] = StartInv[v][t] /\ StartInv[u][s] # NoItem
             => u = v /\ s = t
    /\ StartAlz \in [Users -> 0..AlzLimit]
    /\ Leavers \subseteq Users
    /\ Movers \subseteq Users
    /\ LossyRPC \in BOOLEAN

VARIABLES
    clients,  \* Network.clients
    closed,   \* sessions whose Close has run
    left,     \* closed sessions whose OnClientDisconnect has started
    trade,    \* Context.Trade of every user
    inv,      \* Char.Inventory, the in-memory copy
    alz,      \* Char.Alz, the in-memory copy
    db,       \* table characters_inventory
    dbAlz,    \* column characters.alz
    call      \* the running handlers

vars == <<clients, closed, left, trade, inv, alz, db, dbAlz, call>>
netVars == <<clients, closed, left>>
dbVars == <<db, dbAlz>>

-----------------------------------------------------------------------------
\* TradeItemOffer: an inventory item, the slot it lies in, its window slot.
Offer == [item : Items, slot : Slots, tslot : TradeSlots]

TradeState ==
    [status : {"none", "pending", "open"},
     role : {"none", "requester", "target"},
     opp : Nat,
     items : Seq(Offer),
     alz : 0..AlzLimit,
     submitted : BOOLEAN,
     dest : Seq(Slots)]

\* The zero value TradeState{}: its opponent is index 0, which is a session.
NoTrade ==
    [status |-> "none", role |-> "none", opp |-> 0, items |-> <<>>,
     alz |-> 0, submitted |-> FALSE, dest |-> <<>>]

\* What completeTrade copies out of both contexts for the RPC.  After the call
\* the two Alz fields hold the balances of the response.
Transfer ==
    [mine : Seq(Offer), theirs : Seq(Offer),
     myDest : Seq(Slots), theirDest : Seq(Slots),
     myAlz : 0..AlzLimit, theirAlz : 0..AlzLimit]

NoTransfer ==
    [mine |-> <<>>, theirs |-> <<>>, myDest |-> <<>>, theirDest |-> <<>>,
     myAlz |-> 0, theirAlz |-> 0]

\* A goroutine: where it is, the sessions it holds (peer = me stands for a nil
\* peer session), and the status and role it read before locking.
PC == {"idle", "requesting", "opening", "paired", "leaving",
       "completing", "calling", "applying", "aborting"}

Call ==
    [pc : PC, me : Nat, peer : Nat,
     status : {"none", "pending", "open"},
     role : {"none", "requester", "target"},
     x : Transfer]

IdleCall ==
    [pc |-> "idle", me |-> 0, peer |-> 0, status |-> "none",
     role |-> "none", x |-> NoTransfer]

Idle(h) == call[h].pc = "idle"
Begin(h, pc, u, p) ==
    call' = [call EXCEPT ![h] = [IdleCall EXCEPT !.pc = pc, !.me = u, !.peer = p,
                                    !.status = trade[u].status,
                                    !.role = trade[u].role]]
Return(h) == call' = [call EXCEPT ![h] = IdleCall]
Goto(h, pc) == call' = [call EXCEPT ![h].pc = pc]

Init ==
    /\ clients = Users
    /\ closed = {}
    /\ left = {}
    /\ trade = [u \in Users |-> NoTrade]
    /\ inv = StartInv
    /\ alz = StartAlz
    /\ db = StartInv
    /\ dbAlz = StartAlz
    /\ call = [h \in Handlers |-> IdleCall]

-----------------------------------------------------------------------------
\* Session.Close, then two goroutines in either order: the network forgets the
\* session, and OnClientDisconnect cancels its trade.

Close(u) ==
    /\ u \notin closed
    /\ closed' = closed \cup {u}
    /\ UNCHANGED <<clients, left, trade, inv, alz, db, dbAlz, call>>

onClientDisconnect(u) ==
    /\ u \in closed \cap clients
    /\ clients' = clients \ {u}
    /\ UNCHANGED <<closed, left, trade, inv, alz, db, dbAlz, call>>

\* The peer session CancelTrade finds; u itself when it finds none.
PeerOf(u) == IF trade[u].opp \in clients THEN trade[u].opp ELSE u

CancelTrade(h, u) ==
    /\ Idle(h)
    /\ IF trade[u].status = "none"
         THEN UNCHANGED call
         ELSE Begin(h, "leaving", u, PeerOf(u))

OnClientDisconnect(h, u) ==
    /\ u \in closed \ left
    /\ left' = left \cup {u}
    /\ CancelTrade(h, u)
    /\ UNCHANGED <<clients, closed, trade, inv, alz, db, dbAlz>>

Uninitialze(h, u) ==
    /\ u \notin closed
    /\ CancelTrade(h, u)
    /\ UNCHANGED <<netVars, trade, inv, alz, db, dbAlz>>

\* The locked half of CancelTrade: the leaver is always reset, the peer only
\* while its state still names the leaver.
CancelTradeLocked(h) ==
    LET u == call[h].me
        p == call[h].peer
        peerLinked == p # u /\ trade[p].opp = u
    IN /\ call[h].pc = "leaving"
       /\ trade' = [v \in Users |->
                      IF v = u \/ (v = p /\ peerLinked) THEN NoTrade ELSE trade[v]]
       /\ Return(h)
       /\ UNCHANGED <<netVars, inv, alz, db, dbAlz>>

-----------------------------------------------------------------------------
\* Handshake.

TradeRequest(h, u, t) ==
    /\ Idle(h)
    /\ u # t
    /\ t \in clients
    /\ Begin(h, "requesting", u, t)
    /\ UNCHANGED <<netVars, trade, inv, alz, db, dbAlz>>

reserveTradeRequest(h) ==
    LET u == call[h].me
        t == call[h].peer
        free == trade[u].status = "none" /\ trade[t].status = "none"
    IN /\ call[h].pc = "requesting"
       /\ trade' = IF free
                     THEN [trade EXCEPT
                             ![u] = [NoTrade EXCEPT !.status = "pending",
                                       !.role = "requester", !.opp = t],
                             ![t] = [NoTrade EXCEPT !.status = "pending",
                                       !.role = "target", !.opp = u]]
                     ELSE trade
       /\ Return(h)
       /\ UNCHANGED <<netVars, inv, alz, db, dbAlz>>

TradeOpenEvent(h, u) ==
    /\ Idle(h)
    /\ trade[u].opp \in clients \ {u}
    /\ Begin(h, "opening", u, trade[u].opp)
    /\ UNCHANGED <<netVars, trade, inv, alz, db, dbAlz>>

\* Mutated form: trusts the copy and does not read the opponent's status again.
OpenValidCopy(h, event) ==
    LET c == call[h]
    IN /\ c.status = "pending"
       /\ trade[c.peer].opp = c.me
       /\ c.role = (IF event = "cancel" THEN "requester" ELSE "target")

\* The checks made under the locks: the own status and role are the copies
\* read before, only the opponent's state is read again.
OpenValid(h, event) ==
    LET c == call[h]
    IN /\ c.status = "pending"
       /\ trade[c.peer].status = "pending"
       /\ trade[c.peer].opp = c.me
       /\ c.role = (IF event = "cancel" THEN "requester" ELSE "target")

TradeOpenEventLocked(h, event) ==
    LET u == call[h].me
        p == call[h].peer
    IN /\ call[h].pc = "opening"
       /\ trade' = IF ~OpenValid(h, event) THEN trade
                   ELSE IF event = "accept"
                     THEN [trade EXCEPT ![u].status = "open", ![p].status = "open"]
                     ELSE [trade EXCEPT ![u] = NoTrade, ![p] = NoTrade]
       /\ Return(h)
       /\ UNCHANGED <<netVars, inv, alz, db, dbAlz>>

-----------------------------------------------------------------------------
\* The trade window.  Every handler begins with tradePair.

tradePair(h, u) ==
    /\ Idle(h)
    /\ trade[u].status = "open"
    /\ trade[u].opp \in clients \ {u}
    /\ Begin(h, "paired", u, trade[u].opp)
    /\ UNCHANGED <<netVars, trade, inv, alz, db, dbAlz>>

\* The common check under the locks, which does not compare the opponents.
BothOpen(h) ==
    /\ call[h].pc = "paired"
    /\ trade[call[h].me].status = "open"
    /\ trade[call[h].peer].status = "open"

\* A request the handler refuses under the locks: it unlocks and answers.
Refuse(h) ==
    /\ call[h].pc = "paired"
    /\ Return(h)
    /\ UNCHANGED <<netVars, trade, inv, alz, db, dbAlz>>

TradeCloseEvent(h, event) ==
    LET u == call[h].me
        p == call[h].peer
    IN /\ BothOpen(h)
       /\ \/ /\ event = "submit"
             /\ ~trade[u].submitted
             /\ trade' = [trade EXCEPT ![u].submitted = TRUE]
          \/ /\ event = "submitCancel"
             /\ trade' = [trade EXCEPT ![u].submitted = FALSE]
          \/ /\ event = "tradeCancel"
             /\ trade' = [trade EXCEPT ![u] = NoTrade, ![p] = NoTrade]
       /\ Return(h)
       /\ UNCHANGED <<netVars, inv, alz, db, dbAlz>>

\* Mutated form: the opponent's submission stands.
NewOfferKept(h, state) == trade' = [trade EXCEPT ![call[h].me] = state]

\* Changing one's offer withdraws the submission of the peer session.
NewOffer(h, state) ==
    trade' = [trade EXCEPT ![call[h].me] = state, ![call[h].peer].submitted = FALSE]

MayEdit(h) == BothOpen(h) /\ ~trade[call[h].me].submitted

tradeOfferExists(items, slot, tslot) ==
    \E k \in DOMAIN items : items[k].slot = slot \/ items[k].tslot = tslot

\* Mutated form: does not look for the slots among the offers.
TradeAddItemUnchecked(h, slot, tslot) ==
    LET u == call[h].me
        item == inv[u][slot]
    IN /\ MayEdit(h)
       /\ item # NoItem
       /\ NewOffer(h, [trade[u] EXCEPT
                         !.items = Append(@, [item |-> item, slot |-> slot, tslot |-> tslot])])
       /\ Return(h)
       /\ UNCHANGED <<netVars, inv, alz, db, dbAlz>>

TradeAddItem(h, slot, tslot) ==
    LET u == call[h].me
        item == inv[u][slot]
    IN /\ MayEdit(h)
       /\ item # NoItem
       /\ ~tradeOfferExists(trade[u].items, slot, tslot)
       /\ NewOffer(h, [trade[u] EXCEPT
                         !.items = Append(@, [item |-> item, slot |-> slot, tslot |-> tslot])])
       /\ Return(h)
       /\ UNCHANGED <<netVars, inv, alz, db, dbAlz>>

TradeAddAlz(h, amount) ==
    LET u == call[h].me
    IN /\ MayEdit(h)
       /\ amount <= alz[u]
       /\ NewOffer(h, [trade[u] EXCEPT !.alz = amount])
       /\ Return(h)
       /\ UNCHANGED <<netVars, inv, alz, db, dbAlz>>

TradeRemoveItem(h, k) ==
    LET u == call[h].me
    IN /\ MayEdit(h)
       /\ k \in DOMAIN trade[u].items
       /\ NewOffer(h, [trade[u] EXCEPT !.items = RemoveAt(@, k)])
       /\ Return(h)
       /\ UNCHANGED <<netVars, inv, alz, db, dbAlz>>

Distinct(seq) == \A j, k \in DOMAIN seq : seq[j] = seq[k] => j = k

\* The destination slots for the opponent's items; the handler goes on to
\* completeTrade when the opponent's list has the right length.
TradeRequestList(h, slots) ==
    LET u == call[h].me
        p == call[h].peer
        ready == Len(trade[p].dest) = Len(trade[u].items)
    IN /\ BothOpen(h)
       /\ trade[u].submitted
       /\ trade[p].submitted
       /\ Len(slots) = Len(trade[p].items)
       /\ Distinct(slots)
       /\ \A k \in DOMAIN slots : inv[u][slots[k]] = NoItem
       /\ trade' = [trade EXCEPT ![u].dest = slots]
       /\ IF ready THEN Goto(h, "completing") ELSE Return(h)
       /\ UNCHANGED <<netVars, inv, alz, db, dbAlz>>

-----------------------------------------------------------------------------
\* The exchange.

\* completeTrade up to the RPC: both states are checked again and copied.
completeTrade(h) ==
    LET c == call[h]
        f == trade[c.me]
        s == trade[c.peer]
        valid == /\ f.status = "open" /\ s.status = "open"
                 /\ f.submitted /\ s.submitted
                 /\ Len(f.dest) = Len(s.items)
                 /\ Len(s.dest) = Len(f.items)
    IN /\ c.pc = "completing"
       /\ IF valid
            THEN call' = [call EXCEPT
                            ![h].pc = "calling",
                            ![h].x = [mine |-> f.items, theirs |-> s.items,
                                      myDest |-> f.dest, theirDest |-> s.dest,
                                      myAlz |-> f.alz, theirAlz |-> s.alz]]
            ELSE Return(h)
       /\ UNCHANGED <<netVars, trade, inv, alz, db, dbAlz>>

\* Mutated form: does not compare the source row with the offered item.
validateTargetsOnly(source, target, items, dest) ==
    /\ \A k \in DOMAIN items :
          /\ items[k].slot # dest[k]
          /\ db[target][dest[k]] = NoItem
    /\ \A j, k \in DOMAIN items : items[j].slot = items[k].slot => j = k
    /\ Distinct(dest)

\* One side of the transfer against the stored rows.  A target slot with the
\* number of the source slot is refused although it is another character's.
validateTradeTransfers(source, target, items, dest) ==
    /\ \A k \in DOMAIN items :
          /\ items[k].slot # dest[k]
          /\ db[source][items[k].slot] = items[k].item
          /\ db[target][dest[k]] = NoItem
    /\ \A j, k \in DOMAIN items : items[j].slot = items[k].slot => j = k
    /\ Distinct(dest)

\* A character's slots after giving `out' away and getting `in' at `dest'.
applyTradeTransfers(slots, out, in, dest) ==
    [s \in Slots |->
        IF \E k \in DOMAIN in : dest[k] = s
          THEN in[CHOOSE k \in DOMAIN in : dest[k] = s].item
          ELSE IF \E k \in DOMAIN out : out[k].slot = s THEN NoItem ELSE slots[s]]

\* Mutated form: no overflow check on the second balance.
AlzUncheckedSecond(f, s, x) ==
    /\ x.myAlz <= dbAlz[f]
    /\ x.theirAlz <= dbAlz[s]
    /\ AlzLimit - (dbAlz[f] - x.myAlz) >= x.theirAlz

\* The Alz checks of TradeItems, overflow of the receiving side included.
AlzValid(f, s, x) ==
    /\ x.myAlz <= dbAlz[f]
    /\ x.theirAlz <= dbAlz[s]
    /\ AlzLimit - (dbAlz[f] - x.myAlz) >= x.theirAlz
    /\ AlzLimit - (dbAlz[s] - x.theirAlz) >= x.myAlz

TradeItemsValid(f, s, x) ==
    /\ f # s
    /\ AlzValid(f, s, x)
    /\ validateTradeTransfers(f, s, x.mine, x.theirDest)
    /\ validateTradeTransfers(s, f, x.theirs, x.myDest)

\* Mutated form: the second character's balance is not written.
TradeItemsHalf(f, s, x) ==
    /\ TradeItemsValid(f, s, x)
    /\ db' = [db EXCEPT
                ![f] = applyTradeTransfers(db[f], x.mine, x.theirs, x.myDest),
                ![s] = applyTradeTransfers(db[s], x.theirs, x.mine, x.theirDest)]
    /\ dbAlz' = [dbAlz EXCEPT ![f] = @ - x.myAlz + x.theirAlz]

\* TradeItems on the master server: one transaction, committed as a whole.
TradeItemsCommit(f, s, x) ==
    /\ TradeItemsValid(f, s, x)
    /\ db' = [db EXCEPT
                ![f] = applyTradeTransfers(db[f], x.mine, x.theirs, x.myDest),
                ![s] = applyTradeTransfers(db[s], x.theirs, x.mine, x.theirDest)]
    /\ dbAlz' = [dbAlz EXCEPT ![f] = @ - x.myAlz + x.theirAlz,
                              ![s] = @ - x.theirAlz + x.myAlz]

\* The RPC: committed and answered, refused, or broken off before or after
\* the commit (Client.readLoop fails the pending calls).
TradeItemsCommitted(h) ==
    LET c == call[h]
    IN /\ c.pc = "calling"
       /\ TradeItemsCommit(c.me, c.peer, c.x)
       /\ \/ call' = [call EXCEPT
                         ![h].pc = "applying",
                         ![h].x = [@ EXCEPT !.myAlz = dbAlz'[c.me],
                                            !.theirAlz = dbAlz'[c.peer]]]
          \/ LossyRPC /\ Goto(h, "aborting")
       /\ UNCHANGED <<netVars, trade, inv, alz>>

TradeItemsRefused(h) ==
    LET c == call[h]
    IN /\ c.pc = "calling"
       /\ LossyRPC \/ ~TradeItemsValid(c.me, c.peer, c.x)
       /\ Goto(h, "aborting")
       /\ UNCHANGED <<netVars, trade, inv, alz, db, dbAlz>>

\* The rest of completeTrade: the in-memory copies follow the database and
\* both trade states are reset, whatever they hold by now.
completeTradeApply(h) ==
    LET c == call[h]
        f == c.me
        s == c.peer
    IN /\ c.pc = "applying"
       /\ inv' = [inv EXCEPT
                    ![f] = applyTradeTransfers(inv[f], c.x.mine, c.x.theirs, c.x.myDest),
                    ![s] = applyTradeTransfers(inv[s], c.x.theirs, c.x.mine, c.x.theirDest)]
       /\ alz' = [alz EXCEPT ![f] = c.x.myAlz, ![s] = c.x.theirAlz]
       /\ trade' = [trade EXCEPT ![f] = NoTrade, ![s] = NoTrade]
       /\ Return(h)
       /\ UNCHANGED <<netVars, db, dbAlz>>

abortCompletedTrade(h) ==
    /\ call[h].pc = "aborting"
    /\ trade' = [trade EXCEPT ![call[h].me] = NoTrade, ![call[h].peer] = NoTrade]
    /\ Return(h)
    /\ UNCHANGED <<netVars, inv, alz, db, dbAlz>>

\* Inventory.Move with the master's MoveItem, under the inventory mutex.  The
\* UPDATE may match no row and still succeeds; it fails on an occupied target.
InventoryMove(u, from, to) ==
    /\ inv[u][from] # NoItem
    /\ inv[u][to] = NoItem
    /\ db[u][from] # NoItem => db[u][to] = NoItem
    /\ inv' = [inv EXCEPT ![u][from] = NoItem, ![u][to] = inv[u][from]]
    /\ db' = IF db[u][from] = NoItem THEN db
             ELSE [db EXCEPT ![u][from] = NoItem, ![u][to] = db[u][from]]
    /\ UNCHANGED <<netVars, trade, alz, dbAlz, call>>

-----------------------------------------------------------------------------
OpenEvents == {"accept", "reject", "cancel"}
CloseEvents == {"submit", "submitCancel", "tradeCancel"}

Lifecycle(u) ==
    \/ Close(u)
    \/ onClientDisconnect(u)
    \/ \E h \in Handlers : OnClientDisconnect(h, u) \/ Uninitialze(h, u)

Start(h, u) ==
    \/ \E t \in Users : TradeRequest(h, u, t)
    \/ TradeOpenEvent(h, u)
    \/ tradePair(h, u)

\* Lists of destination slots: only their length and slots matter, so the
\* sequences of the right length are enough.
Lists(n) == [1..n -> Slots]

Window(h) ==
    \/ Refuse(h)
    \/ \E e \in CloseEvents : TradeCloseEvent(h, e)
    \/ \E s \in Slots, t \in TradeSlots : TradeAddItem(h, s, t)
    \/ \E a \in 0..AlzLimit : TradeAddAlz(h, a)
    \/ \E k \in DOMAIN trade[call[h].me].items : TradeRemoveItem(h, k)
    \/ \E l \in Lists(Len(trade[call[h].peer].items)) : TradeRequestList(h, l)

Continue(h) ==
    \/ CancelTradeLocked(h)
    \/ reserveTradeRequest(h)
    \/ \E e \in OpenEvents : TradeOpenEventLocked(h, e)
    \/ call[h].pc = "paired" /\ Window(h)
    \/ completeTrade(h)
    \/ TradeItemsCommitted(h)
    \/ TradeItemsRefused(h)
    \/ completeTradeApply(h)
    \/ abortCompletedTrade(h)

Next ==
    \/ \E u \in Leavers : Lifecycle(u)
    \/ \E h \in Handlers, u \in Users : Start(h, u)
    \/ \E h \in Handlers : Continue(h)
    \/ \E u \in Movers, s, t \in Slots : InventoryMove(u, s, t)

Spec == Init /\ [][Next]_vars

-----------------------------------------------------------------------------
\* Every variable has the shape of the Go type behind it.  For dbAlz this says
\* that the overflow checks of TradeItems keep balances within uint64.
TypeOK ==
    /\ clients \subseteq Users
    /\ closed \subseteq Users
    /\ left \subseteq closed
    /\ trade \in [Users -> TradeState]
    /\ inv \in [Users -> [Slots -> Items \cup {NoItem}]]
    /\ alz \in [Users -> 0..AlzLimit]
    /\ db \in [Users -> [Slots -> Items \cup {NoItem}]]
    /\ dbAlz \in [Users -> 0..AlzLimit]
    /\ call \in [Handlers -> Call]

DistinctOffers(items) ==
    \A j, k \in DOMAIN items :
        items[j].slot = items[k].slot \/ items[j].tslot = items[k].tslot => j = k

\* An offer never lists an inventory slot or a window slot twice, however the
\* handlers that add to it, remove from it and reset it overlap
\* (tradeOfferExists is evaluated under the lock that guards the append).
OffersDistinct == \A u \in Users : DistinctOffers(trade[u].items)

\* No item is in two rows of the table d.
NoDuplicate(d) ==
    \A u, v \in Users, s, t \in Slots :
        d[u][s] = d[v][t] /\ d[u][s] # NoItem => u = v /\ s = t

\* No item the characters were loaded with is missing from the table d.
NoLoss(d) ==
    \A u \in Users, s \in Slots : StartInv[u][s] # NoItem =>
        \E v \in Users, t \in Slots : d[v][t] = StartInv[u][s]

\* No trade, completed once or twice, answered or broken off, and no move
\* between its steps, makes the World database lose or duplicate an item:
\* every item the characters were loaded with is in exactly one row (the
\* validation and the DELETE and INSERT statements of TradeItems, MoveItem).
ItemsOnce == NoDuplicate(db) /\ NoLoss(db)

\* A step moves Alz between two characters or leaves the column alone: what
\* one balance loses the other gains (TradeItems writes both or neither).
AlzConserved ==
    [][dbAlz' # dbAlz =>
         \E f, s \in Users :
            /\ f # s
            /\ dbAlz'[f] + dbAlz'[s] = dbAlz[f] + dbAlz[s]
            /\ \A u \in Users \ {f, s} : dbAlz'[u] = dbAlz[u]]_vars

\* Among connected players a trade has two ends that agree: same status,
\* opposite roles, naming each other, although the status and role a
\* TradeOpenEvent acts on were copied before it locked.
Paired ==
    closed = {} => \A u \in Users : trade[u].status # "none" =>
        LET p == trade[u].opp
        IN /\ p # u
           /\ trade[p].opp = u
           /\ trade[p].status = trade[u].status
           /\ {trade[u].role, trade[p].role} = {"requester", "target"}

\* While a player's submission stands and the trade is open, the offer it was
\* made against does not change: every edit withdraws the opponent's
\* submission under the same locks, whichever handlers overlap.
SubmittedSeesOffer ==
    [][\A u, v \in Users :
         /\ u # v
         /\ trade[u].opp = v /\ trade[v].opp = u
         /\ trade[u].submitted /\ trade'[u].submitted
         /\ trade'[v].status = "open"
         => trade'[v].items = trade[v].items /\ trade'[v].alz = trade[v].alz]_vars

\* The master server exchanges only what a live trade still asks for: both
\* states open, submitted and naming each other when the transaction commits.
\* TradeItems relies on it ("The gameserver validates the live trade state").
ExchangeIsLive ==
    [][\A h \in Handlers :
         call[h].pc = "calling" /\ call'[h].pc # "calling" /\ dbVars' # dbVars =>
            LET f == trade[call[h].me]
                s == trade[call[h].peer]
            IN /\ f.status = "open" /\ f.submitted /\ f.opp = call[h].peer
               /\ s.status = "open" /\ s.submitted /\ s.opp = call[h].me]_vars

=============================================================================

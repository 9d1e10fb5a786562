---------------------------- MODULE TradeProofs ----------------------------
(***************************************************************************)
(* Theorems about Trade, for any number of players, goroutines, items and  *)
(* slots: type correctness, distinct offers, and what TradeItems does to   *)
(* the World database.                                                     *)
(***************************************************************************)
EXTENDS Trade, TLAPS

\* A running handler holds two sessions, and the transfer it sends to the
\* master server pairs every item with a destination slot.
CallOK ==
    \A h \in Handlers :
        /\ call[h].pc # "idle" => call[h].me \in Users /\ call[h].peer \in Users
        /\ call[h].pc \in {"calling", "applying"} =>
              /\ Len(call[h].x.mine) = Len(call[h].x.theirDest)
              /\ Len(call[h].x.theirs) = Len(call[h].x.myDest)

IInv == TypeOK /\ CallOK /\ OffersDistinct

-----------------------------------------------------------------------------
\* Lemmas on the operators.

\* The zero trade state is a trade state.
LEMMA NoTradeType == NoTrade \in TradeState
  BY TradeAssumption DEF NoTrade, TradeState

\* The record of a goroutine that is not running is well-formed.
LEMMA IdleCallType == IdleCall \in Call
  BY TradeAssumption DEF IdleCall, Call, PC, NoTransfer, Transfer

\* Appending an offer that tradeOfferExists does not report keeps the offers
\* distinct.
LEMMA AppendDistinct ==
  ASSUME NEW items \in Seq(Offer), NEW o \in Offer,
         DistinctOffers(items), ~tradeOfferExists(items, o.slot, o.tslot)
  PROVE  Append(items, o) \in Seq(Offer) /\ DistinctOffers(Append(items, o))
  BY DEF DistinctOffers, tradeOfferExists

\* Removing an offer keeps the offers distinct.
LEMMA RemoveDistinct ==
  ASSUME NEW items \in Seq(Offer), NEW k \in DOMAIN items, DistinctOffers(items)
  PROVE  RemoveAt(items, k) \in Seq(Offer) /\ DistinctOffers(RemoveAt(items, k))
  <1> DEFINE front == SubSeq(items, 1, k - 1)
             back == SubSeq(items, k + 1, Len(items))
  <1>1. k \in 1..Len(items)
    OBVIOUS
  <1>2. /\ front \in Seq(Offer) /\ Len(front) = k - 1
        /\ \A j \in 1..(k - 1) : front[j] = items[j]
    BY <1>1
  <1>3. /\ back \in Seq(Offer) /\ Len(back) = Len(items) - k
        /\ \A j \in 1..(Len(items) - k) : back[j] = items[j + k]
    BY <1>1
  <1> HIDE DEF front, back
  <1> DEFINE r == front \o back
             origin(j) == IF j < k THEN j ELSE j + 1
  <1>4. /\ r \in Seq(Offer)
        /\ Len(r) = Len(items) - 1
        /\ \A j \in 1..(Len(items) - 1) : r[j] = items[origin(j)]
    BY <1>1, <1>2, <1>3, SMTT(20)
  <1> HIDE DEF r
  <1>5. DistinctOffers(r)
    <2> SUFFICES ASSUME NEW i \in DOMAIN r, NEW j \in DOMAIN r,
                        r[i].slot = r[j].slot \/ r[i].tslot = r[j].tslot
                 PROVE  i = j
      BY DEF DistinctOffers
    <2>0. i \in 1..(Len(items) - 1) /\ j \in 1..(Len(items) - 1)
      BY <1>4
    <2>1. origin(i) \in DOMAIN items /\ origin(j) \in DOMAIN items
      BY <1>1, <2>0
    <2>2. r[i] = items[origin(i)] /\ r[j] = items[origin(j)]
      BY <1>4, <2>0
    <2>3. origin(i) = origin(j)
      <3> HIDE DEF origin
      <3> QED BY <2>1, <2>2 DEF DistinctOffers
    <2> QED
      BY <1>1, <2>0, <2>3
  <1> QED
    BY <1>4, <1>5 DEF RemoveAt, front, back, r

\* The overflow check of TradeItems keeps a balance within the limit.
LEMMA BalanceRange ==
  ASSUME NEW limit \in Nat, NEW balance \in 0..limit,
         NEW out \in 0..limit, NEW in \in 0..limit,
         out <= balance, limit - (balance - out) >= in
  PROVE  balance - out + in \in 0..limit
  OBVIOUS

\* Applying a transfer to a character's slots gives slots again.
LEMMA ApplyType ==
  ASSUME NEW slots \in [Slots -> Items \cup {NoItem}],
         NEW out \in Seq(Offer), NEW in \in Seq(Offer), NEW dest \in Seq(Slots)
  PROVE  applyTradeTransfers(slots, out, in, dest) \in [Slots -> Items \cup {NoItem}]
  <1> SUFFICES ASSUME NEW s \in Slots
               PROVE  applyTradeTransfers(slots, out, in, dest)[s] \in Items \cup {NoItem}
    BY DEF applyTradeTransfers
  <1>1. CASE \E k \in DOMAIN in : dest[k] = s
    <2> DEFINE c == CHOOSE k \in DOMAIN in : dest[k] = s
    <2>1. c \in DOMAIN in
      BY <1>1
    <2> HIDE DEF c
    <2>2. in[c] \in Offer
      BY <2>1
    <2>3. in[c].item \in Items
      BY <2>2 DEF Offer
    <2> QED
      BY <1>1, <2>3 DEF applyTradeTransfers, c
  <1>2. CASE ~ \E k \in DOMAIN in : dest[k] = s
    BY <1>2 DEF applyTradeTransfers
  <1> QED
    BY <1>1, <1>2

-----------------------------------------------------------------------------
\* Type correctness, with the well-formedness of the running handlers.

\* The invariant holds at first.
LEMMA InitInv == Init => IInv
  <1> SUFFICES ASSUME Init PROVE IInv
    OBVIOUS
  <1>1. TypeOK
    BY TradeAssumption, NoTradeType, IdleCallType DEF Init, TypeOK
  <1>2. CallOK
    BY DEF Init, CallOK, IdleCall
  <1>3. OffersDistinct
    BY DEF Init, OffersDistinct, DistinctOffers, NoTrade
  <1> QED
    BY <1>1, <1>2, <1>3 DEF IInv

\* A handler that starts holds sessions of users and no transfer yet.
LEMMA BeginInv ==
  ASSUME IInv, NEW h \in Handlers, NEW pc \in PC \ {"idle", "calling", "applying"},
         NEW u \in Users, NEW p \in Users, Begin(h, pc, u, p)
  PROVE  call' \in [Handlers -> Call] /\ CallOK'
  <1> DEFINE c == [IdleCall EXCEPT !.pc = pc, !.me = u, !.peer = p,
                      !.status = trade[u].status, !.role = trade[u].role]
  <1>1. trade[u] \in TradeState /\ u \in Nat /\ p \in Nat
    BY TradeAssumption DEF IInv, TypeOK
  <1>2. c \in Call /\ c.pc = pc /\ c.me = u /\ c.peer = p
    BY <1>1, IdleCallType DEF Call, TradeState, IdleCall
  <1>3. call' = [call EXCEPT ![h] = c]
    BY DEF Begin
  <1> HIDE DEF c
  <1> QED
    BY <1>2, <1>3 DEF IInv, TypeOK, CallOK, PC

\* A handler that returns leaves the invariant of the others alone.
LEMMA ReturnInv ==
  ASSUME IInv, NEW h \in Handlers, Return(h)
  PROVE  call' \in [Handlers -> Call] /\ CallOK'
  <1>1. IdleCall \in Call /\ IdleCall.pc = "idle"
    BY IdleCallType DEF IdleCall
  <1> QED
    BY <1>1 DEF Return, IInv, TypeOK, CallOK

\* So does one that goes on without building a transfer.
LEMMA GotoInv ==
  ASSUME IInv, NEW h \in Handlers, call[h].pc # "idle",
         NEW pc \in PC \ {"idle", "calling", "applying"}, Goto(h, pc)
  PROVE  call' \in [Handlers -> Call] /\ CallOK'
  <1> DEFINE c == [call[h] EXCEPT !.pc = pc]
  <1>1. call[h] \in Call
    BY DEF IInv, TypeOK
  <1>2. c \in Call /\ c.pc = pc /\ c.me = call[h].me /\ c.peer = call[h].peer
    BY <1>1 DEF Call
  <1>3. call' = [call EXCEPT ![h] = c]
    BY DEF Goto
  <1> HIDE DEF c
  <1> QED
    BY <1>2, <1>3 DEF IInv, TypeOK, CallOK

\* Writing two trade states keeps the types and the distinct offers.
LEMMA WriteTwo ==
  ASSUME IInv, NEW u \in Users, NEW p \in Users,
         NEW a \in TradeState, NEW b \in TradeState,
         DistinctOffers(a.items), DistinctOffers(b.items),
         trade' = [trade EXCEPT ![u] = a, ![p] = b]
  PROVE  trade' \in [Users -> TradeState] /\ OffersDistinct'
  BY DEF IInv, TypeOK, OffersDistinct

\* The zero trade state offers nothing.
LEMMA NoTradeDistinct == DistinctOffers(NoTrade.items)
  BY DEF DistinctOffers, NoTrade

\* A step that leaves everything but trade and call alone, the rest unchanged.
LEMMA Assemble ==
  ASSUME IInv, UNCHANGED <<netVars, inv, alz, db, dbAlz>>,
         trade' \in [Users -> TradeState], OffersDistinct',
         call' \in [Handlers -> Call], CallOK'
  PROVE  IInv'
  BY DEF IInv, TypeOK, netVars

\* The same for a step that leaves trade alone.
LEMMA AssembleSame ==
  ASSUME IInv, UNCHANGED <<netVars, trade, inv, alz, db, dbAlz>>,
         call' \in [Handlers -> Call], CallOK'
  PROVE  IInv'
  BY DEF IInv, TypeOK, OffersDistinct, netVars

\* Connecting, disconnecting and leaving the world.
LEMMA LifecycleInv ==
  ASSUME IInv, NEW u \in Users, Lifecycle(u)
  PROVE  IInv'
  <1> USE DEF IInv
  <1>1. CASE Close(u)
    BY <1>1 DEF Close, TypeOK, CallOK, OffersDistinct
  <1>2. CASE onClientDisconnect(u)
    BY <1>2 DEF onClientDisconnect, TypeOK, CallOK, OffersDistinct
  <1>3. ASSUME NEW h \in Handlers, CancelTrade(h, u)
        PROVE  call' \in [Handlers -> Call] /\ CallOK'
    <2>1. CASE UNCHANGED call
      BY <2>1 DEF TypeOK, CallOK
    <2>2. CASE Begin(h, "leaving", u, PeerOf(u))
      <3>1. PeerOf(u) \in Users
        BY DEF PeerOf, TypeOK
      <3> QED
        BY <2>2, <3>1, BeginInv DEF PC
    <2> QED
      BY <1>3, <2>1, <2>2 DEF CancelTrade
  <1>4. ASSUME NEW h \in Handlers, OnClientDisconnect(h, u) PROVE IInv'
    <2>1. /\ left' \subseteq closed'
          /\ UNCHANGED <<clients, closed, trade, inv, alz, db, dbAlz>>
      BY <1>4 DEF OnClientDisconnect, TypeOK
    <2> QED
      BY <1>3, <1>4, <2>1 DEF OnClientDisconnect, TypeOK, OffersDistinct
  <1>5. ASSUME NEW h \in Handlers, Uninitialze(h, u) PROVE IInv'
    BY <1>3, <1>5, AssembleSame DEF Uninitialze
  <1> QED
    BY <1>1, <1>2, <1>4, <1>5 DEF Lifecycle

\* The unlocked first halves of the handlers.
LEMMA StartInvariant ==
  ASSUME IInv, NEW h \in Handlers, NEW u \in Users, Start(h, u)
  PROVE  IInv'
  <1>0. clients \subseteq Users
    BY DEF IInv, TypeOK
  <1>1. ASSUME NEW t \in Users, TradeRequest(h, u, t) PROVE IInv'
    BY <1>1, BeginInv, AssembleSame DEF TradeRequest, PC
  <1>2. CASE TradeOpenEvent(h, u)
    BY <1>0, <1>2, BeginInv, AssembleSame DEF TradeOpenEvent, PC
  <1>3. CASE tradePair(h, u)
    BY <1>0, <1>3, BeginInv, AssembleSame DEF tradePair, PC
  <1> QED
    BY <1>1, <1>2, <1>3 DEF Start

\* The locked halves of the handshake and of CancelTrade.
LEMMA HandshakeInv ==
  ASSUME IInv, NEW h \in Handlers
  PROVE  /\ CancelTradeLocked(h) => IInv'
         /\ reserveTradeRequest(h) => IInv'
         /\ \A e \in OpenEvents : TradeOpenEventLocked(h, e) => IInv'
  <1> DEFINE u == call[h].me
             p == call[h].peer
  <1>0. ASSUME call[h].pc # "idle" PROVE u \in Users /\ p \in Users
    BY <1>0 DEF IInv, CallOK
  <1>1. ASSUME CancelTradeLocked(h) PROVE IInv'
    <2>1. \A v \in Users : trade'[v] \in {NoTrade, trade[v]}
      BY <1>1 DEF CancelTradeLocked
    <2>2. trade' \in [Users -> TradeState]
      BY <1>1, NoTradeType DEF CancelTradeLocked, IInv, TypeOK
    <2>3. OffersDistinct'
      BY <2>1, NoTradeDistinct DEF OffersDistinct, IInv
    <2> QED
      BY <1>1, <2>2, <2>3, ReturnInv, Assemble DEF CancelTradeLocked
  <1>2. ASSUME reserveTradeRequest(h) PROVE IInv'
    <2> DEFINE a == [NoTrade EXCEPT !.status = "pending", !.role = "requester", !.opp = p]
               b == [NoTrade EXCEPT !.status = "pending", !.role = "target", !.opp = u]
    <2>0. u \in Users /\ p \in Users
      BY <1>0, <1>2 DEF reserveTradeRequest
    <2>1. /\ a \in TradeState /\ a.items = NoTrade.items
          /\ b \in TradeState /\ b.items = NoTrade.items
      BY <2>0, TradeAssumption, NoTradeType DEF TradeState
    <2>2. DistinctOffers(a.items) /\ DistinctOffers(b.items)
      BY <2>1, NoTradeDistinct
    <2>3. trade' = trade \/ trade' = [trade EXCEPT ![u] = a, ![p] = b]
      BY <1>2 DEF reserveTradeRequest
    <2> HIDE DEF a, b
    <2>4. trade' \in [Users -> TradeState] /\ OffersDistinct'
      <3>1. CASE trade' = trade
        BY <3>1 DEF IInv, TypeOK, OffersDistinct
      <3>2. CASE trade' = [trade EXCEPT ![u] = a, ![p] = b]
        BY <2>0, <2>1, <2>2, <3>2, WriteTwo
      <3> QED
        BY <2>3, <3>1, <3>2
    <2> QED
      BY <1>2, <2>4, ReturnInv, Assemble DEF reserveTradeRequest
  <1>3. ASSUME NEW e \in OpenEvents, TradeOpenEventLocked(h, e) PROVE IInv'
    <2>0. u \in Users /\ p \in Users
      BY <1>0, <1>3 DEF TradeOpenEventLocked
    <2>1. \A v \in Users : [trade[v] EXCEPT !.status = "open"] \in TradeState
      <3>1. \A a \in TradeState : [a EXCEPT !.status = "open"] \in TradeState
        BY DEF TradeState
      <3> QED
        BY <3>1 DEF IInv, TypeOK
    <2>2. trade' \in [Users -> TradeState]
      BY <1>3, <2>0, <2>1, NoTradeType DEF TradeOpenEventLocked, IInv, TypeOK
    <2>3. \A v \in Users : trade'[v].items \in {NoTrade.items, trade[v].items}
      <3>1. trade \in [Users -> TradeState]
        BY DEF IInv, TypeOK
      <3>2. CASE trade' = [trade EXCEPT ![u].status = "open", ![p].status = "open"]
        <4>1. PICK T : T = [trade EXCEPT ![u].status = "open"]
          OBVIOUS
        <4>2. T \in [Users -> TradeState] /\ \A v \in Users : T[v].items = trade[v].items
          <5>1. \A a \in TradeState : [a EXCEPT !.status = "open"].items = a.items
            BY DEF TradeState
          <5> QED
            BY <2>0, <2>1, <3>1, <4>1, <5>1
        <4>3. trade' = [T EXCEPT ![p].status = "open"]
          BY <3>2, <4>1
        <4>4. \A v \in Users : trade'[v].items = T[v].items
          BY <2>0, <4>2, <4>3 DEF TradeState
        <4> QED
          BY <4>2, <4>4
      <3>3. CASE trade' = [trade EXCEPT ![u] = NoTrade, ![p] = NoTrade]
        <4>1. \A v \in Users : trade'[v] = NoTrade \/ trade'[v] = trade[v]
          BY <2>0, <3>1, <3>3
        <4> QED
          BY <4>1
      <3> QED
        BY <1>3, <3>2, <3>3 DEF TradeOpenEventLocked
    <2>4. OffersDistinct'
      BY <2>3, NoTradeDistinct DEF OffersDistinct, IInv
    <2> QED
      BY <1>3, <2>2, <2>4, ReturnInv, Assemble DEF TradeOpenEventLocked
  <1> QED
    BY <1>1, <1>2, <1>3

\* The handlers of the trade window, under the locks.
LEMMA WindowInv ==
  ASSUME IInv, NEW h \in Handlers, call[h].pc = "paired", Window(h)
  PROVE  IInv'
  <1> DEFINE u == call[h].me
             p == call[h].peer
  <1>0. /\ u \in Users /\ p \in Users
        /\ trade \in [Users -> TradeState] /\ OffersDistinct
    BY DEF IInv, CallOK, TypeOK
  <1>1. CASE Refuse(h)
    BY <1>1, ReturnInv, AssembleSame DEF Refuse
  <1>2. ASSUME NEW e \in CloseEvents, TradeCloseEvent(h, e) PROVE IInv'
    <2> DEFINE a(b) == [trade[u] EXCEPT !.submitted = b]
    <2>0. trade[u] \in TradeState
      BY <1>0
    <2>1. \A b \in BOOLEAN : a(b) \in TradeState /\ a(b).items = trade[u].items
      BY <2>0 DEF TradeState
    <2>2. \/ \E b \in BOOLEAN : trade' = [trade EXCEPT ![u] = a(b)]
          \/ trade' = [trade EXCEPT ![u] = NoTrade, ![p] = NoTrade]
      BY <1>2 DEF TradeCloseEvent
    <2> HIDE DEF a
    <2>3. trade' \in [Users -> TradeState]
      BY <1>0, <2>1, <2>2, NoTradeType
    <2>4. OffersDistinct'
      BY <1>0, <2>1, <2>2, NoTradeDistinct DEF OffersDistinct
    <2> QED
      BY <1>2, <2>3, <2>4, ReturnInv, Assemble DEF TradeCloseEvent
  <1>3. ASSUME NEW a \in TradeState, DistinctOffers(a.items), NewOffer(h, a), Return(h),
               UNCHANGED <<netVars, inv, alz, db, dbAlz>>
        PROVE  IInv'
    <2> DEFINE b == [[trade EXCEPT ![u] = a][p] EXCEPT !.submitted = FALSE]
    <2>1. b \in TradeState /\ DistinctOffers(b.items)
      <3>1. [trade EXCEPT ![u] = a][p] \in TradeState
        BY <1>0
      <3>2. DistinctOffers([trade EXCEPT ![u] = a][p].items)
        BY <1>0, <1>3 DEF OffersDistinct
      <3> QED
        BY <3>1, <3>2 DEF TradeState
    <2>2. trade' = [trade EXCEPT ![u] = a, ![p] = b]
      BY <1>0, <1>3 DEF NewOffer
    <2> HIDE DEF b
    <2> QED
      BY <1>0, <1>3, <2>1, <2>2, WriteTwo, ReturnInv, Assemble
  <1>4. ASSUME NEW s \in Slots, NEW t \in TradeSlots, TradeAddItem(h, s, t) PROVE IInv'
    <2> DEFINE o == [item |-> inv[u][s], slot |-> s, tslot |-> t]
               a == [trade[u] EXCEPT !.items = Append(@, o)]
    <2>1. o \in Offer
      BY <1>0, <1>4 DEF TradeAddItem, Offer, IInv, TypeOK
    <2>2. trade[u] \in TradeState /\ trade[u].items \in Seq(Offer)
      BY <1>0 DEF TradeState
    <2>3. DistinctOffers(trade[u].items) /\ ~tradeOfferExists(trade[u].items, o.slot, o.tslot)
      BY <1>0, <1>4 DEF TradeAddItem, OffersDistinct
    <2> HIDE DEF o
    <2>4. /\ Append(trade[u].items, o) \in Seq(Offer)
          /\ DistinctOffers(Append(trade[u].items, o))
      BY <2>1, <2>2, <2>3, AppendDistinct
    <2>5. a \in TradeState /\ DistinctOffers(a.items)
      BY <2>2, <2>4 DEF TradeState
    <2> QED
      BY <1>3, <1>4, <2>5 DEF TradeAddItem, o
  <1>5. ASSUME NEW n \in 0..AlzLimit, TradeAddAlz(h, n) PROVE IInv'
    <2> DEFINE a == [trade[u] EXCEPT !.alz = n]
    <2>1. trade[u] \in TradeState /\ DistinctOffers(trade[u].items)
      BY <1>0 DEF OffersDistinct
    <2>2. a \in TradeState /\ DistinctOffers(a.items)
      BY <2>1 DEF TradeState
    <2> QED
      BY <1>3, <1>5, <2>2 DEF TradeAddAlz
  <1>6. ASSUME NEW k \in DOMAIN trade[u].items, TradeRemoveItem(h, k) PROVE IInv'
    <2> DEFINE a == [trade[u] EXCEPT !.items = RemoveAt(@, k)]
    <2>1. /\ trade[u] \in TradeState /\ trade[u].items \in Seq(Offer)
          /\ DistinctOffers(trade[u].items)
      BY <1>0 DEF OffersDistinct, TradeState
    <2>2. /\ RemoveAt(trade[u].items, k) \in Seq(Offer)
          /\ DistinctOffers(RemoveAt(trade[u].items, k))
      BY <2>1, RemoveDistinct
    <2>3. a \in TradeState /\ DistinctOffers(a.items)
      BY <2>1, <2>2 DEF TradeState
    <2> QED
      BY <1>3, <1>6, <2>3 DEF TradeRemoveItem
  <1>7. ASSUME NEW l \in Lists(Len(trade[p].items)), TradeRequestList(h, l) PROVE IInv'
    <2>1. Len(trade[p].items) \in Nat
      BY <1>0 DEF TradeState
    <2>2. l \in Seq(Slots)
      BY <2>1 DEF Lists
    <2> DEFINE a == [trade[u] EXCEPT !.dest = l]
    <2>0. trade[u] \in TradeState
      BY <1>0
    <2>a. a \in TradeState /\ a.items = trade[u].items
      BY <2>0, <2>2 DEF TradeState
    <2>b. trade' = [trade EXCEPT ![u] = a]
      BY <1>7 DEF TradeRequestList
    <2> HIDE DEF a
    <2>3. trade' \in [Users -> TradeState]
      BY <1>0, <2>a, <2>b
    <2>4. OffersDistinct'
      BY <1>0, <2>a, <2>b DEF OffersDistinct
    <2>5. call' \in [Handlers -> Call] /\ CallOK'
      BY <1>7, ReturnInv, GotoInv DEF TradeRequestList, PC
    <2> QED
      BY <1>7, <2>3, <2>4, <2>5, Assemble DEF TradeRequestList
  <1> QED
    BY <1>1, <1>2, <1>4, <1>5, <1>6, <1>7 DEF Window

\* The exchange: the copy for the RPC, the RPC, and what follows it.
LEMMA ExchangeInv ==
  ASSUME IInv, NEW h \in Handlers
  PROVE  /\ completeTrade(h) => IInv'
         /\ TradeItemsCommitted(h) => IInv'
         /\ TradeItemsRefused(h) => IInv'
         /\ completeTradeApply(h) => IInv'
         /\ abortCompletedTrade(h) => IInv'
  <1> DEFINE f == call[h].me
             s == call[h].peer
             x == call[h].x
  <1>0. /\ call[h] \in Call /\ x \in Transfer
        /\ trade \in [Users -> TradeState]
        /\ db \in [Users -> [Slots -> Items \cup {NoItem}]]
        /\ inv \in [Users -> [Slots -> Items \cup {NoItem}]]
    BY DEF IInv, TypeOK, Call
  <1>1. /\ x.mine \in Seq(Offer) /\ x.theirs \in Seq(Offer)
        /\ x.myDest \in Seq(Slots) /\ x.theirDest \in Seq(Slots)
        /\ x.myAlz \in 0..AlzLimit /\ x.theirAlz \in 0..AlzLimit
    BY <1>0 DEF Transfer
  <1>2. ASSUME call[h].pc # "idle" PROVE f \in Users /\ s \in Users
    BY <1>2 DEF IInv, CallOK
  <1>3. ASSUME completeTrade(h) PROVE IInv'
    <2>0. f \in Users /\ s \in Users
      BY <1>2, <1>3 DEF completeTrade
    <2>1. trade[f] \in TradeState /\ trade[s] \in TradeState
      BY <1>0, <2>0
    <2> DEFINE y == [mine |-> trade[f].items, theirs |-> trade[s].items,
                     myDest |-> trade[f].dest, theirDest |-> trade[s].dest,
                     myAlz |-> trade[f].alz, theirAlz |-> trade[s].alz]
               c == [call[h] EXCEPT !.pc = "calling", !.x = y]
    <2>2. y \in Transfer
      BY <2>1 DEF Transfer, TradeState
    <2>3. CASE /\ Len(y.myDest) = Len(y.theirs) /\ Len(y.theirDest) = Len(y.mine)
               /\ call' = [call EXCEPT ![h] = c]
      <3>1. c \in Call /\ c.pc = "calling" /\ c.x = y /\ c.me = f /\ c.peer = s
        BY <1>0, <2>2 DEF Call, PC
      <3> HIDE DEF c, y
      <3>2. call' \in [Handlers -> Call] /\ CallOK'
        BY <2>0, <2>3, <3>1 DEF IInv, TypeOK, CallOK
      <3> QED
        BY <1>3, <3>2, AssembleSame DEF completeTrade
    <2>4. CASE Return(h)
      BY <1>3, <2>4, ReturnInv, AssembleSame DEF completeTrade
    <2> QED
      BY <1>3, <2>3, <2>4 DEF completeTrade
  <1>4. ASSUME TradeItemsCommitted(h) PROVE IInv'
    <2>0. f \in Users /\ s \in Users /\ call[h].pc = "calling"
      BY <1>2, <1>4 DEF TradeItemsCommitted
    <2>1. f # s /\ AlzValid(f, s, x)
      BY <1>4 DEF TradeItemsCommitted, TradeItemsCommit, TradeItemsValid
    <2>2. dbAlz' \in [Users -> 0..AlzLimit]
      <3>1. dbAlz \in [Users -> 0..AlzLimit] /\ AlzLimit \in Nat
        BY TradeAssumption DEF IInv, TypeOK
      <3>a. dbAlz[f] \in 0..AlzLimit /\ dbAlz[s] \in 0..AlzLimit
        BY <2>0, <3>1
      <3>2. /\ dbAlz[f] - x.myAlz + x.theirAlz \in 0..AlzLimit
            /\ dbAlz[s] - x.theirAlz + x.myAlz \in 0..AlzLimit
        <4> HIDE DEF x
        <4> QED BY <1>1, <2>1, <3>1, <3>a, BalanceRange DEF AlzValid
      <3>3. dbAlz' = [dbAlz EXCEPT ![f] = @ - x.myAlz + x.theirAlz,
                                   ![s] = @ - x.theirAlz + x.myAlz]
        BY <1>4 DEF TradeItemsCommitted, TradeItemsCommit
      <3> QED
        BY <2>0, <2>1, <3>1, <3>2, <3>3
    <2>3. db' \in [Users -> [Slots -> Items \cup {NoItem}]]
      <3>1. /\ applyTradeTransfers(db[f], x.mine, x.theirs, x.myDest)
                  \in [Slots -> Items \cup {NoItem}]
            /\ applyTradeTransfers(db[s], x.theirs, x.mine, x.theirDest)
                  \in [Slots -> Items \cup {NoItem}]
        BY <1>0, <1>1, <2>0, ApplyType
      <3> QED
        BY <1>0, <1>4, <2>0, <3>1 DEF TradeItemsCommitted, TradeItemsCommit
    <2>4. call' \in [Handlers -> Call] /\ CallOK'
      <3> DEFINE y == [x EXCEPT !.myAlz = dbAlz'[f], !.theirAlz = dbAlz'[s]]
                 c == [call[h] EXCEPT !.pc = "applying",
                          !.x = [@ EXCEPT !.myAlz = dbAlz'[f], !.theirAlz = dbAlz'[s]]]
      <3>1. CASE Goto(h, "aborting")
        BY <2>0, <3>1, GotoInv DEF PC
      <3>2. CASE call' = [call EXCEPT ![h] = c]
        <4>1. dbAlz'[f] \in 0..AlzLimit /\ dbAlz'[s] \in 0..AlzLimit
          BY <2>0, <2>2
        <4>2. /\ y \in Transfer
              /\ y.mine = x.mine /\ y.theirs = x.theirs
              /\ y.myDest = x.myDest /\ y.theirDest = x.theirDest
          BY <1>0, <4>1 DEF Transfer
        <4>3. c \in Call /\ c.pc = "applying" /\ c.x = y /\ c.me = f /\ c.peer = s
          BY <1>0, <4>2 DEF Call, PC
        <4>4. Len(x.mine) = Len(x.theirDest) /\ Len(x.theirs) = Len(x.myDest)
          BY <2>0 DEF IInv, CallOK
        <4> HIDE DEF c, y
        <4> QED
          BY <2>0, <3>2, <4>2, <4>3, <4>4 DEF IInv, TypeOK, CallOK
      <3> QED
        BY <1>4, <3>1, <3>2 DEF TradeItemsCommitted
    <2> QED
      BY <1>4, <2>2, <2>3, <2>4
      DEF TradeItemsCommitted, netVars, IInv, TypeOK, OffersDistinct
  <1>5. ASSUME TradeItemsRefused(h) PROVE IInv'
    BY <1>5, GotoInv, AssembleSame DEF TradeItemsRefused, PC
  <1>6. ASSUME call[h].pc # "idle",
               trade' = [trade EXCEPT ![f] = NoTrade, ![s] = NoTrade]
        PROVE  trade' \in [Users -> TradeState] /\ OffersDistinct'
    BY <1>2, <1>6, NoTradeType, NoTradeDistinct, WriteTwo
  <1>7. ASSUME completeTradeApply(h) PROVE IInv'
    <2>0. f \in Users /\ s \in Users
      BY <1>2, <1>7 DEF completeTradeApply
    <2>1. trade' \in [Users -> TradeState] /\ OffersDistinct'
      BY <1>6, <1>7 DEF completeTradeApply
    <2>2. /\ applyTradeTransfers(inv[f], x.mine, x.theirs, x.myDest)
                \in [Slots -> Items \cup {NoItem}]
          /\ applyTradeTransfers(inv[s], x.theirs, x.mine, x.theirDest)
                \in [Slots -> Items \cup {NoItem}]
      BY <1>0, <1>1, <2>0, ApplyType
    <2>3. inv' \in [Users -> [Slots -> Items \cup {NoItem}]]
      BY <1>0, <1>7, <2>0, <2>2 DEF completeTradeApply
    <2>4. alz' \in [Users -> 0..AlzLimit]
      BY <1>1, <1>7, <2>0 DEF completeTradeApply, IInv, TypeOK
    <2>5. call' \in [Handlers -> Call] /\ CallOK'
      BY <1>7, ReturnInv DEF completeTradeApply
    <2> QED
      BY <1>7, <2>1, <2>3, <2>4, <2>5 DEF completeTradeApply, netVars, IInv, TypeOK
  <1>8. ASSUME abortCompletedTrade(h) PROVE IInv'
    BY <1>6, <1>8, ReturnInv, Assemble DEF abortCompletedTrade
  <1> QED
    BY <1>3, <1>4, <1>5, <1>7, <1>8

\* Rearranging an inventory.
LEMMA MoveInv ==
  ASSUME IInv, NEW u \in Users, NEW from \in Slots, NEW to \in Slots,
         InventoryMove(u, from, to)
  PROVE  IInv'
  <1>1. /\ inv' \in [Users -> [Slots -> Items \cup {NoItem}]]
        /\ db' \in [Users -> [Slots -> Items \cup {NoItem}]]
    BY DEF InventoryMove, IInv, TypeOK
  <1> QED
    BY <1>1 DEF InventoryMove, netVars, IInv, TypeOK, CallOK, OffersDistinct

\* IInv is inductive.
LEMMA NextInv == IInv /\ [Next]_vars => IInv'
  <1> SUFFICES ASSUME IInv, [Next]_vars PROVE IInv'
    OBVIOUS
  <1>1. ASSUME NEW u \in Leavers, Lifecycle(u) PROVE IInv'
    BY <1>1, LifecycleInv, TradeAssumption
  <1>2. ASSUME NEW h \in Handlers, NEW u \in Users, Start(h, u) PROVE IInv'
    BY <1>2, StartInvariant
  <1>3. ASSUME NEW h \in Handlers, Continue(h) PROVE IInv'
    BY <1>3, HandshakeInv, WindowInv, ExchangeInv DEF Continue
  <1>4. ASSUME NEW u \in Movers, NEW s \in Slots, NEW t \in Slots, InventoryMove(u, s, t)
        PROVE  IInv'
    BY <1>4, MoveInv, TradeAssumption
  <1>5. CASE UNCHANGED vars
    BY <1>5 DEF vars, IInv, TypeOK, CallOK, OffersDistinct
  <1> QED
    BY <1>1, <1>2, <1>3, <1>4, <1>5 DEF Next

\* IInv holds in every reachable state.
THEOREM TradeInvariant == Spec => []IInv
  BY InitInv, NextInv, PTL DEF Spec

\* TypeOK, for every number of players, goroutines, items and slots: in
\* particular TradeItems never stores a balance beyond uint64.
THEOREM TradeTypeOK == Spec => []TypeOK
  <1>1. IInv => TypeOK
    BY DEF IInv
  <1> QED
    BY <1>1, TradeInvariant, PTL

\* OffersDistinct, for every number of overlapping handlers.
THEOREM TradeOffersDistinct == Spec => []OffersDistinct
  <1>1. IInv => OffersDistinct
    BY DEF IInv
  <1> QED
    BY <1>1, TradeInvariant, PTL

-----------------------------------------------------------------------------
\* What an exchange does to the World database.

\* The fields of an offered item.
LEMMA OfferFields ==
  ASSUME NEW items \in Seq(Offer)
  PROVE  \A k \in DOMAIN items : items[k].slot \in Slots /\ items[k].item \in Items
  <1> SUFFICES ASSUME NEW k \in DOMAIN items
               PROVE  items[k].slot \in Slots /\ items[k].item \in Items
    OBVIOUS
  <1>1. items[k] \in Offer
    OBVIOUS
  <1> QED
    BY <1>1 DEF Offer

\* The row t with the item x was kept, or received.
KeptOrGot(x, mine, out, in, dest, t) ==
    \/ x = mine[t] /\ \A k \in DOMAIN out : out[k].slot # t
    \/ \E k \in DOMAIN in : dest[k] = t /\ x = in[k].item

\* Where a row of one character comes from after an exchange with another:
\* the character kept it, and it was not among the rows given away, or it
\* holds one of the items received.
LEMMA RowOrigin ==
  ASSUME NEW mine \in [Slots -> Items \cup {NoItem}],
         NEW out \in Seq(Offer), NEW in \in Seq(Offer), NEW dest \in Seq(Slots),
         NEW t \in Slots,
         applyTradeTransfers(mine, out, in, dest)[t] # NoItem
  PROVE  KeptOrGot(applyTradeTransfers(mine, out, in, dest)[t], mine, out, in, dest, t)
  <1>1. CASE \E k \in DOMAIN in : dest[k] = t
    <2> DEFINE c == CHOOSE k \in DOMAIN in : dest[k] = t
    <2>1. c \in DOMAIN in /\ dest[c] = t
      BY <1>1
    <2>2. applyTradeTransfers(mine, out, in, dest)[t] = in[c].item
      BY <1>1 DEF applyTradeTransfers
    <2> HIDE DEF c
    <2> QED
      BY <2>1, <2>2 DEF KeptOrGot
  <1>2. CASE ~ \E k \in DOMAIN in : dest[k] = t
    BY <1>2 DEF applyTradeTransfers, KeptOrGot
  <1> QED
    BY <1>1, <1>2

\* Every received item is in the row chosen for it.
LEMMA RowReceived ==
  ASSUME NEW mine, NEW out \in Seq(Offer), NEW in \in Seq(Offer), NEW dest \in Seq(Slots),
         Len(in) = Len(dest), Distinct(dest), NEW k \in DOMAIN in
  PROVE  /\ dest[k] \in Slots
         /\ applyTradeTransfers(mine, out, in, dest)[dest[k]] = in[k].item
  <1> DEFINE c == CHOOSE j \in DOMAIN in : dest[j] = dest[k]
  <1>1. c \in DOMAIN in /\ dest[c] = dest[k]
    OBVIOUS
  <1>2. dest[k] \in Slots /\ DOMAIN in = DOMAIN dest
    OBVIOUS
  <1>3. c = k
    <2> HIDE DEF c
    <2> QED BY <1>1, <1>2 DEF Distinct
  <1>4. applyTradeTransfers(mine, out, in, dest)[dest[k]] = in[c].item
    BY <1>2 DEF applyTradeTransfers
  <1> QED
    BY <1>2, <1>3, <1>4

\* In a table without duplicates an item determines its row.
LEMMA RowUnique ==
  ASSUME NEW d, NoDuplicate(d),
         NEW a \in Users, NEW b \in Users, NEW y \in Slots, NEW z \in Slots,
         d[a][y] = d[b][z], d[a][y] # NoItem
  PROVE  a = b /\ y = z
  BY DEF NoDuplicate

\* Table e is table d after characters f and s exchanged validated items.
Exchanged(d, e, f, s, out, in, outDest, inDest) ==
    /\ f # s
    /\ Len(out) = Len(outDest) /\ Len(in) = Len(inDest)
    /\ \A k \in DOMAIN out : d[f][out[k].slot] = out[k].item
    /\ \A k \in DOMAIN in : d[s][in[k].slot] = in[k].item
    /\ \A k \in DOMAIN out : d[s][outDest[k]] = NoItem
    /\ \A k \in DOMAIN in : d[f][inDest[k]] = NoItem
    /\ \A j, k \in DOMAIN out : out[j].slot = out[k].slot => j = k
    /\ \A j, k \in DOMAIN in : in[j].slot = in[k].slot => j = k
    /\ Distinct(outDest) /\ Distinct(inDest)
    /\ e = [d EXCEPT ![f] = applyTradeTransfers(d[f], out, in, inDest),
                     ![s] = applyTradeTransfers(d[s], in, out, outDest)]

\* Such an exchange neither duplicates nor loses an item.  A row of the new
\* table was kept or received; two rows with the same item had the same
\* origin, so they are the same row.
LEMMA ExchangeKeepsItems ==
  ASSUME NEW d \in [Users -> [Slots -> Items \cup {NoItem}]], NEW e,
         NoDuplicate(d), NEW f \in Users, NEW s \in Users,
         NEW out \in Seq(Offer), NEW in \in Seq(Offer),
         NEW outDest \in Seq(Slots), NEW inDest \in Seq(Slots),
         Exchanged(d, e, f, s, out, in, outDest, inDest)
  PROVE  NoDuplicate(e) /\ (NoLoss(d) => NoLoss(e))
  <1>0. /\ f # s
        /\ Len(out) = Len(outDest) /\ Len(in) = Len(inDest)
        /\ \A k \in DOMAIN out : d[f][out[k].slot] = out[k].item
        /\ \A k \in DOMAIN in : d[s][in[k].slot] = in[k].item
        /\ \A k \in DOMAIN out : d[s][outDest[k]] = NoItem
        /\ \A k \in DOMAIN in : d[f][inDest[k]] = NoItem
        /\ \A j, k \in DOMAIN out : out[j].slot = out[k].slot => j = k
        /\ \A j, k \in DOMAIN in : in[j].slot = in[k].slot => j = k
        /\ Distinct(outDest) /\ Distinct(inDest)
    BY DEF Exchanged
  <1> DEFINE F == applyTradeTransfers(d[f], out, in, inDest)
             S == applyTradeTransfers(d[s], in, out, outDest)
  <1>1. /\ d[f] \in [Slots -> Items \cup {NoItem}]
        /\ d[s] \in [Slots -> Items \cup {NoItem}]
    OBVIOUS
  <1>2. e[f] = F /\ e[s] = S /\ \A u \in Users \ {f, s} : e[u] = d[u]
    BY <1>0 DEF Exchanged
  <1>3. /\ \A k \in DOMAIN out : out[k].slot \in Slots
        /\ \A k \in DOMAIN in : in[k].slot \in Slots
    BY OfferFields
  <1> DEFINE Kept(u, t) == /\ e[u][t] = d[u][t]
                           /\ u = f => \A k \in DOMAIN out : out[k].slot # t
                           /\ u = s => \A k \in DOMAIN in : in[k].slot # t
             GotF(t) == \E k \in DOMAIN in : inDest[k] = t /\ e[f][t] = d[s][in[k].slot]
             GotS(t) == \E k \in DOMAIN out : outDest[k] = t /\ e[s][t] = d[f][out[k].slot]
  <1>4. ASSUME NEW u \in Users, NEW t \in Slots, e[u][t] # NoItem
        PROVE  Kept(u, t) \/ (u = f /\ GotF(t)) \/ (u = s /\ GotS(t))
    <2>1. CASE u = f
      <3>1. F[t] # NoItem
        BY <1>2, <1>4, <2>1
      <3>2. KeptOrGot(F[t], d[f], out, in, inDest, t)
        BY <1>1, <3>1, RowOrigin
      <3> HIDE DEF F, S
      <3>3. e[f][t] = F[t] /\ \A k \in DOMAIN in : in[k].item = d[s][in[k].slot]
        BY <1>0, <1>2
      <3>4. CASE F[t] = d[f][t] /\ \A k \in DOMAIN out : out[k].slot # t
        <4>1. Kept(u, t)
          BY <1>0, <2>1, <3>3, <3>4
        <4> QED
          BY <4>1
      <3>5. CASE \E k \in DOMAIN in : inDest[k] = t /\ F[t] = in[k].item
        <4>1. GotF(t)
          BY <3>3, <3>5
        <4> QED
          BY <2>1, <4>1
      <3> QED
        BY <3>2, <3>4, <3>5 DEF KeptOrGot
    <2>2. CASE u = s
      <3>1. S[t] # NoItem
        BY <1>2, <1>4, <2>2
      <3>2. KeptOrGot(S[t], d[s], in, out, outDest, t)
        BY <1>1, <3>1, RowOrigin
      <3> HIDE DEF F, S
      <3>3. e[s][t] = S[t] /\ \A k \in DOMAIN out : out[k].item = d[f][out[k].slot]
        BY <1>0, <1>2
      <3>4. CASE S[t] = d[s][t] /\ \A k \in DOMAIN in : in[k].slot # t
        <4>1. Kept(u, t)
          BY <1>0, <2>2, <3>3, <3>4
        <4> QED
          BY <4>1
      <3>5. CASE \E k \in DOMAIN out : outDest[k] = t /\ S[t] = out[k].item
        <4>1. GotS(t)
          BY <3>3, <3>5
        <4> QED
          BY <2>2, <4>1
      <3> QED
        BY <3>2, <3>4, <3>5 DEF KeptOrGot
    <2>3. CASE u \notin {f, s}
      BY <1>2, <2>3
    <2> QED
      BY <2>1, <2>2, <2>3
  <1>5. ASSUME NEW u \in Users, NEW v \in Users, NEW t \in Slots, NEW w \in Slots,
               e[u][t] = e[v][w], e[u][t] # NoItem
        PROVE  u = v /\ t = w
    <2>0. e[v][w] # NoItem
      BY <1>5
    <2>1. ASSUME NEW a \in Users, NEW y \in Slots, NEW b \in Users, NEW z \in Slots,
                 Kept(a, y), e[a][y] = e[b][z], e[a][y] # NoItem
          PROVE  /\ Kept(b, z) => a = b /\ y = z
                 /\ ~(b = f /\ GotF(z)) /\ ~(b = s /\ GotS(z))
      <3>1. d[a][y] = e[b][z] /\ d[a][y] # NoItem
        BY <2>1
      <3>2. ASSUME Kept(b, z) PROVE a = b /\ y = z
        <4>1. d[a][y] = d[b][z]
          BY <3>1, <3>2
        <4> QED
          BY <3>1, <4>1, RowUnique
      <3>3. ASSUME b = f, GotF(z) PROVE FALSE
        <4>1. PICK k \in DOMAIN in : e[f][z] = d[s][in[k].slot]
          BY <3>3
        <4> DEFINE q == in[k].slot
        <4>2. q \in Slots /\ d[a][y] = d[s][q]
          BY <1>3, <3>1, <3>3, <4>1
        <4>3. a = s /\ y = q
          <5> HIDE DEF q
          <5> QED BY <3>1, <4>2, RowUnique
        <4> QED
          BY <2>1, <4>3
      <3>4. ASSUME b = s, GotS(z) PROVE FALSE
        <4>1. PICK k \in DOMAIN out : e[s][z] = d[f][out[k].slot]
          BY <3>4
        <4> DEFINE q == out[k].slot
        <4>2. q \in Slots /\ d[a][y] = d[f][q]
          BY <1>3, <3>1, <3>4, <4>1
        <4>3. a = f /\ y = q
          <5> HIDE DEF q
          <5> QED BY <3>1, <4>2, RowUnique
        <4> QED
          BY <2>1, <4>3
      <3> QED
        BY <3>2, <3>3, <3>4
    <2>2. CASE Kept(u, t)
      <3> HIDE DEF Kept, GotF, GotS
      <3> QED BY <1>4, <1>5, <2>0, <2>1, <2>2
    <2>3. CASE Kept(v, w)
      <3> HIDE DEF Kept, GotF, GotS
      <3> QED BY <1>4, <1>5, <2>0, <2>1, <2>3
    <2>4. CASE u = f /\ GotF(t) /\ v = f /\ GotF(w)
      <3>1. PICK j \in DOMAIN in : inDest[j] = t /\ e[f][t] = d[s][in[j].slot]
        BY <2>4
      <3>2. PICK k \in DOMAIN in : inDest[k] = w /\ e[f][w] = d[s][in[k].slot]
        BY <2>4
      <3> DEFINE o == in[j].slot
                 q == in[k].slot
      <3>3. o \in Slots /\ q \in Slots /\ d[s][o] = d[s][q] /\ d[s][o] # NoItem
        BY <1>3, <1>5, <2>4, <3>1, <3>2
      <3>4. o = q
        <4> HIDE DEF o, q
        <4> QED BY <3>3, RowUnique
      <3>5. j = k
        BY <1>0, <3>4
      <3> QED
        BY <2>4, <3>1, <3>2, <3>5
    <2>5. CASE u = s /\ GotS(t) /\ v = s /\ GotS(w)
      <3>1. PICK j \in DOMAIN out : outDest[j] = t /\ e[s][t] = d[f][out[j].slot]
        BY <2>5
      <3>2. PICK k \in DOMAIN out : outDest[k] = w /\ e[s][w] = d[f][out[k].slot]
        BY <2>5
      <3> DEFINE o == out[j].slot
                 q == out[k].slot
      <3>3. o \in Slots /\ q \in Slots /\ d[f][o] = d[f][q] /\ d[f][o] # NoItem
        BY <1>3, <1>5, <2>5, <3>1, <3>2
      <3>4. o = q
        <4> HIDE DEF o, q
        <4> QED BY <3>3, RowUnique
      <3>5. j = k
        BY <1>0, <3>4
      <3> QED
        BY <2>5, <3>1, <3>2, <3>5
    <2>6. ASSUME NEW y \in Slots, NEW z \in Slots, GotF(y), GotS(z),
                 e[f][y] = e[s][z], e[f][y] # NoItem
          PROVE  FALSE
      <3>1. PICK j \in DOMAIN in : e[f][y] = d[s][in[j].slot]
        BY <2>6
      <3>2. PICK k \in DOMAIN out : e[s][z] = d[f][out[k].slot]
        BY <2>6
      <3> DEFINE o == in[j].slot
                 q == out[k].slot
      <3>3. o \in Slots /\ q \in Slots /\ d[s][o] = d[f][q] /\ d[s][o] # NoItem
        BY <1>3, <2>6, <3>1, <3>2
      <3> HIDE DEF o, q
      <3> QED
        BY <1>0, <3>3, RowUnique
    <2> HIDE DEF Kept, GotF, GotS
    <2> QED
      BY <1>4, <1>5, <2>0, <2>2, <2>3, <2>4, <2>5, <2>6
  <1>6. ASSUME NEW u \in Users, NEW t \in Slots, d[u][t] # NoItem
        PROVE  \E v \in Users, w \in Slots : e[v][w] = d[u][t]
    <2>1. ASSUME u = f, NEW k \in DOMAIN out, out[k].slot = t
          PROVE  \E v \in Users, w \in Slots : e[v][w] = d[u][t]
      <3>1. outDest[k] \in Slots /\ S[outDest[k]] = out[k].item
        BY <1>0, RowReceived
      <3>2. e[s][outDest[k]] = d[u][t]
        <4> HIDE DEF F, S
        <4> QED BY <1>0, <1>2, <2>1, <3>1
      <3> QED
        BY <3>1, <3>2
    <2>2. ASSUME u = s, NEW k \in DOMAIN in, in[k].slot = t
          PROVE  \E v \in Users, w \in Slots : e[v][w] = d[u][t]
      <3>1. inDest[k] \in Slots /\ F[inDest[k]] = in[k].item
        BY <1>0, RowReceived
      <3>2. e[f][inDest[k]] = d[u][t]
        <4> HIDE DEF F, S
        <4> QED BY <1>0, <1>2, <2>2, <3>1
      <3> QED
        BY <3>1, <3>2
    <2>3. CASE u = f /\ \A k \in DOMAIN out : out[k].slot # t
      <3>1. F[t] = d[f][t]
        BY <1>0, <1>1, <1>6, <2>3 DEF applyTradeTransfers
      <3> HIDE DEF F, S
      <3> QED
        BY <1>2, <2>3, <3>1
    <2>4. CASE u = s /\ \A k \in DOMAIN in : in[k].slot # t
      <3>1. S[t] = d[s][t]
        BY <1>0, <1>1, <1>6, <2>4 DEF applyTradeTransfers
      <3> HIDE DEF F, S
      <3> QED
        BY <1>2, <2>4, <3>1
    <2>5. CASE u \notin {f, s}
      BY <1>2, <2>5
    <2> QED
      BY <2>1, <2>2, <2>3, <2>4, <2>5
  <1> HIDE DEF F, S
  <1>7. NoDuplicate(e)
    BY <1>5 DEF NoDuplicate
  <1>8. ASSUME NoLoss(d), NEW u \in Users, NEW t \in Slots, StartInv[u][t] # NoItem
        PROVE  \E v \in Users, w \in Slots : e[v][w] = StartInv[u][t]
    <2>1. PICK v \in Users, w \in Slots : d[v][w] = StartInv[u][t]
      BY <1>8 DEF NoLoss
    <2> QED
      BY <1>6, <1>8, <2>1
  <1> QED
    BY <1>7, <1>8 DEF NoLoss

\* So does every transaction of TradeItems that commits.
LEMMA CommitKeepsItems ==
  ASSUME IInv, ItemsOnce, NEW f \in Users, NEW s \in Users, NEW x \in Transfer,
         Len(x.mine) = Len(x.theirDest), Len(x.theirs) = Len(x.myDest),
         TradeItemsCommit(f, s, x)
  PROVE  ItemsOnce'
  <1>1. /\ x.mine \in Seq(Offer) /\ x.theirs \in Seq(Offer)
        /\ x.myDest \in Seq(Slots) /\ x.theirDest \in Seq(Slots)
    BY DEF Transfer
  <1>2. db \in [Users -> [Slots -> Items \cup {NoItem}]] /\ NoDuplicate(db) /\ NoLoss(db)
    BY DEF IInv, TypeOK, ItemsOnce
  <1>3. f # s /\ db' = [db EXCEPT
                          ![f] = applyTradeTransfers(db[f], x.mine, x.theirs, x.myDest),
                          ![s] = applyTradeTransfers(db[s], x.theirs, x.mine, x.theirDest)]
    BY DEF TradeItemsCommit, TradeItemsValid
  <1>4. /\ \A k \in DOMAIN x.mine : db[f][x.mine[k].slot] = x.mine[k].item
        /\ \A k \in DOMAIN x.theirs : db[s][x.theirs[k].slot] = x.theirs[k].item
        /\ \A k \in DOMAIN x.mine : db[s][x.theirDest[k]] = NoItem
        /\ \A k \in DOMAIN x.theirs : db[f][x.myDest[k]] = NoItem
        /\ \A j, k \in DOMAIN x.mine : x.mine[j].slot = x.mine[k].slot => j = k
        /\ \A j, k \in DOMAIN x.theirs : x.theirs[j].slot = x.theirs[k].slot => j = k
        /\ Distinct(x.myDest) /\ Distinct(x.theirDest)
    BY DEF TradeItemsCommit, TradeItemsValid, validateTradeTransfers
  <1>5. Exchanged(db, db', f, s, x.mine, x.theirs, x.theirDest, x.myDest)
    BY <1>3, <1>4 DEF Exchanged
  <1>6. NoDuplicate(db') /\ NoLoss(db')
    BY <1>1, <1>2, <1>5, ExchangeKeepsItems
  <1> QED
    BY <1>6 DEF ItemsOnce, NoDuplicate, NoLoss

\* Moving an item within an inventory neither duplicates nor loses one.
LEMMA MoveKeepsItems ==
  ASSUME IInv, ItemsOnce, NEW u \in Users, NEW from \in Slots, NEW to \in Slots,
         InventoryMove(u, from, to)
  PROVE  ItemsOnce'
  <1>1. CASE db' = db
    BY <1>1 DEF ItemsOnce, NoDuplicate, NoLoss
  <1>2. CASE /\ db[u][from] # NoItem /\ db[u][to] = NoItem
             /\ db' = [db EXCEPT ![u][from] = NoItem, ![u][to] = db[u][from]]
    <2>1. \A v \in Users, t \in Slots :
             db'[v][t] = IF v # u THEN db[v][t]
                         ELSE IF t = to THEN db[u][from]
                         ELSE IF t = from THEN NoItem ELSE db[v][t]
      BY <1>2 DEF IInv, TypeOK
    <2>2. NoDuplicate(db)'
      <3> SUFFICES ASSUME NEW v \in Users, NEW w \in Users, NEW y \in Slots, NEW z \in Slots,
                          db'[v][y] = db'[w][z], db'[v][y] # NoItem
                   PROVE  v = w /\ y = z
        BY DEF NoDuplicate
      <3> DEFINE o == IF v = u /\ y = to THEN from ELSE y
                 q == IF w = u /\ z = to THEN from ELSE z
      <3>0. from # to
        BY <1>2
      <3>1. db'[v][y] = db[v][o] /\ ~(v = u /\ y = from)
        <4>1. CASE v = u /\ y = to
          BY <2>1, <3>0, <4>1
        <4>2. CASE ~(v = u /\ y = to)
          BY <2>1, <3>0, <4>2
        <4> QED
          BY <4>1, <4>2
      <3>2. db'[w][z] = db[w][q] /\ ~(w = u /\ z = from)
        <4>1. CASE w = u /\ z = to
          BY <2>1, <3>0, <4>1
        <4>2. CASE ~(w = u /\ z = to)
          BY <2>1, <3>0, <4>2
        <4> QED
          BY <4>1, <4>2
      <3>3. v = w /\ o = q
        <4>1. o \in Slots /\ q \in Slots
          OBVIOUS
        <4> HIDE DEF o, q
        <4>2. NoDuplicate(db) /\ db[v][o] = db[w][q] /\ db[v][o] # NoItem
          BY <3>1, <3>2 DEF ItemsOnce
        <4> QED
          BY <4>1, <4>2, RowUnique
      <3> QED
        BY <3>1, <3>2, <3>3
    <2>3. NoLoss(db)'
      <3> SUFFICES ASSUME NEW v \in Users, NEW t \in Slots, db[v][t] # NoItem
                   PROVE  \E a \in Users, b \in Slots : db'[a][b] = db[v][t]
        BY DEF ItemsOnce, NoLoss
      <3>1. CASE v = u /\ t = from
        BY <2>1, <3>1
      <3>2. CASE ~(v = u /\ t = from)
        <4>1. CASE v = u
          <5>1. t # to /\ t # from
            BY <1>2, <3>2, <4>1
          <5> QED
            BY <2>1, <4>1, <5>1
        <4>2. CASE v # u
          <5>1. db'[v][t] = db[v][t]
            BY <2>1, <4>2
          <5> QED
            BY <5>1
        <4> QED
          BY <4>1, <4>2
      <3> QED
        BY <3>1, <3>2
    <2> QED
      BY <2>2, <2>3 DEF ItemsOnce
  <1> QED
    BY <1>1, <1>2 DEF InventoryMove

\* The database is written by a committed exchange and by a move only.
LEMMA DatabaseWriters ==
  ASSUME [Next]_vars
  PROVE  \/ UNCHANGED <<db, dbAlz>>
         \/ \E h \in Handlers : TradeItemsCommitted(h)
         \/ UNCHANGED dbAlz /\ \E u \in Movers, s, t \in Slots : InventoryMove(u, s, t)
  <1>1. CASE UNCHANGED vars
    BY <1>1 DEF vars
  <1>2. ASSUME NEW u \in Leavers, Lifecycle(u) PROVE UNCHANGED <<db, dbAlz>>
    BY <1>2 DEF Lifecycle, Close, onClientDisconnect, OnClientDisconnect, Uninitialze
  <1>3. ASSUME NEW h \in Handlers, NEW u \in Users, Start(h, u)
        PROVE  UNCHANGED <<db, dbAlz>>
    BY <1>3 DEF Start, TradeRequest, TradeOpenEvent, tradePair
  <1>4. ASSUME NEW h \in Handlers, Continue(h), ~TradeItemsCommitted(h)
        PROVE  UNCHANGED <<db, dbAlz>>
    BY <1>4 DEF Continue, CancelTradeLocked, reserveTradeRequest, TradeOpenEventLocked,
       Window, Refuse, TradeCloseEvent, TradeAddItem, TradeAddAlz, TradeRemoveItem,
       TradeRequestList, completeTrade, TradeItemsRefused, completeTradeApply,
       abortCompletedTrade
  <1>5. ASSUME NEW u \in Movers, NEW s \in Slots, NEW t \in Slots, InventoryMove(u, s, t)
        PROVE  UNCHANGED dbAlz
    BY <1>5 DEF InventoryMove
  <1> QED
    BY <1>1, <1>2, <1>3, <1>4, <1>5 DEF Next

\* ItemsOnce, for every number of players, overlapping exchanges and moves:
\* no interleaving loses or duplicates a row of characters_inventory.
THEOREM TradeItemsOnce == Spec => []ItemsOnce
  <1>1. Init => ItemsOnce
    BY TradeAssumption DEF Init, ItemsOnce, NoDuplicate, NoLoss
  <1>2. IInv /\ ItemsOnce /\ [Next]_vars => ItemsOnce'
    <2> SUFFICES ASSUME IInv, ItemsOnce, [Next]_vars PROVE ItemsOnce'
      OBVIOUS
    <2>1. CASE UNCHANGED <<db, dbAlz>>
      BY <2>1 DEF ItemsOnce, NoDuplicate, NoLoss
    <2>2. ASSUME NEW h \in Handlers, TradeItemsCommitted(h) PROVE ItemsOnce'
      <3>1. /\ call[h].me \in Users /\ call[h].peer \in Users /\ call[h].x \in Transfer
            /\ Len(call[h].x.mine) = Len(call[h].x.theirDest)
            /\ Len(call[h].x.theirs) = Len(call[h].x.myDest)
        BY <2>2 DEF TradeItemsCommitted, IInv, TypeOK, CallOK, Call
      <3>2. TradeItemsCommit(call[h].me, call[h].peer, call[h].x)
        BY <2>2 DEF TradeItemsCommitted
      <3> QED
        BY <3>1, <3>2, CommitKeepsItems
    <2>3. ASSUME NEW u \in Movers, NEW s \in Slots, NEW t \in Slots, InventoryMove(u, s, t)
          PROVE  ItemsOnce'
      BY <2>3, MoveKeepsItems, TradeAssumption
    <2> QED
      BY <2>1, <2>2, <2>3, DatabaseWriters
  <1> QED
    BY <1>1, <1>2, TradeInvariant, PTL DEF Spec

\* AlzConserved: TradeItems moves Alz between two characters or not at all.
THEOREM TradeAlzConserved == Spec => AlzConserved
  <1>1. IInv /\ [Next]_vars =>
          [dbAlz' # dbAlz =>
             \E f, s \in Users :
                /\ f # s
                /\ dbAlz'[f] + dbAlz'[s] = dbAlz[f] + dbAlz[s]
                /\ \A u \in Users \ {f, s} : dbAlz'[u] = dbAlz[u]]_vars
    <2> SUFFICES ASSUME IInv, [Next]_vars, dbAlz' # dbAlz
                 PROVE  \E f, s \in Users :
                          /\ f # s
                          /\ dbAlz'[f] + dbAlz'[s] = dbAlz[f] + dbAlz[s]
                          /\ \A u \in Users \ {f, s} : dbAlz'[u] = dbAlz[u]
      OBVIOUS
    <2>1. PICK h \in Handlers : TradeItemsCommitted(h)
      BY DatabaseWriters
    <2> DEFINE f == call[h].me
               s == call[h].peer
               x == call[h].x
    <2>2. f \in Users /\ s \in Users /\ x \in Transfer
      BY <2>1 DEF TradeItemsCommitted, IInv, TypeOK, CallOK, Call
    <2>3. f # s /\ dbAlz' = [dbAlz EXCEPT ![f] = @ - x.myAlz + x.theirAlz,
                                          ![s] = @ - x.theirAlz + x.myAlz]
      BY <2>1 DEF TradeItemsCommitted, TradeItemsCommit, TradeItemsValid
    <2>4. /\ dbAlz \in [Users -> 0..AlzLimit] /\ AlzLimit \in Nat
          /\ x.myAlz \in 0..AlzLimit /\ x.theirAlz \in 0..AlzLimit
      BY <2>2, TradeAssumption DEF IInv, TypeOK, Transfer
    <2> HIDE DEF f, s, x
    <2>5. /\ dbAlz'[f] = dbAlz[f] - x.myAlz + x.theirAlz
          /\ dbAlz'[s] = dbAlz[s] - x.theirAlz + x.myAlz
          /\ \A u \in Users \ {f, s} : dbAlz'[u] = dbAlz[u]
      BY <2>2, <2>3, <2>4
    <2>6. dbAlz'[f] + dbAlz'[s] = dbAlz[f] + dbAlz[s]
      <3>1. dbAlz[f] \in 0..AlzLimit /\ dbAlz[s] \in 0..AlzLimit
        BY <2>2, <2>4
      <3> QED
        BY <2>4, <2>5, <3>1
    <2> QED
      BY <2>2, <2>3, <2>5, <2>6
  <1> QED
    BY <1>1, TradeInvariant, PTL DEF Spec, AlzConserved

-----------------------------------------------------------------------------
(* Two players.  A third one's goroutine can hold a peer that trades with  *)
(* somebody else by now, and then neither of the following holds.          *)

Two == \A u, v, w \in Users : u = v \/ u = w \/ v = w

\* A goroutine holds two different sessions, unless it cancels a trade whose
\* other end is gone.
Apart ==
    \A h \in Handlers :
        call[h].pc # "idle" /\ call[h].me = call[h].peer => call[h].pc = "leaving" /\ closed # {}

Present == closed = {} => clients = Users

\* Paired, with an opponent who is a user.
Ends ==
    \A u \in Users : trade[u].status # "none" =>
        LET p == trade[u].opp
        IN /\ p \in Users /\ p # u
           /\ trade[p].opp = u
           /\ trade[p].status = trade[u].status
           /\ {trade[u].role, trade[p].role} = {"requester", "target"}

PairInv == Apart /\ Present /\ (closed = {} => Ends)

\* A goroutine that starts, returns or goes on keeps the sessions apart.
LEMMA ApartCalls ==
  ASSUME IInv, Apart, NEW h \in Handlers, closed \subseteq closed',
         \/ Return(h)
         \/ \E pc \in PC : Goto(h, pc) /\ call[h].pc \notin {"idle", "leaving"}
         \/ \E pc \in PC, u \in Users, p \in Users :
              Begin(h, pc, u, p) /\ (p # u \/ (pc = "leaving" /\ closed # {}))
  PROVE  Apart'
  <1>1. call \in [Handlers -> Call]
    BY DEF IInv, TypeOK
  <1>2. ASSUME NEW r, call' = [call EXCEPT ![h] = r], r.pc # "idle" /\ r.me = r.peer => r.pc = "leaving" /\ closed # {}
        PROVE  Apart'
    BY <1>1, <1>2 DEF Apart
  <1>3. CASE Return(h)
    BY <1>2, <1>3 DEF Return, IdleCall
  <1>4. ASSUME NEW pc \in PC, Goto(h, pc), call[h].pc \notin {"idle", "leaving"} PROVE Apart'
    <2>1. PICK r : r = [call[h] EXCEPT !.pc = pc]
      OBVIOUS
    <2>2. r.me = call[h].me /\ r.peer = call[h].peer /\ call' = [call EXCEPT ![h] = r]
      BY <1>1, <1>4, <2>1 DEF Call, Goto
    <2> QED BY <1>2, <1>4, <2>2 DEF Apart
  <1>5. ASSUME NEW pc \in PC, NEW u \in Users, NEW p \in Users, Begin(h, pc, u, p),
               p # u \/ (pc = "leaving" /\ closed # {})
        PROVE  Apart'
    <2>1. PICK r : r = [IdleCall EXCEPT !.pc = pc, !.me = u, !.peer = p,
                          !.status = trade[u].status, !.role = trade[u].role]
      OBVIOUS
    <2>2. r.me = u /\ r.peer = p /\ r.pc = pc
      BY <2>1 DEF IdleCall
    <2>3. call' = [call EXCEPT ![h] = r]
      BY <1>5, <2>1 DEF Begin
    <2> QED BY <1>2, <1>5, <2>2, <2>3
  <1> QED BY <1>3, <1>4, <1>5

\* The same for one that starts with the sessions u and p.
LEMMA BeginApart ==
  ASSUME IInv, Apart, NEW h \in Handlers, closed \subseteq closed',
         NEW pc \in PC, NEW u \in Users, NEW p \in Users, Begin(h, pc, u, p),
         p # u \/ (pc = "leaving" /\ closed # {})
  PROVE  Apart'
  BY ApartCalls

\* A cancellation finds the other end as long as nobody has closed.
LEMMA CancelApart ==
  ASSUME IInv, PairInv, NEW h \in Handlers, NEW u \in Users, CancelTrade(h, u), closed \subseteq closed'
  PROVE  Apart'
  <1>1. CASE UNCHANGED call
    BY <1>1 DEF PairInv, Apart
  <1>2. CASE trade[u].status # "none" /\ Begin(h, "leaving", u, PeerOf(u))
    <2>1. PeerOf(u) \in Users
      BY DEF PeerOf, IInv, TypeOK
    <2>2. PeerOf(u) # u \/ closed # {}
      BY <1>2 DEF PeerOf, PairInv, Present, Ends
    <2>3. Apart /\ "leaving" \in PC
      BY DEF PairInv, PC
    <2> QED BY <1>2, <2>1, <2>2, <2>3, BeginApart
  <1> QED BY <1>1, <1>2 DEF CancelTrade

\* A step that changes offers and submissions only.
LEMMA EndsStay ==
  ASSUME Ends, \A v \in Users : /\ trade'[v].status = trade[v].status /\ trade'[v].role = trade[v].role
                                /\ trade'[v].opp = trade[v].opp
  PROVE  Ends'
  BY DEF Ends

\* A step after which nobody trades.
LEMMA EndsReset ==
  ASSUME \A v \in Users : trade'[v] = NoTrade
  PROVE  Ends'
  BY DEF Ends, NoTrade

\* The window handlers leave the ends of the trade alone, or reset both.
LEMMA WindowEnds ==
  ASSUME IInv, Ends, Apart, Two, NEW h \in Handlers, call[h].pc = "paired", Window(h)
  PROVE  Ends'
  <1> DEFINE u == call[h].me
             p == call[h].peer
  <1>1. u \in Users /\ p \in Users /\ u # p /\ trade \in [Users -> TradeState]
    BY DEF IInv, CallOK, TypeOK, Apart
  <1>2. \A v \in Users : v = u \/ v = p
    BY <1>1 DEF Two
  <1>3. trade[u] \in TradeState /\ trade[p] \in TradeState
    BY <1>1
  <1>4. CASE trade' = trade
    BY <1>4, EndsStay
  <1>5. CASE trade' = [trade EXCEPT ![u] = NoTrade, ![p] = NoTrade]
    BY <1>1, <1>2, <1>5, EndsReset
  <1>6. ASSUME NEW a, NewOffer(h, a), a.status = trade[u].status, a.role = trade[u].role, a.opp = trade[u].opp
        PROVE  Ends'
    <2>1. PICK b : b = [trade[p] EXCEPT !.submitted = FALSE]
      OBVIOUS
    <2>2. b.status = trade[p].status /\ b.role = trade[p].role /\ b.opp = trade[p].opp
      BY <1>3, <2>1 DEF TradeState
    <2>3. trade'[u] = a /\ trade'[p] = b
      BY <1>1, <1>6, <2>1 DEF NewOffer
    <2> QED BY <1>2, <1>6, <2>2, <2>3, EndsStay
  <1>7. ASSUME NEW a, trade' = [trade EXCEPT ![u] = a], a.status = trade[u].status, a.role = trade[u].role,
               a.opp = trade[u].opp
        PROVE  Ends'
    BY <1>1, <1>7, EndsStay
  <1>8. ASSUME NEW e \in CloseEvents, TradeCloseEvent(h, e) PROVE Ends'
    <2>1. CASE e = "tradeCancel"
      BY <1>5, <1>8, <2>1 DEF TradeCloseEvent
    <2>2. CASE e # "tradeCancel"
      <3>1. PICK b \in BOOLEAN : trade' = [trade EXCEPT ![u].submitted = b]
        BY <1>8, <2>2 DEF TradeCloseEvent, CloseEvents
      <3>2. PICK a : a = [trade[u] EXCEPT !.submitted = b]
        OBVIOUS
      <3>3. a.status = trade[u].status /\ a.role = trade[u].role /\ a.opp = trade[u].opp
        BY <1>3, <3>2 DEF TradeState
      <3>4. trade' = [trade EXCEPT ![u] = a]
        BY <3>1, <3>2
      <3> QED BY <1>7, <3>3, <3>4
    <2> QED BY <2>1, <2>2
  <1>9. ASSUME NEW s \in Slots, NEW t \in TradeSlots, TradeAddItem(h, s, t) PROVE Ends'
    <2>1. PICK items : NewOffer(h, [trade[u] EXCEPT !.items = items])
      BY <1>9 DEF TradeAddItem
    <2> QED BY <1>3, <1>6, <2>1 DEF TradeState
  <1>10. ASSUME NEW n \in 0 .. AlzLimit, TradeAddAlz(h, n) PROVE Ends'
    <2>1. NewOffer(h, [trade[u] EXCEPT !.alz = n])
      BY <1>10 DEF TradeAddAlz
    <2> QED BY <1>3, <1>6, <2>1 DEF TradeState
  <1>11. ASSUME NEW k \in DOMAIN trade[u].items, TradeRemoveItem(h, k) PROVE Ends'
    <2>1. PICK items : NewOffer(h, [trade[u] EXCEPT !.items = items])
      BY <1>11 DEF TradeRemoveItem
    <2> QED BY <1>3, <1>6, <2>1 DEF TradeState
  <1>12. ASSUME NEW l \in Lists(Len(trade[p].items)), TradeRequestList(h, l) PROVE Ends'
    <2>1. PICK a : a = [trade[u] EXCEPT !.dest = l]
      OBVIOUS
    <2>2. a.status = trade[u].status /\ a.role = trade[u].role /\ a.opp = trade[u].opp
      BY <1>3, <2>1 DEF TradeState
    <2>3. trade' = [trade EXCEPT ![u] = a]
      BY <1>12, <2>1 DEF TradeRequestList
    <2> QED BY <1>7, <2>2, <2>3
  <1> QED BY <1>4, <1>8, <1>9, <1>10, <1>11, <1>12 DEF Window, Refuse

\* The handshake and the exchange write both ends.
LEMMA OtherEnds ==
  ASSUME IInv, Ends, Apart, Two, closed = {}, NEW h \in Handlers,
         \/ CancelTradeLocked(h) \/ reserveTradeRequest(h) \/ completeTradeApply(h) \/ abortCompletedTrade(h)
         \/ \E e \in OpenEvents : TradeOpenEventLocked(h, e)
  PROVE  Ends'
  <1>1. PICK u \in Users, p \in Users : u = call[h].me /\ p = call[h].peer /\ u # p
    BY DEF IInv, CallOK, Apart, CancelTradeLocked, reserveTradeRequest, completeTradeApply, abortCompletedTrade,
           TradeOpenEventLocked
  <1>2. (\A v \in Users : v = u \/ v = p) /\ trade \in [Users -> TradeState]
    BY <1>1 DEF Two, IInv, TypeOK
  <1>3. CASE trade' = [trade EXCEPT ![u] = NoTrade, ![p] = NoTrade]
    BY <1>1, <1>2, <1>3, EndsReset
  <1>4. CASE trade' = trade
    BY <1>4, EndsStay
  <1>5. CASE CancelTradeLocked(h)
    <2>1. trade[p].status # "none" => trade[p].opp = u
      BY <1>2 DEF Ends
    <2>2. trade'[u] = NoTrade /\ (trade'[p] = NoTrade \/ (trade'[p] = trade[p] /\ trade[p].status = "none"))
      BY <1>1, <1>5, <2>1 DEF CancelTradeLocked
    <2> QED BY <1>2, <2>2 DEF Ends, NoTrade
  <1>6. CASE reserveTradeRequest(h)
    <2>1. PICK a, b : /\ a = [NoTrade EXCEPT !.status = "pending", !.role = "requester", !.opp = p]
                      /\ b = [NoTrade EXCEPT !.status = "pending", !.role = "target", !.opp = u]
      OBVIOUS
    <2>2. /\ a.status = "pending" /\ a.role = "requester" /\ a.opp = p
          /\ b.status = "pending" /\ b.role = "target" /\ b.opp = u
      BY <2>1 DEF NoTrade
    <2>3. trade' = trade \/ trade' = [trade EXCEPT ![u] = a, ![p] = b]
      BY <1>1, <1>6, <2>1 DEF reserveTradeRequest
    <2>4. CASE trade' = [trade EXCEPT ![u] = a, ![p] = b]
      <3>1. trade'[u] = a /\ trade'[p] = b
        BY <1>1, <1>2, <2>4
      <3> QED BY <1>1, <1>2, <2>2, <3>1 DEF Ends
    <2> QED BY <1>4, <2>3, <2>4
  <1>7. ASSUME NEW e \in OpenEvents, TradeOpenEventLocked(h, e) PROVE Ends'
    <2>1. PICK a, b : a = [trade[u] EXCEPT !.status = "open"] /\ b = [trade[p] EXCEPT !.status = "open"]
      OBVIOUS
    <2>2. /\ a.status = "open" /\ a.role = trade[u].role /\ a.opp = trade[u].opp
          /\ b.status = "open" /\ b.role = trade[p].role /\ b.opp = trade[p].opp
      BY <1>2, <2>1 DEF TradeState
    <2>3. \/ trade' = trade
          \/ trade' = [trade EXCEPT ![u] = NoTrade, ![p] = NoTrade]
          \/ OpenValid(h, e) /\ trade' = [trade EXCEPT ![u].status = "open", ![p].status = "open"]
      BY <1>1, <1>7 DEF TradeOpenEventLocked
    <2>4. CASE OpenValid(h, e) /\ trade' = [trade EXCEPT ![u].status = "open", ![p].status = "open"]
      <3>1. trade[p].status = "pending" /\ trade[p].opp = u
        BY <1>1, <2>4 DEF OpenValid
      <3>2. trade[u].opp = p /\ {trade[p].role, trade[u].role} = {"requester", "target"}
        BY <1>1, <3>1 DEF Ends
      <3>3. trade'[u] = a /\ trade'[p] = b
        BY <1>1, <1>2, <2>1, <2>4
      <3> QED BY <1>1, <1>2, <2>2, <3>1, <3>2, <3>3 DEF Ends
    <2> QED BY <1>3, <1>4, <2>3, <2>4
  <1>8. CASE completeTradeApply(h) \/ abortCompletedTrade(h)
    BY <1>1, <1>3, <1>8 DEF completeTradeApply, abortCompletedTrade
  <1> QED BY <1>5, <1>6, <1>7, <1>8

\* The sessions of the goroutines after a step.
LEMMA ApartStep ==
  ASSUME IInv, PairInv, [Next]_vars
  PROVE  Apart' /\ Present' /\ closed \subseteq closed'
  <1>1. Apart /\ Present /\ clients \subseteq Users
    BY DEF PairInv, IInv, TypeOK
  <1>2. CASE UNCHANGED netVars /\ Apart'
    BY <1>1, <1>2 DEF netVars, Present
  <1>3. CASE UNCHANGED vars
    BY <1>1, <1>3 DEF vars, Apart, Present
  <1>4. ASSUME NEW u \in Users, Lifecycle(u) PROVE Apart' /\ Present' /\ closed \subseteq closed'
    <2>1. CASE Close(u)
      BY <1>1, <2>1 DEF Close, Apart, Present
    <2>2. CASE onClientDisconnect(u)
      BY <1>1, <2>2 DEF onClientDisconnect, Apart, Present
    <2>3. ASSUME NEW h \in Handlers, OnClientDisconnect(h, u) \/ Uninitialze(h, u)
          PROVE  Apart' /\ Present' /\ closed \subseteq closed'
      <3>1. CancelTrade(h, u) /\ UNCHANGED <<clients, closed>>
        BY <2>3 DEF OnClientDisconnect, Uninitialze, netVars
      <3> QED BY <1>1, <3>1, CancelApart DEF Present
    <2> QED BY <1>4, <2>1, <2>2, <2>3 DEF Lifecycle
  <1>5. ASSUME NEW h \in Handlers, NEW u \in Users, Start(h, u) PROVE UNCHANGED netVars /\ Apart'
    <2>1. PICK pc \in PC, p \in Users : Begin(h, pc, u, p) /\ p # u /\ UNCHANGED netVars
      BY <1>1, <1>5 DEF Start, TradeRequest, TradeOpenEvent, tradePair, PC
    <2>2. closed \subseteq closed'
      BY <2>1 DEF netVars
    <2> QED BY <1>1, <2>1, <2>2, BeginApart
  <1>6. ASSUME NEW h \in Handlers, Continue(h) PROVE UNCHANGED netVars /\ Apart'
    <2>1. UNCHANGED netVars
      BY <1>6 DEF Continue, CancelTradeLocked, reserveTradeRequest, TradeOpenEventLocked, Window, Refuse,
         TradeCloseEvent, TradeAddItem, TradeAddAlz, TradeRemoveItem, TradeRequestList, completeTrade,
         TradeItemsCommitted, TradeItemsRefused, completeTradeApply, abortCompletedTrade
    <2>2. CASE Return(h)
      BY <1>1, <2>1, <2>2, ApartCalls DEF netVars
    <2>3. ASSUME NEW pc \in PC, Goto(h, pc), call[h].pc \in {"paired", "completing", "calling"} PROVE Apart'
      BY <1>1, <2>1, <2>3, ApartCalls DEF netVars
    <2>4. ASSUME call[h].pc \in {"completing", "calling"}, NEW pc \in {"calling", "applying"}, NEW x,
                 call' = [call EXCEPT ![h].pc = pc, ![h].x = x]
          PROVE  Apart'
      <3>1. PICK r : r = [call[h] EXCEPT !.pc = pc, !.x = x]
        OBVIOUS
      <3>2. call[h] \in Call /\ call \in [Handlers -> Call]
        BY DEF IInv, TypeOK
      <3>3. r.me = call[h].me /\ r.peer = call[h].peer /\ call' = [call EXCEPT ![h] = r]
        BY <2>4, <3>1, <3>2 DEF Call
      <3> QED BY <1>1, <2>4, <3>2, <3>3, <2>1 DEF Apart, netVars
    <2>5. CASE completeTrade(h)
      BY <2>2, <2>4, <2>5 DEF completeTrade
    <2>6. CASE TradeItemsCommitted(h)
      <3>1. call[h].pc = "calling"
            /\ (Goto(h, "aborting") \/ \E x : call' = [call EXCEPT ![h].pc = "applying", ![h].x = x])
        BY <2>6 DEF TradeItemsCommitted
      <3> QED BY <2>1, <2>3, <2>4, <3>1 DEF PC
    <2>7. CASE TradeItemsRefused(h)
      BY <2>3, <2>7 DEF TradeItemsRefused, PC
    <2>8. CASE call[h].pc = "paired" /\ Window(h)
      BY <2>2, <2>3, <2>8 DEF Window, Refuse, TradeCloseEvent, TradeAddItem, TradeAddAlz, TradeRemoveItem,
         TradeRequestList, PC
    <2>9. CASE \/ CancelTradeLocked(h) \/ reserveTradeRequest(h) \/ completeTradeApply(h)
               \/ abortCompletedTrade(h) \/ \E e \in OpenEvents : TradeOpenEventLocked(h, e)
      BY <2>2, <2>9 DEF CancelTradeLocked, reserveTradeRequest, TradeOpenEventLocked, completeTradeApply,
         abortCompletedTrade
    <2> QED BY <1>6, <2>1, <2>5, <2>6, <2>7, <2>8, <2>9 DEF Continue
  <1>7. ASSUME NEW u, NEW s, NEW t, InventoryMove(u, s, t) PROVE UNCHANGED netVars /\ Apart'
    BY <1>1, <1>7 DEF InventoryMove, Apart, netVars
  <1>8. ASSUME UNCHANGED netVars, Apart' PROVE Apart' /\ Present' /\ closed \subseteq closed'
    BY <1>1, <1>8 DEF netVars, Present
  <1> QED BY <1>3, <1>4, <1>5, <1>6, <1>7, <1>8, TradeAssumption DEF Next

\* Every step of two players keeps their ends paired.
LEMMA PairStep ==
  ASSUME IInv, PairInv, Two, [Next]_vars
  PROVE  PairInv'
  <1>1. Apart' /\ Present' /\ closed \subseteq closed'
    BY ApartStep
  <1> SUFFICES ASSUME closed' = {} PROVE Ends'
    BY <1>1 DEF PairInv
  <1>2. closed = {} /\ Ends /\ Apart
    BY <1>1 DEF PairInv
  <1>3. CASE trade' = trade
    BY <1>2, <1>3, EndsStay
  <1>4. ASSUME NEW h \in Handlers, Continue(h) PROVE Ends'
    BY <1>2, <1>3, <1>4, WindowEnds, OtherEnds
       DEF Continue, completeTrade, TradeItemsCommitted, TradeItemsRefused
  <1>5. CASE \E u \in Leavers : Lifecycle(u)
    BY <1>3, <1>5 DEF Lifecycle, Close, onClientDisconnect, OnClientDisconnect, Uninitialze
  <1>6. CASE \E h \in Handlers, u \in Users : Start(h, u)
    BY <1>3, <1>6 DEF Start, TradeRequest, TradeOpenEvent, tradePair
  <1>7. CASE \E u \in Movers, s, t \in Slots : InventoryMove(u, s, t)
    BY <1>3, <1>7 DEF InventoryMove
  <1> QED BY <1>3, <1>4, <1>5, <1>6, <1>7 DEF Next, vars

\* Of two players the parts hold in every state.
LEMMA PairInvariant ==
  ASSUME Two
  PROVE  Spec => []PairInv
  <1>1. Init => PairInv
    BY DEF Init, PairInv, Apart, Present, Ends, IdleCall, NoTrade
  <1>2. IInv /\ PairInv /\ [Next]_vars => PairInv'
    BY PairStep
  <1> QED BY <1>1, <1>2, TradeInvariant, PTL DEF Spec

\* Paired: as long as both are connected, the trades of two players have the
\* same status and opposite roles and name each other, although a TradeOpenEvent
\* decides on a status and a role it copied before, and however many goroutines
\* of the two overlap.
THEOREM TradePaired == ASSUME Two PROVE Spec => []Paired
  <1>1. PairInv => Paired
    BY DEF PairInv, Ends, Paired
  <1> QED BY <1>1, PairInvariant, PTL

\* Who changes an offer that stays open: a goroutine of its owner, which
\* withdraws the submission of the peer it holds.
LEMMA OfferEdits ==
  ASSUME IInv, Apart, [Next]_vars, NEW v \in Users, trade'[v].status = "open",
         trade'[v].items # trade[v].items \/ trade'[v].alz # trade[v].alz
  PROVE  \E p \in Users : p # v /\ ~trade'[p].submitted
  <1>1. trade \in [Users -> TradeState]
    BY DEF IInv, TypeOK
  <1>2. trade' # trade
    OBVIOUS
  <1>3. PICK h \in Handlers : Continue(h)
    BY <1>2 DEF Next, vars, Lifecycle, Close, onClientDisconnect, OnClientDisconnect, Uninitialze,
       Start, TradeRequest, TradeOpenEvent, tradePair, InventoryMove
  <1>4. call[h].pc # "idle"
    BY <1>3 DEF Continue, CancelTradeLocked, reserveTradeRequest, TradeOpenEventLocked, completeTrade,
       TradeItemsCommitted, TradeItemsRefused, completeTradeApply, abortCompletedTrade
  <1>5. PICK u \in Users, p \in Users : u = call[h].me /\ p = call[h].peer
    BY <1>4 DEF IInv, CallOK
  <1>6. ASSUME trade'[v].items = trade[v].items, trade'[v].alz = trade[v].alz PROVE FALSE
    BY <1>6
  <1>7. ASSUME trade'[v] = NoTrade PROVE FALSE
    BY <1>7 DEF NoTrade
  <1>8. CASE CancelTradeLocked(h)
    BY <1>6, <1>7, <1>8 DEF CancelTradeLocked
  <1>9. CASE reserveTradeRequest(h)
    <2>1. PICK a, b : /\ a = [NoTrade EXCEPT !.status = "pending", !.role = "requester", !.opp = p]
                      /\ b = [NoTrade EXCEPT !.status = "pending", !.role = "target", !.opp = u]
      OBVIOUS
    <2>2. a.status = "pending" /\ b.status = "pending"
      BY <2>1 DEF NoTrade
    <2>3. trade' = trade \/ trade' = [trade EXCEPT ![u] = a, ![p] = b]
      BY <1>5, <1>9, <2>1 DEF reserveTradeRequest
    <2> QED BY <1>1, <1>5, <1>6, <2>2, <2>3
  <1>10. CASE completeTradeApply(h) \/ abortCompletedTrade(h)
    <2>1. trade' = [trade EXCEPT ![u] = NoTrade, ![p] = NoTrade]
      BY <1>5, <1>10 DEF completeTradeApply, abortCompletedTrade
    <2> QED BY <1>1, <1>5, <1>6, <1>7, <2>1
  <1>11. ASSUME NEW e \in OpenEvents, TradeOpenEventLocked(h, e) PROVE FALSE
    <2>1. \/ trade' = trade
          \/ trade' = [trade EXCEPT ![u] = NoTrade, ![p] = NoTrade]
          \/ trade' = [trade EXCEPT ![u].status = "open", ![p].status = "open"]
      BY <1>5, <1>11 DEF TradeOpenEventLocked
    <2>2. CASE trade' = [trade EXCEPT ![u].status = "open", ![p].status = "open"]
      <3>1. trade'[v] = trade[v] \/ trade'[v] = [trade[v] EXCEPT !.status = "open"]
        BY <1>1, <1>5, <2>2 DEF TradeState
      <3>2. trade[v] \in TradeState
        BY <1>1
      <3> QED BY <1>6, <3>1, <3>2 DEF TradeState
    <2> QED BY <1>1, <1>5, <1>6, <1>7, <2>1, <2>2
  <1>12. CASE completeTrade(h) \/ TradeItemsCommitted(h) \/ TradeItemsRefused(h)
    BY <1>2, <1>12 DEF completeTrade, TradeItemsCommitted, TradeItemsRefused
  <1>13. CASE call[h].pc = "paired" /\ Window(h)
    <2>1. u # p
      BY <1>5, <1>13 DEF Apart
    <2>2. ASSUME NEW a, NewOffer(h, a)
          PROVE  \E q \in Users : q # v /\ ~trade'[q].submitted
      <3>1. PICK b : b = [trade[p] EXCEPT !.submitted = FALSE]
        OBVIOUS
      <3>2. trade[p] \in TradeState
        BY <1>1, <1>5
      <3>3. ~b.submitted /\ b.items = trade[p].items /\ b.alz = trade[p].alz
        BY <3>1, <3>2 DEF TradeState
      <3>4. trade' = [trade EXCEPT ![u] = a, ![p] = b]
        BY <1>5, <2>1, <2>2, <3>1 DEF NewOffer
      <3>5. v = u
        BY <1>1, <1>5, <1>6, <3>3, <3>4
      <3> QED BY <1>1, <1>5, <2>1, <3>3, <3>4, <3>5
    <2>3. ASSUME NEW a, trade' = [trade EXCEPT ![u] = a], a.items = trade[u].items, a.alz = trade[u].alz
          PROVE  FALSE
      BY <1>1, <1>5, <1>6, <2>3
    <2>4. trade[u] \in TradeState
      BY <1>1, <1>5
    <2>5. ASSUME NEW e \in CloseEvents, TradeCloseEvent(h, e) PROVE FALSE
      <3>1. CASE e = "tradeCancel"
        <4>1. trade' = [trade EXCEPT ![u] = NoTrade, ![p] = NoTrade]
          BY <1>5, <2>5, <3>1 DEF TradeCloseEvent
        <4> QED BY <1>1, <1>5, <1>6, <1>7, <4>1
      <3>2. CASE e # "tradeCancel"
        <4>1. PICK b \in BOOLEAN : trade' = [trade EXCEPT ![u].submitted = b]
          BY <1>5, <2>5, <3>2 DEF TradeCloseEvent, CloseEvents
        <4>2. PICK a : a = [trade[u] EXCEPT !.submitted = b]
          OBVIOUS
        <4>3. a.items = trade[u].items /\ a.alz = trade[u].alz /\ trade' = [trade EXCEPT ![u] = a]
          BY <2>4, <4>1, <4>2 DEF TradeState
        <4> QED BY <2>3, <4>3
      <3> QED BY <3>1, <3>2
    <2>6. ASSUME NEW l, TradeRequestList(h, l) PROVE FALSE
      <3>1. PICK a : a = [trade[u] EXCEPT !.dest = l]
        OBVIOUS
      <3>2. a.items = trade[u].items /\ a.alz = trade[u].alz
        BY <2>4, <3>1 DEF TradeState
      <3>3. trade' = [trade EXCEPT ![u] = a]
        BY <1>5, <2>6, <3>1 DEF TradeRequestList
      <3> QED BY <2>3, <3>2, <3>3
    <2>7. ASSUME NEW s, NEW t, NEW n, NEW k, TradeAddItem(h, s, t) \/ TradeAddAlz(h, n) \/ TradeRemoveItem(h, k)
          PROVE  \E a : NewOffer(h, a)
      BY <2>7 DEF TradeAddItem, TradeAddAlz, TradeRemoveItem
    <2> QED BY <1>2, <1>13, <2>2, <2>5, <2>6, <2>7 DEF Window, Refuse
  <1> QED BY <1>3, <1>8, <1>9, <1>10, <1>11, <1>12, <1>13 DEF Continue

\* SubmittedSeesOffer: between two players nobody's submission covers an offer
\* that changed after it, however their goroutines overlap and whoever leaves
\* (TradeAddItem, TradeAddAlz and TradeRemoveItem withdraw it under both locks).
THEOREM TradeSubmittedSeesOffer == ASSUME Two PROVE Spec => SubmittedSeesOffer
  <1>1. IInv /\ PairInv /\ [Next]_vars =>
          [\A u, v \in Users :
             /\ u # v
             /\ trade[u].opp = v /\ trade[v].opp = u
             /\ trade[u].submitted /\ trade'[u].submitted
             /\ trade'[v].status = "open"
             => trade'[v].items = trade[v].items /\ trade'[v].alz = trade[v].alz]_vars
    <2> SUFFICES ASSUME IInv, PairInv, [Next]_vars, NEW u \in Users, NEW v \in Users, u # v,
                        trade'[u].submitted, trade'[v].status = "open",
                        trade'[v].items # trade[v].items \/ trade'[v].alz # trade[v].alz
                 PROVE  FALSE
      OBVIOUS
    <2>1. PICK p \in Users : p # v /\ ~trade'[p].submitted
      BY OfferEdits DEF PairInv
    <2> QED BY <2>1 DEF Two
  <1> QED BY <1>1, TradeInvariant, PairInvariant, PTL DEF Spec, SubmittedSeesOffer
=============================================================================

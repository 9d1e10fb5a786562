----------------------------- MODULE ItemProofs -----------------------------
(***************************************************************************)
(* Proofs about ItemHandlers, for any number of slots, items and goroutines*)
(* of a character, any packets that overlap and any failures of the master.*)
(*                                                                         *)
(* A step is Quiet (see ItemInvariants: a handler goes on), Sent, Declined *)
(* or Returned (a method of Inventory or Equipment), Served (a transaction *)
(* of the master), Locally (a map is updated without its mutex), or the    *)
(* master panics or restarts.  From what each kind does to the records and *)
(* the tables follows that force cores and sales spend what was read, that *)
(* no skill is learned twice, and (from MapInv: what a map lacks, an answer*)
(* under way says) that the maps follow the tables.  From the maps and from*)
(* what the handlers have in their hands (Carry) follows that no item lies *)
(* at two places.  These two hold until an answer of a committed           *)
(* transaction is lost, the others whatever is lost.                       *)
(***************************************************************************)
EXTENDS ItemInvariants, FiniteSetTheorems, WellFoundedInduction, NaturalsInduction, TLAPS

----------------------------------------------------------------------------
(* Records of the goroutines. *)

\* One goroutine goes on, the others stay.
LEMMA BecomesEffect ==
  ASSUME Called, NEW h \in Handlers, NEW d, Becomes(h, d)
  PROVE  /\ Called' /\ call'[h] = d /\ \A g \in Handlers : g # h => call'[g] = call[g]
  BY DEF Called, Becomes

\* What a base state says of one goroutine.
LEMMA BaseOf ==
  ASSUME Base, NEW h \in Handlers
  PROVE  Good(call[h]) /\ Called /\ StateOK /\ LockOK
  BY DEF Base

\* The answer of the master.
LEMMA GoodReply ==
  ASSUME NEW c, Good(c), c.at \in {"rpc", "reply"}, NEW d, Alike(c, d), d.at = "reply", d.m = c.m,
         d.res \in {"ok", "no", "err"}, d.list \in [CashIds -> Items],
         d.res = "no" => c.m.cmd \notin Plain
  PROVE  Good(d)
  <1>2. PlaceOK(d)
    BY DEF Alike, Good, PlaceOK, Place, Busy
  <1>3. SentOK(d)
    BY DEF Alike, Good, SentOK, Busy
  <1> QED
    BY <1>2, <1>3 DEF Alike, Good

\* A method that sends its request.
LEMMA GoodSend ==
  ASSUME NEW c, Good(c), c.at = "call", NEW d, Alike(c, d), d.at = "rpc", d.res = c.res, d.list = c.list,
         RequestOK(d.m), d.m.cmd = c.m.cmd,
         d.m.cmd \in {"SellItems", "ForceCoreEnchant"} => d.m = c.m,
         d.m.cmd = "ConsumeItem" => d.m.item.opt > 0
  PROVE  Good(d)
  <1>2. PlaceOK(d)
    BY DEF Alike, Good, PlaceOK, Place, Busy
  <1>3. SentOK(d)
    BY DEF Alike, Good, SentOK, Busy
  <1> QED
    BY <1>2, <1>3 DEF Alike, Good

\* An idle goroutine.
LEMMA GoodIdle == Good(Idle) /\ Idle.at = "idle" /\ NoItem \in Items /\ Idle.op = "none"
  <1>1. NoItem \in Items
    <2>1. 0 \in 0 .. MaxUpgradeLevel /\ "none" \in Bases
      BY LimitsAssumption, BasesAssumption
    <2>2. NoKind \in Kinds
      BY <2>1 DEF NoKind, Kind, Kinds
    <2> QED
      BY <2>2 DEF NoItem, Items
  <1>2. RequestOK(NoRequest) /\ NoRequest.cmd = "none"
    BY <1>1 DEF NoRequest, RequestOK, RequestShape, InvCommands, EqpCommands, BareCommands
  <1>3. /\ CallShape(Idle) /\ Idle.at = "idle" /\ Idle.op = "none" /\ Idle.m = NoRequest
        /\ Idle.ok = FALSE /\ Idle.res = "no" /\ Idle.list = [id \in CashIds |-> NoItem]
        /\ Idle.item = NoItem /\ Idle.moved = NoItem
    BY DEF Idle, CallShape
  <1>4. PlaceOK(Idle)
    BY <1>3 DEF PlaceOK, Place, Busy, Points, Wearing, Hanging, Looting, UnEquipping
  <1>5. SentOK(Idle)
    BY <1>3 DEF SentOK, Busy
  <1> QED
    BY <1>1, <1>2, <1>3, <1>4, <1>5 DEF Good, Points

\* A method comes back to its caller.
LEMMA GoodResumed ==
  ASSUME NEW c, Good(c), c.at \in {"call", "reply"}, NEW ok \in BOOLEAN,
         NEW d, d = Resumed(c, ok)
  PROVE  /\ Good(d) /\ ~Busy(d) /\ d.at = c.ret
         /\ c.ret # "idle" => d.op = c.op /\ d.ok = ok /\ d.m = c.m /\ d.alz = c.alz /\ Recalls(c, d)
  <1>1. CASE c.ret = "idle"
    BY <1>1, GoodIdle DEF Resumed, Busy
  <1>2. CASE c.ret # "idle"
    <2>1. /\ CallShape(d) /\ d.at = c.ret /\ d.res = c.res /\ d.alz = c.alz /\ d.list = c.list
          /\ d.op = c.op /\ d.ret = c.ret /\ d.back = c.back /\ d.m = c.m /\ d.ok = ok /\ d.slot = c.slot
          /\ d.to = c.to /\ d.item = c.item /\ d.moved = c.moved /\ d.seen = c.seen /\ d.n = c.n
      BY <1>2 DEF Good, CallShape, Resumed
    <2>2. ~Busy(d) /\ d.at \in Points /\ Busy(c)
      BY <2>1 DEF Good, PlaceOK, Place, Busy, Points, Wearing, Hanging, Looting
    <2>3. PlaceOK(d)
      BY <2>1, <2>2 DEF Good, PlaceOK, Place, Looting
    <2>4. SentOK(d)
      BY <2>1, <2>2 DEF SentOK, Busy
    <2> QED
      BY <1>2, <2>1, <2>2, <2>3, <2>4 DEF Good, Recalls
  <1> QED
    BY <1>1, <1>2

----------------------------------------------------------------------------
(* The master. *)

\* A step of h that takes or gives back the mutexes its record says.
LEMMA BaseStep ==
  ASSUME Base, NEW h \in Handlers, NEW d, Becomes(h, d), Good(d), StateOK',
         lock'["inv"] = IF Holds(d, InvCommands) THEN h ELSE IF lock["inv"] = h THEN Free ELSE lock["inv"],
         lock'["eqp"] = IF Holds(d, EqpCommands) THEN h ELSE IF lock["eqp"] = h THEN Free ELSE lock["eqp"],
         Holds(d, InvCommands) => lock["inv"] \in {Free, h},
         Holds(d, EqpCommands) => lock["eqp"] \in {Free, h}
  PROVE  Base'
  <1>1. Called' /\ call'[h] = d /\ \A g \in Handlers : g # h => call'[g] = call[g]
    BY BecomesEffect DEF Base
  <1>2. \A g \in Handlers : Good(call'[g])
    BY <1>1 DEF Base
  <1>3. LockOK'
    <2> SUFFICES ASSUME NEW g \in Handlers
                 PROVE  /\ lock'["inv"] = g <=> Holds(call'[g], InvCommands)
                        /\ lock'["eqp"] = g <=> Holds(call'[g], EqpCommands)
      BY DEF LockOK, Holds
    <2>1. Free # g /\ Free # h
      BY FreeAssumption
    <2>2. /\ lock["inv"] = g <=> Holds(call[g], InvCommands)
          /\ lock["eqp"] = g <=> Holds(call[g], EqpCommands)
      BY DEF Base, LockOK
    <2> QED
      BY <1>1, <2>1, <2>2
  <1> QED
    BY <1>1, <1>2, <1>3 DEF Base

\* A step of h that leaves these mutexes alone.
LEMMA BaseKeep ==
  ASSUME Base, NEW h \in Handlers, NEW d, Becomes(h, d), Good(d), StateOK',
         lock'["inv"] = lock["inv"], lock'["eqp"] = lock["eqp"],
         Holds(d, InvCommands) <=> Holds(call[h], InvCommands),
         Holds(d, EqpCommands) <=> Holds(call[h], EqpCommands)
  PROVE  Base'
  <1>1. /\ lock["inv"] = h <=> Holds(d, InvCommands)
        /\ lock["eqp"] = h <=> Holds(d, EqpCommands)
    BY DEF Base, LockOK
  <1> QED
    BY <1>1, BaseStep

\* What an answer of the master changes.
LEMMA BaseReply ==
  ASSUME Base, NEW h \in Handlers, call[h].at = "rpc", NEW r \in {"ok", "no", "err"}, NEW a,
         NEW l \in [CashIds -> Items],
         r = "no" => call[h].m.cmd \notin Plain,
         Becomes(h, [call[h] EXCEPT !.at = "reply", !.res = r, !.alz = a, !.list = l]),
         TablesOK(db'), UNCHANGED <<inv, eqp, wh, cash, skills, ground, player, lock>>
  PROVE  Base'
  <1>1. PICK c, d : c = call[h] /\ d = [c EXCEPT !.at = "reply", !.res = r, !.alz = a, !.list = l]
    OBVIOUS
  <1>2. Good(c) /\ c.at = "rpc" /\ (r = "no" => c.m.cmd \notin Plain)
    BY <1>1, BaseOf
  <1>4. Alike(c, d) /\ d.at = "reply" /\ d.m = c.m /\ d.res = r /\ d.list = l
    BY <1>1, <1>2 DEF Alike, Good, CallShape
  <1>5. Good(d)
    BY <1>2, <1>4, GoodReply
  <1>3. StateOK'
    BY DEF Base, StateOK, MapsOK
  <1> QED
    BY <1>1, <1>2, <1>3, <1>4, <1>5, BaseKeep DEF Holds

\* Reply, as it is written in the commands.
LEMMA ReplyBecomes ==
  ASSUME Base, NEW h \in Handlers, NEW r, Reply(h, r)
  PROVE  /\ Becomes(h, [call[h] EXCEPT !.at = "reply", !.res = r, !.alz = call[h].alz, !.list = call[h].list])
         /\ call[h].list \in [CashIds -> Items]
  <1>1. CallShape(call[h]) /\ Called /\ call[h].list \in [CashIds -> Items]
    BY BaseOf DEF Good
  <1>2. PICK c : c = call[h]
    OBVIOUS
  <1>3. [c EXCEPT !.at = "reply", !.res = r] = [c EXCEPT !.at = "reply", !.res = r, !.alz = c.alz, !.list = c.list]
    BY <1>1, <1>2 DEF CallShape
  <1>4. Becomes(h, [c EXCEPT !.at = "reply", !.res = r])
    BY <1>1, <1>2 DEF Called, Reply, Becomes, CallShape
  <1> QED
    BY <1>1, <1>2, <1>3, <1>4

\* An answer with what it may change in the tables.
LEMMA AnswersReply ==
  ASSUME Base, NEW h \in Handlers, call[h].at = "rpc", NEW r \in {"ok", "no", "err"}, Reply(h, r),
         r = "no" => call[h].m.cmd \notin Plain, r # "ok" => db' = db, TablesOK(db'),
         r = "ok" => call[h].m.cmd \notin {"SellItems", "PurchaseItem", "LoadCashInventory"},
         call[h].m.cmd \notin {"SellItems", "PurchaseItem"} => db'.alz = db.alz,
         call[h].m.cmd # "LearnSkill" => db'.skills = db.skills
  PROVE  Answers(h, r)
  BY ReplyBecomes DEF Answers

\* A request that the master refuses leaves the tables alone.
LEMMA AnswersRefused ==
  ASSUME Base, NEW h \in Handlers, call[h].at = "rpc", Refused(h), call[h].m.cmd \notin Plain
  PROVE  Answers(h, "no")
  <1>1. Reply(h, "no") /\ db' = db /\ TablesOK(db')
    BY DEF Base, StateOK, Refused
  <1> QED
    BY <1>1, AnswersReply

\* A transaction that was committed.
LEMMA ServedOk ==
  ASSUME Base, NEW h \in Handlers, call[h].at = "rpc", Reply(h, "ok"), TablesOK(db'),
         call[h].m.cmd \notin {"SellItems", "PurchaseItem", "LoadCashInventory"},
         db'.alz = db.alz,
         call[h].m.cmd # "LearnSkill" => db'.skills = db.skills,
         Effect(call[h].m)
  PROVE  Served(h)
  <1>1. Answers(h, "ok")
    BY AnswersReply
  <1> QED
    BY <1>1 DEF Served

\* A transaction that found something else than it expected.
LEMMA ServedRefused ==
  ASSUME Base, NEW h \in Handlers, call[h].at = "rpc", Refused(h), call[h].m.cmd \notin Plain
  PROVE  Served(h)
  BY AnswersRefused DEF Served

\* AddItem is served.
LEMMA ServedAddItem ==
  ASSUME Base, NEW h \in Handlers, AddItem(h)
  PROVE  Served(h)
  <1>1. PICK m, d : m = call[h].m /\ d = db
    OBVIOUS
  <1>2. call[h].at = "rpc" /\ m.cmd = "AddItem" /\ RequestOK(m) /\ TablesOK(d) /\ NoItem \in Items
    BY <1>1, BaseOf, GoodIdle DEF AddItem, Request, Good, StateOK
  <1>3. PICK e : e = [d EXCEPT !.inv[m.slot] = m.item]
    OBVIOUS
  <1>4. m.slot \in Slots /\ m.item \in Items
    BY <1>1, <1>2, SlotsAssumption DEF RequestOK, InvCommands, EqpCommands, TablesOK
  <1>5. /\ TablesOK(e) /\ e.eqp = d.eqp /\ e.wh = d.wh /\ e.cash = d.cash /\ e.alz = d.alz
        /\ e.skills = d.skills
    BY <1>2, <1>3, <1>4 DEF TablesOK
  <1>6. Reply(h, "ok") /\ db' = e
    BY <1>1, <1>3 DEF AddItem
  <1>7. Exact(m) => Gives(m, d.inv, e.inv)
    BY <1>1, <1>2, <1>3, <1>4 DEF Exact, TablesOK, Gives
  <1>8. Effect(m)
    BY <1>1, <1>2, <1>5, <1>6, <1>7 DEF Effect, InvCommands, EqpCommands
  <1> QED
    BY <1>1, <1>2, <1>5, <1>6, <1>8, ServedOk

\* RemoveItem is served.
LEMMA ServedRemoveItem ==
  ASSUME Base, NEW h \in Handlers, RemoveItem(h)
  PROVE  Served(h)
  <1>1. PICK m, d : m = call[h].m /\ d = db
    OBVIOUS
  <1>2. call[h].at = "rpc" /\ m.cmd = "RemoveItem" /\ RequestOK(m) /\ TablesOK(d) /\ NoItem \in Items
    BY <1>1, BaseOf, GoodIdle DEF RemoveItem, Request, Good, StateOK
  <1>3. PICK e : e = [d EXCEPT !.inv[m.slot] = NoItem]
    OBVIOUS
  <1>4. m.slot \in Slots
    BY <1>1, <1>2, SlotsAssumption DEF RequestOK, InvCommands, EqpCommands, TablesOK
  <1>5. /\ TablesOK(e) /\ e.eqp = d.eqp /\ e.wh = d.wh /\ e.cash = d.cash /\ e.alz = d.alz
        /\ e.skills = d.skills
    BY <1>2, <1>3, <1>4 DEF TablesOK
  <1>6. Reply(h, "ok") /\ db' = e
    BY <1>1, <1>3 DEF RemoveItem
  <1>7. Exact(m) => Gives(m, d.inv, e.inv)
    BY <1>1, <1>2, <1>3, <1>4 DEF Exact, TablesOK, Gives
  <1>8. Effect(m)
    BY <1>1, <1>2, <1>5, <1>6, <1>7 DEF Effect, InvCommands, EqpCommands
  <1> QED
    BY <1>1, <1>2, <1>5, <1>6, <1>8, ServedOk

\* SwapItem is served.
LEMMA ServedSwapItem ==
  ASSUME Base, NEW h \in Handlers, SwapItem(h)
  PROVE  Served(h)
  <1>1. PICK m, d : m = call[h].m /\ d = db
    OBVIOUS
  <1>2. call[h].at = "rpc" /\ m.cmd = "SwapItem" /\ RequestOK(m) /\ TablesOK(d) /\ NoItem \in Items
    BY <1>1, BaseOf, GoodIdle DEF SwapItem, Request, Good, StateOK
  <1>3. PICK e : e = [d EXCEPT !.inv[m.slot] = d.inv[m.to], !.inv[m.to] = d.inv[m.slot]]
    OBVIOUS
  <1>4. m.slot \in Slots /\ m.to \in Slots /\ d.inv[m.slot] \in Items /\ d.inv[m.to] \in Items
    BY <1>1, <1>2, SlotsAssumption DEF RequestOK, InvCommands, EqpCommands, TablesOK
  <1>5. /\ TablesOK(e) /\ e.eqp = d.eqp /\ e.wh = d.wh /\ e.cash = d.cash /\ e.alz = d.alz
        /\ e.skills = d.skills
    BY <1>2, <1>3, <1>4 DEF TablesOK
  <1>6. Reply(h, "ok") /\ db' = e
    BY <1>1, <1>3 DEF SwapItem
  <1>7. Exact(m) => Gives(m, d.inv, e.inv)
    BY <1>1, <1>2, <1>3, <1>4 DEF Exact, TablesOK, Gives
  <1>8. Effect(m)
    BY <1>1, <1>2, <1>5, <1>6, <1>7 DEF Effect, InvCommands, EqpCommands
  <1> QED
    BY <1>1, <1>2, <1>5, <1>6, <1>8, ServedOk

\* SwapEquipmentItem is served.
LEMMA ServedSwapEquipmentItem ==
  ASSUME Base, NEW h \in Handlers, SwapEquipmentItem(h)
  PROVE  Served(h)
  <1>1. PICK m, d : m = call[h].m /\ d = db
    OBVIOUS
  <1>2. call[h].at = "rpc" /\ m.cmd = "SwapEquipmentItem" /\ RequestOK(m) /\ TablesOK(d) /\ NoItem \in Items
    BY <1>1, BaseOf, GoodIdle DEF SwapEquipmentItem, Request, Good, StateOK
  <1>3. PICK e : e = [d EXCEPT !.eqp[m.slot] = d.eqp[m.to], !.eqp[m.to] = d.eqp[m.slot]]
    OBVIOUS
  <1>4. m.slot \in EqSlots /\ m.to \in EqSlots /\ d.eqp[m.slot] \in Items /\ d.eqp[m.to] \in Items
    BY <1>1, <1>2, SlotsAssumption DEF RequestOK, InvCommands, EqpCommands, TablesOK
  <1>5. /\ TablesOK(e) /\ e.inv = d.inv /\ e.wh = d.wh /\ e.cash = d.cash /\ e.alz = d.alz
        /\ e.skills = d.skills
    BY <1>2, <1>3, <1>4 DEF TablesOK
  <1>6. Reply(h, "ok") /\ db' = e
    BY <1>1, <1>3 DEF SwapEquipmentItem
  <1>7. Exact(m) => EqGives(m, d.eqp, e.eqp)
    BY <1>1, <1>2, <1>3, <1>4 DEF Exact, TablesOK, EqGives
  <1>8. Effect(m)
    BY <1>1, <1>2, <1>5, <1>6, <1>7 DEF Effect, InvCommands, EqpCommands
  <1> QED
    BY <1>1, <1>2, <1>5, <1>6, <1>8, ServedOk

\* EquipItem is served.
LEMMA ServedEquipItem ==
  ASSUME Base, NEW h \in Handlers, EquipItem(h)
  PROVE  Served(h)
  <1>1. PICK m, d : m = call[h].m /\ d = db
    OBVIOUS
  <1>2. call[h].at = "rpc" /\ m.cmd = "EquipItem" /\ RequestOK(m) /\ TablesOK(d) /\ NoItem \in Items
    BY <1>1, BaseOf, GoodIdle DEF EquipItem, Request, Good, StateOK
  <1>3. PICK e : e = [d EXCEPT !.eqp[m.slot] = m.item]
    OBVIOUS
  <1>4. m.slot \in EqSlots /\ m.item \in Items
    BY <1>1, <1>2, SlotsAssumption DEF RequestOK, InvCommands, EqpCommands, TablesOK
  <1>5. /\ TablesOK(e) /\ e.inv = d.inv /\ e.wh = d.wh /\ e.cash = d.cash /\ e.alz = d.alz
        /\ e.skills = d.skills
    BY <1>2, <1>3, <1>4 DEF TablesOK
  <1>6. Reply(h, "ok") /\ db' = e
    BY <1>1, <1>3 DEF EquipItem
  <1>7. Exact(m) => EqGives(m, d.eqp, e.eqp)
    BY <1>1, <1>2, <1>3, <1>4 DEF Exact, TablesOK, EqGives
  <1>8. Effect(m)
    BY <1>1, <1>2, <1>5, <1>6, <1>7 DEF Effect, InvCommands, EqpCommands
  <1> QED
    BY <1>1, <1>2, <1>5, <1>6, <1>8, ServedOk

\* MoveItem is served; without a row it changes nothing.
LEMMA ServedMoveItem ==
  ASSUME Base, NEW h \in Handlers, MoveItem(h)
  PROVE  Served(h)
  <1>1. PICK m, d : m = call[h].m /\ d = db
    OBVIOUS
  <1>2. call[h].at = "rpc" /\ m.cmd = "MoveItem" /\ RequestOK(m) /\ TablesOK(d) /\ NoItem \in Items
    BY <1>1, BaseOf, GoodIdle DEF MoveItem, Request, Good, StateOK
  <1>3. PICK e : e = IF d.inv[m.slot] = NoItem THEN d
                     ELSE [d EXCEPT !.inv[m.to] = d.inv[m.slot], !.inv[m.slot] = NoItem]
    OBVIOUS
  <1>4. m.slot \in Slots /\ m.to \in Slots /\ d.inv[m.slot] \in Items
    BY <1>1, <1>2 DEF RequestOK, InvCommands, TablesOK
  <1>5. /\ TablesOK(e) /\ e.eqp = d.eqp /\ e.wh = d.wh /\ e.cash = d.cash /\ e.alz = d.alz
        /\ e.skills = d.skills
    BY <1>2, <1>3, <1>4 DEF TablesOK
  <1>6. Reply(h, "ok") /\ db' = e /\ ~Collides(m)
    BY <1>1, <1>3 DEF MoveItem
  <1>7. Exact(m) => Gives(m, d.inv, e.inv)
    <2>1. SUFFICES ASSUME d.inv[m.slot] # NoItem PROVE Gives(m, d.inv, e.inv)
      BY <1>1, <1>2 DEF Exact
    <2>2. d.inv[m.to] = NoItem
      BY <1>1, <1>2, <1>6, <2>1 DEF Collides
    <2>3. e.inv = [d.inv EXCEPT ![m.to] = d.inv[m.slot], ![m.slot] = NoItem]
      BY <1>2, <1>3, <1>4, <2>1 DEF TablesOK
    <2>4. e.inv = [d.inv EXCEPT ![m.slot] = NoItem, ![m.to] = d.inv[m.slot]]
      BY <1>2, <1>4, <2>1, <2>2, <2>3 DEF TablesOK
    <2> QED
      BY <1>2, <2>4 DEF Gives
  <1>8. Effect(m)
    BY <1>1, <1>2, <1>5, <1>6, <1>7 DEF Effect, InvCommands, EqpCommands
  <1> QED
    BY <1>1, <1>2, <1>5, <1>6, <1>8, ServedOk

\* MoveEquipmentItem is served; without a row it fails.
LEMMA ServedMoveEquipmentItem ==
  ASSUME Base, NEW h \in Handlers, MoveEquipmentItem(h)
  PROVE  Served(h)
  <1>1. PICK m, d : m = call[h].m /\ d = db
    OBVIOUS
  <1>2. call[h].at = "rpc" /\ m.cmd = "MoveEquipmentItem" /\ RequestOK(m) /\ TablesOK(d) /\ NoItem \in Items
    BY <1>1, BaseOf, GoodIdle DEF MoveEquipmentItem, Request, Good, StateOK
  <1>4. m.slot \in EqSlots /\ m.to \in EqSlots /\ d.eqp[m.slot] \in Items
    BY <1>1, <1>2 DEF RequestOK, EqpCommands, TablesOK
  <1>3. CASE d.eqp[m.slot] = NoItem
    <2>1. Reply(h, "err") /\ db' = db
      BY <1>1, <1>3 DEF MoveEquipmentItem
    <2>2. Answers(h, "err")
      BY <1>1, <1>2, <2>1, AnswersReply
    <2> QED
      BY <2>2 DEF Served
  <1>5. CASE d.eqp[m.slot] # NoItem
    <2>1. PICK e : e = [d EXCEPT !.eqp[m.to] = d.eqp[m.slot], !.eqp[m.slot] = NoItem]
      OBVIOUS
    <2>2. /\ TablesOK(e) /\ e.inv = d.inv /\ e.wh = d.wh /\ e.cash = d.cash /\ e.alz = d.alz
          /\ e.skills = d.skills /\ e.eqp = [d.eqp EXCEPT ![m.to] = d.eqp[m.slot], ![m.slot] = NoItem]
      BY <1>2, <1>4, <2>1 DEF TablesOK
    <2>3. Reply(h, "ok") /\ db' = e /\ ~Collides(m)
      BY <1>1, <1>5, <2>1 DEF MoveEquipmentItem
    <2>4. d.eqp[m.to] = NoItem
      BY <1>1, <1>2, <1>5, <2>3 DEF Collides
    <2>5. e.eqp = [d.eqp EXCEPT ![m.slot] = NoItem, ![m.to] = d.eqp[m.slot]]
      BY <1>2, <1>4, <1>5, <2>2, <2>4 DEF TablesOK
    <2>6. EqGives(m, d.eqp, e.eqp)
      BY <1>2, <2>5 DEF EqGives
    <2>7. Effect(m)
      BY <1>1, <1>2, <2>2, <2>3, <2>6 DEF Effect, InvCommands, EqpCommands
    <2> QED
      BY <1>1, <1>2, <2>2, <2>3, <2>7, ServedOk
  <1> QED
    BY <1>3, <1>5

\* UnEquipItem is served; without a row it fails.
LEMMA ServedUnEquipItem ==
  ASSUME Base, NEW h \in Handlers, UnEquipItem(h)
  PROVE  Served(h)
  <1>1. PICK m, d : m = call[h].m /\ d = db
    OBVIOUS
  <1>2. call[h].at = "rpc" /\ m.cmd = "UnEquipItem" /\ RequestOK(m) /\ TablesOK(d) /\ NoItem \in Items
    BY <1>1, BaseOf, GoodIdle DEF UnEquipItem, Request, Good, StateOK
  <1>3. PICK e : e = [d EXCEPT !.eqp[m.slot] = NoItem]
    OBVIOUS
  <1>4. m.slot \in EqSlots
    BY <1>1, <1>2 DEF RequestOK, EqpCommands
  <1>5. /\ TablesOK(e) /\ e.inv = d.inv /\ e.wh = d.wh /\ e.cash = d.cash /\ e.alz = d.alz
        /\ e.skills = d.skills /\ e.eqp = [d.eqp EXCEPT ![m.slot] = NoItem]
    BY <1>2, <1>3, <1>4 DEF TablesOK
  <1>6. db' = e
    BY <1>1, <1>3 DEF UnEquipItem
  <1>7. CASE d.eqp[m.slot] = NoItem
    <2>1. Reply(h, "err")
      BY <1>1, <1>7 DEF UnEquipItem
    <2>2. e.eqp = d.eqp
      BY <1>2, <1>4, <1>5, <1>7 DEF TablesOK
    <2>3. e = d
      BY <1>2, <1>5, <2>2 DEF TablesOK
    <2>4. Answers(h, "err")
      BY <1>1, <1>2, <1>6, <2>1, <2>3, AnswersReply
    <2> QED
      BY <2>4 DEF Served
  <1>8. CASE d.eqp[m.slot] # NoItem
    <2>1. Reply(h, "ok")
      BY <1>1, <1>8 DEF UnEquipItem
    <2>2. Effect(m)
      BY <1>1, <1>2, <1>5, <1>6 DEF Effect, EqGives, InvCommands, EqpCommands
    <2> QED
      BY <1>1, <1>2, <1>5, <1>6, <2>1, <2>2, ServedOk
  <1> QED
    BY <1>7, <1>8

\* The parts of an item.
LEMMA ItemFields ==
  ASSUME NEW i \in Items
  PROVE  /\ i.kind \in Kinds /\ i.serials \in Nat /\ i.opt \in Nat
         /\ i.kind.base \in Bases
         /\ \A n \in Nat : [i EXCEPT !.opt = n] \in Items
         /\ \A k \in Kinds : [i EXCEPT !.kind = k] \in Items
  BY DEF Items, Kinds

\* An item with one unit less.
LEMMA UnitLess ==
  ASSUME NEW i \in Items, i.opt > 0
  PROVE  [i EXCEPT !.opt = @ - 1] \in Items
  <1>1. i.opt - 1 \in Nat
    BY ItemFields
  <1>2. [i EXCEPT !.opt = i.opt - 1] \in Items
    BY <1>1, ItemFields
  <1> QED
    BY <1>2

\* Rows without some of them.
LEMMA DeletedRows ==
  ASSUME NEW f \in [Slots -> Items], NEW S
  PROVE  Deleted(f, S) \in [Slots -> Items]
  BY GoodIdle DEF Deleted

\* ConsumeItem is served, or refused when the row is another one.
LEMMA ServedConsumeItem ==
  ASSUME Base, NEW h \in Handlers, ConsumeItem(h)
  PROVE  Served(h)
  <1>1. PICK m, d : m = call[h].m /\ d = db
    OBVIOUS
  <1>2. call[h].at = "rpc" /\ m.cmd = "ConsumeItem" /\ RequestOK(m) /\ TablesOK(d) /\ NoItem \in Items
    BY <1>1, BaseOf, GoodIdle DEF ConsumeItem, Request, Good, StateOK
  <1>3. CASE ~(d.inv[m.slot] = m.item /\ m.item.opt > 0)
    <2>1. Refused(h)
      BY <1>1, <1>3 DEF ConsumeItem, Stored, At
    <2> QED
      BY <1>1, <1>2, <2>1, ServedRefused DEF Plain
  <1>4. CASE d.inv[m.slot] = m.item /\ m.item.opt > 0
    <2>1. /\ m.slot \in Slots
          /\ (IF m.item.opt = 1 THEN NoItem ELSE [m.item EXCEPT !.opt = @ - 1]) \in Items
      BY <1>2, <1>4, UnitLess DEF RequestOK, InvCommands
    <2>2. PICK e : e = [d EXCEPT !.inv[m.slot] =
                       IF m.item.opt = 1 THEN NoItem ELSE [m.item EXCEPT !.opt = @ - 1]]
      OBVIOUS
    <2>3. TablesOK(e) /\ e.eqp = d.eqp /\ e.wh = d.wh /\ e.cash = d.cash /\ e.alz = d.alz
          /\ e.skills = d.skills
      BY <1>2, <2>1, <2>2 DEF TablesOK
    <2>4. Reply(h, "ok") /\ db' = e
      BY <1>1, <1>4, <2>2 DEF ConsumeItem, Stored, At
    <2>5. Exact(m) => Gives(m, d.inv, e.inv)
      BY <1>2, <2>1, <2>2 DEF TablesOK, Gives
    <2>6. Effect(m)
      BY <1>1, <1>2, <1>4, <2>3, <2>4, <2>5 DEF Effect, InvCommands, EqpCommands, Stored, At
    <2> QED
      BY <1>1, <1>2, <2>3, <2>4, <2>6, ServedOk
  <1> QED
    BY <1>3, <1>4

\* EnchantItem is served, or refused when a row is another one.
LEMMA ServedEnchantItem ==
  ASSUME Base, NEW h \in Handlers, EnchantItem(h)
  PROVE  Served(h)
  <1>1. PICK m, d : m = call[h].m /\ d = db
    OBVIOUS
  <1>2. call[h].at = "rpc" /\ m.cmd = "EnchantItem" /\ RequestOK(m) /\ TablesOK(d) /\ NoItem \in Items
    BY <1>1, BaseOf, GoodIdle DEF EnchantItem, Request, Good, StateOK
  <1>3. CASE ~(/\ m.new.kind # NoKind /\ m.new.kind = nextEnchantKind(m.item.kind)
             /\ m.cores # {} /\ d.inv[m.slot] = m.item
             /\ \A p \in m.cores : p.item.kind # NoKind /\ p.slot # m.slot /\ d.inv[p.slot] = p.item)
    <2>1. Refused(h)
      BY <1>1, <1>3 DEF EnchantItem, Stored, At
    <2> QED
      BY <1>1, <1>2, <2>1, ServedRefused DEF Plain
  <1>4. CASE /\ m.new.kind # NoKind /\ m.new.kind = nextEnchantKind(m.item.kind)
             /\ m.cores # {} /\ d.inv[m.slot] = m.item
             /\ \A p \in m.cores : p.item.kind # NoKind /\ p.slot # m.slot /\ d.inv[p.slot] = p.item
    <2>1. /\ m.slot \in Slots /\ [m.item EXCEPT !.kind = m.new.kind] \in Items
          /\ Deleted(d.inv, {p.slot : p \in m.cores}) \in [Slots -> Items]
      BY <1>2, ItemFields, DeletedRows DEF RequestOK, InvCommands, TablesOK
    <2>2. PICK e : e = [d EXCEPT !.inv = [Deleted(@, {p.slot : p \in m.cores}) EXCEPT
                                             ![m.slot] = [m.item EXCEPT !.kind = m.new.kind]]]
      OBVIOUS
    <2>3. TablesOK(e) /\ e.eqp = d.eqp /\ e.wh = d.wh /\ e.cash = d.cash /\ e.alz = d.alz
          /\ e.skills = d.skills
      BY <1>2, <2>1, <2>2 DEF TablesOK
    <2>4. Reply(h, "ok") /\ db' = e
      BY <1>1, <1>4, <2>2 DEF EnchantItem, Stored, At
    <2>5. Exact(m) => Gives(m, d.inv, e.inv)
      BY <1>2, <2>1, <2>2 DEF TablesOK, Gives
    <2>6. Effect(m)
      BY <1>1, <1>2, <1>4, <2>3, <2>4, <2>5 DEF Effect, InvCommands, EqpCommands, Stored, At
    <2> QED
      BY <1>1, <1>2, <2>3, <2>4, <2>6, ServedOk
  <1> QED
    BY <1>3, <1>4

\* AttachItem is served, or refused when a row is another one.
LEMMA ServedAttachItem ==
  ASSUME Base, NEW h \in Handlers, AttachItem(h)
  PROVE  Served(h)
  <1>1. PICK m, d : m = call[h].m /\ d = db
    OBVIOUS
  <1>2. call[h].at = "rpc" /\ m.cmd = "AttachItem" /\ RequestOK(m) /\ TablesOK(d) /\ NoItem \in Items
    BY <1>1, BaseOf, GoodIdle DEF AttachItem, Request, Good, StateOK
  <1>3. CASE ~(/\ m.item.kind # NoKind /\ m.new.kind # NoKind /\ m.new.serials = m.item.serials
             /\ d.inv[m.slot] = m.item
             /\ \A p \in m.others : p.item.kind # NoKind /\ p.slot # m.slot /\ d.inv[p.slot] = p.item)
    <2>1. Refused(h)
      BY <1>1, <1>3 DEF AttachItem, Stored, At
    <2> QED
      BY <1>1, <1>2, <2>1, ServedRefused DEF Plain
  <1>4. CASE /\ m.item.kind # NoKind /\ m.new.kind # NoKind /\ m.new.serials = m.item.serials
             /\ d.inv[m.slot] = m.item
             /\ \A p \in m.others : p.item.kind # NoKind /\ p.slot # m.slot /\ d.inv[p.slot] = p.item
    <2>1. /\ m.slot \in Slots /\ m.new \in Items
          /\ Deleted(d.inv, {p.slot : p \in m.others}) \in [Slots -> Items]
      BY <1>2, DeletedRows DEF RequestOK, InvCommands, TablesOK
    <2>2. PICK e : e = [d EXCEPT !.inv = [Deleted(@, {p.slot : p \in m.others}) EXCEPT ![m.slot] = m.new]]
      OBVIOUS
    <2>3. TablesOK(e) /\ e.eqp = d.eqp /\ e.wh = d.wh /\ e.cash = d.cash /\ e.alz = d.alz
          /\ e.skills = d.skills
      BY <1>2, <2>1, <2>2 DEF TablesOK
    <2>4. Reply(h, "ok") /\ db' = e
      BY <1>1, <1>4, <2>2 DEF AttachItem, Stored, At
    <2>5. Exact(m) => Gives(m, d.inv, e.inv)
      BY <1>2, <2>1, <2>2 DEF TablesOK, Gives
    <2>6. Effect(m)
      BY <1>1, <1>2, <1>4, <2>3, <2>4, <2>5 DEF Effect, InvCommands, EqpCommands, Stored, At
    <2> QED
      BY <1>1, <1>2, <2>3, <2>4, <2>6, ServedOk
  <1> QED
    BY <1>3, <1>4

\* UseCashItem is served, or refused.
LEMMA ServedUseCashItem ==
  ASSUME Base, NEW h \in Handlers, UseCashItem(h)
  PROVE  Served(h)
  <1>1. PICK m, d : m = call[h].m /\ d = db
    OBVIOUS
  <1>2. call[h].at = "rpc" /\ m.cmd = "UseCashItem" /\ RequestOK(m) /\ TablesOK(d) /\ NoItem \in Items
    BY <1>1, BaseOf, GoodIdle DEF UseCashItem, Request, Good, StateOK
  <1>3. CASE ~(m.item # NoItem /\ d.cash[m.to] = m.item /\ d.inv[m.slot] = NoItem)
    <2>1. Refused(h)
      BY <1>1, <1>3 DEF UseCashItem, Stored, At
    <2> QED
      BY <1>1, <1>2, <2>1, ServedRefused DEF Plain
  <1>4. CASE m.item # NoItem /\ d.cash[m.to] = m.item /\ d.inv[m.slot] = NoItem
    <2>1. m.slot \in Slots /\ m.to \in CashIds /\ m.item \in Items
      BY <1>2 DEF RequestOK
    <2>2. PICK e : e = [d EXCEPT !.inv[m.slot] = m.item, !.cash[m.to] = NoItem]
      OBVIOUS
    <2>3. TablesOK(e) /\ e.eqp = d.eqp /\ e.wh = d.wh /\ e.alz = d.alz
          /\ e.skills = d.skills
      BY <1>2, <2>1, <2>2 DEF TablesOK
    <2>4. Reply(h, "ok") /\ db' = e
      BY <1>1, <1>4, <2>2 DEF UseCashItem, Stored, At
    <2>5. e.inv = [d.inv EXCEPT ![m.slot] = m.item] /\ e.cash = [d.cash EXCEPT ![m.to] = NoItem]
      BY <1>2, <2>1, <2>2 DEF TablesOK
    <2>6. Effect(m)
      BY <1>1, <1>2, <1>4, <2>3, <2>4, <2>5 DEF Effect, InvCommands, EqpCommands, Stored, At
    <2> QED
      BY <1>1, <1>2, <2>3, <2>4, <2>6, ServedOk
  <1> QED
    BY <1>3, <1>4

\* LearnSkill is served, or refused when the skill or its slot is taken.
LEMMA ServedLearnSkill ==
  ASSUME Base, NEW h \in Handlers, LearnSkill(h)
  PROVE  Served(h)
  <1>1. PICK m, d : m = call[h].m /\ d = db
    OBVIOUS
  <1>2. call[h].at = "rpc" /\ m.cmd = "LearnSkill" /\ RequestOK(m) /\ TablesOK(d) /\ NoItem \in Items
    BY <1>1, BaseOf, GoodIdle DEF LearnSkill, Request, Good, StateOK
  <1>3. CASE ~(/\ d.inv[m.slot] # NoItem /\ d.inv[m.slot].kind = m.item.kind
             /\ d.skills[m.to] = NoSkill /\ \A s \in SkillSlots : d.skills[s] # m.item.kind.base)
    <2>1. Refused(h)
      BY <1>1, <1>3 DEF LearnSkill, Stored, At
    <2> QED
      BY <1>1, <1>2, <2>1, ServedRefused DEF Plain
  <1>4. CASE /\ d.inv[m.slot] # NoItem /\ d.inv[m.slot].kind = m.item.kind
             /\ d.skills[m.to] = NoSkill /\ \A s \in SkillSlots : d.skills[s] # m.item.kind.base
    <2>1. m.slot \in Slots /\ m.to \in SkillSlots /\ m.item.kind.base \in Bases
      BY <1>2, ItemFields DEF RequestOK, InvCommands
    <2>2. PICK e : e = [d EXCEPT !.inv[m.slot] = NoItem, !.skills[m.to] = m.item.kind.base]
      OBVIOUS
    <2>3. TablesOK(e) /\ e.eqp = d.eqp /\ e.wh = d.wh /\ e.cash = d.cash /\ e.alz = d.alz
      BY <1>2, <2>1, <2>2 DEF TablesOK
    <2>4. Reply(h, "ok") /\ db' = e
      BY <1>1, <1>4, <2>2 DEF LearnSkill, Stored, At
    <2>5. /\ Exact(m) => Gives(m, d.inv, e.inv)
          /\ e.skills = [d.skills EXCEPT ![m.to] = m.item.kind.base]
      BY <1>2, <2>1, <2>2 DEF TablesOK, Gives
    <2>6. Effect(m)
      BY <1>1, <1>2, <1>4, <2>3, <2>4, <2>5 DEF Effect, InvCommands, EqpCommands
    <2> QED
      BY <1>1, <1>2, <2>3, <2>4, <2>6, ServedOk
  <1> QED
    BY <1>3, <1>4

\* StackItem is served: the units of every row of the kind become those sent.
LEMMA ServedStackItem ==
  ASSUME Base, NEW h \in Handlers, StackItem(h)
  PROVE  Served(h)
  <1>1. PICK m, d : m = call[h].m /\ d = db
    OBVIOUS
  <1>2. call[h].at = "rpc" /\ m.cmd = "StackItem" /\ RequestOK(m) /\ TablesOK(d) /\ NoItem \in Items
    BY <1>1, BaseOf, GoodIdle DEF StackItem, Request, Good, StateOK
  <1>3. PICK f : f = [s \in Slots |-> IF d.inv[s] # NoItem /\ d.inv[s].kind = m.item.kind
                                      THEN [d.inv[s] EXCEPT !.opt = m.item.opt] ELSE d.inv[s]]
    OBVIOUS
  <1>4. m.slot \in Slots /\ m.item.opt \in Nat /\ d.inv \in [Slots -> Items]
    BY <1>2, ItemFields DEF RequestOK, InvCommands, TablesOK
  <1>5. f \in [Slots -> Items]
    <2>1. \A s \in Slots : d.inv[s] \in Items /\ [d.inv[s] EXCEPT !.opt = m.item.opt] \in Items
      BY <1>4, ItemFields
    <2> QED
      BY <1>3, <2>1
  <1>6. PICK e : e = [d EXCEPT !.inv = f]
    OBVIOUS
  <1>7. /\ TablesOK(e) /\ e.inv = f /\ e.eqp = d.eqp /\ e.wh = d.wh /\ e.cash = d.cash /\ e.alz = d.alz
        /\ e.skills = d.skills
    BY <1>2, <1>5, <1>6 DEF TablesOK
  <1>8. Reply(h, "ok") /\ db' = e
    <2>1. [d EXCEPT !.inv = [s \in Slots |-> IF @[s] # NoItem /\ @[s].kind = m.item.kind
                                             THEN [@[s] EXCEPT !.opt = m.item.opt] ELSE @[s]]] = e
      BY <1>3, <1>6
    <2> QED
      BY <1>1, <2>1 DEF StackItem
  <1>9. Exact(m) => Gives(m, d.inv, e.inv)
    <2> SUFFICES ASSUME Exact(m) PROVE f = [d.inv EXCEPT ![m.slot] = m.item]
      BY <1>2, <1>7 DEF Gives
    <2>1. /\ d.inv[m.slot] # NoItem /\ m.item = [d.inv[m.slot] EXCEPT !.opt = m.item.opt]
          /\ \A s \in Slots : d.inv[s].kind = m.item.kind => s = m.slot
      BY <1>1, <1>2 DEF Exact
    <2>2. d.inv[m.slot].kind = m.item.kind
      BY <1>4, <2>1 DEF Items
    <2>3. f[m.slot] = m.item
      BY <1>3, <1>4, <2>1, <2>2
    <2>4. \A s \in Slots : s # m.slot => f[s] = d.inv[s]
      BY <1>3, <2>1
    <2> QED
      BY <1>4, <1>5, <2>3, <2>4
  <1>10. Effect(m)
    BY <1>1, <1>2, <1>7, <1>8, <1>9 DEF Effect, InvCommands, EqpCommands
  <1> QED
    BY <1>1, <1>2, <1>7, <1>8, <1>10, ServedOk

\* The answer that carries the Alz of the row.
LEMMA ServedAlz ==
  ASSUME Base, NEW h \in Handlers, call[h].at = "rpc", call[h].m.cmd \in {"SellItems", "PurchaseItem"},
         NEW a, call' = [call EXCEPT ![h].at = "reply", ![h].res = "ok", ![h].alz = a],
         TablesOK(db'), a = db'.alz, db'.skills = db.skills, Effect(call[h].m)
  PROVE  Served(h)
  <1>1. CallShape(call[h]) /\ Called /\ call[h].list \in [CashIds -> Items]
    BY BaseOf DEF Good
  <1>2. PICK c : c = call[h]
    OBVIOUS
  <1>3. [c EXCEPT !.at = "reply", !.res = "ok", !.alz = a]
          = [c EXCEPT !.at = "reply", !.res = "ok", !.alz = a, !.list = c.list]
    BY <1>1, <1>2 DEF CallShape
  <1>4. Becomes(h, [c EXCEPT !.at = "reply", !.res = "ok", !.alz = a])
    BY <1>1, <1>2 DEF Called, Becomes, CallShape
  <1>5. Becomes(h, [c EXCEPT !.at = "reply", !.res = "ok", !.alz = a, !.list = c.list])
    BY <1>3, <1>4
  <1>6. Answers(h, "ok")
    BY <1>1, <1>2, <1>5 DEF Answers, Plain
  <1> QED
    BY <1>6 DEF Served

\* PurchaseItem is served, or refused.
LEMMA ServedPurchaseItem ==
  ASSUME Base, NEW h \in Handlers, PurchaseItem(h)
  PROVE  Served(h)
  <1>1. PICK m, d : m = call[h].m /\ d = db
    OBVIOUS
  <1>2. call[h].at = "rpc" /\ m.cmd = "PurchaseItem" /\ RequestOK(m) /\ TablesOK(d) /\ NoItem \in Items
    BY <1>1, BaseOf, GoodIdle DEF PurchaseItem, Request, Good, StateOK
  <1>3. CASE ~(m.price > 0 /\ m.item.kind # NoKind /\ d.alz >= m.price /\ d.inv[m.slot] = NoItem)
    <2>1. Refused(h)
      BY <1>1, <1>3 DEF PurchaseItem
    <2> QED
      BY <1>1, <1>2, <2>1, ServedRefused DEF Plain
  <1>4. CASE m.price > 0 /\ m.item.kind # NoKind /\ d.alz >= m.price /\ d.inv[m.slot] = NoItem
    <2>1. m.slot \in Slots /\ m.item \in Items
      BY <1>2 DEF RequestOK, InvCommands
    <2>2. PICK e, a : a = d.alz - m.price /\ e = [d EXCEPT !.inv[m.slot] = m.item, !.alz = a]
      OBVIOUS
    <2>3. /\ TablesOK(e) /\ e.eqp = d.eqp /\ e.wh = d.wh /\ e.cash = d.cash /\ e.alz = a
          /\ e.skills = d.skills /\ e.inv = [d.inv EXCEPT ![m.slot] = m.item]
      BY <1>2, <2>1, <2>2 DEF TablesOK
    <2>4. db' = e /\ call' = [call EXCEPT ![h].at = "reply", ![h].res = "ok", ![h].alz = a]
      BY <1>1, <1>4, <2>2 DEF PurchaseItem
    <2>5. Effect(m)
      BY <1>1, <1>2, <2>3, <2>4 DEF Effect, Gives, InvCommands, EqpCommands
    <2> QED
      BY <1>1, <1>2, <2>3, <2>4, <2>5, ServedAlz
  <1> QED
    BY <1>3, <1>4

\* SellItems is served, or refused when a row is another one.
LEMMA ServedSellItems ==
  ASSUME Base, NEW h \in Handlers, SellItems(h)
  PROVE  Served(h)
  <1>1. PICK m, d : m = call[h].m /\ d = db
    OBVIOUS
  <1>2. call[h].at = "rpc" /\ m.cmd = "SellItems" /\ RequestOK(m) /\ TablesOK(d) /\ NoItem \in Items
    BY <1>1, BaseOf, GoodIdle DEF SellItems, Request, Good, StateOK
  <1>3. CASE ~(/\ m.price > 0 /\ m.cores # {} /\ AlzLimit - d.alz >= m.price
               /\ \A p \in m.cores : p.item.kind # NoKind /\ d.inv[p.slot] = p.item)
    <2>1. Refused(h)
      BY <1>1, <1>3 DEF SellItems, Stored
    <2> QED
      BY <1>1, <1>2, <2>1, ServedRefused DEF Plain
  <1>4. CASE /\ m.price > 0 /\ m.cores # {} /\ AlzLimit - d.alz >= m.price
             /\ \A p \in m.cores : p.item.kind # NoKind /\ d.inv[p.slot] = p.item
    <2>1. Deleted(d.inv, {p.slot : p \in m.cores}) \in [Slots -> Items]
      BY <1>2, DeletedRows DEF TablesOK
    <2>2. PICK e, a : /\ a = d.alz + m.price
                      /\ e = [d EXCEPT !.inv = Deleted(@, {p.slot : p \in m.cores}), !.alz = a]
      OBVIOUS
    <2>3. /\ TablesOK(e) /\ e.eqp = d.eqp /\ e.wh = d.wh /\ e.cash = d.cash /\ e.alz = a
          /\ e.skills = d.skills /\ e.inv = Deleted(d.inv, {p.slot : p \in m.cores})
      BY <1>2, <2>1, <2>2 DEF TablesOK
    <2>4. db' = e /\ call' = [call EXCEPT ![h].at = "reply", ![h].res = "ok", ![h].alz = a]
      BY <1>1, <1>4, <2>2 DEF SellItems, Stored
    <2>5. Effect(m)
      BY <1>1, <1>2, <1>4, <2>3, <2>4 DEF Effect, Gives, InvCommands, EqpCommands, Stored
    <2> QED
      BY <1>1, <1>2, <2>3, <2>4, <2>5, ServedAlz
  <1> QED
    BY <1>3, <1>4

\* LoadCashInventory is served.
LEMMA ServedLoadCashInventory ==
  ASSUME Base, NEW h \in Handlers, LoadCashInventory(h)
  PROVE  Served(h)
  <1>1. /\ CallShape(call[h]) /\ Called /\ db.cash \in [CashIds -> Items] /\ TablesOK(db)
        /\ call[h].at = "rpc" /\ call[h].m.cmd = "LoadCashInventory" /\ db' = db
    BY BaseOf DEF Good, StateOK, TablesOK, LoadCashInventory, Request
  <1>2. PICK c, l : c = call[h] /\ l = db.cash
    OBVIOUS
  <1>3. [c EXCEPT !.at = "reply", !.res = "ok", !.list = l]
          = [c EXCEPT !.at = "reply", !.res = "ok", !.alz = c.alz, !.list = l]
    BY <1>1, <1>2 DEF CallShape
  <1>4. Becomes(h, [c EXCEPT !.at = "reply", !.res = "ok", !.list = l])
    BY <1>1, <1>2 DEF Called, Becomes, CallShape, LoadCashInventory
  <1>5. Becomes(h, [c EXCEPT !.at = "reply", !.res = "ok", !.alz = c.alz, !.list = l])
    BY <1>3, <1>4
  <1>6. Answers(h, "ok")
    BY <1>1, <1>2, <1>5 DEF Answers, Plain
  <1>7. Effect(call[h].m)
    BY <1>1 DEF Effect, InvCommands, EqpCommands
  <1> QED
    BY <1>6, <1>7 DEF Served

\* A call that fails.
LEMMA AnswersFails ==
  ASSUME Base, NEW h \in Handlers, CallFails(h)
  PROVE  Served(h)
  <1>1. call[h].at = "rpc" /\ Reply(h, "err") /\ db' = db /\ TablesOK(db')
    BY DEF Base, StateOK, CallFails
  <1>2. Answers(h, "err")
    BY <1>1, AnswersReply
  <1> QED
    BY <1>2 DEF Served

\* ForceCoreEnchant is served, or refused when a row is another one.
LEMMA ServedForceCoreEnchant ==
  ASSUME Base, NEW h \in Handlers, ForceCoreEnchant(h)
  PROVE  Served(h)
  <1>1. PICK m, d : m = call[h].m /\ d = db
    OBVIOUS
  <1>2. call[h].at = "rpc" /\ m.cmd = "ForceCoreEnchant" /\ RequestOK(m) /\ TablesOK(d) /\ NoItem \in Items
    BY <1>1, BaseOf, GoodIdle DEF ForceCoreEnchant, Request, Good, StateOK
  <1>3. PICK f : f = [s \in Slots |->
                  IF s = m.slot THEN m.new
                  ELSE IF \E p \in m.cores : p.slot = s THEN NoItem
                  ELSE IF \E p \in m.others : p.slot = s
                  THEN LET p == CHOOSE q \in m.others : q.slot = s IN
                       IF p.item.opt > 0 THEN [p.item EXCEPT !.opt = @ - 1] ELSE NoItem
                  ELSE d.inv[s]]
    OBVIOUS
  <1>4. PICK e : e = [d EXCEPT !.inv = f]
    OBVIOUS
  <1>5. \/ Refused(h)
        \/ Reply(h, "ok") /\ db' = e
             /\ m.new.serials = m.item.serials /\ d.inv[m.slot] = m.item
             /\ \A p \in m.cores \cup m.others : d.inv[p.slot] = p.item
    BY <1>1, <1>3, <1>4 DEF ForceCoreEnchant, Stored, At
  <1>6. CASE Refused(h)
    BY <1>1, <1>2, <1>6, ServedRefused DEF Plain
  <1>7. CASE Reply(h, "ok") /\ db' = e
             /\ m.new.serials = m.item.serials /\ d.inv[m.slot] = m.item
             /\ \A p \in m.cores \cup m.others : d.inv[p.slot] = p.item
    <2>1. m.slot \in Slots /\ m.new \in Items /\ m.others \subseteq Positions /\ d.inv \in [Slots -> Items]
      BY <1>2 DEF RequestOK, InvCommands, TablesOK
    <2>2. ASSUME NEW s \in Slots, NEW p \in m.others
          PROVE  p.item \in Items /\ p.item.opt \in Nat
                  /\ (IF p.item.opt > 0 THEN [p.item EXCEPT !.opt = @ - 1] ELSE NoItem) \in Items
      <3>1. p.item \in Items
        BY <2>1, <2>2 DEF Positions
      <3> QED
        BY <1>2, <3>1, UnitLess, ItemFields
    <2>3. f \in [Slots -> Items]
      <3>1. ASSUME NEW s \in Slots
            PROVE  f[s] \in Items
        <4>1. CASE \E p \in m.others : p.slot = s
          <5>1. PICK p \in m.others : p = CHOOSE q \in m.others : q.slot = s
            BY <4>1
          <5> QED
            BY <1>2, <1>3, <2>1, <2>2, <5>1, <3>1
        <4>2. CASE ~\E p \in m.others : p.slot = s
          BY <1>2, <1>3, <2>1, <4>2, <3>1
        <4> QED
          BY <4>1, <4>2
      <3> QED
        BY <1>3, <3>1
    <2>4. /\ TablesOK(e) /\ e.inv = f /\ e.eqp = d.eqp /\ e.wh = d.wh /\ e.cash = d.cash /\ e.alz = d.alz
          /\ e.skills = d.skills
      BY <1>2, <1>4, <2>3 DEF TablesOK
    <2>5. Exact(m) => Gives(m, d.inv, e.inv)
      <3> SUFFICES ASSUME \A p \in m.others : p.item.opt # 1 PROVE Gives(m, d.inv, f)
        BY <1>2, <2>4 DEF Exact
      <3>1. ASSUME NEW p \in m.others
            PROVE  p.item.opt > 0 <=> p.item.opt > 1
        <4>1. p.item.opt \in Nat /\ p.item.opt # 1
          BY <2>1, <2>2, <3>1
        <4> QED
          BY <4>1
      <3>2. PICK g : g = [s \in Slots |->
                  IF s = m.slot THEN m.new
                  ELSE IF \E p \in m.cores : p.slot = s THEN NoItem
                  ELSE IF \E p \in m.others : p.slot = s
                  THEN LET p == CHOOSE q \in m.others : q.slot = s IN
                       IF p.item.opt > 1 THEN [p.item EXCEPT !.opt = @ - 1] ELSE NoItem
                  ELSE d.inv[s]]
        OBVIOUS
      <3>3. ASSUME NEW s \in Slots PROVE f[s] = g[s]
        <4>1. CASE \E p \in m.others : p.slot = s
          <5>1. PICK p \in m.others : p = CHOOSE q \in m.others : q.slot = s
            BY <4>1
          <5> QED
            BY <1>3, <3>1, <3>2, <3>3, <5>1
        <4>2. CASE ~\E p \in m.others : p.slot = s
          BY <1>3, <3>2, <3>3, <4>2
        <4> QED
          BY <4>1, <4>2
      <3>4. f = g
        BY <1>3, <3>2, <3>3
      <3> QED
        BY <1>2, <3>2, <3>4 DEF Gives
    <2>6. \A p \in m.cores \cup m.others \cup {At(m.slot, m.item)} : Stored(p)
      BY <1>1, <1>7 DEF Stored, At
    <2>7. Effect(m)
      <3>1. m.new.serials = m.item.serials /\ db' = e
        BY <1>7
      <3> QED
        BY <1>1, <1>2, <2>4, <2>5, <2>6, <3>1 DEF Effect, InvCommands, EqpCommands
    <2> QED
      BY <1>1, <1>2, <1>7, <2>4, <2>7, ServedOk
  <1> QED
    BY <1>5, <1>6, <1>7

\* StorageMove is served, or refused.
LEMMA ServedStorageMove ==
  ASSUME Base, NEW h \in Handlers, StorageMove(h)
  PROVE  Served(h)
  <1>1. PICK m, d : m = call[h].m /\ d = db
    OBVIOUS
  <1>2. call[h].at = "rpc" /\ m.cmd = "StorageMove" /\ RequestOK(m) /\ TablesOK(d) /\ NoItem \in Items
    BY <1>1, BaseOf, GoodIdle DEF StorageMove, Request, Good, StateOK
  <1>3. /\ m.table \in Tables /\ m.target \in Tables /\ "wh" \in {m.table, m.target}
        /\ m.slot \in Extent(m.table) /\ m.to \in Extent(m.target)
    BY <1>2 DEF RequestOK
  <1>4. CASE m.table = m.target /\ m.slot = m.to
    <2>1. Reply(h, "ok") /\ db' = db
      BY <1>1, <1>4 DEF StorageMove
    <2>2. Effect(m)
      BY <1>2, <1>4, <2>1 DEF Effect, InvCommands, EqpCommands
    <2> QED
      BY <1>1, <1>2, <2>1, <2>2, ServedOk
  <1>5. CASE ~(m.table = m.target /\ m.slot = m.to) /\ ~(d[m.table][m.slot] # NoItem /\ d[m.target][m.to] = NoItem)
    <2>1. Refused(h)
      BY <1>1, <1>5 DEF StorageMove
    <2> QED
      BY <1>1, <1>2, <2>1, ServedRefused DEF Plain
  <1>6. CASE ~(m.table = m.target /\ m.slot = m.to) /\ d[m.table][m.slot] # NoItem /\ d[m.target][m.to] = NoItem
    <2>1. PICK e : e = [[d EXCEPT ![m.table][m.slot] = NoItem] EXCEPT ![m.target][m.to] = d[m.table][m.slot]]
      OBVIOUS
    <2>2. Reply(h, "ok") /\ db' = e
      BY <1>1, <1>6, <2>1 DEF StorageMove
    <2>3. CASE m.table = "inv" /\ m.target = "wh"
      <3>1. /\ m.slot \in Slots /\ m.to \in WhSlots /\ d.inv[m.slot] \in Items
            /\ e = [[d EXCEPT !.inv[m.slot] = NoItem] EXCEPT !.wh[m.to] = d.inv[m.slot]]
        BY <1>2, <1>3, <2>1, <2>3 DEF Extent, TablesOK
      <3>2. /\ TablesOK(e) /\ e.eqp = d.eqp /\ e.cash = d.cash /\ e.alz = d.alz /\ e.skills = d.skills
            /\ e.inv = [d.inv EXCEPT ![m.slot] = NoItem] /\ e.wh = [d.wh EXCEPT ![m.to] = d.inv[m.slot]]
        BY <1>2, <3>1 DEF TablesOK
      <3>3. Effect(m)
        BY <1>1, <1>2, <1>6, <2>2, <2>3, <3>2 DEF Effect, InvCommands, EqpCommands
      <3> QED
        BY <1>1, <1>2, <2>2, <3>2, <3>3, ServedOk
    <2>4. CASE m.table = "wh" /\ m.target = "inv"
      <3>1. /\ m.slot \in WhSlots /\ m.to \in Slots /\ d.wh[m.slot] \in Items
            /\ e = [[d EXCEPT !.wh[m.slot] = NoItem] EXCEPT !.inv[m.to] = d.wh[m.slot]]
        BY <1>2, <1>3, <2>1, <2>4 DEF Extent, TablesOK
      <3>2. /\ TablesOK(e) /\ e.eqp = d.eqp /\ e.cash = d.cash /\ e.alz = d.alz /\ e.skills = d.skills
            /\ e.wh = [d.wh EXCEPT ![m.slot] = NoItem] /\ e.inv = [d.inv EXCEPT ![m.to] = d.wh[m.slot]]
        BY <1>2, <3>1 DEF TablesOK
      <3>3. Effect(m)
        BY <1>1, <1>2, <1>6, <2>2, <2>4, <3>2 DEF Effect, InvCommands, EqpCommands
      <3> QED
        BY <1>1, <1>2, <2>2, <3>2, <3>3, ServedOk
    <2>5. CASE m.table = "wh" /\ m.target = "wh"
      <3>1. /\ m.slot \in WhSlots /\ m.to \in WhSlots /\ d.wh[m.slot] \in Items
            /\ e = [[d EXCEPT !.wh[m.slot] = NoItem] EXCEPT !.wh[m.to] = d.wh[m.slot]]
        BY <1>2, <1>3, <2>1, <2>5 DEF Extent, TablesOK
      <3>2. /\ TablesOK(e) /\ e.inv = d.inv /\ e.eqp = d.eqp /\ e.cash = d.cash /\ e.alz = d.alz
            /\ e.skills = d.skills
            /\ e.wh = [d.wh EXCEPT ![m.slot] = NoItem, ![m.to] = d.wh[m.slot]]
        BY <1>2, <3>1 DEF TablesOK
      <3>3. Effect(m)
        BY <1>1, <1>2, <1>6, <2>2, <2>5, <3>2 DEF Effect, InvCommands, EqpCommands
      <3> QED
        BY <1>1, <1>2, <2>2, <3>2, <3>3, ServedOk
    <2> QED
      BY <1>3, <2>3, <2>4, <2>5 DEF Tables
  <1> QED
    BY <1>4, <1>5, <1>6

\* A step of the master answers one call, loses answers or starts the master again.
LEMMA MasterCases ==
  ASSUME Base, Master
  PROVE  \/ MasterRestarts
         \/ \E h \in Handlers : Breaks(h) \/ Served(h)
  <1>1. CASE MasterRestarts
    BY <1>1
  <1>2. ASSUME NEW h \in Handlers,
               \/ MasterPanics(h) \/ CallFails(h) \/ AnswerLost(h)
               \/ AddItem(h) \/ RemoveItem(h) \/ MoveItem(h) \/ SwapItem(h) \/ StackItem(h)
               \/ ConsumeItem(h) \/ PurchaseItem(h) \/ SellItems(h)
               \/ EquipItem(h) \/ UnEquipItem(h) \/ SwapEquipmentItem(h) \/ MoveEquipmentItem(h)
               \/ StorageMove(h) \/ EnchantItem(h) \/ AttachItem(h) \/ ForceCoreEnchant(h)
               \/ LoadCashInventory(h) \/ UseCashItem(h) \/ LearnSkill(h)
        PROVE  Breaks(h) \/ Served(h)
    BY <1>2, AnswersFails, ServedAddItem, ServedRemoveItem, ServedMoveItem, ServedSwapItem, ServedStackItem,
       ServedConsumeItem, ServedPurchaseItem, ServedSellItems, ServedEquipItem, ServedUnEquipItem,
       ServedSwapEquipmentItem, ServedMoveEquipmentItem, ServedStorageMove, ServedEnchantItem,
       ServedAttachItem, ServedForceCoreEnchant, ServedLoadCashInventory, ServedUseCashItem, ServedLearnSkill DEF Breaks
  <1> QED
    BY <1>1, <1>2 DEF Master

\* When the master panics or an answer is lost, calls under way fail.
LEMMA PanicLoses ==
  ASSUME Base, NEW h \in Handlers, Breaks(h)
  PROVE  Called' /\ db' = db /\ \A g \in Handlers : Lost(g)
  BY DEF Base, Called, Breaks, MasterPanics, AnswerLost, Reply, Lost

\* A failed call.
LEMMA GoodLost ==
  ASSUME NEW c, Good(c), c.at \in {"rpc", "reply"}, NEW d, d = [c EXCEPT !.at = "reply", !.res = "err"]
  PROVE  Good(d) /\ Alike(c, d) /\ d.at = "reply" /\ d.res = "err" /\ d.m = c.m
  <1>1. Alike(c, d) /\ d.at = "reply" /\ d.m = c.m /\ d.res = "err" /\ d.list = c.list
    BY DEF Alike, Good, CallShape
  <1> QED
    BY <1>1, GoodReply DEF Good

\* An answer of the master keeps the base.
LEMMA BaseServed ==
  ASSUME Base, Still, NEW h \in Handlers, Served(h)
  PROVE  Base'
  <1>1. PICK r \in {"ok", "no", "err"} : Answers(h, r)
    BY DEF Served
  <1>2. PICK a : \E l \in [CashIds -> Items] :
                    Becomes(h, [call[h] EXCEPT !.at = "reply", !.res = r, !.alz = a, !.list = l])
    BY <1>1 DEF Answers
  <1>3. PICK l \in [CashIds -> Items] :
                    Becomes(h, [call[h] EXCEPT !.at = "reply", !.res = r, !.alz = a, !.list = l])
    BY <1>2
  <1> QED
    BY <1>1, <1>3, BaseReply DEF Answers, Still, rest

\* What the master does keeps the base.
LEMMA BaseMaster ==
  ASSUME Base, Still, Master
  PROVE  Base'
  <1>1. CASE MasterRestarts
    <2>1. UNCHANGED <<db, call, inv, eqp, lock, wh, cash, alz, skills, ground, player>>
      BY <1>1 DEF MasterRestarts, Still, rest
    <2> QED
      BY <2>1 DEF Base, StateOK, MapsOK, Called, LockOK
  <1>2. ASSUME NEW h \in Handlers, Breaks(h)
        PROVE  Base'
    <2>1. Called' /\ db' = db /\ \A g \in Handlers : Lost(g)
      BY <1>2, PanicLoses
    <2>2. ASSUME NEW g \in Handlers
          PROVE  /\ Good(call'[g])
                 /\ Holds(call'[g], InvCommands) <=> Holds(call[g], InvCommands)
                 /\ Holds(call'[g], EqpCommands) <=> Holds(call[g], EqpCommands)
      <3>1. PICK c, d : c = call[g] /\ d = call'[g]
        OBVIOUS
      <3>2. Good(c)
        BY <3>1, BaseOf
      <3>3. d = c \/ (c.at \in {"rpc", "reply"} /\ d = [c EXCEPT !.at = "reply", !.res = "err"])
        BY <2>1, <3>1 DEF Lost
      <3> QED
        BY <3>1, <3>2, <3>3, GoodLost DEF Holds
    <2>3. UNCHANGED <<db, inv, eqp, lock, wh, cash, skills, ground, player>>
      BY <2>1 DEF Still, rest
    <2>4. StateOK'
      BY <2>3 DEF Base, StateOK, MapsOK
    <2>5. LockOK'
      BY <2>2, <2>3 DEF Base, LockOK
    <2> QED
      BY <2>1, <2>2, <2>4, <2>5 DEF Base
  <1> QED
    BY <1>1, <1>2, MasterCases, BaseServed

----------------------------------------------------------------------------
(* The methods of the maps. *)

\* Inventory.Set calls the master or returns at once.
LEMMA SentInventorySet ==
  ASSUME Base, NEW h \in Handlers, InventorySet(h)
  PROVE  Sent(h) \/ Declined(h)
  <1>1. PICK m : m = call[h].m
    OBVIOUS
  <1>2. /\ call[h].at = "call" /\ m.cmd = "AddItem" /\ RequestOK(m) /\ lock["inv"] = Free
        /\ Mutex(m.cmd) = "inv" /\ m.cmd \in InvCommands \cup EqpCommands
    BY <1>1, BaseOf DEF InventorySet, Calls, Good, Mutex, InvCommands, EqpCommands
  <1> QED
    BY <1>1, <1>2 DEF InventorySet, Checked, Sent, Declined

\* Inventory.Purchase calls the master or returns at once.
LEMMA SentInventoryPurchase ==
  ASSUME Base, NEW h \in Handlers, InventoryPurchase(h)
  PROVE  Sent(h) \/ Declined(h)
  <1>1. PICK m : m = call[h].m
    OBVIOUS
  <1>2. /\ call[h].at = "call" /\ m.cmd = "PurchaseItem" /\ RequestOK(m) /\ lock["inv"] = Free
        /\ Mutex(m.cmd) = "inv" /\ m.cmd \in InvCommands \cup EqpCommands
    BY <1>1, BaseOf DEF InventoryPurchase, Calls, Good, Mutex, InvCommands, EqpCommands
  <1> QED
    BY <1>1, <1>2 DEF InventoryPurchase, Checked, Sent, Declined

\* Inventory.Sell calls the master or returns at once.
LEMMA SentInventorySell ==
  ASSUME Base, NEW h \in Handlers, InventorySell(h)
  PROVE  Sent(h) \/ Declined(h)
  <1>1. PICK m : m = call[h].m
    OBVIOUS
  <1>2. /\ call[h].at = "call" /\ m.cmd = "SellItems" /\ RequestOK(m) /\ lock["inv"] = Free
        /\ Mutex(m.cmd) = "inv" /\ m.cmd \in InvCommands \cup EqpCommands
    BY <1>1, BaseOf DEF InventorySell, Calls, Good, Mutex, InvCommands, EqpCommands
  <1> QED
    BY <1>1, <1>2 DEF InventorySell, Checked, Sent, Declined

\* Inventory.ConsumeSkillBook calls the master or returns at once.
LEMMA SentInventoryConsumeSkillBook ==
  ASSUME Base, NEW h \in Handlers, InventoryConsumeSkillBook(h)
  PROVE  Sent(h) \/ Declined(h)
  <1>1. PICK m : m = call[h].m
    OBVIOUS
  <1>2. /\ call[h].at = "call" /\ m.cmd = "LearnSkill" /\ RequestOK(m) /\ lock["inv"] = Free
        /\ Mutex(m.cmd) = "inv" /\ m.cmd \in InvCommands \cup EqpCommands
    BY <1>1, BaseOf DEF InventoryConsumeSkillBook, Calls, Good, Mutex, InvCommands, EqpCommands
  <1> QED
    BY <1>1, <1>2 DEF InventoryConsumeSkillBook, Checked, Sent, Declined

\* Inventory.Stack calls the master or returns at once.
LEMMA SentInventoryStack ==
  ASSUME Base, NEW h \in Handlers, InventoryStack(h)
  PROVE  Sent(h) \/ Declined(h)
  <1>1. PICK m : m = call[h].m
    OBVIOUS
  <1>2. /\ call[h].at = "call" /\ m.cmd = "StackItem" /\ RequestOK(m) /\ lock["inv"] = Free
        /\ Mutex(m.cmd) = "inv" /\ m.cmd \in InvCommands \cup EqpCommands
    BY <1>1, BaseOf DEF InventoryStack, Calls, Good, Mutex, InvCommands, EqpCommands
  <1> QED
    BY <1>1, <1>2 DEF InventoryStack, Checked, Sent, Declined

\* Inventory.Remove calls the master or returns at once.
LEMMA SentInventoryRemove ==
  ASSUME Base, NEW h \in Handlers, InventoryRemove(h)
  PROVE  Sent(h) \/ Declined(h)
  <1>1. PICK m : m = call[h].m
    OBVIOUS
  <1>2. /\ call[h].at = "call" /\ m.cmd = "RemoveItem" /\ RequestOK(m) /\ lock["inv"] = Free
        /\ Mutex(m.cmd) = "inv" /\ m.cmd \in InvCommands \cup EqpCommands
    BY <1>1, BaseOf DEF InventoryRemove, Calls, Good, Mutex, InvCommands, EqpCommands
  <1> QED
    BY <1>1, <1>2 DEF InventoryRemove, Checked, Sent, Declined

\* Inventory.ForceCoreEnchant calls the master or returns at once.
LEMMA SentInventoryForceCoreEnchant ==
  ASSUME Base, NEW h \in Handlers, InventoryForceCoreEnchant(h)
  PROVE  Sent(h) \/ Declined(h)
  <1>1. PICK m : m = call[h].m
    OBVIOUS
  <1>2. /\ call[h].at = "call" /\ m.cmd = "ForceCoreEnchant" /\ RequestOK(m) /\ lock["inv"] = Free
        /\ Mutex(m.cmd) = "inv" /\ m.cmd \in InvCommands \cup EqpCommands
    BY <1>1, BaseOf DEF InventoryForceCoreEnchant, Calls, Good, Mutex, InvCommands, EqpCommands
  <1> QED
    BY <1>1, <1>2 DEF InventoryForceCoreEnchant, Checked, Sent, Declined

\* Inventory.Swap calls the master or returns at once.
LEMMA SentInventorySwap ==
  ASSUME Base, NEW h \in Handlers, InventorySwap(h)
  PROVE  Sent(h) \/ Declined(h)
  <1>1. PICK m : m = call[h].m
    OBVIOUS
  <1>2. /\ call[h].at = "call" /\ m.cmd = "SwapItem" /\ RequestOK(m) /\ lock["inv"] = Free
        /\ Mutex(m.cmd) = "inv" /\ m.cmd \in InvCommands \cup EqpCommands
    BY <1>1, BaseOf DEF InventorySwap, Calls, Good, Mutex, InvCommands, EqpCommands
  <1> QED
    BY <1>1, <1>2 DEF InventorySwap, Checked, Sent, Declined

\* Inventory.Move calls the master or returns at once.
LEMMA SentInventoryMove ==
  ASSUME Base, NEW h \in Handlers, InventoryMove(h)
  PROVE  Sent(h) \/ Declined(h)
  <1>1. PICK m : m = call[h].m
    OBVIOUS
  <1>2. /\ call[h].at = "call" /\ m.cmd = "MoveItem" /\ RequestOK(m) /\ lock["inv"] = Free
        /\ Mutex(m.cmd) = "inv" /\ m.cmd \in InvCommands \cup EqpCommands
    BY <1>1, BaseOf DEF InventoryMove, Calls, Good, Mutex, InvCommands, EqpCommands
  <1> QED
    BY <1>1, <1>2 DEF InventoryMove, Checked, Sent, Declined

\* Equipment.Set calls the master or returns at once.
LEMMA SentEquipmentSet ==
  ASSUME Base, NEW h \in Handlers, EquipmentSet(h)
  PROVE  Sent(h) \/ Declined(h)
  <1>1. PICK m : m = call[h].m
    OBVIOUS
  <1>2. /\ call[h].at = "call" /\ m.cmd = "EquipItem" /\ RequestOK(m) /\ lock["eqp"] = Free
        /\ Mutex(m.cmd) = "eqp" /\ m.cmd \in InvCommands \cup EqpCommands
    BY <1>1, BaseOf DEF EquipmentSet, Calls, Good, Mutex, InvCommands, EqpCommands
  <1> QED
    BY <1>1, <1>2 DEF EquipmentSet, Checked, Sent, Declined

\* Equipment.Remove calls the master or returns at once.
LEMMA SentEquipmentRemove ==
  ASSUME Base, NEW h \in Handlers, EquipmentRemove(h)
  PROVE  Sent(h) \/ Declined(h)
  <1>1. PICK m : m = call[h].m
    OBVIOUS
  <1>2. /\ call[h].at = "call" /\ m.cmd = "UnEquipItem" /\ RequestOK(m) /\ lock["eqp"] = Free
        /\ Mutex(m.cmd) = "eqp" /\ m.cmd \in InvCommands \cup EqpCommands
    BY <1>1, BaseOf DEF EquipmentRemove, Calls, Good, Mutex, InvCommands, EqpCommands
  <1> QED
    BY <1>1, <1>2 DEF EquipmentRemove, Checked, Sent, Declined

\* Equipment.Swap calls the master or returns at once.
LEMMA SentEquipmentSwap ==
  ASSUME Base, NEW h \in Handlers, EquipmentSwap(h)
  PROVE  Sent(h) \/ Declined(h)
  <1>1. PICK m : m = call[h].m
    OBVIOUS
  <1>2. /\ call[h].at = "call" /\ m.cmd = "SwapEquipmentItem" /\ RequestOK(m) /\ lock["eqp"] = Free
        /\ Mutex(m.cmd) = "eqp" /\ m.cmd \in InvCommands \cup EqpCommands
    BY <1>1, BaseOf DEF EquipmentSwap, Calls, Good, Mutex, InvCommands, EqpCommands
  <1> QED
    BY <1>1, <1>2 DEF EquipmentSwap, Checked, Sent, Declined

\* Equipment.MoveItem calls the master or returns at once.
LEMMA SentEquipmentMoveItem ==
  ASSUME Base, NEW h \in Handlers, EquipmentMoveItem(h)
  PROVE  Sent(h) \/ Declined(h)
  <1>1. PICK m : m = call[h].m
    OBVIOUS
  <1>2. /\ call[h].at = "call" /\ m.cmd = "MoveEquipmentItem" /\ RequestOK(m) /\ lock["eqp"] = Free
        /\ Mutex(m.cmd) = "eqp" /\ m.cmd \in InvCommands \cup EqpCommands
    BY <1>1, BaseOf DEF EquipmentMoveItem, Calls, Good, Mutex, InvCommands, EqpCommands
  <1> QED
    BY <1>1, <1>2 DEF EquipmentMoveItem, Checked, Sent, Declined

\* A request with other items in it.
LEMMA RequestWith ==
  ASSUME NEW m, RequestOK(m), m.cmd \in {"ConsumeItem", "EnchantItem", "AttachItem"}, NEW n,
         RequestShape(n), n.cmd = m.cmd, n.slot = m.slot, n.item \in Items, n.new = m.new,
         n.cores \subseteq Positions, n.others \subseteq Positions
  PROVE  RequestOK(n)
  BY DEF RequestOK, RequestShape

\* What the slots of a set hold.
LEMMA SeenPositions ==
  ASSUME NEW f \in [Slots -> Items], NEW P \in SUBSET Positions
  PROVE  {At(p.slot, f[p.slot]) : p \in P} \subseteq Positions
  BY DEF Positions, At

\* Inventory.ConsumeOne calls the master or returns at once.
LEMMA SentInventoryConsumeOne ==
  ASSUME Base, NEW h \in Handlers, InventoryConsumeOne(h)
  PROVE  Sent(h) \/ Declined(h)
  <1>1. PICK m, n : m = call[h].m /\ n = [m EXCEPT !.item = inv[m.slot]]
    OBVIOUS
  <1>2. /\ call[h].at = "call" /\ m.cmd = "ConsumeItem" /\ RequestOK(m) /\ lock["inv"] = Free
        /\ Mutex(m.cmd) = "inv" /\ m.cmd \in InvCommands \cup EqpCommands
    BY <1>1, BaseOf DEF InventoryConsumeOne, Calls, Good, Mutex, InvCommands, EqpCommands
  <1>3. inv[m.slot] \in Items
    BY <1>2, BaseOf DEF RequestOK, InvCommands, StateOK, MapsOK
  <1>4. /\ RequestShape(n) /\ n.cmd = m.cmd /\ n.slot = m.slot /\ n.item = inv[m.slot] /\ n.new = m.new
        /\ n.cores \subseteq Positions /\ n.others \subseteq Positions
    BY <1>1, <1>2 DEF RequestOK, RequestShape
  <1>5. RequestOK(n) /\ n.cmd = m.cmd /\ n.item = inv[m.slot]
    BY <1>2, <1>3, <1>4, RequestWith
  <1> QED
    BY <1>1, <1>2, <1>5 DEF InventoryConsumeOne, Checked, Sent, Declined

\* Inventory.Enchant calls the master or returns at once.
LEMMA SentInventoryEnchant ==
  ASSUME Base, NEW h \in Handlers, InventoryEnchant(h)
  PROVE  Sent(h) \/ Declined(h)
  <1>1. PICK m, n : m = call[h].m /\ n = [m EXCEPT !.item = inv[m.slot], !.cores = {At(p.slot, inv[p.slot]) : p \in m.cores}]
    OBVIOUS
  <1>2. /\ call[h].at = "call" /\ m.cmd = "EnchantItem" /\ RequestOK(m) /\ lock["inv"] = Free
        /\ Mutex(m.cmd) = "inv" /\ m.cmd \in InvCommands \cup EqpCommands
    BY <1>1, BaseOf DEF InventoryEnchant, Calls, Good, Mutex, InvCommands, EqpCommands
  <1>3. inv[m.slot] \in Items /\ inv \in [Slots -> Items] /\ m.cores \in SUBSET Positions
    BY <1>2, BaseOf DEF RequestOK, InvCommands, StateOK, MapsOK
  <1>4. /\ RequestShape(n) /\ n.cmd = m.cmd /\ n.slot = m.slot /\ n.item = inv[m.slot] /\ n.new = m.new
        /\ n.cores \subseteq Positions /\ n.others \subseteq Positions
    BY <1>1, <1>2, <1>3, SeenPositions DEF RequestOK, RequestShape
  <1>5. RequestOK(n) /\ n.cmd = m.cmd /\ n.item = inv[m.slot]
    BY <1>2, <1>3, <1>4, RequestWith
  <1> QED
    BY <1>1, <1>2, <1>5 DEF InventoryEnchant, Checked, Sent, Declined

\* Inventory.Attach calls the master or returns at once.
LEMMA SentInventoryAttach ==
  ASSUME Base, NEW h \in Handlers, InventoryAttach(h)
  PROVE  Sent(h) \/ Declined(h)
  <1>1. PICK m, n : m = call[h].m /\ n = [m EXCEPT !.item = inv[m.slot], !.others = {At(p.slot, inv[p.slot]) : p \in m.others}]
    OBVIOUS
  <1>2. /\ call[h].at = "call" /\ m.cmd = "AttachItem" /\ RequestOK(m) /\ lock["inv"] = Free
        /\ Mutex(m.cmd) = "inv" /\ m.cmd \in InvCommands \cup EqpCommands
    BY <1>1, BaseOf DEF InventoryAttach, Calls, Good, Mutex, InvCommands, EqpCommands
  <1>3. inv[m.slot] \in Items /\ inv \in [Slots -> Items] /\ m.others \in SUBSET Positions
    BY <1>2, BaseOf DEF RequestOK, InvCommands, StateOK, MapsOK
  <1>4. /\ RequestShape(n) /\ n.cmd = m.cmd /\ n.slot = m.slot /\ n.item = inv[m.slot] /\ n.new = m.new
        /\ n.cores \subseteq Positions /\ n.others \subseteq Positions
    BY <1>1, <1>2, <1>3, SeenPositions DEF RequestOK, RequestShape
  <1>5. RequestOK(n) /\ n.cmd = m.cmd /\ n.item = inv[m.slot]
    BY <1>2, <1>3, <1>4, RequestWith
  <1> QED
    BY <1>1, <1>2, <1>5 DEF InventoryAttach, Checked, Sent, Declined

\* The rest of Inventory.Set, after the answer.
LEMMA ReturnedInventorySet ==
  ASSUME Base, NEW h \in Handlers, InventorySetDone(h)
  PROVE  Returned(h)
  <1>1. /\ call[h].at = "reply" /\ call[h].m.cmd = "AddItem" /\ call[h].res \in {"ok", "no", "err"}
        /\ Mutex("AddItem") = "inv" /\ (call[h].m.cmd \in Plain => call[h].res # "no")
        /\ "AddItem" \in InvCommands /\ "AddItem" \notin EqpCommands
    BY BaseOf DEF InventorySetDone, Answered, Good, SentOK, Mutex, InvCommands, EqpCommands
  <1> QED
    BY <1>1 DEF InventorySetDone, Returned, Gives, Acked, Plain

\* The rest of Inventory.Purchase, after the answer.
LEMMA ReturnedInventoryPurchase ==
  ASSUME Base, NEW h \in Handlers, InventoryPurchaseDone(h)
  PROVE  Returned(h)
  <1>1. /\ call[h].at = "reply" /\ call[h].m.cmd = "PurchaseItem" /\ call[h].res \in {"ok", "no", "err"}
        /\ Mutex("PurchaseItem") = "inv" /\ (call[h].m.cmd \in Plain => call[h].res # "no")
        /\ "PurchaseItem" \in InvCommands /\ "PurchaseItem" \notin EqpCommands
    BY BaseOf DEF InventoryPurchaseDone, Answered, Good, SentOK, Mutex, InvCommands, EqpCommands
  <1> QED
    BY <1>1 DEF InventoryPurchaseDone, Returned, Gives, Acked, Plain

\* The rest of Inventory.Sell, after the answer.
LEMMA ReturnedInventorySell ==
  ASSUME Base, NEW h \in Handlers, InventorySellDone(h)
  PROVE  Returned(h)
  <1>1. /\ call[h].at = "reply" /\ call[h].m.cmd = "SellItems" /\ call[h].res \in {"ok", "no", "err"}
        /\ Mutex("SellItems") = "inv" /\ (call[h].m.cmd \in Plain => call[h].res # "no")
        /\ "SellItems" \in InvCommands /\ "SellItems" \notin EqpCommands
    BY BaseOf DEF InventorySellDone, Answered, Good, SentOK, Mutex, InvCommands, EqpCommands
  <1> QED
    BY <1>1 DEF InventorySellDone, Returned, Gives, Acked, Plain

\* The rest of Inventory.ConsumeSkillBook, after the answer.
LEMMA ReturnedInventoryConsumeSkillBook ==
  ASSUME Base, NEW h \in Handlers, InventoryConsumeSkillBookDone(h)
  PROVE  Returned(h)
  <1>1. /\ call[h].at = "reply" /\ call[h].m.cmd = "LearnSkill" /\ call[h].res \in {"ok", "no", "err"}
        /\ Mutex("LearnSkill") = "inv" /\ (call[h].m.cmd \in Plain => call[h].res # "no")
        /\ "LearnSkill" \in InvCommands /\ "LearnSkill" \notin EqpCommands
    BY BaseOf DEF InventoryConsumeSkillBookDone, Answered, Good, SentOK, Mutex, InvCommands, EqpCommands
  <1> QED
    BY <1>1 DEF InventoryConsumeSkillBookDone, Returned, Gives, Acked, Plain

\* The rest of Inventory.Stack, after the answer.
LEMMA ReturnedInventoryStack ==
  ASSUME Base, NEW h \in Handlers, InventoryStackDone(h)
  PROVE  Returned(h)
  <1>1. /\ call[h].at = "reply" /\ call[h].m.cmd = "StackItem" /\ call[h].res \in {"ok", "no", "err"}
        /\ Mutex("StackItem") = "inv" /\ (call[h].m.cmd \in Plain => call[h].res # "no")
        /\ "StackItem" \in InvCommands /\ "StackItem" \notin EqpCommands
    BY BaseOf DEF InventoryStackDone, Answered, Good, SentOK, Mutex, InvCommands, EqpCommands
  <1> QED
    BY <1>1 DEF InventoryStackDone, Returned, Gives, Acked, Plain

\* The rest of Inventory.Remove, after the answer.
LEMMA ReturnedInventoryRemove ==
  ASSUME Base, NEW h \in Handlers, InventoryRemoveDone(h)
  PROVE  Returned(h)
  <1>1. /\ call[h].at = "reply" /\ call[h].m.cmd = "RemoveItem" /\ call[h].res \in {"ok", "no", "err"}
        /\ Mutex("RemoveItem") = "inv" /\ (call[h].m.cmd \in Plain => call[h].res # "no")
        /\ "RemoveItem" \in InvCommands /\ "RemoveItem" \notin EqpCommands
    BY BaseOf DEF InventoryRemoveDone, Answered, Good, SentOK, Mutex, InvCommands, EqpCommands
  <1> QED
    BY <1>1 DEF InventoryRemoveDone, Returned, Gives, Acked, Plain

\* The rest of Inventory.ForceCoreEnchant, after the answer.
LEMMA ReturnedInventoryForceCoreEnchant ==
  ASSUME Base, NEW h \in Handlers, InventoryForceCoreEnchantDone(h)
  PROVE  Returned(h)
  <1>1. /\ call[h].at = "reply" /\ call[h].m.cmd = "ForceCoreEnchant" /\ call[h].res \in {"ok", "no", "err"}
        /\ Mutex("ForceCoreEnchant") = "inv" /\ (call[h].m.cmd \in Plain => call[h].res # "no")
        /\ "ForceCoreEnchant" \in InvCommands /\ "ForceCoreEnchant" \notin EqpCommands
    BY BaseOf DEF InventoryForceCoreEnchantDone, Answered, Good, SentOK, Mutex, InvCommands, EqpCommands
  <1> QED
    BY <1>1 DEF InventoryForceCoreEnchantDone, Returned, Gives, Acked, Plain

\* The rest of Inventory.Swap, after the answer.
LEMMA ReturnedInventorySwap ==
  ASSUME Base, NEW h \in Handlers, InventorySwapDone(h)
  PROVE  Returned(h)
  <1>1. /\ call[h].at = "reply" /\ call[h].m.cmd = "SwapItem" /\ call[h].res \in {"ok", "no", "err"}
        /\ Mutex("SwapItem") = "inv" /\ (call[h].m.cmd \in Plain => call[h].res # "no")
        /\ "SwapItem" \in InvCommands /\ "SwapItem" \notin EqpCommands
    BY BaseOf DEF InventorySwapDone, Answered, Good, SentOK, Mutex, InvCommands, EqpCommands
  <1> QED
    BY <1>1 DEF InventorySwapDone, Returned, Gives, Acked, Plain

\* The rest of Inventory.Move, after the answer.
LEMMA ReturnedInventoryMove ==
  ASSUME Base, NEW h \in Handlers, InventoryMoveDone(h)
  PROVE  Returned(h)
  <1>1. /\ call[h].at = "reply" /\ call[h].m.cmd = "MoveItem" /\ call[h].res \in {"ok", "no", "err"}
        /\ Mutex("MoveItem") = "inv" /\ (call[h].m.cmd \in Plain => call[h].res # "no")
        /\ "MoveItem" \in InvCommands /\ "MoveItem" \notin EqpCommands
    BY BaseOf DEF InventoryMoveDone, Answered, Good, SentOK, Mutex, InvCommands, EqpCommands
  <1> QED
    BY <1>1 DEF InventoryMoveDone, Returned, Gives, Acked, Plain

\* The rest of Equipment.Set, after the answer.
LEMMA ReturnedEquipmentSet ==
  ASSUME Base, NEW h \in Handlers, EquipmentSetDone(h)
  PROVE  Returned(h)
  <1>1. /\ call[h].at = "reply" /\ call[h].m.cmd = "EquipItem" /\ call[h].res \in {"ok", "no", "err"}
        /\ Mutex("EquipItem") = "eqp" /\ (call[h].m.cmd \in Plain => call[h].res # "no")
        /\ "EquipItem" \in EqpCommands /\ "EquipItem" \notin InvCommands
    BY BaseOf DEF EquipmentSetDone, Answered, Good, SentOK, Mutex, InvCommands, EqpCommands
  <1> QED
    BY <1>1 DEF EquipmentSetDone, Returned, EqGives, Acked, Plain

\* The rest of Equipment.Remove, after the answer.
LEMMA ReturnedEquipmentRemove ==
  ASSUME Base, NEW h \in Handlers, EquipmentRemoveDone(h)
  PROVE  Returned(h)
  <1>1. /\ call[h].at = "reply" /\ call[h].m.cmd = "UnEquipItem" /\ call[h].res \in {"ok", "no", "err"}
        /\ Mutex("UnEquipItem") = "eqp" /\ (call[h].m.cmd \in Plain => call[h].res # "no")
        /\ "UnEquipItem" \in EqpCommands /\ "UnEquipItem" \notin InvCommands
    BY BaseOf DEF EquipmentRemoveDone, Answered, Good, SentOK, Mutex, InvCommands, EqpCommands
  <1> QED
    BY <1>1 DEF EquipmentRemoveDone, Returned, EqGives, Acked, Plain

\* The rest of Equipment.Swap, after the answer.
LEMMA ReturnedEquipmentSwap ==
  ASSUME Base, NEW h \in Handlers, EquipmentSwapDone(h)
  PROVE  Returned(h)
  <1>1. /\ call[h].at = "reply" /\ call[h].m.cmd = "SwapEquipmentItem" /\ call[h].res \in {"ok", "no", "err"}
        /\ Mutex("SwapEquipmentItem") = "eqp" /\ (call[h].m.cmd \in Plain => call[h].res # "no")
        /\ "SwapEquipmentItem" \in EqpCommands /\ "SwapEquipmentItem" \notin InvCommands
    BY BaseOf DEF EquipmentSwapDone, Answered, Good, SentOK, Mutex, InvCommands, EqpCommands
  <1> QED
    BY <1>1 DEF EquipmentSwapDone, Returned, EqGives, Acked, Plain

\* The rest of Equipment.MoveItem, after the answer.
LEMMA ReturnedEquipmentMoveItem ==
  ASSUME Base, NEW h \in Handlers, EquipmentMoveItemDone(h)
  PROVE  Returned(h)
  <1>1. /\ call[h].at = "reply" /\ call[h].m.cmd = "MoveEquipmentItem" /\ call[h].res \in {"ok", "no", "err"}
        /\ Mutex("MoveEquipmentItem") = "eqp" /\ (call[h].m.cmd \in Plain => call[h].res # "no")
        /\ "MoveEquipmentItem" \in EqpCommands /\ "MoveEquipmentItem" \notin InvCommands
    BY BaseOf DEF EquipmentMoveItemDone, Answered, Good, SentOK, Mutex, InvCommands, EqpCommands
  <1> QED
    BY <1>1 DEF EquipmentMoveItemDone, Returned, EqGives, Acked, Plain

\* The rest of Inventory.ConsumeOne, after the answer.
LEMMA ReturnedInventoryConsumeOne ==
  ASSUME Base, NEW h \in Handlers, InventoryConsumeOneDone(h)
  PROVE  Returned(h)
  <1>1. /\ call[h].at = "reply" /\ call[h].m.cmd = "ConsumeItem" /\ call[h].res \in {"ok", "no", "err"}
        /\ Mutex("ConsumeItem") = "inv" /\ (call[h].m.cmd \in Plain => call[h].res # "no")
        /\ "ConsumeItem" \in InvCommands /\ "ConsumeItem" \notin EqpCommands
    BY BaseOf DEF InventoryConsumeOneDone, Answered, Good, SentOK, Mutex, InvCommands, EqpCommands
  <1> QED
    BY <1>1 DEF InventoryConsumeOneDone, Returned, Gives, Acked, Plain

\* The rest of Inventory.Enchant, after the answer.
LEMMA ReturnedInventoryEnchant ==
  ASSUME Base, NEW h \in Handlers, InventoryEnchantDone(h)
  PROVE  Returned(h)
  <1>1. /\ call[h].at = "reply" /\ call[h].m.cmd = "EnchantItem" /\ call[h].res \in {"ok", "no", "err"}
        /\ Mutex("EnchantItem") = "inv" /\ (call[h].m.cmd \in Plain => call[h].res # "no")
        /\ "EnchantItem" \in InvCommands /\ "EnchantItem" \notin EqpCommands
    BY BaseOf DEF InventoryEnchantDone, Answered, Good, SentOK, Mutex, InvCommands, EqpCommands
  <1> QED
    BY <1>1 DEF InventoryEnchantDone, Returned, Gives, Acked, Plain

\* The rest of Inventory.Attach, after the answer.
LEMMA ReturnedInventoryAttach ==
  ASSUME Base, NEW h \in Handlers, InventoryAttachDone(h)
  PROVE  Returned(h)
  <1>1. /\ call[h].at = "reply" /\ call[h].m.cmd = "AttachItem" /\ call[h].res \in {"ok", "no", "err"}
        /\ Mutex("AttachItem") = "inv" /\ (call[h].m.cmd \in Plain => call[h].res # "no")
        /\ "AttachItem" \in InvCommands /\ "AttachItem" \notin EqpCommands
    BY BaseOf DEF InventoryAttachDone, Answered, Good, SentOK, Mutex, InvCommands, EqpCommands
  <1> QED
    BY <1>1 DEF InventoryAttachDone, Returned, Gives, Acked, Plain

\* A step of a method sends, gives up or applies an answer.
LEMMA MethodCases ==
  ASSUME Base, NEW h \in Handlers, Methods(h)
  PROVE  Sent(h) \/ Declined(h) \/ Returned(h)
  <1>1. CASE \/ InventorySet(h) \/ InventoryPurchase(h) \/ InventorySell(h) \/ InventoryConsumeSkillBook(h)
             \/ InventoryConsumeOne(h) \/ InventoryStack(h) \/ InventoryRemove(h) \/ InventoryEnchant(h)
             \/ InventoryForceCoreEnchant(h) \/ InventoryAttach(h) \/ InventorySwap(h) \/ InventoryMove(h)
             \/ EquipmentSet(h) \/ EquipmentRemove(h) \/ EquipmentSwap(h) \/ EquipmentMoveItem(h)
    BY <1>1, SentInventorySet, SentInventoryPurchase, SentInventorySell, SentInventoryConsumeSkillBook,
       SentInventoryConsumeOne, SentInventoryStack, SentInventoryRemove, SentInventoryEnchant,
       SentInventoryForceCoreEnchant, SentInventoryAttach, SentInventorySwap, SentInventoryMove,
       SentEquipmentSet, SentEquipmentRemove, SentEquipmentSwap, SentEquipmentMoveItem
  <1>2. CASE \/ InventorySetDone(h) \/ InventoryPurchaseDone(h) \/ InventorySellDone(h)
             \/ InventoryConsumeSkillBookDone(h) \/ InventoryConsumeOneDone(h) \/ InventoryStackDone(h)
             \/ InventoryRemoveDone(h) \/ InventoryEnchantDone(h) \/ InventoryForceCoreEnchantDone(h)
             \/ InventoryAttachDone(h) \/ InventorySwapDone(h) \/ InventoryMoveDone(h)
             \/ EquipmentSetDone(h) \/ EquipmentRemoveDone(h) \/ EquipmentSwapDone(h)
             \/ EquipmentMoveItemDone(h)
    BY <1>2, ReturnedInventorySet, ReturnedInventoryPurchase, ReturnedInventorySell,
       ReturnedInventoryConsumeSkillBook, ReturnedInventoryConsumeOne, ReturnedInventoryStack,
       ReturnedInventoryRemove, ReturnedInventoryEnchant, ReturnedInventoryForceCoreEnchant,
       ReturnedInventoryAttach, ReturnedInventorySwap, ReturnedInventoryMove, ReturnedEquipmentSet,
       ReturnedEquipmentRemove, ReturnedEquipmentSwap, ReturnedEquipmentMoveItem
  <1> QED
    BY <1>1, <1>2 DEF Methods

\* What an answer makes of a map of items is a map of items.
LEMMA GivesItems ==
  ASSUME NEW m, RequestOK(m), m.cmd \in InvCommands, m.cmd = "ConsumeItem" => m.item.opt > 0,
         NEW f \in [Slots -> Items], NEW g, Gives(m, f, g)
  PROVE  g \in [Slots -> Items]
  <1>1. /\ m.cmd # "SellItems" => m.slot \in Slots
        /\ m.item \in Items /\ m.new \in Items /\ NoItem \in Items /\ m.others \subseteq Positions
    BY GoodIdle DEF RequestOK, InvCommands
  <1>2. \A S : Deleted(f, S) \in [Slots -> Items]
    BY DeletedRows
  <1>3. CASE m.cmd \in {"AddItem", "PurchaseItem", "StackItem", "RemoveItem", "LearnSkill"}
    BY <1>1, <1>3 DEF Gives
  <1>4. CASE m.cmd = "SellItems"
    BY <1>2, <1>4 DEF Gives
  <1>5. CASE m.cmd = "ConsumeItem"
    <2>1. (IF m.item.opt = 1 THEN NoItem ELSE [m.item EXCEPT !.opt = @ - 1]) \in Items
      BY <1>1, <1>5, UnitLess
    <2> QED
      BY <1>1, <1>5, <2>1 DEF Gives
  <1>6. CASE m.cmd = "EnchantItem"
    <2>1. [m.item EXCEPT !.kind = m.new.kind] \in Items
      BY <1>1, ItemFields
    <2> QED
      BY <1>1, <1>2, <1>6, <2>1 DEF Gives
  <1>7. CASE m.cmd = "AttachItem"
    BY <1>1, <1>2, <1>7 DEF Gives
  <1>8. CASE m.cmd \in {"SwapItem", "MoveItem"}
    <2>1. m.to \in Slots
      BY <1>8 DEF RequestOK
    <2> QED
      BY <1>1, <1>8, <2>1 DEF Gives
  <1>9. CASE m.cmd = "ForceCoreEnchant"
    <2>1. PICK G : /\ g = [s \in Slots |-> G[s]]
                   /\ G = [s \in Slots |-> IF s = m.slot THEN m.new
                              ELSE IF \E p \in m.cores : p.slot = s THEN NoItem
                              ELSE IF \E p \in m.others : p.slot = s
                              THEN LET p == CHOOSE q \in m.others : q.slot = s IN
                                   IF p.item.opt > 1 THEN [p.item EXCEPT !.opt = @ - 1] ELSE NoItem
                              ELSE f[s]]
      BY <1>9 DEF Gives
    <2>2. ASSUME NEW s \in Slots PROVE G[s] \in Items
      <3>1. CASE \E p \in m.others : p.slot = s
        <4>1. PICK p \in m.others : p = CHOOSE q \in m.others : q.slot = s
          BY <3>1
        <4>2. p.item \in Items /\ p.item.opt \in Nat
          BY <1>1, <4>1, ItemFields DEF Positions
        <4>3. (IF p.item.opt > 1 THEN [p.item EXCEPT !.opt = @ - 1] ELSE NoItem) \in Items
          BY <1>1, <4>2, UnitLess
        <4> QED
          BY <1>1, <2>1, <2>2, <4>1, <4>3
      <3>2. CASE ~\E p \in m.others : p.slot = s
        BY <1>1, <2>1, <2>2, <3>2
      <3> QED
        BY <3>1, <3>2
    <2> QED
      BY <2>1, <2>2
  <1> QED
    BY <1>3, <1>4, <1>5, <1>6, <1>7, <1>8, <1>9 DEF InvCommands

\* What an answer puts into the equipment are items.
LEMMA EqGivesItems ==
  ASSUME NEW m, RequestOK(m), m.cmd \in EqpCommands, NEW f \in [EqSlots -> Items], NEW g, EqGives(m, f, g)
  PROVE  g \in [EqSlots -> Items]
  <1>1. /\ m.slot \in EqSlots /\ m.item \in Items /\ NoItem \in Items
        /\ m.cmd \in {"SwapEquipmentItem", "MoveEquipmentItem"} => m.to \in EqSlots
    BY GoodIdle DEF RequestOK
  <1> QED
    BY <1>1 DEF EqGives, EqpCommands

\* The commands of the two maps.
LEMMA Kinship ==
  /\ InvCommands \cap EqpCommands = {} /\ BareCommands \cap (InvCommands \cup EqpCommands) = {}
  /\ "none" \notin InvCommands \cup EqpCommands \cup BareCommands
  BY DEF InvCommands, EqpCommands, BareCommands

\* A method that locks its mutex and calls the master keeps the base.
LEMMA BaseSent ==
  ASSUME Base, NEW h \in Handlers, Sent(h), UNCHANGED <<rest, player>>
  PROVE  Base'
  <1>1. PICK m :
          /\ call[h].at = "call" /\ RequestOK(m)
          /\ m.cmd = call[h].m.cmd /\ m.cmd \in InvCommands \cup EqpCommands
          /\ m.cmd \notin {"ConsumeItem", "EnchantItem", "AttachItem"} => m = call[h].m
          /\ m.cmd = "ConsumeItem" => m.item.opt > 0
          /\ lock[Mutex(m.cmd)] = Free
          /\ Sends(h, m, Mutex(m.cmd))
    BY DEF Sent
  <1>2. PICK c, d : c = call[h] /\ d = [c EXCEPT !.at = "rpc", !.m = m]
    OBVIOUS
  <1>3. Good(c) /\ Called /\ StateOK
    BY <1>2, BaseOf
  <1>4. Alike(c, d) /\ d.at = "rpc" /\ d.m = m /\ d.res = c.res /\ d.list = c.list
    BY <1>2, <1>3 DEF Alike, Good, CallShape
  <1>5. Good(d)
    BY <1>1, <1>2, <1>3, <1>4, GoodSend
  <1>6. Becomes(h, d)
    BY <1>1, <1>2, <1>3 DEF Sends, Becomes, Called, Good, CallShape
  <1>7. /\ UNCHANGED <<inv, eqp, db, wh, cash, skills, ground, player>>
        /\ lock' = [lock EXCEPT ![Mutex(m.cmd)] = h] /\ Mutex(m.cmd) \in {"inv", "eqp"}
        /\ lock \in [{"inv", "eqp", "out", "ctx"} -> Handlers \cup {Free}]
    BY <1>1, <1>3 DEF Sends, maps, master, rest, Mutex, StateOK
  <1>8. lock' \in [{"inv", "eqp", "out", "ctx"} -> Handlers \cup {Free}]
    BY <1>7
  <1>9. StateOK'
    BY <1>3, <1>7, <1>8 DEF StateOK, MapsOK
  <1>10. ~Holds(c, InvCommands) /\ ~Holds(c, EqpCommands)
         /\ (Holds(d, InvCommands) <=> m.cmd \in InvCommands) /\ (Holds(d, EqpCommands) <=> m.cmd \in EqpCommands)
    BY <1>1, <1>2, <1>4 DEF Holds
  <1>11. lock["inv"] # h /\ lock["eqp"] # h
    BY <1>2, <1>10, BaseOf DEF LockOK
  <1>12. Free \notin Handlers
    BY FreeAssumption
  <1>13. CASE m.cmd \in InvCommands
    <2>1. m.cmd \notin EqpCommands /\ Mutex(m.cmd) = "inv"
      BY <1>13, Kinship DEF Mutex
    <2>2. lock["inv"] = Free /\ lock'["inv"] = h /\ lock'["eqp"] = lock["eqp"]
      BY <1>1, <1>7, <2>1
    <2> QED
      BY <1>5, <1>6, <1>9, <1>10, <1>11, <1>13, <2>1, <2>2, BaseStep
  <1>14. CASE m.cmd \in EqpCommands
    <2>1. m.cmd \notin InvCommands /\ Mutex(m.cmd) = "eqp"
      BY <1>14, Kinship DEF Mutex
    <2>2. lock["eqp"] = Free /\ lock'["eqp"] = h /\ lock'["inv"] = lock["inv"]
      BY <1>1, <1>7, <2>1
    <2> QED
      BY <1>5, <1>6, <1>9, <1>10, <1>11, <1>14, <2>1, <2>2, BaseStep
  <1> QED
    BY <1>1, <1>13, <1>14

\* A method that returns without a call keeps the base.
LEMMA BaseDeclined ==
  ASSUME Base, NEW h \in Handlers, Declined(h), UNCHANGED <<rest, player>>
  PROVE  Base'
  <1>1. PICK c, d : c = call[h] /\ d = Resumed(c, FALSE)
    OBVIOUS
  <1>2. Good(c) /\ c.at = "call" /\ Called /\ StateOK
    BY <1>1, BaseOf DEF Declined
  <1>3. Good(d) /\ ~Busy(d)
    BY <1>1, <1>2, GoodResumed
  <1>4. Becomes(h, d)
    BY <1>1 DEF Declined, Declines, Becomes
  <1>5. UNCHANGED <<inv, eqp, db, wh, cash, skills, ground, player, lock>>
    BY DEF Declined, Declines, maps, master, rest
  <1>6. StateOK'
    BY <1>2, <1>5 DEF StateOK, MapsOK
  <1>7. ~Holds(d, InvCommands) /\ ~Holds(d, EqpCommands) /\ ~Holds(c, InvCommands) /\ ~Holds(c, EqpCommands)
    BY <1>2, <1>3 DEF Holds, Busy
  <1> QED
    BY <1>1, <1>3, <1>4, <1>5, <1>6, <1>7, BaseKeep

\* A method that gets its answer, updates its map and unlocks keeps the base.
LEMMA BaseReturned ==
  ASSUME Base, NEW h \in Handlers, Returned(h), UNCHANGED <<rest, player>>
  PROVE  Base'
  <1>1. PICK c, d, b : c = call[h] /\ b = (c.res = "ok") /\ d = Resumed(c, b)
    OBVIOUS
  <1>2. /\ Good(c) /\ c.at = "reply" /\ Called /\ StateOK /\ c.m.cmd \in InvCommands \cup EqpCommands
        /\ RequestOK(c.m) /\ b \in BOOLEAN /\ (c.m.cmd = "ConsumeItem" => c.m.item.opt > 0)
    BY <1>1, BaseOf DEF Returned, Good, SentOK
  <1>3. Good(d) /\ ~Busy(d)
    BY <1>1, <1>2, GoodResumed
  <1>4. Becomes(h, d) /\ lock' = [lock EXCEPT ![Mutex(c.m.cmd)] = Free]
    BY <1>1 DEF Returned, Returns, Becomes
  <1>5. UNCHANGED <<db, wh, cash, skills, ground, player>>
    BY DEF Returned, Returns, master, rest
  <1>6. inv' \in [Slots -> Items] /\ eqp' \in [EqSlots -> Items]
    <2>1. inv \in [Slots -> Items] /\ eqp \in [EqSlots -> Items]
      BY <1>2 DEF StateOK, MapsOK
    <2>2. CASE c.m.cmd \in InvCommands
      <3>1. eqp' = eqp /\ (c.res = "ok" => Gives(c.m, inv, inv')) /\ (c.res # "ok" => inv' = inv)
        BY <1>1, <2>2 DEF Returned
      <3>2. c.res = "ok" => inv' \in [Slots -> Items]
        BY <1>2, <2>1, <2>2, <3>1, GivesItems
      <3> QED
        BY <2>1, <3>1, <3>2
    <2>3. CASE c.m.cmd \in EqpCommands
      <3>1. inv' = inv /\ (c.res = "ok" => EqGives(c.m, eqp, eqp')) /\ (c.res # "ok" => eqp' = eqp)
        BY <1>1, <2>3 DEF Returned
      <3>2. c.res = "ok" => eqp' \in [EqSlots -> Items]
        BY <1>2, <2>1, <2>3, <3>1, EqGivesItems
      <3> QED
        BY <2>1, <3>1, <3>2
    <2> QED
      BY <1>2, <2>2, <2>3
  <1>7. /\ lock \in [{"inv", "eqp", "out", "ctx"} -> Handlers \cup {Free}] /\ Mutex(c.m.cmd) \in {"inv", "eqp"}
        /\ lock' \in [{"inv", "eqp", "out", "ctx"} -> Handlers \cup {Free}]
    BY <1>2, <1>4 DEF StateOK, Mutex
  <1>8. StateOK'
    BY <1>2, <1>5, <1>6, <1>7 DEF StateOK, MapsOK
  <1>9. ~Holds(d, InvCommands) /\ ~Holds(d, EqpCommands)
    BY <1>3 DEF Holds, Busy
  <1>10. /\ lock["inv"] = h <=> c.m.cmd \in InvCommands
         /\ lock["eqp"] = h <=> c.m.cmd \in EqpCommands
    BY <1>1, <1>2, BaseOf DEF LockOK, Holds
  <1>11. CASE c.m.cmd \in InvCommands
    <2>1. c.m.cmd \notin EqpCommands /\ Mutex(c.m.cmd) = "inv"
      BY <1>11, Kinship DEF Mutex
    <2>2. lock["inv"] = h /\ lock["eqp"] # h /\ lock'["inv"] = Free /\ lock'["eqp"] = lock["eqp"]
      BY <1>4, <1>7, <1>10, <1>11, <2>1
    <2> QED
      BY <1>3, <1>4, <1>8, <1>9, <2>2, BaseStep
  <1>12. CASE c.m.cmd \in EqpCommands
    <2>1. c.m.cmd \notin InvCommands /\ Mutex(c.m.cmd) = "eqp"
      BY <1>12, Kinship DEF Mutex
    <2>2. lock["eqp"] = h /\ lock["inv"] # h /\ lock'["eqp"] = Free /\ lock'["inv"] = lock["inv"]
      BY <1>4, <1>7, <1>10, <1>12, <2>1
    <2> QED
      BY <1>3, <1>4, <1>8, <1>9, <2>2, BaseStep
  <1> QED
    BY <1>2, <1>11, <1>12

\* The methods of Inventory and Equipment keep the base.
LEMMA BaseMethods ==
  ASSUME Base, NEW h \in Handlers, Methods(h), UNCHANGED <<rest, player>>
  PROVE  Base'
  BY MethodCases, BaseSent, BaseDeclined, BaseReturned

----------------------------------------------------------------------------
(* The steps of the handlers. *)

\* The requests of the handlers.
LEMMA RequestRemove ==
  ASSUME NEW s \in Slots, NEW m, m = RemoveFrom(s)
  PROVE  RequestOK(m) /\ m.cmd = "RemoveItem"
  BY GoodIdle DEF RequestOK, RequestShape, RemoveFrom, Command, NoRequest, InvCommands, EqpCommands, BareCommands

\* The request of Inventory.Set.
LEMMA RequestSet ==
  ASSUME NEW s \in Slots, NEW i \in Items, NEW m, m = SetTo(s, i)
  PROVE  RequestOK(m) /\ m.cmd = "AddItem"
  BY GoodIdle DEF RequestOK, RequestShape, SetTo, Command, NoRequest, InvCommands, EqpCommands, BareCommands

\* The request of Equipment.Set.
LEMMA RequestEquip ==
  ASSUME NEW s \in EqSlots, NEW i \in Items, NEW m, m = EquipTo(s, i)
  PROVE  RequestOK(m) /\ m.cmd = "EquipItem"
  BY GoodIdle DEF RequestOK, RequestShape, EquipTo, Command, NoRequest, InvCommands, EqpCommands, BareCommands

\* The request of Equipment.Remove.
LEMMA RequestTakeOff ==
  ASSUME NEW s \in EqSlots, NEW m, m = TakeOff(s)
  PROVE  RequestOK(m) /\ m.cmd = "UnEquipItem"
  BY GoodIdle DEF RequestOK, RequestShape, TakeOff, Command, NoRequest, InvCommands, EqpCommands, BareCommands

\* A handler that calls a method.
LEMMA GoodCalling ==
  ASSUME NEW d, Values(d), d.at = "call", d.m.cmd \in Simple, d.op # "Book", d.ret \in Homes, Slotted(d, d.ret)
  PROVE  Good(d)
  <1>1. PlaceOK(d)
    BY DEF PlaceOK, Place, Busy, Points, Homes, Wearing, Hanging, Looting, UnEquipping, Slotted
  <1>2. SentOK(d)
    BY DEF SentOK, Simple, Homes, InvCommands, EqpCommands
  <1> QED
    BY <1>1, <1>2 DEF Good, Values, Points

\* A handler that goes on without a call.
LEMMA GoodGoing ==
  ASSUME NEW d, Values(d), d.op # "Book", Slotted(d, d.at),
         d.at \in {"end", "equip", "unequip", "acc.first", "unequip.remove", "unequip.done", "swap.set",
                   "acc.taken", "acc.shift", "drop.add"}
  PROVE  Good(d)
  <1>1. PlaceOK(d)
    BY DEF PlaceOK, Place, Busy, Points, Wearing, Hanging, Looting, UnEquipping, Slotted
  <1>2. SentOK(d)
    BY DEF SentOK, Busy
  <1>3. d.at \in Points /\ d.at # "idle"
    BY DEF Points, Wearing, Hanging, Looting
  <1> QED
    BY <1>1, <1>2, <1>3 DEF Good, Values

\* What a good record holds.
LEMMA GoodValues ==
  ASSUME NEW c, Good(c)
  PROVE  /\ Values(c) /\ Slotted(c, Place(c)) /\ Place(c) \in Points
         /\ Place(c) = "learn" <=> c.op = "Book"
         /\ ~Busy(c) => Place(c) = c.at
  BY DEF Good, Values, Slotted, PlaceOK, Place

\* A step of a handler that changes nothing but its record keeps the base.
LEMMA BaseQuiet ==
  ASSUME Base, NEW h \in Handlers, Quiet(h)
  PROVE  Base'
  <1>1. PICK d : Becomes(h, d) /\ Good(d) /\ d.at # "reply" /\ (d.at = "rpc" => d.m.cmd \in BareCommands)
    BY DEF Quiet, Due
  <1>2. StateOK'
    BY BaseOf DEF Quiet, Calm, StateOK, MapsOK, LockType
  <1>3. /\ ~Holds(call[h], InvCommands) /\ ~Holds(call[h], EqpCommands)
        /\ ~Holds(d, InvCommands) /\ ~Holds(d, EqpCommands)
    BY <1>1, Kinship DEF Holds, Quiet, Due
  <1> QED
    BY <1>1, <1>2, <1>3, BaseKeep DEF Quiet, Calm

\* The records of Ahead are good, and nobody owes anything in them.
LEMMA GoodAhead ==
  ASSUME NEW d, Ahead(d)
  PROVE  Good(d) /\ d.at \notin Due /\ d.at # "rpc" /\ Sees(d)
  <1>1. CASE d = Idle
    BY <1>1, GoodIdle DEF Due, Sees, Looting
  <1>2. CASE Values(d) /\ d.op # "Book" /\ d.at = "call" /\ d.m.cmd \in Simple /\ d.ret \in Homes /\ Slotted(d, d.ret)
    BY <1>2, GoodCalling DEF Due, Sees, Simple, Looting
  <1>3. CASE Values(d) /\ d.op # "Book" /\ d.at \in Going /\ Slotted(d, d.at)
    BY <1>3, GoodGoing DEF Due, Sees, Looting, Going
  <1> QED
    BY <1>1, <1>2, <1>3 DEF Ahead

\* A handler that goes on to a record of Ahead.
LEMMA QuietAhead ==
  ASSUME Base, NEW h \in Handlers, Calm, call[h].at \notin Due \cup {"call", "rpc", "idle"},
         NEW d, Becomes(h, d), Ahead(d), d = Idle \/ d.op = call[h].op
  PROVE  Quiet(h)
  BY GoodAhead, GoodIdle DEF Quiet

\* Nothing but a record changes.
LEMMA CalmKept ==
  ASSUME Base, UNCHANGED <<lock, maps, master, rest>>, UNCHANGED player
  PROVE  Calm
  BY DEF Calm, Base, StateOK, MapsOK, LockType, maps, master, rest

\* One of the outer mutexes changes too.
LEMMA CalmLocked ==
  ASSUME Base, NEW x \in {"out", "ctx"}, NEW g \in Handlers \cup {Free}, lock' = [lock EXCEPT ![x] = g],
         UNCHANGED <<maps, master, rest>>, UNCHANGED player
  PROVE  Calm
  BY DEF Calm, Base, StateOK, MapsOK, LockType, maps, master, rest

\* The step EquipItemRemove of a handler.
LEMMA QuietEquipItemRemove ==
  ASSUME Base, NEW h \in Handlers, EquipItemRemove(h), UNCHANGED player
  PROVE  Quiet(h)
  <1>1. PICK c : c = call[h]
    OBVIOUS
  <1>2. Good(c) /\ c.at \in {"equip"} /\ StateOK
    BY <1>1, BaseOf DEF EquipItemRemove
  <1>3. ~Busy(c) /\ Values(c) /\ Slotted(c, c.at) /\ c.op # "Book" /\ c.at \notin Due \cup {"call", "rpc", "idle"}
    BY <1>2, GoodValues DEF Busy, Due
  <1>4. Calm
    BY <1>1, <1>2, CalmLocked DEF EquipItemRemove, Base
  <1>5. PICK d : d = IF eqp[c.to].kind = NoKind THEN [Calling(c, RemoveFrom(c.slot), "equip.set") EXCEPT !.item = inv[c.slot]]
                     ELSE [c EXCEPT !.at = "end"]
    OBVIOUS
  <1>6. Becomes(h, d)
    BY <1>1, <1>5 DEF EquipItemRemove, Becomes
  <1>7. CASE (eqp[c.to].kind = NoKind)
    <2>1. d = [Calling(c, RemoveFrom(c.slot), "equip.set") EXCEPT !.item = inv[c.slot]]
      BY <1>5, <1>7
    <2>2. RequestOK(RemoveFrom(c.slot)) /\ RemoveFrom(c.slot).cmd = "RemoveItem" /\ inv[c.slot] \in Items
      BY <1>2, <1>3, RequestRemove, GoodIdle DEF Slotted, Wearing, Hanging, UnEquipping, Values, StateOK, MapsOK
    <2>3. Ahead(d) /\ d.op = c.op
      BY <1>2, <1>3, <2>1, <2>2 DEF Ahead, Values, CallShape, Slotted, Calling, Simple, Homes, Going, Wearing, Hanging, UnEquipping
    <2> QED
      BY <1>1, <1>3, <1>4, <1>6, <2>3, QuietAhead
  <1>8. CASE ~(eqp[c.to].kind = NoKind)
    <2>1. d = [c EXCEPT !.at = "end"]
      BY <1>5, <1>8
    <2>3. Ahead(d) /\ d.op = c.op
      BY <1>2, <1>3, <2>1 DEF Ahead, Values, CallShape, Slotted, Calling, Simple, Homes, Going, Wearing, Hanging, UnEquipping
    <2> QED
      BY <1>1, <1>3, <1>4, <1>6, <2>3, QuietAhead
  <1> QED
    BY <1>7, <1>8

\* The step EquipItemSet of a handler.
LEMMA QuietEquipItemSet ==
  ASSUME Base, NEW h \in Handlers, EquipItemSet(h), UNCHANGED player
  PROVE  Quiet(h)
  <1>1. PICK c : c = call[h]
    OBVIOUS
  <1>2. Good(c) /\ c.at \in {"equip.set"} /\ StateOK
    BY <1>1, BaseOf DEF EquipItemSet
  <1>3. ~Busy(c) /\ Values(c) /\ Slotted(c, c.at) /\ c.op # "Book" /\ c.at \notin Due \cup {"call", "rpc", "idle"}
    BY <1>2, GoodValues DEF Busy, Due
  <1>4. Calm
    BY <1>1, <1>2, CalmKept DEF EquipItemSet, Base
  <1>5. PICK d : d = IF c.ok THEN Calling(c, EquipTo(c.to, c.item), "equip.end")
                     ELSE [c EXCEPT !.at = "end"]
    OBVIOUS
  <1>6. Becomes(h, d)
    BY <1>1, <1>5 DEF EquipItemSet, Becomes
  <1>7. CASE (c.ok)
    <2>1. d = Calling(c, EquipTo(c.to, c.item), "equip.end")
      BY <1>5, <1>7
    <2>2. RequestOK(EquipTo(c.to, c.item)) /\ EquipTo(c.to, c.item).cmd = "EquipItem"
      BY <1>2, <1>3, RequestEquip, GoodIdle DEF Slotted, Wearing, Hanging, UnEquipping, Values, StateOK, MapsOK
    <2>3. Ahead(d) /\ d.op = c.op
      BY <1>2, <1>3, <2>1, <2>2 DEF Ahead, Values, CallShape, Slotted, Calling, Simple, Homes, Going, Wearing, Hanging, UnEquipping
    <2> QED
      BY <1>1, <1>3, <1>4, <1>6, <2>3, QuietAhead
  <1>8. CASE ~(c.ok)
    <2>1. d = [c EXCEPT !.at = "end"]
      BY <1>5, <1>8
    <2>3. Ahead(d) /\ d.op = c.op
      BY <1>2, <1>3, <2>1 DEF Ahead, Values, CallShape, Slotted, Calling, Simple, Homes, Going, Wearing, Hanging, UnEquipping
    <2> QED
      BY <1>1, <1>3, <1>4, <1>6, <2>3, QuietAhead
  <1> QED
    BY <1>7, <1>8

\* The step EquipItemRollback of a handler.
LEMMA QuietEquipItemRollback ==
  ASSUME Base, NEW h \in Handlers, EquipItemRollback(h), UNCHANGED player
  PROVE  Quiet(h)
  <1>1. PICK c : c = call[h]
    OBVIOUS
  <1>2. Good(c) /\ c.at \in {"equip.end"} /\ StateOK
    BY <1>1, BaseOf DEF EquipItemRollback
  <1>3. ~Busy(c) /\ Values(c) /\ Slotted(c, c.at) /\ c.op # "Book" /\ c.at \notin Due \cup {"call", "rpc", "idle"}
    BY <1>2, GoodValues DEF Busy, Due
  <1>4. Calm
    BY <1>1, <1>2, CalmKept DEF EquipItemRollback, Base
  <1>5. PICK d : d = IF c.ok THEN [c EXCEPT !.at = "end"]
                     ELSE Calling(c, SetTo(c.slot, c.item), "end")
    OBVIOUS
  <1>6. Becomes(h, d)
    BY <1>1, <1>5 DEF EquipItemRollback, Becomes
  <1>7. CASE (c.ok)
    <2>1. d = [c EXCEPT !.at = "end"]
      BY <1>5, <1>7
    <2>3. Ahead(d) /\ d.op = c.op
      BY <1>2, <1>3, <2>1 DEF Ahead, Values, CallShape, Slotted, Calling, Simple, Homes, Going, Wearing, Hanging, UnEquipping
    <2> QED
      BY <1>1, <1>3, <1>4, <1>6, <2>3, QuietAhead
  <1>8. CASE ~(c.ok)
    <2>1. d = Calling(c, SetTo(c.slot, c.item), "end")
      BY <1>5, <1>8
    <2>2. RequestOK(SetTo(c.slot, c.item)) /\ SetTo(c.slot, c.item).cmd = "AddItem"
      BY <1>2, <1>3, RequestSet, GoodIdle DEF Slotted, Wearing, Hanging, UnEquipping, Values, StateOK, MapsOK
    <2>3. Ahead(d) /\ d.op = c.op
      BY <1>2, <1>3, <2>1, <2>2 DEF Ahead, Values, CallShape, Slotted, Calling, Simple, Homes, Going, Wearing, Hanging, UnEquipping
    <2> QED
      BY <1>1, <1>3, <1>4, <1>6, <2>3, QuietAhead
  <1> QED
    BY <1>7, <1>8

\* The step UnEquipItemLock of a handler.
LEMMA QuietUnEquipItemLock ==
  ASSUME Base, NEW h \in Handlers, UnEquipItemLock(h), UNCHANGED player
  PROVE  Quiet(h)
  <1>1. PICK c : c = call[h]
    OBVIOUS
  <1>2. Good(c) /\ c.at \in {"unequip"} /\ StateOK
    BY <1>1, BaseOf DEF UnEquipItemLock
  <1>3. ~Busy(c) /\ Values(c) /\ Slotted(c, c.at) /\ c.op # "Book" /\ c.at \notin Due \cup {"call", "rpc", "idle"}
    BY <1>2, GoodValues DEF Busy, Due
  <1>4. Calm
    BY <1>1, <1>2, CalmLocked DEF UnEquipItemLock, Base
  <1>5. PICK d : d = [c EXCEPT !.at = "unequip.remove"]
    OBVIOUS
  <1>6. Becomes(h, d)
    BY <1>1, <1>5 DEF UnEquipItemLock, Becomes
  <1>7. CASE TRUE
    <2>1. d = [c EXCEPT !.at = "unequip.remove"]
      BY <1>5, <1>7
    <2>3. Ahead(d) /\ d.op = c.op
      BY <1>2, <1>3, <2>1 DEF Ahead, Values, CallShape, Slotted, Calling, Simple, Homes, Going, Wearing, Hanging, UnEquipping
    <2> QED
      BY <1>1, <1>3, <1>4, <1>6, <2>3, QuietAhead
  <1> QED
    BY <1>7

\* The step UnEquipItemRemove of a handler.
LEMMA QuietUnEquipItemRemove ==
  ASSUME Base, NEW h \in Handlers, UnEquipItemRemove(h), UNCHANGED player
  PROVE  Quiet(h)
  <1>1. PICK c : c = call[h]
    OBVIOUS
  <1>2. Good(c) /\ c.at \in {"unequip.remove"} /\ StateOK
    BY <1>1, BaseOf DEF UnEquipItemRemove
  <1>3. ~Busy(c) /\ Values(c) /\ Slotted(c, c.at) /\ c.op # "Book" /\ c.at \notin Due \cup {"call", "rpc", "idle"}
    BY <1>2, GoodValues DEF Busy, Due
  <1>4. Calm
    BY <1>1, <1>2, CalmKept DEF UnEquipItemRemove, Base
  <1>5. PICK d : d = IF eqp[c.to] # NoItem THEN [Calling(c, TakeOff(c.to), "unequip.set") EXCEPT !.moved = eqp[c.to]]
                     ELSE [c EXCEPT !.at = "unequip.done", !.ok = FALSE]
    OBVIOUS
  <1>6. Becomes(h, d)
    BY <1>1, <1>5 DEF UnEquipItemRemove, Becomes
  <1>7. CASE (eqp[c.to] # NoItem)
    <2>1. d = [Calling(c, TakeOff(c.to), "unequip.set") EXCEPT !.moved = eqp[c.to]]
      BY <1>5, <1>7
    <2>2. RequestOK(TakeOff(c.to)) /\ TakeOff(c.to).cmd = "UnEquipItem" /\ eqp[c.to] \in Items
      BY <1>2, <1>3, RequestTakeOff, GoodIdle DEF Slotted, Wearing, Hanging, UnEquipping, Values, StateOK, MapsOK
    <2>3. Ahead(d) /\ d.op = c.op
      BY <1>2, <1>3, <2>1, <2>2 DEF Ahead, Values, CallShape, Slotted, Calling, Simple, Homes, Going, Wearing, Hanging, UnEquipping
    <2> QED
      BY <1>1, <1>3, <1>4, <1>6, <2>3, QuietAhead
  <1>8. CASE ~(eqp[c.to] # NoItem)
    <2>1. d = [c EXCEPT !.at = "unequip.done", !.ok = FALSE]
      BY <1>5, <1>8
    <2>3. Ahead(d) /\ d.op = c.op
      BY <1>2, <1>3, <2>1 DEF Ahead, Values, CallShape, Slotted, Calling, Simple, Homes, Going, Wearing, Hanging, UnEquipping
    <2> QED
      BY <1>1, <1>3, <1>4, <1>6, <2>3, QuietAhead
  <1> QED
    BY <1>7, <1>8

\* The step UnEquipItemSet of a handler.
LEMMA QuietUnEquipItemSet ==
  ASSUME Base, NEW h \in Handlers, UnEquipItemSet(h), UNCHANGED player
  PROVE  Quiet(h)
  <1>1. PICK c : c = call[h]
    OBVIOUS
  <1>2. Good(c) /\ c.at \in {"unequip.set"} /\ StateOK
    BY <1>1, BaseOf DEF UnEquipItemSet
  <1>3. ~Busy(c) /\ Values(c) /\ Slotted(c, c.at) /\ c.op # "Book" /\ c.at \notin Due \cup {"call", "rpc", "idle"}
    BY <1>2, GoodValues DEF Busy, Due
  <1>4. Calm
    BY <1>1, <1>2, CalmKept DEF UnEquipItemSet, Base
  <1>5. PICK d : d = IF c.ok THEN Calling(c, SetTo(c.slot, c.moved), "unequip.end")
                     ELSE [c EXCEPT !.at = "unequip.done"]
    OBVIOUS
  <1>6. Becomes(h, d)
    BY <1>1, <1>5 DEF UnEquipItemSet, Becomes
  <1>7. CASE (c.ok)
    <2>1. d = Calling(c, SetTo(c.slot, c.moved), "unequip.end")
      BY <1>5, <1>7
    <2>2. RequestOK(SetTo(c.slot, c.moved)) /\ SetTo(c.slot, c.moved).cmd = "AddItem"
      BY <1>2, <1>3, RequestSet, GoodIdle DEF Slotted, Wearing, Hanging, UnEquipping, Values, StateOK, MapsOK
    <2>3. Ahead(d) /\ d.op = c.op
      BY <1>2, <1>3, <2>1, <2>2 DEF Ahead, Values, CallShape, Slotted, Calling, Simple, Homes, Going, Wearing, Hanging, UnEquipping
    <2> QED
      BY <1>1, <1>3, <1>4, <1>6, <2>3, QuietAhead
  <1>8. CASE ~(c.ok)
    <2>1. d = [c EXCEPT !.at = "unequip.done"]
      BY <1>5, <1>8
    <2>3. Ahead(d) /\ d.op = c.op
      BY <1>2, <1>3, <2>1 DEF Ahead, Values, CallShape, Slotted, Calling, Simple, Homes, Going, Wearing, Hanging, UnEquipping
    <2> QED
      BY <1>1, <1>3, <1>4, <1>6, <2>3, QuietAhead
  <1> QED
    BY <1>7, <1>8

\* The step UnEquipItemRollback of a handler.
LEMMA QuietUnEquipItemRollback ==
  ASSUME Base, NEW h \in Handlers, UnEquipItemRollback(h), UNCHANGED player
  PROVE  Quiet(h)
  <1>1. PICK c : c = call[h]
    OBVIOUS
  <1>2. Good(c) /\ c.at \in {"unequip.end"} /\ StateOK
    BY <1>1, BaseOf DEF UnEquipItemRollback
  <1>3. ~Busy(c) /\ Values(c) /\ Slotted(c, c.at) /\ c.op # "Book" /\ c.at \notin Due \cup {"call", "rpc", "idle"}
    BY <1>2, GoodValues DEF Busy, Due
  <1>4. Calm
    BY <1>1, <1>2, CalmKept DEF UnEquipItemRollback, Base
  <1>5. PICK d : d = IF c.ok THEN [c EXCEPT !.at = "unequip.done"]
                     ELSE Calling(c, SetTo(c.to, c.moved), "unequip.failed")
    OBVIOUS
  <1>6. Becomes(h, d)
    BY <1>1, <1>5 DEF UnEquipItemRollback, Becomes
  <1>7. CASE (c.ok)
    <2>1. d = [c EXCEPT !.at = "unequip.done"]
      BY <1>5, <1>7
    <2>3. Ahead(d) /\ d.op = c.op
      BY <1>2, <1>3, <2>1 DEF Ahead, Values, CallShape, Slotted, Calling, Simple, Homes, Going, Wearing, Hanging, UnEquipping
    <2> QED
      BY <1>1, <1>3, <1>4, <1>6, <2>3, QuietAhead
  <1>8. CASE ~(c.ok)
    <2>1. d = Calling(c, SetTo(c.to, c.moved), "unequip.failed")
      BY <1>5, <1>8
    <2>4. c.to \in Slots
      BY <1>2, <1>3, SlotsAssumption, AccessoryAssumption DEF Slotted, Wearing, Hanging, UnEquipping
    <2>2. RequestOK(SetTo(c.to, c.moved)) /\ SetTo(c.to, c.moved).cmd = "AddItem"
      BY <1>2, <1>3, <2>4, RequestSet, GoodIdle DEF Slotted, Wearing, Hanging, UnEquipping, Values, StateOK, MapsOK
    <2>3. Ahead(d) /\ d.op = c.op
      BY <1>2, <1>3, <2>1, <2>2 DEF Ahead, Values, CallShape, Slotted, Calling, Simple, Homes, Going, Wearing, Hanging, UnEquipping
    <2> QED
      BY <1>1, <1>3, <1>4, <1>6, <2>3, QuietAhead
  <1> QED
    BY <1>7, <1>8

\* The step SwapEquipItemUnEquip of a handler.
LEMMA QuietSwapEquipItemUnEquip ==
  ASSUME Base, NEW h \in Handlers, SwapEquipItemUnEquip(h), UNCHANGED player
  PROVE  Quiet(h)
  <1>1. PICK c : c = call[h]
    OBVIOUS
  <1>2. Good(c) /\ c.at \in {"swap.unequip"} /\ StateOK
    BY <1>1, BaseOf DEF SwapEquipItemUnEquip
  <1>3. ~Busy(c) /\ Values(c) /\ Slotted(c, c.at) /\ c.op # "Book" /\ c.at \notin Due \cup {"call", "rpc", "idle"}
    BY <1>2, GoodValues DEF Busy, Due
  <1>4. Calm
    BY <1>1, <1>2, CalmKept DEF SwapEquipItemUnEquip, Base
  <1>5. PICK d : d = IF c.ok THEN [c EXCEPT !.at = "unequip.remove"]
                     ELSE [c EXCEPT !.at = "end"]
    OBVIOUS
  <1>6. Becomes(h, d)
    BY <1>1, <1>5 DEF SwapEquipItemUnEquip, Becomes
  <1>7. CASE (c.ok)
    <2>1. d = [c EXCEPT !.at = "unequip.remove"]
      BY <1>5, <1>7
    <2>3. Ahead(d) /\ d.op = c.op
      BY <1>2, <1>3, <2>1 DEF Ahead, Values, CallShape, Slotted, Calling, Simple, Homes, Going, Wearing, Hanging, UnEquipping
    <2> QED
      BY <1>1, <1>3, <1>4, <1>6, <2>3, QuietAhead
  <1>8. CASE ~(c.ok)
    <2>1. d = [c EXCEPT !.at = "end"]
      BY <1>5, <1>8
    <2>3. Ahead(d) /\ d.op = c.op
      BY <1>2, <1>3, <2>1 DEF Ahead, Values, CallShape, Slotted, Calling, Simple, Homes, Going, Wearing, Hanging, UnEquipping
    <2> QED
      BY <1>1, <1>3, <1>4, <1>6, <2>3, QuietAhead
  <1> QED
    BY <1>7, <1>8

\* The step SwapEquipItemSet of a handler.
LEMMA QuietSwapEquipItemSet ==
  ASSUME Base, NEW h \in Handlers, SwapEquipItemSet(h), UNCHANGED player
  PROVE  Quiet(h)
  <1>1. PICK c : c = call[h]
    OBVIOUS
  <1>2. Good(c) /\ c.at \in {"swap.set"} /\ StateOK
    BY <1>1, BaseOf DEF SwapEquipItemSet
  <1>3. ~Busy(c) /\ Values(c) /\ Slotted(c, c.at) /\ c.op # "Book" /\ c.at \notin Due \cup {"call", "rpc", "idle"}
    BY <1>2, GoodValues DEF Busy, Due
  <1>4. Calm
    BY <1>1, <1>2, CalmKept DEF SwapEquipItemSet, Base
  <1>5. PICK d : d = IF c.ok THEN Calling(c, EquipTo(c.to, c.item), "end")
                     ELSE [c EXCEPT !.at = "end"]
    OBVIOUS
  <1>6. Becomes(h, d)
    BY <1>1, <1>5 DEF SwapEquipItemSet, Becomes
  <1>7. CASE (c.ok)
    <2>1. d = Calling(c, EquipTo(c.to, c.item), "end")
      BY <1>5, <1>7
    <2>2. RequestOK(EquipTo(c.to, c.item)) /\ EquipTo(c.to, c.item).cmd = "EquipItem"
      BY <1>2, <1>3, RequestEquip, GoodIdle DEF Slotted, Wearing, Hanging, UnEquipping, Values, StateOK, MapsOK
    <2>3. Ahead(d) /\ d.op = c.op
      BY <1>2, <1>3, <2>1, <2>2 DEF Ahead, Values, CallShape, Slotted, Calling, Simple, Homes, Going, Wearing, Hanging, UnEquipping
    <2> QED
      BY <1>1, <1>3, <1>4, <1>6, <2>3, QuietAhead
  <1>8. CASE ~(c.ok)
    <2>1. d = [c EXCEPT !.at = "end"]
      BY <1>5, <1>8
    <2>3. Ahead(d) /\ d.op = c.op
      BY <1>2, <1>3, <2>1 DEF Ahead, Values, CallShape, Slotted, Calling, Simple, Homes, Going, Wearing, Hanging, UnEquipping
    <2> QED
      BY <1>1, <1>3, <1>4, <1>6, <2>3, QuietAhead
  <1> QED
    BY <1>7, <1>8

\* The step DropItemCount of a handler.
LEMMA QuietDropItemCount ==
  ASSUME Base, NEW h \in Handlers, DropItemCount(h), UNCHANGED player
  PROVE  Quiet(h)
  <1>1. PICK c : c = call[h]
    OBVIOUS
  <1>2. Good(c) /\ c.at \in {"drop.count"} /\ StateOK
    BY <1>1, BaseOf DEF DropItemCount
  <1>3. ~Busy(c) /\ Values(c) /\ Slotted(c, c.at) /\ c.op # "Book" /\ c.at \notin Due \cup {"call", "rpc", "idle"}
    BY <1>2, GoodValues DEF Busy, Due
  <1>4. Calm
    BY <1>1, <1>2, CalmKept DEF DropItemCount, Base
  <1>5. PICK d : d = IF c.ok THEN [c EXCEPT !.at = "drop.add", !.n = Cardinality(DOMAIN ground) + 1]
                     ELSE Idle
    OBVIOUS
  <1>6. Becomes(h, d)
    BY <1>1, <1>5 DEF DropItemCount, Becomes
  <1>7. CASE (c.ok)
    <2>1. d = [c EXCEPT !.at = "drop.add", !.n = Cardinality(DOMAIN ground) + 1]
      BY <1>5, <1>7
    <2>3. Ahead(d) /\ d.op = c.op
      BY <1>2, <1>3, <2>1 DEF Ahead, Values, CallShape, Slotted, Calling, Simple, Homes, Going, Wearing, Hanging, UnEquipping
    <2> QED
      BY <1>1, <1>3, <1>4, <1>6, <2>3, QuietAhead
  <1>8. CASE ~(c.ok)
    BY <1>1, <1>4, <1>3, <1>5, <1>6, <1>8, QuietAhead DEF Ahead
  <1> QED
    BY <1>7, <1>8

\* The slots of the accessories.
LEMMA AccessorySlots ==
  /\ Len(Accessories) \in Nat /\ Len(Accessories) > 1
  /\ \A n \in 1 .. Len(Accessories) : Accessories[n] \in EqSlots
  /\ FirstAccessory \in EqSlots /\ LastAccessory \in EqSlots
  <1>1. Accessories \in Seq(EqSlots) /\ Len(Accessories) > 1
    BY AccessoryAssumption
  <1>2. Len(Accessories) \in Nat /\ \A n \in 1 .. Len(Accessories) : Accessories[n] \in EqSlots
    BY <1>1
  <1>3. 1 \in 1 .. Len(Accessories) /\ Len(Accessories) \in 1 .. Len(Accessories)
    BY <1>1, <1>2
  <1> QED
    BY <1>1, <1>2, <1>3 DEF FirstAccessory, LastAccessory

\* The move of an accessory.
LEMMA RequestShift ==
  ASSUME NEW s \in EqSlots, NEW t \in EqSlots, NEW m, m = [Command("MoveEquipmentItem", s) EXCEPT !.to = t]
  PROVE  RequestOK(m) /\ m.cmd = "MoveEquipmentItem"
  BY GoodIdle DEF RequestOK, RequestShape, Command, NoRequest, InvCommands, EqpCommands, BareCommands

\* The step EquipAccessory of a handler.
LEMMA QuietEquipAccessory ==
  ASSUME Base, NEW h \in Handlers, EquipAccessory(h), UNCHANGED player
  PROVE  Quiet(h)
  <1>1. PICK c : c = call[h]
    OBVIOUS
  <1>2. Good(c) /\ c.at = "acc.first" /\ StateOK
    BY <1>1, BaseOf DEF EquipAccessory
  <1>3. ~Busy(c) /\ Values(c) /\ c.slot \in Slots /\ c.op # "Book" /\ c.at \notin Due \cup {"call", "rpc", "idle"}
    BY <1>2, GoodValues DEF Busy, Due, Slotted, Hanging
  <1>4. Calm
    BY CalmKept DEF EquipAccessory
  <1>5. PICK d : d = IF eqp[FirstAccessory].kind = NoKind
                     THEN [c EXCEPT !.at = "equip", !.to = FirstAccessory]
                     ELSE [Calling(c, RemoveFrom(c.slot), "acc.last") EXCEPT !.item = inv[c.slot]]
    OBVIOUS
  <1>6. Becomes(h, d)
    BY <1>1, <1>5 DEF EquipAccessory, Becomes
  <1>7. RequestOK(RemoveFrom(c.slot)) /\ RemoveFrom(c.slot).cmd = "RemoveItem" /\ inv[c.slot] \in Items
    BY <1>2, <1>3, RequestRemove DEF StateOK, MapsOK
  <1>8. Ahead(d) /\ d.op = c.op
    BY <1>3, <1>5, <1>7, AccessorySlots DEF Ahead, Values, CallShape, Slotted, Calling, Simple, Homes, Going, Wearing, Hanging, UnEquipping
  <1> QED
    BY <1>1, <1>3, <1>4, <1>6, <1>8, QuietAhead

\* The step EquipAccessoryLast of a handler.
LEMMA QuietEquipAccessoryLast ==
  ASSUME Base, NEW h \in Handlers, EquipAccessoryLast(h), UNCHANGED player
  PROVE  Quiet(h)
  <1>1. PICK c : c = call[h]
    OBVIOUS
  <1>2. Good(c) /\ c.at = "acc.last" /\ StateOK
    BY <1>1, BaseOf DEF EquipAccessoryLast
  <1>3. ~Busy(c) /\ Values(c) /\ c.slot \in Slots /\ c.op # "Book" /\ c.at \notin Due \cup {"call", "rpc", "idle"}
    BY <1>2, GoodValues DEF Busy, Due, Slotted, Hanging
  <1>4. Calm
    BY CalmKept DEF EquipAccessoryLast
  <1>5. PICK d : d = IF ~c.ok THEN [c EXCEPT !.at = "end"]
                     ELSE IF eqp[LastAccessory].kind # NoKind
                     THEN [c EXCEPT !.at = "unequip", !.to = LastAccessory, !.back = "acc.taken"]
                     ELSE [c EXCEPT !.at = "acc.shift", !.n = Len(Accessories) - 1]
    OBVIOUS
  <1>6. Becomes(h, d)
    BY <1>1, <1>5 DEF EquipAccessoryLast, Becomes
  <1>7. Len(Accessories) - 1 \in 0 .. (Len(Accessories) - 1)
    BY AccessorySlots
  <1>8. Ahead(d) /\ d.op = c.op
    BY <1>3, <1>5, <1>7, AccessorySlots DEF Ahead, Values, CallShape, Slotted, Going, Wearing, Hanging, UnEquipping
  <1> QED
    BY <1>1, <1>3, <1>4, <1>6, <1>8, QuietAhead

\* The step EquipAccessoryTaken of a handler.
LEMMA QuietEquipAccessoryTaken ==
  ASSUME Base, NEW h \in Handlers, EquipAccessoryTaken(h), UNCHANGED player
  PROVE  Quiet(h)
  <1>1. PICK c : c = call[h]
    OBVIOUS
  <1>2. Good(c) /\ c.at = "acc.taken" /\ StateOK
    BY <1>1, BaseOf DEF EquipAccessoryTaken
  <1>3. ~Busy(c) /\ Values(c) /\ c.slot \in Slots /\ c.op # "Book" /\ c.at \notin Due \cup {"call", "rpc", "idle"}
    BY <1>2, GoodValues DEF Busy, Due, Slotted, Hanging
  <1>4. Calm
    BY CalmKept DEF EquipAccessoryTaken
  <1>5. PICK d : d = IF c.ok THEN [c EXCEPT !.at = "acc.shift", !.n = Len(Accessories) - 1]
                     ELSE Calling(c, SetTo(c.slot, c.item), "end")
    OBVIOUS
  <1>6. Becomes(h, d)
    BY <1>1, <1>5 DEF EquipAccessoryTaken, Becomes
  <1>7. Len(Accessories) - 1 \in 0 .. (Len(Accessories) - 1)
    BY AccessorySlots
  <1>8. RequestOK(SetTo(c.slot, c.item)) /\ SetTo(c.slot, c.item).cmd = "AddItem"
    BY <1>3, RequestSet DEF Values
  <1>9. Ahead(d) /\ d.op = c.op
    BY <1>3, <1>5, <1>7, <1>8 DEF Ahead, Values, CallShape, Slotted, Calling, Simple, Homes, Going, Wearing, Hanging, UnEquipping
  <1> QED
    BY <1>1, <1>3, <1>4, <1>6, <1>9, QuietAhead

\* The step EquipAccessoryShift of a handler.
LEMMA QuietEquipAccessoryShift ==
  ASSUME Base, NEW h \in Handlers, EquipAccessoryShift(h), UNCHANGED player
  PROVE  Quiet(h)
  <1>1. PICK c : c = call[h]
    OBVIOUS
  <1>2. Good(c) /\ c.at = "acc.shift" /\ StateOK
    BY <1>1, BaseOf DEF EquipAccessoryShift
  <1>3. /\ ~Busy(c) /\ Values(c) /\ c.slot \in Slots /\ c.op # "Book" /\ c.at \notin Due \cup {"call", "rpc", "idle"}
        /\ c.n \in 0 .. (Len(Accessories) - 1)
    BY <1>2, GoodValues DEF Busy, Due, Slotted, Hanging
  <1>4. Calm
    BY CalmKept DEF EquipAccessoryShift
  <1>5. CASE c.n > 0
    <2>1. c.n \in 1 .. Len(Accessories) /\ c.n + 1 \in 1 .. Len(Accessories) /\ c.n - 1 \in 0 .. (Len(Accessories) - 1)
      BY <1>3, <1>5, AccessorySlots
    <2>2. PICK m : m = [Command("MoveEquipmentItem", Accessories[c.n]) EXCEPT !.to = Accessories[c.n + 1]]
      OBVIOUS
    <2>3. Accessories[c.n] \in EqSlots /\ Accessories[c.n + 1] \in EqSlots
      BY <2>1, AccessorySlots
    <2>4. RequestOK(m) /\ m.cmd = "MoveEquipmentItem"
      BY <2>2, <2>3, RequestShift
    <2>5. PICK d : d = [Calling(c, m, "acc.shift") EXCEPT !.n = c.n - 1]
      OBVIOUS
    <2>6. Becomes(h, d)
      <3>1. [Calling(c, m, "acc.shift") EXCEPT !.n = @ - 1] = d
        BY <1>3, <2>5 DEF Values, CallShape, Calling
      <3> QED
        BY <1>1, <1>5, <2>2, <3>1 DEF EquipAccessoryShift, Becomes
    <2>7. Ahead(d) /\ d.op = c.op
      BY <1>3, <2>1, <2>4, <2>5 DEF Ahead, Values, CallShape, Slotted, Calling, Simple, Homes, Wearing, Hanging, UnEquipping
    <2> QED
      BY <1>1, <1>3, <1>4, <2>6, <2>7, QuietAhead
  <1>6. CASE ~(c.n > 0)
    <2>1. PICK d : d = Calling(c, EquipTo(FirstAccessory, c.item), "end")
      OBVIOUS
    <2>2. RequestOK(EquipTo(FirstAccessory, c.item)) /\ EquipTo(FirstAccessory, c.item).cmd = "EquipItem"
      BY <1>3, AccessorySlots, RequestEquip DEF Values
    <2>3. Becomes(h, d)
      BY <1>1, <1>6, <2>1 DEF EquipAccessoryShift, Becomes
    <2>4. Ahead(d) /\ d.op = c.op
      BY <1>3, <2>1, <2>2 DEF Ahead, Values, CallShape, Slotted, Calling, Simple, Homes, Wearing, Hanging, UnEquipping
    <2> QED
      BY <1>1, <1>3, <1>4, <2>3, <2>4, QuietAhead
  <1> QED
    BY <1>5, <1>6

\* The step UnEquipItemReturn of a handler.
LEMMA QuietUnEquipItemReturn ==
  ASSUME Base, NEW h \in Handlers, UnEquipItemReturn(h), UNCHANGED player
  PROVE  Quiet(h)
  <1>1. PICK c : c = call[h]
    OBVIOUS
  <1>2. Good(c) /\ c.at \in {"unequip.done", "unequip.failed"} /\ StateOK
    BY <1>1, BaseOf DEF UnEquipItemReturn
  <1>3. /\ ~Busy(c) /\ Values(c) /\ c.slot \in Slots /\ c.to \in EqSlots /\ c.op # "Book"
        /\ c.at \notin Due \cup {"call", "rpc", "idle"} /\ c.back \in {"idle", "swap.set", "acc.taken"}
    BY <1>2, GoodValues DEF Busy, Due, Slotted, Wearing, UnEquipping
  <1>4. Calm
    <2>1. CASE lock' = lock
      BY <2>1, CalmKept DEF UnEquipItemReturn
    <2>2. CASE lock' = [lock EXCEPT !["out"] = Free]
      BY <2>2, CalmLocked DEF UnEquipItemReturn
    <2> QED
      BY <2>1, <2>2 DEF UnEquipItemReturn
  <1>5. PICK d : d = IF c.back = "idle" THEN Idle
                     ELSE [c EXCEPT !.at = c.back, !.ok = c.ok /\ c.at = "unequip.done"]
    OBVIOUS
  <1>6. Becomes(h, d)
    BY <1>1, <1>5 DEF UnEquipItemReturn, Becomes
  <1>7. CASE c.back = "idle"
    BY <1>1, <1>3, <1>4, <1>5, <1>6, <1>7, QuietAhead DEF Ahead
  <1>8. CASE c.back # "idle"
    <2>1. PICK b \in BOOLEAN : b = (c.ok /\ c.at = "unequip.done")
      OBVIOUS
    <2>2. d = [c EXCEPT !.at = c.back, !.ok = b]
      BY <1>5, <1>8, <2>1
    <2>3. Ahead(d) /\ d.op = c.op
      BY <1>3, <1>8, <2>2 DEF Ahead, Values, CallShape, Slotted, Going, Wearing, Hanging, UnEquipping
    <2> QED
      BY <1>1, <1>3, <1>4, <1>6, <2>3, QuietAhead
  <1> QED
    BY <1>7, <1>8

\* The step Finish of a handler.
LEMMA QuietFinish ==
  ASSUME Base, NEW h \in Handlers, Finish(h), UNCHANGED player
  PROVE  Quiet(h)
  <1>1. call[h].at = "end" /\ StateOK /\ call[h].at \notin Due \cup {"call", "rpc", "idle"} /\ Becomes(h, Idle)
    BY BaseOf DEF Finish, Due
  <1>2. lock["inv"] # h /\ lock["eqp"] # h
    BY <1>1, BaseOf DEF LockOK, Holds
  <1>3. Calm
    BY <1>1, <1>2 DEF Finish, Calm, StateOK, MapsOK, LockType, maps, master, rest
  <1>4. Ahead(Idle)
    BY DEF Ahead
  <1> QED
    BY <1>1, <1>3, <1>4, QuietAhead

\* The step DropItemAdd of a handler.
LEMMA QuietDropItemAdd ==
  ASSUME Base, NEW h \in Handlers, DropItemAdd(h), UNCHANGED player
  PROVE  Quiet(h)
  <1>1. PICK c : c = call[h]
    OBVIOUS
  <1>2. c.at = "drop.add" /\ StateOK /\ c.at \notin Due \cup {"call", "rpc", "idle"} /\ Becomes(h, Idle) /\ c.item \in Items
    BY <1>1, BaseOf DEF DropItemAdd, Due, Good
  <1>3. \A id \in DOMAIN ground' : ground'[id] \in Items
    <2>1. ground' = With(ground, c.n, c.item)
      BY <1>1 DEF DropItemAdd
    <2>2. \A id \in DOMAIN ground : ground[id] \in Items
      BY <1>2 DEF StateOK, MapsOK
    <2> QED
      BY <1>2, <2>1, <2>2 DEF With
  <1>4. Calm
    BY <1>2, <1>3 DEF DropItemAdd, Calm, StateOK, MapsOK, LockType, maps, master
  <1>5. Ahead(Idle)
    BY DEF Ahead
  <1> QED
    BY <1>1, <1>2, <1>4, <1>5, QuietAhead

\* A looter.
LEMMA GoodLooting ==
  ASSUME NEW d, Values(d), d.at \in Looting, d.slot \in Slots, d.ok => d.n \in Nat, d.op = "Loot",
         d.at = "loot.stack" => d.ok
  PROVE  Good(d) /\ d.at \notin Due \cup {"rpc", "call", "idle"}
  <1>1. PlaceOK(d)
    BY DEF PlaceOK, Place, Busy, Points, Wearing, Hanging, Looting, UnEquipping
  <1>2. SentOK(d)
    BY DEF SentOK, Busy, Looting
  <1>3. d.at \in Points /\ d.at \notin Due \cup {"rpc", "call", "idle"}
    BY DEF Points, Looting, Due
  <1> QED
    BY <1>1, <1>2, <1>3 DEF Good, Values

\* What is known while an item is picked up.
LEMMA LooterOf ==
  ASSUME NEW c, Good(c), c.at \in Looting
  PROVE  /\ Values(c) /\ c.slot \in Slots /\ (c.ok => c.n \in Nat) /\ c.op = "Loot" /\ (c.at = "loot.stack" => c.ok)
         /\ c.at \notin Due \cup {"rpc", "call", "idle"}
  <1>1. Place(c) = c.at
    BY DEF Place, Busy, Looting
  <1> QED
    BY <1>1, GoodValues DEF Good, PlaceOK, Due, Looting

\* The step PickItemFind of a handler.
LEMMA QuietPickItemFind ==
  ASSUME Base, NEW h \in Handlers, PickItemFind(h), UNCHANGED player
  PROVE  Quiet(h)
  <1>1. PICK c : c = call[h]
    OBVIOUS
  <1>2. Good(c) /\ c.at = "loot.find" /\ StateOK /\ Calm /\ c.at \in Looting
    BY <1>1, BaseOf, CalmKept DEF PickItemFind, Looting
  <1>3. /\ Values(c) /\ c.slot \in Slots /\ (c.ok => c.n \in Nat) /\ c.op = "Loot"
        /\ c.at \notin Due \cup {"rpc", "call", "idle"}
    BY <1>2, LooterOf
  <1>4. CASE c.to \in DOMAIN ground
    <2>1. PICK d : d = [c EXCEPT !.at = "loot.take", !.item = ground[c.to]]
      OBVIOUS
    <2>2. Becomes(h, d)
      BY <1>1, <1>4, <2>1 DEF PickItemFind, Becomes
    <2>3. ground[c.to] \in Items
      BY <1>2, <1>4 DEF StateOK, MapsOK
    <2>4. Values(d) /\ d.at = "loot.take" /\ d.slot = c.slot /\ d.ok = c.ok /\ d.n = c.n /\ d.op = c.op
      BY <1>3, <2>1, <2>3 DEF Values, CallShape
    <2>5. Good(d) /\ d.at \notin Due \cup {"rpc", "call", "idle"}
      BY <1>3, <2>4, GoodLooting DEF Looting
    <2>6. Sees(c) => Sees(d)
      BY <1>2, <2>4 DEF Sees, Looting
    <2> QED
      BY <1>1, <1>2, <1>3, <2>2, <2>4, <2>5, <2>6 DEF Quiet
  <1>5. CASE c.to \notin DOMAIN ground
    <2>1. Becomes(h, Idle)
      BY <1>1, <1>5 DEF PickItemFind, Becomes
    <2> QED
      BY <1>1, <1>2, <1>3, <2>1, QuietAhead DEF Ahead
  <1> QED
    BY <1>4, <1>5

\* The step PickItemTake of a handler.
LEMMA QuietPickItemTake ==
  ASSUME Base, NEW h \in Handlers, PickItemTake(h), UNCHANGED player
  PROVE  Quiet(h)
  <1>1. PICK c : c = call[h]
    OBVIOUS
  <1>2. Good(c) /\ c.at = "loot.take" /\ StateOK /\ c.at \in Looting
    BY <1>1, BaseOf DEF PickItemTake, Looting
  <1>3. /\ Values(c) /\ c.slot \in Slots /\ (c.ok => c.n \in Nat) /\ c.op = "Loot"
        /\ c.at \notin Due \cup {"rpc", "call", "idle"}
    BY <1>2, LooterOf
  <1>4. Calm
    <2>1. \A id \in DOMAIN ground' : ground'[id] \in Items
      BY <1>2 DEF PickItemTake, Without, StateOK, MapsOK
    <2> QED
      BY <1>2, <2>1 DEF PickItemTake, Calm, StateOK, MapsOK, LockType, maps, master
  <1>5. CASE c.ok
    <2>1. PICK d : d = [c EXCEPT !.at = "loot.stack"]
      OBVIOUS
    <2>2. Becomes(h, d)
      BY <1>1, <1>5, <2>1 DEF PickItemTake, Becomes
    <2>4. Values(d) /\ d.at = "loot.stack" /\ d.slot = c.slot /\ d.ok = c.ok /\ d.n = c.n /\ d.op = c.op
      BY <1>3, <2>1 DEF Values, CallShape
    <2>5. Good(d) /\ d.at \notin Due \cup {"rpc", "call", "idle"}
      BY <1>3, <1>5, <2>4, GoodLooting DEF Looting
    <2>6. Sees(c) => Sees(d)
      BY <1>2, <2>4 DEF Sees, Looting
    <2> QED
      BY <1>1, <1>3, <1>4, <2>2, <2>4, <2>5, <2>6 DEF Quiet
  <1>6. CASE ~c.ok
    <2>1. PICK d : d = Calling(c, SetTo(c.slot, c.item), "idle")
      OBVIOUS
    <2>2. Becomes(h, d)
      BY <1>1, <1>6, <2>1 DEF PickItemTake, Becomes
    <2>3. RequestOK(SetTo(c.slot, c.item)) /\ SetTo(c.slot, c.item).cmd = "AddItem"
      BY <1>3, RequestSet DEF Values
    <2>4. Ahead(d) /\ d.op = c.op
      BY <1>3, <2>1, <2>3 DEF Ahead, Values, CallShape, Slotted, Calling, Simple, Homes, Wearing, Hanging, UnEquipping
    <2> QED
      BY <1>1, <1>3, <1>4, <2>2, <2>4, QuietAhead
  <1> QED
    BY <1>5, <1>6

\* The step LootStack of a handler.
LEMMA QuietLootStack ==
  ASSUME Base, NEW h \in Handlers, LootStack(h), UNCHANGED player
  PROVE  Quiet(h)
  <1>1. PICK c : c = call[h]
    OBVIOUS
  <1>2. Good(c) /\ c.at = "loot.stack" /\ StateOK /\ c.at \in Looting /\ Calm
    BY <1>1, BaseOf, CalmKept DEF LootStack, Looting
  <1>3. /\ Values(c) /\ c.slot \in Slots /\ c.ok /\ c.n \in Nat /\ c.op = "Loot"
        /\ c.at \notin Due \cup {"rpc", "call", "idle"}
    BY <1>2, LooterOf
  <1>4. PICK i : i = [inv[c.slot] EXCEPT !.opt = c.n]
    OBVIOUS
  <1>5. i \in Items /\ inv[c.slot] \in Items /\ i.opt = c.n
    <2>1. inv[c.slot] \in Items
      BY <1>2, <1>3 DEF StateOK, MapsOK
    <2>2. i \in Items
      BY <1>3, <1>4, <2>1, ItemFields
    <2> QED
      BY <1>4, <2>1, <2>2 DEF Items
  <1>6. PICK m : m = [Command("StackItem", c.slot) EXCEPT !.item = i]
    OBVIOUS
  <1>7. RequestOK(m) /\ m.cmd = "StackItem" /\ m.slot = c.slot /\ m.item = i
    BY <1>3, <1>5, <1>6, GoodIdle DEF RequestOK, RequestShape, Command, NoRequest, InvCommands, EqpCommands, BareCommands
  <1>8. PICK d : d = Calling(c, m, "idle")
    OBVIOUS
  <1>9. Becomes(h, d)
    BY <1>1, <1>4, <1>6, <1>8 DEF LootStack, Becomes
  <1>10. Values(d) /\ d.at = "call" /\ d.ret = "idle" /\ d.m = m /\ d.op = "Loot"
    BY <1>3, <1>7, <1>8 DEF Values, CallShape, Calling
  <1>11. Good(d)
    <2>1. PlaceOK(d)
      BY <1>10 DEF PlaceOK, Place, Busy, Points, Wearing, Hanging, Looting, UnEquipping
    <2>2. SentOK(d)
      BY <1>7, <1>10 DEF SentOK, InvCommands
    <2> QED
      BY <1>10, <2>1, <2>2 DEF Good, Values
  <1>12. Sees(c) => Sees(d)
    BY <1>2, <1>3, <1>4, <1>5, <1>7, <1>10 DEF Sees, Looting
  <1> QED
    BY <1>1, <1>2, <1>3, <1>9, <1>10, <1>11, <1>12 DEF Quiet, Due

\* The steps that change what the game server keeps without holding the mutex of a map.
LEMMA BaseLocal ==
  ASSUME Base, NEW h \in Handlers, NEW d, Becomes(h, d), Good(d), ~Busy(d),
         Busy(call[h]) => call[h].m.cmd \in BareCommands,
         UNCHANGED <<db, eqp, lock, player, ground>>,
         inv' \in [Slots -> Items], wh' \in [WhSlots -> Items], cash' \in [CashIds -> Items],
         skills' \in [SkillSlots -> Bases]
  PROVE  Base'
  <1>1. StateOK'
    BY BaseOf DEF StateOK, MapsOK
  <1>2. /\ ~Holds(call[h], InvCommands) /\ ~Holds(call[h], EqpCommands)
        /\ ~Holds(d, InvCommands) /\ ~Holds(d, EqpCommands)
    BY Kinship DEF Holds, Busy
  <1> QED
    BY <1>1, <1>2, BaseKeep

\* SetLocal and RemoveLocal keep the types.
LEMMA PutLocalTypes ==
  ASSUME Base, NEW t \in Tables, NEW s \in Extent(t), NEW i \in Items, PutLocal(t, s, i)
  PROVE  inv' \in [Slots -> Items] /\ wh' \in [WhSlots -> Items]
  <1>1. inv \in [Slots -> Items] /\ wh \in [WhSlots -> Items]
    BY DEF Base, StateOK, MapsOK
  <1> QED
    BY <1>1 DEF PutLocal, Extent, Tables

\* A handler that has changed one map and has yet to change another.
LEMMA GoodHalfway ==
  ASSUME NEW c, Good(c), c.at = "reply", NEW d, NEW p \in {"storage.set", "cash.remove"},
         d = [c EXCEPT !.at = p],
         p = "storage.set" => c.m.cmd = "StorageMove", p = "cash.remove" => c.m.cmd = "UseCashItem"
  PROVE  Good(d) /\ ~Busy(d) /\ d.at = p /\ d.m = c.m /\ d.op = c.op /\ d.moved = c.moved
  <1>1. /\ CallShape(d) /\ d.at = p /\ d.m = c.m /\ d.op = c.op /\ d.ok = c.ok /\ d.res = c.res
        /\ d.item = c.item /\ d.moved = c.moved /\ d.list = c.list
    BY DEF Good, CallShape
  <1>2. /\ c.m.cmd = "StorageMove" => c.op = "Storage"
        /\ c.m.cmd = "UseCashItem" => c.op = "UseCash"
    BY DEF Good, SentOK, Busy
  <1>3. PlaceOK(d)
    BY <1>1, <1>2 DEF PlaceOK, Place, Busy, Points, Wearing, Hanging, Looting, UnEquipping
  <1>4. SentOK(d) /\ ~Busy(d)
    BY <1>1 DEF SentOK, Busy
  <1>5. d.at \in Points /\ d.at # "idle"
    BY <1>1 DEF Points
  <1> QED
    BY <1>1, <1>3, <1>4, <1>5 DEF Good

\* The step MoveStorageRemoveLocal keeps the base.
LEMMA BaseMoveStorageRemoveLocal ==
  ASSUME Base, NEW h \in Handlers, MoveStorageRemoveLocal(h), UNCHANGED player
  PROVE  Base'
  <1>1. PICK c : c = call[h]
    OBVIOUS
  <1>2. /\ Good(c) /\ c.at = "reply" /\ c.m.cmd = "StorageMove" /\ StateOK
        /\ c.m.table \in Tables /\ c.m.slot \in Extent(c.m.table) /\ c.m.cmd \in BareCommands
    BY <1>1, BaseOf DEF MoveStorageRemoveLocal, Answered, Good, RequestOK, BareCommands
  <1>3. /\ UNCHANGED <<db, eqp, lock, player, ground, cash, skills>>
        /\ inv \in [Slots -> Items] /\ wh \in [WhSlots -> Items] /\ cash \in [CashIds -> Items]
        /\ skills \in [SkillSlots -> Bases]
    BY <1>2 DEF MoveStorageRemoveLocal, master, StateOK, MapsOK
  <1>4. CASE c.res = "ok" /\ ~(c.m.table = c.m.target /\ c.m.slot = c.m.to)
    <2>1. PICK d : d = [c EXCEPT !.at = "storage.set"]
      OBVIOUS
    <2>2. PutLocal(c.m.table, c.m.slot, NoItem) /\ Becomes(h, d)
      BY <1>1, <1>4, <2>1 DEF MoveStorageRemoveLocal, Acked
    <2>3. Good(d) /\ ~Busy(d)
      BY <1>2, <2>1, GoodHalfway
    <2>4. inv' \in [Slots -> Items] /\ wh' \in [WhSlots -> Items]
      BY <1>2, <2>2, PutLocalTypes, GoodIdle
    <2> QED
      BY <1>1, <1>2, <1>3, <2>2, <2>3, <2>4, BaseLocal
  <1>5. CASE ~(c.res = "ok" /\ ~(c.m.table = c.m.target /\ c.m.slot = c.m.to))
    <2>1. inv' = inv /\ wh' = wh /\ Becomes(h, Idle)
      BY <1>1, <1>5 DEF MoveStorageRemoveLocal, Acked
    <2> QED
      BY <1>1, <1>2, <1>3, <2>1, BaseLocal, GoodIdle DEF Busy
  <1> QED
    BY <1>4, <1>5

\* The step MoveStorageSetLocal keeps the base.
LEMMA BaseMoveStorageSetLocal ==
  ASSUME Base, NEW h \in Handlers, MoveStorageSetLocal(h), UNCHANGED player
  PROVE  Base'
  <1>1. PICK c : c = call[h]
    OBVIOUS
  <1>2. /\ Good(c) /\ c.at = "storage.set" /\ StateOK /\ ~Busy(c) /\ c.m.cmd = "StorageMove"
        /\ c.m.target \in Tables /\ c.m.to \in Extent(c.m.target) /\ c.moved \in Items
    BY <1>1, BaseOf DEF MoveStorageSetLocal, Good, RequestOK, Busy, PlaceOK, Place
  <1>3. /\ UNCHANGED <<db, eqp, lock, player, ground, cash, skills>>
        /\ cash \in [CashIds -> Items] /\ skills \in [SkillSlots -> Bases]
    BY <1>2 DEF MoveStorageSetLocal, master, StateOK, MapsOK
  <1>4. PutLocal(c.m.target, c.m.to, c.moved) /\ Becomes(h, Idle)
    BY <1>1 DEF MoveStorageSetLocal
  <1>5. inv' \in [Slots -> Items] /\ wh' \in [WhSlots -> Items]
    BY <1>2, <1>4, PutLocalTypes
  <1> QED
    BY <1>1, <1>2, <1>3, <1>4, <1>5, BaseLocal, GoodIdle DEF Busy

\* The step QueryCashItemDone keeps the base.
LEMMA BaseQueryCashItemDone ==
  ASSUME Base, NEW h \in Handlers, QueryCashItemDone(h), UNCHANGED player
  PROVE  Base'
  <1>1. PICK c : c = call[h]
    OBVIOUS
  <1>2. /\ Good(c) /\ StateOK /\ c.m.cmd \in BareCommands /\ c.list \in [CashIds -> Items]
    BY <1>1, BaseOf DEF QueryCashItemDone, Answered, Good, BareCommands
  <1>3. /\ UNCHANGED <<db, eqp, lock, player, ground, inv, wh, skills>> /\ Becomes(h, Idle)
        /\ inv \in [Slots -> Items] /\ wh \in [WhSlots -> Items] /\ skills \in [SkillSlots -> Bases]
    BY <1>2 DEF QueryCashItemDone, master, maps, StateOK, MapsOK
  <1>4. cash' \in [CashIds -> Items]
    BY <1>1, <1>2 DEF QueryCashItemDone, StateOK, MapsOK
  <1> QED
    BY <1>1, <1>2, <1>3, <1>4, BaseLocal, GoodIdle DEF Busy

\* The step UseCashSetLocal keeps the base.
LEMMA BaseUseCashSetLocal ==
  ASSUME Base, NEW h \in Handlers, UseCashSetLocal(h), UNCHANGED player
  PROVE  Base'
  <1>1. PICK c : c = call[h]
    OBVIOUS
  <1>2. /\ Good(c) /\ c.at = "reply" /\ StateOK /\ c.m.cmd = "UseCashItem" /\ c.m.cmd \in BareCommands
        /\ c.m.slot \in Slots /\ c.m.item \in Items
    BY <1>1, BaseOf DEF UseCashSetLocal, Answered, Good, BareCommands, RequestOK
  <1>3. /\ UNCHANGED <<db, eqp, lock, player, ground, cash, skills>>
        /\ inv \in [Slots -> Items] /\ wh \in [WhSlots -> Items] /\ cash \in [CashIds -> Items]
        /\ skills \in [SkillSlots -> Bases]
    BY <1>2 DEF UseCashSetLocal, master, StateOK, MapsOK
  <1>4. CASE c.res = "ok"
    <2>1. PICK d : d = [c EXCEPT !.at = "cash.remove"]
      OBVIOUS
    <2>2. PutLocal("inv", c.m.slot, c.m.item) /\ Becomes(h, d)
      BY <1>1, <1>4, <2>1 DEF UseCashSetLocal, Acked
    <2>3. Good(d) /\ ~Busy(d)
      BY <1>2, <2>1, GoodHalfway
    <2>4. inv' \in [Slots -> Items] /\ wh' \in [WhSlots -> Items]
      BY <1>2, <2>2, PutLocalTypes DEF Tables, Extent
    <2> QED
      BY <1>1, <1>2, <1>3, <2>2, <2>3, <2>4, BaseLocal
  <1>5. CASE c.res # "ok"
    <2>1. inv' = inv /\ wh' = wh /\ Becomes(h, Idle)
      BY <1>1, <1>5 DEF UseCashSetLocal, Acked
    <2> QED
      BY <1>1, <1>2, <1>3, <2>1, BaseLocal, GoodIdle DEF Busy
  <1> QED
    BY <1>4, <1>5

\* The step UseCashRemove keeps the base.
LEMMA BaseUseCashRemove ==
  ASSUME Base, NEW h \in Handlers, UseCashRemove(h), UNCHANGED player
  PROVE  Base'
  <1>1. PICK c : c = call[h]
    OBVIOUS
  <1>2. Good(c) /\ StateOK /\ ~Busy(c)
    BY <1>1, BaseOf DEF UseCashRemove, Busy
  <1>3. /\ UNCHANGED <<db, eqp, lock, player, ground, inv, wh, skills>> /\ Becomes(h, Idle)
        /\ inv \in [Slots -> Items] /\ wh \in [WhSlots -> Items] /\ skills \in [SkillSlots -> Bases]
    BY <1>2 DEF UseCashRemove, master, maps, StateOK, MapsOK
  <1>4. cash' \in [CashIds -> Items]
    BY <1>1, <1>2, GoodIdle DEF UseCashRemove, StateOK, MapsOK
  <1> QED
    BY <1>1, <1>2, <1>3, <1>4, BaseLocal, GoodIdle DEF Busy

\* The step ShopDone keeps the base.
LEMMA BaseShopDone ==
  ASSUME Base, NEW h \in Handlers, ShopDone(h), UNCHANGED player
  PROVE  Base'
  <1>1. PICK c : c = call[h]
    OBVIOUS
  <1>2. Good(c) /\ StateOK /\ ~Busy(c)
    BY <1>1, BaseOf DEF ShopDone, Busy
  <1>3. /\ UNCHANGED <<db, eqp, lock, player, ground, inv, wh, cash, skills>> /\ Becomes(h, Idle)
        /\ inv \in [Slots -> Items] /\ wh \in [WhSlots -> Items] /\ skills \in [SkillSlots -> Bases]
        /\ cash \in [CashIds -> Items]
    BY <1>2 DEF ShopDone, master, maps, StateOK, MapsOK
  <1> QED
    BY <1>1, <1>2, <1>3, BaseLocal, GoodIdle DEF Busy

\* The step SkillLearned keeps the base.
LEMMA BaseSkillLearned ==
  ASSUME Base, NEW h \in Handlers, SkillLearned(h), UNCHANGED player
  PROVE  Base'
  <1>1. PICK c : c = call[h]
    OBVIOUS
  <1>2. Good(c) /\ StateOK /\ ~Busy(c) /\ c.at = "learn"
    BY <1>1, BaseOf DEF SkillLearned, Busy
  <1>3. /\ UNCHANGED <<db, eqp, lock, player, ground, inv, wh, cash>> /\ Becomes(h, Idle)
        /\ inv \in [Slots -> Items] /\ wh \in [WhSlots -> Items] /\ cash \in [CashIds -> Items]
    BY <1>2 DEF SkillLearned, master, maps, StateOK, MapsOK
  <1>4. c.m.item.kind.base \in Bases
    BY <1>2, ItemFields DEF Good, RequestOK
  <1>5. skills' \in [SkillSlots -> Bases]
    BY <1>1, <1>2, <1>4 DEF SkillLearned, StateOK, MapsOK
  <1> QED
    BY <1>1, <1>2, <1>3, <1>5, BaseLocal, GoodIdle DEF Busy

\* The steps of the handlers are quiet or update a map without its mutex.
LEMMA StepCases ==
  ASSUME Base, NEW h \in Handlers, Step(h), UNCHANGED player
  PROVE  Quiet(h) \/ Locally(h)
  BY QuietEquipItemRemove, QuietEquipItemSet, QuietEquipItemRollback, QuietUnEquipItemLock,
     QuietUnEquipItemRemove, QuietUnEquipItemSet, QuietUnEquipItemRollback, QuietUnEquipItemReturn,
     QuietSwapEquipItemUnEquip, QuietSwapEquipItemSet, QuietEquipAccessory, QuietEquipAccessoryLast,
     QuietEquipAccessoryTaken, QuietEquipAccessoryShift, QuietDropItemCount, QuietDropItemAdd,
     QuietPickItemFind, QuietPickItemTake, QuietLootStack, QuietFinish
  DEF Step, Locally

\* The steps of the handlers keep the base.
LEMMA BaseSteps ==
  ASSUME Base, NEW h \in Handlers, Step(h), UNCHANGED player
  PROVE  Base'
  BY StepCases, BaseQuiet, BaseMoveStorageRemoveLocal, BaseMoveStorageSetLocal, BaseQueryCashItemDone,
     BaseUseCashSetLocal, BaseUseCashRemove, BaseShopDone, BaseSkillLearned
  DEF Locally

----------------------------------------------------------------------------
(* The packets. *)

\* The record of a handler that starts.
LEMMA StartedIs ==
  ASSUME NEW op, NEW c, c = Started(op)
  PROVE  /\ Values(c) /\ c.op = op /\ c.at = "idle" /\ c.ret = "idle" /\ c.back = "idle" /\ c.ok = FALSE
         /\ c.seen = {} /\ c.item = NoItem
  <1>1. Values(Idle)
    BY GoodIdle DEF Good, Values
  <1> QED
    BY <1>1 DEF Started, Idle, Values, CallShape

\* A packet that an idle goroutine takes up.
LEMMA QuietPacket ==
  ASSUME Base, NEW h \in Handlers, Calm, NEW op, Receives(h, op), NEW d, Becomes(h, d), Good(d), d.op = op,
         d.at \notin Due, Sees(d), d.at = "rpc" => d.m.cmd \in BareCommands
  PROVE  Quiet(h)
  <1>1. call[h].at = "idle" /\ Fits(h, op)
    BY DEF Receives, Fits
  <1> QED
    BY <1>1 DEF Quiet, Due

\* A packet whose handler starts with a record of Ahead.
LEMMA QuietStart ==
  ASSUME Base, NEW h \in Handlers, Calm, NEW op, Receives(h, op), NEW d, Becomes(h, d), Ahead(d), d.op = op
  PROVE  Quiet(h)
  BY GoodAhead, QuietPacket

\* A packet of one call.
LEMMA QuietOneCall ==
  ASSUME Base, NEW h \in Handlers, NEW op, op # "Book", NEW m, RequestOK(m), m.cmd \in Simple, OneCall(h, op, m),
         UNCHANGED player
  PROVE  Quiet(h)
  <1>1. PICK c, d : c = Started(op) /\ d = Calling(c, m, "idle")
    OBVIOUS
  <1>2. Receives(h, op) /\ Becomes(h, d) /\ Calm
    BY <1>1, CalmKept DEF OneCall
  <1>3. Values(c) /\ c.op = op
    BY <1>1, StartedIs
  <1>4. Ahead(d) /\ d.op = op
    BY <1>1, <1>3 DEF Ahead, Values, CallShape, Slotted, Calling, Homes, Wearing, Hanging, UnEquipping
  <1> QED
    BY <1>2, <1>4, QuietStart

\* The requests of Inventory.Move and Swap.
LEMMA RequestMove ==
  ASSUME NEW s \in Slots, NEW t \in Slots, NEW x \in {"MoveItem", "SwapItem"}, NEW m,
         m = [Command(x, s) EXCEPT !.to = t]
  PROVE  RequestOK(m) /\ m.cmd = x
  BY GoodIdle DEF RequestOK, RequestShape, Command, NoRequest, InvCommands, EqpCommands, BareCommands

\* The requests of Equipment.MoveItem and Swap.
LEMMA RequestEqMove ==
  ASSUME NEW s \in EqSlots, NEW t \in EqSlots, NEW x \in {"MoveEquipmentItem", "SwapEquipmentItem"}, NEW m,
         m = [Command(x, s) EXCEPT !.to = t]
  PROVE  RequestOK(m) /\ m.cmd = x
  BY GoodIdle DEF RequestOK, RequestShape, Command, NoRequest, InvCommands, EqpCommands, BareCommands

\* The packets that move or swap items in the inventory.
LEMMA QuietMoves ==
  ASSUME Base, NEW h \in Handlers, NEW old \in Slots, NEW new \in Slots, UNCHANGED player,
         ExchangeMoveInInventory(h, old, new) \/ ItemSwapInInventory(h, old, new)
  PROVE  Quiet(h)
  <1>1. CASE ExchangeMoveInInventory(h, old, new)
    <2>1. PICK m : m = [Command("MoveItem", old) EXCEPT !.to = new]
      OBVIOUS
    <2>2. RequestOK(m) /\ m.cmd \in Simple
      BY <2>1, RequestMove DEF Simple
    <2>3. OneCall(h, "Move", m)
      BY <1>1, <2>1 DEF ExchangeMoveInInventory
    <2> QED
      BY <2>2, <2>3, QuietOneCall
  <1>2. CASE ItemSwapInInventory(h, old, new)
    <2>1. PICK m : m = [Command("SwapItem", old) EXCEPT !.to = new]
      OBVIOUS
    <2>2. RequestOK(m) /\ m.cmd \in Simple
      BY <2>1, RequestMove DEF Simple
    <2>3. OneCall(h, "Swap", m)
      BY <1>2, <2>1 DEF ItemSwapInInventory
    <2> QED
      BY <2>2, <2>3, QuietOneCall
  <1> QED
    BY <1>1, <1>2

\* The packets that move or swap items in the equipment.
LEMMA QuietEqMoves ==
  ASSUME Base, NEW h \in Handlers, NEW old \in EqSlots, NEW new \in EqSlots, UNCHANGED player,
         ExchangeMoveInEquipment(h, old, new) \/ ItemSwapInEquipment(h, old, new)
  PROVE  Quiet(h)
  <1>1. CASE ExchangeMoveInEquipment(h, old, new)
    <2>1. PICK m : m = [Command("MoveEquipmentItem", old) EXCEPT !.to = new]
      OBVIOUS
    <2>2. RequestOK(m) /\ m.cmd \in Simple
      BY <2>1, RequestEqMove DEF Simple
    <2>3. OneCall(h, "EqMove", m)
      BY <1>1, <2>1 DEF ExchangeMoveInEquipment
    <2> QED
      BY <2>2, <2>3, QuietOneCall
  <1>2. CASE ItemSwapInEquipment(h, old, new)
    <2>1. PICK m : m = [Command("SwapEquipmentItem", old) EXCEPT !.to = new]
      OBVIOUS
    <2>2. RequestOK(m) /\ m.cmd \in Simple
      BY <2>1, RequestEqMove DEF Simple
    <2>3. OneCall(h, "EqSwap", m)
      BY <1>2, <2>1 DEF ItemSwapInEquipment
    <2> QED
      BY <2>2, <2>3, QuietOneCall
  <1> QED
    BY <1>1, <1>2

\* The step ExchangeEquip of a handler.
LEMMA QuietExchangeEquip ==
  ASSUME Base, NEW h \in Handlers, NEW slot \in Slots, NEW to \in EqSlots, UNCHANGED player,
         ExchangeEquip(h, slot, to)
  PROVE  Quiet(h)
  <1>1. PICK c, d : c = Started("Equip") /\ d = [c EXCEPT !.at = "equip", !.slot = slot, !.to = to]
    OBVIOUS
  <1>2. Receives(h, "Equip") /\ Becomes(h, d) /\ Calm
    BY <1>1, CalmKept DEF ExchangeEquip
  <1>3. Values(c) /\ c.op = "Equip"
    BY <1>1, StartedIs
  <1>4. Ahead(d) /\ d.op = "Equip"
    BY <1>1, <1>3 DEF Ahead, Values, CallShape, Slotted, Going, Wearing, Hanging, UnEquipping
  <1> QED
    BY <1>2, <1>4, QuietStart

\* The step ExchangeUnEquip of a handler.
LEMMA QuietExchangeUnEquip ==
  ASSUME Base, NEW h \in Handlers, NEW slot \in Slots, NEW to \in EqSlots, UNCHANGED player,
         ExchangeUnEquip(h, to, slot)
  PROVE  Quiet(h)
  <1>1. PICK other, used : /\ other = {s \in Hands \ {to} : eqp[s].kind # NoKind}
                           /\ used = IF eqp[to].kind = NoKind /\ to \in Hands /\ other # {}
                                     THEN CHOOSE s \in other : TRUE ELSE to
    OBVIOUS
  <1>2. used \in EqSlots
    <2>1. other # {} => (CHOOSE s \in other : TRUE) \in other
      OBVIOUS
    <2>2. other \subseteq EqSlots
      BY <1>1, HandsAssumption
    <2> QED
      BY <1>1, <2>1, <2>2
  <1>3. PICK c, d : /\ c = Started("UnEquip")
                    /\ d = [c EXCEPT !.at = "unequip", !.back = "idle", !.slot = slot, !.to = used]
    OBVIOUS
  <1>4. Receives(h, "UnEquip") /\ Becomes(h, d) /\ Calm
    BY <1>1, <1>3, CalmKept DEF ExchangeUnEquip
  <1>5. Values(c) /\ c.op = "UnEquip"
    BY <1>3, StartedIs
  <1>6. Ahead(d) /\ d.op = "UnEquip"
    BY <1>2, <1>3, <1>5 DEF Ahead, Values, CallShape, Slotted, Going, Wearing, Hanging, UnEquipping
  <1> QED
    BY <1>4, <1>6, QuietStart

\* The step SwapEquipItem of a handler.
LEMMA QuietSwapEquipItem ==
  ASSUME Base, NEW h \in Handlers, NEW slot \in Slots, NEW to \in EqSlots, UNCHANGED player,
         SwapEquipItem(h, slot, to)
  PROVE  Quiet(h)
  <1>1. PICK b, c, m, d : /\ b = Started("SwapEquip") /\ m = RemoveFrom(slot)
                          /\ c = [b EXCEPT !.slot = slot, !.to = to, !.item = inv[slot], !.back = "swap.set"]
                          /\ d = Calling(c, m, "swap.unequip")
    OBVIOUS
  <1>2. Receives(h, "SwapEquip") /\ Becomes(h, d) /\ Calm
    BY <1>1, CalmLocked DEF SwapEquipItem
  <1>3. Values(b) /\ b.op = "SwapEquip" /\ RequestOK(m) /\ m.cmd = "RemoveItem" /\ inv[slot] \in Items
    BY <1>1, StartedIs, RequestRemove DEF Base, StateOK, MapsOK
  <1>4. Values(c) /\ c.op = "SwapEquip" /\ c.slot = slot /\ c.to = to /\ c.back = "swap.set"
    BY <1>1, <1>3 DEF Values, CallShape
  <1>5. /\ Values(d) /\ d.op = "SwapEquip" /\ d.at = "call" /\ d.m = m /\ d.ret = "swap.unequip"
        /\ d.slot = slot /\ d.to = to /\ d.back = "swap.set"
    BY <1>1, <1>3, <1>4 DEF Values, CallShape, Calling
  <1>6. Slotted(d, "swap.unequip")
    BY <1>5 DEF Slotted, Hanging
  <1>7. Ahead(d)
    BY <1>3, <1>5, <1>6 DEF Ahead, Homes, Simple
  <1> QED
    BY <1>2, <1>5, <1>7, QuietStart

\* The step AccessoryEquip of a handler.
LEMMA QuietAccessoryEquip ==
  ASSUME Base, NEW h \in Handlers, NEW slot \in Slots, UNCHANGED player, AccessoryEquip(h, slot)
  PROVE  Quiet(h)
  <1>1. PICK c, d : c = Started("Accessory") /\ d = [c EXCEPT !.at = "acc.first", !.slot = slot]
    OBVIOUS
  <1>2. Receives(h, "Accessory") /\ Becomes(h, d) /\ Calm
    BY <1>1, CalmLocked DEF AccessoryEquip
  <1>3. Values(c) /\ c.op = "Accessory"
    BY <1>1, StartedIs
  <1>4. Ahead(d) /\ d.op = "Accessory"
    BY <1>1, <1>3 DEF Ahead, Values, CallShape, Slotted, Going, Wearing, Hanging, UnEquipping
  <1> QED
    BY <1>2, <1>4, QuietStart

\* The step StorageItemDrop of a handler.
LEMMA QuietStorageItemDrop ==
  ASSUME Base, NEW h \in Handlers, NEW slot \in Slots, UNCHANGED player, StorageItemDrop(h, slot)
  PROVE  Quiet(h)
  <1>1. PICK c, m, d : /\ c = Started("Drop") /\ m = RemoveFrom(slot)
                       /\ d = [Calling(c, m, "drop.count") EXCEPT !.item = inv[slot]]
    OBVIOUS
  <1>2. Receives(h, "Drop") /\ Becomes(h, d) /\ Calm
    BY <1>1, CalmKept DEF StorageItemDrop
  <1>3. Values(c) /\ c.op = "Drop" /\ RequestOK(m) /\ m.cmd = "RemoveItem" /\ inv[slot] \in Items
    BY <1>1, StartedIs, RequestRemove DEF Base, StateOK, MapsOK
  <1>4. Ahead(d) /\ d.op = "Drop"
    BY <1>1, <1>3 DEF Ahead, Values, CallShape, Slotted, Calling, Homes, Simple, Wearing, Hanging, UnEquipping
  <1> QED
    BY <1>2, <1>4, QuietStart

\* The step UseManaPotion of a handler.
LEMMA QuietUseManaPotion ==
  ASSUME Base, NEW h \in Handlers, NEW slot \in Slots, UNCHANGED player, UseManaPotion(h, slot)
  PROVE  Quiet(h)
  <1>1. PICK m : m = Command("ConsumeItem", slot)
    OBVIOUS
  <1>2. RequestOK(m) /\ m.cmd \in Simple
    BY <1>1, GoodIdle DEF RequestOK, RequestShape, Command, NoRequest, InvCommands, EqpCommands, BareCommands, Simple
  <1>3. OneCall(h, "Potion", m)
    BY <1>1 DEF UseManaPotion, OneCall
  <1> QED
    BY <1>2, <1>3, QuietOneCall

\* The smallest of some numbers.
LEMMA Smallest ==
  ASSUME NEW S \in SUBSET Nat, S # {}
  PROVE  (CHOOSE s \in S : \A t \in S : s <= t) \in S
  <1> DEFINE R == OpToRel(<, Nat)
  <1>1. PICK x \in S : \A y \in S : ~(<<y, x>> \in R)
    <2>1. IsWellFoundedOn(R, Nat)
      BY NatLessThanWellFounded
    <2> HIDE DEF R
    <2> QED
      BY <2>1, WFMin
  <1>2. \A y \in S : ~(y < x)
    BY <1>1 DEF OpToRel
  <1>3. \A y \in S : x <= y
    BY <1>2
  <1> QED
    BY <1>3

\* The step UseSkillBook of a handler.
LEMMA QuietUseSkillBook ==
  ASSUME Base, NEW h \in Handlers, NEW slot \in Slots, UNCHANGED player, UseSkillBook(h, slot)
  PROVE  Quiet(h)
  <1>1. PICK kind, free, to : /\ kind = inv[slot].kind /\ free = {s \in SkillSlots : skills[s] = NoSkill}
                              /\ to = CHOOSE s \in free : \A t \in free : s <= t
    OBVIOUS
  <1>2. PICK i, m : /\ i = [NoItem EXCEPT !.kind = kind]
                    /\ m = [Command("LearnSkill", slot) EXCEPT !.item = i, !.to = to]
    OBVIOUS
  <1>3. PICK c, d : c = Started("Book") /\ d = Calling(c, m, "learn")
    OBVIOUS
  <1>4. Receives(h, "Book") /\ Becomes(h, d) /\ Calm /\ kind.base \in Books /\ free # {}
    BY <1>1, <1>2, <1>3, CalmKept DEF UseSkillBook
  <1>5. to \in SkillSlots
    <2>1. free \in SUBSET Nat
      BY <1>1, SlotsAssumption
    <2>2. to \in free
      BY <1>1, <1>4, <2>1, Smallest
    <2> QED
      BY <1>1, <2>2
  <1>6. i \in Items /\ i.kind = kind
    <2>1. inv[slot] \in Items /\ NoItem \in Items
      BY GoodIdle DEF Base, StateOK, MapsOK
    <2>2. kind \in Kinds
      BY <1>1, <2>1, ItemFields
    <2> QED
      BY <1>2, <2>1, <2>2, ItemFields DEF Items
  <1>7. RequestOK(m) /\ m.cmd = "LearnSkill"
    BY <1>2, <1>4, <1>5, <1>6, GoodIdle
    DEF RequestOK, RequestShape, Command, NoRequest, InvCommands, EqpCommands, BareCommands
  <1>8. Values(c) /\ c.op = "Book"
    BY <1>3, StartedIs
  <1>9. Values(d) /\ d.op = "Book" /\ d.at = "call" /\ d.ret = "learn" /\ d.m = m
    BY <1>3, <1>7, <1>8 DEF Values, CallShape, Calling
  <1>10. Good(d)
    <2>1. PlaceOK(d)
      BY <1>7, <1>9 DEF PlaceOK, Place, Busy, Points, Wearing, Hanging, Looting, UnEquipping
    <2>2. SentOK(d)
      BY <1>7, <1>9 DEF SentOK, InvCommands
    <2> QED
      BY <1>9, <2>1, <2>2 DEF Good, Values
  <1>11. Sees(d) /\ d.at \notin Due /\ d.at # "rpc"
    BY <1>7, <1>9 DEF Sees, Due, Looting
  <1> QED
    BY <1>4, <1>9, <1>10, <1>11, QuietPacket

\* A handler that makes a call of its own.
LEMMA GoodPosting ==
  ASSUME NEW d, Values(d), d.at = "rpc", d.ret = "idle",
         \/ d.m.cmd = "StorageMove" /\ d.op = "Storage"
         \/ d.m.cmd = "UseCashItem" /\ d.op = "UseCash"
         \/ d.m.cmd = "LoadCashInventory" /\ d.op = "QueryCash"
  PROVE  Good(d) /\ d.at \notin Due /\ d.m.cmd \in BareCommands
  <1>1. PlaceOK(d)
    BY DEF PlaceOK, Place, Busy, Points, Wearing, Hanging, Looting, UnEquipping
  <1>2. SentOK(d)
    BY DEF SentOK, Plain
  <1> QED
    BY <1>1, <1>2 DEF Good, Values, Due, BareCommands

\* The step ExchangeMoveStorage of a handler.
LEMMA QuietExchangeMoveStorage ==
  ASSUME Base, NEW h \in Handlers, NEW table \in Tables, NEW slot, NEW target \in Tables, NEW to,
         UNCHANGED player, ExchangeMoveStorage(h, table, slot, target, to)
  PROVE  Quiet(h)
  <1>1. PICK m, c, d :
          /\ m = [Command("StorageMove", slot) EXCEPT !.to = to, !.table = table, !.target = target]
          /\ c = Started("Storage") /\ d = [Posting(c, m) EXCEPT !.moved = Storage(table)[slot]]
    OBVIOUS
  <1>2. Receives(h, "Storage") /\ Becomes(h, d) /\ Calm
    BY <1>1, CalmKept DEF ExchangeMoveStorage
  <1>3. inv \in [Slots -> Items] /\ wh \in [WhSlots -> Items]
    BY DEF Base, StateOK, MapsOK
  <1>4. /\ "wh" \in {table, target} /\ slot \in Extent(table) /\ to \in Extent(target)
        /\ Storage(table)[slot] \in Items
    BY <1>3 DEF ExchangeMoveStorage, Storage, Extent
  <1>5. RequestOK(m) /\ m.cmd = "StorageMove" /\ m.table = table /\ m.slot = slot
    BY <1>1, <1>4, GoodIdle DEF RequestOK, RequestShape, Command, NoRequest, InvCommands, EqpCommands, BareCommands
  <1>6. Values(c) /\ c.op = "Storage" /\ c.ret = "idle"
    BY <1>1, StartedIs
  <1>7. Values(d) /\ d.op = "Storage" /\ d.ret = "idle" /\ d.at = "rpc" /\ d.m = m /\ d.moved = Storage(table)[slot]
    BY <1>1, <1>4, <1>5, <1>6 DEF Values, CallShape, Posting
  <1>8. Good(d) /\ d.at \notin Due /\ d.m.cmd \in BareCommands
    BY <1>5, <1>7, GoodPosting
  <1>9. Sees(d)
    BY <1>5, <1>7 DEF Sees, Looting
  <1> QED
    BY <1>2, <1>7, <1>8, <1>9, QuietPacket

\* The step QueryCashItem of a handler.
LEMMA QuietQueryCashItem ==
  ASSUME Base, NEW h \in Handlers, UNCHANGED player, QueryCashItem(h)
  PROVE  Quiet(h)
  <1>1. PICK m, c, d : m = Command("LoadCashInventory", 0) /\ c = Started("QueryCash") /\ d = Posting(c, m)
    OBVIOUS
  <1>2. Receives(h, "QueryCash") /\ Becomes(h, d) /\ Calm
    BY <1>1, CalmKept DEF QueryCashItem
  <1>3. RequestOK(m) /\ m.cmd = "LoadCashInventory"
    BY <1>1, GoodIdle DEF RequestOK, RequestShape, Command, NoRequest, InvCommands, EqpCommands, BareCommands
  <1>4. Values(c) /\ c.op = "QueryCash" /\ c.ret = "idle"
    BY <1>1, StartedIs
  <1>5. Values(d) /\ d.op = "QueryCash" /\ d.ret = "idle" /\ d.at = "rpc" /\ d.m = m
    BY <1>1, <1>3, <1>4 DEF Values, CallShape, Posting
  <1>6. Good(d) /\ d.at \notin Due /\ d.m.cmd \in BareCommands
    BY <1>3, <1>5, GoodPosting
  <1>7. Sees(d)
    BY <1>3, <1>5 DEF Sees, Looting
  <1> QED
    BY <1>2, <1>5, <1>6, <1>7, QuietPacket

\* The step UseCash of a handler.
LEMMA QuietUseCash ==
  ASSUME Base, NEW h \in Handlers, NEW id \in CashIds, NEW slot \in Slots, UNCHANGED player, UseCash(h, id, slot)
  PROVE  Quiet(h)
  <1>1. PICK m, c, d : /\ m = [Command("UseCashItem", slot) EXCEPT !.to = id, !.item = cash[id]]
                       /\ c = Started("UseCash") /\ d = Posting(c, m)
    OBVIOUS
  <1>2. Receives(h, "UseCash") /\ Becomes(h, d) /\ Calm
    BY <1>1, CalmKept DEF UseCash
  <1>3. cash[id] \in Items
    BY DEF Base, StateOK, MapsOK
  <1>4. RequestOK(m) /\ m.cmd = "UseCashItem"
    BY <1>1, <1>3, GoodIdle DEF RequestOK, RequestShape, Command, NoRequest, InvCommands, EqpCommands, BareCommands
  <1>5. Values(c) /\ c.op = "UseCash" /\ c.ret = "idle"
    BY <1>1, StartedIs
  <1>6. Values(d) /\ d.op = "UseCash" /\ d.ret = "idle" /\ d.at = "rpc" /\ d.m = m
    BY <1>1, <1>4, <1>5 DEF Values, CallShape, Posting
  <1>7. Good(d) /\ d.at \notin Due /\ d.m.cmd \in BareCommands
    BY <1>4, <1>6, GoodPosting
  <1>8. Sees(d)
    BY <1>4, <1>6 DEF Sees, Looting
  <1> QED
    BY <1>2, <1>6, <1>7, <1>8, QuietPacket

\* The step ItemLooting of a handler.
LEMMA QuietItemLooting ==
  ASSUME Base, NEW h \in Handlers, NEW id \in DOMAIN ground, NEW slot \in Slots, UNCHANGED player,
         ItemLooting(h, id, slot)
  PROVE  Quiet(h)
  <1>1. PICK stacked \in BOOLEAN : stacked = (inv[slot].kind # NoKind /\ inv[slot].kind = ground[id].kind)
    OBVIOUS
  <1>2. PICK b, c, d : /\ b = Started("Loot")
                       /\ c = [b EXCEPT !.at = "loot.find", !.to = id, !.slot = slot, !.ok = stacked]
                       /\ d = IF stacked THEN [c EXCEPT !.n = inv[slot].opt + ground[id].opt] ELSE c
    OBVIOUS
  <1>3. Receives(h, "Loot") /\ Becomes(h, d) /\ Calm
    BY <1>1, <1>2, CalmKept DEF ItemLooting
  <1>4. inv[slot] \in Items /\ ground[id] \in Items
    BY DEF Base, StateOK, MapsOK
  <1>5. inv[slot].opt + ground[id].opt \in Nat
    BY <1>4, ItemFields
  <1>6. Values(b) /\ b.op = "Loot"
    BY <1>2, StartedIs
  <1>7. Values(c) /\ c.op = "Loot" /\ c.slot = slot /\ c.ok = stacked /\ c.at = "loot.find"
    BY <1>2, <1>6 DEF Values, CallShape
  <1>8. /\ Values(d) /\ d.op = "Loot" /\ d.slot = slot /\ d.ok = stacked /\ d.at = "loot.find"
        /\ d.ok => d.n \in Nat
    BY <1>2, <1>5, <1>7 DEF Values, CallShape
  <1>9. Good(d) /\ d.at \notin Due \cup {"rpc", "call", "idle"}
    BY <1>8, GoodLooting DEF Looting
  <1>10. Sees(d)
    <2>1. NoItem.kind = NoKind
      BY DEF NoItem
    <2>2. d.ok => inv[slot] # NoItem
      BY <1>1, <1>8, <2>1
    <2> QED
      BY <1>8, <2>2 DEF Sees
  <1> QED
    BY <1>3, <1>8, <1>9, <1>10, QuietPacket

\* A handler that sells or buys.
LEMMA GoodShopping ==
  ASSUME NEW d, Values(d), d.at = "call", d.ret = "shop", d.op \in {"Sell", "Buy"},
         d.m.cmd \in {"SellItems", "PurchaseItem"}, d.m.cmd = "SellItems" => d.seen \subseteq d.m.cores
  PROVE  Good(d) /\ d.at \notin Due /\ Sees(d)
  <1>1. PlaceOK(d)
    BY DEF PlaceOK, Place, Busy, Points, Wearing, Hanging, Looting, UnEquipping
  <1>2. SentOK(d)
    BY DEF SentOK, InvCommands
  <1> QED
    BY <1>1, <1>2 DEF Good, Values, Due, Sees, Looting

\* The step ItemSelling of a handler.
LEMMA QuietItemSelling ==
  ASSUME Base, NEW h \in Handlers, NEW slots \in SUBSET Slots, UNCHANGED player, ItemSelling(h, slots)
  PROVE  Quiet(h)
  <1>1. PICK items : items = {At(s, inv[s]) : s \in slots}
    OBVIOUS
  <1>2. PICK price : Becomes(h, [Calling(Started("Sell"),
                          [Command("SellItems", 0) EXCEPT !.cores = items, !.price = price], "shop")
                            EXCEPT !.seen = items])
    BY <1>1 DEF ItemSelling
  <1>3. PICK m, c, d : /\ m = [Command("SellItems", 0) EXCEPT !.cores = items, !.price = price]
                       /\ c = Started("Sell") /\ d = [Calling(c, m, "shop") EXCEPT !.seen = items]
    OBVIOUS
  <1>4. Receives(h, "Sell") /\ Becomes(h, d) /\ Calm
    BY <1>2, <1>3, CalmKept DEF ItemSelling
  <1>5. items \subseteq Positions
    <2>1. \A s \in slots : inv[s] \in Items /\ s \in Slots
      BY DEF Base, StateOK, MapsOK
    <2> QED
      BY <1>1, <2>1 DEF Positions, At
  <1>6. RequestOK(m) /\ m.cmd = "SellItems" /\ m.cores = items
    BY <1>3, <1>5, GoodIdle DEF RequestOK, RequestShape, Command, NoRequest, InvCommands, EqpCommands, BareCommands
  <1>7. Values(c) /\ c.op = "Sell"
    BY <1>3, StartedIs
  <1>8. Values(d) /\ d.op = "Sell" /\ d.at = "call" /\ d.ret = "shop" /\ d.m = m /\ d.seen = items
    BY <1>3, <1>6, <1>7 DEF Values, CallShape, Calling
  <1>9. Good(d) /\ d.at \notin Due /\ Sees(d)
    BY <1>6, <1>8, GoodShopping
  <1> QED
    BY <1>4, <1>8, <1>9, QuietPacket

\* The step ItemBuyings of a handler.
LEMMA QuietItemBuyings ==
  ASSUME Base, NEW h \in Handlers, NEW item \in Stock, NEW slot \in Slots, UNCHANGED player,
         ItemBuyings(h, item, slot)
  PROVE  Quiet(h)
  <1>1. PICK m, c, d : /\ m = [Command("PurchaseItem", slot) EXCEPT !.item = item, !.price = BuyPrice[item.kind.base]]
                       /\ c = Started("Buy") /\ d = Calling(c, m, "shop")
    OBVIOUS
  <1>2. Receives(h, "Buy") /\ Becomes(h, d) /\ Calm
    BY <1>1, CalmKept DEF ItemBuyings
  <1>3. RequestOK(m) /\ m.cmd = "PurchaseItem"
    BY <1>1, GoodIdle, GoodsAssumption
    DEF RequestOK, RequestShape, Command, NoRequest, InvCommands, EqpCommands, BareCommands
  <1>4. Values(c) /\ c.op = "Buy"
    BY <1>1, StartedIs
  <1>5. Values(d) /\ d.op = "Buy" /\ d.at = "call" /\ d.ret = "shop" /\ d.m = m
    BY <1>1, <1>3, <1>4 DEF Values, CallShape, Calling
  <1>6. Good(d) /\ d.at \notin Due /\ Sees(d)
    BY <1>3, <1>5, GoodShopping
  <1> QED
    BY <1>2, <1>5, <1>6, QuietPacket

\* The step EnchantCore of a handler.
LEMMA QuietEnchantCore ==
  ASSUME Base, NEW h \in Handlers, NEW target \in Slots, NEW scrolls \in SUBSET Slots, NEW cores \in SUBSET Slots,
         UNCHANGED player, EnchantCore(h, target, scrolls, cores)
  PROVE  Quiet(h)
  <1>1. PICK item, C, O, S : /\ item = inv[target] /\ C = {At(s, inv[s]) : s \in cores}
                             /\ O = {At(s, inv[s]) : s \in scrolls}
                             /\ S = {At(s, inv[s]) : s \in cores \cup scrolls \cup {target}}
    OBVIOUS
  <1>2. PICK new : /\ new = [item EXCEPT !.opt = @ + 1] \/ new = item
                   /\ Becomes(h, [Calling(Started("ForceCore"),
                          [Command("ForceCoreEnchant", target) EXCEPT
                             !.item = item, !.cores = C, !.others = O, !.new = new], "idle")
                            EXCEPT !.seen = S])
    BY <1>1 DEF EnchantCore
  <1>3. PICK m, c, d : /\ m = [Command("ForceCoreEnchant", target) EXCEPT
                                 !.item = item, !.cores = C, !.others = O, !.new = new]
                       /\ c = Started("ForceCore") /\ d = [Calling(c, m, "idle") EXCEPT !.seen = S]
    OBVIOUS
  <1>4. Receives(h, "ForceCore") /\ Becomes(h, d) /\ Calm
    BY <1>2, <1>3, CalmKept DEF EnchantCore
  <1>5. item \in Items /\ C \subseteq Positions /\ O \subseteq Positions /\ S \subseteq C \cup O \cup {At(target, item)}
    <2>1. \A s \in Slots : inv[s] \in Items
      BY DEF Base, StateOK, MapsOK
    <2> QED
      BY <1>1, <2>1 DEF Positions, At
  <1>6. new \in Items
    <2>1. item.opt + 1 \in Nat
      BY <1>5, ItemFields
    <2>2. [item EXCEPT !.opt = item.opt + 1] \in Items
      BY <1>5, <2>1, ItemFields
    <2> QED
      BY <1>2, <1>5, <2>2
  <1>7. RequestOK(m) /\ m.cmd = "ForceCoreEnchant" /\ m.cores = C /\ m.others = O /\ m.slot = target /\ m.item = item
    BY <1>3, <1>5, <1>6, GoodIdle
    DEF RequestOK, RequestShape, Command, NoRequest, InvCommands, EqpCommands, BareCommands
  <1>8. Values(c) /\ c.op = "ForceCore"
    BY <1>3, StartedIs
  <1>9. Values(d) /\ d.op = "ForceCore" /\ d.at = "call" /\ d.ret = "idle" /\ d.m = m /\ d.seen = S
    BY <1>3, <1>7, <1>8 DEF Values, CallShape, Calling
  <1>10. Good(d) /\ d.at \notin Due /\ Sees(d)
    <2>1. PlaceOK(d)
      BY <1>9 DEF PlaceOK, Place, Busy, Points, Wearing, Hanging, Looting, UnEquipping
    <2>2. SentOK(d)
      BY <1>5, <1>7, <1>9 DEF SentOK, InvCommands
    <2> QED
      BY <1>7, <1>9, <2>1, <2>2 DEF Good, Values, Due, Sees, Looting
  <1> QED
    BY <1>4, <1>9, <1>10, QuietPacket

\* The step UpgradeCoreEnchant of a handler.
LEMMA QuietUpgradeCoreEnchant ==
  ASSUME Base, NEW h \in Handlers, NEW target \in Slots, NEW cores \in SUBSET Slots,
         UNCHANGED player, UpgradeCoreEnchant(h, target, cores)
  PROVE  Quiet(h)
  <1>1. PICK kind, i, C : /\ kind = nextEnchantKind(inv[target].kind) /\ i = [NoItem EXCEPT !.kind = kind]
                          /\ C = {At(s, NoItem) : s \in cores}
    OBVIOUS
  <1>2. PICK m : m = [Command("EnchantItem", target) EXCEPT !.new = i, !.cores = C]
    OBVIOUS
  <1>3. OneCall(h, "Upgrade", m)
    BY <1>1, <1>2 DEF UpgradeCoreEnchant, OneCall
  <1>4. i \in Items
    <2>1. inv[target].kind \in Kinds /\ NoItem \in Items /\ NoKind \in Kinds
      BY GoodIdle, ItemFields DEF Base, StateOK, MapsOK, NoItem
    <2>2. kind \in Kinds
      <3>1. PICK k : k = inv[target].kind
        OBVIOUS
      <3>2. CASE kind = NoKind
        BY <2>1, <3>2
      <3>3. CASE ~(k = NoKind \/ k.level >= MaxUpgradeLevel)
        <4>1. k.level \in 0 .. MaxUpgradeLevel /\ kind = [k EXCEPT !.level = k.level + 1]
          BY <1>1, <2>1, <3>1, <3>3 DEF nextEnchantKind, Kinds
        <4>2. k.level + 1 \in 0 .. MaxUpgradeLevel
          BY <3>3, <4>1, LimitsAssumption
        <4> QED
          BY <2>1, <3>1, <4>1, <4>2 DEF Kinds
      <3> QED
        BY <1>1, <3>1, <3>2, <3>3 DEF nextEnchantKind
    <2> QED
      BY <1>1, <2>1, <2>2, ItemFields
  <1>5. C \subseteq Positions
    BY <1>1, GoodIdle DEF Positions, At
  <1>6. RequestOK(m) /\ m.cmd \in Simple
    BY <1>2, <1>4, <1>5, GoodIdle
    DEF RequestOK, RequestShape, Command, NoRequest, InvCommands, EqpCommands, BareCommands, Simple
  <1> QED
    BY <1>3, <1>6, QuietOneCall

\* What ItemAttach makes of an item is an item.
LEMMA AttachedItems ==
  ASSUME NEW source \in Items, NEW target \in Items, NEW new \in Attached(source, target)
  PROVE  new \in Items
  <1>1. \A b \in FindArmorBinderResult(source, target) : b \in Bases
    BY GoodsAssumption DEF FindArmorBinderResult
  <1>2. CASE FindArmorBinderResult(source, target) # {}
    <2>1. PICK b \in FindArmorBinderResult(source, target) : new = [target EXCEPT !.kind.base = b]
      BY <1>2 DEF Attached
    <2>2. target.kind \in Kinds /\ b \in Bases
      BY <1>1, <2>1, ItemFields
    <2>3. [target.kind EXCEPT !.base = b] \in Kinds
      BY <2>2 DEF Kinds
    <2>4. new = [target EXCEPT !.kind = [target.kind EXCEPT !.base = b]]
      BY <2>1
    <2> QED
      BY <2>3, <2>4, ItemFields
  <1>3. CASE FindArmorBinderResult(source, target) = {}
    <2>1. new = [target EXCEPT !.kind.bound = TRUE, !.opt = @ + 16]
      BY <1>3 DEF Attached
    <2>2. target.kind \in Kinds /\ target.opt + 16 \in Nat
      BY ItemFields
    <2>3. [target.kind EXCEPT !.bound = TRUE] \in Kinds
      BY <2>2 DEF Kinds
    <2> QED
      BY <2>1, <2>2, <2>3 DEF Items
  <1> QED
    BY <1>2, <1>3

\* The step ItemAttach of a handler.
LEMMA QuietItemAttach ==
  ASSUME Base, NEW h \in Handlers, NEW source \in Slots, NEW target \in Slots, UNCHANGED player,
         ItemAttach(h, source, target)
  PROVE  Quiet(h)
  <1>1. PICK new \in Attached(inv[source], inv[target]) :
          Becomes(h, [Calling(Started("Attach"),
                        [Command("AttachItem", target) EXCEPT !.new = new, !.others = {At(source, NoItem)}], "idle")
                          EXCEPT !.seen = {At(source, inv[source]), At(target, inv[target])}])
    BY DEF ItemAttach
  <1>2. PICK m, c, d : /\ m = [Command("AttachItem", target) EXCEPT !.new = new, !.others = {At(source, NoItem)}]
                       /\ c = Started("Attach")
                       /\ d = [Calling(c, m, "idle")
                                 EXCEPT !.seen = {At(source, inv[source]), At(target, inv[target])}]
    OBVIOUS
  <1>3. Receives(h, "Attach") /\ Becomes(h, d) /\ Calm
    BY <1>1, <1>2, CalmKept DEF ItemAttach
  <1>4. new \in Items
    <2>1. inv[source] \in Items /\ inv[target] \in Items
      BY DEF Base, StateOK, MapsOK
    <2> QED
      BY <1>1, <2>1, AttachedItems
  <1>5. {At(source, NoItem)} \subseteq Positions
    BY GoodIdle DEF Positions, At
  <1>6. RequestOK(m) /\ m.cmd = "AttachItem"
    BY <1>2, <1>4, <1>5, GoodIdle
    DEF RequestOK, RequestShape, Command, NoRequest, InvCommands, EqpCommands, BareCommands
  <1>7. Values(c) /\ c.op = "Attach"
    BY <1>2, StartedIs
  <1>8. Values(d) /\ d.op = "Attach" /\ d.at = "call" /\ d.ret = "idle" /\ d.m = m
    BY <1>2, <1>6, <1>7 DEF Values, CallShape, Calling
  <1>9. Ahead(d)
    BY <1>6, <1>8 DEF Ahead, Slotted, Simple, Homes, Wearing, Hanging, UnEquipping
  <1> QED
    BY <1>3, <1>8, <1>9, QuietStart

\* A packet starts a handler that has changed nothing yet.
LEMMA PacketCases ==
  ASSUME Base, NEW h \in Handlers, Packet(h), UNCHANGED player
  PROVE  Quiet(h)
  <1>1. player.slots \subseteq Slots /\ player.worn \subseteq EqSlots
    BY PlayersAssumption DEF Base, StateOK, MapsOK
  <1>2. \A bases : SlotsOf(bases) \subseteq Slots
    BY DEF SlotsOf
  <1>3. CASE \E old, new \in player.slots : ExchangeMoveInInventory(h, old, new) \/ ItemSwapInInventory(h, old, new)
    BY <1>1, <1>3, QuietMoves
  <1>4. CASE \E old, new \in player.worn : ExchangeMoveInEquipment(h, old, new) \/ ItemSwapInEquipment(h, old, new)
    BY <1>1, <1>4, QuietEqMoves
  <1>5. CASE \E slot \in player.slots, to \in player.worn :
               ExchangeEquip(h, slot, to) \/ ExchangeUnEquip(h, to, slot) \/ SwapEquipItem(h, slot, to)
    BY <1>1, <1>5, QuietExchangeEquip, QuietExchangeUnEquip, QuietSwapEquipItem
  <1>6. CASE \E slot \in player.slots : \/ AccessoryEquip(h, slot) \/ StorageItemDrop(h, slot)
                                        \/ UseManaPotion(h, slot) \/ UseSkillBook(h, slot)
    BY <1>1, <1>6, QuietAccessoryEquip, QuietStorageItemDrop, QuietUseManaPotion, QuietUseSkillBook
  <1>7. CASE \E slot, to \in player.slots \cup WhSlots, table, target \in Tables :
               ExchangeMoveStorage(h, table, slot, target, to)
    BY <1>7, QuietExchangeMoveStorage
  <1>8. CASE QueryCashItem(h) \/ \E id \in CashIds, slot \in player.slots : UseCash(h, id, slot)
    BY <1>1, <1>8, QuietQueryCashItem, QuietUseCash
  <1>9. CASE \E id \in DOMAIN ground, slot \in player.slots : ItemLooting(h, id, slot)
    BY <1>1, <1>9, QuietItemLooting
  <1>10. CASE \E slots \in SUBSET SlotsOf(DOMAIN SellPrice) : ItemSelling(h, slots)
    BY <1>2, <1>10, QuietItemSelling
  <1>11. CASE \E item \in Stock, slot \in player.slots : ItemBuyings(h, item, slot)
    BY <1>1, <1>11, QuietItemBuyings
  <1>12. CASE \E target \in player.slots :
                \E scrolls \in SUBSET SlotsOf(Scrolls), cores \in SUBSET SlotsOf(Cores) :
                  EnchantCore(h, target, scrolls, cores)
    <2>1. PICK target \in Slots, scrolls \in SUBSET Slots, cores \in SUBSET Slots :
            EnchantCore(h, target, scrolls, cores)
      BY <1>1, <1>2, <1>12
    <2> QED
      BY <2>1, QuietEnchantCore
  <1>13. CASE \E target \in player.slots : \E cores \in SUBSET SlotsOf(Cores) : UpgradeCoreEnchant(h, target, cores)
    <2>1. PICK target \in Slots, cores \in SUBSET Slots : UpgradeCoreEnchant(h, target, cores)
      BY <1>1, <1>2, <1>13
    <2> QED
      BY <2>1, QuietUpgradeCoreEnchant
  <1>14. CASE \E target \in player.slots : \E source \in player.slots : ItemAttach(h, source, target)
    BY <1>1, <1>14, QuietItemAttach
  <1> QED
    BY <1>3, <1>4, <1>5, <1>6, <1>7, <1>8, <1>9, <1>10, <1>11, <1>12, <1>13, <1>14 DEF Packet

\* What a step can be.
LEMMA NextCases ==
  ASSUME Base, [Next]_vars
  PROVE  \/ \E h \in Handlers : Quiet(h) \/ (Locally(h) /\ UNCHANGED player)
         \/ /\ UNCHANGED <<rest, player>>
            /\ \E h \in Handlers : Sent(h) \/ Declined(h) \/ Returned(h)
         \/ Still /\ (MasterRestarts \/ \E h \in Handlers : Breaks(h) \/ Served(h))
         \/ Calm /\ call' = call
  <1>1. CASE (\E h \in Handlers : Packet(h) \/ Step(h)) /\ UNCHANGED player
    BY <1>1, PacketCases, StepCases
  <1>2. CASE (\E h \in Handlers : Methods(h)) /\ UNCHANGED <<rest, player>>
    BY <1>2, MethodCases
  <1>3. CASE Master /\ UNCHANGED <<inv, eqp, lock, rest, player>>
    BY <1>3, MasterCases DEF Still
  <1>4. CASE (\E id \in DOMAIN ground : ItemExpires(id)) /\ UNCHANGED player
    <2>1. PICK id \in DOMAIN ground : ItemExpires(id)
      BY <1>4
    <2>2. StateOK
      BY DEF Base
    <2>3. \A x \in DOMAIN ground' : ground'[x] \in Items
      BY <2>1, <2>2 DEF ItemExpires, Without, StateOK, MapsOK
    <2>4. Calm /\ call' = call
      BY <1>4, <2>1, <2>2, <2>3 DEF ItemExpires, Calm, StateOK, MapsOK, LockType, maps, master
    <2> QED
      BY <2>4
  <1>5. CASE UNCHANGED vars
    BY <1>5 DEF vars, rest, Calm, Base, StateOK, MapsOK, LockType
  <1> QED
    BY <1>1, <1>2, <1>3, <1>4, <1>5 DEF Next, Act

\* The base holds when the server starts.
LEMMA InitBase == Init => Base
  <1> SUFFICES ASSUME Init PROVE Base
    OBVIOUS
  <1>1. /\ player.inv \in [Slots -> Items] /\ player.eqp \in [EqSlots -> Items] /\ player.cash \in [CashIds -> Items]
        /\ \A id \in DOMAIN player.ground : player.ground[id] \in Items
    BY PlayersAssumption DEF Init
  <1>2. MapsOK
    BY <1>1, GoodIdle, BasesAssumption DEF Init, MapsOK, Empty, NoSkill
  <1>3. TablesOK(db)
    BY <1>2 DEF Init, TablesOK, MapsOK
  <1>4. lock \in [{"inv", "eqp", "out", "ctx"} -> Handlers \cup {Free}] /\ lock["inv"] = Free /\ lock["eqp"] = Free
    BY DEF Init
  <1>5. Called /\ \A h \in Handlers : call[h] = Idle
    BY DEF Init, Called
  <1>6. LockOK
    BY <1>4, <1>5, GoodIdle, FreeAssumption DEF LockOK, Holds
  <1> QED
    BY <1>2, <1>3, <1>4, <1>5, <1>6, GoodIdle DEF Base, StateOK

\* Every step keeps the base.
LEMMA NextBase == Base /\ [Next]_vars => Base'
  <1> SUFFICES ASSUME Base, [Next]_vars PROVE Base'
    OBVIOUS
  <1>1. CASE (\E h \in Handlers : Packet(h) \/ Step(h)) /\ UNCHANGED player
    BY <1>1, PacketCases, BaseQuiet, BaseSteps
  <1>2. CASE (\E h \in Handlers : Methods(h)) /\ UNCHANGED <<rest, player>>
    BY <1>2, BaseMethods
  <1>3. CASE Master /\ UNCHANGED <<inv, eqp, lock, rest, player>>
    BY <1>3, BaseMaster DEF Still
  <1>4. CASE Calm /\ call' = call
    BY <1>4 DEF Calm, Base, StateOK, MapsOK, LockType, Called, LockOK
  <1>5. CASE \E id \in DOMAIN ground : ItemExpires(id) /\ UNCHANGED player
    <2>1. PICK id \in DOMAIN ground : ItemExpires(id) /\ UNCHANGED player
      BY <1>5
    <2>2. \A x \in DOMAIN ground' : ground'[x] \in Items
      BY <2>1 DEF ItemExpires, Without, Base, StateOK, MapsOK
    <2> QED
      BY <2>1, <2>2, <1>4 DEF ItemExpires, Calm, Base, StateOK, MapsOK, LockType, maps, master
  <1>6. CASE UNCHANGED vars
    BY <1>4, <1>6 DEF vars, rest, Calm, Base, StateOK, MapsOK, LockType
  <1> QED
    BY <1>1, <1>2, <1>3, <1>5, <1>6 DEF Next, Act

\* The base is an invariant, whatever the characters own, however many goroutines
\* work for one character, and however often the master fails: maps and tables
\* hold items, each goroutine's request is one that its handler can have sent, and
\* the mutex of Inventory or Equipment is held by the one goroutine whose call
\* of that map is under way (Inventory.mutex is held across the call).
THEOREM ItemInvariant == Spec => []Base
  BY InitBase, NextBase, PTL DEF Spec

----------------------------------------------------------------------------
(* What a step does to the records. *)

\* The records a local step leaves behind.
LEMMA LocallyBecomes ==
  ASSUME Base, NEW h \in Handlers, Locally(h)
  PROVE  \E d : /\ Becomes(h, d)
                /\ \/ d = Idle
                   \/ d = [call[h] EXCEPT !.at = "storage.set"] /\ call[h].m.cmd = "StorageMove" /\ call[h].at = "reply"
                   \/ d = [call[h] EXCEPT !.at = "cash.remove"] /\ call[h].m.cmd = "UseCashItem" /\ call[h].at = "reply"
                /\ call[h].at \in Due
  <1>1. CASE MoveStorageRemoveLocal(h)
    BY <1>1 DEF MoveStorageRemoveLocal, Answered, Due
  <1>2. CASE UseCashSetLocal(h)
    BY <1>2 DEF UseCashSetLocal, Answered, Due
  <1>3. CASE MoveStorageSetLocal(h) \/ QueryCashItemDone(h) \/ UseCashRemove(h) \/ ShopDone(h) \/ SkillLearned(h)
    BY <1>3 DEF MoveStorageSetLocal, QueryCashItemDone, UseCashRemove, ShopDone, SkillLearned, Answered, Due
  <1> QED
    BY <1>1, <1>2, <1>3 DEF Locally

\* After it, the goroutine has nothing under way or the other half of its update.
LEMMA LocallyRecord ==
  ASSUME Base, NEW h \in Handlers, Locally(h)
  PROVE  /\ Called' /\ (\A g \in Handlers : g # h => call'[g] = call[g])
         /\ call[h].at \in Due
         /\ call'[h].at \in {"idle", "storage.set", "cash.remove"}
         /\ call'[h].at # "idle" => call'[h].op = call[h].op /\ call'[h].m = call[h].m
                                      /\ call'[h].moved = call[h].moved
  <1>1. PICK c, d : /\ c = call[h] /\ Becomes(h, d)
                    /\ \/ d = Idle
                       \/ d = [c EXCEPT !.at = "storage.set"] /\ c.m.cmd = "StorageMove" /\ c.at = "reply"
                       \/ d = [c EXCEPT !.at = "cash.remove"] /\ c.m.cmd = "UseCashItem" /\ c.at = "reply"
                    /\ c.at \in Due
    BY LocallyBecomes
  <1>2. Called /\ Good(c)
    BY <1>1, BaseOf
  <1>3. Called' /\ call'[h] = d /\ \A g \in Handlers : g # h => call'[g] = call[g]
    BY <1>1, <1>2, BecomesEffect
  <1>4. /\ d.at \in {"idle", "storage.set", "cash.remove"}
        /\ d.at # "idle" => d.op = c.op /\ d.m = c.m /\ d.moved = c.moved
    BY <1>1, <1>2, GoodHalfway, GoodIdle
  <1> QED
    BY <1>1, <1>3, <1>4

\* A quiet step: one goroutine goes on, and it neither was nor is owed an update.
LEMMA QuietRecord ==
  ASSUME Base, NEW h \in Handlers, Quiet(h)
  PROVE  /\ Called' /\ (\A g \in Handlers : g # h => call'[g] = call[g])
         /\ call[h].at \notin Due \cup {"call", "rpc"} /\ call'[h].at \notin Due
         /\ Sees(call[h]) => Sees(call'[h])
         /\ call'[h].at = "rpc" => call'[h].m.cmd \in BareCommands
         /\ call'[h].at # "idle" => IF call[h].at = "idle" THEN Fits(h, call'[h].op) ELSE call'[h].op = call[h].op
  <1>1. PICK d : /\ Becomes(h, d) /\ Good(d) /\ d.at \notin Due
                 /\ Sees(call[h]) => Sees(d)
                 /\ d.at = "rpc" => d.m.cmd \in BareCommands
                 /\ d.at # "idle" => IF call[h].at = "idle" THEN Fits(h, d.op) ELSE d.op = call[h].op
    BY DEF Quiet
  <1>2. Called' /\ call'[h] = d /\ \A g \in Handlers : g # h => call'[g] = call[g]
    BY <1>1, BecomesEffect DEF Base
  <1> QED
    BY <1>1, <1>2 DEF Quiet

\* A call: the request that reaches the master is that of the handler, and the
\* three methods that look into the map first fill in what they see there.
LEMMA SentRecord ==
  ASSUME Base, NEW h \in Handlers, Sent(h)
  PROVE  /\ Called' /\ (\A g \in Handlers : g # h => call'[g] = call[g])
         /\ call[h].at = "call" /\ call'[h].at = "rpc" /\ call'[h].op = call[h].op
         /\ call'[h].m.cmd = call[h].m.cmd /\ call'[h].m.cmd \in InvCommands \cup EqpCommands
         /\ Alike(call[h], call'[h])
         /\ call'[h].m.cmd \notin {"ConsumeItem", "EnchantItem", "AttachItem"} => call'[h].m = call[h].m
         /\ call'[h].m.cmd = "MoveItem" => inv[call'[h].m.slot] # NoItem
         /\ call'[h].m.cmd = "MoveEquipmentItem" => eqp[call'[h].m.slot] # NoItem
         /\ UNCHANGED <<inv, eqp, db>>
  <1>1. PICK m :
          /\ call[h].at = "call" /\ m.cmd = call[h].m.cmd /\ m.cmd \in InvCommands \cup EqpCommands
          /\ m.cmd \notin {"ConsumeItem", "EnchantItem", "AttachItem"} => m = call[h].m
          /\ m.cmd = "MoveItem" => inv[m.slot] # NoItem
          /\ m.cmd = "MoveEquipmentItem" => eqp[m.slot] # NoItem
          /\ Sends(h, m, Mutex(m.cmd))
    BY DEF Sent
  <1>2. PICK c, d : c = call[h] /\ d = [c EXCEPT !.at = "rpc", !.m = m]
    OBVIOUS
  <1>3. Good(c) /\ Called
    BY <1>2, BaseOf
  <1>4. d.at = "rpc" /\ d.m = m /\ d.op = c.op /\ Alike(c, d)
    BY <1>2, <1>3 DEF Good, CallShape, Alike
  <1>5. Becomes(h, d)
    BY <1>1, <1>2, <1>3 DEF Sends, Becomes, Called, Good, CallShape
  <1>6. Called' /\ call'[h] = d /\ \A g \in Handlers : g # h => call'[g] = call[g]
    BY <1>3, <1>5, BecomesEffect
  <1>7. UNCHANGED <<inv, eqp, db>>
    BY <1>1 DEF Sends, maps, master
  <1> QED
    BY <1>1, <1>2, <1>4, <1>6, <1>7

\* A method that makes no call: its handler goes on and knows that it failed.
LEMMA DeclinedRecord ==
  ASSUME Base, NEW h \in Handlers, Declined(h)
  PROVE  /\ Called' /\ (\A g \in Handlers : g # h => call'[g] = call[g])
         /\ call[h].at = "call" /\ ~Busy(call'[h]) /\ call'[h].at = call[h].ret
         /\ call[h].ret # "idle" => call'[h].op = call[h].op /\ call'[h].ok = FALSE /\ Recalls(call[h], call'[h])
         /\ call[h].ret \notin Looting \cup {"storage.set", "cash.remove"}
         /\ UNCHANGED <<inv, eqp, db>>
  <1>1. PICK c, d : c = call[h] /\ d = Resumed(c, FALSE)
    OBVIOUS
  <1>2. Good(c) /\ c.at = "call" /\ Called
    BY <1>1, BaseOf DEF Declined
  <1>3. /\ ~Busy(d) /\ d.at = c.ret /\ (c.ret # "idle" => d.op = c.op /\ d.ok = FALSE /\ Recalls(c, d))
    BY <1>1, <1>2, GoodResumed
  <1>4. Becomes(h, d)
    BY <1>1 DEF Declined, Declines, Becomes
  <1>5. Called' /\ call'[h] = d /\ \A g \in Handlers : g # h => call'[g] = call[g]
    BY <1>2, <1>4, BecomesEffect
  <1>6. c.ret \notin Looting \cup {"storage.set", "cash.remove"}
    BY <1>2 DEF Good, PlaceOK, Busy
  <1>7. UNCHANGED <<inv, eqp, db>>
    BY DEF Declined, Declines, maps, master
  <1> QED
    BY <1>1, <1>2, <1>3, <1>5, <1>6, <1>7

\* A method that returns: its handler goes on and knows the answer.
LEMMA ReturnedRecord ==
  ASSUME Base, NEW h \in Handlers, Returned(h)
  PROVE  /\ Called' /\ (\A g \in Handlers : g # h => call'[g] = call[g])
         /\ call[h].at = "reply" /\ ~Busy(call'[h]) /\ call'[h].at = call[h].ret
         /\ call[h].m.cmd \in InvCommands \cup EqpCommands
         /\ call[h].ret # "idle" =>
              /\ call'[h].op = call[h].op /\ (call'[h].ok <=> call[h].res = "ok") /\ call'[h].m = call[h].m
              /\ call'[h].alz = call[h].alz /\ Recalls(call[h], call'[h])
         /\ call[h].ret \notin Looting \cup {"storage.set", "cash.remove"}
         /\ db' = db
  <1>1. PICK c, d : c = call[h] /\ d = Resumed(c, c.res = "ok")
    OBVIOUS
  <1>2. Good(c) /\ c.at = "reply" /\ Called
    BY <1>1, BaseOf DEF Returned
  <1>3. /\ ~Busy(d) /\ d.at = c.ret
        /\ c.ret # "idle" => d.op = c.op /\ (d.ok <=> c.res = "ok") /\ d.m = c.m /\ d.alz = c.alz /\ Recalls(c, d)
    <2>1. CASE c.res = "ok"
      <3>1. d = Resumed(c, TRUE)
        BY <1>1, <2>1 DEF Resumed
      <3> QED
        BY <1>2, <2>1, <3>1, GoodResumed
    <2>2. CASE c.res # "ok"
      <3>1. d = Resumed(c, FALSE)
        BY <1>1, <2>2 DEF Resumed
      <3> QED
        BY <1>2, <2>2, <3>1, GoodResumed
    <2> QED
      BY <2>1, <2>2
  <1>4. Becomes(h, d)
    BY <1>1 DEF Returned, Returns, Becomes
  <1>5. Called' /\ call'[h] = d /\ \A g \in Handlers : g # h => call'[g] = call[g]
    BY <1>2, <1>4, BecomesEffect
  <1>6. c.ret \notin Looting \cup {"storage.set", "cash.remove"}
    BY <1>2 DEF Good, PlaceOK, Busy
  <1>7. db' = db /\ c.m.cmd \in InvCommands \cup EqpCommands
    BY <1>1 DEF Returned, Returns, master
  <1> QED
    BY <1>1, <1>2, <1>3, <1>5, <1>6, <1>7

\* An answer.
LEMMA ServedRecord ==
  ASSUME Base, NEW h \in Handlers, Served(h)
  PROVE  /\ Called' /\ (\A g \in Handlers : g # h => call'[g] = call[g])
         /\ call[h].at = "rpc" /\ call'[h].at = "reply" /\ call'[h].op = call[h].op /\ call'[h].m = call[h].m
         /\ call'[h].moved = call[h].moved /\ Alike(call[h], call'[h])
         /\ call'[h].res = "ok" => Effect(call[h].m)
         /\ call'[h].res # "ok" => db' = db
         /\ call'[h].res = "ok" /\ call[h].m.cmd \in {"SellItems", "PurchaseItem"} => call'[h].alz = db'.alz
         /\ call[h].m.cmd \notin {"SellItems", "PurchaseItem"} => db'.alz = db.alz
         /\ call'[h].res = "ok" /\ call[h].m.cmd = "LoadCashInventory" => call'[h].list = db.cash
         /\ call[h].m.cmd # "LearnSkill" => db'.skills = db.skills
  <1>1. PICK r \in {"ok", "no", "err"} : Answers(h, r) /\ (r = "ok" => Effect(call[h].m))
    BY DEF Served
  <1>2. PICK a : \E l \in [CashIds -> Items] :
         /\ Becomes(h, [call[h] EXCEPT !.at = "reply", !.res = r, !.alz = a, !.list = l])
         /\ r = "ok" /\ call[h].m.cmd \in {"SellItems", "PurchaseItem"} => a = db'.alz
         /\ r = "ok" /\ call[h].m.cmd = "LoadCashInventory" => l = db.cash
    BY <1>1 DEF Answers
  <1>3. PICK l \in [CashIds -> Items] :
         /\ Becomes(h, [call[h] EXCEPT !.at = "reply", !.res = r, !.alz = a, !.list = l])
         /\ r = "ok" /\ call[h].m.cmd \in {"SellItems", "PurchaseItem"} => a = db'.alz
         /\ r = "ok" /\ call[h].m.cmd = "LoadCashInventory" => l = db.cash
    BY <1>2
  <1>4. PICK c, d : c = call[h] /\ d = [c EXCEPT !.at = "reply", !.res = r, !.alz = a, !.list = l]
    OBVIOUS
  <1>5. Good(c) /\ Called
    BY <1>4, BaseOf
  <1>6. /\ d.at = "reply" /\ d.res = r /\ d.alz = a /\ d.list = l /\ d.op = c.op /\ d.m = c.m /\ d.moved = c.moved
        /\ Alike(c, d)
    BY <1>4, <1>5 DEF Good, CallShape, Alike
  <1>7. Called' /\ call'[h] = d /\ \A g \in Handlers : g # h => call'[g] = call[g]
    BY <1>3, <1>4, <1>5, BecomesEffect
  <1> QED
    BY <1>1, <1>3, <1>4, <1>6, <1>7 DEF Answers

\* A call that fails because the master panics.
LEMMA LostRecord ==
  ASSUME Base, NEW h \in Handlers, Lost(h)
  PROVE  \/ call'[h] = call[h]
         \/ /\ call[h].at \in {"rpc", "reply"} /\ call'[h].at = "reply" /\ call'[h].res = "err"
            /\ call'[h].op = call[h].op /\ call'[h].m = call[h].m /\ Alike(call[h], call'[h])
  <1>1. PICK c, d : c = call[h] /\ d = call'[h]
    OBVIOUS
  <1>2. Good(c) /\ (d = c \/ (c.at \in {"rpc", "reply"} /\ d = [c EXCEPT !.at = "reply", !.res = "err"]))
    BY <1>1, BaseOf DEF Lost
  <1>3. CASE d = c
    BY <1>1, <1>3
  <1>4. CASE c.at \in {"rpc", "reply"} /\ d = [c EXCEPT !.at = "reply", !.res = "err"]
    <2>1. Alike(c, d) /\ d.at = "reply" /\ d.res = "err" /\ d.m = c.m
      BY <1>2, <1>4, GoodLost
    <2>2. d.op = c.op
      BY <2>1 DEF Alike
    <2> QED
      BY <1>1, <1>4, <2>1, <2>2
  <1> QED
    BY <1>2, <1>3, <1>4

----------------------------------------------------------------------------
(* Nothing stale is spent. *)

\* Force cores and sales take the items that their handlers have read.
LEMMA SpendsSeen ==
  ASSUME Base, [Next]_vars
  PROVE  SpendsWhatItSaw({"ForceCoreEnchant", "SellItems"})
  <1> SUFFICES ASSUME NEW h \in Handlers, call[h].at = "rpc", call[h].m.cmd \in {"ForceCoreEnchant", "SellItems"},
                      call'[h].at = "reply", call'[h].res = "ok", NEW p \in call[h].seen
               PROVE  db.inv[p.slot] = p.item
    BY DEF SpendsWhatItSaw
  <1>1. CASE \E g \in Handlers : Quiet(g) \/ Locally(g) \/ Sent(g) \/ Declined(g) \/ Returned(g)
    BY <1>1, QuietRecord, LocallyRecord, SentRecord, DeclinedRecord, ReturnedRecord DEF Due
  <1>2. CASE MasterRestarts \/ call' = call
    BY <1>2 DEF MasterRestarts
  <1>3. CASE \E g \in Handlers : Breaks(g)
    BY <1>3, PanicLoses, LostRecord
  <1>4. ASSUME NEW g \in Handlers, Served(g)
        PROVE  db.inv[p.slot] = p.item
    <2>1. g = h
      BY <1>4, ServedRecord
    <2>2. Effect(call[h].m)
      BY <1>4, <2>1, ServedRecord
    <2>3. /\ call[h].m.cmd = "SellItems" => p \in call[h].m.cores
          /\ call[h].m.cmd = "ForceCoreEnchant" =>
               p \in call[h].m.cores \cup call[h].m.others \cup {At(call[h].m.slot, call[h].m.item)}
      BY BaseOf DEF Good, SentOK, Busy
    <2>4. Stored(p)
      BY <2>2, <2>3 DEF Effect
    <2> QED
      BY <2>4 DEF Stored
  <1> QED
    BY <1>1, <1>2, <1>3, <1>4, NextCases

\* A committed ForceCoreEnchant or SellItems takes the rows that the handler read
\* before it took the mutex: the handler sends the whole items (packet.ItemSelling
\* at inventory.go:556, UpgradeCoreEnchant), and the master deletes by item and
\* slot and rolls back when a row is gone (master/rpc/inventory.go, forcecore.go).
THEOREM ItemsNotStale == Spec => NoStaleSpending
  <1>1. Base /\ [Next]_vars => [SpendsWhatItSaw({"ForceCoreEnchant", "SellItems"})]_vars
    BY SpendsSeen
  <1> QED
    BY <1>1, ItemInvariant, PTL DEF Spec, NoStaleSpending

----------------------------------------------------------------------------
(* No skill is learned twice. *)

\* A goroutine that owes a skill has sent LearnSkill with the row of the skill.
LEMMA DueBook ==
  ASSUME Base, NEW h \in Handlers, call[h].op = "Book", Busy(call[h]) \/ call[h].at = "learn"
  PROVE  /\ call[h].m.cmd = "LearnSkill" /\ call[h].m.to \in SkillSlots
         /\ call[h].m.item.kind.base \in Books
  <1>1. Good(call[h])
    BY BaseOf
  <1>2. call[h].m.cmd = "LearnSkill"
    BY <1>1 DEF Good, PlaceOK, Place, Busy
  <1> QED
    BY <1>1, <1>2 DEF Good, RequestOK

\* A step that changes no skill and makes nobody owe one.
LEMMA SkillsKept ==
  ASSUME Base, SkillInv, db'.skills = db.skills, skills' = skills,
         \A g \in Handlers : SkillDue(call'[g]) => SkillDue(call[g]) /\ call'[g].m = call[g].m
  PROVE  SkillInv'
  BY DEF SkillInv

\* An update of a map without its mutex keeps the skill invariant.
LEMMA SkillsLocally ==
  ASSUME Base, SkillInv, NEW h \in Handlers, Locally(h)
  PROVE  SkillInv'
  <1>1. \A g \in Handlers : g # h => call'[g] = call[g]
    BY LocallyRecord
  <1>2. ~SkillDue(call'[h])
    BY LocallyRecord DEF SkillDue
  <1>3. CASE ~SkillLearned(h)
    <2>1. db' = db /\ skills' = skills
      BY <1>3 DEF Locally, MoveStorageRemoveLocal, MoveStorageSetLocal, QueryCashItemDone, UseCashSetLocal,
                  UseCashRemove, ShopDone, master
    <2> QED
      BY <1>1, <1>2, <2>1, SkillsKept
  <1>4. CASE SkillLearned(h) /\ ~call[h].ok
    <2>1. db' = db /\ skills' = skills
      BY <1>4 DEF SkillLearned, master
    <2> QED
      BY <1>1, <1>2, <2>1, SkillsKept
  <1>5. CASE SkillLearned(h) /\ call[h].ok
    <2>1. /\ db' = db /\ call[h].at = "learn"
          /\ skills' = [skills EXCEPT ![call[h].m.to] = call[h].m.item.kind.base]
      BY <1>5 DEF SkillLearned, master
    <2>2. call[h].op = "Book"
      BY <2>1, BaseOf DEF Good, PlaceOK, Place, Busy
    <2>3. SkillDue(call[h]) /\ call[h].m.to \in SkillSlots
      BY <1>5, <2>1, <2>2, DueBook DEF SkillDue
    <2>4. \A s \in SkillSlots : skills'[s] = IF s = call[h].m.to THEN call[h].m.item.kind.base ELSE skills[s]
      BY <2>1 DEF Base, StateOK, MapsOK
    <2>5. \A s \in SkillSlots : skills'[s] # NoSkill => db.skills[s] # NoSkill
      BY <2>3, <2>4 DEF SkillInv
    <2>6. ASSUME NEW g \in Handlers, SkillDue(call'[g])
          PROVE  /\ g # h /\ call'[g] = call[g] /\ SkillDue(call[g]) /\ call[g].m.to # call[h].m.to
                 /\ call[g].m.to \in SkillSlots
      <3>1. g # h /\ call'[g] = call[g] /\ SkillDue(call[g])
        BY <1>1, <1>2, <2>6
      <3>2. call[g].m.to # call[h].m.to
        BY <2>3, <3>1 DEF SkillInv
      <3>3. call[g].m.to \in SkillSlots
        BY <3>1, DueBook DEF SkillDue, Busy
      <3> QED
        BY <3>1, <3>2, <3>3
    <2>7. \A g \in Handlers : SkillDue(call'[g]) => skills'[call'[g].m.to] = NoSkill /\ db.skills[call'[g].m.to] # NoSkill
      BY <2>4, <2>6 DEF SkillInv
    <2> QED
      BY <2>1, <2>5, <2>6, <2>7 DEF SkillInv
  <1> QED
    BY <1>3, <1>4, <1>5

\* A transaction of the master keeps the skill invariant.
LEMMA SkillsServed ==
  ASSUME Base, SkillInv, NEW h \in Handlers, Served(h), Still
  PROVE  SkillInv'
  <1>1. skills' = skills
    BY DEF Still, rest
  <1>2. \A g \in Handlers : g # h => call'[g] = call[g]
    BY ServedRecord
  <1>3. /\ call[h].at = "rpc" /\ call'[h].at = "reply" /\ call'[h].op = call[h].op /\ call'[h].m = call[h].m
        /\ call'[h].res = "ok" => Effect(call[h].m)
        /\ call'[h].res # "ok" => db' = db
        /\ call[h].m.cmd # "LearnSkill" => db'.skills = db.skills
    BY ServedRecord
  <1>4. CASE call[h].op = "Book" /\ call'[h].res = "ok"
    <2>1. /\ call[h].m.cmd = "LearnSkill" /\ call[h].m.to \in SkillSlots
          /\ call[h].m.item.kind.base # NoSkill
      BY <1>3, <1>4, DueBook, BookAssumption DEF Busy
    <2>2. PICK to, base : to = call[h].m.to /\ base = call[h].m.item.kind.base
      OBVIOUS
    <2>3. /\ db.skills[to] = NoSkill /\ \A s \in SkillSlots : db.skills[s] # base
          /\ db'.skills = [db.skills EXCEPT ![to] = base]
      BY <1>3, <1>4, <2>1, <2>2 DEF Effect
    <2>4. to \in SkillSlots /\ base # NoSkill
      BY <2>1, <2>2
    <2>5. \A s \in SkillSlots : db'.skills[s] = IF s = to THEN base ELSE db.skills[s]
      BY <2>3, <2>4 DEF Base, StateOK, TablesOK
    <2>6. skills[to] = NoSkill
      BY <2>3, <2>4 DEF SkillInv
    <2>7. \A s, t \in SkillSlots : db'.skills[s] = db'.skills[t] /\ s # t => db'.skills[s] = NoSkill
      BY <2>3, <2>5 DEF SkillInv
    <2>8. \A s \in SkillSlots : skills'[s] # NoSkill => db'.skills[s] # NoSkill
      BY <1>1, <2>4, <2>5 DEF SkillInv
    <2>9. ASSUME NEW g \in Handlers, SkillDue(call'[g]), g # h
          PROVE  /\ call'[g].m.to # to /\ call'[g] = call[g]
                 /\ skills'[call'[g].m.to] = NoSkill /\ db'.skills[call'[g].m.to] # NoSkill
      <3>1. call'[g] = call[g] /\ SkillDue(call[g])
        BY <1>2, <2>9
      <3>2. call[g].m.to \in SkillSlots
        BY <3>1, DueBook DEF SkillDue, Busy
      <3>3. skills[call[g].m.to] = NoSkill /\ db.skills[call[g].m.to] # NoSkill
        BY <3>1 DEF SkillInv
      <3> QED
        BY <1>1, <2>3, <2>5, <3>1, <3>2, <3>3
    <2>10. call'[h].m.to = to
      BY <1>3, <2>2
    <2>11. \A g \in Handlers : SkillDue(call'[g]) => skills'[call'[g].m.to] = NoSkill /\ db'.skills[call'[g].m.to] # NoSkill
      BY <1>1, <2>4, <2>5, <2>6, <2>9, <2>10
    <2>12. \A f, g \in Handlers : f # g /\ SkillDue(call'[g]) /\ SkillDue(call'[f]) => call'[f].m.to # call'[g].m.to
      BY <2>9, <2>10 DEF SkillInv
    <2> QED
      BY <2>7, <2>8, <2>11, <2>12 DEF SkillInv
  <1>5. CASE ~(call[h].op = "Book" /\ call'[h].res = "ok")
    <2>1. call[h].m.cmd = "LearnSkill" => call[h].op = "Book"
      BY <1>3, BaseOf DEF Good, PlaceOK, SentOK, Place, Busy
    <2>2. db'.skills = db.skills
      BY <1>3, <1>5, <2>1
    <2>3. ~SkillDue(call'[h])
      BY <1>3, <1>5 DEF SkillDue
    <2> QED
      BY <1>1, <1>2, <2>2, <2>3, SkillsKept
  <1> QED
    BY <1>4, <1>5

\* Every step keeps the skill invariant.
LEMMA NextSkills == Base /\ SkillInv /\ [Next]_vars => SkillInv'
  <1> SUFFICES ASSUME Base, SkillInv, [Next]_vars PROVE SkillInv'
    OBVIOUS
  <1>1. CASE \E h \in Handlers : Quiet(h)
    <2>1. PICK h \in Handlers : Quiet(h)
      BY <1>1
    <2>2. ~SkillDue(call'[h]) /\ \A g \in Handlers : g # h => call'[g] = call[g]
      BY <2>1, QuietRecord DEF SkillDue, Due
    <2>3. db' = db /\ skills' = skills
      BY <2>1 DEF Quiet, Calm
    <2> QED
      BY <2>2, <2>3, SkillsKept
  <1>2. CASE \E h \in Handlers : Locally(h)
    BY <1>2, SkillsLocally
  <1>3. CASE UNCHANGED <<rest, player>> /\ \E h \in Handlers : Sent(h) \/ Declined(h)
    <2>1. PICK h \in Handlers : Sent(h) \/ Declined(h)
      BY <1>3
    <2>2. db' = db /\ \A g \in Handlers : g # h => call'[g] = call[g]
      BY <2>1, SentRecord, DeclinedRecord
    <2>3. ~SkillDue(call'[h])
      <3>1. CASE Sent(h)
        BY <3>1, SentRecord DEF SkillDue
      <3>2. CASE Declined(h)
        BY <3>2, DeclinedRecord DEF SkillDue, Busy
      <3> QED
        BY <2>1, <3>1, <3>2
    <2> QED
      BY <1>3, <2>2, <2>3, SkillsKept DEF rest
  <1>4. CASE UNCHANGED <<rest, player>> /\ \E h \in Handlers : Returned(h)
    <2>1. PICK h \in Handlers : Returned(h)
      BY <1>4
    <2>2. db' = db /\ \A g \in Handlers : g # h => call'[g] = call[g]
      BY <2>1, ReturnedRecord
    <2>3. SkillDue(call'[h]) => SkillDue(call[h]) /\ call'[h].m = call[h].m
      BY <2>1, ReturnedRecord DEF SkillDue, Busy
    <2> QED
      BY <1>4, <2>2, <2>3, SkillsKept DEF rest
  <1>5. CASE Still /\ \E h \in Handlers : Served(h)
    BY <1>5, SkillsServed
  <1>6. CASE Still /\ \E h \in Handlers : Breaks(h)
    <2>1. db' = db /\ skills' = skills
      BY <1>6, PanicLoses DEF Still, rest
    <2>2. \A g \in Handlers : SkillDue(call'[g]) => SkillDue(call[g]) /\ call'[g].m = call[g].m
      BY <1>6, PanicLoses, LostRecord DEF SkillDue
    <2> QED
      BY <2>1, <2>2, SkillsKept
  <1>7. CASE Still /\ MasterRestarts
    <2>1. db' = db /\ skills' = skills /\ call' = call
      BY <1>7 DEF MasterRestarts, Still, rest
    <2> QED
      BY <2>1, SkillsKept
  <1>8. CASE Calm /\ call' = call
    BY <1>8, SkillsKept DEF Calm
  <1> QED
    BY <1>1, <1>2, <1>3, <1>4, <1>5, <1>6, <1>7, <1>8, NextCases

\* At the start there are no skills.
LEMMA InitSkills == Init => SkillInv
  <1> SUFFICES ASSUME Init PROVE SkillInv
    OBVIOUS
  <1>1. \A s \in SkillSlots : db.skills[s] = NoSkill /\ skills[s] = NoSkill
    BY DEF Init
  <1>2. \A h \in Handlers : ~SkillDue(call[h])
    BY DEF Init, SkillDue, Idle
  <1> QED
    BY <1>1, <1>2 DEF SkillInv

\* Who owes a skill, owes it to an empty slot.
LEMMA SkillsMeanOnce == Base /\ SkillInv => SkillOnce
  <1> SUFFICES ASSUME Base, SkillInv, NEW h \in Handlers, CharDue(h), call[h].op = "Book"
               PROVE  skills[call[h].m.to] = NoSkill
    BY DEF SkillOnce, SkillInv
  <1>1. call[h].at # "shop"
    BY BaseOf DEF Good, PlaceOK, Place, Busy
  <1> QED
    BY <1>1 DEF CharDue, SkillInv, SkillDue

\* A character learns no skill twice and puts no two skills into one slot, though
\* two books are read at the same time: ItemUsing picks the slot from the map
\* before the call, LearnSkill of the master refuses a slot or a skill that is
\* taken, and the map is only written after its answer.
THEOREM ItemsSkillOnce == Spec => []SkillOnce
  BY ItemInvariant, InitSkills, NextSkills, SkillsMeanOnce, PTL DEF Spec

----------------------------------------------------------------------------
(* The maps follow the tables. *)

\* Which packet an update without a mutex belongs to.
LEMMA WhoseUpdate ==
  ASSUME NEW c, Good(c)
  PROVE  /\ StoreAhead(c) => c.op = "Storage" /\ c.at # "idle" /\ c.m.cmd = "StorageMove"
         /\ CashAhead(c) => c.op = "UseCash" /\ c.at # "idle" /\ c.m.cmd = "UseCashItem"
         /\ ListAhead(c) => c.op = "QueryCash" /\ c.at # "idle"
         /\ Looks(c) => c.op \in Solo \/ (c.at = "rpc" /\ c.m.cmd \in {"MoveItem", "MoveEquipmentItem"})
  <1>1. StoreAhead(c) => c.op = "Storage" /\ c.at # "idle" /\ c.m.cmd = "StorageMove"
    BY DEF StoreAhead, Acknowledged, Good, PlaceOK, SentOK, Place, Busy
  <1>2. CashAhead(c) => c.op = "UseCash" /\ c.at # "idle" /\ c.m.cmd = "UseCashItem"
    BY DEF CashAhead, Acknowledged, Good, PlaceOK, SentOK, Place, Busy
  <1>3. ListAhead(c) => c.op = "QueryCash" /\ c.at # "idle"
    BY DEF ListAhead, Acknowledged, Good, SentOK, Busy
  <1>4. Looks(c) => c.op \in Solo \/ (c.at = "rpc" /\ c.m.cmd \in {"MoveItem", "MoveEquipmentItem"})
    BY DEF Looks, Good, PlaceOK, SentOK, Place, Busy, Solo, Looting
  <1> QED
    BY <1>1, <1>2, <1>3, <1>4

\* A handler that looks at nothing relies on nothing.
LEMMA BasedUnless ==
  ASSUME NEW h \in Handlers, ~Looks(call'[h])
  PROVE  Based(call[h])'
  BY DEF Looks, Based, Sees

\* A record that does not change, over maps that do not.
LEMMA BasedStays ==
  ASSUME NEW h \in Handlers, Based(call[h]), call'[h] = call[h], UNCHANGED <<inv, eqp, wh>>
  PROVE  Based(call[h])'
  BY DEF Based, Sees, Storage

\* A handler that owes nothing.
LEMMA OwesNothing ==
  ASSUME NEW c, ~Pending(c), NEW f, NEW g
  PROVE  Owes(c, f, g)
  BY DEF Pending, Owes

\* Beside a packet of Solo nothing is handled.
LEMMA Solitude ==
  ASSUME Overlap, Apart, NEW h \in Handlers, call[h].op \in Solo, call[h].at # "idle",
         NEW g \in Handlers, g # h
  PROVE  call[g].at = "idle"
  <1> SUFFICES ASSUME call[g].at # "idle" PROVE FALSE
    OBVIOUS
  <1>1. PICK pair : pair = {call[g].op, call[h].op}
    OBVIOUS
  <1>2. pair \in Overlapping /\ call[h].op \in pair
    BY <1>1 DEF Overlap
  <1>3. pair \cap Solo = {}
    BY <1>2 DEF Apart
  <1> QED
    BY <1>2, <1>3

\* An idle goroutine.
LEMMA IdleOwes ==
  ASSUME NEW c, c.at = "idle"
  PROVE  ~Pending(c) /\ ~Looks(c)
  BY DEF Pending, Looks, InvAhead, EqpAhead, StoreAhead, CashAhead, ListAhead, Acknowledged, Looting

\* While the handler of another packet is at work, no update without a mutex is under way.
LEMMA NoneBeside ==
  ASSUME Base, Overlap, Apart, NEW h \in Handlers, call[h].at # "idle", NEW g \in Handlers, g # h
  PROVE  /\ ~StoreAhead(call[g]) /\ ~CashAhead(call[g]) /\ ~ListAhead(call[g])
         /\ Looks(call[g]) => call[g].at = "rpc" /\ call[g].m.cmd \in {"MoveItem", "MoveEquipmentItem"}
  <1>1. Good(call[g])
    BY BaseOf
  <1>2. call[g].op \in Solo => call[g].at = "idle"
    BY Solitude
  <1>3. ~StoreAhead(call[g]) /\ ~CashAhead(call[g]) /\ ~ListAhead(call[g])
    BY <1>1, <1>2, WhoseUpdate DEF Solo
  <1>4. call[g].at = "idle" => ~Looks(call[g])
    BY IdleOwes
  <1> QED
    BY <1>1, <1>2, <1>3, <1>4, WhoseUpdate

----------------------------------------------------------------------------
(* Packets that overlap. *)

\* No packet is taken up.
LEMMA OverlapKept ==
  ASSUME Overlap, NEW h \in Handlers, \A g \in Handlers : g # h => call'[g] = call[g],
         call'[h].at # "idle" => call[h].at # "idle" /\ call'[h].op = call[h].op
  PROVE  Overlap'
  BY DEF Overlap

\* Every step keeps the packets apart.
LEMMA NextOverlap == Base /\ Overlap /\ [Next]_vars => Overlap'
  <1> SUFFICES ASSUME Base, Overlap, [Next]_vars PROVE Overlap'
    OBVIOUS
  <1>1. CASE \E h \in Handlers : Quiet(h)
    <2>1. PICK h \in Handlers : Quiet(h)
      BY <1>1
    <2>2. /\ \A g \in Handlers : g # h => call'[g] = call[g]
          /\ call'[h].at # "idle" => IF call[h].at = "idle" THEN Fits(h, call'[h].op) ELSE call'[h].op = call[h].op
      BY <2>1, QuietRecord
    <2>3. CASE call[h].at # "idle" \/ call'[h].at = "idle"
      BY <2>2, <2>3, OverlapKept
    <2>4. CASE call[h].at = "idle" /\ call'[h].at # "idle"
      <3>1. \A g \in Handlers : g # h /\ call[g].at # "idle" => {call'[h].op, call[g].op} \in Overlapping
        BY <2>2, <2>4 DEF Fits
      <3>2. \A g \in Handlers : {call'[h].op, call[g].op} = {call[g].op, call'[h].op}
        OBVIOUS
      <3> QED
        BY <2>2, <3>1, <3>2 DEF Overlap
    <2> QED
      BY <2>3, <2>4
  <1>2. CASE \E h \in Handlers : Locally(h) \/ Sent(h) \/ Declined(h) \/ Returned(h) \/ Served(h)
    <2>1. PICK h \in Handlers : Locally(h) \/ Sent(h) \/ Declined(h) \/ Returned(h) \/ Served(h)
      BY <1>2
    <2>2. CASE Locally(h)
      BY <2>2, LocallyRecord, OverlapKept DEF Due
    <2>3. CASE Sent(h)
      BY <2>3, SentRecord, OverlapKept
    <2>4. CASE Declined(h)
      BY <2>4, DeclinedRecord, OverlapKept
    <2>5. CASE Returned(h)
      BY <2>5, ReturnedRecord, OverlapKept
    <2>6. CASE Served(h)
      BY <2>6, ServedRecord, OverlapKept
    <2> QED
      BY <2>1, <2>2, <2>3, <2>4, <2>5, <2>6
  <1>3. CASE \E h \in Handlers : Breaks(h)
    <2>1. \A g \in Handlers : call'[g].at # "idle" => call[g].at # "idle" /\ call'[g].op = call[g].op
      BY <1>3, PanicLoses, LostRecord
    <2> QED
      BY <2>1 DEF Overlap
  <1>4. CASE MasterRestarts \/ call' = call
    BY <1>4 DEF MasterRestarts, Overlap
  <1> QED
    BY <1>1, <1>2, <1>3, <1>4, NextCases

----------------------------------------------------------------------------
(* The steps of the maps and tables. *)

\* Nothing changes but records of goroutines that neither owed nor owe anything.
LEMMA MapsKept ==
  ASSUME MapInv, UNCHANGED <<inv, eqp, wh, cash, db>>,
         \A g \in Handlers : \/ call'[g] = call[g]
                             \/ ~Pending(call[g]) /\ ~Pending(call'[g]) /\ Based(call[g])'
  PROVE  MapInv'
  <1>1. \A g \in Handlers : Based(call[g])'
    BY BasedStays DEF MapInv
  <1>2. Local' = Local
    BY DEF Local
  <1>3. ASSUME NEW g \in Handlers
        PROVE  Owes(call'[g], Local', db')
    <2>1. CASE call'[g] = call[g]
      BY <1>2, <2>1 DEF MapInv
    <2>2. CASE ~Pending(call'[g])
      BY <2>2, OwesNothing
    <2> QED
      BY <1>3, <2>1, <2>2
  <1>4. \A g \in Handlers : /\ InvAhead(call'[g]) <=> InvAhead(call[g])
                            /\ EqpAhead(call'[g]) <=> EqpAhead(call[g])
                            /\ StoreAhead(call'[g]) <=> StoreAhead(call[g])
                            /\ CashAhead(call'[g]) <=> CashAhead(call[g])
    BY DEF Pending
  <1>5. MapsEqual'
    BY <1>4 DEF MapInv, MapsEqual
  <1> QED
    BY <1>1, <1>3, <1>5 DEF MapInv

\* Where h alone is at work, only what h owes counts.
LEMMA MapsAlone ==
  ASSUME NEW h \in Handlers, \A g \in Handlers : g # h => call[g].at = "idle" /\ call'[g] = call[g],
         Owes(call'[h], Local', db'), Based(call[h])',
         ~InvAhead(call'[h]) /\ ~StoreAhead(call'[h]) /\ ~CashAhead(call'[h]) => inv' = db'.inv,
         ~EqpAhead(call'[h]) => eqp' = db'.eqp,
         ~StoreAhead(call'[h]) => wh' = db'.wh,
         ~CashAhead(call'[h]) => cash' = db'.cash
  PROVE  MapInv'
  <1>1. ASSUME NEW g \in Handlers, g # h
        PROVE  Owes(call'[g], Local', db') /\ Based(call[g])'
    <2>1. call'[g].at = "idle"
      BY <1>1
    <2> QED
      BY <2>1, IdleOwes, OwesNothing, BasedUnless
  <1>2. MapsEqual'
    BY DEF MapsEqual
  <1> QED
    BY <1>1, <1>2 DEF MapInv

\* An answer gives one map.
LEMMA GivesOnce ==
  ASSUME NEW m, NEW f, NEW g, NEW k
  PROVE  /\ m.cmd \in InvCommands /\ Gives(m, f, g) /\ Gives(m, f, k) => g = k
         /\ m.cmd \in EqpCommands /\ EqGives(m, f, g) /\ EqGives(m, f, k) => g = k
  <1>1. CASE m.cmd = "ForceCoreEnchant"
    BY <1>1, Zenon DEF Gives, EqpCommands
  <1>2. CASE m.cmd # "ForceCoreEnchant"
    BY <1>2 DEF Gives, EqGives, InvCommands, EqpCommands
  <1> QED
    BY <1>1, <1>2

\* While h has the mutex of the inventory and is not answered, its map is current.
LEMMA InvCurrent ==
  ASSUME Base, Overlap, Apart, MapInv, NEW h \in Handlers, Holds(call[h], InvCommands)
  PROVE  /\ \A g \in Handlers : g # h => ~Holds(call[g], InvCommands)
         /\ \A g \in Handlers : g # h => ~InvAhead(call[g])
         /\ \A g \in Handlers : g # h => ~StoreAhead(call[g]) /\ ~CashAhead(call[g]) /\ ~ListAhead(call[g])
         /\ ~StoreAhead(call[h]) /\ ~CashAhead(call[h]) /\ ~ListAhead(call[h]) /\ ~EqpAhead(call[h])
         /\ wh = db.wh /\ cash = db.cash
         /\ ~InvAhead(call[h]) => inv = db.inv
  <1>1. \A g \in Handlers : g # h => ~Holds(call[g], InvCommands)
    BY DEF Base, LockOK
  <1>2. \A g \in Handlers : g # h => ~InvAhead(call[g])
    BY <1>1 DEF InvAhead, Acknowledged, Holds
  <1>3. \A g \in Handlers : g # h => ~StoreAhead(call[g]) /\ ~CashAhead(call[g]) /\ ~ListAhead(call[g])
    BY NoneBeside DEF Holds
  <1>4. ~StoreAhead(call[h]) /\ ~CashAhead(call[h]) /\ ~ListAhead(call[h]) /\ ~EqpAhead(call[h])
    BY Kinship DEF StoreAhead, CashAhead, ListAhead, EqpAhead, Acknowledged, Holds, BareCommands
  <1> QED
    BY <1>1, <1>2, <1>3, <1>4 DEF MapInv, MapsEqual

\* The same for the equipment.
LEMMA EqpCurrent ==
  ASSUME Base, Overlap, Apart, MapInv, NEW h \in Handlers, Holds(call[h], EqpCommands)
  PROVE  /\ \A g \in Handlers : g # h => ~Holds(call[g], EqpCommands)
         /\ \A g \in Handlers : g # h => ~EqpAhead(call[g])
         /\ \A g \in Handlers : g # h => ~StoreAhead(call[g]) /\ ~CashAhead(call[g]) /\ ~ListAhead(call[g])
         /\ ~StoreAhead(call[h]) /\ ~CashAhead(call[h]) /\ ~ListAhead(call[h]) /\ ~InvAhead(call[h])
         /\ wh = db.wh /\ cash = db.cash
         /\ ~EqpAhead(call[h]) => eqp = db.eqp
  <1>1. \A g \in Handlers : g # h => ~Holds(call[g], EqpCommands)
    BY DEF Base, LockOK
  <1>2. \A g \in Handlers : g # h => ~EqpAhead(call[g])
    BY <1>1 DEF EqpAhead, Acknowledged, Holds
  <1>3. \A g \in Handlers : g # h => ~StoreAhead(call[g]) /\ ~CashAhead(call[g]) /\ ~ListAhead(call[g])
    BY NoneBeside DEF Holds
  <1>4. ~StoreAhead(call[h]) /\ ~CashAhead(call[h]) /\ ~ListAhead(call[h]) /\ ~InvAhead(call[h])
    BY Kinship DEF StoreAhead, CashAhead, ListAhead, InvAhead, Acknowledged, Holds, BareCommands
  <1> QED
    BY <1>1, <1>2, <1>3, <1>4 DEF MapInv, MapsEqual

\* The goroutines that hold no mutex owe nothing, in a step that changes no map.
LEMMA OthersKept ==
  ASSUME MapInv, NEW h \in Handlers, NEW g \in Handlers, g # h, call'[g] = call[g],
         ~StoreAhead(call[g]) /\ ~CashAhead(call[g]) /\ ~ListAhead(call[g]),
         InvAhead(call[g]) => inv' = inv /\ db'.inv = db.inv,
         EqpAhead(call[g]) => eqp' = eqp /\ db'.eqp = db.eqp
  PROVE  Owes(call'[g], Local', db')
  <1>1. PICK c, f, k, d, e : c = call[g] /\ f = Local /\ k = Local' /\ d = db /\ e = db'
    OBVIOUS
  <1>2. Owes(c, f, d)
    BY <1>1 DEF MapInv
  <1>3. /\ f.inv = inv /\ f.eqp = eqp /\ k.inv = inv' /\ k.eqp = eqp'
    BY <1>1 DEF Local
  <1>4. /\ InvAhead(c) => k.inv = f.inv /\ e.inv = d.inv
        /\ EqpAhead(c) => k.eqp = f.eqp /\ e.eqp = d.eqp
        /\ ~StoreAhead(c) /\ ~CashAhead(c) /\ ~ListAhead(c)
    BY <1>1, <1>3
  <1>5. Owes(c, k, e)
    BY <1>2, <1>4 DEF Owes
  <1> QED
    BY <1>1, <1>5

\* The master's answer to a request whose mutex h holds is what the tables do,
\* as far as the maps know.
LEMMA ExactInv ==
  ASSUME Base, NEW h \in Handlers, call[h].at = "rpc", call[h].m.cmd \in InvCommands, Based(call[h]),
         inv = db.inv, NoLastUnit, OneStack
  PROVE  Exact(call[h].m)
  <1>1. PICK c : c = call[h]
    OBVIOUS
  <1>2. /\ c.m.cmd = "MoveItem" => db.inv[c.m.slot] # NoItem
        /\ c.m.cmd = "StackItem" => db.inv[c.m.slot] # NoItem /\ c.m.item = [db.inv[c.m.slot] EXCEPT !.opt = c.m.item.opt]
    BY <1>1 DEF Based, Sees
  <1>3. c.m.cmd = "StackItem" => \A s \in Slots : db.inv[s].kind = c.m.item.kind => s = c.m.slot
    BY <1>1 DEF OneStack
  <1>4. c.m.cmd = "ForceCoreEnchant" => \A p \in c.m.others : p.item.opt # 1
    BY <1>1 DEF NoLastUnit
  <1> QED
    BY <1>1, <1>2, <1>3, <1>4 DEF Exact, InvCommands

\* The same for the equipment.
LEMMA ExactEqp ==
  ASSUME NEW h \in Handlers, call[h].at = "rpc", call[h].m.cmd \in EqpCommands, Based(call[h]), eqp = db.eqp
  PROVE  Exact(call[h].m)
  <1>1. call[h].m.cmd = "MoveEquipmentItem" => db.eqp[call[h].m.slot] # NoItem
    BY DEF Based
  <1> QED
    BY <1>1 DEF Exact, EqpCommands

\* What the master does for a request of the inventory.
LEMMA MapsServedInv ==
  ASSUME Base, Overlap, Apart, MapInv, NoLastUnit, OneStack, Still, NEW h \in Handlers, Served(h),
         call[h].m.cmd \in InvCommands, call'[h].res = "ok"
  PROVE  MapInv'
  <1>1. PICK c, d, m : c = call[h] /\ d = call'[h] /\ m = c.m
    OBVIOUS
  <1>2. /\ \A g \in Handlers : g # h => call'[g] = call[g]
        /\ c.at = "rpc" /\ d.at = "reply" /\ d.m = m /\ Effect(m) /\ d.res = "ok"
    BY <1>1, ServedRecord
  <1>3. Holds(call[h], InvCommands) /\ ~InvAhead(call[h])
    BY <1>1, <1>2 DEF Holds, InvAhead, Acknowledged
  <1>4. inv = db.inv /\ wh = db.wh /\ cash = db.cash
    BY <1>3, InvCurrent
  <1>5. Exact(m)
    BY <1>1, <1>2, <1>4, ExactInv DEF MapInv
  <1>6. /\ db'.eqp = db.eqp /\ db'.wh = db.wh /\ db'.cash = db.cash
        /\ Gives(m, db.inv, db'.inv)
    BY <1>1, <1>2, <1>5 DEF Effect
  <1>7. UNCHANGED <<inv, eqp, wh, cash>>
    BY DEF Still, rest
  <1>8. InvAhead(d) /\ ~EqpAhead(d) /\ ~StoreAhead(d) /\ ~CashAhead(d) /\ ~ListAhead(d)
    BY <1>1, <1>2, Kinship DEF InvAhead, EqpAhead, StoreAhead, CashAhead, ListAhead, Acknowledged, BareCommands
  <1>9. Owes(call'[h], Local', db')
    <2>1. Gives(m, inv', db'.inv)
      BY <1>4, <1>6, <1>7
    <2>2. Local'.inv = inv'
      BY DEF Local
    <2> QED
      BY <1>1, <1>2, <1>8, <2>1, <2>2 DEF Owes
  <1>10. ASSUME NEW g \in Handlers, g # h
         PROVE  Owes(call'[g], Local', db')
    BY <1>2, <1>3, <1>6, <1>7, <1>10, InvCurrent, OthersKept
  <1>11. ~Looks(call'[h])
    BY <1>1, <1>2 DEF Looks, Looting
  <1>12. \A g \in Handlers : Based(call[g])'
    BY <1>2, <1>7, <1>11, BasedUnless, BasedStays DEF MapInv
  <1>13. \A g \in Handlers : EqpAhead(call'[g]) <=> EqpAhead(call[g])
    BY <1>1, <1>2, <1>3, <1>8, InvCurrent
  <1>14. MapsEqual'
    BY <1>1, <1>4, <1>6, <1>7, <1>8, <1>13 DEF MapsEqual, MapInv
  <1> QED
    BY <1>9, <1>10, <1>12, <1>14 DEF MapInv

\* The same for the equipment.
LEMMA MapsServedEqp ==
  ASSUME Base, Overlap, Apart, MapInv, Still, NEW h \in Handlers, Served(h),
         call[h].m.cmd \in EqpCommands, call'[h].res = "ok"
  PROVE  MapInv'
  <1>1. PICK c, d, m : c = call[h] /\ d = call'[h] /\ m = c.m
    OBVIOUS
  <1>2. /\ \A g \in Handlers : g # h => call'[g] = call[g]
        /\ c.at = "rpc" /\ d.at = "reply" /\ d.m = m /\ Effect(m) /\ d.res = "ok"
    BY <1>1, ServedRecord
  <1>3. Holds(call[h], EqpCommands) /\ ~EqpAhead(call[h])
    BY <1>1, <1>2 DEF Holds, EqpAhead, Acknowledged
  <1>4. eqp = db.eqp /\ wh = db.wh /\ cash = db.cash
    BY <1>3, EqpCurrent
  <1>5. Exact(m)
    BY <1>1, <1>2, <1>4, ExactEqp DEF MapInv
  <1>6. /\ db'.inv = db.inv /\ db'.wh = db.wh /\ db'.cash = db.cash
        /\ EqGives(m, db.eqp, db'.eqp)
    BY <1>1, <1>2, <1>5 DEF Effect
  <1>7. UNCHANGED <<inv, eqp, wh, cash>>
    BY DEF Still, rest
  <1>8. EqpAhead(d) /\ ~InvAhead(d) /\ ~StoreAhead(d) /\ ~CashAhead(d) /\ ~ListAhead(d)
    BY <1>1, <1>2, Kinship DEF InvAhead, EqpAhead, StoreAhead, CashAhead, ListAhead, Acknowledged, BareCommands
  <1>9. Owes(call'[h], Local', db')
    <2>1. EqGives(m, eqp', db'.eqp)
      BY <1>4, <1>6, <1>7
    <2>2. Local'.eqp = eqp'
      BY DEF Local
    <2> QED
      BY <1>1, <1>2, <1>8, <2>1, <2>2 DEF Owes
  <1>10. ASSUME NEW g \in Handlers, g # h
         PROVE  Owes(call'[g], Local', db')
    BY <1>2, <1>3, <1>6, <1>7, <1>10, EqpCurrent, OthersKept
  <1>11. ~Looks(call'[h])
    BY <1>1, <1>2 DEF Looks, Looting
  <1>12. \A g \in Handlers : Based(call[g])'
    BY <1>2, <1>7, <1>11, BasedUnless, BasedStays DEF MapInv
  <1>13. \A g \in Handlers : /\ InvAhead(call'[g]) <=> InvAhead(call[g])
                             /\ ~StoreAhead(call'[g]) /\ ~CashAhead(call'[g])
                             /\ ~StoreAhead(call[g]) /\ ~CashAhead(call[g])
    BY <1>1, <1>2, <1>3, <1>8, EqpCurrent
  <1>14. MapsEqual'
    BY <1>1, <1>4, <1>6, <1>7, <1>8, <1>13 DEF MapsEqual, MapInv
  <1> QED
    BY <1>9, <1>10, <1>12, <1>14 DEF MapInv

\* An answer that is applied to the inventory.
LEMMA MapsReturnedInv ==
  ASSUME Base, Overlap, Apart, MapInv, UNCHANGED rest, NEW h \in Handlers, Returned(h),
         call[h].m.cmd \in InvCommands, call[h].res = "ok"
  PROVE  MapInv'
  <1>1. PICK c, d, m : c = call[h] /\ d = call'[h] /\ m = c.m
    OBVIOUS
  <1>2. /\ \A g \in Handlers : g # h => call'[g] = call[g]
        /\ c.at = "reply" /\ ~Busy(d) /\ d.at \notin Looting \cup {"storage.set", "cash.remove"} /\ db' = db
    BY <1>1, ReturnedRecord
  <1>3. Holds(call[h], InvCommands) /\ InvAhead(call[h])
    BY <1>1, <1>2 DEF Holds, InvAhead, Acknowledged
  <1>4. wh = db.wh /\ cash = db.cash
    BY <1>3, InvCurrent
  <1>5. Gives(m, inv, inv') /\ eqp' = eqp
    BY <1>1 DEF Returned
  <1>6. Gives(m, inv, db.inv)
    BY <1>1, <1>3 DEF MapInv, Owes, Local
  <1>7. inv' = db.inv
    BY <1>1, <1>5, <1>6, GivesOnce
  <1>8. UNCHANGED <<wh, cash>>
    BY DEF rest
  <1>9. ~Pending(d) /\ ~Looks(call'[h])
    BY <1>1, <1>2 DEF Pending, Looks, InvAhead, EqpAhead, StoreAhead, CashAhead, ListAhead, Acknowledged, Busy
  <1>10. Owes(call'[h], Local', db')
    BY <1>1, <1>9, OwesNothing
  <1>11. ASSUME NEW g \in Handlers, g # h
         PROVE  Owes(call'[g], Local', db') /\ Based(call[g])'
    <2>1. Owes(call'[g], Local', db')
      BY <1>2, <1>3, <1>5, <1>11, InvCurrent, OthersKept
    <2>2. CASE Looks(call[g])
      <3>1. call[g].at = "rpc" /\ call[g].m.cmd = "MoveEquipmentItem"
        <4>1. call[g].at = "rpc" /\ call[g].m.cmd \in {"MoveItem", "MoveEquipmentItem"}
          BY <1>1, <1>2, <1>11, <2>2, NoneBeside
        <4>2. ~Holds(call[g], InvCommands)
          BY <1>3, <1>11, InvCurrent
        <4> QED
          BY <4>1, <4>2 DEF Holds, InvCommands
      <3>2. eqp[call[g].m.slot] # NoItem
        BY <3>1 DEF MapInv, Based
      <3> QED
        BY <1>2, <1>5, <1>11, <2>1, <3>1, <3>2 DEF Based, Sees, Looting
    <2>3. CASE ~Looks(call[g])
      BY <1>2, <1>11, <2>1, <2>3, BasedUnless
    <2> QED
      BY <2>2, <2>3
  <1>12. \A g \in Handlers : EqpAhead(call'[g]) <=> EqpAhead(call[g])
    BY <1>1, <1>2, <1>3, <1>9, InvCurrent DEF Pending
  <1>13. MapsEqual'
    BY <1>2, <1>4, <1>5, <1>7, <1>8, <1>12 DEF MapsEqual, MapInv
  <1> QED
    BY <1>9, <1>10, <1>11, <1>13, BasedUnless DEF MapInv

\* An answer that is applied to the equipment.
LEMMA MapsReturnedEqp ==
  ASSUME Base, Overlap, Apart, MapInv, UNCHANGED rest, NEW h \in Handlers, Returned(h),
         call[h].m.cmd \in EqpCommands, call[h].res = "ok"
  PROVE  MapInv'
  <1>1. PICK c, d, m : c = call[h] /\ d = call'[h] /\ m = c.m
    OBVIOUS
  <1>2. /\ \A g \in Handlers : g # h => call'[g] = call[g]
        /\ c.at = "reply" /\ ~Busy(d) /\ d.at \notin Looting \cup {"storage.set", "cash.remove"} /\ db' = db
    BY <1>1, ReturnedRecord
  <1>3. Holds(call[h], EqpCommands) /\ EqpAhead(call[h])
    BY <1>1, <1>2 DEF Holds, EqpAhead, Acknowledged
  <1>4. wh = db.wh /\ cash = db.cash
    BY <1>3, EqpCurrent
  <1>5. EqGives(m, eqp, eqp') /\ inv' = inv
    BY <1>1 DEF Returned
  <1>6. EqGives(m, eqp, db.eqp)
    BY <1>1, <1>3 DEF MapInv, Owes, Local
  <1>7. eqp' = db.eqp
    BY <1>1, <1>5, <1>6, GivesOnce
  <1>8. UNCHANGED <<wh, cash>>
    BY DEF rest
  <1>9. ~Pending(d) /\ ~Looks(call'[h])
    BY <1>1, <1>2 DEF Pending, Looks, InvAhead, EqpAhead, StoreAhead, CashAhead, ListAhead, Acknowledged, Busy
  <1>10. Owes(call'[h], Local', db')
    BY <1>1, <1>9, OwesNothing
  <1>11. ASSUME NEW g \in Handlers, g # h
         PROVE  Owes(call'[g], Local', db') /\ Based(call[g])'
    <2>1. Owes(call'[g], Local', db')
      BY <1>2, <1>3, <1>5, <1>11, EqpCurrent, OthersKept
    <2>2. CASE Looks(call[g])
      <3>1. call[g].at = "rpc" /\ call[g].m.cmd = "MoveItem"
        <4>1. call[g].at = "rpc" /\ call[g].m.cmd \in {"MoveItem", "MoveEquipmentItem"}
          BY <1>1, <1>2, <1>11, <2>2, NoneBeside
        <4>2. ~Holds(call[g], EqpCommands)
          BY <1>3, <1>11, EqpCurrent
        <4> QED
          BY <4>1, <4>2 DEF Holds, EqpCommands
      <3>2. inv[call[g].m.slot] # NoItem
        BY <3>1 DEF MapInv, Based
      <3> QED
        BY <1>2, <1>5, <1>11, <2>1, <3>1, <3>2 DEF Based, Sees, Looting
    <2>3. CASE ~Looks(call[g])
      BY <1>2, <1>11, <2>1, <2>3, BasedUnless
    <2> QED
      BY <2>2, <2>3
  <1>12. \A g \in Handlers : /\ InvAhead(call'[g]) <=> InvAhead(call[g])
                             /\ StoreAhead(call'[g]) <=> StoreAhead(call[g])
                             /\ CashAhead(call'[g]) <=> CashAhead(call[g])
    BY <1>1, <1>2, <1>3, <1>9, EqpCurrent DEF Pending
  <1>13. MapsEqual'
    BY <1>2, <1>4, <1>5, <1>7, <1>8, <1>12 DEF MapsEqual, MapInv
  <1> QED
    BY <1>9, <1>10, <1>11, <1>13, BasedUnless DEF MapInv

\* While a packet of Solo has changed nothing, the maps are the tables.
LEMMA SoloCurrent ==
  ASSUME Overlap, Apart, MapInv, NEW h \in Handlers, call[h].op \in Solo, call[h].at # "idle"
  PROVE  /\ \A g \in Handlers : g # h => call[g].at = "idle"
         /\ ~Pending(call[h]) => inv = db.inv
         /\ ~EqpAhead(call[h]) => eqp = db.eqp
         /\ ~StoreAhead(call[h]) => wh = db.wh
         /\ ~CashAhead(call[h]) => cash = db.cash
  <1>1. \A g \in Handlers : g # h => call[g].at = "idle"
    BY Solitude
  <1>2. \A g \in Handlers : g # h => ~Pending(call[g])
    BY <1>1, IdleOwes
  <1> QED
    BY <1>1, <1>2 DEF Pending, MapInv, MapsEqual

\* It is that.
LEMMA StoresCases ==
  ASSUME NEW d, NEW f, NEW g, d.m.table \in Tables, d.m.target \in Tables, "wh" \in {d.m.table, d.m.target}
  PROVE  StoresSplit(d, f, g)
  <1>1. CASE d.m.table = "inv" /\ d.m.target = "wh"
    BY <1>1 DEF Stores, StoresSplit
  <1>2. CASE d.m.table = "wh" /\ d.m.target = "inv"
    BY <1>2 DEF Stores, StoresSplit
  <1>3. CASE d.m.table = "wh" /\ d.m.target = "wh"
    BY <1>3 DEF Stores, StoresSplit
  <1> QED
    BY <1>1, <1>2, <1>3 DEF Tables

\* An item moves between the tables of inventory and warehouse.
LEMMA MapsServedStorage ==
  ASSUME Base, Overlap, Apart, MapInv, Still, NEW h \in Handlers, Served(h),
         call[h].m.cmd = "StorageMove", call'[h].res = "ok"
  PROVE  MapInv'
  <1>1. PICK c, d, m : c = call[h] /\ d = call'[h] /\ m = c.m
    OBVIOUS
  <1>2. /\ \A g \in Handlers : g # h => call'[g] = call[g]
        /\ c.at = "rpc" /\ d.at = "reply" /\ d.m = m /\ d.moved = c.moved /\ Effect(m) /\ d.res = "ok"
    BY <1>1, ServedRecord
  <1>3. c.op = "Storage" /\ m.table \in Tables /\ m.target \in Tables /\ "wh" \in {m.table, m.target}
    BY <1>1, <1>2, BaseOf DEF Good, SentOK, Busy, RequestOK
  <1>4. ~Pending(c)
    BY <1>2 DEF Pending, InvAhead, EqpAhead, StoreAhead, CashAhead, ListAhead, Acknowledged
  <1>5. /\ \A g \in Handlers : g # h => call[g].at = "idle"
        /\ inv = db.inv /\ eqp = db.eqp /\ wh = db.wh /\ cash = db.cash
    BY <1>1, <1>2, <1>3, <1>4, SoloCurrent DEF Solo, Pending
  <1>6. UNCHANGED <<inv, eqp, wh, cash>>
    BY DEF Still, rest
  <1>7. ~InvAhead(d) /\ ~EqpAhead(d) /\ ~CashAhead(d) /\ ~ListAhead(d) /\ ~Looks(call'[h])
    BY <1>1, <1>2 DEF InvAhead, EqpAhead, CashAhead, ListAhead, Acknowledged, InvCommands, EqpCommands, Looks, Looting
  <1>8. Based(call[h])'
    BY <1>7, BasedUnless
  <1>9. CASE m.table = m.target /\ m.slot = m.to
    <2>1. ~StoreAhead(d)
      BY <1>1, <1>2, <1>9 DEF StoreAhead, Acknowledged
    <2>2. db' = db
      BY <1>1, <1>2, <1>9 DEF Effect
    <2> QED
      BY <1>1, <1>2, <1>4, <1>6, <1>7, <1>8, <2>1, <2>2, MapsKept DEF Pending
  <1>10. CASE ~(m.table = m.target /\ m.slot = m.to)
    <2>1. StoreAhead(d)
      BY <1>1, <1>2, <1>10 DEF StoreAhead, Acknowledged
    <2>2. /\ db'.eqp = db.eqp /\ db'.cash = db.cash
          /\ m.table = "inv" =>
               /\ db'.inv = [inv EXCEPT ![m.slot] = NoItem]
               /\ db'.wh = [wh EXCEPT ![m.to] = inv[m.slot]]
          /\ m.target = "inv" =>
               /\ db'.wh = [wh EXCEPT ![m.slot] = NoItem]
               /\ db'.inv = [inv EXCEPT ![m.to] = wh[m.slot]]
          /\ m.table = m.target =>
               /\ db'.inv = inv
               /\ db'.wh = [wh EXCEPT ![m.slot] = NoItem, ![m.to] = wh[m.slot]]
      BY <1>1, <1>2, <1>5, <1>10 DEF Effect
    <2>3. c.moved = Storage(m.table)[m.slot]
      BY <1>1, <1>2 DEF MapInv, Based, Sees
    <2>4. Local'.inv = inv /\ Local'.wh = wh
      BY <1>6 DEF Local
    <2>5. Stores(d, Local', db')
      <3>1. PICK k, e : k = Local' /\ e = db'
        OBVIOUS
      <3>2. StoresSplit(d, k, e)
        BY <1>2, <1>3, StoresCases
      <3>3. /\ m.table = "inv" => Stores(d, k, e)
            /\ m.target = "inv" => Stores(d, k, e)
            /\ m.table = m.target => Stores(d, k, e)
        <4>1. k.inv = inv /\ k.wh = wh
          BY <2>4, <3>1
        <4>2. CASE m.table = "inv"
          <5>1. m.target = "wh" /\ c.moved = inv[m.slot]
            BY <1>3, <2>3, <4>2 DEF Tables, Storage
          <5>2. e.inv = [k.inv EXCEPT ![d.m.slot] = NoItem] /\ e.wh = [k.wh EXCEPT ![d.m.to] = d.moved]
            BY <1>2, <2>2, <3>1, <4>1, <4>2, <5>1
          <5>3. Stores(d, k, e)
            BY <1>2, <3>2, <4>2, <5>2 DEF StoresSplit
          <5> QED
            BY <5>3
        <4>3. CASE m.target = "inv"
          <5>1. m.table = "wh" /\ c.moved = wh[m.slot]
            BY <1>3, <2>3, <4>3 DEF Tables, Storage
          <5>2. e.inv = [k.inv EXCEPT ![d.m.to] = d.moved] /\ e.wh = [k.wh EXCEPT ![d.m.slot] = NoItem]
            BY <1>2, <2>2, <3>1, <4>1, <4>3, <5>1
          <5>3. Stores(d, k, e)
            BY <1>2, <3>2, <4>3, <5>2 DEF StoresSplit
          <5> QED
            BY <5>3
        <4>4. CASE m.table = m.target
          <5>1. m.table = "wh" /\ c.moved = wh[m.slot]
            BY <1>3, <2>3, <4>4 DEF Tables, Storage
          <5>2. e.inv = k.inv /\ e.wh = [[k.wh EXCEPT ![d.m.slot] = NoItem] EXCEPT ![d.m.to] = d.moved]
            BY <1>2, <2>2, <3>1, <4>1, <4>4, <5>1
          <5>3. Stores(d, k, e)
            BY <1>2, <3>2, <4>4, <5>2 DEF StoresSplit
          <5> QED
            BY <5>3
        <4> QED
          BY <4>2, <4>3, <4>4
      <3>4. Stores(d, k, e)
        BY <1>3, <3>3 DEF Tables
      <3> QED
        BY <3>1, <3>4
    <2>6. Owes(d, Local', db')
      BY <1>7, <2>5 DEF Owes
    <2> QED
      BY <1>1, <1>2, <1>5, <1>6, <1>8, <2>1, <2>2, <2>6, MapsAlone
  <1> QED
    BY <1>9, <1>10

\* An item goes from the table of the cash inventory to that of the inventory.
LEMMA MapsServedCash ==
  ASSUME Base, Overlap, Apart, MapInv, Still, NEW h \in Handlers, Served(h),
         call[h].m.cmd = "UseCashItem", call'[h].res = "ok"
  PROVE  MapInv'
  <1>1. PICK c, d, m : c = call[h] /\ d = call'[h] /\ m = c.m
    OBVIOUS
  <1>2. /\ \A g \in Handlers : g # h => call'[g] = call[g]
        /\ c.at = "rpc" /\ d.at = "reply" /\ d.m = m /\ Effect(m) /\ d.res = "ok"
    BY <1>1, ServedRecord
  <1>3. c.op = "UseCash"
    BY <1>1, <1>2, BaseOf DEF Good, SentOK, Busy
  <1>4. ~Pending(c)
    BY <1>2 DEF Pending, InvAhead, EqpAhead, StoreAhead, CashAhead, ListAhead, Acknowledged
  <1>5. /\ \A g \in Handlers : g # h => call[g].at = "idle"
        /\ inv = db.inv /\ eqp = db.eqp /\ wh = db.wh /\ cash = db.cash
    BY <1>1, <1>2, <1>3, <1>4, SoloCurrent DEF Solo, Pending
  <1>6. UNCHANGED <<inv, eqp, wh, cash>>
    BY DEF Still, rest
  <1>7. ~InvAhead(d) /\ ~EqpAhead(d) /\ ~StoreAhead(d) /\ ~ListAhead(d) /\ ~Looks(call'[h])
    BY <1>1, <1>2 DEF InvAhead, EqpAhead, StoreAhead, ListAhead, Acknowledged, InvCommands, EqpCommands, Looks, Looting
  <1>8. Based(call[h])' /\ CashAhead(d)
    BY <1>1, <1>2, <1>7, BasedUnless DEF CashAhead, Acknowledged
  <1>9. /\ db'.eqp = db.eqp /\ db'.wh = db.wh
        /\ db'.inv = [inv EXCEPT ![m.slot] = m.item] /\ db'.cash = [cash EXCEPT ![m.to] = NoItem]
    BY <1>1, <1>2, <1>5 DEF Effect
  <1>10. Local'.inv = inv /\ Local'.cash = cash
    BY <1>6 DEF Local
  <1>11. Owes(d, Local', db')
    BY <1>2, <1>7, <1>9, <1>10 DEF Owes, Takes
  <1> QED
    BY <1>1, <1>2, <1>5, <1>6, <1>8, <1>9, <1>11, MapsAlone

\* The cash inventory is read from its table.
LEMMA MapsServedList ==
  ASSUME Base, Overlap, Apart, MapInv, Still, NEW h \in Handlers, Served(h),
         call[h].m.cmd = "LoadCashInventory", call'[h].res = "ok"
  PROVE  MapInv'
  <1>1. PICK c, d, m : c = call[h] /\ d = call'[h] /\ m = c.m
    OBVIOUS
  <1>2. /\ \A g \in Handlers : g # h => call'[g] = call[g]
        /\ c.at = "rpc" /\ d.at = "reply" /\ d.m = m /\ Effect(m) /\ d.res = "ok" /\ d.list = db.cash
    BY <1>1, ServedRecord
  <1>3. c.op = "QueryCash"
    BY <1>1, <1>2, BaseOf DEF Good, SentOK, Busy
  <1>4. ~Pending(c)
    BY <1>2 DEF Pending, InvAhead, EqpAhead, StoreAhead, CashAhead, ListAhead, Acknowledged
  <1>5. /\ \A g \in Handlers : g # h => call[g].at = "idle"
        /\ inv = db.inv /\ eqp = db.eqp /\ wh = db.wh /\ cash = db.cash
    BY <1>1, <1>2, <1>3, <1>4, SoloCurrent DEF Solo, Pending
  <1>6. UNCHANGED <<inv, eqp, wh, cash>> /\ db' = db
    BY <1>1, <1>2 DEF Still, rest, Effect
  <1>7. ~InvAhead(d) /\ ~EqpAhead(d) /\ ~StoreAhead(d) /\ ~CashAhead(d) /\ ~Looks(call'[h])
    BY <1>1, <1>2 DEF InvAhead, EqpAhead, StoreAhead, CashAhead, Acknowledged, InvCommands, EqpCommands, Looks, Looting
  <1>8. Based(call[h])'
    BY <1>7, BasedUnless
  <1>9. Owes(d, Local', db')
    BY <1>2, <1>6, <1>7 DEF Owes
  <1> QED
    BY <1>1, <1>2, <1>5, <1>6, <1>8, <1>9, MapsAlone

\* Any transaction of the master.
LEMMA MapsServed ==
  ASSUME Base, Overlap, Apart, MapInv, NoLastUnit, OneStack, Still, NEW h \in Handlers, Served(h)
  PROVE  MapInv'
  <1>1. /\ \A g \in Handlers : g # h => call'[g] = call[g]
        /\ call[h].at = "rpc" /\ call'[h].at = "reply"
        /\ call'[h].res # "ok" => db' = db
    BY ServedRecord
  <1>2. CASE call'[h].res = "ok"
    <2>1. call[h].m.cmd \in InvCommands \cup EqpCommands \cup BareCommands
      BY <1>1, BaseOf DEF Good, RequestOK, SentOK, Busy
    <2> QED
      BY <1>2, <2>1, MapsServedInv, MapsServedEqp, MapsServedStorage, MapsServedCash, MapsServedList DEF BareCommands
  <1>3. CASE call'[h].res # "ok"
    <2>1. UNCHANGED <<inv, eqp, wh, cash>>
      BY DEF Still, rest
    <2>2. ~Pending(call[h]) /\ ~Pending(call'[h]) /\ ~Looks(call'[h])
      BY <1>1, <1>3 DEF Pending, Looks, Looting, InvAhead, EqpAhead, StoreAhead, CashAhead, ListAhead, Acknowledged
    <2> QED
      BY <1>1, <1>3, <2>1, <2>2, BasedUnless, MapsKept
  <1> QED
    BY <1>2, <1>3

\* A handler goes on.
LEMMA MapsQuiet ==
  ASSUME Base, MapInv, NEW h \in Handlers, Quiet(h)
  PROVE  MapInv'
  <1>1. PICK d : /\ Becomes(h, d) /\ Good(d) /\ d.at \notin Due
                 /\ Sees(call[h]) => Sees(d)
                 /\ d.at = "rpc" => d.m.cmd \in BareCommands
    BY DEF Quiet
  <1>2. call'[h] = d /\ \A g \in Handlers : g # h => call'[g] = call[g]
    BY <1>1, BecomesEffect DEF Base
  <1>3. UNCHANGED <<inv, eqp, wh, cash, db>> /\ call[h].at \notin Due
    BY DEF Quiet, Calm
  <1>4. ~Pending(call[h]) /\ ~Pending(d)
    BY <1>1, <1>3 DEF Pending, Due, InvAhead, EqpAhead, StoreAhead, CashAhead, ListAhead, Acknowledged
  <1>5. Sees(d)
    BY <1>1 DEF MapInv, Based
  <1>6. Sees(call[h])'
    <2>1. /\ d.at \in Looting /\ d.ok => inv[d.slot] # NoItem
          /\ d.at \in {"call", "rpc"} /\ d.m.cmd = "StackItem" =>
               inv[d.m.slot] # NoItem /\ d.m.item = [inv[d.m.slot] EXCEPT !.opt = d.m.item.opt]
          /\ d.at = "rpc" /\ d.m.cmd = "StorageMove" => d.moved = IF d.m.table = "inv" THEN inv[d.m.slot] ELSE wh[d.m.slot]
      BY <1>5 DEF Sees, Storage
    <2> QED
      BY <1>2, <1>3, <2>1 DEF Sees, Storage
  <1>7. Based(call[h])'
    BY <1>1, <1>2, <1>6 DEF Based, BareCommands
  <1> QED
    BY <1>2, <1>3, <1>4, <1>7, MapsKept

\* A method sends, or returns without a call.
LEMMA MapsSent ==
  ASSUME Base, MapInv, UNCHANGED rest, NEW h \in Handlers, Sent(h)
  PROVE  MapInv'
  <1>1. /\ \A g \in Handlers : g # h => call'[g] = call[g]
        /\ call[h].at = "call" /\ call'[h].at = "rpc"
        /\ call'[h].m.cmd = call[h].m.cmd /\ call'[h].m.cmd \in InvCommands \cup EqpCommands
        /\ call'[h].m.cmd \notin {"ConsumeItem", "EnchantItem", "AttachItem"} => call'[h].m = call[h].m
        /\ call'[h].m.cmd = "MoveItem" => inv[call'[h].m.slot] # NoItem
        /\ call'[h].m.cmd = "MoveEquipmentItem" => eqp[call'[h].m.slot] # NoItem
        /\ UNCHANGED <<inv, eqp, db, wh, cash>>
    BY SentRecord DEF rest
  <1>2. ~Pending(call[h]) /\ ~Pending(call'[h])
    BY <1>1 DEF Pending, InvAhead, EqpAhead, StoreAhead, CashAhead, ListAhead, Acknowledged
  <1>3. Sees(call[h])
    BY DEF MapInv, Based
  <1>4. call'[h].m.cmd # "StorageMove"
    BY <1>1 DEF InvCommands, EqpCommands
  <1>5. Sees(call[h])'
    <2>1. PICK c, d : c = call[h] /\ d = call'[h]
      OBVIOUS
    <2>2. d.m.cmd = "StackItem" =>
               inv[d.m.slot] # NoItem /\ d.m.item = [inv[d.m.slot] EXCEPT !.opt = d.m.item.opt]
      BY <1>1, <1>3, <2>1 DEF Sees
    <2> QED
      BY <1>1, <1>4, <2>1, <2>2 DEF Sees, Looting
  <1>6. Based(call[h])'
    BY <1>1, <1>5 DEF Based
  <1> QED
    BY <1>1, <1>2, <1>6, MapsKept

\* A record that does not look and does not owe.
LEMMA MapsDeclined ==
  ASSUME Base, MapInv, UNCHANGED rest, NEW h \in Handlers, Declined(h)
  PROVE  MapInv'
  <1>1. /\ \A g \in Handlers : g # h => call'[g] = call[g]
        /\ call[h].at = "call" /\ ~Busy(call'[h]) /\ call'[h].at \notin Looting \cup {"storage.set", "cash.remove"}
        /\ UNCHANGED <<inv, eqp, db, wh, cash>>
    BY DeclinedRecord DEF rest
  <1>2. ~Pending(call[h]) /\ ~Pending(call'[h]) /\ ~Looks(call'[h])
    BY <1>1 DEF Pending, InvAhead, EqpAhead, StoreAhead, CashAhead, ListAhead, Acknowledged, Looks, Busy
  <1> QED
    BY <1>1, <1>2, BasedUnless, MapsKept

\* A method returns.
LEMMA MapsReturned ==
  ASSUME Base, Overlap, Apart, MapInv, UNCHANGED rest, NEW h \in Handlers, Returned(h)
  PROVE  MapInv'
  <1>1. /\ \A g \in Handlers : g # h => call'[g] = call[g]
        /\ call[h].at = "reply" /\ ~Busy(call'[h]) /\ call'[h].at \notin Looting \cup {"storage.set", "cash.remove"}
        /\ call[h].m.cmd \in InvCommands \cup EqpCommands /\ db' = db
    BY ReturnedRecord
  <1>2. CASE call[h].res = "ok"
    BY <1>1, <1>2, MapsReturnedInv, MapsReturnedEqp
  <1>3. CASE call[h].res # "ok"
    <2>1. inv' = inv /\ eqp' = eqp
      BY <1>1, <1>3 DEF Returned
    <2>2. ~Pending(call[h]) /\ ~Pending(call'[h]) /\ ~Looks(call'[h])
      BY <1>1, <1>3 DEF Pending, InvAhead, EqpAhead, StoreAhead, CashAhead, ListAhead, Acknowledged, Looks, Busy
    <2> QED
      BY <1>1, <2>1, <2>2, BasedUnless, MapsKept DEF rest
  <1> QED
    BY <1>2, <1>3

\* The master panics, and no answer is lost.
LEMMA MapsPanic ==
  ASSUME Base, MapInv, Still, KeepsAnswers, NEW h \in Handlers, Breaks(h)
  PROVE  MapInv'
  <1>1. db' = db /\ \A g \in Handlers : Lost(g)
    BY PanicLoses
  <1>2. UNCHANGED <<inv, eqp, wh, cash>>
    BY DEF Still, rest
  <1>3. ASSUME NEW g \in Handlers, call'[g] # call[g]
        PROVE  ~Pending(call[g]) /\ ~Pending(call'[g]) /\ Based(call[g])'
    <2>1. call[g].at \in {"rpc", "reply"} /\ call'[g].at = "reply" /\ call'[g].res = "err"
      BY <1>1, <1>3, LostRecord
    <2>2. call[g].at = "rpc" \/ call[g].res # "ok"
      BY <2>1 DEF KeepsAnswers
    <2>3. ~Pending(call[g]) /\ ~Pending(call'[g]) /\ ~Looks(call'[g])
      BY <2>1, <2>2 DEF Pending, InvAhead, EqpAhead, StoreAhead, CashAhead, ListAhead, Acknowledged, Looks, Looting
    <2> QED
      BY <2>3, BasedUnless
  <1> QED
    BY <1>1, <1>2, <1>3, MapsKept

\* The item has left the map it was in.
LEMMA MapsMoveStorageRemoveLocal ==
  ASSUME Base, Overlap, Apart, MapInv, NEW h \in Handlers, MoveStorageRemoveLocal(h)
  PROVE  MapInv'
  <1>1. PICK c, m : c = call[h] /\ m = c.m
    OBVIOUS
  <1>2. Good(c) /\ Called /\ c.at = "reply" /\ m.cmd = "StorageMove"
    BY <1>1, BaseOf DEF MoveStorageRemoveLocal, Answered
  <1>3. c.op = "Storage" /\ m.table \in Tables /\ m.target \in Tables /\ "wh" \in {m.table, m.target}
    BY <1>1, <1>2 DEF Good, SentOK, Busy, RequestOK
  <1>4. ~InvAhead(c) /\ ~EqpAhead(c) /\ ~CashAhead(c) /\ ~ListAhead(c)
    BY <1>1, <1>2 DEF InvAhead, EqpAhead, CashAhead, ListAhead, Acknowledged, InvCommands, EqpCommands
  <1>5. /\ \A g \in Handlers : g # h => call[g].at = "idle"
        /\ eqp = db.eqp /\ cash = db.cash
    BY <1>1, <1>2, <1>3, <1>4, SoloCurrent DEF Solo
  <1>6. UNCHANGED <<eqp, cash, db>>
    BY DEF MoveStorageRemoveLocal, master
  <1>7. CASE c.res = "ok" /\ ~(m.table = m.target /\ m.slot = m.to)
    <2>1. PICK d : d = [c EXCEPT !.at = "storage.set"]
      OBVIOUS
    <2>2. PutLocal(m.table, m.slot, NoItem) /\ Becomes(h, d)
      BY <1>1, <1>7, <2>1 DEF MoveStorageRemoveLocal, Acked
    <2>3. call'[h] = d /\ \A g \in Handlers : g # h => call'[g] = call[g]
      BY <1>2, <2>2, BecomesEffect
    <2>4. d.at = "storage.set" /\ d.m = m /\ d.moved = c.moved
      BY <1>1, <1>2, <2>1, GoodHalfway
    <2>5. StoreAhead(d) /\ ~InvAhead(d) /\ ~EqpAhead(d) /\ ~CashAhead(d) /\ ~ListAhead(d) /\ ~Looks(call'[h])
      BY <2>3, <2>4 DEF StoreAhead, InvAhead, EqpAhead, CashAhead, ListAhead, Acknowledged, Looks, Looting
    <2>6. Stores(c, Local, db)
      BY <1>1, <1>2, <1>7 DEF MapInv, Owes, StoreAhead, Acknowledged
    <2>7. /\ inv' = IF m.table = "inv" THEN [inv EXCEPT ![m.slot] = NoItem] ELSE inv
          /\ wh' = IF m.table = "inv" THEN wh ELSE [wh EXCEPT ![m.slot] = NoItem]
      BY <2>2 DEF PutLocal
    <2>8. Local.inv = inv /\ Local.wh = wh /\ Local'.inv = inv' /\ Local'.wh = wh'
      BY DEF Local
    <2>9. Stores(d, Local', db')
      <3>1. PICK f, k, e : f = Local /\ k = Local' /\ e = db
        OBVIOUS
      <3>2. /\ Stores(c, f, e)
            /\ f.inv = inv /\ f.wh = wh /\ k.inv = inv' /\ k.wh = wh'
        BY <1>6, <2>6, <2>8, <3>1
      <3>3. /\ c.at = "reply" /\ c.m = m /\ d.at = "storage.set" /\ d.m = m /\ d.moved = c.moved
            /\ c.m.table \in Tables /\ c.m.target \in Tables /\ "wh" \in {c.m.table, c.m.target}
            /\ d.m.table \in Tables /\ d.m.target \in Tables /\ "wh" \in {d.m.table, d.m.target}
        BY <1>1, <1>2, <1>3, <2>4
      <3>4. StoresSplit(c, f, e) /\ StoresSplit(d, k, e)
        BY <3>3, StoresCases
      <3>5. CASE m.table = "inv"
        <4>1. m.target = "wh"
          BY <1>3, <3>5 DEF Tables
        <4>2. e.inv = [f.inv EXCEPT ![m.slot] = NoItem] /\ e.wh = [f.wh EXCEPT ![m.to] = c.moved]
          BY <3>2, <3>5, <3>3, <3>4 DEF StoresSplit
        <4>3. k.inv = e.inv /\ k.wh = f.wh
          BY <2>7, <3>2, <3>5, <4>2
        <4>4. Stores(d, k, e)
          BY <3>3, <3>4, <4>1, <4>2, <4>3 DEF StoresSplit
        <4> QED
          BY <1>6, <3>1, <4>4
      <3>6. CASE m.target = "inv"
        <4>1. m.table = "wh"
          BY <1>3, <3>6 DEF Tables
        <4>2. e.wh = [f.wh EXCEPT ![m.slot] = NoItem] /\ e.inv = [f.inv EXCEPT ![m.to] = c.moved]
          BY <3>2, <3>6, <3>3, <3>4 DEF StoresSplit
        <4>3. k.inv = f.inv /\ k.wh = e.wh
          BY <2>7, <3>2, <4>1, <4>2
        <4>4. Stores(d, k, e)
          BY <3>3, <3>4, <3>6, <4>2, <4>3 DEF StoresSplit
        <4> QED
          BY <1>6, <3>1, <4>4
      <3>7. CASE m.table = "wh" /\ m.target = "wh"
        <4>1. e.inv = f.inv /\ e.wh = [[f.wh EXCEPT ![m.slot] = NoItem] EXCEPT ![m.to] = c.moved]
          BY <3>2, <3>7, <3>3, <3>4 DEF StoresSplit
        <4>2. k.inv = f.inv /\ k.wh = [f.wh EXCEPT ![m.slot] = NoItem]
          BY <2>7, <3>2, <3>7
        <4>3. Stores(d, k, e)
          BY <3>3, <3>4, <3>7, <4>1, <4>2 DEF StoresSplit
        <4> QED
          BY <1>6, <3>1, <4>3
      <3> QED
        BY <1>3, <3>5, <3>6, <3>7 DEF Tables
    <2>10. Owes(call'[h], Local', db') /\ Based(call[h])'
      BY <2>3, <2>5, <2>9, BasedUnless DEF Owes
    <2> QED
      BY <1>5, <1>6, <2>3, <2>5, <2>10, MapsAlone
  <1>8. CASE ~(c.res = "ok" /\ ~(m.table = m.target /\ m.slot = m.to))
    <2>1. UNCHANGED <<inv, wh>> /\ Becomes(h, Idle)
      BY <1>1, <1>8 DEF MoveStorageRemoveLocal, Acked
    <2>2. call'[h] = Idle /\ \A g \in Handlers : g # h => call'[g] = call[g]
      BY <1>2, <2>1, BecomesEffect
    <2>3. ~Pending(call[h])
      BY <1>1, <1>2, <1>4, <1>8 DEF Pending, StoreAhead, Acknowledged
    <2>4. Idle.at = "idle"
      BY GoodIdle
    <2> QED
      BY <1>6, <2>1, <2>2, <2>3, <2>4, IdleOwes, BasedUnless, MapsKept
  <1> QED
    BY <1>7, <1>8

\* The item is in the map it was moved to.
LEMMA MapsMoveStorageSetLocal ==
  ASSUME Base, Overlap, Apart, MapInv, NEW h \in Handlers, MoveStorageSetLocal(h)
  PROVE  MapInv'
  <1>1. PICK c, m : c = call[h] /\ m = c.m
    OBVIOUS
  <1>2. Good(c) /\ Called /\ c.at = "storage.set"
    BY <1>1, BaseOf DEF MoveStorageSetLocal
  <1>3. StoreAhead(c) /\ ~InvAhead(c) /\ ~EqpAhead(c) /\ ~CashAhead(c) /\ ~ListAhead(c)
    BY <1>2 DEF StoreAhead, InvAhead, EqpAhead, CashAhead, ListAhead, Acknowledged
  <1>4. c.op = "Storage" /\ m.table \in Tables /\ m.target \in Tables /\ "wh" \in {m.table, m.target}
    <2>1. c.op = "Storage" /\ m.cmd = "StorageMove"
      BY <1>1, <1>2, <1>3, WhoseUpdate
    <2> QED
      BY <1>1, <1>2, <2>1 DEF Good, RequestOK
  <1>5. /\ \A g \in Handlers : g # h => call[g].at = "idle"
        /\ eqp = db.eqp /\ cash = db.cash
    BY <1>1, <1>2, <1>3, <1>4, SoloCurrent DEF Solo
  <1>6. UNCHANGED <<eqp, cash, db>> /\ Becomes(h, Idle) /\ PutLocal(m.target, m.to, c.moved)
    BY <1>1 DEF MoveStorageSetLocal, master
  <1>7. call'[h] = Idle /\ \A g \in Handlers : g # h => call'[g] = call[g]
    BY <1>2, <1>6, BecomesEffect
  <1>8. Stores(c, Local, db)
    BY <1>1, <1>3 DEF MapInv, Owes
  <1>9. /\ db.inv = IF m.target = "inv" THEN [inv EXCEPT ![m.to] = c.moved] ELSE inv
        /\ db.wh = IF m.target = "wh" THEN [wh EXCEPT ![m.to] = c.moved] ELSE wh
    BY <1>1, <1>2, <1>8 DEF Stores, Local
  <1>10. inv' = db.inv /\ wh' = db.wh
    BY <1>4, <1>6, <1>9 DEF PutLocal, Tables
  <1>11. call'[h].at = "idle"
    BY <1>7, GoodIdle
  <1>12. ~Pending(call'[h]) /\ ~Looks(call'[h])
    BY <1>11, IdleOwes
  <1> QED
    BY <1>5, <1>6, <1>7, <1>10, <1>12, OwesNothing, BasedUnless, MapsAlone

\* The list of cash items has come.
LEMMA MapsQueryCashItemDone ==
  ASSUME Base, Overlap, Apart, MapInv, NEW h \in Handlers, QueryCashItemDone(h)
  PROVE  MapInv'
  <1>1. PICK c, m : c = call[h] /\ m = c.m
    OBVIOUS
  <1>2. Good(c) /\ Called /\ c.at = "reply" /\ m.cmd = "LoadCashInventory"
    BY <1>1, BaseOf DEF QueryCashItemDone, Answered
  <1>3. c.op = "QueryCash"
    BY <1>1, <1>2 DEF Good, SentOK, Busy
  <1>4. ~InvAhead(c) /\ ~EqpAhead(c) /\ ~StoreAhead(c) /\ ~CashAhead(c)
    BY <1>1, <1>2 DEF InvAhead, EqpAhead, StoreAhead, CashAhead, Acknowledged, InvCommands, EqpCommands
  <1>5. UNCHANGED <<inv, eqp, wh, db>> /\ Becomes(h, Idle)
    BY DEF QueryCashItemDone, maps, master
  <1>6. call'[h] = Idle /\ \A g \in Handlers : g # h => call'[g] = call[g]
    BY <1>2, <1>5, BecomesEffect
  <1>7. call'[h].at = "idle"
    BY <1>6, GoodIdle
  <1>8. ~Pending(call'[h]) /\ ~Looks(call'[h])
    BY <1>7, IdleOwes
  <1>9. CASE c.res = "ok"
    <2>1. /\ \A g \in Handlers : g # h => call[g].at = "idle"
          /\ eqp = db.eqp /\ wh = db.wh
      BY <1>1, <1>2, <1>3, <1>4, SoloCurrent DEF Solo
    <2>2. inv = db.inv
      <3>1. \A g \in Handlers : ~Pending(call[g]) \/ g = h
        BY <2>1, IdleOwes
      <3> QED
        BY <1>1, <1>4, <3>1 DEF MapInv, MapsEqual, Pending
    <2>3. c.list = db.cash
      BY <1>1, <1>2, <1>9 DEF MapInv, Owes, ListAhead, Acknowledged
    <2>4. cash' = db.cash
      BY <1>1, <1>9, <2>3 DEF QueryCashItemDone, Acked
    <2> QED
      BY <1>5, <1>6, <1>8, <2>1, <2>2, <2>4, OwesNothing, BasedUnless, MapsAlone
  <1>10. CASE c.res # "ok"
    <2>1. cash' = cash
      BY <1>1, <1>10 DEF QueryCashItemDone, Acked
    <2>2. ~Pending(call[h])
      BY <1>1, <1>4, <1>10 DEF Pending, ListAhead, Acknowledged
    <2> QED
      BY <1>5, <1>6, <1>8, <2>1, <2>2, BasedUnless, MapsKept
  <1> QED
    BY <1>9, <1>10

\* The item taken out of the cash inventory is in the map.
LEMMA MapsUseCashSetLocal ==
  ASSUME Base, Overlap, Apart, MapInv, NEW h \in Handlers, UseCashSetLocal(h)
  PROVE  MapInv'
  <1>1. PICK c, m : c = call[h] /\ m = c.m
    OBVIOUS
  <1>2. Good(c) /\ Called /\ c.at = "reply" /\ m.cmd = "UseCashItem"
    BY <1>1, BaseOf DEF UseCashSetLocal, Answered
  <1>3. c.op = "UseCash"
    BY <1>1, <1>2 DEF Good, SentOK, Busy
  <1>4. ~InvAhead(c) /\ ~EqpAhead(c) /\ ~StoreAhead(c) /\ ~ListAhead(c)
    BY <1>1, <1>2 DEF InvAhead, EqpAhead, StoreAhead, ListAhead, Acknowledged, InvCommands, EqpCommands
  <1>5. UNCHANGED <<eqp, cash, db>>
    BY DEF UseCashSetLocal, master
  <1>6. CASE c.res = "ok"
    <2>1. PICK d : d = [c EXCEPT !.at = "cash.remove"]
      OBVIOUS
    <2>2. PutLocal("inv", m.slot, m.item) /\ Becomes(h, d)
      BY <1>1, <1>6, <2>1 DEF UseCashSetLocal, Acked
    <2>3. call'[h] = d /\ \A g \in Handlers : g # h => call'[g] = call[g]
      BY <1>2, <2>2, BecomesEffect
    <2>4. d.at = "cash.remove" /\ d.m = m
      BY <1>1, <1>2, <2>1, GoodHalfway
    <2>5. CashAhead(d) /\ ~InvAhead(d) /\ ~EqpAhead(d) /\ ~StoreAhead(d) /\ ~ListAhead(d) /\ ~Looks(call'[h])
      BY <2>3, <2>4 DEF CashAhead, InvAhead, EqpAhead, StoreAhead, ListAhead, Acknowledged, Looks, Looting
    <2>6. Takes(c, Local, db)
      BY <1>1, <1>2, <1>6 DEF MapInv, Owes, CashAhead, Acknowledged
    <2>7. db.inv = [inv EXCEPT ![m.slot] = m.item] /\ db.cash = [cash EXCEPT ![m.to] = NoItem]
      BY <1>1, <1>2, <2>6 DEF Takes, Local
    <2>8. inv' = db.inv /\ wh' = wh
      BY <2>2, <2>7 DEF PutLocal
    <2>9. Local'.inv = db.inv /\ Local'.cash = cash
      BY <1>5, <2>8 DEF Local
    <2>10. Takes(d, Local', db')
      BY <1>5, <2>4, <2>7, <2>9 DEF Takes
    <2>11. Owes(call'[h], Local', db') /\ Based(call[h])'
      BY <2>3, <2>5, <2>10, BasedUnless DEF Owes
    <2>12. /\ \A g \in Handlers : g # h => call[g].at = "idle"
           /\ eqp = db.eqp /\ wh = db.wh
      BY <1>1, <1>2, <1>3, <1>4, SoloCurrent DEF Solo
    <2> QED
      BY <1>5, <2>3, <2>5, <2>8, <2>11, <2>12, MapsAlone
  <1>7. CASE c.res # "ok"
    <2>1. UNCHANGED <<inv, wh>> /\ Becomes(h, Idle)
      BY <1>1, <1>7 DEF UseCashSetLocal, Acked
    <2>2. call'[h] = Idle /\ \A g \in Handlers : g # h => call'[g] = call[g]
      BY <1>2, <2>1, BecomesEffect
    <2>3. ~Pending(call[h])
      BY <1>1, <1>2, <1>4, <1>7 DEF Pending, CashAhead, Acknowledged
    <2>4. Idle.at = "idle"
      BY GoodIdle
    <2> QED
      BY <1>5, <2>1, <2>2, <2>3, <2>4, IdleOwes, BasedUnless, MapsKept
  <1> QED
    BY <1>6, <1>7

\* It is no longer in the cash inventory.
LEMMA MapsUseCashRemove ==
  ASSUME Base, Overlap, Apart, MapInv, NEW h \in Handlers, UseCashRemove(h)
  PROVE  MapInv'
  <1>1. PICK c, m : c = call[h] /\ m = c.m
    OBVIOUS
  <1>2. Good(c) /\ Called /\ c.at = "cash.remove"
    BY <1>1, BaseOf DEF UseCashRemove
  <1>3. CashAhead(c) /\ ~InvAhead(c) /\ ~EqpAhead(c) /\ ~StoreAhead(c) /\ ~ListAhead(c)
    BY <1>2 DEF StoreAhead, InvAhead, EqpAhead, CashAhead, ListAhead, Acknowledged
  <1>4. c.op = "UseCash"
    BY <1>2, <1>3, WhoseUpdate
  <1>5. /\ \A g \in Handlers : g # h => call[g].at = "idle"
        /\ eqp = db.eqp /\ wh = db.wh
    BY <1>1, <1>2, <1>3, <1>4, SoloCurrent DEF Solo
  <1>6. UNCHANGED <<inv, eqp, wh, db>> /\ Becomes(h, Idle) /\ cash' = [cash EXCEPT ![m.to] = NoItem]
    BY <1>1 DEF UseCashRemove, maps, master
  <1>7. call'[h] = Idle /\ \A g \in Handlers : g # h => call'[g] = call[g]
    BY <1>2, <1>6, BecomesEffect
  <1>8. Takes(c, Local, db)
    BY <1>1, <1>3 DEF MapInv, Owes
  <1>9. db.inv = inv /\ db.cash = [cash EXCEPT ![m.to] = NoItem]
    BY <1>1, <1>2, <1>8 DEF Takes, Local
  <1>11. call'[h].at = "idle"
    BY <1>7, GoodIdle
  <1>12. ~Pending(call'[h]) /\ ~Looks(call'[h])
    BY <1>11, IdleOwes
  <1> QED
    BY <1>5, <1>6, <1>7, <1>9, <1>12, OwesNothing, BasedUnless, MapsAlone

\* An update of a map without its mutex.
LEMMA MapsLocally ==
  ASSUME Base, Overlap, Apart, MapInv, NEW h \in Handlers, Locally(h)
  PROVE  MapInv'
  <1>1. ASSUME call[h].at \in {"shop", "learn"}, Becomes(h, Idle), UNCHANGED <<inv, eqp, wh, cash, db>>
        PROVE  MapInv'
    <2>1. call'[h] = Idle /\ \A g \in Handlers : g # h => call'[g] = call[g]
      BY <1>1, BecomesEffect DEF Base
    <2>2. ~Pending(call[h]) /\ Idle.at = "idle"
      BY <1>1, GoodIdle DEF Pending, InvAhead, EqpAhead, StoreAhead, CashAhead, ListAhead, Acknowledged
    <2> QED
      BY <1>1, <2>1, <2>2, IdleOwes, BasedUnless, MapsKept
  <1>2. CASE ShopDone(h)
    BY <1>1, <1>2 DEF ShopDone, maps, master
  <1>3. CASE SkillLearned(h)
    BY <1>1, <1>3 DEF SkillLearned, maps, master
  <1> QED
    BY <1>2, <1>3, MapsMoveStorageRemoveLocal, MapsMoveStorageSetLocal, MapsQueryCashItemDone,
       MapsUseCashSetLocal, MapsUseCashRemove DEF Locally

\* Every step keeps what the maps lack.
LEMMA NextMaps ==
  Apart /\ Base /\ Overlap /\ MapInv /\ NoLastUnit /\ OneStack /\ [Next]_vars /\ [KeepsAnswers]_vars => MapInv'
  <1> SUFFICES ASSUME Apart, Base, Overlap, MapInv, NoLastUnit, OneStack, [Next]_vars, [KeepsAnswers]_vars
               PROVE  MapInv'
    OBVIOUS
  <1>1. CASE \E h \in Handlers : Quiet(h)
    BY <1>1, MapsQuiet
  <1>2. CASE \E h \in Handlers : Locally(h)
    BY <1>2, MapsLocally
  <1>3. CASE UNCHANGED <<rest, player>> /\ \E h \in Handlers : Sent(h) \/ Declined(h) \/ Returned(h)
    BY <1>3, MapsSent, MapsDeclined, MapsReturned
  <1>4. CASE Still /\ \E h \in Handlers : Served(h)
    BY <1>4, MapsServed
  <1>5. CASE UNCHANGED <<inv, eqp, wh, cash, db>> /\ call' = call
    BY <1>5, MapsKept
  <1>6. CASE Still /\ \E h \in Handlers : Breaks(h)
    <2>1. CASE KeepsAnswers
      BY <1>6, <2>1, MapsPanic
    <2>2. CASE UNCHANGED vars
      BY <1>5, <2>2 DEF vars, rest
    <2> QED
      BY <2>1, <2>2
  <1>7. CASE Still /\ MasterRestarts
    BY <1>5, <1>7 DEF Still, rest, MasterRestarts
  <1>8. CASE Calm /\ call' = call
    BY <1>5, <1>8 DEF Calm
  <1> QED
    BY <1>1, <1>2, <1>3, <1>4, <1>6, <1>7, <1>8, NextCases

\* At the start the maps are the tables.
LEMMA InitMaps == Init => MapInv /\ AlzInv /\ SkillSync /\ Overlap
  <1> SUFFICES ASSUME Init PROVE MapInv /\ AlzInv /\ SkillSync /\ Overlap
    OBVIOUS
  <1>1. \A h \in Handlers : call[h].at = "idle"
    BY DEF Init, Idle
  <1>2. \A h \in Handlers : ~Pending(call[h]) /\ ~Looks(call[h])
    BY <1>1, IdleOwes
  <1>3. inv = db.inv /\ eqp = db.eqp /\ wh = db.wh /\ cash = db.cash /\ alz = db.alz /\ skills = db.skills
    BY DEF Init
  <1>4. \A h \in Handlers : Based(call[h])
    BY <1>2 DEF Looks, Based, Sees
  <1>5. MapInv
    BY <1>2, <1>3, <1>4, OwesNothing DEF MapInv, MapsEqual
  <1>6. \A h \in Handlers : ~AlzDue(call[h]) /\ ~SkillDue(call[h])
    BY <1>1 DEF AlzDue, SkillDue, Acknowledged
  <1>7. AlzInv /\ SkillSync
    BY <1>3, <1>6 DEF AlzInv, SkillSync
  <1>8. Overlap
    BY <1>1 DEF Overlap
  <1> QED
    BY <1>5, <1>7, <1>8

----------------------------------------------------------------------------
(* The Alz and the skills follow too. *)

\* A goroutine that owes nothing before and after.
LEMMA NoDues ==
  ASSUME NEW c, NEW d, ~AlzDue(c), ~AlzDue(d), ~SkillDue(c), ~SkillDue(d)
  PROVE  SameDues(c, d)
  BY DEF SameDues

\* A goroutine whose record does not change.
LEMMA SameRecord ==
  ASSUME NEW c
  PROVE  SameDues(c, c)
  BY DEF SameDues

\* A step after which everyone owes the same.
LEMMA DuesKept ==
  ASSUME AlzInv, SkillSync, UNCHANGED <<alz, skills>>, db'.alz = db.alz, db'.skills = db.skills,
         \A g \in Handlers : SameDues(call[g], call'[g])
  PROVE  AlzInv' /\ SkillSync'
  <1>1. AlzInv'
    BY DEF AlzInv, SameDues
  <1>2. SkillSync'
    BY DEF SkillSync, SameDues
  <1> QED
    BY <1>1, <1>2

\* A method returns: what its answer said is what its handler owes.
LEMMA DuesReturned ==
  ASSUME Base, NEW h \in Handlers, Returned(h)
  PROVE  SameDues(call[h], call'[h])
  <1>1. PICK c, d : c = call[h] /\ d = call'[h]
    OBVIOUS
  <1>2. /\ c.at = "reply" /\ ~Busy(d) /\ d.at = c.ret
        /\ c.ret # "idle" => d.op = c.op /\ (d.ok <=> c.res = "ok") /\ d.m = c.m /\ d.alz = c.alz
    BY <1>1, ReturnedRecord
  <1>3. Good(c)
    BY <1>1, BaseOf
  <1>4. c.ret = "shop" <=> c.m.cmd \in {"SellItems", "PurchaseItem"}
    BY <1>2, <1>3 DEF Good, SentOK, Busy
  <1>5. c.ret = "learn" <=> c.op = "Book"
    BY <1>2, <1>3 DEF Good, PlaceOK, Place, Busy
  <1>6. AlzDue(d) <=> c.ret = "shop" /\ c.res = "ok"
    BY <1>2 DEF AlzDue, Acknowledged, Busy
  <1>7. AlzDue(c) <=> c.ret = "shop" /\ c.res = "ok"
    BY <1>2, <1>4 DEF AlzDue, Acknowledged
  <1>8. SkillDue(c) <=> c.ret = "learn" /\ c.res = "ok"
    BY <1>2, <1>5 DEF SkillDue
  <1>9. SkillDue(d) <=> c.ret = "learn" /\ c.res = "ok"
    BY <1>2, <1>5 DEF SkillDue, Busy
  <1> QED
    BY <1>1, <1>2, <1>6, <1>7, <1>8, <1>9 DEF SameDues

\* An update of a map without its mutex.
LEMMA DuesLocally ==
  ASSUME Base, AlzInv, SkillSync, SkillInv, NEW h \in Handlers, Locally(h)
  PROVE  AlzInv' /\ SkillSync'
  <1>1. /\ \A g \in Handlers : g # h => call'[g] = call[g]
        /\ call'[h].at \in {"idle", "storage.set", "cash.remove"}
    BY LocallyRecord
  <1>2. ~AlzDue(call'[h]) /\ ~SkillDue(call'[h])
    BY <1>1 DEF AlzDue, SkillDue, Acknowledged
  <1>3. db' = db
    BY DEF Locally, MoveStorageRemoveLocal, MoveStorageSetLocal, QueryCashItemDone, UseCashSetLocal,
           UseCashRemove, ShopDone, SkillLearned, master
  <1>4. Good(call[h])
    BY BaseOf
  <1>5. CASE ShopDone(h)
    <2>1. call[h].at = "shop" /\ alz' = (IF call[h].ok THEN call[h].alz ELSE alz) /\ skills' = skills
      BY <1>5 DEF ShopDone
    <2>2. call[h].op # "Book"
      BY <1>4, <2>1 DEF Good, PlaceOK, Place, Busy
    <2>3. ~SkillDue(call[h])
      BY <2>2 DEF SkillDue
    <2>4. AlzDue(call[h]) <=> call[h].ok
      BY <2>1 DEF AlzDue, Acknowledged
    <2>5. SkillSync'
      BY <1>1, <1>2, <1>3, <2>1, <2>3 DEF SkillSync
    <2>6. \A g \in Handlers : AlzDue(call'[g]) => call'[g].alz = db'.alz
      BY <1>1, <1>2, <1>3 DEF AlzInv
    <2>7. (\A g \in Handlers : ~AlzDue(call'[g])) => alz' = db'.alz
      BY <1>1, <1>3, <2>1, <2>4 DEF AlzInv
    <2> QED
      BY <2>5, <2>6, <2>7 DEF AlzInv
  <1>6. CASE SkillLearned(h)
    <2>1. /\ call[h].at = "learn" /\ alz' = alz
          /\ skills' = IF call[h].ok THEN [skills EXCEPT ![call[h].m.to] = call[h].m.item.kind.base] ELSE skills
      BY <1>6 DEF SkillLearned
    <2>2. ~AlzDue(call[h])
      BY <2>1 DEF AlzDue, Acknowledged
    <2>3. AlzInv'
      BY <1>1, <1>2, <1>3, <2>1, <2>2 DEF AlzInv
    <2>4. call[h].op = "Book"
      BY <1>4, <2>1 DEF Good, PlaceOK, Place, Busy
    <2>5. call[h].m.to \in SkillSlots
      BY <2>1, <2>4, DueBook
    <2>6. SkillDue(call[h]) <=> call[h].ok
      BY <2>1, <2>4 DEF SkillDue
    <2>7. \A g \in Handlers : SkillDue(call'[g]) => db'.skills[call'[g].m.to] = call'[g].m.item.kind.base
      BY <1>1, <1>2, <1>3 DEF SkillSync
    <2>8. ASSUME NEW s \in SkillSlots, skills'[s] # db'.skills[s]
          PROVE  \E g \in Handlers : SkillDue(call'[g]) /\ call'[g].m.to = s
      <3>1. CASE call[h].ok /\ s = call[h].m.to
        <4>1. db.skills[s] = call[h].m.item.kind.base
          BY <2>6, <3>1 DEF SkillSync
        <4>2. skills'[s] = call[h].m.item.kind.base
          BY <2>1, <2>5, <3>1 DEF Base, StateOK, MapsOK
        <4> QED
          BY <1>3, <2>8, <4>1, <4>2
      <3>2. CASE ~(call[h].ok /\ s = call[h].m.to)
        <4>1. skills'[s] = skills[s]
          BY <2>1, <3>2 DEF Base, StateOK, MapsOK
        <4>2. PICK g \in Handlers : SkillDue(call[g]) /\ call[g].m.to = s
          BY <1>3, <2>8, <4>1 DEF SkillSync
        <4>3. g # h
          BY <2>6, <3>2, <4>2
        <4> QED
          BY <1>1, <4>2, <4>3
      <3> QED
        BY <3>1, <3>2
    <2> QED
      BY <2>3, <2>7, <2>8 DEF SkillSync
  <1>7. CASE ~ShopDone(h) /\ ~SkillLearned(h)
    <2>1. UNCHANGED <<alz, skills>>
      BY <1>7 DEF Locally, MoveStorageRemoveLocal, MoveStorageSetLocal, QueryCashItemDone, UseCashSetLocal,
                  UseCashRemove
    <2>2. \/ call[h].at \in {"storage.set", "cash.remove"}
          \/ call[h].at = "reply" /\ call[h].m.cmd \in {"StorageMove", "LoadCashInventory", "UseCashItem"}
      BY <1>7 DEF Locally, MoveStorageRemoveLocal, MoveStorageSetLocal, QueryCashItemDone, UseCashSetLocal,
                  UseCashRemove, Answered
    <2>3. ~AlzDue(call[h])
      BY <2>2 DEF AlzDue, Acknowledged
    <2>4. ~SkillDue(call[h])
      BY <1>4, <2>2 DEF SkillDue, Good, PlaceOK, Place, Busy
    <2> QED
      BY <1>1, <1>2, <1>3, <2>1, <2>3, <2>4, NoDues, SameRecord, DuesKept
  <1> QED
    BY <1>5, <1>6, <1>7

\* A transaction of the master.
LEMMA AlzServed ==
  ASSUME Base, Overlap, Apart, AlzInv, NEW h \in Handlers, Served(h), Still
  PROVE  AlzInv'
  <1>1. /\ \A g \in Handlers : g # h => call'[g] = call[g]
        /\ call[h].at = "rpc" /\ call'[h].at = "reply" /\ call'[h].m = call[h].m
        /\ call'[h].res # "ok" => db' = db
        /\ call'[h].res = "ok" /\ call[h].m.cmd \in {"SellItems", "PurchaseItem"} => call'[h].alz = db'.alz
        /\ call[h].m.cmd \notin {"SellItems", "PurchaseItem"} => db'.alz = db.alz
    BY ServedRecord
  <1>2. alz' = alz /\ ~AlzDue(call[h])
    BY <1>1 DEF Still, rest, AlzDue, Acknowledged
  <1>3. AlzDue(call'[h]) <=> call'[h].res = "ok" /\ call[h].m.cmd \in {"SellItems", "PurchaseItem"}
    BY <1>1 DEF AlzDue, Acknowledged
  <1>4. CASE ~AlzDue(call'[h])
    <2>1. db'.alz = db.alz
      BY <1>1, <1>3, <1>4
    <2> QED
      BY <1>1, <1>2, <1>4, <2>1 DEF AlzInv
  <1>5. CASE AlzDue(call'[h])
    <2>1. Good(call[h]) /\ \A g \in Handlers : Good(call[g])
      BY BaseOf
    <2>2. call[h].op \in {"Sell", "Buy"}
      BY <1>1, <1>3, <1>5, <2>1 DEF Good, SentOK, PlaceOK, Place, Busy
    <2>3. ASSUME NEW g \in Handlers, g # h, AlzDue(call[g])
          PROVE  FALSE
      <3>1. call[g].op \in {"Sell", "Buy"} /\ call[g].at # "idle"
        BY <2>1, <2>3 DEF AlzDue, Acknowledged, Good, SentOK, PlaceOK, Place, Busy
      <3>2. PICK pair : pair = {call[g].op, call[h].op}
        OBVIOUS
      <3>3. pair \in Overlapping
        BY <1>1, <2>3, <3>1, <3>2 DEF Overlap
      <3> QED
        BY <2>2, <3>1, <3>2, <3>3 DEF Apart
    <2> QED
      BY <1>1, <1>3, <1>5, <2>3 DEF AlzInv
  <1> QED
    BY <1>4, <1>5

\* The same for the skills.
LEMMA SkillsDueServed ==
  ASSUME Base, SkillSync, SkillInv, NEW h \in Handlers, Served(h), Still
  PROVE  SkillSync'
  <1>1. /\ \A g \in Handlers : g # h => call'[g] = call[g]
        /\ call[h].at = "rpc" /\ call'[h].at = "reply" /\ call'[h].m = call[h].m /\ call'[h].op = call[h].op
        /\ call'[h].res = "ok" => Effect(call[h].m)
        /\ call'[h].res # "ok" => db' = db
        /\ call[h].m.cmd # "LearnSkill" => db'.skills = db.skills
    BY ServedRecord
  <1>2. skills' = skills /\ ~SkillDue(call[h])
    BY <1>1 DEF Still, rest, SkillDue
  <1>3. SkillDue(call'[h]) <=> call'[h].res = "ok" /\ call[h].op = "Book"
    BY <1>1 DEF SkillDue
  <1>4. call[h].m.cmd = "LearnSkill" <=> call[h].op = "Book"
    BY <1>1, BaseOf DEF Good, PlaceOK, SentOK, Place, Busy
  <1>5. CASE ~SkillDue(call'[h])
    <2>1. db'.skills = db.skills
      BY <1>1, <1>3, <1>4, <1>5
    <2> QED
      BY <1>1, <1>2, <1>5, <2>1 DEF SkillSync
  <1>6. CASE SkillDue(call'[h])
    <2>1. PICK to, base : to = call[h].m.to /\ base = call[h].m.item.kind.base
      OBVIOUS
    <2>2. to \in SkillSlots
      BY <1>1, <1>3, <1>6, <2>1, DueBook DEF Busy
    <2>3. db.skills[to] = NoSkill /\ db'.skills = [db.skills EXCEPT ![to] = base]
      BY <1>1, <1>3, <1>4, <1>6, <2>1 DEF Effect
    <2>4. \A s \in SkillSlots : db'.skills[s] = IF s = to THEN base ELSE db.skills[s]
      BY <2>2, <2>3 DEF Base, StateOK, TablesOK
    <2>5. ASSUME NEW g \in Handlers, g # h, SkillDue(call[g])
          PROVE  call[g].m.to # to /\ call[g].m.to \in SkillSlots
      <3>1. call[g].m.to \in SkillSlots
        BY <2>5, DueBook DEF SkillDue, Busy
      <3>2. db.skills[call[g].m.to] # NoSkill
        BY <2>5 DEF SkillInv
      <3> QED
        BY <2>3, <3>1, <3>2
    <2>6. \A g \in Handlers : SkillDue(call'[g]) => db'.skills[call'[g].m.to] = call'[g].m.item.kind.base
      <3> SUFFICES ASSUME NEW g \in Handlers, SkillDue(call'[g])
                   PROVE  db'.skills[call'[g].m.to] = call'[g].m.item.kind.base
        OBVIOUS
      <3>1. CASE g = h
        BY <1>1, <2>1, <2>2, <2>4, <3>1
      <3>2. CASE g # h
        <4>1. call'[g] = call[g] /\ SkillDue(call[g])
          BY <1>1, <3>2
        <4>2. db'.skills[call[g].m.to] = db.skills[call[g].m.to]
          BY <2>4, <2>5, <3>2, <4>1
        <4>3. db.skills[call[g].m.to] = call[g].m.item.kind.base
          BY <4>1 DEF SkillSync
        <4> QED
          BY <4>1, <4>2, <4>3
      <3> QED
        BY <3>1, <3>2
    <2>7. ASSUME NEW s \in SkillSlots, skills'[s] # db'.skills[s]
          PROVE  \E g \in Handlers : SkillDue(call'[g]) /\ call'[g].m.to = s
      <3>1. CASE s = to
        BY <1>1, <1>6, <2>1, <3>1
      <3>2. CASE s # to
        <4>1. skills[s] # db.skills[s]
          BY <1>2, <2>4, <2>7, <3>2
        <4>2. PICK g \in Handlers : SkillDue(call[g]) /\ call[g].m.to = s
          BY <4>1 DEF SkillSync
        <4>3. g # h
          BY <1>2, <4>2
        <4> QED
          BY <1>1, <4>2, <4>3
      <3> QED
        BY <3>1, <3>2
    <2> QED
      BY <2>6, <2>7 DEF SkillSync
  <1> QED
    BY <1>5, <1>6

\* The answers that were lost are counted; as long as there are none, no step
\* loses one.
LEMMA InitLost == Init => lost = 0
  BY DEF Init
LEMMA NextLost ==
  /\ lost \in Nat /\ [Next]_vars => lost' \in Nat
  /\ lost \in Nat /\ [Next]_vars /\ lost' = 0 => lost = 0 /\ [KeepsAnswers]_vars
  <1> SUFFICES ASSUME lost \in Nat, [Next]_vars
               PROVE  lost' \in Nat /\ (lost' = 0 => lost = 0 /\ [KeepsAnswers]_vars)
    OBVIOUS
  <1>1. CASE Next
    <2>1. lost' = lost + (IF LosesAnswer THEN 1 ELSE 0)
      BY <1>1 DEF Next
    <2>2. CASE LosesAnswer
      BY <2>1, <2>2
    <2>3. CASE ~LosesAnswer
      <3>1. KeepsAnswers
        BY <2>3 DEF LosesAnswer, KeepsAnswers
      <3> QED
        BY <2>1, <2>3, <3>1
    <2> QED
      BY <2>2, <2>3
  <1>2. CASE UNCHANGED vars
    BY <1>2 DEF vars
  <1> QED
    BY <1>1, <1>2

\* Every step keeps what the character lacks.
LEMMA NextDues ==
  Apart /\ Base /\ Overlap /\ SkillInv /\ AlzInv /\ SkillSync /\ [Next]_vars /\ [KeepsAnswers]_vars
    => AlzInv' /\ SkillSync'
  <1> SUFFICES ASSUME Apart, Base, Overlap, SkillInv, AlzInv, SkillSync, [Next]_vars, [KeepsAnswers]_vars
               PROVE  AlzInv' /\ SkillSync'
    OBVIOUS
  <1>1. CASE \E h \in Handlers : Quiet(h)
    <2>1. PICK h \in Handlers : Quiet(h)
      BY <1>1
    <2>2. /\ \A g \in Handlers : g # h => call'[g] = call[g]
          /\ call[h].at \notin Due /\ call'[h].at \notin Due
      BY <2>1, QuietRecord
    <2>3. ~AlzDue(call[h]) /\ ~AlzDue(call'[h]) /\ ~SkillDue(call[h]) /\ ~SkillDue(call'[h])
      BY <2>2 DEF Due, AlzDue, SkillDue, Acknowledged
    <2>4. UNCHANGED <<alz, skills, db>>
      BY <2>1 DEF Quiet, Calm
    <2> QED
      BY <2>2, <2>3, <2>4, NoDues, SameRecord, DuesKept
  <1>2. CASE \E h \in Handlers : Locally(h)
    BY <1>2, DuesLocally
  <1>3. CASE UNCHANGED <<rest, player>> /\ \E h \in Handlers : Sent(h) \/ Declined(h)
    <2>1. PICK h \in Handlers : Sent(h) \/ Declined(h)
      BY <1>3
    <2>2. db' = db /\ \A g \in Handlers : g # h => call'[g] = call[g]
      BY <2>1, SentRecord, DeclinedRecord
    <2>3. ~AlzDue(call[h]) /\ ~SkillDue(call[h]) /\ ~AlzDue(call'[h]) /\ ~SkillDue(call'[h])
      <3>1. CASE Sent(h)
        BY <3>1, SentRecord DEF AlzDue, SkillDue, Acknowledged
      <3>2. CASE Declined(h)
        BY <3>2, DeclinedRecord DEF AlzDue, SkillDue, Acknowledged, Busy
      <3> QED
        BY <2>1, <3>1, <3>2
    <2> QED
      BY <1>3, <2>2, <2>3, NoDues, SameRecord, DuesKept DEF rest
  <1>4. CASE UNCHANGED <<rest, player>> /\ \E h \in Handlers : Returned(h)
    <2>1. PICK h \in Handlers : Returned(h)
      BY <1>4
    <2>2. db' = db /\ \A g \in Handlers : g # h => call'[g] = call[g]
      BY <2>1, ReturnedRecord
    <2> QED
      BY <1>4, <2>1, <2>2, DuesReturned, SameRecord, DuesKept DEF rest
  <1>5. CASE Still /\ \E h \in Handlers : Served(h)
    BY <1>5, AlzServed, SkillsDueServed
  <1>6. CASE UNCHANGED <<alz, skills, db>> /\ call' = call
    BY <1>6, SameRecord, DuesKept
  <1>7. CASE Still /\ \E h \in Handlers : Breaks(h)
    <2>1. CASE KeepsAnswers
      <3>1. db' = db /\ alz' = alz /\ skills' = skills /\ \A g \in Handlers : Lost(g)
        BY <1>7, PanicLoses DEF Still, rest
      <3>2. ASSUME NEW g \in Handlers
            PROVE  SameDues(call[g], call'[g])
        <4>1. CASE call'[g] = call[g]
          BY <4>1, SameRecord
        <4>2. CASE call[g].at \in {"rpc", "reply"} /\ call'[g].at = "reply" /\ call'[g].res = "err"
          <5>1. call[g].at = "rpc" \/ call[g].res # "ok"
            BY <2>1, <4>2 DEF KeepsAnswers
          <5> QED
            BY <4>2, <5>1, NoDues DEF AlzDue, SkillDue, Acknowledged
        <4> QED
          BY <3>1, <4>1, <4>2, LostRecord
      <3> QED
        BY <3>1, <3>2, DuesKept
    <2>2. CASE UNCHANGED vars
      BY <1>6, <2>2 DEF vars, rest
    <2> QED
      BY <2>1, <2>2
  <1>8. CASE Still /\ MasterRestarts
    BY <1>6, <1>8 DEF Still, rest, MasterRestarts
  <1>9. CASE Calm /\ call' = call
    BY <1>6, <1>9 DEF Calm
  <1> QED
    BY <1>1, <1>2, <1>3, <1>4, <1>5, <1>7, <1>8, <1>9, NextCases

\* Whoever owes something has the mutex or is a handler on its way.
LEMMA MapsMeanFollow == Base /\ Following => MapsFollowTables
  <1> SUFFICES ASSUME Base, MapInv, AlzInv, SkillSync
               PROVE  /\ lock["inv"] = Free /\ (\A h \in Handlers : ~LocalDue(h)) => inv = db.inv
                      /\ lock["eqp"] = Free => eqp = db.eqp
                      /\ (\A h \in Handlers : ~LocalDue(h)) => wh = db.wh /\ cash = db.cash
                      /\ (\A h \in Handlers : ~CharDue(h)) => alz = db.alz /\ skills = db.skills
    BY DEF Following, MapsFollowTables
  <1>1. ASSUME NEW h \in Handlers
        PROVE  /\ lock["inv"] = Free => ~InvAhead(call[h])
               /\ lock["eqp"] = Free => ~EqpAhead(call[h])
               /\ StoreAhead(call[h]) \/ CashAhead(call[h]) => LocalDue(h)
               /\ AlzDue(call[h]) \/ SkillDue(call[h]) => CharDue(h)
    <2>1. Free # h
      BY FreeAssumption
    <2>2. lock["inv"] = Free => ~Holds(call[h], InvCommands)
      BY <2>1 DEF Base, LockOK
    <2>3. lock["eqp"] = Free => ~Holds(call[h], EqpCommands)
      BY <2>1 DEF Base, LockOK
    <2>4. StoreAhead(call[h]) \/ CashAhead(call[h]) => LocalDue(h)
      BY DEF StoreAhead, CashAhead, LocalDue, Acknowledged
    <2>5. AlzDue(call[h]) \/ SkillDue(call[h]) => CharDue(h)
      BY DEF AlzDue, SkillDue, CharDue, Acknowledged
    <2> QED
      BY <2>2, <2>3, <2>4, <2>5 DEF InvAhead, EqpAhead, Acknowledged, Holds
  <1>2. ASSUME \A h \in Handlers : ~CharDue(h)
        PROVE  alz = db.alz /\ skills = db.skills
    <2>1. alz = db.alz /\ \A s \in SkillSlots : skills[s] = db.skills[s]
      BY <1>1, <1>2 DEF AlzInv, SkillSync
    <2> QED
      BY <2>1 DEF Base, StateOK, MapsOK, TablesOK
  <1> QED
    BY <1>1, <1>2 DEF MapInv, MapsEqual

\* As long as no answer of a committed transaction is lost, the maps follow the
\* tables.
LEMMA NextFollow ==
  ASSUME Apart
  PROVE  Base /\ Overlap /\ SkillInv /\ NoLastUnit /\ OneStack /\ Following /\ [Next]_vars
         => Overlap' /\ SkillInv' /\ Following'
  BY NextLost, NextMaps, NextDues, NextOverlap, NextSkills DEF Following

\* The maps of the game server follow the tables of the master, as long as no
\* answer of a transaction that committed is lost: what they lack is what an
\* answer under way says, and once the method has returned they are equal (the
\* assignments after each RPC in inventory.go and equipment.go; SetLocal and
\* RemoveLocal of the warehouse; Remove of the cash inventory; the roll-backs of
\* EquipItem and UnEquipItem), and so are the Alz and the skills of the character.
\* The property says so itself (lost = 0): after a lost answer the map is behind
\* until the character is loaded again.  Calls that fail before they are served,
\* refusals and panics of the master do no harm.  The theorem needs that the
\* packets whose handlers change a map without its mutex are handled alone and
\* one sale or purchase at a time (Apart), that no force core is bought with the
\* last unit of a scroll, and that StackItem meets one stack of its kind: each is
\* a way in which the code lets a map and its table part.
THEOREM ItemMapsFollow ==
  ASSUME Apart
  PROVE  Spec /\ []NoLastUnit /\ []OneStack => []MapsFollowTables
  <1>1. Init => Overlap /\ SkillInv /\ Following
    BY InitMaps, InitSkills, InitLost DEF Following
  <1>2. Base /\ Overlap /\ SkillInv /\ NoLastUnit /\ OneStack /\ Following /\ [Next]_vars
        => Overlap' /\ SkillInv' /\ Following'
    BY NextFollow
  <1>3. Base /\ Following => MapsFollowTables
    BY MapsMeanFollow
  <1> QED
    BY <1>1, <1>2, <1>3, ItemInvariant, PTL DEF Spec

----------------------------------------------------------------------------
(* What lies where.  An item is in a row of a table, on the ground or in    *)
(* the hands of a handler that has taken it away and will put it somewhere. *)

\* What is taken away leaves the others where they were.
LEMMA OnceLess ==
  ASSUME NEW V, NEW W, Once(V), Less(V, W)
  PROVE  /\ Once(W)
         /\ \A x : Gone(V, x) => Gone(W, x)
         /\ \A x, p : Only(V, x, p) => Only(W, x, p)
         /\ \A x, p : Only(V, x, p) /\ (\A y : <<p, y>> \in W => y = 0) => Gone(W, x)
  BY DEF Once, Less, Gone, Only

\* An exchange.
LEMMA OnceCrosses ==
  ASSUME NEW V, NEW W, NEW p, NEW q, Once(V), Crosses(V, W, p, q)
  PROVE  Once(W) /\ \A x : Gone(V, x) => Gone(W, x)
  <1>1. Once(W)
    <2> SUFFICES ASSUME NEW r, NEW s, NEW x, <<r, x>> \in W, <<s, x>> \in W, x # 0 PROVE r = s
      BY DEF Once
    <2>1. \A a, b : <<a, x>> \in V /\ <<b, x>> \in V => a = b
      BY DEF Once
    <2>2. /\ (r = p /\ <<q, x>> \in V) \/ (r = q /\ <<p, x>> \in V) \/ (r # p /\ r # q /\ <<r, x>> \in V)
          /\ (s = p /\ <<q, x>> \in V) \/ (s = q /\ <<p, x>> \in V) \/ (s # p /\ s # q /\ <<s, x>> \in V)
      BY DEF Crosses
    <2> QED
      BY <2>1, <2>2
  <1>2. \A x : Gone(V, x) => Gone(W, x)
    BY DEF Crosses, Gone
  <1> QED
    BY <1>1, <1>2

\* What was nowhere is put down.
LEMMA OncePuts ==
  ASSUME NEW V, NEW W, NEW x, NEW p, Once(V), Gone(V, x), Puts(V, W, x, p)
  PROVE  Once(W) /\ \A y : Gone(V, y) /\ (y # x \/ y = 0) => Gone(W, y)
  <1>1. Once(W)
    <2> SUFFICES ASSUME NEW r, NEW s, NEW y, <<r, y>> \in W, <<s, y>> \in W, y # 0 PROVE r = s
      BY DEF Once
    <2>1. \A a, b : <<a, y>> \in V /\ <<b, y>> \in V => a = b
      BY DEF Once
    <2>2. /\ (r = p /\ y = x) \/ (r # p /\ <<r, y>> \in V)
          /\ (s = p /\ y = x) \/ (s # p /\ <<s, y>> \in V)
      BY DEF Puts
    <2> QED
      BY <2>1, <2>2 DEF Gone
  <1>2. \A y : Gone(V, y) /\ (y # x \/ y = 0) => Gone(W, y)
    BY DEF Puts, Gone
  <1> QED
    BY <1>1, <1>2

\* What lies at a place.
LEMMA LyingAt ==
  ASSUME NEW d, NEW g, NEW x, NEW s
  PROVE  /\ <<<<"inv", s>>, x>> \in Lying(d, g) <=> s \in Slots /\ x = d.inv[s].serials
         /\ <<<<"eqp", s>>, x>> \in Lying(d, g) <=> s \in EqSlots /\ x = d.eqp[s].serials
         /\ <<<<"wh", s>>, x>> \in Lying(d, g) <=> s \in WhSlots /\ x = d.wh[s].serials
         /\ <<<<"ground", s>>, x>> \in Lying(d, g) <=> s \in DOMAIN g /\ x = g[s].serials
  BY DEF Lying

\* There is one item at a place.
LEMMA LyingOne ==
  ASSUME NEW d, NEW g, NEW s
  PROVE  /\ \A z : <<<<"inv", s>>, z>> \in Lying(d, g) => z = d.inv[s].serials
         /\ \A z : <<<<"eqp", s>>, z>> \in Lying(d, g) => z = d.eqp[s].serials
         /\ \A z : <<<<"wh", s>>, z>> \in Lying(d, g) => z = d.wh[s].serials
         /\ \A z : <<<<"ground", s>>, z>> \in Lying(d, g) => z = g[s].serials
  <1> SUFFICES ASSUME NEW z
               PROVE  /\ <<<<"inv", s>>, z>> \in Lying(d, g) => z = d.inv[s].serials
                      /\ <<<<"eqp", s>>, z>> \in Lying(d, g) => z = d.eqp[s].serials
                      /\ <<<<"wh", s>>, z>> \in Lying(d, g) => z = d.wh[s].serials
                      /\ <<<<"ground", s>>, z>> \in Lying(d, g) => z = g[s].serials
    OBVIOUS
  <1> QED
    BY DEF Lying

\* Nothing lies elsewhere.
LEMMA LyingPlaces ==
  ASSUME NEW d, NEW g, NEW p, NEW x, <<p, x>> \in Lying(d, g)
  PROVE  \/ \E s \in Slots : p = <<"inv", s>> /\ x = d.inv[s].serials
         \/ \E s \in EqSlots : p = <<"eqp", s>> /\ x = d.eqp[s].serials
         \/ \E s \in WhSlots : p = <<"wh", s>> /\ x = d.wh[s].serials
         \/ \E s \in DOMAIN g : p = <<"ground", s>> /\ x = g[s].serials
  BY DEF Lying

\* Rows of the inventory go away or stay.
LEMMA InvLess ==
  ASSUME NEW d, NEW e, NEW g, e.eqp = d.eqp, e.wh = d.wh,
         \A s \in Slots : e.inv[s].serials # 0 => e.inv[s].serials = d.inv[s].serials
  PROVE  Less(Lying(d, g), Lying(e, g))
  <1> SUFFICES ASSUME NEW p, NEW x, <<p, x>> \in Lying(e, g), x # 0 PROVE <<p, x>> \in Lying(d, g)
    BY DEF Less
  <1>1. CASE \E s \in Slots : p = <<"inv", s>> /\ x = e.inv[s].serials
    BY <1>1, LyingAt
  <1>2. CASE \E s \in EqSlots : p = <<"eqp", s>> /\ x = e.eqp[s].serials
    BY <1>2, LyingAt
  <1>3. CASE \E s \in WhSlots : p = <<"wh", s>> /\ x = e.wh[s].serials
    BY <1>3, LyingAt
  <1>4. CASE \E s \in DOMAIN g : p = <<"ground", s>> /\ x = g[s].serials
    BY <1>4, LyingAt
  <1> QED
    BY <1>1, <1>2, <1>3, <1>4, LyingPlaces

\* Rows of the equipment go away or stay.
LEMMA EqpLess ==
  ASSUME NEW d, NEW e, NEW g, e.inv = d.inv, e.wh = d.wh,
         \A s \in EqSlots : e.eqp[s].serials # 0 => e.eqp[s].serials = d.eqp[s].serials
  PROVE  Less(Lying(d, g), Lying(e, g))
  <1> SUFFICES ASSUME NEW p, NEW x, <<p, x>> \in Lying(e, g), x # 0 PROVE <<p, x>> \in Lying(d, g)
    BY DEF Less
  <1>1. CASE \E s \in Slots : p = <<"inv", s>> /\ x = e.inv[s].serials
    BY <1>1, LyingAt
  <1>2. CASE \E s \in EqSlots : p = <<"eqp", s>> /\ x = e.eqp[s].serials
    BY <1>2, LyingAt
  <1>3. CASE \E s \in WhSlots : p = <<"wh", s>> /\ x = e.wh[s].serials
    BY <1>3, LyingAt
  <1>4. CASE \E s \in DOMAIN g : p = <<"ground", s>> /\ x = g[s].serials
    BY <1>4, LyingAt
  <1> QED
    BY <1>1, <1>2, <1>3, <1>4, LyingPlaces

\* Items vanish from the ground.
LEMMA GroundLess ==
  ASSUME NEW d, NEW g, NEW k, DOMAIN k \subseteq DOMAIN g, \A s \in DOMAIN k : k[s] = g[s]
  PROVE  Less(Lying(d, g), Lying(d, k))
  <1> SUFFICES ASSUME NEW p, NEW x, <<p, x>> \in Lying(d, k), x # 0 PROVE <<p, x>> \in Lying(d, g)
    BY DEF Less
  <1>1. CASE \E s \in DOMAIN k : p = <<"ground", s>> /\ x = k[s].serials
    BY <1>1, LyingAt
  <1>2. CASE \/ \E s \in Slots : p = <<"inv", s>> /\ x = d.inv[s].serials
             \/ \E s \in EqSlots : p = <<"eqp", s>> /\ x = d.eqp[s].serials
             \/ \E s \in WhSlots : p = <<"wh", s>> /\ x = d.wh[s].serials
    BY <1>2, LyingAt
  <1> QED
    BY <1>1, <1>2, LyingPlaces

\* An item is put on the ground.
LEMMA GroundPuts ==
  ASSUME NEW d, NEW g, NEW i, NEW n, NEW k, k = With(g, n, i)
  PROVE  Puts(Lying(d, g), Lying(d, k), i.serials, <<"ground", n>>)
  <1> SUFFICES ASSUME NEW p, NEW x, <<p, x>> \in Lying(d, k), x # 0
               PROVE  (p = <<"ground", n>> /\ x = i.serials) \/ (p # <<"ground", n>> /\ <<p, x>> \in Lying(d, g))
    BY DEF Puts
  <1>1. CASE \E s \in DOMAIN k : p = <<"ground", s>> /\ x = k[s].serials
    <2>1. PICK s \in DOMAIN k : p = <<"ground", s>> /\ x = k[s].serials
      BY <1>1
    <2>2. CASE s = n
      BY <2>1, <2>2 DEF With
    <2>3. CASE s # n
      <3>1. s \in DOMAIN g /\ k[s] = g[s]
        BY <2>3 DEF With
      <3> QED
        BY <2>1, <2>3, <3>1, LyingAt
    <2> QED
      BY <2>2, <2>3
  <1>2. CASE \/ \E s \in Slots : p = <<"inv", s>> /\ x = d.inv[s].serials
             \/ \E s \in EqSlots : p = <<"eqp", s>> /\ x = d.eqp[s].serials
             \/ \E s \in WhSlots : p = <<"wh", s>> /\ x = d.wh[s].serials
    <2>1. p # <<"ground", n>>
      BY <1>2
    <2> QED
      BY <1>2, <2>1, LyingAt
  <1> QED
    BY <1>1, <1>2, LyingPlaces

\* Two rows of the inventory are exchanged, or one moves.
LEMMA InvCrosses ==
  ASSUME NEW d, NEW e, NEW g, e.eqp = d.eqp, e.wh = d.wh, NEW a \in Slots, NEW b \in Slots,
         e.inv[a].serials \in {0, d.inv[b].serials}, e.inv[b].serials \in {0, d.inv[a].serials},
         \A s \in Slots : s # a /\ s # b => e.inv[s] = d.inv[s]
  PROVE  Crosses(Lying(d, g), Lying(e, g), <<"inv", a>>, <<"inv", b>>)
  <1> SUFFICES ASSUME NEW p, NEW x, <<p, x>> \in Lying(e, g), x # 0
               PROVE  \/ p = <<"inv", a>> /\ <<<<"inv", b>>, x>> \in Lying(d, g)
                      \/ p = <<"inv", b>> /\ <<<<"inv", a>>, x>> \in Lying(d, g)
                      \/ p # <<"inv", a>> /\ p # <<"inv", b>> /\ <<p, x>> \in Lying(d, g)
    BY DEF Crosses
  <1>1. CASE \E s \in Slots : p = <<"inv", s>> /\ x = e.inv[s].serials
    <2>1. PICK s \in Slots : p = <<"inv", s>> /\ x = e.inv[s].serials
      BY <1>1
    <2>2. CASE s = a
      BY <2>1, <2>2, LyingAt
    <2>3. CASE s = b
      BY <2>1, <2>3, LyingAt
    <2>4. CASE s # a /\ s # b
      <3>1. p # <<"inv", a>> /\ p # <<"inv", b>> /\ x = d.inv[s].serials
        BY <2>1, <2>4
      <3> QED
        BY <2>1, <3>1, LyingAt
    <2> QED
      BY <2>2, <2>3, <2>4
  <1>2. CASE \/ \E s \in EqSlots : p = <<"eqp", s>> /\ x = e.eqp[s].serials
             \/ \E s \in WhSlots : p = <<"wh", s>> /\ x = e.wh[s].serials
             \/ \E s \in DOMAIN g : p = <<"ground", s>> /\ x = g[s].serials
    <2>1. p # <<"inv", a>> /\ p # <<"inv", b>>
      BY <1>2
    <2> QED
      BY <1>2, <2>1, LyingAt
  <1> QED
    BY <1>1, <1>2, LyingPlaces

\* An item is put into a slot of the inventory.
LEMMA InvPuts ==
  ASSUME NEW d, NEW e, NEW g, e.eqp = d.eqp, e.wh = d.wh, NEW i, NEW a \in Slots, e.inv[a] = i,
         \A s \in Slots : s # a => e.inv[s] = d.inv[s]
  PROVE  Puts(Lying(d, g), Lying(e, g), i.serials, <<"inv", a>>)
  <1> SUFFICES ASSUME NEW p, NEW x, <<p, x>> \in Lying(e, g), x # 0
               PROVE  \/ p = <<"inv", a>> /\ x = i.serials
                      \/ p # <<"inv", a>> /\ <<p, x>> \in Lying(d, g)
    BY DEF Puts
  <1>1. CASE \E s \in Slots : p = <<"inv", s>> /\ x = e.inv[s].serials
    <2>1. PICK s \in Slots : p = <<"inv", s>> /\ x = e.inv[s].serials
      BY <1>1
    <2>2. CASE s = a
      BY <2>1, <2>2
    <2>3. CASE s # a
      <3>1. p # <<"inv", a>> /\ x = d.inv[s].serials
        BY <2>1, <2>3
      <3> QED
        BY <2>1, <3>1, LyingAt
    <2> QED
      BY <2>2, <2>3
  <1>2. CASE \/ \E s \in EqSlots : p = <<"eqp", s>> /\ x = e.eqp[s].serials
             \/ \E s \in WhSlots : p = <<"wh", s>> /\ x = e.wh[s].serials
             \/ \E s \in DOMAIN g : p = <<"ground", s>> /\ x = g[s].serials
    <2>1. p # <<"inv", a>>
      BY <1>2
    <2> QED
      BY <1>2, <2>1, LyingAt
  <1> QED
    BY <1>1, <1>2, LyingPlaces

\* Two rows of the equipment are exchanged, or one moves.
LEMMA EqpCrosses ==
  ASSUME NEW d, NEW e, NEW g, e.inv = d.inv, e.wh = d.wh, NEW a \in EqSlots, NEW b \in EqSlots,
         e.eqp[a].serials \in {0, d.eqp[b].serials}, e.eqp[b].serials \in {0, d.eqp[a].serials},
         \A s \in EqSlots : s # a /\ s # b => e.eqp[s] = d.eqp[s]
  PROVE  Crosses(Lying(d, g), Lying(e, g), <<"eqp", a>>, <<"eqp", b>>)
  <1> SUFFICES ASSUME NEW p, NEW x, <<p, x>> \in Lying(e, g), x # 0
               PROVE  \/ p = <<"eqp", a>> /\ <<<<"eqp", b>>, x>> \in Lying(d, g)
                      \/ p = <<"eqp", b>> /\ <<<<"eqp", a>>, x>> \in Lying(d, g)
                      \/ p # <<"eqp", a>> /\ p # <<"eqp", b>> /\ <<p, x>> \in Lying(d, g)
    BY DEF Crosses
  <1>1. CASE \E s \in EqSlots : p = <<"eqp", s>> /\ x = e.eqp[s].serials
    <2>1. PICK s \in EqSlots : p = <<"eqp", s>> /\ x = e.eqp[s].serials
      BY <1>1
    <2>2. CASE s = a
      BY <2>1, <2>2, LyingAt
    <2>3. CASE s = b
      BY <2>1, <2>3, LyingAt
    <2>4. CASE s # a /\ s # b
      <3>1. p # <<"eqp", a>> /\ p # <<"eqp", b>> /\ x = d.eqp[s].serials
        BY <2>1, <2>4
      <3> QED
        BY <2>1, <3>1, LyingAt
    <2> QED
      BY <2>2, <2>3, <2>4
  <1>2. CASE \/ \E s \in Slots : p = <<"inv", s>> /\ x = e.inv[s].serials
             \/ \E s \in WhSlots : p = <<"wh", s>> /\ x = e.wh[s].serials
             \/ \E s \in DOMAIN g : p = <<"ground", s>> /\ x = g[s].serials
    <2>1. p # <<"eqp", a>> /\ p # <<"eqp", b>>
      BY <1>2
    <2> QED
      BY <1>2, <2>1, LyingAt
  <1> QED
    BY <1>1, <1>2, LyingPlaces

\* An item is put into a slot of the equipment.
LEMMA EqpPuts ==
  ASSUME NEW d, NEW e, NEW g, e.inv = d.inv, e.wh = d.wh, NEW i, NEW a \in EqSlots, e.eqp[a] = i,
         \A s \in EqSlots : s # a => e.eqp[s] = d.eqp[s]
  PROVE  Puts(Lying(d, g), Lying(e, g), i.serials, <<"eqp", a>>)
  <1> SUFFICES ASSUME NEW p, NEW x, <<p, x>> \in Lying(e, g), x # 0
               PROVE  \/ p = <<"eqp", a>> /\ x = i.serials
                      \/ p # <<"eqp", a>> /\ <<p, x>> \in Lying(d, g)
    BY DEF Puts
  <1>1. CASE \E s \in EqSlots : p = <<"eqp", s>> /\ x = e.eqp[s].serials
    <2>1. PICK s \in EqSlots : p = <<"eqp", s>> /\ x = e.eqp[s].serials
      BY <1>1
    <2>2. CASE s = a
      BY <2>1, <2>2
    <2>3. CASE s # a
      <3>1. p # <<"eqp", a>> /\ x = d.eqp[s].serials
        BY <2>1, <2>3
      <3> QED
        BY <2>1, <3>1, LyingAt
    <2> QED
      BY <2>2, <2>3
  <1>2. CASE \/ \E s \in Slots : p = <<"inv", s>> /\ x = e.inv[s].serials
             \/ \E s \in WhSlots : p = <<"wh", s>> /\ x = e.wh[s].serials
             \/ \E s \in DOMAIN g : p = <<"ground", s>> /\ x = g[s].serials
    <2>1. p # <<"eqp", a>>
      BY <1>2
    <2> QED
      BY <1>2, <2>1, LyingAt
  <1> QED
    BY <1>1, <1>2, LyingPlaces

----------------------------------------------------------------------------
(* What the handlers carry. *)

\* Who is not at work has nothing in its hands.
LEMMA KeepsVacuous ==
  ASSUME NEW V, NEW c, Tale(c), ~Active(c)
  PROVE  Keeps(V, c)
  <1>1. PICK p : p = Place(c)
    OBVIOUS
  <1>2. c.op \in Carriers => c.at \in Waiting /\ (c.op \in Outer \/ c.at = "idle") /\ ~Busy(c) /\ p = c.at
    BY <1>1 DEF Active, Outer, Waiting, Busy, Place
  <1>3. p \in Wearing \cup Hanging \cup Looting \cup {"end", "drop.count", "drop.add"} => c.op \in Carriers
    BY <1>1 DEF Tale
  <1>4. p = "unequip" /\ c.back # "idle" => c.op = "Accessory"
    BY <1>1 DEF Tale
  <1>5. p = "idle" /\ Sending(c) => c.m.cmd # "AddItem"
    BY <1>1, <1>2 DEF Tale, Asks, Busy, Sending, Carriers
  <1>6. ~HasItem(c)
    BY <1>1, <1>2, <1>3, <1>4, <1>5
    DEF HasItem, Taking, UnEquipping, Wearing, Hanging, Waiting, Outer
  <1>7. ~HasMoved(c) /\ p \notin Taking /\ p # "unequip.set" /\ p \notin Looting
    BY <1>1, <1>2, <1>3 DEF HasMoved, Taking, Wearing, Hanging, Looting, Waiting
  <1>8. c.at # "loot.take"
    BY <1>1, <1>7 DEF Place, Busy, Looting
  <1> QED
    BY <1>1, <1>6, <1>7, <1>8 DEF Keeps

\* An idle goroutine.
LEMMA IdleKeeps == \A V : Tale(Idle) /\ Keeps(V, Idle)
  <1>1. Idle.at = "idle" /\ Idle.op = "none"
    BY GoodIdle
  <1>2. Tale(Idle) /\ ~Active(Idle)
    BY <1>1 DEF Tale, Place, Busy, Wearing, Hanging, Looting, UnEquipping, Active
  <1> QED
    BY <1>2, KeepsVacuous

\* Beside a handler at work the others are waiting.
LEMMA ActiveAlone ==
  ASSUME Overlap, CarryApart, OutHeld, NEW h \in Handlers, Active(call[h]), NEW g \in Handlers, g # h
  PROVE  call[g].at \in Waiting /\ ~Active(call[g])
  <1>1. CASE call[g].at = "idle"
    BY <1>1 DEF Waiting, Active
  <1>2. CASE call[g].at # "idle"
    <2>1. PICK pair : pair = {call[g].op, call[h].op}
      OBVIOUS
    <2>2. pair \in Overlapping /\ call[h].op \in pair /\ call[g].op \in pair
      BY <1>2, <2>1 DEF Overlap, Active
    <2>3. call[h].op \in Outer /\ call[g].op \in Outer
      BY <2>2 DEF CarryApart, Active
    <2>4. lock["out"] = h
      BY <2>3 DEF OutHeld, Active
    <2>5. call[g].at \in Waiting
      BY <2>3, <2>4 DEF OutHeld
    <2> QED
      BY <2>3, <2>5 DEF Active
  <1> QED
    BY <1>1, <1>2

\* So they are when mutexOut is free and a handler of Outer starts, or a handler
\* with which no other overlaps.
LEMMA FreshAlone ==
  ASSUME CarryApart, OutHeld, NEW h \in Handlers, NEW op \in Carriers, op \in Outer => lock["out"] = Free,
         NEW g \in Handlers, g # h, call[g].at # "idle" => {op, call[g].op} \in Overlapping
  PROVE  call[g].at \in Waiting
  <1>1. CASE call[g].at = "idle"
    BY <1>1 DEF Waiting
  <1>2. CASE call[g].at # "idle"
    <2>1. PICK pair : pair = {op, call[g].op}
      OBVIOUS
    <2>2. pair \in Overlapping /\ op \in pair /\ call[g].op \in pair
      BY <1>2, <2>1
    <2>3. op \in Outer /\ call[g].op \in Outer
      BY <2>2 DEF CarryApart
    <2> QED
      BY <2>3, FreeAssumption DEF OutHeld
  <1> QED
    BY <1>1, <1>2

\* Then the maps are what the tables hold.
LEMMA Undisturbed ==
  ASSUME MapInv, NEW h \in Handlers, call[h].at \notin Due \cup {"call", "rpc"},
         \A g \in Handlers : g # h => call[g].at \in Waiting
  PROVE  inv = db.inv /\ eqp = db.eqp
  <1>1. \A g \in Handlers : call[g].at \notin Due
    BY DEF Waiting, Due
  <1>2. \A g \in Handlers : ~InvAhead(call[g]) /\ ~EqpAhead(call[g]) /\ ~StoreAhead(call[g]) /\ ~CashAhead(call[g])
    BY <1>1 DEF InvAhead, EqpAhead, StoreAhead, CashAhead, Acknowledged, Due
  <1> QED
    BY <1>2 DEF MapInv, MapsEqual

\* What is taken away disturbs nobody.
LEMMA KeepsLess ==
  ASSUME NEW V, NEW W, Once(V), Less(V, W), NEW c, Keeps(V, c)
  PROVE  Keeps(W, c)
  <1>1. /\ \A x : Gone(V, x) => Gone(W, x)
        /\ \A x, p : Only(V, x, p) => Only(W, x, p)
    BY OnceLess
  <1> QED
    BY <1>1 DEF Keeps

\* A request goes to the master.
LEMMA KeepsSend ==
  ASSUME NEW V, NEW c, Tale(c), Keeps(V, c), c.at = "call", NEW d, Alike(c, d), d.at = "rpc",
         d.m.cmd = c.m.cmd, d.m.cmd \notin {"ConsumeItem", "EnchantItem", "AttachItem"} => d.m = c.m
  PROVE  Tale(d) /\ Keeps(V, d)
  <1>1. /\ Place(d) = Place(c) /\ Busy(d) /\ Busy(c) /\ (Got(d) <=> Got(c)) /\ (Sending(d) <=> Sending(c))
        /\ d.op = c.op /\ d.back = c.back /\ d.item = c.item /\ d.moved = c.moved /\ d.to = c.to
    BY DEF Alike, Place, Busy, Got, Sending
  <1>2. Asks(c)
    BY <1>1 DEF Tale
  <1>3. Asks(d)
    BY <1>1, <1>2 DEF Asks
  <1>4. Tale(d)
    BY <1>1, <1>3 DEF Tale
  <1>5. (HasItem(d) <=> HasItem(c)) /\ (HasMoved(d) <=> HasMoved(c))
    BY <1>1 DEF HasItem, HasMoved
  <1>6. Place(c) \in Taking \/ Place(c) = "unequip.set" => d.m = c.m
    BY <1>2 DEF Asks
  <1> QED
    BY <1>1, <1>4, <1>5, <1>6 DEF Keeps

\* A call fails.
LEMMA KeepsFailed ==
  ASSUME NEW V, NEW c, Tale(c), Keeps(V, c), c.at = "rpc", NEW d, Alike(c, d), d.at = "reply",
         d.m = c.m, d.res # "ok"
  PROVE  Tale(d) /\ Keeps(V, d)
  <1>1. /\ Place(d) = Place(c) /\ Busy(d) /\ Busy(c) /\ ~Got(d) /\ ~Got(c) /\ ~Sending(d)
        /\ d.op = c.op /\ d.back = c.back /\ d.item = c.item /\ d.moved = c.moved /\ d.at # "loot.take"
    BY DEF Alike, Place, Busy, Got, Sending
  <1>2. Tale(d)
    BY <1>1 DEF Tale, Asks
  <1>3. (HasItem(d) => HasItem(c)) /\ (HasMoved(d) => HasMoved(c))
    BY <1>1 DEF HasItem, HasMoved
  <1> QED
    BY <1>1, <1>2, <1>3 DEF Keeps

\* A method comes back to its handler.
LEMMA KeepsResumed ==
  ASSUME NEW V, NEW c, Tale(c), Keeps(V, c), Busy(c), NEW d, ~Busy(d), d.at = c.ret, Recalls(c, d),
         d.op = c.op, d.ok <=> Got(c), d.at \notin Looting
  PROVE  Tale(d) /\ Keeps(V, d)
  <1>1. /\ Place(d) = Place(c) /\ (Got(d) <=> Got(c)) /\ ~Sending(d)
        /\ d.back = c.back /\ d.item = c.item /\ d.moved = c.moved /\ d.at # "loot.take"
    BY DEF Recalls, Place, Busy, Got, Sending, Looting
  <1>2. Tale(d)
    BY <1>1 DEF Tale
  <1>3. (HasItem(d) => HasItem(c)) /\ (HasMoved(d) => HasMoved(c))
    BY <1>1 DEF HasItem, HasMoved
  <1> QED
    BY <1>1, <1>2, <1>3 DEF Keeps

\* An answer to a request that takes nothing from V into the hands of the handler
\* and puts nothing from its hands into W.
LEMMA KeepsAnswered ==
  ASSUME NEW V, NEW W, \A x : Gone(V, x) => Gone(W, x),
         NEW c, Tale(c), Keeps(V, c), c.at = "rpc", NEW d, Alike(c, d), d.at = "reply", d.m = c.m,
         Place(c) \notin Taking, Place(c) # "unequip.set"
  PROVE  Tale(d) /\ Keeps(W, d)
  <1>1. /\ Place(d) = Place(c) /\ Busy(d) /\ Busy(c) /\ ~Got(c) /\ ~Sending(d) /\ Sending(c)
        /\ d.op = c.op /\ d.back = c.back /\ d.item = c.item /\ d.moved = c.moved /\ d.at # "loot.take"
    BY DEF Alike, Place, Busy, Got, Sending
  <1>2. Tale(d)
    BY <1>1 DEF Tale, Asks
  <1>3. (HasItem(d) => HasItem(c)) /\ (HasMoved(d) => HasMoved(c))
    BY <1>1 DEF HasItem, HasMoved
  <1> QED
    BY <1>1, <1>2, <1>3 DEF Keeps

\* An answer that gives the handler what was at one place.
LEMMA KeepsTaken ==
  ASSUME NEW V, NEW W, NEW x, NEW p, Once(V), Less(V, W), \A y : <<p, y>> \in W => y = 0,
         NEW c, Tale(c), Keeps(V, c), c.at = "rpc", NEW d, Alike(c, d), d.at = "reply", d.m = c.m,
         \/ Place(c) \in Taking /\ x = c.item.serials /\ p = <<"inv", c.m.slot>>
         \/ Place(c) = "unequip.set" /\ x = c.moved.serials /\ p = <<"eqp", c.m.slot>>
  PROVE  Tale(d) /\ Keeps(W, d)
  <1>1. /\ Place(d) = Place(c) /\ Busy(d) /\ Busy(c) /\ ~Got(c) /\ ~Sending(d) /\ Sending(c)
        /\ d.op = c.op /\ d.back = c.back /\ d.item = c.item /\ d.moved = c.moved /\ d.at # "loot.take"
    BY DEF Alike, Place, Busy, Got, Sending
  <1>2. Tale(d)
    BY <1>1 DEF Tale, Asks
  <1>3. Only(V, x, p)
    BY <1>1 DEF Keeps
  <1>4. Gone(W, x) /\ \A y : Gone(V, y) => Gone(W, y)
    BY <1>3, OnceLess
  <1>5. CASE Place(c) \in Taking
    <2>1. ~HasMoved(d) /\ Place(c) \notin TakingOff /\ x = c.item.serials
      BY <1>1, <1>5 DEF HasMoved, Taking, TakingOff
    <2> QED
      BY <1>1, <1>2, <1>4, <2>1 DEF Keeps
  <1>6. CASE Place(c) = "unequip.set"
    <2>1. (HasItem(d) => HasItem(c)) /\ x = c.moved.serials
      BY <1>1, <1>6 DEF HasItem, Taking
    <2> QED
      BY <1>1, <1>2, <1>4, <2>1 DEF Keeps
  <1> QED
    BY <1>5, <1>6

\* An answer to a request that puts down what is in the hands of the handler.
LEMMA KeepsPut ==
  ASSUME NEW V, NEW W, NEW p, Once(V),
         NEW c, Tale(c), Keeps(V, c), c.at = "rpc", NEW d, Alike(c, d), d.at = "reply", d.m = c.m, d.res = "ok",
         c.m.cmd \in {"AddItem", "EquipItem"}, Puts(V, W, c.m.item.serials, p)
  PROVE  Once(W) /\ Tale(d) /\ Keeps(W, d)
  <1>1. /\ Place(d) = Place(c) /\ Busy(d) /\ Busy(c) /\ ~Got(c) /\ Got(d) /\ ~Sending(d) /\ Sending(c)
        /\ d.op = c.op /\ d.back = c.back /\ d.item = c.item /\ d.moved = c.moved /\ d.at # "loot.take"
    BY DEF Alike, Place, Busy, Got, Sending
  <1>2. Tale(d)
    BY <1>1 DEF Tale, Asks
  <1>3. Asks(c)
    BY <1>1 DEF Tale
  <1>4. \/ Place(c) \in {"unequip.end", "unequip.failed"} /\ c.m.item = c.moved /\ HasMoved(c)
        \/ Place(c) \in {"end", "idle", "equip.end"} /\ c.m.item = c.item /\ HasItem(c)
    BY <1>1, <1>3 DEF Asks, HasMoved, HasItem
  <1>5. Gone(V, c.m.item.serials)
    BY <1>4 DEF Keeps
  <1>6. Once(W) /\ \A y : Gone(V, y) /\ (y # c.m.item.serials \/ y = 0) => Gone(W, y)
    BY <1>5, OncePuts
  <1>7. ~HasMoved(d) /\ Place(c) \notin Taking
    BY <1>1, <1>3, <1>4 DEF HasMoved, Taking
  <1>8. HasItem(d) => HasItem(c) /\ Place(c) \in TakingOff /\ c.m.item = c.moved
    BY <1>1, <1>4, <1>7 DEF HasItem, TakingOff, UnEquipping, Taking
  <1>9. HasItem(d) => Gone(W, c.item.serials) /\ (c.item.serials # c.moved.serials \/ c.item.serials = 0)
    BY <1>6, <1>8 DEF Keeps
  <1> QED
    BY <1>1, <1>2, <1>6, <1>7, <1>9 DEF Keeps

----------------------------------------------------------------------------
(* Steps of one handler. *)

\* The others have mutexOut as before.
LEMMA OutKept ==
  ASSUME Overlap, CarryApart, OutHeld, NEW h \in Handlers, \A g \in Handlers : g # h => call'[g] = call[g],
         OutStep(h)
  PROVE  OutHeld'
  <1> SUFFICES ASSUME NEW g \in Handlers, call'[g].op \in Outer, call'[g].at \notin Waiting
               PROVE  lock'["out"] = g
    BY DEF OutHeld
  <1>1. CASE g = h
    BY <1>1 DEF OutStep
  <1>2. CASE g # h
    <2>1. call[g].op \in Outer /\ call[g].at \notin Waiting
      BY <1>2
    <2>2. lock["out"] = g /\ lock["out"] # Free
      BY <2>1, FreeAssumption DEF OutHeld
    <2>3. ~Active(call[h])
      BY <1>2, <2>1, ActiveAlone
    <2> QED
      BY <1>2, <2>2, <2>3 DEF OutStep
  <1> QED
    BY <1>1, <1>2

\* One handler goes on; where the tables or the ground change, it is not waiting.
LEMMA CarryStep ==
  ASSUME Overlap, CarryApart, Carry, NEW h \in Handlers, \A g \in Handlers : g # h => call'[g] = call[g],
         NEW W, W = Lying(db, ground)', W = Lying(db, ground) \/ call[h].at \notin Waiting,
         Once(W), Tale(call'[h]), Keeps(W, call'[h]), OutStep(h), \A id \in CashIds : db'.cash[id].serials = 0
  PROVE  Carry'
  <1>1. OutHeld'
    BY OutKept DEF Carry
  <1>2. ASSUME NEW g \in Handlers
        PROVE  Tale(call'[g]) /\ Keeps(W, call'[g])
    <2>1. CASE g = h
      BY <2>1
    <2>2. CASE g # h /\ Active(call[g])
      <3>1. call[h].at \in Waiting
        BY <2>2, ActiveAlone DEF Carry
      <3> QED
        BY <2>2, <3>1 DEF Carry
    <2>3. CASE g # h /\ ~Active(call[g])
      BY <2>3, KeepsVacuous DEF Carry
    <2> QED
      BY <2>1, <2>2, <2>3
  <1> QED
    BY <1>1, <1>2 DEF Carry

\* One handler goes on, and no item moves.
LEMMA CarryGoes ==
  ASSUME Base, Overlap, CarryApart, Carry, NEW h \in Handlers, NEW d, Becomes(h, d), UNCHANGED <<db, ground>>,
         Tale(d), Keeps(Lying(db, ground), d),
         d.op \in Outer /\ d.at \notin Waiting => lock'["out"] = h,
         lock'["out"] = lock["out"] \/ lock["out"] \in {Free, h} \/ Active(call[h])
  PROVE  Carry'
  <1>1. call'[h] = d /\ \A g \in Handlers : g # h => call'[g] = call[g]
    BY BecomesEffect DEF Base
  <1>2. PICK W : W = Lying(db, ground)
    OBVIOUS
  <1>3. W = Lying(db, ground)'
    BY <1>2
  <1>4. OutStep(h)
    BY <1>1 DEF OutStep
  <1>5. Once(W) /\ \A id \in CashIds : db'.cash[id].serials = 0
    BY <1>2 DEF Carry
  <1> QED
    BY <1>1, <1>2, <1>3, <1>4, <1>5, CarryStep

\* A handler that holds mutexOut where it has to goes on.
LEMMA CarryOn ==
  ASSUME Base, Overlap, CarryApart, Carry, NEW h \in Handlers, NEW d, Becomes(h, d), UNCHANGED <<db, ground, lock>>,
         Tale(d), Keeps(Lying(db, ground), d),
         d.op \in Outer => d.op = call[h].op /\ call[h].at \notin Waiting
  PROVE  Carry'
  <1>1. d.op \in Outer /\ d.at \notin Waiting => lock'["out"] = h
    BY DEF Carry, OutHeld
  <1> QED
    BY <1>1, CarryGoes

\* A handler that has nothing to do with carrying, or has done it.
LEMMA CarryIdle ==
  ASSUME Base, Overlap, CarryApart, Carry, NEW h \in Handlers, Becomes(h, Idle), UNCHANGED <<db, ground, lock>>
  PROVE  Carry'
  <1>1. Idle.op \notin Outer
    BY GoodIdle DEF Outer
  <1> QED
    BY <1>1, IdleKeeps, CarryOn

----------------------------------------------------------------------------
(* Methods and maps that are updated without a mutex. *)

\* A request is sent.
LEMMA CarrySent ==
  ASSUME Base, Overlap, CarryApart, Carry, NEW h \in Handlers, Sent(h), UNCHANGED rest
  PROVE  Carry'
  <1>1. PICK c, d, V : c = call[h] /\ d = call'[h] /\ V = Lying(db, ground)
    OBVIOUS
  <1>2. /\ \A g \in Handlers : g # h => call'[g] = call[g]
        /\ c.at = "call" /\ d.at = "rpc" /\ d.op = c.op /\ d.m.cmd = c.m.cmd /\ Alike(c, d)
        /\ d.m.cmd \notin {"ConsumeItem", "EnchantItem", "AttachItem"} => d.m = c.m
        /\ db' = db
    BY <1>1, SentRecord
  <1>3. Tale(c) /\ Keeps(V, c) /\ Once(V)
    BY <1>1 DEF Carry
  <1>4. Tale(d) /\ Keeps(V, d)
    BY <1>2, <1>3, KeepsSend
  <1>5. lock'["out"] = lock["out"]
    BY BaseOf DEF Sent, Sends, Mutex, StateOK
  <1>6. OutStep(h)
    BY <1>1, <1>2, <1>5 DEF OutStep, Carry, OutHeld, Waiting
  <1>7. V = Lying(db, ground)' /\ \A id \in CashIds : db'.cash[id].serials = 0
    BY <1>1, <1>2 DEF rest, Carry
  <1> QED
    BY <1>1, <1>2, <1>3, <1>4, <1>6, <1>7, CarryStep

\* A method returns, with or without an answer.
LEMMA CarryBack ==
  ASSUME Base, Overlap, CarryApart, Carry, NEW h \in Handlers, Declined(h) \/ Returned(h), UNCHANGED <<rest, player>>
  PROVE  Carry'
  <1>1. PICK c, d, V : c = call[h] /\ d = call'[h] /\ V = Lying(db, ground)
    OBVIOUS
  <1>2. /\ \A g \in Handlers : g # h => call'[g] = call[g]
        /\ c.at \in {"call", "reply"} /\ ~Busy(d) /\ d.at = c.ret /\ d.at \notin Looting
        /\ c.ret # "idle" => d.op = c.op /\ Recalls(c, d) /\ (d.ok <=> Got(c))
        /\ db' = db
    <2>1. CASE Declined(h)
      BY <1>1, <2>1, DeclinedRecord DEF Got, Busy
    <2>2. CASE Returned(h)
      BY <1>1, <2>2, ReturnedRecord DEF Got, Busy
    <2> QED
      BY <2>1, <2>2
  <1>3. Tale(c) /\ Keeps(V, c) /\ Once(V)
    BY <1>1 DEF Carry
  <1>4. d = Idle \/ (c.ret # "idle" /\ Tale(d) /\ Keeps(V, d))
    <2>1. CASE c.ret = "idle"
      <3>1. Base'
        BY BaseDeclined, BaseReturned
      <3>2. Good(d)
        BY <1>1, <3>1 DEF Base
      <3> QED
        BY <1>2, <2>1, <3>2 DEF Good
    <2>2. CASE c.ret # "idle"
      BY <1>2, <1>3, <2>2, KeepsResumed DEF Busy
    <2> QED
      BY <2>1, <2>2
  <1>5. Tale(d) /\ Keeps(V, d)
    BY <1>4, IdleKeeps
  <1>6. lock'["out"] = lock["out"]
    BY BaseOf DEF Declined, Declines, Returned, Returns, Mutex, StateOK
  <1>7. OutStep(h)
    BY <1>1, <1>2, <1>4, <1>6, GoodIdle DEF OutStep, Carry, OutHeld, Waiting, Outer
  <1>8. V = Lying(db, ground)' /\ \A id \in CashIds : db'.cash[id].serials = 0
    BY <1>1, <1>2 DEF rest, Carry
  <1> QED
    BY <1>1, <1>2, <1>3, <1>5, <1>7, <1>8, CarryStep

\* A map is updated without its mutex.
LEMMA CarryLocally ==
  ASSUME Base, Overlap, CarryApart, Carry, NEW h \in Handlers, Locally(h)
  PROVE  Carry'
  <1>1. UNCHANGED <<db, ground, lock>>
    BY DEF Locally, MoveStorageRemoveLocal, MoveStorageSetLocal, QueryCashItemDone, UseCashSetLocal,
       UseCashRemove, ShopDone, SkillLearned, master
  <1>2. PICK c, d : /\ c = call[h] /\ Becomes(h, d)
                    /\ \/ d = Idle
                       \/ d = [c EXCEPT !.at = "storage.set"]
                       \/ d = [c EXCEPT !.at = "cash.remove"]
                    /\ c.at \in Due
    BY LocallyBecomes
  <1>3. CASE d = Idle
    BY <1>1, <1>2, <1>3, CarryIdle
  <1>4. CASE d = [c EXCEPT !.at = "storage.set"] \/ d = [c EXCEPT !.at = "cash.remove"]
    <2>1. d.at \in {"storage.set", "cash.remove"} /\ d.op = c.op
      BY <1>2, <1>4, BaseOf DEF Good, CallShape
    <2>2. Tale(d) /\ ~HasItem(d) /\ ~HasMoved(d) /\ Place(d) \notin Taking \cup {"unequip.set"}
      BY <2>1 DEF Tale, HasItem, HasMoved, Place, Busy, Taking, Wearing, Hanging, Looting, UnEquipping, Sending
    <2>3. Keeps(Lying(db, ground), d)
      BY <2>1, <2>2 DEF Keeps
    <2>4. c.at \notin Waiting
      BY <1>2 DEF Waiting, Due
    <2> QED
      BY <1>1, <1>2, <2>1, <2>2, <2>3, <2>4, CarryOn
  <1> QED
    BY <1>2, <1>3, <1>4

\* The master ends: calls fail, and no answer that is there is lost.
LEMMA CarryPanics ==
  ASSUME Base, Carry, NEW h \in Handlers, Breaks(h), Still, KeepsAnswers
  PROVE  Carry'
  <1>1. db' = db /\ ground' = ground /\ lock' = lock /\ \A g \in Handlers : Lost(g)
    BY PanicLoses DEF Still, rest
  <1>2. PICK V : V = Lying(db, ground)
    OBVIOUS
  <1>3. V = Lying(db, ground)' /\ Once(V)
    BY <1>1, <1>2 DEF Carry
  <1>4. ASSUME NEW g \in Handlers
        PROVE  /\ Tale(call'[g]) /\ Keeps(V, call'[g]) /\ call'[g].op = call[g].op
               /\ call'[g].at \notin Waiting => call[g].at \notin Waiting
    <2>1. Tale(call[g]) /\ Keeps(V, call[g])
      BY <1>2 DEF Carry
    <2>2. CASE call'[g] = call[g]
      BY <2>1, <2>2
    <2>3. CASE /\ call[g].at \in {"rpc", "reply"} /\ call'[g].at = "reply" /\ call'[g].res = "err"
               /\ call'[g].op = call[g].op /\ call'[g].m = call[g].m /\ Alike(call[g], call'[g])
      <3>1. PICK c, d : c = call[g] /\ d = call'[g]
        OBVIOUS
      <3>2. CASE c.at = "rpc"
        <4>1. Tale(d) /\ Keeps(V, d)
          BY <2>1, <2>3, <3>1, <3>2, KeepsFailed
        <4> QED
          BY <2>3, <3>1, <3>2, <4>1 DEF Waiting
      <3>3. CASE c.at = "reply"
        <4>1. c.res # "ok" /\ d.res = "err"
          BY <2>3, <3>1, <3>3 DEF KeepsAnswers
        <4>2. /\ Place(d) = Place(c) /\ Busy(d) /\ Busy(c) /\ (Got(d) <=> Got(c)) /\ (Sending(d) <=> Sending(c))
              /\ d.op = c.op /\ d.back = c.back /\ d.item = c.item /\ d.moved = c.moved /\ d.to = c.to /\ d.m = c.m
          BY <2>3, <3>1, <3>3, <4>1 DEF Alike, Place, Busy, Got, Sending
        <4>3. Tale(d) /\ Keeps(V, d)
          BY <2>1, <2>3, <3>1, <4>2 DEF Tale, Asks, Keeps, HasItem, HasMoved
        <4> QED
          BY <2>3, <3>1, <3>3, <4>3 DEF Waiting
      <3> QED
        BY <2>3, <3>1, <3>2, <3>3
    <2> QED
      BY <1>1, <2>2, <2>3, LostRecord
  <1>5. OutHeld'
    BY <1>1, <1>4 DEF Carry, OutHeld
  <1> QED
    BY <1>1, <1>3, <1>4, <1>5 DEF Carry

----------------------------------------------------------------------------
(* The transactions of the master. *)

\* The warehouse: a row goes away, or gets an item.
LEMMA WhLess ==
  ASSUME NEW d, NEW e, NEW g, e.inv = d.inv, e.eqp = d.eqp,
         \A s \in WhSlots : e.wh[s].serials # 0 => e.wh[s].serials = d.wh[s].serials
  PROVE  Less(Lying(d, g), Lying(e, g))
  <1> SUFFICES ASSUME NEW p, NEW x, <<p, x>> \in Lying(e, g), x # 0 PROVE <<p, x>> \in Lying(d, g)
    BY DEF Less
  <1>1. CASE \E s \in Slots : p = <<"inv", s>> /\ x = e.inv[s].serials
    BY <1>1, LyingAt
  <1>2. CASE \E s \in EqSlots : p = <<"eqp", s>> /\ x = e.eqp[s].serials
    BY <1>2, LyingAt
  <1>3. CASE \E s \in WhSlots : p = <<"wh", s>> /\ x = e.wh[s].serials
    BY <1>3, LyingAt
  <1>4. CASE \E s \in DOMAIN g : p = <<"ground", s>> /\ x = g[s].serials
    BY <1>4, LyingAt
  <1> QED
    BY <1>1, <1>2, <1>3, <1>4, LyingPlaces

\* An item is put into a slot of the warehouse.
LEMMA WhPuts ==
  ASSUME NEW d, NEW e, NEW g, e.inv = d.inv, e.eqp = d.eqp, NEW i, NEW a \in WhSlots, e.wh[a] = i,
         \A s \in WhSlots : s # a => e.wh[s] = d.wh[s]
  PROVE  Puts(Lying(d, g), Lying(e, g), i.serials, <<"wh", a>>)
  <1> SUFFICES ASSUME NEW p, NEW x, <<p, x>> \in Lying(e, g), x # 0
               PROVE  \/ p = <<"wh", a>> /\ x = i.serials
                      \/ p # <<"wh", a>> /\ <<p, x>> \in Lying(d, g)
    BY DEF Puts
  <1>1. CASE \E s \in WhSlots : p = <<"wh", s>> /\ x = e.wh[s].serials
    <2>1. PICK s \in WhSlots : p = <<"wh", s>> /\ x = e.wh[s].serials
      BY <1>1
    <2>2. CASE s = a
      BY <2>1, <2>2
    <2>3. CASE s # a
      <3>1. p # <<"wh", a>> /\ x = d.wh[s].serials
        BY <2>1, <2>3
      <3> QED
        BY <2>1, <3>1, LyingAt
    <2> QED
      BY <2>2, <2>3
  <1>2. CASE \/ \E s \in Slots : p = <<"inv", s>> /\ x = e.inv[s].serials
             \/ \E s \in EqSlots : p = <<"eqp", s>> /\ x = e.eqp[s].serials
             \/ \E s \in DOMAIN g : p = <<"ground", s>> /\ x = g[s].serials
    <2>1. p # <<"wh", a>>
      BY <1>2
    <2> QED
      BY <1>2, <2>1, LyingAt
  <1> QED
    BY <1>1, <1>2, LyingPlaces

\* An item that is taken from one place and put at another.
LEMMA OnceMoved ==
  ASSUME NEW V, NEW U, NEW W, NEW x, NEW p, NEW q, Once(V), <<p, x>> \in V,
         Less(V, U), \A y : <<p, y>> \in U => y = 0, Puts(U, W, x, q)
  PROVE  Once(W) /\ \A y : Gone(V, y) => Gone(W, y)
  <1>1. Only(V, x, p)
    BY DEF Once, Only
  <1>2. Once(U) /\ Gone(U, x) /\ \A y : Gone(V, y) => Gone(U, y)
    BY <1>1, OnceLess
  <1>3. Once(W) /\ \A y : Gone(U, y) /\ (y # x \/ y = 0) => Gone(W, y)
    BY <1>2, OncePuts
  <1>4. \A y : Gone(V, y) => y # x \/ y = 0
    BY DEF Gone
  <1> QED
    BY <1>2, <1>3, <1>4

\* The commands of the inventory that only take items away or change what else
\* there is of them.
LEMMA ServedRows ==
  ASSUME StateOK, Unmarked, NEW m, RequestOK(m), Effect(m), Exact(m),
         m.cmd \in InvCommands \ {"AddItem", "SwapItem", "MoveItem"}, NEW s \in Slots
  PROVE  db'.inv[s].serials \in {0, db.inv[s].serials}
  <1>1. PICK f, g : f = db.inv /\ g = db'.inv
    OBVIOUS
  <1>2. Gives(m, f, g) /\ f \in [Slots -> Items] /\ NoItem.serials = 0
    BY <1>1 DEF Effect, StateOK, TablesOK, NoItem
  <1>3. CASE m.cmd \in {"RemoveItem", "LearnSkill"}
    BY <1>1, <1>2, <1>3 DEF Gives
  <1>4. CASE m.cmd = "PurchaseItem"
    <2>1. m.item.serials = 0
      BY <1>4 DEF RequestOK, Unmarked
    <2> QED
      BY <1>1, <1>2, <1>4, <2>1 DEF Gives
  <1>5. CASE m.cmd = "StackItem"
    <2>1. m.item = [f[m.slot] EXCEPT !.opt = m.item.opt] /\ m.slot \in Slots
      BY <1>1, <1>5 DEF Exact, RequestOK, InvCommands
    <2>2. m.item.serials = f[m.slot].serials
      BY <1>2, <2>1 DEF Items
    <2> QED
      BY <1>1, <1>2, <1>5, <2>2 DEF Gives
  <1>6. CASE m.cmd = "SellItems"
    BY <1>1, <1>2, <1>6 DEF Gives, Deleted
  <1>7. CASE m.cmd \in {"ConsumeItem", "EnchantItem"}
    <2>1. f[m.slot] = m.item /\ m.item \in Items
      BY <1>1, <1>7 DEF Effect, Stored, At, RequestOK
    <2>2. /\ [m.item EXCEPT !.opt = @ - 1].serials = f[m.slot].serials
          /\ [m.item EXCEPT !.kind = m.new.kind].serials = f[m.slot].serials
      BY <2>1 DEF Items
    <2>3. CASE m.cmd = "ConsumeItem"
      BY <1>1, <1>2, <2>2, <2>3 DEF Gives
    <2>4. CASE m.cmd = "EnchantItem"
      BY <1>1, <1>2, <2>2, <2>4 DEF Gives, Deleted
    <2> QED
      BY <1>7, <2>3, <2>4
  <1>8. CASE m.cmd = "AttachItem"
    <2>1. m.new.serials = f[m.slot].serials
      BY <1>1, <1>8 DEF Effect, Stored, At
    <2> QED
      BY <1>1, <1>2, <1>8, <2>1 DEF Gives, Deleted
  <1>9. CASE m.cmd = "ForceCoreEnchant"
    <2>1. \A p \in m.cores \cup m.others \cup {At(m.slot, m.item)} : f[p.slot] = p.item
      BY <1>1, <1>9 DEF Effect, Stored
    <2>2. m.new.serials = f[m.slot].serials
      <3>1. At(m.slot, m.item).slot = m.slot /\ At(m.slot, m.item).item = m.item
        BY DEF At
      <3>2. f[m.slot] = m.item
        BY <2>1, <3>1
      <3>3. m.new.serials = m.item.serials
        BY <1>9 DEF Effect
      <3> QED
        BY <3>2, <3>3
    <2>3. \A p \in m.others : p.item \in Items /\ f[p.slot] = p.item
      BY <2>1 DEF RequestOK, Positions
    <2>4. CASE s = m.slot
      BY <1>1, <1>2, <1>9, <2>2, <2>4, Zenon DEF Gives
    <2>5. CASE s # m.slot /\ \E p \in m.cores : p.slot = s
      BY <1>1, <1>2, <1>9, <2>5, Zenon DEF Gives
    <2>6. CASE s # m.slot /\ ~(\E p \in m.cores : p.slot = s) /\ ~(\E p \in m.others : p.slot = s)
      BY <1>1, <1>2, <1>9, <2>6, Zenon DEF Gives
    <2>7. CASE s # m.slot /\ ~(\E p \in m.cores : p.slot = s) /\ \E p \in m.others : p.slot = s
      <3>1. PICK p : p = CHOOSE q \in m.others : q.slot = s
        OBVIOUS
      <3>2. p \in m.others /\ p.slot = s
        BY <2>7, <3>1
      <3>3. g[s] = IF p.item.opt > 1 THEN [p.item EXCEPT !.opt = @ - 1] ELSE NoItem
        BY <1>2, <1>9, <2>7, <3>1, Zenon DEF Gives
      <3>4. [p.item EXCEPT !.opt = @ - 1].serials = f[s].serials
        BY <2>3, <3>2 DEF Items
      <3> QED
        BY <1>1, <1>2, <3>3, <3>4
    <2> QED
      BY <2>4, <2>5, <2>6, <2>7
  <1> QED
    BY <1>3, <1>4, <1>5, <1>6, <1>7, <1>8, <1>9 DEF InvCommands

\* The master answers; Lying(db, ground)' is W.
LEMMA CarryAnswered ==
  ASSUME Base, Overlap, CarryApart, Carry, Still, NEW h \in Handlers, Served(h), NEW W, W = Lying(db, ground)',
         Once(W), Tale(call'[h]), Keeps(W, call'[h]), \A id \in CashIds : db'.cash[id].serials = 0
  PROVE  Carry'
  <1>1. /\ \A g \in Handlers : g # h => call'[g] = call[g]
        /\ call[h].at = "rpc" /\ call'[h].op = call[h].op
    BY ServedRecord DEF Alike
  <1>2. OutStep(h)
    BY <1>1 DEF OutStep, Still, Carry, OutHeld, Waiting
  <1>3. call[h].at \notin Waiting
    BY <1>1 DEF Waiting
  <1> QED
    BY <1>1, <1>2, <1>3, CarryStep

\* It follows from what an answer leaves of the record.
LEMMA AnsweredOf ==
  ASSUME Base, Carry, NEW h \in Handlers, Served(h)
  PROVE  /\ IsAnswered(call[h], call'[h]) /\ Keeps(Lying(db, ground), call[h])
         /\ call'[h].res = "ok" => Effect(call[h].m)
         /\ call'[h].res # "ok" => db' = db
  <1>1. RequestOK(call[h].m) /\ Tale(call[h]) /\ Keeps(Lying(db, ground), call[h])
    BY BaseOf DEF Good, Carry
  <1> QED
    BY <1>1, ServedRecord DEF IsAnswered

\* A refused transaction, or a call that fails.
LEMMA CarryRefused ==
  ASSUME Base, Overlap, CarryApart, Carry, Still, NEW h \in Handlers, Served(h), call'[h].res # "ok"
  PROVE  Carry'
  <1>1. PICK c, d, V : c = call[h] /\ d = call'[h] /\ V = Lying(db, ground)
    OBVIOUS
  <1>2. IsAnswered(c, d) /\ Keeps(V, c) /\ db' = db
    BY <1>1, AnsweredOf
  <1>3. Tale(d) /\ Keeps(V, d)
    BY <1>1, <1>2, KeepsFailed DEF IsAnswered
  <1>4. V = Lying(db, ground)' /\ Once(V) /\ \A id \in CashIds : db'.cash[id].serials = 0
    BY <1>1, <1>2 DEF Still, rest, Carry
  <1> QED
    BY <1>1, <1>3, <1>4, CarryAnswered

\* Where a handler waits that asks for something else than an item.
LEMMA AsksElse ==
  ASSUME NEW c, NEW d, IsAnswered(c, d)
  PROVE  /\ c.m.cmd # "RemoveItem" => Place(c) \notin Taking
         /\ c.m.cmd # "UnEquipItem" => Place(c) # "unequip.set"
  BY DEF IsAnswered, Tale, Asks, Busy

\* A request of the inventory.
LEMMA CarryServedInv ==
  ASSUME Base, Overlap, Apart, CarryApart, Unmarked, Carry, MapInv, NoLastUnit, OneStack, Still,
         NEW h \in Handlers, Served(h), call[h].m.cmd \in InvCommands, call'[h].res = "ok"
  PROVE  Carry'
  <1>1. PICK c, d, V, W, m : /\ c = call[h] /\ d = call'[h] /\ m = c.m
                             /\ V = Lying(db, ground) /\ W = Lying(db, ground)'
    OBVIOUS
  <1>2. IsAnswered(c, d) /\ Keeps(V, c) /\ Effect(m) /\ RequestOK(m)
    BY <1>1, AnsweredOf DEF IsAnswered
  <1>3. Holds(call[h], InvCommands) /\ ~InvAhead(call[h])
    BY <1>1, <1>2 DEF Holds, InvAhead, Acknowledged, IsAnswered
  <1>4. inv = db.inv
    BY <1>3, InvCurrent
  <1>5. Exact(m)
    BY <1>1, <1>2, <1>4, ExactInv DEF MapInv, IsAnswered
  <1>6. /\ db'.eqp = db.eqp /\ db'.wh = db.wh /\ db'.cash = db.cash
        /\ Gives(m, db.inv, db'.inv) /\ ground' = ground
    BY <1>1, <1>2, <1>5 DEF Effect, Still, rest
  <1>7. Once(V) /\ StateOK /\ \A id \in CashIds : db'.cash[id].serials = 0
    BY <1>1, <1>6, BaseOf DEF Carry
  <1>8. PICK x, y, k : x = db /\ y = db' /\ k = ground
    OBVIOUS
  <1>9. /\ V = Lying(x, k) /\ W = Lying(y, k) /\ y.eqp = x.eqp /\ y.wh = x.wh
        /\ Gives(m, x.inv, y.inv) /\ x.inv \in [Slots -> Items]
    BY <1>1, <1>6, <1>7, <1>8 DEF StateOK, TablesOK
  <1>10. CASE m.cmd = "AddItem"
    <2>1. m.slot \in Slots /\ y.inv = [x.inv EXCEPT ![m.slot] = m.item]
      BY <1>2, <1>9, <1>10 DEF Gives, RequestOK, InvCommands
    <2>2. y.inv[m.slot] = m.item /\ \A s \in Slots : s # m.slot => y.inv[s] = x.inv[s]
      BY <1>9, <2>1
    <2>3. Puts(V, W, m.item.serials, <<"inv", m.slot>>)
      BY <1>9, <2>1, <2>2, InvPuts
    <2>4. Once(W) /\ Tale(d) /\ Keeps(W, d)
      BY <1>1, <1>2, <1>7, <1>10, <2>3, KeepsPut DEF IsAnswered
    <2> QED
      BY <1>1, <1>7, <2>4, CarryAnswered
  <1>11. CASE m.cmd \in {"SwapItem", "MoveItem"}
    <2>1. m.slot \in Slots /\ m.to \in Slots
      BY <1>2, <1>11 DEF RequestOK, InvCommands
    <2>2. /\ y.inv[m.slot].serials \in {0, x.inv[m.to].serials}
          /\ y.inv[m.to].serials \in {0, x.inv[m.slot].serials}
          /\ \A s \in Slots : s # m.slot /\ s # m.to => y.inv[s] = x.inv[s]
      <3>1. NoItem.serials = 0
        BY DEF NoItem
      <3>2. CASE m.cmd = "SwapItem"
        BY <1>9, <2>1, <3>1, <3>2 DEF Gives
      <3>3. CASE m.cmd = "MoveItem"
        BY <1>9, <2>1, <3>1, <3>3 DEF Gives
      <3> QED
        BY <1>11, <3>2, <3>3
    <2>3. Crosses(V, W, <<"inv", m.slot>>, <<"inv", m.to>>)
      BY <1>9, <2>1, <2>2, InvCrosses
    <2>4. Once(W) /\ \A z : Gone(V, z) => Gone(W, z)
      BY <1>7, <2>3, OnceCrosses
    <2>5. Place(c) \notin Taking /\ Place(c) # "unequip.set"
      BY <1>1, <1>2, <1>11, AsksElse
    <2>6. Tale(d) /\ Keeps(W, d)
      BY <1>1, <1>2, <2>4, <2>5, KeepsAnswered DEF IsAnswered
    <2> QED
      BY <1>1, <1>7, <2>4, <2>6, CarryAnswered
  <1>12. CASE m.cmd \notin {"AddItem", "SwapItem", "MoveItem"}
    <2>1. \A s \in Slots : y.inv[s].serials # 0 => y.inv[s].serials = x.inv[s].serials
      BY <1>1, <1>2, <1>5, <1>7, <1>8, <1>12, ServedRows
    <2>2. Less(V, W)
      BY <1>9, <2>1, InvLess
    <2>3. Once(W) /\ \A z : Gone(V, z) => Gone(W, z)
      BY <1>7, <2>2, OnceLess
    <2>4. Place(c) # "unequip.set"
      BY <1>1, <1>2, AsksElse DEF InvCommands
    <2>5. CASE Place(c) \in Taking
      <3>1. m.cmd = "RemoveItem" /\ m.slot \in Slots
        BY <1>1, <1>2, <2>5, AsksElse DEF RequestOK, InvCommands
      <3>2. y.inv[m.slot].serials = 0
        BY <1>9, <3>1 DEF Gives, NoItem
      <3>3. \A z : <<<<"inv", m.slot>>, z>> \in W => z = 0
        <4>1. \A z : <<<<"inv", m.slot>>, z>> \in Lying(y, k) => z = y.inv[m.slot].serials
          BY LyingOne
        <4> QED
          BY <1>9, <3>2, <4>1
      <3>4. Tale(d) /\ Keeps(W, d)
        BY <1>1, <1>2, <1>7, <2>2, <2>5, <3>3, KeepsTaken DEF IsAnswered
      <3> QED
        BY <1>1, <1>7, <2>3, <3>4, CarryAnswered
    <2>6. CASE Place(c) \notin Taking
      <3>1. Tale(d) /\ Keeps(W, d)
        BY <1>1, <1>2, <2>3, <2>4, <2>6, KeepsAnswered DEF IsAnswered
      <3> QED
        BY <1>1, <1>7, <2>3, <3>1, CarryAnswered
    <2> QED
      BY <2>5, <2>6
  <1> QED
    BY <1>10, <1>11, <1>12

\* A request of the equipment.
LEMMA CarryServedEqp ==
  ASSUME Base, Overlap, Apart, CarryApart, Carry, MapInv, Still,
         NEW h \in Handlers, Served(h), call[h].m.cmd \in EqpCommands, call'[h].res = "ok"
  PROVE  Carry'
  <1>1. PICK c, d, V, W, m : /\ c = call[h] /\ d = call'[h] /\ m = c.m
                             /\ V = Lying(db, ground) /\ W = Lying(db, ground)'
    OBVIOUS
  <1>2. IsAnswered(c, d) /\ Keeps(V, c) /\ Effect(m) /\ RequestOK(m)
    BY <1>1, AnsweredOf DEF IsAnswered
  <1>3. Holds(call[h], EqpCommands) /\ ~EqpAhead(call[h])
    BY <1>1, <1>2 DEF Holds, EqpAhead, Acknowledged, IsAnswered
  <1>4. eqp = db.eqp
    BY <1>3, EqpCurrent
  <1>5. Exact(m)
    BY <1>1, <1>2, <1>4, ExactEqp DEF MapInv, IsAnswered
  <1>6. /\ db'.inv = db.inv /\ db'.wh = db.wh /\ db'.cash = db.cash
        /\ EqGives(m, db.eqp, db'.eqp) /\ ground' = ground
    BY <1>1, <1>2, <1>5 DEF Effect, Still, rest
  <1>7. Once(V) /\ StateOK /\ \A id \in CashIds : db'.cash[id].serials = 0
    BY <1>1, <1>6, BaseOf DEF Carry
  <1>8. PICK x, y, k : x = db /\ y = db' /\ k = ground
    OBVIOUS
  <1>9. /\ V = Lying(x, k) /\ W = Lying(y, k) /\ y.inv = x.inv /\ y.wh = x.wh
        /\ EqGives(m, x.eqp, y.eqp) /\ x.eqp \in [EqSlots -> Items]
    BY <1>1, <1>6, <1>7, <1>8 DEF StateOK, TablesOK
  <1>10. m.slot \in EqSlots /\ NoItem.serials = 0
    BY <1>1, <1>2 DEF RequestOK, NoItem
  <1>11. CASE m.cmd = "EquipItem"
    <2>1. y.eqp = [x.eqp EXCEPT ![m.slot] = m.item]
      BY <1>9, <1>11 DEF EqGives
    <2>2. y.eqp[m.slot] = m.item /\ \A s \in EqSlots : s # m.slot => y.eqp[s] = x.eqp[s]
      BY <1>9, <1>10, <2>1
    <2>3. Puts(V, W, m.item.serials, <<"eqp", m.slot>>)
      BY <1>9, <1>10, <2>2, EqpPuts
    <2>4. Once(W) /\ Tale(d) /\ Keeps(W, d)
      BY <1>1, <1>2, <1>7, <1>11, <2>3, KeepsPut DEF IsAnswered
    <2> QED
      BY <1>1, <1>7, <2>4, CarryAnswered
  <1>12. CASE m.cmd \in {"SwapEquipmentItem", "MoveEquipmentItem"}
    <2>1. m.to \in EqSlots
      BY <1>2, <1>12 DEF RequestOK
    <2>2. /\ y.eqp[m.slot].serials \in {0, x.eqp[m.to].serials}
          /\ y.eqp[m.to].serials \in {0, x.eqp[m.slot].serials}
          /\ \A s \in EqSlots : s # m.slot /\ s # m.to => y.eqp[s] = x.eqp[s]
      <3>1. CASE m.cmd = "SwapEquipmentItem"
        BY <1>9, <1>10, <2>1, <3>1 DEF EqGives
      <3>2. CASE m.cmd = "MoveEquipmentItem"
        BY <1>9, <1>10, <2>1, <3>2 DEF EqGives
      <3> QED
        BY <1>12, <3>1, <3>2
    <2>3. Crosses(V, W, <<"eqp", m.slot>>, <<"eqp", m.to>>)
      BY <1>9, <1>10, <2>1, <2>2, EqpCrosses
    <2>4. Once(W) /\ \A z : Gone(V, z) => Gone(W, z)
      BY <1>7, <2>3, OnceCrosses
    <2>5. Place(c) \notin Taking /\ Place(c) # "unequip.set"
      BY <1>1, <1>2, <1>12, AsksElse
    <2>6. Tale(d) /\ Keeps(W, d)
      BY <1>1, <1>2, <2>4, <2>5, KeepsAnswered DEF IsAnswered
    <2> QED
      BY <1>1, <1>7, <2>4, <2>6, CarryAnswered
  <1>13. CASE m.cmd = "UnEquipItem"
    <2>1. y.eqp = [x.eqp EXCEPT ![m.slot] = NoItem]
      BY <1>9, <1>13 DEF EqGives
    <2>2. \A s \in EqSlots : y.eqp[s].serials # 0 => y.eqp[s].serials = x.eqp[s].serials
      BY <1>9, <1>10, <2>1
    <2>3. Less(V, W)
      BY <1>9, <2>2, EqpLess
    <2>4. Once(W) /\ \A z : Gone(V, z) => Gone(W, z)
      BY <1>7, <2>3, OnceLess
    <2>5. Place(c) \notin Taking
      BY <1>1, <1>2, <1>13, AsksElse
    <2>6. Tale(d) /\ Keeps(W, d)
      <3>1. CASE Place(c) = "unequip.set"
        <4>1. \A z : <<<<"eqp", m.slot>>, z>> \in Lying(y, k) => z = y.eqp[m.slot].serials
          BY LyingOne
        <4>2. y.eqp[m.slot].serials = 0
          BY <1>9, <1>10, <2>1
        <4>3. \A z : <<<<"eqp", m.slot>>, z>> \in W => z = 0
          BY <1>9, <4>1, <4>2
        <4> QED
          BY <1>1, <1>2, <1>7, <2>3, <3>1, <4>3, KeepsTaken DEF IsAnswered
      <3>2. CASE Place(c) # "unequip.set"
        BY <1>1, <1>2, <2>4, <2>5, <3>2, KeepsAnswered DEF IsAnswered
      <3> QED
        BY <3>1, <3>2
    <2> QED
      BY <1>1, <1>7, <2>4, <2>6, CarryAnswered
  <1> QED
    BY <1>1, <1>11, <1>12, <1>13 DEF EqpCommands

\* A move between inventory and warehouse, on rows.
LEMMA OnceStored ==
  ASSUME NEW x, NEW y, NEW k, TablesOK(x), Once(Lying(x, k)), y.eqp = x.eqp,
         \/ \E a \in Slots, b \in WhSlots : /\ y.inv = [x.inv EXCEPT ![a] = NoItem]
                                            /\ y.wh = [x.wh EXCEPT ![b] = x.inv[a]]
         \/ \E a \in WhSlots, b \in Slots : /\ y.wh = [x.wh EXCEPT ![a] = NoItem]
                                            /\ y.inv = [x.inv EXCEPT ![b] = x.wh[a]]
         \/ \E a, b \in WhSlots : y.inv = x.inv /\ y.wh = [x.wh EXCEPT ![a] = NoItem, ![b] = x.wh[a]]
  PROVE  Once(Lying(y, k)) /\ \A z : Gone(Lying(x, k), z) => Gone(Lying(y, k), z)
  <1>1. x.inv \in [Slots -> Items] /\ x.wh \in [WhSlots -> Items] /\ NoItem.serials = 0
    BY DEF TablesOK, NoItem
  <1>2. CASE \E a \in Slots, b \in WhSlots : y.inv = [x.inv EXCEPT ![a] = NoItem] /\ y.wh = [x.wh EXCEPT ![b] = x.inv[a]]
    <2>1. PICK a \in Slots, b \in WhSlots : y.inv = [x.inv EXCEPT ![a] = NoItem] /\ y.wh = [x.wh EXCEPT ![b] = x.inv[a]]
      BY <1>2
    <2>2. PICK u : u = [inv |-> y.inv, eqp |-> x.eqp, wh |-> x.wh]
      OBVIOUS
    <2>3. \A s \in Slots : u.inv[s].serials # 0 => u.inv[s].serials = x.inv[s].serials
      BY <1>1, <2>1, <2>2
    <2>4. Less(Lying(x, k), Lying(u, k))
      BY <2>2, <2>3, InvLess
    <2>5. y.wh[b] = x.inv[a] /\ \A s \in WhSlots : s # b => y.wh[s] = u.wh[s]
      BY <1>1, <2>1, <2>2
    <2>6. Puts(Lying(u, k), Lying(y, k), x.inv[a].serials, <<"wh", b>>)
      BY <2>2, <2>5, WhPuts
    <2>7. u.inv[a].serials = 0
      BY <1>1, <2>1, <2>2
    <2>8. <<<<"inv", a>>, x.inv[a].serials>> \in Lying(x, k)
      BY LyingAt
    <2>9. \A z : <<<<"inv", a>>, z>> \in Lying(u, k) => z = u.inv[a].serials
      BY LyingOne
    <2> QED
      BY <2>4, <2>6, <2>7, <2>8, <2>9, OnceMoved
  <1>3. CASE \E a \in WhSlots, b \in Slots : y.wh = [x.wh EXCEPT ![a] = NoItem] /\ y.inv = [x.inv EXCEPT ![b] = x.wh[a]]
    <2>1. PICK a \in WhSlots, b \in Slots : y.wh = [x.wh EXCEPT ![a] = NoItem] /\ y.inv = [x.inv EXCEPT ![b] = x.wh[a]]
      BY <1>3
    <2>2. PICK u : u = [inv |-> x.inv, eqp |-> x.eqp, wh |-> y.wh]
      OBVIOUS
    <2>3. \A s \in WhSlots : u.wh[s].serials # 0 => u.wh[s].serials = x.wh[s].serials
      BY <1>1, <2>1, <2>2
    <2>4. Less(Lying(x, k), Lying(u, k))
      BY <2>2, <2>3, WhLess
    <2>5. y.inv[b] = x.wh[a] /\ \A s \in Slots : s # b => y.inv[s] = u.inv[s]
      BY <1>1, <2>1, <2>2
    <2>6. Puts(Lying(u, k), Lying(y, k), x.wh[a].serials, <<"inv", b>>)
      BY <2>2, <2>5, InvPuts
    <2>7. u.wh[a].serials = 0
      BY <1>1, <2>1, <2>2
    <2>8. <<<<"wh", a>>, x.wh[a].serials>> \in Lying(x, k)
      BY LyingAt
    <2>9. \A z : <<<<"wh", a>>, z>> \in Lying(u, k) => z = u.wh[a].serials
      BY LyingOne
    <2> QED
      BY <2>4, <2>6, <2>7, <2>8, <2>9, OnceMoved
  <1>4. CASE \E a, b \in WhSlots : y.inv = x.inv /\ y.wh = [x.wh EXCEPT ![a] = NoItem, ![b] = x.wh[a]]
    <2>1. PICK a \in WhSlots, b \in WhSlots : y.inv = x.inv /\ y.wh = [x.wh EXCEPT ![a] = NoItem, ![b] = x.wh[a]]
      BY <1>4
    <2>2. PICK u : u = [inv |-> x.inv, eqp |-> x.eqp, wh |-> [x.wh EXCEPT ![a] = NoItem]]
      OBVIOUS
    <2>3. \A s \in WhSlots : u.wh[s].serials # 0 => u.wh[s].serials = x.wh[s].serials
      BY <1>1, <2>1, <2>2
    <2>4. Less(Lying(x, k), Lying(u, k))
      BY <2>2, <2>3, WhLess
    <2>5. y.wh[b] = x.wh[a] /\ \A s \in WhSlots : s # b => y.wh[s] = u.wh[s]
      BY <1>1, <2>1, <2>2
    <2>6. Puts(Lying(u, k), Lying(y, k), x.wh[a].serials, <<"wh", b>>)
      BY <2>1, <2>2, <2>5, WhPuts
    <2>7. u.wh[a].serials = 0
      BY <1>1, <2>1, <2>2
    <2>8. <<<<"wh", a>>, x.wh[a].serials>> \in Lying(x, k)
      BY LyingAt
    <2>9. \A z : <<<<"wh", a>>, z>> \in Lying(u, k) => z = u.wh[a].serials
      BY LyingOne
    <2> QED
      BY <2>4, <2>6, <2>7, <2>8, <2>9, OnceMoved
  <1> QED
    BY <1>2, <1>3, <1>4

\* A move between inventory and warehouse.
LEMMA CarryServedStorage ==
  ASSUME Base, Overlap, CarryApart, Carry, Still, NEW h \in Handlers, Served(h),
         call[h].m.cmd = "StorageMove", call'[h].res = "ok"
  PROVE  Carry'
  <1>1. PICK c, d, V, W, m : /\ c = call[h] /\ d = call'[h] /\ m = c.m
                             /\ V = Lying(db, ground) /\ W = Lying(db, ground)'
    OBVIOUS
  <1>2. IsAnswered(c, d) /\ Keeps(V, c) /\ Effect(m) /\ RequestOK(m) /\ TablesOK(db) /\ ground' = ground
    BY <1>1, AnsweredOf, BaseOf DEF IsAnswered, StateOK, Still, rest
  <1>3. PICK x, y, k : x = db /\ y = db' /\ k = ground
    OBVIOUS
  <1>4. V = Lying(x, k) /\ W = Lying(y, k) /\ Once(V)
    BY <1>1, <1>2, <1>3 DEF Carry
  <1>5. /\ m.table \in {"inv", "wh"} /\ m.target \in {"inv", "wh"} /\ "wh" \in {m.table, m.target}
        /\ m.slot \in (IF m.table = "inv" THEN Slots ELSE WhSlots)
        /\ m.to \in (IF m.target = "inv" THEN Slots ELSE WhSlots)
    BY <1>1, <1>2 DEF RequestOK, Extent, Tables
  <1>6. y = x \/ (y.eqp = x.eqp /\ y.cash = x.cash)
    BY <1>1, <1>2, <1>3 DEF Effect
  <1>7. Once(W) /\ \A z : Gone(V, z) => Gone(W, z)
    <2>1. CASE m.table = m.target /\ m.slot = m.to
      <3>1. y = x
        BY <1>1, <1>2, <1>3, <2>1 DEF Effect
      <3> QED
        BY <1>4, <3>1
    <2>2. CASE ~(m.table = m.target /\ m.slot = m.to)
      <3>0. y.eqp = x.eqp
        BY <1>6
      <3>1. CASE m.table = "inv"
        <4>1. /\ y.inv = [x.inv EXCEPT ![m.slot] = NoItem] /\ y.wh = [x.wh EXCEPT ![m.to] = x.inv[m.slot]]
              /\ m.slot \in Slots /\ m.to \in WhSlots
          BY <1>1, <1>2, <1>3, <1>5, <2>2, <3>1 DEF Effect
        <4> QED
          BY <1>2, <1>3, <1>4, <3>0, <4>1, OnceStored
      <3>2. CASE m.target = "inv"
        <4>1. /\ y.wh = [x.wh EXCEPT ![m.slot] = NoItem] /\ y.inv = [x.inv EXCEPT ![m.to] = x.wh[m.slot]]
              /\ m.slot \in WhSlots /\ m.to \in Slots
          BY <1>1, <1>2, <1>3, <1>5, <2>2, <3>2 DEF Effect
        <4> QED
          BY <1>2, <1>3, <1>4, <3>0, <4>1, OnceStored
      <3>3. CASE m.table = "wh" /\ m.target = "wh"
        <4>1. /\ y.inv = x.inv /\ y.wh = [x.wh EXCEPT ![m.slot] = NoItem, ![m.to] = x.wh[m.slot]]
              /\ m.slot \in WhSlots /\ m.to \in WhSlots
          BY <1>1, <1>2, <1>3, <1>5, <2>2, <3>3 DEF Effect
        <4> QED
          BY <1>2, <1>3, <1>4, <3>0, <4>1, OnceStored
      <3> QED
        BY <1>5, <3>1, <3>2, <3>3
    <2> QED
      BY <2>1, <2>2
  <1>8. Place(c) \notin Taking /\ Place(c) # "unequip.set"
    BY <1>1, <1>2, AsksElse
  <1>9. Tale(d) /\ Keeps(W, d)
    BY <1>1, <1>2, <1>7, <1>8, KeepsAnswered DEF IsAnswered
  <1>10. \A id \in CashIds : db'.cash[id].serials = 0
    BY <1>3, <1>6 DEF Carry
  <1> QED
    BY <1>1, <1>7, <1>9, <1>10, CarryAnswered

\* The requests of the cash inventory.
LEMMA CarryServedCash ==
  ASSUME Base, Overlap, CarryApart, Carry, Still, NEW h \in Handlers, Served(h),
         call[h].m.cmd \in {"UseCashItem", "LoadCashInventory"}, call'[h].res = "ok"
  PROVE  Carry'
  <1>1. PICK c, d, V, W, m : /\ c = call[h] /\ d = call'[h] /\ m = c.m
                             /\ V = Lying(db, ground) /\ W = Lying(db, ground)'
    OBVIOUS
  <1>2. IsAnswered(c, d) /\ Keeps(V, c) /\ Effect(m) /\ RequestOK(m) /\ TablesOK(db) /\ ground' = ground
    BY <1>1, AnsweredOf, BaseOf DEF IsAnswered, StateOK, Still, rest
  <1>3. PICK x, y, k : x = db /\ y = db' /\ k = ground
    OBVIOUS
  <1>4. V = Lying(x, k) /\ W = Lying(y, k) /\ Once(V) /\ \A id \in CashIds : x.cash[id].serials = 0
    BY <1>1, <1>2, <1>3 DEF Carry
  <1>5. y.eqp = x.eqp /\ y.wh = x.wh
    BY <1>1, <1>2, <1>3 DEF Effect
  <1>6. /\ \A s \in Slots : y.inv[s].serials # 0 => y.inv[s].serials = x.inv[s].serials
        /\ \A id \in CashIds : y.cash[id].serials = 0
    <2>1. CASE m.cmd = "LoadCashInventory"
      <3>1. y = x
        BY <1>2, <1>3, <2>1 DEF Effect
      <3> QED
        BY <1>4, <3>1
    <2>2. CASE m.cmd = "UseCashItem"
      <3>1. /\ x.cash[m.to] = m.item /\ y.inv = [x.inv EXCEPT ![m.slot] = m.item]
            /\ y.cash = [x.cash EXCEPT ![m.to] = NoItem] /\ m.slot \in Slots /\ m.to \in CashIds
        BY <1>2, <1>3, <2>2 DEF Effect, RequestOK
      <3>2. m.item.serials = 0 /\ NoItem.serials = 0
        BY <1>4, <3>1 DEF NoItem
      <3>3. x.inv \in [Slots -> Items] /\ x.cash \in [CashIds -> Items]
        BY <1>2, <1>3 DEF TablesOK
      <3> QED
        BY <1>4, <3>1, <3>2, <3>3
    <2> QED
      BY <1>1, <2>1, <2>2
  <1>7. Less(V, W)
    BY <1>4, <1>5, <1>6, InvLess
  <1>8. Once(W) /\ \A z : Gone(V, z) => Gone(W, z)
    BY <1>4, <1>7, OnceLess
  <1>9. Place(c) \notin Taking /\ Place(c) # "unequip.set"
    BY <1>1, <1>2, AsksElse
  <1>10. Tale(d) /\ Keeps(W, d)
    BY <1>1, <1>2, <1>8, <1>9, KeepsAnswered DEF IsAnswered
  <1> QED
    BY <1>1, <1>3, <1>6, <1>8, <1>10, CarryAnswered

\* Every transaction.
LEMMA CarryServed ==
  ASSUME Base, Overlap, Apart, CarryApart, Unmarked, Carry, MapInv, NoLastUnit, OneStack, Still,
         NEW h \in Handlers, Served(h)
  PROVE  Carry'
  <1>1. call[h].m.cmd \in InvCommands \cup EqpCommands \cup BareCommands
    BY ServedRecord, BaseOf DEF Good, RequestOK, SentOK, Busy
  <1>2. CASE call'[h].res # "ok"
    BY <1>2, CarryRefused
  <1>3. CASE call'[h].res = "ok"
    BY <1>1, <1>3, CarryServedInv, CarryServedEqp, CarryServedStorage, CarryServedCash DEF BareCommands
  <1> QED
    BY <1>2, <1>3

----------------------------------------------------------------------------
(* The steps of the handlers that carry items. *)

\* The fields of the requests.
LEMMA Requested ==
  ASSUME NEW s, NEW i
  PROVE  /\ RemoveFrom(s).cmd = "RemoveItem" /\ RemoveFrom(s).slot = s
         /\ SetTo(s, i).cmd = "AddItem" /\ SetTo(s, i).item = i
         /\ EquipTo(s, i).cmd = "EquipItem" /\ EquipTo(s, i).item = i
         /\ TakeOff(s).cmd = "UnEquipItem" /\ TakeOff(s).slot = s
  BY DEF RemoveFrom, SetTo, EquipTo, TakeOff, Command, NoRequest

\* Its record.
LEMMA CarrierOf ==
  ASSUME Base, Carry, NEW h \in Handlers, NEW c, c = call[h], c.at \in Carrying
  PROVE  /\ CallShape(c) /\ Slotted(c, c.at) /\ c.op \in Carriers /\ Tale(c) /\ Place(c) = c.at
         /\ Once(Lying(db, ground)) /\ Hand(Lying(db, ground), c)
         /\ c.at \notin Waiting \/ c.op \notin Outer => Active(c)
         /\ c.at \notin Due \cup {"call", "rpc"}
  <1>1. Good(c) /\ Tale(c) /\ Keeps(Lying(db, ground), c) /\ Once(Lying(db, ground))
    BY BaseOf DEF Carry
  <1>2. ~Busy(c) /\ Place(c) = c.at /\ c.at # "idle" /\ c.at \notin Due \cup {"call", "rpc"}
    BY DEF Busy, Place, Carrying, Wearing, Hanging, Looting, Due
  <1>3. CallShape(c) /\ Slotted(c, c.at)
    BY <1>1, <1>2, GoodValues DEF Values
  <1>4. c.op \in Carriers
    BY <1>1, <1>2 DEF Tale, Carrying
  <1>5. Active(c) \/ (c.at \in Waiting /\ c.op \in Outer)
    BY <1>2, <1>4 DEF Active
  <1>6. Hand(Lying(db, ground), c)
    BY <1>1, <1>2 DEF Hand, Keeps, HasItem, HasMoved, Got, Taking, TakingOff, UnEquipping
  <1> QED
    BY <1>1, <1>2, <1>3, <1>4, <1>5, <1>6

\* A handler that carries nothing any more.
LEMMA CarryEnd ==
  ASSUME Base, Overlap, CarryApart, Carry, NEW h \in Handlers, NEW d, Becomes(h, d), UNCHANGED <<db, ground>>,
         d.at \in {"end", "unequip.done"}, d.back = "idle" \/ d.at = "end",
         d.op \in Carriers, d.op \in Outer => lock'["out"] = h,
         lock'["out"] = lock["out"] \/ lock["out"] \in {Free, h} \/ Active(call[h])
  PROVE  Carry'
  <1>1. Tale(d)
    BY DEF Tale, Asks, Place, Busy, Wearing, Hanging, Looting, UnEquipping, Taking
  <1>2. Keeps(Lying(db, ground), d)
    BY DEF Keeps, HasItem, HasMoved, Got, Sending, Place, Busy, Taking, TakingOff, UnEquipping
  <1> QED
    BY <1>1, <1>2, CarryGoes

\* The item that was taken is put on.
LEMMA CarryEquipItemSet ==
  ASSUME Base, Overlap, CarryApart, Carry, NEW h \in Handlers, EquipItemSet(h)
  PROVE  Carry'
  <1>1. PICK c, V : c = call[h] /\ V = Lying(db, ground)
    OBVIOUS
  <1>2. c.at = "equip.set" /\ UNCHANGED <<db, ground, lock>>
    BY <1>1 DEF EquipItemSet, master, rest
  <1>3. /\ CallShape(c) /\ Slotted(c, c.at) /\ c.op \in Carriers /\ Tale(c) /\ Place(c) = c.at
        /\ Once(V) /\ Hand(V, c) /\ (c.at \notin Waiting \/ c.op \notin Outer => Active(c))
        /\ c.at \notin Due \cup {"call", "rpc"}
    BY <1>1, <1>2, CarrierOf DEF Carrying, Wearing, Hanging, Looting
  <1>4. CASE c.ok
    <2>1. PICK d : d = Calling(c, EquipTo(c.to, c.item), "equip.end")
      OBVIOUS
    <2>2. Becomes(h, d)
      BY <1>1, <1>2, <1>4, <2>1 DEF EquipItemSet, Becomes
    <2>3. /\ d.at = "call" /\ d.ret = "equip.end" /\ d.op = c.op /\ d.item = c.item /\ d.back = c.back
          /\ d.m.cmd = "EquipItem" /\ d.m.item = c.item
      BY <1>2, <1>3, <1>4, <2>1, Requested DEF CallShape, Calling
    <2>4. Tale(d)
      BY <1>2, <1>3, <2>3 DEF Tale, Asks, Place, Busy, Wearing, Hanging, Looting, UnEquipping, Taking
    <2>5. Keeps(V, d)
      BY <1>2, <1>3, <1>4, <2>3 DEF Keeps, HasItem, HasMoved, Got, Sending, Place, Busy, Taking, TakingOff, UnEquipping, Hand
    <2> QED
      BY <1>1, <1>2, <1>3, <2>2, <2>3, <2>4, <2>5, CarryOn DEF Waiting
  <1>5. CASE ~c.ok
    <2>1. PICK d : d = [c EXCEPT !.at = "end"]
      OBVIOUS
    <2>2. Becomes(h, d)
      BY <1>1, <1>2, <1>5, <2>1 DEF EquipItemSet, Becomes
    <2>3. d.at = "end" /\ d.op = c.op
      BY <1>2, <1>3, <1>5, <2>1, Requested DEF CallShape, Calling
    <2>4. Tale(d)
      BY <1>2, <1>3, <2>3 DEF Tale, Asks, Place, Busy, Wearing, Hanging, Looting, UnEquipping, Taking
    <2>5. Keeps(V, d)
      BY <1>2, <1>3, <1>5, <2>3 DEF Keeps, HasItem, HasMoved, Got, Sending, Place, Busy, Taking, TakingOff, UnEquipping, Hand
    <2> QED
      BY <1>1, <1>2, <1>3, <2>2, <2>3, <2>4, <2>5, CarryOn DEF Waiting
  <1> QED
    BY <1>4, <1>5

\* It could not be, and is put back.
LEMMA CarryEquipItemRollback ==
  ASSUME Base, Overlap, CarryApart, Carry, NEW h \in Handlers, EquipItemRollback(h)
  PROVE  Carry'
  <1>1. PICK c, V : c = call[h] /\ V = Lying(db, ground)
    OBVIOUS
  <1>2. c.at = "equip.end" /\ UNCHANGED <<db, ground, lock>>
    BY <1>1 DEF EquipItemRollback, master, rest
  <1>3. /\ CallShape(c) /\ Slotted(c, c.at) /\ c.op \in Carriers /\ Tale(c) /\ Place(c) = c.at
        /\ Once(V) /\ Hand(V, c) /\ (c.at \notin Waiting \/ c.op \notin Outer => Active(c))
        /\ c.at \notin Due \cup {"call", "rpc"}
    BY <1>1, <1>2, CarrierOf DEF Carrying, Wearing, Hanging, Looting
  <1>4. CASE c.ok
    <2>1. PICK d : d = [c EXCEPT !.at = "end"]
      OBVIOUS
    <2>2. Becomes(h, d)
      BY <1>1, <1>2, <1>4, <2>1 DEF EquipItemRollback, Becomes
    <2>3. d.at = "end" /\ d.op = c.op
      BY <1>2, <1>3, <1>4, <2>1, Requested DEF CallShape, Calling
    <2>4. Tale(d)
      BY <1>2, <1>3, <2>3 DEF Tale, Asks, Place, Busy, Wearing, Hanging, Looting, UnEquipping, Taking
    <2>5. Keeps(V, d)
      BY <1>2, <1>3, <1>4, <2>3 DEF Keeps, HasItem, HasMoved, Got, Sending, Place, Busy, Taking, TakingOff, UnEquipping, Hand
    <2> QED
      BY <1>1, <1>2, <1>3, <2>2, <2>3, <2>4, <2>5, CarryOn DEF Waiting
  <1>5. CASE ~c.ok
    <2>1. PICK d : d = Calling(c, SetTo(c.slot, c.item), "end")
      OBVIOUS
    <2>2. Becomes(h, d)
      BY <1>1, <1>2, <1>5, <2>1 DEF EquipItemRollback, Becomes
    <2>3. /\ d.at = "call" /\ d.ret = "end" /\ d.op = c.op /\ d.item = c.item /\ d.back = c.back
          /\ d.m.cmd = "AddItem" /\ d.m.item = c.item
      BY <1>2, <1>3, <1>5, <2>1, Requested DEF CallShape, Calling
    <2>4. Tale(d)
      BY <1>2, <1>3, <2>3 DEF Tale, Asks, Place, Busy, Wearing, Hanging, Looting, UnEquipping, Taking
    <2>5. Keeps(V, d)
      BY <1>2, <1>3, <1>5, <2>3 DEF Keeps, HasItem, HasMoved, Got, Sending, Place, Busy, Taking, TakingOff, UnEquipping, Hand
    <2> QED
      BY <1>1, <1>2, <1>3, <2>2, <2>3, <2>4, <2>5, CarryOn DEF Waiting
  <1> QED
    BY <1>4, <1>5

\* The item that was taken off is stored.
LEMMA CarryUnEquipItemSet ==
  ASSUME Base, Overlap, CarryApart, Carry, NEW h \in Handlers, UnEquipItemSet(h)
  PROVE  Carry'
  <1>1. PICK c, V : c = call[h] /\ V = Lying(db, ground)
    OBVIOUS
  <1>2. c.at = "unequip.set" /\ UNCHANGED <<db, ground, lock>>
    BY <1>1 DEF UnEquipItemSet, master, rest
  <1>3. /\ CallShape(c) /\ Slotted(c, c.at) /\ c.op \in Carriers /\ Tale(c) /\ Place(c) = c.at
        /\ Once(V) /\ Hand(V, c) /\ (c.at \notin Waiting \/ c.op \notin Outer => Active(c))
        /\ c.at \notin Due \cup {"call", "rpc"}
    BY <1>1, <1>2, CarrierOf DEF Carrying, Wearing, Hanging, Looting
  <1>4. CASE c.ok
    <2>1. PICK d : d = Calling(c, SetTo(c.slot, c.moved), "unequip.end")
      OBVIOUS
    <2>2. Becomes(h, d)
      BY <1>1, <1>2, <1>4, <2>1 DEF UnEquipItemSet, Becomes
    <2>3. /\ d.at = "call" /\ d.ret = "unequip.end" /\ d.op = c.op /\ d.item = c.item /\ d.moved = c.moved /\ d.back = c.back
          /\ d.m.cmd = "AddItem" /\ d.m.item = c.moved
      BY <1>2, <1>3, <1>4, <2>1, Requested DEF CallShape, Calling
    <2>4. Tale(d)
      BY <1>2, <1>3, <2>3 DEF Tale, Asks, Place, Busy, Wearing, Hanging, Looting, UnEquipping, Taking
    <2>5. Keeps(V, d)
      BY <1>2, <1>3, <1>4, <2>3 DEF Keeps, HasItem, HasMoved, Got, Sending, Place, Busy, Taking, TakingOff, UnEquipping, Hand
    <2> QED
      BY <1>1, <1>2, <1>3, <2>2, <2>3, <2>4, <2>5, CarryOn DEF Waiting
  <1>5. CASE ~c.ok
    <2>1. PICK d : d = [c EXCEPT !.at = "unequip.done"]
      OBVIOUS
    <2>2. Becomes(h, d)
      BY <1>1, <1>2, <1>5, <2>1 DEF UnEquipItemSet, Becomes
    <2>3. d.at = "unequip.done" /\ d.op = c.op /\ d.item = c.item /\ d.moved = c.moved /\ d.back = c.back
      BY <1>2, <1>3, <1>5, <2>1, Requested DEF CallShape, Calling
    <2>4. Tale(d)
      BY <1>2, <1>3, <2>3 DEF Tale, Asks, Place, Busy, Wearing, Hanging, Looting, UnEquipping, Taking
    <2>5. Keeps(V, d)
      BY <1>2, <1>3, <1>5, <2>3 DEF Keeps, HasItem, HasMoved, Got, Sending, Place, Busy, Taking, TakingOff, UnEquipping, Hand
    <2> QED
      BY <1>1, <1>2, <1>3, <2>2, <2>3, <2>4, <2>5, CarryOn DEF Waiting
  <1> QED
    BY <1>4, <1>5

\* It could not be, and is put elsewhere.
LEMMA CarryUnEquipItemRollback ==
  ASSUME Base, Overlap, CarryApart, Carry, NEW h \in Handlers, UnEquipItemRollback(h)
  PROVE  Carry'
  <1>1. PICK c, V : c = call[h] /\ V = Lying(db, ground)
    OBVIOUS
  <1>2. c.at = "unequip.end" /\ UNCHANGED <<db, ground, lock>>
    BY <1>1 DEF UnEquipItemRollback, master, rest
  <1>3. /\ CallShape(c) /\ Slotted(c, c.at) /\ c.op \in Carriers /\ Tale(c) /\ Place(c) = c.at
        /\ Once(V) /\ Hand(V, c) /\ (c.at \notin Waiting \/ c.op \notin Outer => Active(c))
        /\ c.at \notin Due \cup {"call", "rpc"}
    BY <1>1, <1>2, CarrierOf DEF Carrying, Wearing, Hanging, Looting
  <1>4. CASE c.ok
    <2>1. PICK d : d = [c EXCEPT !.at = "unequip.done"]
      OBVIOUS
    <2>2. Becomes(h, d)
      BY <1>1, <1>2, <1>4, <2>1 DEF UnEquipItemRollback, Becomes
    <2>3. d.at = "unequip.done" /\ d.op = c.op /\ d.item = c.item /\ d.moved = c.moved /\ d.back = c.back
      BY <1>2, <1>3, <1>4, <2>1, Requested DEF CallShape, Calling
    <2>4. Tale(d)
      BY <1>2, <1>3, <2>3 DEF Tale, Asks, Place, Busy, Wearing, Hanging, Looting, UnEquipping, Taking
    <2>5. Keeps(V, d)
      BY <1>2, <1>3, <1>4, <2>3 DEF Keeps, HasItem, HasMoved, Got, Sending, Place, Busy, Taking, TakingOff, UnEquipping, Hand
    <2> QED
      BY <1>1, <1>2, <1>3, <2>2, <2>3, <2>4, <2>5, CarryOn DEF Waiting
  <1>5. CASE ~c.ok
    <2>1. PICK d : d = Calling(c, SetTo(c.to, c.moved), "unequip.failed")
      OBVIOUS
    <2>2. Becomes(h, d)
      BY <1>1, <1>2, <1>5, <2>1 DEF UnEquipItemRollback, Becomes
    <2>3. /\ d.at = "call" /\ d.ret = "unequip.failed" /\ d.op = c.op /\ d.item = c.item /\ d.moved = c.moved /\ d.back = c.back
          /\ d.m.cmd = "AddItem" /\ d.m.item = c.moved
      BY <1>2, <1>3, <1>5, <2>1, Requested DEF CallShape, Calling
    <2>4. Tale(d)
      BY <1>2, <1>3, <2>3 DEF Tale, Asks, Place, Busy, Wearing, Hanging, Looting, UnEquipping, Taking
    <2>5. Keeps(V, d)
      BY <1>2, <1>3, <1>5, <2>3 DEF Keeps, HasItem, HasMoved, Got, Sending, Place, Busy, Taking, TakingOff, UnEquipping, Hand
    <2> QED
      BY <1>1, <1>2, <1>3, <2>2, <2>3, <2>4, <2>5, CarryOn DEF Waiting
  <1> QED
    BY <1>4, <1>5

\* The item of the inventory is taken away.
LEMMA CarrySwapEquipItemUnEquip ==
  ASSUME Base, Overlap, CarryApart, Carry, NEW h \in Handlers, SwapEquipItemUnEquip(h)
  PROVE  Carry'
  <1>1. PICK c, V : c = call[h] /\ V = Lying(db, ground)
    OBVIOUS
  <1>2. c.at = "swap.unequip" /\ UNCHANGED <<db, ground, lock>>
    BY <1>1 DEF SwapEquipItemUnEquip, master, rest
  <1>3. /\ CallShape(c) /\ Slotted(c, c.at) /\ c.op \in Carriers /\ Tale(c) /\ Place(c) = c.at
        /\ Once(V) /\ Hand(V, c) /\ (c.at \notin Waiting \/ c.op \notin Outer => Active(c))
        /\ c.at \notin Due \cup {"call", "rpc"}
    BY <1>1, <1>2, CarrierOf DEF Carrying, Wearing, Hanging, Looting
  <1>4. CASE c.ok
    <2>1. PICK d : d = [c EXCEPT !.at = "unequip.remove"]
      OBVIOUS
    <2>2. Becomes(h, d)
      BY <1>1, <1>2, <1>4, <2>1 DEF SwapEquipItemUnEquip, Becomes
    <2>3. d.at = "unequip.remove" /\ d.op = c.op /\ d.item = c.item /\ d.back = c.back
      BY <1>2, <1>3, <1>4, <2>1, Requested DEF CallShape, Calling
    <2>4. Tale(d)
      BY <1>2, <1>3, <2>3 DEF Tale, Asks, Place, Busy, Wearing, Hanging, Looting, UnEquipping, Taking
    <2>5. Keeps(V, d)
      BY <1>2, <1>3, <1>4, <2>3 DEF Keeps, HasItem, HasMoved, Got, Sending, Place, Busy, Taking, TakingOff, UnEquipping, Hand
    <2> QED
      BY <1>1, <1>2, <1>3, <2>2, <2>3, <2>4, <2>5, CarryOn DEF Waiting
  <1>5. CASE ~c.ok
    <2>1. PICK d : d = [c EXCEPT !.at = "end"]
      OBVIOUS
    <2>2. Becomes(h, d)
      BY <1>1, <1>2, <1>5, <2>1 DEF SwapEquipItemUnEquip, Becomes
    <2>3. d.at = "end" /\ d.op = c.op
      BY <1>2, <1>3, <1>5, <2>1, Requested DEF CallShape, Calling
    <2>4. Tale(d)
      BY <1>2, <1>3, <2>3 DEF Tale, Asks, Place, Busy, Wearing, Hanging, Looting, UnEquipping, Taking
    <2>5. Keeps(V, d)
      BY <1>2, <1>3, <1>5, <2>3 DEF Keeps, HasItem, HasMoved, Got, Sending, Place, Busy, Taking, TakingOff, UnEquipping, Hand
    <2> QED
      BY <1>1, <1>2, <1>3, <2>2, <2>3, <2>4, <2>5, CarryOn DEF Waiting
  <1> QED
    BY <1>4, <1>5

\* It is put on.
LEMMA CarrySwapEquipItemSet ==
  ASSUME Base, Overlap, CarryApart, Carry, NEW h \in Handlers, SwapEquipItemSet(h)
  PROVE  Carry'
  <1>1. PICK c, V : c = call[h] /\ V = Lying(db, ground)
    OBVIOUS
  <1>2. c.at = "swap.set" /\ UNCHANGED <<db, ground, lock>>
    BY <1>1 DEF SwapEquipItemSet, master, rest
  <1>3. /\ CallShape(c) /\ Slotted(c, c.at) /\ c.op \in Carriers /\ Tale(c) /\ Place(c) = c.at
        /\ Once(V) /\ Hand(V, c) /\ (c.at \notin Waiting \/ c.op \notin Outer => Active(c))
        /\ c.at \notin Due \cup {"call", "rpc"}
    BY <1>1, <1>2, CarrierOf DEF Carrying, Wearing, Hanging, Looting
  <1>4. CASE c.ok
    <2>1. PICK d : d = Calling(c, EquipTo(c.to, c.item), "end")
      OBVIOUS
    <2>2. Becomes(h, d)
      BY <1>1, <1>2, <1>4, <2>1 DEF SwapEquipItemSet, Becomes
    <2>3. /\ d.at = "call" /\ d.ret = "end" /\ d.op = c.op /\ d.item = c.item /\ d.back = c.back
          /\ d.m.cmd = "EquipItem" /\ d.m.item = c.item
      BY <1>2, <1>3, <1>4, <2>1, Requested DEF CallShape, Calling
    <2>4. Tale(d)
      BY <1>2, <1>3, <2>3 DEF Tale, Asks, Place, Busy, Wearing, Hanging, Looting, UnEquipping, Taking
    <2>5. Keeps(V, d)
      BY <1>2, <1>3, <1>4, <2>3 DEF Keeps, HasItem, HasMoved, Got, Sending, Place, Busy, Taking, TakingOff, UnEquipping, Hand
    <2> QED
      BY <1>1, <1>2, <1>3, <2>2, <2>3, <2>4, <2>5, CarryOn DEF Waiting
  <1>5. CASE ~c.ok
    <2>1. PICK d : d = [c EXCEPT !.at = "end"]
      OBVIOUS
    <2>2. Becomes(h, d)
      BY <1>1, <1>2, <1>5, <2>1 DEF SwapEquipItemSet, Becomes
    <2>3. d.at = "end" /\ d.op = c.op
      BY <1>2, <1>3, <1>5, <2>1, Requested DEF CallShape, Calling
    <2>4. Tale(d)
      BY <1>2, <1>3, <2>3 DEF Tale, Asks, Place, Busy, Wearing, Hanging, Looting, UnEquipping, Taking
    <2>5. Keeps(V, d)
      BY <1>2, <1>3, <1>5, <2>3 DEF Keeps, HasItem, HasMoved, Got, Sending, Place, Busy, Taking, TakingOff, UnEquipping, Hand
    <2> QED
      BY <1>1, <1>2, <1>3, <2>2, <2>3, <2>4, <2>5, CarryOn DEF Waiting
  <1> QED
    BY <1>4, <1>5

\* The last accessory is taken off.
LEMMA CarryEquipAccessoryTaken ==
  ASSUME Base, Overlap, CarryApart, Carry, NEW h \in Handlers, EquipAccessoryTaken(h)
  PROVE  Carry'
  <1>1. PICK c, V : c = call[h] /\ V = Lying(db, ground)
    OBVIOUS
  <1>2. c.at = "acc.taken" /\ UNCHANGED <<db, ground, lock>>
    BY <1>1 DEF EquipAccessoryTaken, master, rest
  <1>3. /\ CallShape(c) /\ Slotted(c, c.at) /\ c.op \in Carriers /\ Tale(c) /\ Place(c) = c.at
        /\ Once(V) /\ Hand(V, c) /\ (c.at \notin Waiting \/ c.op \notin Outer => Active(c))
        /\ c.at \notin Due \cup {"call", "rpc"}
    BY <1>1, <1>2, CarrierOf DEF Carrying, Wearing, Hanging, Looting
  <1>4. CASE c.ok
    <2>1. PICK d : d = [c EXCEPT !.at = "acc.shift", !.n = Len(Accessories) - 1]
      OBVIOUS
    <2>2. Becomes(h, d)
      BY <1>1, <1>2, <1>4, <2>1 DEF EquipAccessoryTaken, Becomes
    <2>3. d.at = "acc.shift" /\ d.op = c.op /\ d.item = c.item
      BY <1>2, <1>3, <1>4, <2>1, Requested DEF CallShape, Calling
    <2>4. Tale(d)
      BY <1>2, <1>3, <2>3 DEF Tale, Asks, Place, Busy, Wearing, Hanging, Looting, UnEquipping, Taking
    <2>5. Keeps(V, d)
      BY <1>2, <1>3, <1>4, <2>3 DEF Keeps, HasItem, HasMoved, Got, Sending, Place, Busy, Taking, TakingOff, UnEquipping, Hand
    <2> QED
      BY <1>1, <1>2, <1>3, <2>2, <2>3, <2>4, <2>5, CarryOn DEF Waiting
  <1>5. CASE ~c.ok
    <2>1. PICK d : d = Calling(c, SetTo(c.slot, c.item), "end")
      OBVIOUS
    <2>2. Becomes(h, d)
      BY <1>1, <1>2, <1>5, <2>1 DEF EquipAccessoryTaken, Becomes
    <2>3. /\ d.at = "call" /\ d.ret = "end" /\ d.op = c.op /\ d.item = c.item
          /\ d.m.cmd = "AddItem" /\ d.m.item = c.item
      BY <1>2, <1>3, <1>5, <2>1, Requested DEF CallShape, Calling
    <2>4. Tale(d)
      BY <1>2, <1>3, <2>3 DEF Tale, Asks, Place, Busy, Wearing, Hanging, Looting, UnEquipping, Taking
    <2>5. Keeps(V, d)
      BY <1>2, <1>3, <1>5, <2>3 DEF Keeps, HasItem, HasMoved, Got, Sending, Place, Busy, Taking, TakingOff, UnEquipping, Hand
    <2> QED
      BY <1>1, <1>2, <1>3, <2>2, <2>3, <2>4, <2>5, CarryOn DEF Waiting
  <1> QED
    BY <1>4, <1>5

\* A row of a table, or an item on the ground, lies only where it is.
LEMMA OnlyHere ==
  ASSUME NEW d, NEW g, Once(Lying(d, g))
  PROVE  /\ \A s \in Slots : Only(Lying(d, g), d.inv[s].serials, <<"inv", s>>)
         /\ \A s \in EqSlots : Only(Lying(d, g), d.eqp[s].serials, <<"eqp", s>>)
         /\ \A s \in DOMAIN g : Only(Lying(d, g), g[s].serials, <<"ground", s>>)
  <1>1. \A s \in Slots : Only(Lying(d, g), d.inv[s].serials, <<"inv", s>>)
    <2> SUFFICES ASSUME NEW s \in Slots, NEW x, x = d.inv[s].serials PROVE Only(Lying(d, g), x, <<"inv", s>>)
      OBVIOUS
    <2>1. <<<<"inv", s>>, x>> \in Lying(d, g)
      BY LyingAt
    <2> QED
      BY <2>1 DEF Once, Only
  <1>2. \A s \in EqSlots : Only(Lying(d, g), d.eqp[s].serials, <<"eqp", s>>)
    <2> SUFFICES ASSUME NEW s \in EqSlots, NEW x, x = d.eqp[s].serials PROVE Only(Lying(d, g), x, <<"eqp", s>>)
      OBVIOUS
    <2>1. <<<<"eqp", s>>, x>> \in Lying(d, g)
      BY LyingAt
    <2> QED
      BY <2>1 DEF Once, Only
  <1>3. \A s \in DOMAIN g : Only(Lying(d, g), g[s].serials, <<"ground", s>>)
    <2> SUFFICES ASSUME NEW s \in DOMAIN g, NEW x, x = g[s].serials PROVE Only(Lying(d, g), x, <<"ground", s>>)
      OBVIOUS
    <2>1. <<<<"ground", s>>, x>> \in Lying(d, g)
      BY LyingAt
    <2> QED
      BY <2>1 DEF Once, Only
  <1> QED
    BY <1>1, <1>2, <1>3

\* What a carrier sees in the maps is what lies there.
LEMMA SeesWhatLies ==
  ASSUME Overlap, CarryApart, Carry, MapInv, NEW h \in Handlers, call[h].at \notin Due \cup {"call", "rpc"},
         NEW op \in Carriers, op \in Outer => lock["out"] = Free \/ Active(call[h]),
         op = call[h].op \/ ~Active(call[h]),
         \A g \in Handlers : g # h /\ call[g].at # "idle" => {op, call[g].op} \in Overlapping
  PROVE  /\ inv = db.inv /\ eqp = db.eqp
         /\ \A s \in Slots : Only(Lying(db, ground), inv[s].serials, <<"inv", s>>)
         /\ \A s \in EqSlots : Only(Lying(db, ground), eqp[s].serials, <<"eqp", s>>)
                               /\ <<<<"eqp", s>>, eqp[s].serials>> \in Lying(db, ground)
  <1>1. ASSUME NEW g \in Handlers, g # h
        PROVE  call[g].at \in Waiting
    <2>1. CASE Active(call[h])
      BY <1>1, <2>1, ActiveAlone DEF Carry
    <2>2. CASE ~Active(call[h])
      BY <1>1, <2>2, FreshAlone DEF Carry
    <2> QED
      BY <2>1, <2>2
  <1>2. inv = db.inv /\ eqp = db.eqp
    BY <1>1, Undisturbed
  <1>3. Once(Lying(db, ground))
    BY DEF Carry
  <1>4. \A s \in Slots : Only(Lying(db, ground), inv[s].serials, <<"inv", s>>)
    BY <1>2, <1>3, OnlyHere
  <1>5. \A s \in EqSlots : Only(Lying(db, ground), eqp[s].serials, <<"eqp", s>>)
    BY <1>2, <1>3, OnlyHere
  <1>6. \A s \in EqSlots : <<<<"eqp", s>>, eqp[s].serials>> \in Lying(db, ground)
    BY <1>2, LyingAt
  <1> QED
    BY <1>2, <1>4, <1>5, <1>6

\* A handler that is on its way sees it so.
LEMMA CarrierSees ==
  ASSUME Base, Overlap, CarryApart, Carry, MapInv, NEW h \in Handlers, call[h].at \in Carrying \ {"idle"},
         call[h].at \in Waiting => lock["out"] = Free
  PROVE  /\ \A s \in Slots : Only(Lying(db, ground), inv[s].serials, <<"inv", s>>)
         /\ \A s \in EqSlots : Only(Lying(db, ground), eqp[s].serials, <<"eqp", s>>)
                               /\ <<<<"eqp", s>>, eqp[s].serials>> \in Lying(db, ground)
  <1>1. PICK op : op = call[h].op
    OBVIOUS
  <1>2. /\ op \in Carriers /\ (op \in Outer => lock["out"] = Free \/ Active(call[h]))
        /\ call[h].at \notin Due \cup {"call", "rpc"}
    BY <1>1, CarrierOf
  <1>3. \A g \in Handlers : g # h /\ call[g].at # "idle" => {op, call[g].op} \in Overlapping
    BY <1>1 DEF Overlap
  <1> QED
    BY <1>1, <1>2, <1>3, SeesWhatLies

\* EquipItem has mutexOut, and looks at the two slots.
LEMMA CarryEquipItemRemove ==
  ASSUME Base, Overlap, CarryApart, Carry, MapInv, NEW h \in Handlers, EquipItemRemove(h)
  PROVE  Carry'
  <1>1. PICK c, V : c = call[h] /\ V = Lying(db, ground)
    OBVIOUS
  <1>2. c.at = "equip" /\ UNCHANGED <<db, ground>>
    BY <1>1 DEF EquipItemRemove, master, rest
  <1>3. /\ CallShape(c) /\ Slotted(c, c.at) /\ c.op \in Carriers /\ Tale(c) /\ Place(c) = c.at
        /\ Once(V) /\ Hand(V, c) /\ (c.at \notin Waiting \/ c.op \notin Outer => Active(c))
        /\ c.at \notin Due \cup {"call", "rpc"}
    BY <1>1, <1>2, CarrierOf DEF Carrying, Wearing, Hanging, Looting
  <1>4. lock["out"] = Free /\ lock'["out"] = h
    BY <1>1, BaseOf DEF EquipItemRemove, StateOK
  <1>5. Only(V, inv[c.slot].serials, <<"inv", c.slot>>)
    BY <1>1, <1>2, <1>4, <1>3, CarrierSees DEF Carrying, Wearing, Hanging, Looting, Waiting, Slotted, UnEquipping
  <1>6. CASE eqp[c.to].kind = NoKind
    <2>1. PICK d : d = [Calling(c, RemoveFrom(c.slot), "equip.set") EXCEPT !.item = inv[c.slot]]
      OBVIOUS
    <2>2. Becomes(h, d)
      BY <1>1, <1>2, <1>6, <2>1 DEF EquipItemRemove, Becomes
    <2>3. /\ d.at = "call" /\ d.ret = "equip.set" /\ d.op = c.op /\ d.item = inv[c.slot] /\ d.back = c.back
          /\ d.m.cmd = "RemoveItem" /\ d.m.slot = c.slot
      BY <1>2, <1>3, <1>6, <2>1, Requested DEF CallShape, Calling, Command, NoRequest
    <2>4. Tale(d)
      BY <1>2, <1>3, <1>6, <2>3 DEF Tale, Asks, Place, Busy, Wearing, Hanging, Looting, UnEquipping, Taking
    <2>5. Keeps(V, d)
      BY <1>2, <1>3, <1>5, <1>6, <2>3 DEF Keeps, HasItem, HasMoved, Got, Sending, Place, Busy, Taking, TakingOff, UnEquipping, Hand
    <2> QED
      BY <1>1, <1>2, <1>3, <1>4, <2>2, <2>3, <2>4, <2>5, CarryGoes DEF Waiting
  <1>7. CASE eqp[c.to].kind # NoKind
    <2>1. PICK d : d = [c EXCEPT !.at = "end"]
      OBVIOUS
    <2>2. Becomes(h, d)
      BY <1>1, <1>2, <1>7, <2>1 DEF EquipItemRemove, Becomes
    <2>3. d.at = "end" /\ d.op = c.op
      BY <1>2, <1>3, <1>7, <2>1, Requested DEF CallShape, Calling, Command, NoRequest
    <2>4. Tale(d)
      BY <1>2, <1>3, <1>7, <2>3 DEF Tale, Asks, Place, Busy, Wearing, Hanging, Looting, UnEquipping, Taking
    <2>5. Keeps(V, d)
      BY <1>2, <1>3, <1>7, <2>3 DEF Keeps, HasItem, HasMoved, Got, Sending, Place, Busy, Taking, TakingOff, UnEquipping, Hand
    <2> QED
      BY <1>1, <1>2, <1>3, <1>4, <2>2, <2>3, <2>4, <2>5, CarryGoes DEF Waiting
  <1> QED
    BY <1>6, <1>7

\* UnEquipItem has mutexOut.
LEMMA CarryUnEquipItemLock ==
  ASSUME Base, Overlap, CarryApart, Carry, NEW h \in Handlers, UnEquipItemLock(h)
  PROVE  Carry'
  <1>1. PICK c, V : c = call[h] /\ V = Lying(db, ground)
    OBVIOUS
  <1>2. c.at = "unequip" /\ UNCHANGED <<db, ground>>
    BY <1>1 DEF UnEquipItemLock, master, rest
  <1>3. /\ CallShape(c) /\ Slotted(c, c.at) /\ c.op \in Carriers /\ Tale(c) /\ Place(c) = c.at
        /\ Once(V) /\ Hand(V, c) /\ (c.at \notin Waiting \/ c.op \notin Outer => Active(c))
        /\ c.at \notin Due \cup {"call", "rpc"}
    BY <1>1, <1>2, CarrierOf DEF Carrying, Wearing, Hanging, Looting
  <1>4. lock["out"] = Free /\ lock'["out"] = h
    BY <1>1, BaseOf DEF UnEquipItemLock, StateOK
  <1>5. CASE TRUE
    <2>1. PICK d : d = [c EXCEPT !.at = "unequip.remove"]
      OBVIOUS
    <2>2. Becomes(h, d)
      BY <1>1, <1>2, <1>5, <2>1 DEF UnEquipItemLock, Becomes
    <2>3. d.at = "unequip.remove" /\ d.op = c.op /\ d.item = c.item /\ d.back = c.back
      BY <1>2, <1>3, <1>5, <2>1, Requested DEF CallShape, Calling, Command, NoRequest
    <2>4. Tale(d)
      BY <1>2, <1>3, <1>5, <2>3 DEF Tale, Asks, Place, Busy, Wearing, Hanging, Looting, UnEquipping, Taking
    <2>5. Keeps(V, d)
      BY <1>2, <1>3, <1>5, <2>3 DEF Keeps, HasItem, HasMoved, Got, Sending, Place, Busy, Taking, TakingOff, UnEquipping, Hand
    <2> QED
      BY <1>1, <1>2, <1>3, <1>4, <2>2, <2>3, <2>4, <2>5, CarryGoes DEF Waiting
  <1> QED
    BY <1>5

\* unEquipItem looks at the equipment.
LEMMA CarryUnEquipItemRemove ==
  ASSUME Base, Overlap, CarryApart, Carry, MapInv, NEW h \in Handlers, UnEquipItemRemove(h)
  PROVE  Carry'
  <1>1. PICK c, V : c = call[h] /\ V = Lying(db, ground)
    OBVIOUS
  <1>2. c.at = "unequip.remove" /\ UNCHANGED <<db, ground, lock>>
    BY <1>1 DEF UnEquipItemRemove, master, rest
  <1>3. /\ CallShape(c) /\ Slotted(c, c.at) /\ c.op \in Carriers /\ Tale(c) /\ Place(c) = c.at
        /\ Once(V) /\ Hand(V, c) /\ (c.at \notin Waiting \/ c.op \notin Outer => Active(c))
        /\ c.at \notin Due \cup {"call", "rpc"}
    BY <1>1, <1>2, CarrierOf DEF Carrying, Wearing, Hanging, Looting
  <1>4. Only(V, eqp[c.to].serials, <<"eqp", c.to>>) /\ <<<<"eqp", c.to>>, eqp[c.to].serials>> \in V
    BY <1>1, <1>2, <1>3, CarrierSees DEF Carrying, Wearing, Hanging, Looting, Waiting, Slotted, UnEquipping
  <1>5. CASE eqp[c.to] # NoItem
    <2>1. PICK d : d = [Calling(c, TakeOff(c.to), "unequip.set") EXCEPT !.moved = eqp[c.to]]
      OBVIOUS
    <2>2. Becomes(h, d)
      BY <1>1, <1>2, <1>5, <2>1 DEF UnEquipItemRemove, Becomes
    <2>3. /\ d.at = "call" /\ d.ret = "unequip.set" /\ d.op = c.op /\ d.item = c.item /\ d.back = c.back
          /\ d.moved = eqp[c.to] /\ d.m.cmd = "UnEquipItem" /\ d.m.slot = c.to
      BY <1>2, <1>3, <1>5, <2>1, Requested DEF CallShape, Calling, Command, NoRequest
    <2>4. Tale(d)
      BY <1>2, <1>3, <1>5, <2>3 DEF Tale, Asks, Place, Busy, Wearing, Hanging, Looting, UnEquipping, Taking
    <2>5. Keeps(V, d)
      BY <1>2, <1>3, <1>4, <1>5, <2>3 DEF Keeps, HasItem, HasMoved, Got, Sending, Place, Busy, Taking, TakingOff, UnEquipping, Hand, Gone
    <2> QED
      BY <1>1, <1>2, <1>3, <2>2, <2>3, <2>4, <2>5, CarryOn DEF Waiting
  <1>6. CASE eqp[c.to] = NoItem
    <2>1. PICK d : d = [c EXCEPT !.at = "unequip.done", !.ok = FALSE]
      OBVIOUS
    <2>2. Becomes(h, d)
      BY <1>1, <1>2, <1>6, <2>1 DEF UnEquipItemRemove, Becomes
    <2>3. d.at = "unequip.done" /\ d.op = c.op /\ d.item = c.item /\ d.back = c.back
      BY <1>2, <1>3, <1>6, <2>1, Requested DEF CallShape, Calling, Command, NoRequest
    <2>4. Tale(d)
      BY <1>2, <1>3, <1>6, <2>3 DEF Tale, Asks, Place, Busy, Wearing, Hanging, Looting, UnEquipping, Taking
    <2>5. Keeps(V, d)
      BY <1>2, <1>3, <1>6, <2>3 DEF Keeps, HasItem, HasMoved, Got, Sending, Place, Busy, Taking, TakingOff, UnEquipping, Hand
    <2> QED
      BY <1>1, <1>2, <1>3, <2>2, <2>3, <2>4, <2>5, CarryOn DEF Waiting
  <1> QED
    BY <1>5, <1>6

\* UnEquipItem, or unEquipItem, returns.
LEMMA CarryUnEquipItemReturn ==
  ASSUME Base, Overlap, CarryApart, Carry, NEW h \in Handlers, UnEquipItemReturn(h)
  PROVE  Carry'
  <1>1. PICK c, V : c = call[h] /\ V = Lying(db, ground)
    OBVIOUS
  <1>2. c.at \in {"unequip.done", "unequip.failed"} /\ UNCHANGED <<db, ground>>
    BY <1>1 DEF UnEquipItemReturn, master, rest
  <1>3. /\ CallShape(c) /\ Slotted(c, c.at) /\ c.op \in Carriers /\ Tale(c) /\ Place(c) = c.at
        /\ Once(V) /\ Hand(V, c) /\ (c.at \notin Waiting \/ c.op \notin Outer => Active(c))
        /\ c.at \notin Due \cup {"call", "rpc"}
    BY <1>1, <1>2, CarrierOf DEF Carrying, Wearing, Hanging, Looting
  <1>4. lock'["out"] = lock["out"] \/ (lock'["out"] = Free /\ c.back # "swap.set")
    BY <1>1, BaseOf DEF UnEquipItemReturn, StateOK
  <1>5. CASE c.back = "idle"
    <2>1. Becomes(h, Idle)
      BY <1>1, <1>2, <1>5 DEF UnEquipItemReturn
    <2> QED
      BY <1>1, <1>2, <1>3, <1>4, <2>1, IdleKeeps, GoodIdle, CarryGoes DEF Waiting
  <1>6. CASE c.back # "idle"
    <2>1. PICK d : d = [c EXCEPT !.at = c.back, !.ok = c.ok /\ c.at = "unequip.done"]
      OBVIOUS
    <2>2. Becomes(h, d)
      BY <1>1, <1>2, <1>6, <2>1 DEF UnEquipItemReturn, Becomes
    <2>3. d.at \in {"swap.set", "acc.taken"} /\ d.at = c.back /\ d.op = c.op /\ d.item = c.item
      BY <1>2, <1>3, <1>6, <2>1 DEF CallShape, Slotted, UnEquipping
    <2>4. Tale(d)
      BY <1>2, <1>3, <1>6, <2>3 DEF Tale, Asks, Place, Busy, Wearing, Hanging, Looting, UnEquipping, Taking
    <2>5. Keeps(V, d)
      BY <1>2, <1>3, <1>6, <2>3 DEF Keeps, HasItem, HasMoved, Got, Sending, Place, Busy, Taking, TakingOff, UnEquipping, Hand
    <2>6. d.at = "acc.taken" => d.op \notin Outer
      BY <2>3, <2>4 DEF Tale, Place, Busy, Hanging, Outer
    <2>7. d.op \in Outer => lock'["out"] = h
      BY <1>1, <1>2, <1>3, <1>4, <2>3, <2>6 DEF Carry, OutHeld, Waiting
    <2>8. lock'["out"] = lock["out"] \/ Active(call[h])
      BY <1>1, <1>2, <1>3 DEF Waiting
    <2> QED
      BY <1>1, <1>2, <2>2, <2>4, <2>5, <2>7, <2>8, CarryGoes
  <1> QED
    BY <1>5, <1>6

\* EquipAccessory looks at the first slot.
LEMMA CarryEquipAccessory ==
  ASSUME Base, Overlap, CarryApart, Carry, MapInv, NEW h \in Handlers, EquipAccessory(h)
  PROVE  Carry'
  <1>1. PICK c, V : c = call[h] /\ V = Lying(db, ground)
    OBVIOUS
  <1>2. c.at = "acc.first" /\ UNCHANGED <<db, ground, lock>>
    BY <1>1 DEF EquipAccessory, master, rest
  <1>3. /\ CallShape(c) /\ Slotted(c, c.at) /\ c.op \in Carriers /\ Tale(c) /\ Place(c) = c.at
        /\ Once(V) /\ Hand(V, c) /\ (c.at \notin Waiting \/ c.op \notin Outer => Active(c))
        /\ c.at \notin Due \cup {"call", "rpc"}
    BY <1>1, <1>2, CarrierOf DEF Carrying, Wearing, Hanging, Looting
  <1>4. Only(V, inv[c.slot].serials, <<"inv", c.slot>>)
    BY <1>1, <1>2, <1>3, CarrierSees DEF Carrying, Wearing, Hanging, Looting, Waiting, Slotted, UnEquipping
  <1>5. CASE eqp[FirstAccessory].kind = NoKind
    <2>1. PICK d : d = [c EXCEPT !.at = "equip", !.to = FirstAccessory]
      OBVIOUS
    <2>2. Becomes(h, d)
      BY <1>1, <1>2, <1>5, <2>1 DEF EquipAccessory, Becomes
    <2>3. d.at = "equip" /\ d.op = c.op
      BY <1>2, <1>3, <1>5, <2>1, Requested DEF CallShape, Calling, Command, NoRequest
    <2>4. Tale(d)
      BY <1>2, <1>3, <1>5, <2>3 DEF Tale, Asks, Place, Busy, Wearing, Hanging, Looting, UnEquipping, Taking
    <2>5. Keeps(V, d)
      BY <1>2, <1>3, <1>5, <2>3 DEF Keeps, HasItem, HasMoved, Got, Sending, Place, Busy, Taking, TakingOff, UnEquipping, Hand
    <2> QED
      BY <1>1, <1>2, <1>3, <2>2, <2>3, <2>4, <2>5, CarryOn DEF Waiting
  <1>6. CASE eqp[FirstAccessory].kind # NoKind
    <2>1. PICK d : d = [Calling(c, RemoveFrom(c.slot), "acc.last") EXCEPT !.item = inv[c.slot]]
      OBVIOUS
    <2>2. Becomes(h, d)
      BY <1>1, <1>2, <1>6, <2>1 DEF EquipAccessory, Becomes
    <2>3. /\ d.at = "call" /\ d.ret = "acc.last" /\ d.op = c.op /\ d.item = inv[c.slot]
          /\ d.m.cmd = "RemoveItem" /\ d.m.slot = c.slot
      BY <1>2, <1>3, <1>6, <2>1, Requested DEF CallShape, Calling, Command, NoRequest
    <2>4. Tale(d)
      BY <1>2, <1>3, <1>6, <2>3 DEF Tale, Asks, Place, Busy, Wearing, Hanging, Looting, UnEquipping, Taking
    <2>5. Keeps(V, d)
      BY <1>2, <1>3, <1>4, <1>6, <2>3 DEF Keeps, HasItem, HasMoved, Got, Sending, Place, Busy, Taking, TakingOff, UnEquipping, Hand
    <2> QED
      BY <1>1, <1>2, <1>3, <2>2, <2>3, <2>4, <2>5, CarryOn DEF Waiting
  <1> QED
    BY <1>5, <1>6

\* The accessory is taken out of the inventory.
LEMMA CarryEquipAccessoryLast ==
  ASSUME Base, Overlap, CarryApart, Carry, NEW h \in Handlers, EquipAccessoryLast(h)
  PROVE  Carry'
  <1>1. PICK c, V : c = call[h] /\ V = Lying(db, ground)
    OBVIOUS
  <1>2. c.at = "acc.last" /\ UNCHANGED <<db, ground, lock>>
    BY <1>1 DEF EquipAccessoryLast, master, rest
  <1>3. /\ CallShape(c) /\ Slotted(c, c.at) /\ c.op \in Carriers /\ Tale(c) /\ Place(c) = c.at
        /\ Once(V) /\ Hand(V, c) /\ (c.at \notin Waiting \/ c.op \notin Outer => Active(c))
        /\ c.at \notin Due \cup {"call", "rpc"}
    BY <1>1, <1>2, CarrierOf DEF Carrying, Wearing, Hanging, Looting
  <1>4. CASE ~c.ok
    <2>1. PICK d : d = [c EXCEPT !.at = "end"]
      OBVIOUS
    <2>2. Becomes(h, d)
      BY <1>1, <1>2, <1>4, <2>1 DEF EquipAccessoryLast, Becomes
    <2>3. d.at = "end" /\ d.op = c.op
      BY <1>2, <1>3, <1>4, <2>1, Requested DEF CallShape, Calling, Command, NoRequest
    <2>4. Tale(d)
      BY <1>2, <1>3, <1>4, <2>3 DEF Tale, Asks, Place, Busy, Wearing, Hanging, Looting, UnEquipping, Taking
    <2>5. Keeps(V, d)
      BY <1>2, <1>3, <1>4, <2>3 DEF Keeps, HasItem, HasMoved, Got, Sending, Place, Busy, Taking, TakingOff, UnEquipping, Hand
    <2> QED
      BY <1>1, <1>2, <1>3, <2>2, <2>3, <2>4, <2>5, CarryOn DEF Waiting
  <1>5. CASE c.ok /\ eqp[LastAccessory].kind # NoKind
    <2>1. PICK d : d = [c EXCEPT !.at = "unequip", !.to = LastAccessory, !.back = "acc.taken"]
      OBVIOUS
    <2>2. Becomes(h, d)
      BY <1>1, <1>2, <1>5, <2>1 DEF EquipAccessoryLast, Becomes
    <2>3. d.at = "unequip" /\ d.op = c.op /\ d.item = c.item
      BY <1>2, <1>3, <1>5, <2>1, Requested DEF CallShape, Calling, Command, NoRequest
    <2>4. Tale(d)
      BY <1>2, <1>3, <1>5, <2>3 DEF Tale, Asks, Place, Busy, Wearing, Hanging, Looting, UnEquipping, Taking
    <2>5. Keeps(V, d)
      BY <1>2, <1>3, <1>5, <2>3 DEF Keeps, HasItem, HasMoved, Got, Sending, Place, Busy, Taking, TakingOff, UnEquipping, Hand
    <2> QED
      BY <1>1, <1>2, <1>3, <2>2, <2>3, <2>4, <2>5, CarryOn DEF Waiting
  <1>6. CASE c.ok /\ eqp[LastAccessory].kind = NoKind
    <2>1. PICK d : d = [c EXCEPT !.at = "acc.shift", !.n = Len(Accessories) - 1]
      OBVIOUS
    <2>2. Becomes(h, d)
      BY <1>1, <1>2, <1>6, <2>1 DEF EquipAccessoryLast, Becomes
    <2>3. d.at = "acc.shift" /\ d.op = c.op /\ d.item = c.item
      BY <1>2, <1>3, <1>6, <2>1, Requested DEF CallShape, Calling, Command, NoRequest
    <2>4. Tale(d)
      BY <1>2, <1>3, <1>6, <2>3 DEF Tale, Asks, Place, Busy, Wearing, Hanging, Looting, UnEquipping, Taking
    <2>5. Keeps(V, d)
      BY <1>2, <1>3, <1>6, <2>3 DEF Keeps, HasItem, HasMoved, Got, Sending, Place, Busy, Taking, TakingOff, UnEquipping, Hand
    <2> QED
      BY <1>1, <1>2, <1>3, <2>2, <2>3, <2>4, <2>5, CarryOn DEF Waiting
  <1> QED
    BY <1>4, <1>5, <1>6

\* The accessories move up.
LEMMA CarryEquipAccessoryShift ==
  ASSUME Base, Overlap, CarryApart, Carry, NEW h \in Handlers, EquipAccessoryShift(h)
  PROVE  Carry'
  <1>1. PICK c, V : c = call[h] /\ V = Lying(db, ground)
    OBVIOUS
  <1>2. c.at = "acc.shift" /\ UNCHANGED <<db, ground, lock>>
    BY <1>1 DEF EquipAccessoryShift, master, rest
  <1>3. /\ CallShape(c) /\ Slotted(c, c.at) /\ c.op \in Carriers /\ Tale(c) /\ Place(c) = c.at
        /\ Once(V) /\ Hand(V, c) /\ (c.at \notin Waiting \/ c.op \notin Outer => Active(c))
        /\ c.at \notin Due \cup {"call", "rpc"}
    BY <1>1, <1>2, CarrierOf DEF Carrying, Wearing, Hanging, Looting
  <1>4. CASE c.n > 0
    <2>1. PICK d : d = [Calling(c, [Command("MoveEquipmentItem", Accessories[c.n]) EXCEPT !.to = Accessories[c.n + 1]], "acc.shift") EXCEPT !.n = @ - 1]
      OBVIOUS
    <2>2. Becomes(h, d)
      BY <1>1, <1>2, <1>4, <2>1 DEF EquipAccessoryShift, Becomes
    <2>3. /\ d.at = "call" /\ d.ret = "acc.shift" /\ d.op = c.op /\ d.item = c.item
          /\ d.m.cmd = "MoveEquipmentItem"
      BY <1>2, <1>3, <1>4, <2>1, Requested DEF CallShape, Calling, Command, NoRequest
    <2>4. Tale(d)
      BY <1>2, <1>3, <1>4, <2>3 DEF Tale, Asks, Place, Busy, Wearing, Hanging, Looting, UnEquipping, Taking
    <2>5. Keeps(V, d)
      BY <1>2, <1>3, <1>4, <2>3 DEF Keeps, HasItem, HasMoved, Got, Sending, Place, Busy, Taking, TakingOff, UnEquipping, Hand
    <2> QED
      BY <1>1, <1>2, <1>3, <2>2, <2>3, <2>4, <2>5, CarryOn DEF Waiting
  <1>5. CASE ~(c.n > 0)
    <2>1. PICK d : d = Calling(c, EquipTo(FirstAccessory, c.item), "end")
      OBVIOUS
    <2>2. Becomes(h, d)
      BY <1>1, <1>2, <1>5, <2>1 DEF EquipAccessoryShift, Becomes
    <2>3. /\ d.at = "call" /\ d.ret = "end" /\ d.op = c.op /\ d.item = c.item
          /\ d.m.cmd = "EquipItem" /\ d.m.item = c.item
      BY <1>2, <1>3, <1>5, <2>1, Requested DEF CallShape, Calling, Command, NoRequest
    <2>4. Tale(d)
      BY <1>2, <1>3, <1>5, <2>3 DEF Tale, Asks, Place, Busy, Wearing, Hanging, Looting, UnEquipping, Taking
    <2>5. Keeps(V, d)
      BY <1>2, <1>3, <1>5, <2>3 DEF Keeps, HasItem, HasMoved, Got, Sending, Place, Busy, Taking, TakingOff, UnEquipping, Hand
    <2> QED
      BY <1>1, <1>2, <1>3, <2>2, <2>3, <2>4, <2>5, CarryOn DEF Waiting
  <1> QED
    BY <1>4, <1>5

\* What was dropped is taken out of the inventory.
LEMMA CarryDropItemCount ==
  ASSUME Base, Overlap, CarryApart, Carry, NEW h \in Handlers, DropItemCount(h)
  PROVE  Carry'
  <1>1. PICK c, V : c = call[h] /\ V = Lying(db, ground)
    OBVIOUS
  <1>2. c.at = "drop.count" /\ UNCHANGED <<db, ground, lock>>
    BY <1>1 DEF DropItemCount, master, rest
  <1>3. /\ CallShape(c) /\ Slotted(c, c.at) /\ c.op \in Carriers /\ Tale(c) /\ Place(c) = c.at
        /\ Once(V) /\ Hand(V, c) /\ (c.at \notin Waiting \/ c.op \notin Outer => Active(c))
        /\ c.at \notin Due \cup {"call", "rpc"}
    BY <1>1, <1>2, CarrierOf DEF Carrying, Wearing, Hanging, Looting
  <1>4. CASE c.ok
    <2>1. PICK d : d = [c EXCEPT !.at = "drop.add", !.n = Cardinality(DOMAIN ground) + 1]
      OBVIOUS
    <2>2. Becomes(h, d)
      BY <1>1, <1>2, <1>4, <2>1 DEF DropItemCount, Becomes
    <2>3. d.at = "drop.add" /\ d.op = c.op /\ d.item = c.item
      BY <1>2, <1>3, <1>4, <2>1, Requested DEF CallShape, Calling, Command, NoRequest
    <2>4. Tale(d)
      BY <1>2, <1>3, <1>4, <2>3 DEF Tale, Asks, Place, Busy, Wearing, Hanging, Looting, UnEquipping, Taking
    <2>5. Keeps(V, d)
      BY <1>2, <1>3, <1>4, <2>3 DEF Keeps, HasItem, HasMoved, Got, Sending, Place, Busy, Taking, TakingOff, UnEquipping, Hand
    <2> QED
      BY <1>1, <1>2, <1>3, <2>2, <2>3, <2>4, <2>5, CarryOn DEF Waiting
  <1>5. CASE ~c.ok
    <2>1. Becomes(h, Idle)
      BY <1>1, <1>2, <1>5 DEF DropItemCount
    <2> QED
      BY <1>1, <1>2, <2>1, CarryIdle
  <1> QED
    BY <1>4, <1>5

\* PickItem finds the item.
LEMMA CarryPickItemFind ==
  ASSUME Base, Overlap, CarryApart, Carry, NEW h \in Handlers, PickItemFind(h)
  PROVE  Carry'
  <1>1. PICK c, V : c = call[h] /\ V = Lying(db, ground)
    OBVIOUS
  <1>2. c.at = "loot.find" /\ UNCHANGED <<db, ground, lock>>
    BY <1>1 DEF PickItemFind, master, rest
  <1>3. /\ CallShape(c) /\ Slotted(c, c.at) /\ c.op \in Carriers /\ Tale(c) /\ Place(c) = c.at
        /\ Once(V) /\ Hand(V, c) /\ (c.at \notin Waiting \/ c.op \notin Outer => Active(c))
        /\ c.at \notin Due \cup {"call", "rpc"}
    BY <1>1, <1>2, CarrierOf DEF Carrying, Wearing, Hanging, Looting
  <1>4. CASE c.to \in DOMAIN ground
    <2>1. PICK d : d = [c EXCEPT !.at = "loot.take", !.item = ground[c.to]]
      OBVIOUS
    <2>2. Becomes(h, d)
      BY <1>1, <1>2, <1>4, <2>1 DEF PickItemFind, Becomes
    <2>3. d.at = "loot.take" /\ d.op = c.op /\ d.to = c.to /\ d.item = ground[c.to]
      BY <1>2, <1>3, <1>4, <2>1, Requested DEF CallShape, Calling, Command, NoRequest
    <2>4. Tale(d)
      BY <1>2, <1>3, <1>4, <2>3 DEF Tale, Asks, Place, Busy, Wearing, Hanging, Looting, UnEquipping, Taking
    <2>5. Only(V, ground[c.to].serials, <<"ground", c.to>>)
      BY <1>1, <1>3, <1>4, OnlyHere
    <2>6. Keeps(V, d)
      BY <1>2, <1>3, <1>4, <2>3, <2>5 DEF Keeps, HasItem, HasMoved, Got, Sending, Place, Busy, Taking, TakingOff, UnEquipping, Hand
    <2> QED
      BY <1>1, <1>2, <1>3, <2>2, <2>3, <2>4, <2>6, CarryOn DEF Waiting
  <1>5. CASE c.to \notin DOMAIN ground
    <2>1. Becomes(h, Idle)
      BY <1>1, <1>2, <1>5 DEF PickItemFind
    <2> QED
      BY <1>1, <1>2, <2>1, CarryIdle
  <1> QED
    BY <1>4, <1>5

\* Inventory.Stack is called.
LEMMA CarryLootStack ==
  ASSUME Base, Overlap, CarryApart, Carry, NEW h \in Handlers, LootStack(h)
  PROVE  Carry'
  <1>1. PICK c, V : c = call[h] /\ V = Lying(db, ground)
    OBVIOUS
  <1>2. c.at = "loot.stack" /\ UNCHANGED <<db, ground, lock>>
    BY <1>1 DEF LootStack, master, rest
  <1>3. /\ CallShape(c) /\ Slotted(c, c.at) /\ c.op \in Carriers /\ Tale(c) /\ Place(c) = c.at
        /\ Once(V) /\ Hand(V, c) /\ (c.at \notin Waiting \/ c.op \notin Outer => Active(c))
        /\ c.at \notin Due \cup {"call", "rpc"}
    BY <1>1, <1>2, CarrierOf DEF Carrying, Wearing, Hanging, Looting
  <1>4. CASE TRUE
    <2>1. PICK d : d = Calling(c, [Command("StackItem", c.slot) EXCEPT !.item = [inv[c.slot] EXCEPT !.opt = c.n]], "idle")
      OBVIOUS
    <2>2. Becomes(h, d)
      BY <1>1, <1>2, <1>4, <2>1 DEF LootStack, Becomes
    <2>3. d.at = "call" /\ d.ret = "idle" /\ d.op = c.op /\ d.m.cmd = "StackItem"
      BY <1>2, <1>3, <1>4, <2>1, Requested DEF CallShape, Calling, Command, NoRequest
    <2>4. Tale(d)
      BY <1>2, <1>3, <1>4, <2>3 DEF Tale, Asks, Place, Busy, Wearing, Hanging, Looting, UnEquipping, Taking
    <2>5. Keeps(V, d)
      BY <1>2, <1>3, <1>4, <2>3 DEF Keeps, HasItem, HasMoved, Got, Sending, Place, Busy, Taking, TakingOff, UnEquipping, Hand
    <2> QED
      BY <1>1, <1>2, <1>3, <2>2, <2>3, <2>4, <2>5, CarryOn DEF Waiting
  <1> QED
    BY <1>4

\* The mutex is given back.
LEMMA CarryFinish ==
  ASSUME Base, Overlap, CarryApart, Carry, NEW h \in Handlers, Finish(h)
  PROVE  Carry'
  <1>1. PICK c, V : c = call[h] /\ V = Lying(db, ground)
    OBVIOUS
  <1>2. c.at = "end" /\ UNCHANGED <<db, ground>>
    BY <1>1 DEF Finish, master, rest
  <1>3. /\ CallShape(c) /\ Slotted(c, c.at) /\ c.op \in Carriers /\ Tale(c) /\ Place(c) = c.at
        /\ Once(V) /\ Hand(V, c) /\ (c.at \notin Waiting \/ c.op \notin Outer => Active(c))
        /\ c.at \notin Due \cup {"call", "rpc"}
    BY <1>1, <1>2, CarrierOf DEF Carrying, Wearing, Hanging, Looting
  <1>4. lock'["out"] = lock["out"] \/ lock["out"] = h
    BY <1>1, BaseOf DEF Finish, StateOK
  <1>5. CASE TRUE
    <2>1. Becomes(h, Idle)
      BY <1>1, <1>2, <1>5 DEF Finish
    <2> QED
      BY <1>1, <1>2, <1>3, <1>4, <2>1, IdleKeeps, GoodIdle, CarryGoes DEF Waiting
  <1> QED
    BY <1>5

----------------------------------------------------------------------------
(* The ground. *)

\* An item is put on the ground, and one that has its id is lost.
LEMMA CarryDropItemAdd ==
  ASSUME Base, Overlap, CarryApart, Carry, NEW h \in Handlers, DropItemAdd(h)
  PROVE  Carry'
  <1>1. PICK c, V : c = call[h] /\ V = Lying(db, ground)
    OBVIOUS
  <1>2. /\ c.at = "drop.add" /\ UNCHANGED <<db, lock>> /\ ground' = With(ground, c.n, c.item)
        /\ Becomes(h, Idle)
    BY <1>1 DEF DropItemAdd, master
  <1>3. Once(V) /\ Hand(V, c) /\ c.at \notin Waiting
    BY <1>1, <1>2, CarrierOf DEF Carrying, Waiting
  <1>4. PICK k, W : k = With(ground, c.n, c.item) /\ W = Lying(db, k)
    OBVIOUS
  <1>5. W = Lying(db, ground)'
    BY <1>2, <1>4
  <1>6. Puts(V, W, c.item.serials, <<"ground", c.n>>)
    BY <1>1, <1>4, GroundPuts
  <1>7. Gone(V, c.item.serials)
    BY <1>2, <1>3 DEF Hand
  <1>8. Once(W)
    BY <1>3, <1>6, <1>7, OncePuts
  <1>9. call'[h] = Idle /\ \A g \in Handlers : g # h => call'[g] = call[g]
    BY <1>2, BecomesEffect DEF Base
  <1>10. OutStep(h)
    BY <1>2, <1>9, GoodIdle DEF OutStep, Outer
  <1>11. Tale(call'[h]) /\ Keeps(W, call'[h]) /\ \A id \in CashIds : db'.cash[id].serials = 0
    BY <1>2, <1>9, IdleKeeps DEF Carry
  <1> QED
    BY <1>1, <1>3, <1>5, <1>8, <1>9, <1>10, <1>11, CarryStep

\* What has the id of the item is taken off the ground.
LEMMA CarryPickItemTake ==
  ASSUME Base, Overlap, CarryApart, Carry, NEW h \in Handlers, PickItemTake(h)
  PROVE  Carry'
  <1>1. PICK c, V : c = call[h] /\ V = Lying(db, ground)
    OBVIOUS
  <1>2. c.at = "loot.take" /\ UNCHANGED <<db, lock>> /\ ground' = Without(ground, c.to)
    BY <1>1 DEF PickItemTake, master
  <1>3. /\ CallShape(c) /\ c.op \in Carriers /\ Once(V) /\ c.at \notin Waiting
        /\ Only(V, c.item.serials, <<"ground", c.to>>)
    <2>1. Keeps(V, c)
      BY <1>1 DEF Carry
    <2> QED
      BY <1>1, <1>2, <2>1, CarrierOf DEF Carrying, Looting, Waiting, Keeps
  <1>4. c.op = "Loot"
    BY <1>1, <1>2, BaseOf DEF Good, PlaceOK, Place, Busy, Looting
  <1>5. PICK k, W : k = Without(ground, c.to) /\ W = Lying(db, k)
    OBVIOUS
  <1>6. W = Lying(db, ground)'
    BY <1>2, <1>5
  <1>7. c.to \notin DOMAIN k /\ DOMAIN k \subseteq DOMAIN ground /\ \A s \in DOMAIN k : k[s] = ground[s]
    BY <1>5 DEF Without
  <1>8. Less(V, W)
    BY <1>1, <1>5, <1>7, GroundLess
  <1>9. \A y : <<<<"ground", c.to>>, y>> \in W => y = 0
    <2> SUFFICES ASSUME NEW y, <<<<"ground", c.to>>, y>> \in W PROVE FALSE
      OBVIOUS
    <2> QED
      BY <1>5, <1>7, LyingAt
  <1>10. Once(W) /\ Gone(W, c.item.serials)
    BY <1>3, <1>8, <1>9, OnceLess
  <1>11. PICK d : d = IF c.ok THEN [c EXCEPT !.at = "loot.stack"] ELSE Calling(c, SetTo(c.slot, c.item), "idle")
    OBVIOUS
  <1>12. Becomes(h, d)
    BY <1>1, <1>11 DEF PickItemTake
  <1>13. /\ d.op = "Loot" /\ d.item = c.item
         /\ \/ d.at = "loot.stack"
            \/ d.at = "call" /\ d.ret = "idle" /\ d.m.cmd = "AddItem" /\ d.m.item = c.item
    BY <1>3, <1>4, <1>11, Requested DEF CallShape, Calling
  <1>14. call'[h] = d /\ \A g \in Handlers : g # h => call'[g] = call[g]
    BY <1>12, BecomesEffect DEF Base
  <1>15. Tale(d)
    BY <1>3, <1>4, <1>13 DEF Tale, Asks, Place, Busy, Wearing, Hanging, Looting, UnEquipping, Taking
  <1>16. Keeps(W, d)
    BY <1>10, <1>13 DEF Keeps, HasItem, HasMoved, Got, Sending, Place, Busy, Taking, TakingOff, UnEquipping
  <1>17. OutStep(h)
    BY <1>2, <1>13, <1>14 DEF OutStep, Outer
  <1>18. \A id \in CashIds : db'.cash[id].serials = 0
    BY <1>2 DEF Carry
  <1> QED
    BY <1>1, <1>3, <1>6, <1>10, <1>14, <1>15, <1>16, <1>17, <1>18, CarryStep

\* Items vanish from the ground.
LEMMA CarryItemExpires ==
  ASSUME Base, Carry, NEW id \in DOMAIN ground, ItemExpires(id)
  PROVE  Carry'
  <1>1. PICK V, k, W : V = Lying(db, ground) /\ k = Without(ground, id) /\ W = Lying(db, k)
    OBVIOUS
  <1>2. UNCHANGED <<db, lock, call>> /\ W = Lying(db, ground)'
    BY <1>1 DEF ItemExpires, master
  <1>3. Less(V, W)
    <2>1. DOMAIN k \subseteq DOMAIN ground /\ \A s \in DOMAIN k : k[s] = ground[s]
      BY <1>1 DEF Without
    <2> QED
      BY <1>1, <2>1, GroundLess
  <1>4. Once(V) /\ \A h \in Handlers : Tale(call[h]) /\ Keeps(V, call[h])
    BY <1>1 DEF Carry
  <1>5. Once(W) /\ \A h \in Handlers : Keeps(W, call[h])
    BY <1>3, <1>4, OnceLess, KeepsLess
  <1>6. OutHeld' /\ \A i \in CashIds : db'.cash[i].serials = 0
    BY <1>2 DEF Carry, OutHeld
  <1> QED
    BY <1>2, <1>4, <1>5, <1>6 DEF Carry

\* The steps of the handlers.
LEMMA StepCarry ==
  ASSUME Base, Overlap, CarryApart, Carry, MapInv, NEW h \in Handlers, Step(h)
  PROVE  Carry'
  <1>1. CASE \/ EquipItemRemove(h) \/ EquipItemSet(h) \/ EquipItemRollback(h)
             \/ UnEquipItemLock(h) \/ UnEquipItemRemove(h) \/ UnEquipItemSet(h)
             \/ UnEquipItemRollback(h) \/ UnEquipItemReturn(h)
             \/ SwapEquipItemUnEquip(h) \/ SwapEquipItemSet(h)
    BY <1>1, CarryEquipItemRemove, CarryEquipItemSet, CarryEquipItemRollback, CarryUnEquipItemLock,
       CarryUnEquipItemRemove, CarryUnEquipItemSet, CarryUnEquipItemRollback, CarryUnEquipItemReturn,
       CarrySwapEquipItemUnEquip, CarrySwapEquipItemSet
  <1>2. CASE \/ EquipAccessory(h) \/ EquipAccessoryLast(h) \/ EquipAccessoryTaken(h) \/ EquipAccessoryShift(h)
             \/ DropItemCount(h) \/ DropItemAdd(h) \/ PickItemFind(h) \/ PickItemTake(h) \/ LootStack(h)
             \/ Finish(h)
    BY <1>2, CarryEquipAccessory, CarryEquipAccessoryLast, CarryEquipAccessoryTaken, CarryEquipAccessoryShift,
       CarryDropItemCount, CarryDropItemAdd, CarryPickItemFind, CarryPickItemTake, CarryLootStack, CarryFinish
  <1>3. CASE Locally(h)
    BY <1>3, CarryLocally
  <1> QED
    BY <1>1, <1>2, <1>3 DEF Step, Locally

----------------------------------------------------------------------------
(* The packets. *)

\* A packet whose handler calls a method, or the master, and carries nothing.
LEMMA CarryCalls ==
  ASSUME Base, Overlap, CarryApart, Carry, NEW h \in Handlers, UNCHANGED <<db, ground, lock>>,
         NEW op, op \notin Carriers, NEW m, m.cmd \notin {"AddItem", "EquipItem"},
         NEW ret \in {"idle", "shop", "learn"}, NEW x, NEW d,
         \/ d = Calling(Started(op), m, ret)
         \/ d = [Calling(Started(op), m, ret) EXCEPT !.seen = x]
         \/ d = Posting(Started(op), m)
         \/ d = [Posting(Started(op), m) EXCEPT !.moved = x],
         Becomes(h, d)
  PROVE  Carry'
  <1>1. PICK c : c = Started(op)
    OBVIOUS
  <1>2. CallShape(c) /\ c.op = op /\ c.ret = "idle"
    BY <1>1, StartedIs DEF Values
  <1>3. d.op = op /\ d.m = m /\ d.at \in {"call", "rpc"} /\ d.ret \in {"idle", "shop", "learn"}
    BY <1>1, <1>2 DEF CallShape, Calling, Posting
  <1>4. Tale(d)
    BY <1>3 DEF Tale, Asks, Place, Busy, Wearing, Hanging, Looting, UnEquipping, Taking
  <1>5. Keeps(Lying(db, ground), d)
    BY <1>3, <1>4, KeepsVacuous DEF Active
  <1>6. d.op \notin Outer
    BY <1>3 DEF Carriers
  <1> QED
    BY <1>4, <1>5, <1>6, CarryOn

\* The packet of ExchangeMoveInInventory.
LEMMA CarryExchangeMoveInInventory ==
  ASSUME Base, Overlap, CarryApart, Carry, NEW h \in Handlers, NEW old, NEW new, ExchangeMoveInInventory(h, old, new)
  PROVE  Carry'
  <1>1. PICK x, m, d : /\ x = 0
                       /\ m = [Command("MoveItem", old) EXCEPT !.to = new]
                       /\ d = Calling(Started("Move"), m, "idle")
    OBVIOUS
  <1>2. Becomes(h, d) /\ UNCHANGED <<db, ground, lock>>
    BY <1>1 DEF ExchangeMoveInInventory, OneCall, master, rest
  <1>3. m.cmd = "MoveItem" /\ "Move" \notin Carriers
    BY <1>1 DEF Command, NoRequest, Carriers, Outer
  <1> QED
    BY <1>1, <1>2, <1>3, CarryCalls

\* The packet of ExchangeMoveInEquipment.
LEMMA CarryExchangeMoveInEquipment ==
  ASSUME Base, Overlap, CarryApart, Carry, NEW h \in Handlers, NEW old, NEW new, ExchangeMoveInEquipment(h, old, new)
  PROVE  Carry'
  <1>1. PICK x, m, d : /\ x = 0
                       /\ m = [Command("MoveEquipmentItem", old) EXCEPT !.to = new]
                       /\ d = Calling(Started("EqMove"), m, "idle")
    OBVIOUS
  <1>2. Becomes(h, d) /\ UNCHANGED <<db, ground, lock>>
    BY <1>1 DEF ExchangeMoveInEquipment, OneCall, master, rest
  <1>3. m.cmd = "MoveEquipmentItem" /\ "EqMove" \notin Carriers
    BY <1>1 DEF Command, NoRequest, Carriers, Outer
  <1> QED
    BY <1>1, <1>2, <1>3, CarryCalls

\* The packet of ItemSwapInInventory.
LEMMA CarryItemSwapInInventory ==
  ASSUME Base, Overlap, CarryApart, Carry, NEW h \in Handlers, NEW old, NEW new, ItemSwapInInventory(h, old, new)
  PROVE  Carry'
  <1>1. PICK x, m, d : /\ x = 0
                       /\ m = [Command("SwapItem", old) EXCEPT !.to = new]
                       /\ d = Calling(Started("Swap"), m, "idle")
    OBVIOUS
  <1>2. Becomes(h, d) /\ UNCHANGED <<db, ground, lock>>
    BY <1>1 DEF ItemSwapInInventory, OneCall, master, rest
  <1>3. m.cmd = "SwapItem" /\ "Swap" \notin Carriers
    BY <1>1 DEF Command, NoRequest, Carriers, Outer
  <1> QED
    BY <1>1, <1>2, <1>3, CarryCalls

\* The packet of ItemSwapInEquipment.
LEMMA CarryItemSwapInEquipment ==
  ASSUME Base, Overlap, CarryApart, Carry, NEW h \in Handlers, NEW old, NEW new, ItemSwapInEquipment(h, old, new)
  PROVE  Carry'
  <1>1. PICK x, m, d : /\ x = 0
                       /\ m = [Command("SwapEquipmentItem", old) EXCEPT !.to = new]
                       /\ d = Calling(Started("EqSwap"), m, "idle")
    OBVIOUS
  <1>2. Becomes(h, d) /\ UNCHANGED <<db, ground, lock>>
    BY <1>1 DEF ItemSwapInEquipment, OneCall, master, rest
  <1>3. m.cmd = "SwapEquipmentItem" /\ "EqSwap" \notin Carriers
    BY <1>1 DEF Command, NoRequest, Carriers, Outer
  <1> QED
    BY <1>1, <1>2, <1>3, CarryCalls

\* The packet of moveStorageItem.
LEMMA CarryExchangeMoveStorage ==
  ASSUME Base, Overlap, CarryApart, Carry, NEW h \in Handlers, NEW table, NEW slot, NEW target, NEW to, ExchangeMoveStorage(h, table, slot, target, to)
  PROVE  Carry'
  <1>1. PICK x, m, d : /\ x = Storage(table)[slot]
                       /\ m = [Command("StorageMove", slot) EXCEPT !.to = to, !.table = table, !.target = target]
                       /\ d = [Posting(Started("Storage"), m) EXCEPT !.moved = x]
    OBVIOUS
  <1>2. Becomes(h, d) /\ UNCHANGED <<db, ground, lock>>
    BY <1>1 DEF ExchangeMoveStorage, OneCall, master, rest
  <1>3. m.cmd = "StorageMove" /\ "Storage" \notin Carriers
    BY <1>1 DEF Command, NoRequest, Carriers, Outer
  <1> QED
    BY <1>1, <1>2, <1>3, CarryCalls

\* The packet of QueryCashItem.
LEMMA CarryQueryCashItem ==
  ASSUME Base, Overlap, CarryApart, Carry, NEW h \in Handlers, QueryCashItem(h)
  PROVE  Carry'
  <1>1. PICK x, m, d : /\ x = 0
                       /\ m = Command("LoadCashInventory", 0)
                       /\ d = Posting(Started("QueryCash"), m)
    OBVIOUS
  <1>2. Becomes(h, d) /\ UNCHANGED <<db, ground, lock>>
    BY <1>1 DEF QueryCashItem, OneCall, master, rest
  <1>3. m.cmd = "LoadCashInventory" /\ "QueryCash" \notin Carriers
    BY <1>1 DEF Command, NoRequest, Carriers, Outer
  <1> QED
    BY <1>1, <1>2, <1>3, CarryCalls

\* The packet of UseCashItem.
LEMMA CarryUseCash ==
  ASSUME Base, Overlap, CarryApart, Carry, NEW h \in Handlers, NEW id, NEW slot, UseCash(h, id, slot)
  PROVE  Carry'
  <1>1. PICK x, m, d : /\ x = 0
                       /\ m = [Command("UseCashItem", slot) EXCEPT !.to = id, !.item = cash[id]]
                       /\ d = Posting(Started("UseCash"), m)
    OBVIOUS
  <1>2. Becomes(h, d) /\ UNCHANGED <<db, ground, lock>>
    BY <1>1 DEF UseCash, OneCall, master, rest
  <1>3. m.cmd = "UseCashItem" /\ "UseCash" \notin Carriers
    BY <1>1 DEF Command, NoRequest, Carriers, Outer
  <1> QED
    BY <1>1, <1>2, <1>3, CarryCalls

\* The packet of ItemBuyings.
LEMMA CarryItemBuyings ==
  ASSUME Base, Overlap, CarryApart, Carry, NEW h \in Handlers, NEW item, NEW slot, ItemBuyings(h, item, slot)
  PROVE  Carry'
  <1>1. PICK x, m, d : /\ x = 0
                       /\ m = [Command("PurchaseItem", slot) EXCEPT !.item = item, !.price = BuyPrice[item.kind.base]]
                       /\ d = Calling(Started("Buy"), m, "shop")
    OBVIOUS
  <1>2. Becomes(h, d) /\ UNCHANGED <<db, ground, lock>>
    BY <1>1 DEF ItemBuyings, OneCall, master, rest
  <1>3. m.cmd = "PurchaseItem" /\ "Buy" \notin Carriers
    BY <1>1 DEF Command, NoRequest, Carriers, Outer
  <1> QED
    BY <1>1, <1>2, <1>3, CarryCalls

\* The packet of ItemUsing for a potion.
LEMMA CarryUseManaPotion ==
  ASSUME Base, Overlap, CarryApart, Carry, NEW h \in Handlers, NEW slot, UseManaPotion(h, slot)
  PROVE  Carry'
  <1>1. PICK x, m, d : /\ x = 0
                       /\ m = Command("ConsumeItem", slot)
                       /\ d = Calling(Started("Potion"), m, "idle")
    OBVIOUS
  <1>2. Becomes(h, d) /\ UNCHANGED <<db, ground, lock>>
    BY <1>1 DEF UseManaPotion, OneCall, master, rest
  <1>3. m.cmd = "ConsumeItem" /\ "Potion" \notin Carriers
    BY <1>1 DEF Command, NoRequest, Carriers, Outer
  <1> QED
    BY <1>1, <1>2, <1>3, CarryCalls

\* The packet of UpgradeCoreEnchant.
LEMMA CarryUpgradeCoreEnchant ==
  ASSUME Base, Overlap, CarryApart, Carry, NEW h \in Handlers, NEW target, NEW cores, UpgradeCoreEnchant(h, target, cores)
  PROVE  Carry'
  <1>1. PICK x, m, d : /\ x = 0
                       /\ m = [Command("EnchantItem", target) EXCEPT !.new = [NoItem EXCEPT !.kind = nextEnchantKind(inv[target].kind)],
                                                                  !.cores = {At(s, NoItem) : s \in cores}]
                       /\ d = Calling(Started("Upgrade"), m, "idle")
    OBVIOUS
  <1>2. Becomes(h, d) /\ UNCHANGED <<db, ground, lock>>
    BY <1>1 DEF UpgradeCoreEnchant, OneCall, master, rest
  <1>3. m.cmd = "EnchantItem" /\ "Upgrade" \notin Carriers
    BY <1>1 DEF Command, NoRequest, Carriers, Outer
  <1> QED
    BY <1>1, <1>2, <1>3, CarryCalls

\* The packet of ItemUsing for a skill book.
LEMMA CarryUseSkillBook ==
  ASSUME Base, Overlap, CarryApart, Carry, NEW h \in Handlers, NEW slot, UseSkillBook(h, slot)
  PROVE  Carry'
  <1>1. PICK kind, free, to : /\ kind = inv[slot].kind /\ free = {s \in SkillSlots : skills[s] = NoSkill}
                              /\ to = CHOOSE s \in free : \A t \in free : s <= t
    OBVIOUS
  <1>2. PICK x, m, d : /\ x = 0 /\ m = [Command("LearnSkill", slot) EXCEPT !.item = [NoItem EXCEPT !.kind = kind], !.to = to]
                       /\ d = Calling(Started("Book"), m, "learn")
    OBVIOUS
  <1>3. Becomes(h, d) /\ UNCHANGED <<db, ground, lock>>
    BY <1>1, <1>2 DEF UseSkillBook, master, rest
  <1>4. m.cmd = "LearnSkill" /\ "Book" \notin Carriers
    BY <1>2 DEF Command, NoRequest, Carriers, Outer
  <1> QED
    BY <1>2, <1>3, <1>4, CarryCalls

\* The packet of ItemSelling.
LEMMA CarryItemSelling ==
  ASSUME Base, Overlap, CarryApart, Carry, NEW h \in Handlers, NEW slots, ItemSelling(h, slots)
  PROVE  Carry'
  <1>1. PICK x : x = {At(s, inv[s]) : s \in slots}
    OBVIOUS
  <1>2. PICK price : Becomes(h, [Calling(Started("Sell"),
                          [Command("SellItems", 0) EXCEPT !.cores = x, !.price = price], "shop")
                            EXCEPT !.seen = x])
    BY <1>1 DEF ItemSelling
  <1>3. PICK m, d : /\ m = [Command("SellItems", 0) EXCEPT !.cores = x, !.price = price]
                    /\ d = [Calling(Started("Sell"), m, "shop") EXCEPT !.seen = x]
    OBVIOUS
  <1>4. Becomes(h, d) /\ UNCHANGED <<db, ground, lock>>
    BY <1>2, <1>3 DEF ItemSelling, master, rest
  <1>5. m.cmd = "SellItems" /\ "Sell" \notin Carriers
    BY <1>3 DEF Command, NoRequest, Carriers, Outer
  <1> QED
    BY <1>3, <1>4, <1>5, CarryCalls

\* The packet of EnchantCore.
LEMMA CarryEnchantCore ==
  ASSUME Base, Overlap, CarryApart, Carry, NEW h \in Handlers, NEW target, NEW scrolls, NEW cores,
         EnchantCore(h, target, scrolls, cores)
  PROVE  Carry'
  <1>1. PICK item, C, O, x : /\ item = inv[target] /\ C = {At(s, inv[s]) : s \in cores}
                             /\ O = {At(s, inv[s]) : s \in scrolls}
                             /\ x = {At(s, inv[s]) : s \in cores \cup scrolls \cup {target}}
    OBVIOUS
  <1>2. PICK new : Becomes(h, [Calling(Started("ForceCore"),
                          [Command("ForceCoreEnchant", target) EXCEPT
                             !.item = item, !.cores = C, !.others = O, !.new = new], "idle")
                            EXCEPT !.seen = x])
    BY <1>1 DEF EnchantCore
  <1>3. PICK m, d : /\ m = [Command("ForceCoreEnchant", target) EXCEPT
                              !.item = item, !.cores = C, !.others = O, !.new = new]
                    /\ d = [Calling(Started("ForceCore"), m, "idle") EXCEPT !.seen = x]
    OBVIOUS
  <1>4. Becomes(h, d) /\ UNCHANGED <<db, ground, lock>>
    BY <1>2, <1>3 DEF EnchantCore, master, rest
  <1>5. m.cmd = "ForceCoreEnchant" /\ "ForceCore" \notin Carriers
    BY <1>3 DEF Command, NoRequest, Carriers, Outer
  <1> QED
    BY <1>3, <1>4, <1>5, CarryCalls

\* The packet of ItemAttach.
LEMMA CarryItemAttach ==
  ASSUME Base, Overlap, CarryApart, Carry, NEW h \in Handlers, NEW source, NEW target, ItemAttach(h, source, target)
  PROVE  Carry'
  <1>1. PICK x : x = {At(source, inv[source]), At(target, inv[target])}
    OBVIOUS
  <1>2. PICK new : Becomes(h, [Calling(Started("Attach"),
                        [Command("AttachItem", target) EXCEPT !.new = new, !.others = {At(source, NoItem)}], "idle")
                          EXCEPT !.seen = x])
    BY <1>1 DEF ItemAttach
  <1>3. PICK m, d : /\ m = [Command("AttachItem", target) EXCEPT !.new = new, !.others = {At(source, NoItem)}]
                    /\ d = [Calling(Started("Attach"), m, "idle") EXCEPT !.seen = x]
    OBVIOUS
  <1>4. Becomes(h, d) /\ UNCHANGED <<db, ground, lock>>
    BY <1>2, <1>3 DEF ItemAttach, master, rest
  <1>5. m.cmd = "AttachItem" /\ "Attach" \notin Carriers
    BY <1>3 DEF Command, NoRequest, Carriers, Outer
  <1> QED
    BY <1>3, <1>4, <1>5, CarryCalls

\* The packets of ExchangeEquip, ExchangeUnEquip, AccessoryEquip and ItemLooting: the
\* handler has nothing yet.
LEMMA CarryBegins ==
  ASSUME Base, Overlap, CarryApart, Carry, NEW h \in Handlers, NEW d, Becomes(h, d), UNCHANGED <<db, ground>>,
         lock'["out"] = lock["out"],
         \/ d.at = "equip" /\ d.op = "Equip"
         \/ d.at = "unequip" /\ d.op = "UnEquip" /\ d.back = "idle"
         \/ d.at = "acc.first" /\ d.op = "Accessory"
         \/ d.at = "loot.find" /\ d.op = "Loot"
  PROVE  Carry'
  <1>1. Tale(d)
    BY DEF Tale, Asks, Place, Busy, Wearing, Hanging, Looting, UnEquipping, Taking, Carriers, Outer
  <1>2. Keeps(Lying(db, ground), d)
    BY DEF Keeps, HasItem, HasMoved, Got, Sending, Place, Busy, Taking, TakingOff, UnEquipping
  <1>3. d.op \in Outer => d.at \in Waiting
    BY DEF Outer, Waiting
  <1> QED
    BY <1>1, <1>2, <1>3, CarryGoes

\* A packet of these.
LEMMA CarryBeginning ==
  ASSUME Base, Overlap, CarryApart, Carry, NEW h \in Handlers, NEW slot, NEW to, NEW id,
         ExchangeEquip(h, slot, to) \/ ExchangeUnEquip(h, to, slot) \/ AccessoryEquip(h, slot) \/ ItemLooting(h, id, slot)
  PROVE  Carry'
  <1>1. CASE ExchangeEquip(h, slot, to)
    <2>1. PICK c, d : c = Started("Equip") /\ d = [c EXCEPT !.at = "equip", !.slot = slot, !.to = to]
      OBVIOUS
    <2>2. Becomes(h, d) /\ UNCHANGED <<db, ground, lock>>
      BY <1>1, <2>1 DEF ExchangeEquip, master, rest
    <2>3. CallShape(c) /\ c.op = "Equip"
      BY <2>1, StartedIs DEF Values
    <2>4. d.at = "equip" /\ d.op = "Equip"
      BY <2>1, <2>3 DEF CallShape
    <2> QED
      BY <2>2, <2>4, CarryBegins
  <1>2. CASE ExchangeUnEquip(h, to, slot)
    <2>1. PICK used : Becomes(h, [Started("UnEquip") EXCEPT !.at = "unequip", !.back = "idle", !.slot = slot, !.to = used])
      BY <1>2 DEF ExchangeUnEquip
    <2>2. PICK c, d : /\ c = Started("UnEquip")
                      /\ d = [c EXCEPT !.at = "unequip", !.back = "idle", !.slot = slot, !.to = used]
      OBVIOUS
    <2>3. Becomes(h, d) /\ UNCHANGED <<db, ground, lock>>
      BY <1>2, <2>1, <2>2 DEF ExchangeUnEquip, master, rest
    <2>4. CallShape(c) /\ c.op = "UnEquip"
      BY <2>2, StartedIs DEF Values
    <2>5. d.at = "unequip" /\ d.op = "UnEquip" /\ d.back = "idle"
      BY <2>2, <2>4 DEF CallShape
    <2> QED
      BY <2>3, <2>5, CarryBegins
  <1>3. CASE AccessoryEquip(h, slot)
    <2>1. PICK c, d : c = Started("Accessory") /\ d = [c EXCEPT !.at = "acc.first", !.slot = slot]
      OBVIOUS
    <2>2. Becomes(h, d) /\ UNCHANGED <<db, ground>>
      BY <1>3, <2>1 DEF AccessoryEquip, master, rest
    <2>3. CallShape(c) /\ c.op = "Accessory"
      BY <2>1, StartedIs DEF Values
    <2>4. d.at = "acc.first" /\ d.op = "Accessory"
      BY <2>1, <2>3 DEF CallShape
    <2>5. lock'["out"] = lock["out"]
      BY <1>3, BaseOf DEF AccessoryEquip, StateOK
    <2> QED
      BY <2>2, <2>4, <2>5, CarryBegins
  <1>4. CASE ItemLooting(h, id, slot)
    <2>1. PICK stacked : stacked = (inv[slot].kind # NoKind /\ inv[slot].kind = ground[id].kind)
      OBVIOUS
    <2>2. PICK b, c, d : /\ b = Started("Loot")
                         /\ c = [b EXCEPT !.at = "loot.find", !.to = id, !.slot = slot, !.ok = stacked]
                         /\ d = IF stacked THEN [c EXCEPT !.n = inv[slot].opt + ground[id].opt] ELSE c
      OBVIOUS
    <2>3. Becomes(h, d) /\ UNCHANGED <<db, ground, lock>>
      BY <1>4, <2>1, <2>2 DEF ItemLooting, master, rest
    <2>4. CallShape(b) /\ b.op = "Loot"
      BY <2>2, StartedIs DEF Values
    <2>5. CallShape(c) /\ c.op = "Loot" /\ c.at = "loot.find"
      BY <2>2, <2>4 DEF CallShape
    <2>6. d.at = "loot.find" /\ d.op = "Loot"
      BY <2>2, <2>5 DEF CallShape
    <2> QED
      BY <2>3, <2>6, CarryBegins
  <1> QED
    BY <1>1, <1>2, <1>3, <1>4

\* The packet of SwapEquipItem: the handler has mutexOut, and asks for what it sees.
LEMMA CarrySwapEquipItem ==
  ASSUME Base, Overlap, CarryApart, Carry, MapInv, NEW h \in Handlers, NEW slot \in Slots, NEW to,
         SwapEquipItem(h, slot, to)
  PROVE  Carry'
  <1>1. PICK b, c, m, d : /\ b = Started("SwapEquip") /\ m = RemoveFrom(slot)
                          /\ c = [b EXCEPT !.slot = slot, !.to = to, !.item = inv[slot], !.back = "swap.set"]
                          /\ d = Calling(c, m, "swap.unequip")
    OBVIOUS
  <1>2. Receives(h, "SwapEquip") /\ Becomes(h, d) /\ UNCHANGED <<db, ground>> /\ lock["out"] = Free
    BY <1>1 DEF SwapEquipItem, master, rest
  <1>3. lock'["out"] = h
    BY BaseOf DEF SwapEquipItem, StateOK
  <1>4. CallShape(b) /\ b.op = "SwapEquip"
    BY <1>1, StartedIs DEF Values
  <1>5. CallShape(c) /\ c.op = "SwapEquip" /\ c.item = inv[slot] /\ c.back = "swap.set"
    BY <1>1, <1>4 DEF CallShape
  <1>6. /\ d.op = "SwapEquip" /\ d.at = "call" /\ d.ret = "swap.unequip" /\ d.item = inv[slot]
        /\ d.back = "swap.set" /\ d.m.cmd = "RemoveItem" /\ d.m.slot = slot
    BY <1>1, <1>5, Requested DEF CallShape, Calling
  <1>7. Only(Lying(db, ground), inv[slot].serials, <<"inv", slot>>)
    <2>1. /\ call[h].at \notin Due \cup {"call", "rpc"} /\ ~Active(call[h]) /\ "SwapEquip" \in Carriers
          /\ \A g \in Handlers : g # h /\ call[g].at # "idle" => {"SwapEquip", call[g].op} \in Overlapping
      BY <1>2 DEF Receives, Active, Due, Carriers, Outer
    <2> QED
      BY <1>2, <2>1, SeesWhatLies
  <1>8. Tale(d)
    BY <1>6 DEF Tale, Asks, Place, Busy, Wearing, Hanging, Looting, UnEquipping, Taking, Carriers, Outer
  <1>9. Keeps(Lying(db, ground), d)
    BY <1>6, <1>7 DEF Keeps, HasItem, HasMoved, Got, Sending, Place, Busy, Taking, TakingOff, UnEquipping
  <1> QED
    BY <1>2, <1>3, <1>8, <1>9, CarryGoes

\* The packet of StorageItemDrop.
LEMMA CarryStorageItemDrop ==
  ASSUME Base, Overlap, CarryApart, Carry, MapInv, NEW h \in Handlers, NEW slot \in Slots, StorageItemDrop(h, slot)
  PROVE  Carry'
  <1>1. PICK c, m, d : /\ c = Started("Drop") /\ m = RemoveFrom(slot)
                       /\ d = [Calling(c, m, "drop.count") EXCEPT !.item = inv[slot]]
    OBVIOUS
  <1>2. Receives(h, "Drop") /\ Becomes(h, d) /\ UNCHANGED <<db, ground, lock>>
    BY <1>1 DEF StorageItemDrop, master, rest
  <1>3. CallShape(c) /\ c.op = "Drop"
    BY <1>1, StartedIs DEF Values
  <1>4. /\ d.op = "Drop" /\ d.at = "call" /\ d.ret = "drop.count" /\ d.item = inv[slot]
        /\ d.m.cmd = "RemoveItem" /\ d.m.slot = slot
    BY <1>1, <1>3, Requested DEF CallShape, Calling
  <1>5. Only(Lying(db, ground), inv[slot].serials, <<"inv", slot>>)
    <2>1. /\ call[h].at \notin Due \cup {"call", "rpc"} /\ ~Active(call[h]) /\ "Drop" \in Carriers \ Outer
          /\ \A g \in Handlers : g # h /\ call[g].at # "idle" => {"Drop", call[g].op} \in Overlapping
      BY <1>2 DEF Receives, Active, Due, Carriers, Outer
    <2> QED
      BY <1>2, <2>1, SeesWhatLies
  <1>6. Tale(d)
    BY <1>4 DEF Tale, Asks, Place, Busy, Wearing, Hanging, Looting, UnEquipping, Taking, Carriers, Outer
  <1>7. Keeps(Lying(db, ground), d)
    BY <1>4, <1>5 DEF Keeps, HasItem, HasMoved, Got, Sending, Place, Busy, Taking, TakingOff, UnEquipping
  <1>8. d.op \notin Outer
    BY <1>4 DEF Outer
  <1> QED
    BY <1>2, <1>6, <1>7, <1>8, CarryOn

\* The packets.
LEMMA PacketCarry ==
  ASSUME Base, Overlap, CarryApart, Carry, MapInv, NEW h \in Handlers, Packet(h)
  PROVE  Carry'
  <1>1. player.slots \subseteq Slots /\ player.worn \subseteq EqSlots
    BY PlayersAssumption DEF Base, StateOK, MapsOK
  <1>2. CASE \/ \E old, new \in player.slots : ExchangeMoveInInventory(h, old, new) \/ ItemSwapInInventory(h, old, new)
             \/ \E old, new \in player.worn : ExchangeMoveInEquipment(h, old, new) \/ ItemSwapInEquipment(h, old, new)
    BY <1>2, CarryExchangeMoveInInventory, CarryItemSwapInInventory, CarryExchangeMoveInEquipment,
       CarryItemSwapInEquipment
  <1>3. CASE \E slot \in player.slots, to \in player.worn :
               ExchangeEquip(h, slot, to) \/ ExchangeUnEquip(h, to, slot) \/ SwapEquipItem(h, slot, to)
    BY <1>1, <1>3, CarryBeginning, CarrySwapEquipItem
  <1>4. CASE \E slot \in player.slots : \/ AccessoryEquip(h, slot) \/ StorageItemDrop(h, slot)
                                        \/ UseManaPotion(h, slot) \/ UseSkillBook(h, slot)
    BY <1>1, <1>4, CarryBeginning, CarryStorageItemDrop, CarryUseManaPotion, CarryUseSkillBook
  <1>5. CASE \E slot, to \in player.slots \cup WhSlots, table, target \in Tables :
               ExchangeMoveStorage(h, table, slot, target, to)
    BY <1>5, CarryExchangeMoveStorage
  <1>6. CASE QueryCashItem(h) \/ \E id \in CashIds, slot \in player.slots : UseCash(h, id, slot)
    BY <1>6, CarryQueryCashItem, CarryUseCash
  <1>7. CASE \E id \in DOMAIN ground, slot \in player.slots : ItemLooting(h, id, slot)
    BY <1>7, CarryBeginning
  <1>8. CASE \E slots \in SUBSET SlotsOf(DOMAIN SellPrice) : ItemSelling(h, slots)
    BY <1>8, CarryItemSelling
  <1>9. CASE \E item \in Stock, slot \in player.slots : ItemBuyings(h, item, slot)
    BY <1>9, CarryItemBuyings
  <1>10. CASE \E target \in player.slots :
                \E scrolls \in SUBSET SlotsOf(Scrolls), cores \in SUBSET SlotsOf(Cores) :
                  EnchantCore(h, target, scrolls, cores)
    BY <1>10, CarryEnchantCore
  <1>11. CASE \E target \in player.slots : \E cores \in SUBSET SlotsOf(Cores) : UpgradeCoreEnchant(h, target, cores)
    BY <1>11, CarryUpgradeCoreEnchant
  <1>12. CASE \E target \in player.slots : \E source \in player.slots : ItemAttach(h, source, target)
    BY <1>12, CarryItemAttach
  <1> QED
    BY <1>2, <1>3, <1>4, <1>5, <1>6, <1>7, <1>8, <1>9, <1>10, <1>11, <1>12 DEF Packet

----------------------------------------------------------------------------
(* Every step; every item. *)

\* Nothing happens.
LEMMA CarryUnchanged ==
  ASSUME Carry, UNCHANGED <<db, ground, lock, call>>
  PROVE  Carry'
  <1>1. PICK V : V = Lying(db, ground)
    OBVIOUS
  <1>2. V = Lying(db, ground)'
    BY <1>1
  <1>3. OutHeld'
    BY DEF Carry, OutHeld
  <1> QED
    BY <1>1, <1>2, <1>3 DEF Carry

\* Every step keeps what is carried off the places.
LEMMA NextCarry ==
  ASSUME Apart, CarryApart, Unmarked
  PROVE  /\ Base /\ Overlap /\ MapInv /\ Carry /\ NoLastUnit /\ OneStack
         /\ [Next]_vars /\ [KeepsAnswers]_vars
         => Carry'
  <1> SUFFICES ASSUME Base, Overlap, MapInv, Carry, NoLastUnit, OneStack, [Next]_vars, [KeepsAnswers]_vars
               PROVE  Carry'
    OBVIOUS
  <1>1. CASE UNCHANGED vars
    BY <1>1, CarryUnchanged DEF vars, rest
  <1>2. CASE \E h \in Handlers : Packet(h) \/ Step(h)
    BY <1>2, PacketCarry, StepCarry
  <1>3. CASE (\E h \in Handlers : Methods(h)) /\ UNCHANGED <<rest, player>>
    BY <1>3, MethodCases, CarrySent, CarryBack
  <1>4. CASE Master /\ Still
    <2>1. CASE MasterRestarts
      BY <1>4, <2>1, CarryUnchanged DEF MasterRestarts, Still, rest
    <2>2. CASE \E h \in Handlers : Breaks(h)
      BY <1>1, <1>4, <2>2, CarryPanics
    <2>3. CASE \E h \in Handlers : Served(h)
      BY <1>4, <2>3, CarryServed
    <2> QED
      BY <1>4, <2>1, <2>2, <2>3, MasterCases
  <1>5. CASE \E id \in DOMAIN ground : ItemExpires(id)
    BY <1>5, CarryItemExpires
  <1> QED
    BY <1>1, <1>2, <1>3, <1>4, <1>5 DEF Next, Act, Still

\* What a character has at the start lies at one place each.
LEMMA InitCarry ==
  ASSUME StartOnce, Unmarked, Init
  PROVE  Carry
  <1>1. PICK p, V : p = player /\ V = Lying(db, ground)
    OBVIOUS
  <1>2. /\ p \in Players /\ db.inv = p.inv /\ db.eqp = p.eqp /\ db.wh = Empty(WhSlots) /\ db.cash = p.cash
        /\ ground = p.ground /\ \A h \in Handlers : call[h] = Idle
    BY <1>1 DEF Init
  <1>3. V = Owned(p)
    BY <1>1, <1>2 DEF Owned, Lying
  <1>4. Once(V)
    BY <1>2, <1>3 DEF StartOnce
  <1>5. OutHeld
    BY <1>2, GoodIdle DEF OutHeld, Outer
  <1>6. \A id \in CashIds : db.cash[id].serials = 0
    BY <1>2 DEF Unmarked
  <1> QED
    BY <1>1, <1>2, <1>4, <1>5, <1>6, IdleKeeps DEF Carry

\* How many members of S have x.
LEMMA CountNone ==
  ASSUME NEW S, S = {}
  PROVE  Cardinality(S) = 0
  BY FS_EmptySet

\* One.
LEMMA CountOne ==
  ASSUME NEW S, NEW s, S = {s}
  PROVE  Cardinality(S) = 1
  BY FS_Singleton

\* An item that lies somewhere lies at one place.
LEMMA CarryMeansOnce == LyingOnce => ItemOnce
  <1> SUFFICES ASSUME Carry, NEW x \in Serials \ {0} PROVE Places(x) = 1
    BY DEF LyingOnce, ItemOnce
  <1>1. PICK V : V = Lying(db, ground)
    OBVIOUS
  <1>2. Once(V) /\ x # 0
    BY <1>1 DEF Carry
  <1>3. PICK I, E, W, G :
          /\ I = {s \in Slots : db.inv[s].serials = x} /\ E = {s \in EqSlots : db.eqp[s].serials = x}
          /\ W = {s \in WhSlots : db.wh[s].serials = x} /\ G = {id \in DOMAIN ground : ground[id].serials = x}
    OBVIOUS
  <1>4. Places(x) = Cardinality(I) + Cardinality(E) + Cardinality(W) + Cardinality(G)
    BY <1>3 DEF Places
  <1>5. ASSUME NEW s
        PROVE  /\ s \in I => <<<<"inv", s>>, x>> \in V
               /\ s \in E => <<<<"eqp", s>>, x>> \in V
               /\ s \in W => <<<<"wh", s>>, x>> \in V
               /\ s \in G => <<<<"ground", s>>, x>> \in V
    BY <1>1, <1>3, LyingAt
  <1>6. ASSUME NEW p, NEW q, <<p, x>> \in V, <<q, x>> \in V
        PROVE  p = q
    BY <1>2, <1>6 DEF Once
  <1>7. CASE \E s : s \in I
    <2>1. PICK s : s \in I
      BY <1>7
    <2>2. I = {s}
      <3>1. ASSUME NEW t \in I PROVE t = s
        <4>1. PICK p, q : p = <<"inv", t>> /\ q = <<"inv", s>>
          OBVIOUS
        <4>2. <<p, x>> \in V /\ <<q, x>> \in V
          BY <1>5, <2>1, <4>1
        <4> QED
          BY <1>6, <4>1, <4>2
      <3> QED
        BY <2>1, <3>1
    <2>3. E = {} /\ W = {} /\ G = {}
      <3>1. ASSUME NEW t \in E PROVE FALSE
        <4>1. <<"eqp", t>> = <<"inv", s>>
          BY <1>5, <1>6, <2>1
        <4> QED
          BY <4>1
      <3>2. ASSUME NEW t \in W PROVE FALSE
        <4>1. <<"wh", t>> = <<"inv", s>>
          BY <1>5, <1>6, <2>1
        <4> QED
          BY <4>1
      <3>3. ASSUME NEW t \in G PROVE FALSE
        <4>1. <<"ground", t>> = <<"inv", s>>
          BY <1>5, <1>6, <2>1
        <4> QED
          BY <4>1
      <3> QED
        BY <3>1, <3>2, <3>3
    <2>4. Cardinality(I) = 1 /\ Cardinality(E) = 0 /\ Cardinality(W) = 0 /\ Cardinality(G) = 0
      BY <2>2, <2>3, CountNone, CountOne
    <2> QED
      BY <1>4, <2>4
  <1>8. CASE \E s : s \in E
    <2>1. PICK s : s \in E
      BY <1>8
    <2>2. E = {s}
      <3>1. ASSUME NEW t \in E PROVE t = s
        <4>1. PICK p, q : p = <<"eqp", t>> /\ q = <<"eqp", s>>
          OBVIOUS
        <4>2. <<p, x>> \in V /\ <<q, x>> \in V
          BY <1>5, <2>1, <4>1
        <4> QED
          BY <1>6, <4>1, <4>2
      <3> QED
        BY <2>1, <3>1
    <2>3. I = {} /\ W = {} /\ G = {}
      <3>1. ASSUME NEW t \in I PROVE FALSE
        <4>1. <<"inv", t>> = <<"eqp", s>>
          BY <1>5, <1>6, <2>1
        <4> QED
          BY <4>1
      <3>2. ASSUME NEW t \in W PROVE FALSE
        <4>1. <<"wh", t>> = <<"eqp", s>>
          BY <1>5, <1>6, <2>1
        <4> QED
          BY <4>1
      <3>3. ASSUME NEW t \in G PROVE FALSE
        <4>1. <<"ground", t>> = <<"eqp", s>>
          BY <1>5, <1>6, <2>1
        <4> QED
          BY <4>1
      <3> QED
        BY <3>1, <3>2, <3>3
    <2>4. Cardinality(I) = 0 /\ Cardinality(E) = 1 /\ Cardinality(W) = 0 /\ Cardinality(G) = 0
      BY <2>2, <2>3, CountNone, CountOne
    <2> QED
      BY <1>4, <2>4
  <1>9. CASE \E s : s \in W
    <2>1. PICK s : s \in W
      BY <1>9
    <2>2. W = {s}
      <3>1. ASSUME NEW t \in W PROVE t = s
        <4>1. PICK p, q : p = <<"wh", t>> /\ q = <<"wh", s>>
          OBVIOUS
        <4>2. <<p, x>> \in V /\ <<q, x>> \in V
          BY <1>5, <2>1, <4>1
        <4> QED
          BY <1>6, <4>1, <4>2
      <3> QED
        BY <2>1, <3>1
    <2>3. I = {} /\ E = {} /\ G = {}
      <3>1. ASSUME NEW t \in I PROVE FALSE
        <4>1. <<"inv", t>> = <<"wh", s>>
          BY <1>5, <1>6, <2>1
        <4> QED
          BY <4>1
      <3>2. ASSUME NEW t \in E PROVE FALSE
        <4>1. <<"eqp", t>> = <<"wh", s>>
          BY <1>5, <1>6, <2>1
        <4> QED
          BY <4>1
      <3>3. ASSUME NEW t \in G PROVE FALSE
        <4>1. <<"ground", t>> = <<"wh", s>>
          BY <1>5, <1>6, <2>1
        <4> QED
          BY <4>1
      <3> QED
        BY <3>1, <3>2, <3>3
    <2>4. Cardinality(I) = 0 /\ Cardinality(E) = 0 /\ Cardinality(W) = 1 /\ Cardinality(G) = 0
      BY <2>2, <2>3, CountNone, CountOne
    <2> QED
      BY <1>4, <2>4
  <1>10. CASE \E s : s \in G
    <2>1. PICK s : s \in G
      BY <1>10
    <2>2. G = {s}
      <3>1. ASSUME NEW t \in G PROVE t = s
        <4>1. PICK p, q : p = <<"ground", t>> /\ q = <<"ground", s>>
          OBVIOUS
        <4>2. <<p, x>> \in V /\ <<q, x>> \in V
          BY <1>5, <2>1, <4>1
        <4> QED
          BY <1>6, <4>1, <4>2
      <3> QED
        BY <2>1, <3>1
    <2>3. I = {} /\ E = {} /\ W = {}
      <3>1. ASSUME NEW t \in I PROVE FALSE
        <4>1. <<"inv", t>> = <<"ground", s>>
          BY <1>5, <1>6, <2>1
        <4> QED
          BY <4>1
      <3>2. ASSUME NEW t \in E PROVE FALSE
        <4>1. <<"eqp", t>> = <<"ground", s>>
          BY <1>5, <1>6, <2>1
        <4> QED
          BY <4>1
      <3>3. ASSUME NEW t \in W PROVE FALSE
        <4>1. <<"wh", t>> = <<"ground", s>>
          BY <1>5, <1>6, <2>1
        <4> QED
          BY <4>1
      <3> QED
        BY <3>1, <3>2, <3>3
    <2>4. Cardinality(I) = 0 /\ Cardinality(E) = 0 /\ Cardinality(W) = 0 /\ Cardinality(G) = 1
      BY <2>2, <2>3, CountNone, CountOne
    <2> QED
      BY <1>4, <2>4
  <1> QED
    BY <1>3, <1>7, <1>8, <1>9, <1>10 DEF Serials

\* As long as no answer of a committed transaction is lost, what is carried
\* stays off the places.
LEMMA NextLies ==
  ASSUME Apart, CarryApart, Unmarked
  PROVE  Base /\ Overlap /\ SkillInv /\ NoLastUnit /\ OneStack /\ Following /\ LyingOnce /\ [Next]_vars
         => LyingOnce'
  <1> SUFFICES ASSUME Base, Overlap, SkillInv, NoLastUnit, OneStack, [Next]_vars, Following, LyingOnce
               PROVE  LyingOnce'
    OBVIOUS
  <1>1. ASSUME lost' = 0 PROVE Carry'
    <2>1. lost = 0 /\ [KeepsAnswers]_vars
      BY <1>1, NextLost DEF Following
    <2>2. MapInv /\ AlzInv /\ SkillSync /\ Carry
      BY <2>1 DEF Following, LyingOnce
    <2> QED
      BY <2>1, <2>2, NextCarry
  <1> QED
    BY <1>1 DEF LyingOnce

\* As long as no answer of a transaction that committed is lost, no item is at
\* two places: in two rows of the tables, in a row and on the ground, or twice on
\* the ground (equipment.go: mutexOut is "used for multi-transaction operations";
\* inventory.go; PickItem and dropItem of game/world.go).  A handler that takes an
\* item away from one place and puts it at another, or back where it was when that
\* is refused or the call does not arrive, has the only one; it sees what it takes
\* away as it lies there, since nobody else who moves items is beyond the look at
\* mutexOut.  A lost answer is not harmless and the property excepts it (lost = 0):
\* EquipItem puts the item back although it was put on (equipment.go:131-132), and
\* there are two.  The theorem needs what ItemMapsFollow needs, that drops,
\* pick-ups and accessories are handled alone and the other carriers overlap only
\* with carriers that wait for mutexOut (CarryApart), that what the shop sells and
\* the cash inventory gives has no serial (Unmarked), and that no character starts
\* with two of one item (StartOnce).
THEOREM ItemsLieOnce ==
  ASSUME Apart, CarryApart, Unmarked, StartOnce
  PROVE  Spec /\ []NoLastUnit /\ []OneStack => []ItemOnce
  <1>1. Init => Overlap /\ SkillInv /\ Following /\ LyingOnce
    BY InitMaps, InitSkills, InitLost, InitCarry DEF Following, LyingOnce
  <1>2. Base /\ Overlap /\ SkillInv /\ NoLastUnit /\ OneStack /\ Following /\ [Next]_vars
        => Overlap' /\ SkillInv' /\ Following'
    BY NextFollow
  <1>3. Base /\ Overlap /\ SkillInv /\ NoLastUnit /\ OneStack /\ Following /\ LyingOnce /\ [Next]_vars
        => LyingOnce'
    BY NextLies
  <1>4. LyingOnce => ItemOnce
    BY CarryMeansOnce
  <1> QED
    BY <1>1, <1>2, <1>3, <1>4, ItemInvariant, PTL DEF Spec

=============================================================================

------------------------------ MODULE Inventory ------------------------------
(***************************************************************************)
(* The maps the game server keeps for one character and the methods that   *)
(* change them together with the tables                                    *)
(* (share/models/inventory/inventory.go and equipment.go).                 *)
(*                                                                         *)
(* A method of Inventory or Equipment holds the map's mutex while its RPC  *)
(* is under way: it checks the map and sends (the action named after the   *)
(* method), the master acts, and the answer is applied before the unlock   *)
(* (the action with Done in its name).  A goroutine that calls a method is *)
(* at "call"; call[h].ret is where it goes on, with call[h].ok the result. *)
(***************************************************************************)
EXTENDS ItemMaster

CONSTANT Free       \* nobody holds the lock

ASSUME FreeAssumption == Free \notin Handlers

VARIABLES
    inv,            \* Inventory.Inv
    eqp,            \* Equipment.Equip
    lock            \* the goroutines that hold Inventory.mutex, Equipment.mutex,
                    \* Equipment.mutexOut and Context.Mutex

maps == <<inv, eqp>>
master == <<db, up>>

----------------------------------------------------------------------------
(* Calling a method and coming back. *)

\* What a goroutine without a packet remembers.
Idle ==
    [op |-> "none", at |-> "idle", ret |-> "idle", back |-> "idle", m |-> NoRequest,
     ok |-> FALSE, res |-> "no", alz |-> 0, list |-> [id \in CashIds |-> NoItem],
     slot |-> 0, to |-> 0, item |-> NoItem, moved |-> NoItem, seen |-> {}, n |-> 0]

\* The caller goes on; a handler that has nothing left to do is done.
Resumed(c, ok) == IF c.ret = "idle" THEN Idle ELSE [c EXCEPT !.at = c.ret, !.ok = ok]

Calls(h, cmd, mutex) ==
    call[h].at = "call" /\ call[h].m.cmd = cmd /\ lock[mutex] = Free

\* The method sends m and keeps the mutex.
Sends(h, m, mutex) ==
    /\ lock' = [lock EXCEPT ![mutex] = h]
    /\ call' = [call EXCEPT ![h].at = "rpc", ![h].m = m]
    /\ UNCHANGED <<maps, master>>

\* It returns an error before it has sent anything.
Declines(h) ==
    /\ call' = [call EXCEPT ![h] = Resumed(@, FALSE)]
    /\ UNCHANGED <<lock, maps, master>>

Checked(h, m, mutex, cond) ==
    \/ cond /\ Sends(h, m, mutex)
    \/ ~cond /\ Declines(h)

Answered(h, cmd) == call[h].at = "reply" /\ call[h].m.cmd = cmd

\* The method unlocks the mutex and returns.
Returns(h, mutex) ==
    /\ lock' = [lock EXCEPT ![mutex] = Free]
    /\ call' = [call EXCEPT ![h] = Resumed(@, @.res = "ok")]
    /\ UNCHANGED master

Acked(h) == call[h].res = "ok"

----------------------------------------------------------------------------
(* inventory.go *)

InventorySet(h) ==
    /\ Calls(h, "AddItem", "inv")
    /\ Sends(h, call[h].m, "inv")

InventorySetDone(h) ==
    LET m == call[h].m IN
    /\ Answered(h, "AddItem")
    /\ inv' = IF Acked(h) THEN [inv EXCEPT ![m.slot] = m.item] ELSE inv
    /\ Returns(h, "inv") /\ UNCHANGED eqp

InventoryPurchase(h) ==
    LET m == call[h].m IN
    /\ Calls(h, "PurchaseItem", "inv")
    /\ Checked(h, m, "inv", inv[m.slot] = NoItem)

InventoryPurchaseDone(h) ==
    LET m == call[h].m IN
    /\ Answered(h, "PurchaseItem")
    /\ inv' = IF Acked(h) THEN [inv EXCEPT ![m.slot] = m.item] ELSE inv
    /\ Returns(h, "inv") /\ UNCHANGED eqp

\* The items are compared with what the handler has read.
InventorySell(h) ==
    LET m == call[h].m IN
    /\ Calls(h, "SellItems", "inv")
    /\ Checked(h, m, "inv", m.cores # {} /\ m.price > 0 /\ \A p \in m.cores : inv[p.slot] = p.item)

InventorySellDone(h) ==
    /\ Answered(h, "SellItems")
    /\ inv' = IF Acked(h) THEN Deleted(inv, {p.slot : p \in call[h].m.cores}) ELSE inv
    /\ Returns(h, "inv") /\ UNCHANGED eqp

InventoryConsumeSkillBook(h) ==
    LET m == call[h].m IN
    /\ Calls(h, "LearnSkill", "inv")
    /\ Checked(h, m, "inv", inv[m.slot] # NoItem /\ inv[m.slot].kind = m.item.kind)

InventoryConsumeSkillBookDone(h) ==
    /\ Answered(h, "LearnSkill")
    /\ inv' = IF Acked(h) THEN [inv EXCEPT ![call[h].m.slot] = NoItem] ELSE inv
    /\ Returns(h, "inv") /\ UNCHANGED eqp

\* Consumes one unit of whatever is in the slot by now.
InventoryConsumeOne(h) ==
    LET m == call[h].m IN
    /\ Calls(h, "ConsumeItem", "inv")
    /\ Checked(h, [m EXCEPT !.item = inv[m.slot]], "inv",
               inv[m.slot].kind # NoKind /\ inv[m.slot].opt > 0)

InventoryConsumeOneDone(h) ==
    LET m == call[h].m IN
    /\ Answered(h, "ConsumeItem")
    /\ inv' = IF ~Acked(h) THEN inv
              ELSE [inv EXCEPT ![m.slot] = IF m.item.opt = 1 THEN NoItem
                                           ELSE [m.item EXCEPT !.opt = @ - 1]]
    /\ Returns(h, "inv") /\ UNCHANGED eqp

\* The item was read by Get, before the lock.
InventoryStack(h) ==
    /\ Calls(h, "StackItem", "inv")
    /\ Sends(h, call[h].m, "inv")

InventoryStackDone(h) ==
    LET m == call[h].m IN
    /\ Answered(h, "StackItem")
    /\ inv' = IF call[h].res = "err" THEN inv ELSE [inv EXCEPT ![m.slot] = m.item]
    /\ Returns(h, "inv") /\ UNCHANGED eqp

InventoryRemove(h) ==
    LET m == call[h].m IN
    /\ Calls(h, "RemoveItem", "inv")
    /\ Checked(h, m, "inv", inv[m.slot] # NoItem)

InventoryRemoveDone(h) ==
    /\ Answered(h, "RemoveItem")
    /\ inv' = IF call[h].res = "err" THEN inv ELSE [inv EXCEPT ![call[h].m.slot] = NoItem]
    /\ Returns(h, "inv") /\ UNCHANGED eqp

\* The target and the cores are what the slots hold by now; the new kind is
\* the one the handler has computed.
InventoryEnchant(h) ==
    LET m == call[h].m
        cores == {At(p.slot, inv[p.slot]) : p \in m.cores} IN
    /\ Calls(h, "EnchantItem", "inv")
    /\ Checked(h, [m EXCEPT !.item = inv[m.slot], !.cores = cores], "inv",
               /\ inv[m.slot].kind # NoKind /\ m.new.kind # NoKind /\ cores # {}
               /\ \A p \in cores : p.slot # m.slot /\ p.item.kind # NoKind)

InventoryEnchantDone(h) ==
    LET m == call[h].m IN
    /\ Answered(h, "EnchantItem")
    /\ inv' = IF ~Acked(h) THEN inv
              ELSE [Deleted(inv, {p.slot : p \in m.cores}) EXCEPT
                      ![m.slot] = [m.item EXCEPT !.kind = m.new.kind]]
    /\ Returns(h, "inv") /\ UNCHANGED eqp

\* Mutant: target, scrolls and cores are read again.
InventoryForceCoreEnchantReread(h) ==
    LET m == call[h].m
        Reread(used) == {At(p.slot, inv[p.slot]) : p \in used}
        item == inv[m.slot] IN
    /\ Calls(h, "ForceCoreEnchant", "inv")
    /\ Checked(h, [m EXCEPT !.item = item, !.cores = Reread(m.cores), !.others = Reread(m.others),
                            !.new = [item EXCEPT !.opt = m.new.opt]], "inv",
               item # NoItem /\ \A p \in m.cores \cup m.others : inv[p.slot] # NoItem)

\* Target, scrolls and cores are compared with what the handler has read.
InventoryForceCoreEnchant(h) ==
    LET m == call[h].m
        used == m.cores \cup m.others IN
    /\ Calls(h, "ForceCoreEnchant", "inv")
    /\ Checked(h, m, "inv",
               /\ inv[m.slot] = m.item /\ m.new.kind # NoKind
               /\ m.new.serials = m.item.serials /\ m.cores # {}
               /\ \A p \in used : /\ p.item.kind # NoKind /\ p.slot # m.slot
                                  /\ inv[p.slot] = p.item
                                  /\ \A q \in used : q.slot = p.slot => q = p
               /\ m.cores \cap m.others = {})

\* A scroll whose count reaches zero is removed.
InventoryForceCoreEnchantDone(h) ==
    LET m == call[h].m
        Spend(s) == LET p == CHOOSE q \in m.others : q.slot = s IN
                    IF p.item.opt > 1 THEN [p.item EXCEPT !.opt = @ - 1] ELSE NoItem IN
    /\ Answered(h, "ForceCoreEnchant")
    /\ inv' = IF ~Acked(h) THEN inv
              ELSE [s \in Slots |-> IF s = m.slot THEN m.new
                                    ELSE IF \E p \in m.cores : p.slot = s THEN NoItem
                                    ELSE IF \E p \in m.others : p.slot = s THEN Spend(s)
                                    ELSE inv[s]]
    /\ Returns(h, "inv") /\ UNCHANGED eqp

\* attachLocked: source and target are what the slots hold by now; only the
\* serials of the target are compared with what the handler has read.
InventoryAttach(h) ==
    LET m == call[h].m
        sources == {At(p.slot, inv[p.slot]) : p \in m.others} IN
    /\ Calls(h, "AttachItem", "inv")
    /\ Checked(h, [m EXCEPT !.item = inv[m.slot], !.others = sources], "inv",
               /\ m.new.kind # NoKind /\ inv[m.slot].kind # NoKind
               /\ \A p \in sources : p.slot # m.slot /\ p.item.kind # NoKind
               /\ m.new.serials = inv[m.slot].serials)

InventoryAttachDone(h) ==
    LET m == call[h].m IN
    /\ Answered(h, "AttachItem")
    /\ inv' = IF ~Acked(h) THEN inv
              ELSE [Deleted(inv, {p.slot : p \in m.others}) EXCEPT ![m.slot] = m.new]
    /\ Returns(h, "inv") /\ UNCHANGED eqp

InventorySwap(h) ==
    LET m == call[h].m IN
    /\ Calls(h, "SwapItem", "inv")
    /\ Checked(h, m, "inv", inv[m.slot] # NoItem /\ inv[m.to] # NoItem)

InventorySwapDone(h) ==
    LET m == call[h].m IN
    /\ Answered(h, "SwapItem")
    /\ inv' = IF call[h].res = "err" THEN inv
              ELSE [inv EXCEPT ![m.slot] = inv[m.to], ![m.to] = inv[m.slot]]
    /\ Returns(h, "inv") /\ UNCHANGED eqp

InventoryMove(h) ==
    LET m == call[h].m IN
    /\ Calls(h, "MoveItem", "inv")
    /\ Checked(h, m, "inv", inv[m.slot] # NoItem /\ inv[m.to] = NoItem)

\* Mutant: the item moves in the map although the call has failed.
InventoryMoveDoneBlind(h) ==
    LET m == call[h].m IN
    /\ Answered(h, "MoveItem")
    /\ inv' = [inv EXCEPT ![m.slot] = NoItem, ![m.to] = inv[m.slot]]
    /\ Returns(h, "inv") /\ UNCHANGED eqp

InventoryMoveDone(h) ==
    LET m == call[h].m IN
    /\ Answered(h, "MoveItem")
    /\ inv' = IF call[h].res = "err" THEN inv
              ELSE [inv EXCEPT ![m.slot] = NoItem, ![m.to] = inv[m.slot]]
    /\ Returns(h, "inv") /\ UNCHANGED eqp

----------------------------------------------------------------------------
(* equipment.go: the methods that make one RPC. *)

EquipmentSet(h) ==
    /\ Calls(h, "EquipItem", "eqp")
    /\ Sends(h, call[h].m, "eqp")

EquipmentSetDone(h) ==
    LET m == call[h].m IN
    /\ Answered(h, "EquipItem")
    /\ eqp' = IF Acked(h) THEN [eqp EXCEPT ![m.slot] = m.item] ELSE eqp
    /\ Returns(h, "eqp") /\ UNCHANGED inv

EquipmentRemove(h) ==
    LET m == call[h].m IN
    /\ Calls(h, "UnEquipItem", "eqp")
    /\ Checked(h, m, "eqp", eqp[m.slot] # NoItem)

EquipmentRemoveDone(h) ==
    /\ Answered(h, "UnEquipItem")
    /\ eqp' = IF Acked(h) THEN [eqp EXCEPT ![call[h].m.slot] = NoItem] ELSE eqp
    /\ Returns(h, "eqp") /\ UNCHANGED inv

EquipmentSwap(h) ==
    LET m == call[h].m IN
    /\ Calls(h, "SwapEquipmentItem", "eqp")
    /\ Checked(h, m, "eqp", eqp[m.slot] # NoItem /\ eqp[m.to] # NoItem)

EquipmentSwapDone(h) ==
    LET m == call[h].m IN
    /\ Answered(h, "SwapEquipmentItem")
    /\ eqp' = IF call[h].res = "err" THEN eqp
              ELSE [eqp EXCEPT ![m.slot] = eqp[m.to], ![m.to] = eqp[m.slot]]
    /\ Returns(h, "eqp") /\ UNCHANGED inv

EquipmentMoveItem(h) ==
    LET m == call[h].m IN
    /\ Calls(h, "MoveEquipmentItem", "eqp")
    /\ Checked(h, m, "eqp", eqp[m.slot] # NoItem /\ eqp[m.to] = NoItem)

EquipmentMoveItemDone(h) ==
    LET m == call[h].m IN
    /\ Answered(h, "MoveEquipmentItem")
    /\ eqp' = IF Acked(h) THEN [eqp EXCEPT ![m.slot] = NoItem, ![m.to] = eqp[m.slot]] ELSE eqp
    /\ Returns(h, "eqp") /\ UNCHANGED inv

Methods(h) ==
    \/ InventorySet(h) \/ InventorySetDone(h)
    \/ InventoryPurchase(h) \/ InventoryPurchaseDone(h)
    \/ InventorySell(h) \/ InventorySellDone(h)
    \/ InventoryConsumeSkillBook(h) \/ InventoryConsumeSkillBookDone(h)
    \/ InventoryConsumeOne(h) \/ InventoryConsumeOneDone(h)
    \/ InventoryStack(h) \/ InventoryStackDone(h)
    \/ InventoryRemove(h) \/ InventoryRemoveDone(h)
    \/ InventoryEnchant(h) \/ InventoryEnchantDone(h)
    \/ InventoryForceCoreEnchant(h) \/ InventoryForceCoreEnchantDone(h)
    \/ InventoryAttach(h) \/ InventoryAttachDone(h)
    \/ InventorySwap(h) \/ InventorySwapDone(h)
    \/ InventoryMove(h) \/ InventoryMoveDone(h)
    \/ EquipmentSet(h) \/ EquipmentSetDone(h)
    \/ EquipmentRemove(h) \/ EquipmentRemoveDone(h)
    \/ EquipmentSwap(h) \/ EquipmentSwapDone(h)
    \/ EquipmentMoveItem(h) \/ EquipmentMoveItemDone(h)
=============================================================================

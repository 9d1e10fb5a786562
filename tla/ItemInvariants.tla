--------------------------- MODULE ItemInvariants ---------------------------
(***************************************************************************)
(* The invariants of ItemHandlers that ItemProofs proves, and the kinds of *)
(* steps the proofs reduce its actions to.                                 *)
(*                                                                         *)
(* Base says which requests a goroutine can have under way at which point  *)
(* of its handler, and that the mutexes are held by the goroutines whose   *)
(* calls are.  MapInv says that what a map lacks is what an answer under   *)
(* way says.  Carry says where an item is that a handler carries.  Both    *)
(* end with the first answer of a committed transaction that is lost       *)
(* (Following, LyingOnce).                                                 *)
(***************************************************************************)
EXTENDS ItemHandlers

----------------------------------------------------------------------------
(* Requests, records and the base invariant. *)

InvCommands == {"AddItem", "PurchaseItem", "SellItems", "LearnSkill", "ConsumeItem", "StackItem",
                "RemoveItem", "EnchantItem", "ForceCoreEnchant", "AttachItem", "SwapItem", "MoveItem"}
EqpCommands == {"EquipItem", "UnEquipItem", "SwapEquipmentItem", "MoveEquipmentItem"}
BareCommands == {"StorageMove", "LoadCashInventory", "UseCashItem"}
Plain == {"StackItem", "RemoveItem", "SwapItem", "MoveItem", "SwapEquipmentItem"}
Positions == [slot : Slots, item : Items]
Extent(table) == IF table = "inv" THEN Slots ELSE WhSlots

RequestShape(m) ==
    m = [cmd |-> m.cmd, slot |-> m.slot, to |-> m.to, item |-> m.item, new |-> m.new,
         cores |-> m.cores, others |-> m.others, price |-> m.price, table |-> m.table,
         target |-> m.target]

RequestOK(m) ==
    /\ RequestShape(m)
    /\ m.cmd \in InvCommands \cup EqpCommands \cup BareCommands \cup {"none"}
    /\ m.item \in Items /\ m.new \in Items
    /\ m.cores \subseteq Positions /\ m.others \subseteq Positions
    /\ m.cmd \in InvCommands \ {"SellItems"} => m.slot \in Slots
    /\ m.cmd \in EqpCommands => m.slot \in EqSlots
    /\ m.cmd \in {"MoveItem", "SwapItem"} => m.to \in Slots
    /\ m.cmd \in {"MoveEquipmentItem", "SwapEquipmentItem"} => m.to \in EqSlots
    /\ m.cmd = "LearnSkill" => m.to \in SkillSlots /\ m.item.kind.base \in Books
    /\ m.cmd = "StorageMove" => /\ m.table \in Tables /\ m.target \in Tables /\ "wh" \in {m.table, m.target}
                                /\ m.slot \in Extent(m.table) /\ m.to \in Extent(m.target)
    /\ m.cmd = "UseCashItem" => m.slot \in Slots /\ m.to \in CashIds
    /\ m.cmd = "PurchaseItem" => m.item \in Stock

CallShape(c) ==
    c = [op |-> c.op, at |-> c.at, ret |-> c.ret, back |-> c.back, m |-> c.m, ok |-> c.ok,
         res |-> c.res, alz |-> c.alz, list |-> c.list, slot |-> c.slot, to |-> c.to,
         item |-> c.item, moved |-> c.moved, seen |-> c.seen, n |-> c.n]

Busy(c) == c.at \in {"call", "rpc", "reply"}
Place(c) == IF Busy(c) THEN c.ret ELSE c.at

Wearing == {"equip", "equip.set", "equip.end", "unequip", "unequip.remove", "unequip.set",
            "unequip.end", "unequip.done", "unequip.failed", "swap.unequip", "swap.set"}
UnEquipping == {"unequip", "unequip.remove", "unequip.set", "unequip.end", "unequip.done", "unequip.failed", "swap.unequip"}
Hanging == {"acc.first", "acc.last", "acc.taken", "acc.shift"}
Looting == {"loot.find", "loot.take", "loot.stack"}
Points == Wearing \cup Hanging \cup Looting \cup
   {"idle", "end", "storage.set", "cash.remove", "drop.count", "drop.add", "shop", "learn"}

PlaceOK(c) ==
    LET p == Place(c) IN
    /\ p \in Points
    /\ p \in Wearing => c.slot \in Slots /\ c.to \in EqSlots
    /\ p \in Hanging => c.slot \in Slots
    /\ p \in UnEquipping => c.back \in {"idle", "swap.set", "acc.taken"}
    /\ p = "acc.shift" => c.n \in 0 .. (Len(Accessories) - 1)
    /\ p \in Looting => c.slot \in Slots /\ (c.ok => c.n \in Nat) /\ c.op = "Loot"
    /\ p = "loot.stack" => c.ok
    /\ p = "shop" => c.op \in {"Sell", "Buy"}
    /\ p = "learn" <=> c.op = "Book"
    /\ p = "learn" => c.m.cmd = "LearnSkill"
    /\ p = "storage.set" => c.op = "Storage" /\ c.m.cmd = "StorageMove"
    /\ p = "cash.remove" => c.op = "UseCash" /\ c.m.cmd = "UseCashItem"
    /\ Busy(c) => c.ret \notin Looting \cup {"storage.set", "cash.remove", "unequip", "unequip.remove", "equip", "acc.first"}

SentOK(c) ==
    LET m == c.m IN
    /\ c.at = "call" => m.cmd \in InvCommands \cup EqpCommands
    /\ Busy(c) =>
        /\ m.cmd # "none"
        /\ c.ret = "shop" <=> m.cmd \in {"SellItems", "PurchaseItem"}
        /\ c.ret = "learn" <=> m.cmd = "LearnSkill"
        /\ m.cmd = "StorageMove" => c.op = "Storage"
        /\ m.cmd = "UseCashItem" => c.op = "UseCash"
        /\ m.cmd = "LoadCashInventory" => c.op = "QueryCash"
        /\ m.cmd = "StackItem" => c.op = "Loot"
        /\ m.cmd = "SellItems" => c.seen \subseteq m.cores
        /\ m.cmd = "ForceCoreEnchant" => c.seen \subseteq m.cores \cup m.others \cup {At(m.slot, m.item)}
    /\ c.at = "reply" /\ m.cmd \in Plain => c.res # "no"
    /\ c.at \in {"rpc", "reply"} /\ m.cmd = "ConsumeItem" => m.item.opt > 0

Good(c) ==
    /\ CallShape(c)
    /\ c.at \in Points \cup {"call", "rpc", "reply"}
    /\ c.ok \in BOOLEAN /\ c.res \in {"ok", "no", "err"}
    /\ c.item \in Items /\ c.moved \in Items /\ c.list \in [CashIds -> Items]
    /\ RequestOK(c.m)
    /\ c.at = "idle" => c = Idle
    /\ PlaceOK(c)
    /\ SentOK(c)

TablesOK(d) ==
    /\ d = [inv |-> d.inv, eqp |-> d.eqp, wh |-> d.wh, cash |-> d.cash, alz |-> d.alz, skills |-> d.skills]
    /\ d.inv \in [Slots -> Items] /\ d.eqp \in [EqSlots -> Items] /\ d.wh \in [WhSlots -> Items]
    /\ d.cash \in [CashIds -> Items] /\ d.skills \in [SkillSlots -> Bases]

MapsOK ==
    /\ inv \in [Slots -> Items] /\ eqp \in [EqSlots -> Items] /\ wh \in [WhSlots -> Items]
    /\ cash \in [CashIds -> Items] /\ skills \in [SkillSlots -> Bases]
    /\ \A id \in DOMAIN ground : ground[id] \in Items
    /\ player \in Players

StateOK ==
    /\ TablesOK(db) /\ MapsOK
    /\ lock \in [{"inv", "eqp", "out", "ctx"} -> Handlers \cup {Free}]

Holds(c, commands) == c.at \in {"rpc", "reply"} /\ c.m.cmd \in commands
LockOK ==
    \A h \in Handlers : /\ lock["inv"] = h <=> Holds(call[h], InvCommands)
                        /\ lock["eqp"] = h <=> Holds(call[h], EqpCommands)
Called == call = [h \in Handlers |-> call[h]]
Base == StateOK /\ Called /\ (\A h \in Handlers : Good(call[h])) /\ LockOK

Overlap == \A g, h \in Handlers : g # h /\ call[g].at # "idle" /\ call[h].at # "idle"
             => {call[g].op, call[h].op} \in Overlapping

----------------------------------------------------------------------------
(* Records of the goroutines. *)

\* d is c at another point of its way to the master and back.
Alike(c, d) ==
    /\ CallShape(d) /\ d.op = c.op /\ d.ret = c.ret /\ d.back = c.back /\ d.ok = c.ok /\ d.slot = c.slot
    /\ d.to = c.to /\ d.item = c.item /\ d.moved = c.moved /\ d.seen = c.seen /\ d.n = c.n

\* What a handler remembers over a call.
Recalls(c, d) ==
    /\ d.back = c.back /\ d.slot = c.slot /\ d.to = c.to /\ d.item = c.item /\ d.moved = c.moved /\ d.n = c.n

----------------------------------------------------------------------------
(* What the master does. *)

\* Nothing of the game server changes but the record of h.
Still == UNCHANGED <<inv, eqp, lock, rest, player>>

\* The master answers r to h.  Only "ok" changes the tables.
Answers(h, r) ==
    /\ call[h].at = "rpc"
    /\ r \in {"ok", "no", "err"}
    /\ r = "no" => call[h].m.cmd \notin Plain
    /\ r # "ok" => db' = db
    /\ \E a : \E l \in [CashIds -> Items] :
         /\ Becomes(h, [call[h] EXCEPT !.at = "reply", !.res = r, !.alz = a, !.list = l])
         /\ r # "ok" \/ call[h].m.cmd \notin {"SellItems", "PurchaseItem"} => a = call[h].alz
         /\ r = "ok" /\ call[h].m.cmd \in {"SellItems", "PurchaseItem"} => a = db'.alz
         /\ r = "ok" /\ call[h].m.cmd = "LoadCashInventory" => l = db.cash
    /\ call[h].m.cmd \notin {"SellItems", "PurchaseItem"} => db'.alz = db.alz
    /\ call[h].m.cmd # "LearnSkill" => db'.skills = db.skills
    /\ TablesOK(db')

\* The map f becomes g when the answer to m is applied to it (inventory.go).
Gives(m, f, g) ==
    /\ m.cmd \in {"AddItem", "PurchaseItem", "StackItem"} => g = [f EXCEPT ![m.slot] = m.item]
    /\ m.cmd \in {"RemoveItem", "LearnSkill"} => g = [f EXCEPT ![m.slot] = NoItem]
    /\ m.cmd = "SellItems" => g = Deleted(f, {p.slot : p \in m.cores})
    /\ m.cmd = "ConsumeItem" =>
         g = [f EXCEPT ![m.slot] = IF m.item.opt = 1 THEN NoItem ELSE [m.item EXCEPT !.opt = @ - 1]]
    /\ m.cmd = "EnchantItem" =>
         g = [Deleted(f, {p.slot : p \in m.cores}) EXCEPT ![m.slot] = [m.item EXCEPT !.kind = m.new.kind]]
    /\ m.cmd = "AttachItem" => g = [Deleted(f, {p.slot : p \in m.others}) EXCEPT ![m.slot] = m.new]
    /\ m.cmd = "SwapItem" => g = [f EXCEPT ![m.slot] = f[m.to], ![m.to] = f[m.slot]]
    /\ m.cmd = "MoveItem" => g = [f EXCEPT ![m.slot] = NoItem, ![m.to] = f[m.slot]]
    /\ m.cmd = "ForceCoreEnchant" =>
         g = [s \in Slots |-> IF s = m.slot THEN m.new
                              ELSE IF \E p \in m.cores : p.slot = s THEN NoItem
                              ELSE IF \E p \in m.others : p.slot = s
                              THEN LET p == CHOOSE q \in m.others : q.slot = s IN
                                   IF p.item.opt > 1 THEN [p.item EXCEPT !.opt = @ - 1] ELSE NoItem
                              ELSE f[s]]

\* The same for the equipment (equipment.go).
EqGives(m, f, g) ==
    /\ m.cmd = "EquipItem" => g = [f EXCEPT ![m.slot] = m.item]
    /\ m.cmd = "UnEquipItem" => g = [f EXCEPT ![m.slot] = NoItem]
    /\ m.cmd = "SwapEquipmentItem" => g = [f EXCEPT ![m.slot] = f[m.to], ![m.to] = f[m.slot]]
    /\ m.cmd = "MoveEquipmentItem" => g = [f EXCEPT ![m.slot] = NoItem, ![m.to] = f[m.slot]]

\* The tables do what the map will: an item that is there moves, one stack is
\* stacked on, and no scroll is at its last unit.
Exact(m) ==
    /\ m.cmd = "MoveItem" => db.inv[m.slot] # NoItem
    /\ m.cmd = "MoveEquipmentItem" => db.eqp[m.slot] # NoItem
    /\ m.cmd = "StackItem" =>
         /\ db.inv[m.slot] # NoItem
         /\ m.item = [db.inv[m.slot] EXCEPT !.opt = m.item.opt]
         /\ \A s \in Slots : db.inv[s].kind = m.item.kind => s = m.slot
    /\ m.cmd = "ForceCoreEnchant" => \A p \in m.others : p.item.opt # 1

\* What "ok" has done to the rows.
Effect(m) ==
    /\ m.cmd \in InvCommands =>
         /\ UNCHANGED <<db.eqp, db.wh, db.cash>>
         /\ Exact(m) => Gives(m, db.inv, db'.inv)
    /\ m.cmd \in EqpCommands =>
         /\ UNCHANGED <<db.inv, db.wh, db.cash>>
         /\ Exact(m) => EqGives(m, db.eqp, db'.eqp)

    /\ m.cmd = "StorageMove" /\ m.table = m.target /\ m.slot = m.to => db' = db
    /\ m.cmd = "StorageMove" /\ ~(m.table = m.target /\ m.slot = m.to) =>
         /\ UNCHANGED <<db.eqp, db.cash>>
         /\ m.table = "inv" =>
              /\ db'.inv = [db.inv EXCEPT ![m.slot] = NoItem]
              /\ db'.wh = [db.wh EXCEPT ![m.to] = db.inv[m.slot]]
         /\ m.target = "inv" =>
              /\ db'.wh = [db.wh EXCEPT ![m.slot] = NoItem]
              /\ db'.inv = [db.inv EXCEPT ![m.to] = db.wh[m.slot]]
         /\ m.table = m.target =>
              /\ db'.inv = db.inv
              /\ db'.wh = [db.wh EXCEPT ![m.slot] = NoItem, ![m.to] = db.wh[m.slot]]
    /\ m.cmd = "UseCashItem" =>
         /\ UNCHANGED <<db.eqp, db.wh>>
         /\ db.cash[m.to] = m.item
         /\ db'.inv = [db.inv EXCEPT ![m.slot] = m.item]
         /\ db'.cash = [db.cash EXCEPT ![m.to] = NoItem]
    /\ m.cmd = "LoadCashInventory" => db' = db
    /\ m.cmd = "LearnSkill" =>
         /\ db.skills[m.to] = NoSkill /\ \A s \in SkillSlots : db.skills[s] # m.item.kind.base
         /\ db'.skills = [db.skills EXCEPT ![m.to] = m.item.kind.base]
    /\ m.cmd = "SellItems" => \A p \in m.cores : Stored(p)
    /\ m.cmd = "ForceCoreEnchant" => \A p \in m.cores \cup m.others \cup {At(m.slot, m.item)} : Stored(p)
    /\ m.cmd \in {"ConsumeItem", "EnchantItem", "AttachItem"} => Stored(At(m.slot, m.item))
    /\ m.cmd \in {"AttachItem", "ForceCoreEnchant"} => m.new.serials = m.item.serials

\* A transaction of the master for h.
Served(h) ==
    \E r \in {"ok", "no", "err"} : Answers(h, r) /\ (r = "ok" => Effect(call[h].m))

\* The master ends, or an answer of it is lost.
Breaks(h) == MasterPanics(h) \/ AnswerLost(h)

\* The record of h is as before, or its call has failed.
Lost(h) ==
    \/ call'[h] = call[h]
    \/ call[h].at \in {"rpc", "reply"} /\ call'[h] = [call[h] EXCEPT !.at = "reply", !.res = "err"]

----------------------------------------------------------------------------
(* What the methods of the maps do. *)

\* The mutex a command is sent under.
Mutex(cmd) == IF cmd \in InvCommands THEN "inv" ELSE "eqp"

\* A method sends its request.
Sent(h) ==
    \E m :
      /\ call[h].at = "call" /\ RequestOK(m)
      /\ m.cmd = call[h].m.cmd /\ m.cmd \in InvCommands \cup EqpCommands
      /\ m.cmd \notin {"ConsumeItem", "EnchantItem", "AttachItem"} => m = call[h].m
      /\ m.cmd = "ConsumeItem" => m.item.opt > 0
      /\ m.cmd = "MoveItem" => inv[m.slot] # NoItem
      /\ m.cmd = "MoveEquipmentItem" => eqp[m.slot] # NoItem
      /\ lock[Mutex(m.cmd)] = Free
      /\ Sends(h, m, Mutex(m.cmd))

\* A method has its answer.
Returned(h) ==
    LET c == call[h] IN
    /\ c.at = "reply" /\ c.m.cmd \in InvCommands \cup EqpCommands
    /\ c.m.cmd \in InvCommands =>
         eqp' = eqp /\ (c.res = "ok" => Gives(c.m, inv, inv')) /\ (c.res # "ok" => inv' = inv)
    /\ c.m.cmd \in EqpCommands =>
         inv' = inv /\ (c.res = "ok" => EqGives(c.m, eqp, eqp')) /\ (c.res # "ok" => eqp' = eqp)
    /\ Returns(h, Mutex(c.m.cmd))

\* A method gives up before it has sent anything.
Declined(h) == call[h].at = "call" /\ Declines(h)

----------------------------------------------------------------------------
(* What the handlers do. *)

\* Commands that any handler may send and of which nothing more is known.
Simple == {"AddItem", "RemoveItem", "MoveItem", "SwapItem", "ConsumeItem", "EnchantItem", "AttachItem",
           "EquipItem", "UnEquipItem", "SwapEquipmentItem", "MoveEquipmentItem"}

\* Where a method that changes nothing but a map comes back to.
Homes == {"idle", "end", "drop.count", "equip.set", "equip.end", "unequip.set", "unequip.end",
          "unequip.failed", "swap.unequip", "acc.last", "acc.shift"}

\* The values a record has.
Values(d) ==
    /\ CallShape(d) /\ d.ok \in BOOLEAN /\ d.res \in {"ok", "no", "err"}
    /\ d.item \in Items /\ d.moved \in Items /\ d.list \in [CashIds -> Items]
    /\ RequestOK(d.m)

\* The slots a handler remembers where it needs them.
Slotted(d, p) ==
    /\ p \in Wearing => d.slot \in Slots /\ d.to \in EqSlots
    /\ p \in Hanging => d.slot \in Slots
    /\ p \in UnEquipping => d.back \in {"idle", "swap.set", "acc.taken"}
    /\ p = "acc.shift" => d.n \in 0 .. (Len(Accessories) - 1)

\* A handler at one of these points has changed the tables and has yet to change
\* what the game server keeps.
Due == {"storage.set", "cash.remove", "shop", "learn", "reply"}

\* The steps that change neither tables nor maps nor the mutexes of the maps.
LockType == [{"inv", "eqp", "out", "ctx"} -> Handlers \cup {Free}]
Calm ==
    /\ UNCHANGED <<inv, eqp, wh, cash, alz, skills, db, player>>
    /\ lock' \in LockType /\ lock'["inv"] = lock["inv"] /\ lock'["eqp"] = lock["eqp"]
    /\ \A id \in DOMAIN ground' : ground'[id] \in Items

\* A looter's stack is there, and the item to be stored is the one that was seen.
Sees(c) ==
    /\ c.at \in Looting /\ c.ok => inv[c.slot] # NoItem
    /\ c.at \in {"call", "rpc"} /\ c.m.cmd = "StackItem" =>
         inv[c.m.slot] # NoItem /\ c.m.item = [inv[c.m.slot] EXCEPT !.opt = c.m.item.opt]
    /\ c.at = "rpc" /\ c.m.cmd = "StorageMove" => c.moved = Storage(c.m.table)[c.m.slot]

\* A packet of h may be handled beside what the others do.
Fits(h, op) ==
    \A g \in Handlers \ {h} : call[g].at # "idle" => {op, call[g].op} \in Overlapping

Quiet(h) ==
    /\ Calm /\ call[h].at \notin Due \cup {"call", "rpc"}
    /\ \E d : /\ Becomes(h, d) /\ Good(d) /\ d.at \notin Due
              /\ Sees(call[h]) => Sees(d)
              /\ d.at = "rpc" => d.m.cmd \in BareCommands
              /\ d.at # "idle" => IF call[h].at = "idle" THEN Fits(h, d.op) ELSE d.op = call[h].op

\* The records of the handlers that call a method or go on.
Going == {"end", "equip", "unequip", "acc.first", "unequip.remove", "unequip.done", "swap.set",
          "acc.taken", "acc.shift", "drop.add"}
Ahead(d) ==
    \/ d = Idle
    \/ /\ Values(d) /\ d.op # "Book"
       /\ \/ d.at = "call" /\ d.m.cmd \in Simple /\ d.ret \in Homes /\ Slotted(d, d.ret)
          \/ d.at \in Going /\ Slotted(d, d.at)

\* The steps of BaseLocal.
Locally(h) ==
    \/ MoveStorageRemoveLocal(h) \/ MoveStorageSetLocal(h) \/ QueryCashItemDone(h)
    \/ UseCashSetLocal(h) \/ UseCashRemove(h) \/ ShopDone(h) \/ SkillLearned(h)

----------------------------------------------------------------------------
(* No skill is learned twice. *)

\* h has made the master learn a skill that the character does not have yet.
SkillDue(c) == c.op = "Book" /\ ((c.at = "learn" /\ c.ok) \/ (c.at = "reply" /\ c.res = "ok"))

SkillInv ==
   /\ \A s, t \in SkillSlots : db.skills[s] = db.skills[t] /\ s # t => db.skills[s] = NoSkill
   /\ \A s \in SkillSlots : skills[s] # NoSkill => db.skills[s] # NoSkill
   /\ \A h \in Handlers : SkillDue(call[h]) => skills[call[h].m.to] = NoSkill /\ db.skills[call[h].m.to] # NoSkill
   /\ \A g, h \in Handlers : g # h /\ SkillDue(call[h]) /\ SkillDue(call[g]) => call[g].m.to # call[h].m.to

----------------------------------------------------------------------------
(* The maps follow the tables. *)

\* The packets whose handlers change a map without its mutex, or look before
\* they take it, and which MapsFollowTables wants to be handled alone.
Solo == {"Storage", "QueryCash", "UseCash", "Loot"}

\* Which packets overlap: none with a packet of Solo, and one sale or purchase
\* at a time.
Apart == \A pair \in Overlapping : pair \cap Solo = {} /\ ~(pair \subseteq {"Sell", "Buy"})

\* No force core is bought with the last unit of a scroll, of which the table
\* keeps a row (see the run inventory_scroll).
NoLastUnit ==
    \A h \in Handlers : call[h].at = "rpc" /\ call[h].m.cmd = "ForceCoreEnchant"
      => \A p \in call[h].m.others : p.item.opt # 1

\* Of the kind that is stacked there is one stack: StackItem of the master
\* updates every stack of the kind.
OneStack ==
    \A h \in Handlers : call[h].at = "rpc" /\ call[h].m.cmd = "StackItem"
      => \A s \in Slots : db.inv[s].kind = call[h].m.item.kind => s = call[h].m.slot

\* No answer of a transaction that committed is lost on its way back.
KeepsAnswers ==
    \A h \in Handlers : call[h].at = "reply" /\ call[h].res = "ok" => call'[h].at # "reply" \/ call'[h].res # "err"

\* The tables are ahead of the maps by what an answer says.
Acknowledged(c, commands) == c.at = "reply" /\ c.res = "ok" /\ c.m.cmd \in commands
InvAhead(c) == Acknowledged(c, InvCommands)
EqpAhead(c) == Acknowledged(c, EqpCommands)
StoreAhead(c) ==
    \/ Acknowledged(c, {"StorageMove"}) /\ ~(c.m.table = c.m.target /\ c.m.slot = c.m.to)
    \/ c.at = "storage.set"
CashAhead(c) == Acknowledged(c, {"UseCashItem"}) \/ c.at = "cash.remove"
ListAhead(c) == Acknowledged(c, {"LoadCashInventory"})

\* The maps, beside the tables in db.
Local == [inv |-> inv, eqp |-> eqp, wh |-> wh, cash |-> cash]

\* The two halves of a move between inventory and warehouse: what is left of it
\* makes the tables g of the maps f.
Stores(c, f, g) ==
    LET m == c.m
        half == c.at = "storage.set"
        i == IF m.table = "inv" /\ ~half THEN [f.inv EXCEPT ![m.slot] = NoItem] ELSE f.inv
        w == IF m.table = "wh" /\ ~half THEN [f.wh EXCEPT ![m.slot] = NoItem] ELSE f.wh IN
    /\ g.inv = IF m.target = "inv" THEN [i EXCEPT ![m.to] = c.moved] ELSE i
    /\ g.wh = IF m.target = "wh" THEN [w EXCEPT ![m.to] = c.moved] ELSE w

\* The two halves of taking an item out of the cash inventory.
Takes(c, f, g) ==
    /\ g.inv = IF c.at = "reply" THEN [f.inv EXCEPT ![c.m.slot] = c.m.item] ELSE f.inv
    /\ g.cash = [f.cash EXCEPT ![c.m.to] = NoItem]

\* What is missing in the maps is what the answer says.
Owes(c, f, g) ==
    /\ InvAhead(c) => Gives(c.m, f.inv, g.inv)
    /\ EqpAhead(c) => EqGives(c.m, f.eqp, g.eqp)
    /\ StoreAhead(c) => Stores(c, f, g)
    /\ CashAhead(c) => Takes(c, f, g)
    /\ ListAhead(c) => c.list = g.cash

MapsEqual ==
    /\ (\A h \in Handlers : ~InvAhead(call[h]) /\ ~StoreAhead(call[h]) /\ ~CashAhead(call[h])) => inv = db.inv
    /\ (\A h \in Handlers : ~EqpAhead(call[h])) => eqp = db.eqp
    /\ (\A h \in Handlers : ~StoreAhead(call[h])) => wh = db.wh
    /\ (\A h \in Handlers : ~CashAhead(call[h])) => cash = db.cash

\* What a request was based on is still so when the master has it.
Based(c) ==
    /\ Sees(c)
    /\ c.at = "rpc" /\ c.m.cmd = "MoveItem" => inv[c.m.slot] # NoItem
    /\ c.at = "rpc" /\ c.m.cmd = "MoveEquipmentItem" => eqp[c.m.slot] # NoItem

MapInv == MapsEqual /\ \A h \in Handlers : Owes(call[h], Local, db) /\ Based(call[h])

\* The same for the Alz and the skills of the character.
AlzDue(c) == (c.at = "shop" /\ c.ok) \/ Acknowledged(c, {"SellItems", "PurchaseItem"})
AlzInv ==
    /\ (\A h \in Handlers : ~AlzDue(call[h])) => alz = db.alz
    /\ \A h \in Handlers : AlzDue(call[h]) => call[h].alz = db.alz
SkillSync ==
    /\ \A s \in SkillSlots : skills[s] = db.skills[s] \/ \E h \in Handlers : SkillDue(call[h]) /\ call[h].m.to = s
    /\ \A h \in Handlers : SkillDue(call[h]) => db.skills[call[h].m.to] = call[h].m.item.kind.base

\* Nothing is under way that the tables are ahead by.
Pending(c) == InvAhead(c) \/ EqpAhead(c) \/ StoreAhead(c) \/ CashAhead(c) \/ ListAhead(c)
\* c has looked at a map and relies on it.
Looks(c) ==
    \/ c.at \in Looting
    \/ c.at \in {"call", "rpc"} /\ c.m.cmd = "StackItem"
    \/ c.at = "rpc" /\ c.m.cmd \in {"StorageMove", "MoveItem", "MoveEquipmentItem"}

----------------------------------------------------------------------------
(* The steps of the maps and tables. *)

\* What is left of a move, before and after its first half.
StoresSplit(d, f, g) ==
    /\ d.at = "reply" /\ d.m.table = "inv" =>
         (Stores(d, f, g) <=> /\ g.inv = [f.inv EXCEPT ![d.m.slot] = NoItem]
                              /\ g.wh = [f.wh EXCEPT ![d.m.to] = d.moved])
    /\ d.at = "reply" /\ d.m.target = "inv" =>
         (Stores(d, f, g) <=> /\ g.inv = [f.inv EXCEPT ![d.m.to] = d.moved]
                              /\ g.wh = [f.wh EXCEPT ![d.m.slot] = NoItem])
    /\ d.at = "reply" /\ d.m.table = d.m.target =>
         (Stores(d, f, g) <=> /\ g.inv = f.inv
                              /\ g.wh = [[f.wh EXCEPT ![d.m.slot] = NoItem] EXCEPT ![d.m.to] = d.moved])
    /\ d.at = "storage.set" /\ d.m.target = "inv" =>
         (Stores(d, f, g) <=> g.inv = [f.inv EXCEPT ![d.m.to] = d.moved] /\ g.wh = f.wh)
    /\ d.at = "storage.set" /\ d.m.target = "wh" =>
         (Stores(d, f, g) <=> g.inv = f.inv /\ g.wh = [f.wh EXCEPT ![d.m.to] = d.moved])

----------------------------------------------------------------------------
(* The Alz and the skills follow too. *)

\* A goroutine that owes the same before and after a step.
SameDues(c, d) ==
    /\ AlzDue(d) <=> AlzDue(c)
    /\ AlzDue(c) => d.alz = c.alz
    /\ SkillDue(d) <=> SkillDue(c)
    /\ SkillDue(c) => d.m = c.m

----------------------------------------------------------------------------
(* What lies where.  An item is in a row of a table, on the ground or in    *)
(* the hands of a handler that has taken it away and will put it somewhere. *)

\* The places of the rows and the ground with the serials that lie there.
Lying(d, g) ==
    {<<<<"inv", s>>, d.inv[s].serials>> : s \in Slots}
      \cup {<<<<"eqp", s>>, d.eqp[s].serials>> : s \in EqSlots}
      \cup {<<<<"wh", s>>, d.wh[s].serials>> : s \in WhSlots}
      \cup {<<<<"ground", id>>, g[id].serials>> : id \in DOMAIN g}

\* No serials lie at two places; x lies at p and nowhere else; x lies nowhere.
Once(V) == \A p, q, x : <<p, x>> \in V /\ <<q, x>> \in V /\ x # 0 => p = q
Only(V, x, p) == \A q : <<q, x>> \in V /\ x # 0 => q = p
Gone(V, x) == \A q : <<q, x>> \in V => x = 0

\* W is V with some items taken away, with what lies at p and q exchanged (or
\* taken away), or with x put at p.
Less(V, W) == \A p, x : <<p, x>> \in W /\ x # 0 => <<p, x>> \in V
Crosses(V, W, p, q) ==
    \A r, x : <<r, x>> \in W /\ x # 0 =>
      \/ r = p /\ <<q, x>> \in V
      \/ r = q /\ <<p, x>> \in V
      \/ r # p /\ r # q /\ <<r, x>> \in V
Puts(V, W, x, p) ==
    \A r, y : <<r, y>> \in W /\ y # 0 => (r = p /\ y = x) \/ (r # p /\ <<r, y>> \in V)

----------------------------------------------------------------------------
(* What the handlers carry. *)

\* The operations that hold mutexOut, and all whose handlers take an item away
\* from one place before they put it at another.
Outer == {"Equip", "UnEquip", "SwapEquip"}
Carriers == Outer \cup {"Accessory", "Drop", "Loot"}

\* Which packets overlap: one that carries an item, with another one that waits
\* for the same mutexOut (equipment.go) or with none.
CarryApart == \A pair \in Overlapping : pair \cap Carriers # {} => pair \subseteq Outer

\* What is bought in the shop or taken out of the cash inventory is like any other
\* of its kind.
Unmarked ==
    /\ \A i \in Stock : i.serials = 0
    /\ \A p \in Players : \A id \in CashIds : p.cash[id].serials = 0

\* What a character has when the server starts.
Owned(p) == Lying([inv |-> p.inv, eqp |-> p.eqp, wh |-> Empty(WhSlots)], p.ground)
StartOnce == \A p \in Players : Once(Owned(p))

\* Before a handler of Outer has mutexOut; where the answer to a RemoveItem or
\* to an UnEquipItem is used.
Waiting == {"idle", "equip", "unequip"}
Taking == {"equip.set", "swap.unequip", "acc.last", "drop.count"}
TakingOff == {"unequip.set", "unequip.end", "unequip.failed"}

Sending(c) == c.at \in {"call", "rpc"}
Got(c) == IF Busy(c) THEN c.at = "reply" /\ c.res = "ok" ELSE c.ok

\* c.item is in the hands of the handler: it is taken away, or could not be put down.
HasItem(c) ==
    LET p == Place(c) IN
    \/ p \in Taking /\ Got(c)
    \/ p = "equip.end" /\ ~Got(c)
    \/ p = "end" /\ Sending(c)
    \/ p \in {"drop.add", "swap.set", "acc.taken", "acc.shift"}
    \/ p \in UnEquipping \ {"swap.unequip"} /\ c.back # "idle"
    \/ p = "idle" /\ Sending(c) /\ c.m.cmd = "AddItem"

\* So is c.moved, which unEquipItem takes off.
HasMoved(c) ==
    LET p == Place(c) IN
    \/ p = "unequip.set" /\ Got(c)
    \/ p = "unequip.end" /\ ~Got(c)
    \/ p = "unequip.failed" /\ Sending(c)

\* Which handlers these are and what they ask for.
Asks(c) ==
    LET p == Place(c) IN
    /\ c.m.cmd = "AddItem" =>
         \/ p \in {"unequip.end", "unequip.failed"} /\ c.m.item = c.moved
         \/ (p = "end" \/ (p = "idle" /\ c.op = "Loot")) /\ c.m.item = c.item
    /\ c.m.cmd = "EquipItem" => p \in {"equip.end", "end"} /\ c.m.item = c.item
    /\ p \in Taking => c.m.cmd = "RemoveItem"
    /\ p = "unequip.set" => c.m.cmd = "UnEquipItem"
    /\ p = "equip.end" => c.m.cmd = "EquipItem"
    /\ p \in {"unequip.end", "unequip.failed"} => c.m.cmd = "AddItem"
    /\ p = "end" => c.m.cmd \in {"AddItem", "EquipItem"}
Tale(c) ==
    LET p == Place(c) IN
    /\ p \in Wearing \cup Hanging \cup Looting \cup {"end", "drop.count", "drop.add"} => c.op \in Carriers
    /\ p \in Hanging \/ (p \in UnEquipping /\ c.back = "acc.taken") \/ (p = "unequip" /\ c.back # "idle")
         => c.op = "Accessory"
    /\ Busy(c) => Asks(c)

\* What a handler has in its hands lies nowhere in V, and what it is about to
\* take away lies where it takes it.
Keeps(V, c) ==
    LET p == Place(c) IN
    /\ HasItem(c) => Gone(V, c.item.serials)
    /\ HasMoved(c) => Gone(V, c.moved.serials)
    /\ p \in Taking /\ Sending(c) => Only(V, c.item.serials, <<"inv", c.m.slot>>)
    /\ p = "unequip.set" /\ Sending(c) => Only(V, c.moved.serials, <<"eqp", c.m.slot>>)
    /\ c.at = "loot.take" => Only(V, c.item.serials, <<"ground", c.to>>)
    /\ HasItem(c) /\ p \in TakingOff => c.item.serials # c.moved.serials \/ c.item.serials = 0

OutHeld == \A h \in Handlers : call[h].op \in Outer /\ call[h].at \notin Waiting => lock["out"] = h

Carry ==
    /\ Once(Lying(db, ground))
    /\ OutHeld
    /\ \A h \in Handlers : Tale(call[h]) /\ Keeps(Lying(db, ground), call[h])
    /\ \A id \in CashIds : db.cash[id].serials = 0

\* c is at work on an item.
Active(c) == c.op \in Carriers /\ c.at # "idle" /\ (c.op \in Outer => c.at \notin Waiting)

----------------------------------------------------------------------------
(* One handler and mutexOut. *)

\* What a step of h must not do to mutexOut.
OutStep(h) ==
    /\ call'[h].op \in Outer /\ call'[h].at \notin Waiting => lock'["out"] = h
    /\ lock'["out"] = lock["out"] \/ lock["out"] \in {Free, h} \/ Active(call[h])

----------------------------------------------------------------------------
(* An answer of the master. *)

\* What is known of h, whose call is answered.
IsAnswered(c, d) ==
    /\ c.at = "rpc" /\ d.at = "reply" /\ d.m = c.m /\ Alike(c, d) /\ Tale(c) /\ RequestOK(c.m)

----------------------------------------------------------------------------
(* The hands of the handlers. *)

\* Where a handler that carries items can be, and what it has there.
Carrying == Wearing \cup Hanging \cup Looting \cup {"end", "drop.count", "drop.add"}
Hand(V, c) ==
    /\ \/ c.at \in Taking /\ c.ok
       \/ c.at = "equip.end" /\ ~c.ok
       \/ c.at \in {"drop.add", "swap.set", "acc.taken", "acc.shift"}
       \/ c.at \in UnEquipping \ {"swap.unequip"} /\ c.back # "idle"
       => Gone(V, c.item.serials)
    /\ (c.at = "unequip.set" /\ c.ok) \/ (c.at = "unequip.end" /\ ~c.ok) => Gone(V, c.moved.serials)
    /\ c.at \in TakingOff /\ c.back # "idle" => c.item.serials # c.moved.serials \/ c.item.serials = 0

----------------------------------------------------------------------------
(* As long as no answer is lost. *)

\* The maps follow the tables, and no item is at two places.
Following == lost \in Nat /\ (lost = 0 => MapInv /\ AlzInv /\ SkillSync)
LyingOnce == lost = 0 => Carry

=============================================================================

---------------------------- MODULE ItemHandlers ----------------------------
(***************************************************************************)
(* The packet handlers of the game server that change the items of one     *)
(* character (cmd/gameserver/packet/inventory.go, item.go, enchant.go,     *)
(* item_attach.go and the operations of equipment.go that make several     *)
(* calls), with the items on the ground of one cell (game/world.go).       *)
(*                                                                         *)
(* Every packet is handled by a goroutine of its own.  A handler reads the *)
(* maps with Get, which waits for the map's mutex, and calls methods with  *)
(* what it has read: the map may have changed in between.  Values that     *)
(* several Get calls return to one handler are read in one step.           *)
(***************************************************************************)
EXTENDS Inventory, Sequences, FiniteSetsExt

CONSTANTS
    Players,        \* what a client has, the packets it sends and the slots they name
    Overlapping,    \* the sets of one or two packets handled at the same time
    Hands,          \* the two weapon slots of the equipment
    Accessories,    \* the slots of one type of accessory, in order
    Stock,          \* what the shop sells
    BuyPrice, SellPrice,            \* by the base of the kind
    Counted,        \* the bases whose option is a number of units
    Potions, Books, Extenders,      \* what using or attaching an item does
    Extendable, Enchantable,        \* what has slots for options
    ArmorBinder,    \* <<source, target, result>> of item.dec
    MaxOptionSlots, MaxCores,
    Scrolls, Cores, \* what the client offers to the enchantments
    StartAlz,
    MaxLost         \* bound: answers that are lost

ASSUME OverlapAssumption == \A pair \in Overlapping : Cardinality(pair) \in {1, 2}
ASSUME AccessoryAssumption ==
    Accessories \in Seq(EqSlots) /\ Len(Accessories) > 1
ASSUME HandsAssumption == Hands \subseteq EqSlots
ASSUME BookAssumption == NoSkill \notin Books /\ Books \subseteq Bases
ASSUME GoodsAssumption ==
    /\ Stock \subseteq Items
    /\ \A row \in ArmorBinder : row[3] \in Bases
ASSUME PlayersAssumption ==
    \A p \in Players :
      /\ p.inv \in [Slots -> Items] /\ p.eqp \in [EqSlots -> Items] /\ p.cash \in [CashIds -> Items]
      /\ \A id \in DOMAIN p.ground : p.ground[id] \in Items
      /\ p.slots \subseteq Slots /\ p.worn \subseteq EqSlots
ASSUME LostAssumption == MaxLost \in Nat

VARIABLES
    wh,             \* Context.Warehouse
    cash,           \* Context.CashInventory
    alz,            \* Character.Alz
    skills,         \* Character.Skills
    ground,         \* Cell.items: an item for each id in use
    player,         \* the client, one of Players
    lost            \* history: steps that lost the answer of a transaction that committed

rest == <<wh, cash, alz, skills, ground>>
vars == <<db, up, call, inv, eqp, lock, rest, player, lost>>

Empty(S) == [s \in S |-> NoItem]

Init ==
    /\ player \in Players
    /\ inv = player.inv /\ eqp = player.eqp /\ wh = Empty(WhSlots)
    /\ cash = player.cash /\ ground = player.ground
    /\ alz = StartAlz /\ skills = [s \in SkillSlots |-> NoSkill]
    /\ db = [inv |-> inv, eqp |-> eqp, wh |-> wh, cash |-> cash, alz |-> alz,
             skills |-> skills]
    /\ up = TRUE
    /\ lock = [mutex \in {"inv", "eqp", "out", "ctx"} |-> Free]
    /\ call = [h \in Handlers |-> Idle]
    /\ lost = 0

----------------------------------------------------------------------------
(* Packets and calls. *)

\* A packet arrives.  context.Parse waits for Context.Mutex.
Receives(h, op) ==
    /\ call[h].at = "idle" /\ op \in player.packets /\ lock["ctx"] = Free
    /\ \A g \in Handlers \ {h} :
         call[g].at # "idle" => {op, call[g].op} \in Overlapping

\* c, a record of a goroutine, calls a method and goes on at ret.
Calling(c, m, ret) == [c EXCEPT !.at = "call", !.m = m, !.ret = ret]
\* c makes an RPC without holding a mutex.
Posting(c, m) == [c EXCEPT !.at = "rpc", !.m = m]

Becomes(h, c) == call' = [call EXCEPT ![h] = c]
Started(op) == [Idle EXCEPT !.op = op]

Command(cmd, slot) == [NoRequest EXCEPT !.cmd = cmd, !.slot = slot]
RemoveFrom(slot) == Command("RemoveItem", slot)
SetTo(slot, item) == [Command("AddItem", slot) EXCEPT !.item = item]
EquipTo(slot, item) == [Command("EquipItem", slot) EXCEPT !.item = item]
TakeOff(slot) == Command("UnEquipItem", slot)

\* Get waits for the mutex of the map it reads.
Readable(mutex) == lock[mutex] = Free

\* The last step of a handler that holds mutexOut or Context.Mutex.
Finish(h) ==
    /\ call[h].at = "end"
    /\ lock' = [mutex \in DOMAIN lock |-> IF lock[mutex] = h THEN Free ELSE lock[mutex]]
    /\ Becomes(h, Idle)
    /\ UNCHANGED <<maps, master, rest>>

----------------------------------------------------------------------------
(* StorageExchangeMove and StorageItemSwap, the cases of one call. *)

OneCall(h, op, m) ==
    /\ Receives(h, op)
    /\ Becomes(h, Calling(Started(op), m, "idle"))
    /\ UNCHANGED <<lock, maps, master, rest>>

ExchangeMoveInInventory(h, old, new) ==
    OneCall(h, "Move", [Command("MoveItem", old) EXCEPT !.to = new])
ExchangeMoveInEquipment(h, old, new) ==
    OneCall(h, "EqMove", [Command("MoveEquipmentItem", old) EXCEPT !.to = new])
ItemSwapInInventory(h, old, new) ==
    OneCall(h, "Swap", [Command("SwapItem", old) EXCEPT !.to = new])
ItemSwapInEquipment(h, old, new) ==
    OneCall(h, "EqSwap", [Command("SwapEquipmentItem", old) EXCEPT !.to = new])

----------------------------------------------------------------------------
(* EquipItem.  slot is the slot of the inventory, to that of the equipment. *)

ExchangeEquip(h, slot, to) ==
    /\ Receives(h, "Equip")
    /\ Becomes(h, [Started("Equip") EXCEPT !.at = "equip", !.slot = slot, !.to = to])
    /\ UNCHANGED <<lock, maps, master, rest>>

EquipItemRemove(h) ==
    LET c == call[h] IN
    /\ c.at = "equip" /\ lock["out"] = Free /\ Readable("inv") /\ Readable("eqp")
    /\ lock' = [lock EXCEPT !["out"] = h]
    /\ Becomes(h, IF eqp[c.to].kind = NoKind
                  THEN [Calling(c, RemoveFrom(c.slot), "equip.set") EXCEPT !.item = inv[c.slot]]
                  ELSE [c EXCEPT !.at = "end"])
    /\ UNCHANGED <<maps, master, rest>>

\* Mutant: the item is put on although taking it away has failed.
EquipItemSetUnchecked(h) ==
    LET c == call[h] IN
    /\ c.at = "equip.set"
    /\ Becomes(h, Calling(c, EquipTo(c.to, c.item), "equip.end"))
    /\ UNCHANGED <<lock, maps, master, rest>>

EquipItemSet(h) ==
    LET c == call[h] IN
    /\ c.at = "equip.set"
    /\ Becomes(h, IF c.ok THEN Calling(c, EquipTo(c.to, c.item), "equip.end")
                  ELSE [c EXCEPT !.at = "end"])
    /\ UNCHANGED <<lock, maps, master, rest>>

\* When the second half has failed the item is put back.
EquipItemRollback(h) ==
    LET c == call[h] IN
    /\ c.at = "equip.end"
    /\ Becomes(h, IF c.ok THEN [c EXCEPT !.at = "end"]
                  ELSE Calling(c, SetTo(c.slot, c.item), "end"))
    /\ UNCHANGED <<lock, maps, master, rest>>

----------------------------------------------------------------------------
(* UnEquipItem, and SwapEquipItem, which calls unEquipItem. *)

\* A request for an empty hand is one for the other hand.
ExchangeUnEquip(h, to, slot) ==
    LET other == {s \in Hands \ {to} : eqp[s].kind # NoKind}
        used == IF eqp[to].kind = NoKind /\ to \in Hands /\ other # {}
                THEN CHOOSE s \in other : TRUE ELSE to IN
    /\ Receives(h, "UnEquip") /\ Readable("eqp")
    /\ Becomes(h, [Started("UnEquip") EXCEPT !.at = "unequip", !.back = "idle",
                                             !.slot = slot, !.to = used])
    /\ UNCHANGED <<lock, maps, master, rest>>

UnEquipItemLock(h) ==
    /\ call[h].at = "unequip" /\ lock["out"] = Free
    /\ lock' = [lock EXCEPT !["out"] = h]
    /\ Becomes(h, [call[h] EXCEPT !.at = "unequip.remove"])
    /\ UNCHANGED <<maps, master, rest>>

\* Equip is read without its mutex.
UnEquipItemRemove(h) ==
    LET c == call[h] IN
    /\ c.at = "unequip.remove"
    /\ Becomes(h, IF eqp[c.to] # NoItem
                  THEN [Calling(c, TakeOff(c.to), "unequip.set") EXCEPT !.moved = eqp[c.to]]
                  ELSE [c EXCEPT !.at = "unequip.done", !.ok = FALSE])
    /\ UNCHANGED <<lock, maps, master, rest>>

UnEquipItemSet(h) ==
    LET c == call[h] IN
    /\ c.at = "unequip.set"
    /\ Becomes(h, IF c.ok THEN Calling(c, SetTo(c.slot, c.moved), "unequip.end")
                  ELSE [c EXCEPT !.at = "unequip.done"])
    /\ UNCHANGED <<lock, maps, master, rest>>

\* The rollback puts the item into the slot of the inventory that has the
\* number of the slot of the equipment.
UnEquipItemRollback(h) ==
    LET c == call[h] IN
    /\ c.at = "unequip.end"
    /\ Becomes(h, IF c.ok THEN [c EXCEPT !.at = "unequip.done"]
                  ELSE Calling(c, SetTo(c.to, c.moved), "unequip.failed"))
    /\ UNCHANGED <<lock, maps, master, rest>>

\* UnEquipItem unlocks mutexOut; the lock of SwapEquipItem stays.
UnEquipItemReturn(h) ==
    LET c == call[h] IN
    /\ c.at \in {"unequip.done", "unequip.failed"}
    /\ lock' = IF c.back = "swap.set" THEN lock ELSE [lock EXCEPT !["out"] = Free]
    /\ Becomes(h, IF c.back = "idle" THEN Idle
                  ELSE [c EXCEPT !.at = c.back, !.ok = c.ok /\ c.at = "unequip.done"])
    /\ UNCHANGED <<maps, master, rest>>

SwapEquipItem(h, slot, to) ==
    LET c == [Started("SwapEquip") EXCEPT !.slot = slot, !.to = to, !.item = inv[slot],
                                          !.back = "swap.set"] IN
    /\ Receives(h, "SwapEquip") /\ lock["out"] = Free /\ Readable("inv") /\ Readable("eqp")
    /\ eqp[to].kind # NoKind /\ inv[slot].kind # NoKind
    /\ lock' = [lock EXCEPT !["out"] = h]
    /\ Becomes(h, Calling(c, RemoveFrom(slot), "swap.unequip"))
    /\ UNCHANGED <<maps, master, rest>>

SwapEquipItemUnEquip(h) ==
    LET c == call[h] IN
    /\ c.at = "swap.unequip"
    /\ Becomes(h, [c EXCEPT !.at = IF c.ok THEN "unequip.remove" ELSE "end"])
    /\ UNCHANGED <<lock, maps, master, rest>>

\* Nothing is rolled back.
SwapEquipItemSet(h) ==
    LET c == call[h] IN
    /\ c.at = "swap.set"
    /\ Becomes(h, IF c.ok THEN Calling(c, EquipTo(c.to, c.item), "end")
                  ELSE [c EXCEPT !.at = "end"])
    /\ UNCHANGED <<lock, maps, master, rest>>

----------------------------------------------------------------------------
(* AccessoryEquip holds Context.Mutex during EquipAccessory. *)

FirstAccessory == Accessories[1]
LastAccessory == Accessories[Len(Accessories)]

AccessoryEquip(h, slot) ==
    /\ Receives(h, "Accessory")
    /\ lock' = [lock EXCEPT !["ctx"] = h]
    /\ Becomes(h, [Started("Accessory") EXCEPT !.at = "acc.first", !.slot = slot])
    /\ UNCHANGED <<maps, master, rest>>

EquipAccessory(h) ==
    LET c == call[h] IN
    /\ c.at = "acc.first" /\ Readable("inv") /\ Readable("eqp")
    /\ Becomes(h, IF eqp[FirstAccessory].kind = NoKind
                  THEN [c EXCEPT !.at = "equip", !.to = FirstAccessory]
                  ELSE [Calling(c, RemoveFrom(c.slot), "acc.last") EXCEPT !.item = inv[c.slot]])
    /\ UNCHANGED <<lock, maps, master, rest>>

EquipAccessoryLast(h) ==
    LET c == call[h] IN
    /\ c.at = "acc.last" /\ Readable("eqp")
    /\ Becomes(h, IF ~c.ok THEN [c EXCEPT !.at = "end"]
                  ELSE IF eqp[LastAccessory].kind # NoKind
                  THEN [c EXCEPT !.at = "unequip", !.to = LastAccessory, !.back = "acc.taken"]
                  ELSE [c EXCEPT !.at = "acc.shift", !.n = Len(Accessories) - 1])
    /\ UNCHANGED <<lock, maps, master, rest>>

EquipAccessoryTaken(h) ==
    LET c == call[h] IN
    /\ c.at = "acc.taken"
    /\ Becomes(h, IF c.ok THEN [c EXCEPT !.at = "acc.shift", !.n = Len(Accessories) - 1]
                  ELSE Calling(c, SetTo(c.slot, c.item), "end"))
    /\ UNCHANGED <<lock, maps, master, rest>>

\* The accessories move up one by one; what MoveItem returns is ignored.
EquipAccessoryShift(h) ==
    LET c == call[h]
        move == [Command("MoveEquipmentItem", Accessories[c.n]) EXCEPT !.to = Accessories[c.n + 1]]
    IN
    /\ c.at = "acc.shift"
    /\ Becomes(h, IF c.n > 0 THEN [Calling(c, move, "acc.shift") EXCEPT !.n = @ - 1]
                  ELSE Calling(c, EquipTo(FirstAccessory, c.item), "end"))
    /\ UNCHANGED <<lock, maps, master, rest>>

----------------------------------------------------------------------------
(* moveStorageItem: no mutex is held between the look and the update. *)

Storage(table) == IF table = "inv" THEN inv ELSE wh
Tables == {"inv", "wh"}

ExchangeMoveStorage(h, table, slot, target, to) ==
    LET here == table = target /\ slot = to
        m == [Command("StorageMove", slot) EXCEPT !.to = to, !.table = table, !.target = target]
    IN
    /\ Receives(h, "Storage") /\ Readable("inv")
    /\ "wh" \in {table, target}
    /\ slot \in DOMAIN Storage(table) /\ to \in DOMAIN Storage(target)
    /\ Storage(table)[slot].kind # NoKind
    /\ here \/ Storage(target)[to].kind = NoKind
    /\ Becomes(h, [Posting(Started("Storage"), m) EXCEPT !.moved = Storage(table)[slot]])
    /\ UNCHANGED <<lock, maps, master, rest>>

PutLocal(table, slot, item) ==
    IF table = "inv"
    THEN Readable("inv") /\ inv' = [inv EXCEPT ![slot] = item] /\ UNCHANGED wh
    ELSE wh' = [wh EXCEPT ![slot] = item] /\ UNCHANGED inv

MoveStorageRemoveLocal(h) ==
    LET m == call[h].m IN
    /\ Answered(h, "StorageMove")
    /\ IF Acked(h) /\ ~(m.table = m.target /\ m.slot = m.to)
       THEN PutLocal(m.table, m.slot, NoItem) /\ Becomes(h, [call[h] EXCEPT !.at = "storage.set"])
       ELSE UNCHANGED <<inv, wh>> /\ Becomes(h, Idle)
    /\ UNCHANGED <<lock, eqp, master, cash, alz, skills, ground>>

MoveStorageSetLocal(h) ==
    LET m == call[h].m IN
    /\ call[h].at = "storage.set"
    /\ PutLocal(m.target, m.to, call[h].moved)
    /\ Becomes(h, Idle)
    /\ UNCHANGED <<lock, eqp, master, cash, alz, skills, ground>>

----------------------------------------------------------------------------
(* QueryCashItem and UseCashItem. *)

QueryCashItem(h) ==
    /\ Receives(h, "QueryCash")
    /\ Becomes(h, Posting(Started("QueryCash"), Command("LoadCashInventory", 0)))
    /\ UNCHANGED <<lock, maps, master, rest>>

QueryCashItemDone(h) ==
    /\ Answered(h, "LoadCashInventory")
    /\ cash' = IF Acked(h) THEN call[h].list ELSE cash
    /\ Becomes(h, Idle)
    /\ UNCHANGED <<lock, maps, master, wh, alz, skills, ground>>

UseCash(h, id, slot) ==
    LET m == [Command("UseCashItem", slot) EXCEPT !.to = id, !.item = cash[id]] IN
    /\ Receives(h, "UseCash") /\ Readable("inv")
    /\ cash[id] # NoItem /\ inv[slot].kind = NoKind
    /\ Becomes(h, Posting(Started("UseCash"), m))
    /\ UNCHANGED <<lock, maps, master, rest>>

UseCashSetLocal(h) ==
    LET m == call[h].m IN
    /\ Answered(h, "UseCashItem")
    /\ IF Acked(h) THEN PutLocal("inv", m.slot, m.item) ELSE UNCHANGED <<inv, wh>>
    /\ Becomes(h, IF Acked(h) THEN [call[h] EXCEPT !.at = "cash.remove"] ELSE Idle)
    /\ UNCHANGED <<lock, eqp, master, cash, alz, skills, ground>>

UseCashRemove(h) ==
    /\ call[h].at = "cash.remove"
    /\ cash' = [cash EXCEPT ![call[h].m.to] = NoItem]
    /\ Becomes(h, Idle)
    /\ UNCHANGED <<lock, maps, master, wh, alz, skills, ground>>

----------------------------------------------------------------------------
(* StorageItemDrop, ItemLooting and the items on the ground. *)

With(f, x, y) == [z \in DOMAIN f \cup {x} |-> IF z = x THEN y ELSE f[z]]
Without(f, x) == [y \in DOMAIN f \ {x} |-> f[y]]

StorageItemDrop(h, slot) ==
    /\ Receives(h, "Drop") /\ Readable("inv")
    /\ Becomes(h, [Calling(Started("Drop"), RemoveFrom(slot), "drop.count")
                     EXCEPT !.item = inv[slot]])
    /\ UNCHANGED <<lock, maps, master, rest>>

\* dropItem: the id is one more than the number of items that lie around.
DropItemCount(h) ==
    LET c == call[h] IN
    /\ c.at = "drop.count"
    /\ Becomes(h, IF c.ok THEN [c EXCEPT !.at = "drop.add", !.n = Cardinality(DOMAIN ground) + 1]
                  ELSE Idle)
    /\ UNCHANGED <<lock, maps, master, rest>>

\* An item that has the id already is lost.
DropItemAdd(h) ==
    LET c == call[h] IN
    /\ c.at = "drop.add"
    /\ ground' = With(ground, c.n, c.item)
    /\ Becomes(h, Idle)
    /\ UNCHANGED <<lock, maps, master, wh, cash, alz, skills>>

\* Cell.Schedule.
ItemExpires(id) ==
    /\ id \in DOMAIN ground
    /\ ground' = Without(ground, id)
    /\ UNCHANGED <<call, lock, maps, master, wh, cash, alz, skills>>

\* The handler looks at the slot and, with PeekItem, at the ground.  c.ok: the
\* item goes onto the stack in the slot, which then has c.item.opt units.
ItemLooting(h, id, slot) ==
    LET stacked == inv[slot].kind # NoKind /\ inv[slot].kind = ground[id].kind
        c == [Started("Loot") EXCEPT !.at = "loot.find", !.to = id, !.slot = slot, !.ok = stacked]
    IN
    /\ Receives(h, "Loot") /\ Readable("inv") /\ id \in DOMAIN ground
    /\ stacked \/ inv[slot].kind = NoKind
    /\ Becomes(h, IF stacked THEN [c EXCEPT !.n = inv[slot].opt + ground[id].opt] ELSE c)
    /\ UNCHANGED <<lock, maps, master, rest>>

\* PickItem finds the item and removes what has its id in another step.
PickItemFind(h) ==
    LET c == call[h] IN
    /\ c.at = "loot.find"
    /\ Becomes(h, IF c.to \in DOMAIN ground
                  THEN [c EXCEPT !.at = "loot.take", !.item = ground[c.to]]
                  ELSE Idle)
    /\ UNCHANGED <<lock, maps, master, rest>>

PickItemTake(h) ==
    LET c == call[h] IN
    /\ c.at = "loot.take"
    /\ ground' = Without(ground, c.to)
    /\ Becomes(h, IF c.ok THEN [c EXCEPT !.at = "loot.stack"]
                  ELSE Calling(c, SetTo(c.slot, c.item), "idle"))
    /\ UNCHANGED <<lock, maps, master, wh, cash, alz, skills>>

\* Inventory.Stack reads the slot before it takes the mutex.
LootStack(h) ==
    LET c == call[h]
        m == [Command("StackItem", c.slot) EXCEPT !.item = [inv[c.slot] EXCEPT !.opt = c.n]] IN
    /\ c.at = "loot.stack" /\ Readable("inv")
    /\ Becomes(h, Calling(c, m, "idle"))
    /\ UNCHANGED <<lock, maps, master, rest>>

----------------------------------------------------------------------------
(* ItemSelling, ItemBuyings and BuySkillBook. *)

\* FindItemSellValue; zero when the item cannot be sold.
SellValue(item) ==
    IF item.kind.base \in DOMAIN SellPrice
    THEN SellPrice[item.kind.base] * (IF item.kind.base \in Counted THEN item.opt ELSE 1)
    ELSE 0

ItemSelling(h, slots) ==
    LET items == {At(s, inv[s]) : s \in slots}
        price == MapThenSumSet(LAMBDA p : SellValue(p.item), items)
        m == [Command("SellItems", 0) EXCEPT !.cores = items, !.price = price] IN
    /\ Receives(h, "Sell") /\ Readable("inv")
    /\ \A p \in items : SellValue(p.item) > 0
    /\ AlzLimit - alz >= price
    /\ Becomes(h, [Calling(Started("Sell"), m, "shop") EXCEPT !.seen = items])
    /\ UNCHANGED <<lock, maps, master, rest>>

ItemBuyings(h, item, slot) ==
    LET m == [Command("PurchaseItem", slot) EXCEPT !.item = item, !.price = BuyPrice[item.kind.base]]
    IN
    /\ Receives(h, "Buy")
    /\ Becomes(h, Calling(Started("Buy"), m, "shop"))
    /\ UNCHANGED <<lock, maps, master, rest>>

ShopDone(h) ==
    LET c == call[h] IN
    /\ c.at = "shop" /\ (c.ok => lock["ctx"] = Free)
    /\ alz' = IF c.ok THEN c.alz ELSE alz
    /\ Becomes(h, Idle)
    /\ UNCHANGED <<lock, maps, master, wh, cash, skills, ground>>

----------------------------------------------------------------------------
(* ItemUsing: potions (whether mana is full or the potion cools down is left *)
(* open, and so is what a potion does) and skill books.                      *)

UseManaPotion(h, slot) ==
    /\ Receives(h, "Potion") /\ Readable("inv")
    /\ inv[slot].kind.base \in Potions /\ inv[slot].opt > 0
    /\ Becomes(h, Calling(Started("Potion"), Command("ConsumeItem", slot), "idle"))
    /\ UNCHANGED <<lock, maps, master, rest>>

UseSkillBook(h, slot) ==
    LET kind == inv[slot].kind
        free == {s \in SkillSlots : skills[s] = NoSkill}
        m == [Command("LearnSkill", slot) EXCEPT !.item = [NoItem EXCEPT !.kind = kind],
                                                 !.to = CHOOSE s \in free : \A t \in free : s <= t]
    IN
    /\ Receives(h, "Book") /\ Readable("inv")
    /\ kind.base \in Books /\ kind = Kind(kind.base)
    /\ \A s \in SkillSlots : skills[s] # kind.base
    /\ free # {}
    /\ Becomes(h, Calling(Started("Book"), m, "learn"))
    /\ UNCHANGED <<lock, maps, master, rest>>

SkillLearned(h) ==
    LET c == call[h] IN
    /\ c.at = "learn" /\ (c.ok => lock["ctx"] = Free)
    /\ skills' = IF c.ok THEN [skills EXCEPT ![c.m.to] = c.m.item.kind.base] ELSE skills
    /\ Becomes(h, Idle)
    /\ UNCHANGED <<lock, maps, master, wh, cash, alz, ground>>

----------------------------------------------------------------------------
(* EnchantCore, UpgradeCoreEnchant and ItemAttach.  The option of an item   *)
(* with slots packs their number and how many of them are used.             *)

OptionSlots(opt) == opt \div 16
ForceCoreHasRoom(opt) == opt % 16 < OptionSlots(opt)

EnchantCore(h, target, scrolls, cores) ==
    LET Seen(slots) == {At(s, inv[s]) : s \in slots}
        item == inv[target]
        m(success) == [Command("ForceCoreEnchant", target) EXCEPT
                         !.item = item, !.cores = Seen(cores), !.others = Seen(scrolls),
                         !.new = IF success THEN [item EXCEPT !.opt = @ + 1] ELSE item]
    IN
    /\ Receives(h, "ForceCore") /\ Readable("inv")
    /\ cores # {} /\ scrolls # {} /\ Cardinality(scrolls) <= 2 /\ Cardinality(cores) <= MaxCores
    /\ cores \cap scrolls = {} /\ target \notin cores \cup scrolls
    /\ \A s \in cores \cup scrolls : inv[s].kind # NoKind
    /\ item.kind.base \in Enchantable /\ ForceCoreHasRoom(item.opt)
    /\ \E success \in BOOLEAN :
         Becomes(h, [Calling(Started("ForceCore"), m(success), "idle")
                       EXCEPT !.seen = Seen(cores \cup scrolls \cup {target})])
    /\ UNCHANGED <<lock, maps, master, rest>>

UpgradeCoreEnchant(h, target, cores) ==
    LET kind == nextEnchantKind(inv[target].kind)
        m == [Command("EnchantItem", target) EXCEPT !.new = [NoItem EXCEPT !.kind = kind],
                                                    !.cores = {At(s, NoItem) : s \in cores}] IN
    /\ Receives(h, "Upgrade") /\ Readable("inv")
    /\ cores # {} /\ Cardinality(cores) <= MaxCores
    /\ kind # NoKind
    /\ Becomes(h, Calling(Started("Upgrade"), m, "idle"))
    /\ UNCHANGED <<lock, maps, master, rest>>

FindArmorBinderResult(source, target) ==
    {row[3] : row \in {r \in ArmorBinder : r[1] = source.kind.base /\ r[2] = target.kind.base}}

\* The items that ItemAttach may make of the target; none when it refuses.
\* applySlotExtender also refuses sealed kinds and allows an epic option one
\* slot less; Players have neither.
Attached(source, target) ==
    LET bound == FindArmorBinderResult(source, target) IN
    IF bound # {} THEN {[target EXCEPT !.kind.base = base] : base \in bound}
    ELSE IF /\ source.kind.base \in Extenders /\ target.kind.base \in Extendable
            /\ ~target.kind.bound /\ OptionSlots(target.opt) < MaxOptionSlots
    THEN {[target EXCEPT !.kind.bound = TRUE, !.opt = @ + 16]}
    ELSE {}

ItemAttach(h, source, target) ==
    /\ Receives(h, "Attach") /\ Readable("inv") /\ source # target
    /\ \E new \in Attached(inv[source], inv[target]) :
         LET m == [Command("AttachItem", target) EXCEPT !.new = new, !.others = {At(source, NoItem)}]
         IN Becomes(h, [Calling(Started("Attach"), m, "idle")
                          EXCEPT !.seen = {At(source, inv[source]), At(target, inv[target])}])
    /\ UNCHANGED <<lock, maps, master, rest>>

----------------------------------------------------------------------------
(* The client sees its inventory: the slots it names for scrolls and cores   *)
(* hold such items when the packet is read.                                  *)

SlotsOf(bases) == {s \in Slots : inv[s].kind.base \in bases}

Packet(h) ==
    /\ {op \in player.packets : Receives(h, op)} # {}
    /\ \/ \E old, new \in player.slots : \/ ExchangeMoveInInventory(h, old, new)
                                         \/ ItemSwapInInventory(h, old, new)
       \/ \E old, new \in player.worn : \/ ExchangeMoveInEquipment(h, old, new)
                                        \/ ItemSwapInEquipment(h, old, new)
       \/ \E slot \in player.slots, to \in player.worn : \/ ExchangeEquip(h, slot, to)
                                                         \/ ExchangeUnEquip(h, to, slot)
                                                         \/ SwapEquipItem(h, slot, to)
       \/ \E slot \in player.slots : \/ AccessoryEquip(h, slot) \/ StorageItemDrop(h, slot)
                                     \/ UseManaPotion(h, slot) \/ UseSkillBook(h, slot)
       \/ \E slot, to \in player.slots \cup WhSlots, table, target \in Tables :
            ExchangeMoveStorage(h, table, slot, target, to)
       \/ QueryCashItem(h)
       \/ \E id \in CashIds, slot \in player.slots : UseCash(h, id, slot)
       \/ \E id \in DOMAIN ground, slot \in player.slots : ItemLooting(h, id, slot)
       \/ \E slots \in SUBSET SlotsOf(DOMAIN SellPrice) : ItemSelling(h, slots)
       \/ \E item \in Stock, slot \in player.slots : ItemBuyings(h, item, slot)
       \/ \E target \in player.slots :
            \/ \E scrolls \in SUBSET SlotsOf(Scrolls), cores \in SUBSET SlotsOf(Cores) :
                 EnchantCore(h, target, scrolls, cores)
            \/ \E cores \in SUBSET SlotsOf(Cores) : UpgradeCoreEnchant(h, target, cores)
            \/ \E source \in player.slots : ItemAttach(h, source, target)

Step(h) ==
    \/ EquipItemRemove(h) \/ EquipItemSet(h) \/ EquipItemRollback(h)
    \/ UnEquipItemLock(h) \/ UnEquipItemRemove(h) \/ UnEquipItemSet(h)
    \/ UnEquipItemRollback(h) \/ UnEquipItemReturn(h)
    \/ SwapEquipItemUnEquip(h) \/ SwapEquipItemSet(h)
    \/ EquipAccessory(h) \/ EquipAccessoryLast(h) \/ EquipAccessoryTaken(h)
    \/ EquipAccessoryShift(h)
    \/ MoveStorageRemoveLocal(h) \/ MoveStorageSetLocal(h)
    \/ QueryCashItemDone(h) \/ UseCashSetLocal(h) \/ UseCashRemove(h)
    \/ DropItemCount(h) \/ DropItemAdd(h)
    \/ PickItemFind(h) \/ PickItemTake(h) \/ LootStack(h)
    \/ ShopDone(h) \/ SkillLearned(h)
    \/ Finish(h)

Act ==
    \/ (\E h \in Handlers : Packet(h) \/ Step(h)) /\ UNCHANGED player
    \/ (\E h \in Handlers : Methods(h)) /\ UNCHANGED <<rest, player>>
    \/ Master /\ UNCHANGED <<inv, eqp, lock, rest, player>>
    \/ (\E id \in DOMAIN ground : ItemExpires(id)) /\ UNCHANGED player

\* A handler is told that its call failed, and the tables have changed.
LosesAnswer ==
    \E h \in Handlers : /\ call[h].at = "reply" /\ call[h].res = "ok"
                        /\ call'[h].at = "reply" /\ call'[h].res = "err"

Next == Act /\ lost' = lost + (IF LosesAnswer THEN 1 ELSE 0) /\ lost' =< MaxLost

Spec == Init /\ [][Next]_vars

----------------------------------------------------------------------------
(* Properties. *)

\* The tables and maps hold items, nobody's Alz is below zero or above what an
\* uint64 holds (AlzLimit), and a lock is held by a goroutine or free.
TypeOK ==
    /\ inv \in [Slots -> Items] /\ eqp \in [EqSlots -> Items] /\ wh \in [WhSlots -> Items]
    /\ cash \in [CashIds -> Items]
    /\ db.inv \in [Slots -> Items] /\ db.eqp \in [EqSlots -> Items] /\ db.wh \in [WhSlots -> Items]
    /\ db.cash \in [CashIds -> Items]
    /\ {alz, db.alz} \subseteq 0..AlzLimit
    /\ \A id \in DOMAIN ground : ground[id] \in Items
    /\ lock \in [{"inv", "eqp", "out", "ctx"} -> Handlers \cup {Free}]
    /\ up \in BOOLEAN

\* A handler that has made the master change the tables without holding a
\* mutex has yet to change the maps.
LocalDue(h) ==
    \/ call[h].at \in {"storage.set", "cash.remove"}
    \/ call[h].at = "reply" /\ call[h].res = "ok" /\ call[h].m.cmd \in {"StorageMove", "UseCashItem"}
\* It has changed the tables and has yet to change the character.
CharDue(h) ==
    \/ call[h].at \in {"shop", "learn"} /\ call[h].ok
    \/ call[h].at = "reply" /\ call[h].res = "ok"

\* As long as no answer of a transaction that committed is lost: whenever the
\* mutex of a map is free, and no update of it is under way, the map is what the
\* tables hold.  An operation that the master refuses, or that fails before it
\* got there, or is overtaken by another one, at the game server or at the
\* master, changes both or neither (sync of inventory.go and equipment.go, the
\* rollbacks, SetLocal).  A lost answer leaves the map behind the table: sync
\* cannot tell it from a call that never arrived.
MapsFollowTables == lost = 0 =>
    /\ lock["inv"] = Free /\ (\A h \in Handlers : ~LocalDue(h)) => inv = db.inv
    /\ lock["eqp"] = Free => eqp = db.eqp
    /\ (\A h \in Handlers : ~LocalDue(h)) => wh = db.wh /\ cash = db.cash
    /\ (\A h \in Handlers : ~CharDue(h)) => alz = db.alz /\ skills = db.skills

\* Places of the rows and of the items on the ground that hold a serial.
Places(serials) ==
    Cardinality({s \in Slots : db.inv[s].serials = serials})
      + Cardinality({s \in EqSlots : db.eqp[s].serials = serials})
      + Cardinality({s \in WhSlots : db.wh[s].serials = serials})
      + Cardinality({id \in DOMAIN ground : ground[id].serials = serials})

Serials == {db.inv[s].serials : s \in Slots} \cup {db.eqp[s].serials : s \in EqSlots}
             \cup {db.wh[s].serials : s \in WhSlots} \cup {ground[id].serials : id \in DOMAIN ground}

\* As long as no answer of a transaction that committed is lost: no order of
\* equipping, unequipping, swapping, dropping and looting, with calls that fail
\* and are rolled back, makes two of one item (mutexOut of equipment.go, "used
\* for multi-transaction operations").  The rollback of EquipItem after a lost
\* answer does make two.
ItemOnce == lost = 0 => \A serials \in Serials \ {0} : Places(serials) = 1

\* The rows a command has seen are the ones it spends.
SpendsWhatItSaw(commands) ==
    \A h \in Handlers :
      call[h].at = "rpc" /\ call[h].m.cmd \in commands
        /\ call'[h].at = "reply" /\ call'[h].res = "ok"
      => \A p \in call[h].seen : db.inv[p.slot] = p.item

\* A force core enchantment or a sale spends the very items its handler has
\* read, whatever other handlers do before it has the mutex (forcecore.go: "so
\* a stale packet cannot spend another item's materials").
NoStaleSpending == [][SpendsWhatItSaw({"ForceCoreEnchant", "SellItems"})]_vars

\* Two books read at the same time do not teach one skill twice, and no skill
\* replaces another one (ItemUsing and LearnSkill of the master).
SkillOnce ==
    /\ \A s, t \in SkillSlots : db.skills[s] = db.skills[t] /\ s # t => db.skills[s] = NoSkill
    /\ \A h \in Handlers : CharDue(h) /\ call[h].op = "Book" => skills[call[h].m.to] = NoSkill

\* rpc/attach.go says "a stale client packet cannot consume or transform a
\* newer item".
NoStaleAttach == [][SpendsWhatItSaw({"AttachItem"})]_vars

\* What counts units is gone when the last unit is (ConsumeOne: "The item is
\* deleted when its remaining option reaches zero").
SpentIsGone == \A s \in Slots : db.inv[s].kind.base \in Counted => db.inv[s].opt > 0
=============================================================================

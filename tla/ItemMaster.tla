----------------------------- MODULE ItemMaster -----------------------------
(***************************************************************************)
(* The item tables of one character in the World database and the RPC      *)
(* handlers of the master server that change them                          *)
(* (cmd/masterserver/rpc/inventory.go, enchant.go, attach.go, forcecore.go,*)
(* cash_inventory.go and LearnSkill of skill.go).  Each handler is one     *)
(* transaction.  The game server's handlers are in ItemHandlers, the maps  *)
(* it keeps in Inventory.                                                  *)
(*                                                                         *)
(* An INSERT or UPDATE that meets the primary key (id, slot) makes         *)
(* MustExec panic.  Nothing recovers a panic in the goroutine of an RPC    *)
(* handler: the master ends, and every call in flight fails.               *)
(***************************************************************************)
EXTENDS Integers, FiniteSets

CONSTANTS
    Handlers,       \* goroutines of the game server that run for the character
    Slots,          \* slot numbers; the numbers of the equipment are among them
    EqSlots, WhSlots, CashIds, SkillSlots,
    Bases,          \* item kinds without level and ownership; skills have the names of books
    MaxUpgradeLevel, AlzLimit

ASSUME SlotsAssumption ==
    EqSlots \subseteq Slots /\ Slots \subseteq Nat /\ SkillSlots \subseteq Nat
ASSUME LimitsAssumption == MaxUpgradeLevel \in Nat /\ AlzLimit \in Nat
ASSUME BasesAssumption == "none" \in Bases

VARIABLES
    db,             \* rows of the tables
    up,             \* the master answers
    call            \* what each goroutine is doing

\* inventory.Item without its slot, which is the key it is stored under.  The
\* upgrade level and the ownership bit are parts of the kind; serials stands
\* for what else tells items apart.
Kind(base) == [base |-> base, level |-> 0, bound |-> FALSE]
NoKind == Kind("none")
Item(base, serials, opt) == [kind |-> Kind(base), serials |-> serials, opt |-> opt]
NoItem == [kind |-> NoKind, serials |-> 0, opt |-> 0]
Kinds == [base : Bases, level : 0..MaxUpgradeLevel, bound : BOOLEAN]
Items == [kind : Kinds, serials : Nat, opt : Nat]
NoSkill == "none"

\* A request: the fields a command does not use have these values.
NoRequest ==
    [cmd |-> "none", slot |-> 0, to |-> 0, item |-> NoItem, new |-> NoItem,
     cores |-> {}, others |-> {}, price |-> 0, table |-> "inv", target |-> "inv"]

----------------------------------------------------------------------------
(* Shared by the commands. *)

Request(h, cmd) == up /\ call[h].at = "rpc" /\ call[h].m.cmd = cmd

\* The answer of the master: res is "ok", "no" (Result is false) or "err".
Reply(h, res) == call' = [call EXCEPT ![h].at = "reply", ![h].res = res]

\* What is stored together with its slot, as requests carry it.
At(slot, item) == [slot |-> slot, item |-> item]
Stored(p) == db.inv[p.slot] = p.item
Deleted(rows, slots) == [s \in Slots |-> IF s \in slots THEN NoItem ELSE rows[s]]

\* The transaction ends with Result false and without any change.
Refused(h) == Reply(h, "no") /\ UNCHANGED <<db, up>>

----------------------------------------------------------------------------
(* Panics and lost calls. *)

\* The requests MustExec panics on.
Collides(m) ==
    \/ m.cmd = "AddItem" /\ db.inv[m.slot] # NoItem
    \/ m.cmd = "EquipItem" /\ db.eqp[m.slot] # NoItem
    \/ m.cmd = "MoveItem" /\ db.inv[m.slot] # NoItem /\ db.inv[m.to] # NoItem
    \/ m.cmd = "MoveEquipmentItem" /\ db.eqp[m.slot] # NoItem /\ db.eqp[m.to] # NoItem

\* All calls in flight fail; an answer under way may have arrived or not.
MasterPanics(h) ==
    /\ up /\ call[h].at = "rpc" /\ Collides(call[h].m)
    /\ up' = FALSE
    /\ \E lost \in SUBSET {g \in Handlers : call[g].at = "reply"} :
         call' = [g \in Handlers |->
                    IF g \in lost \/ call[g].at = "rpc"
                    THEN [call[g] EXCEPT !.at = "reply", !.res = "err"]
                    ELSE call[g]]
    /\ UNCHANGED db

MasterRestarts == ~up /\ up' = TRUE /\ UNCHANGED <<db, call>>

\* A call fails before it has reached the master.
CallFails(h) ==
    /\ call[h].at = "rpc"
    /\ Reply(h, "err")
    /\ UNCHANGED <<db, up>>

\* The connection breaks when the transaction is over and its answer is not there
\* yet: readLoop fails the calls that are pending.
AnswerLost(h) ==
    /\ call[h].at = "reply" /\ call[h].res # "err"
    /\ Reply(h, "err")
    /\ UNCHANGED <<db, up>>

----------------------------------------------------------------------------
(* rpc/inventory.go *)

AddItem(h) ==
    LET m == call[h].m IN
    /\ Request(h, "AddItem") /\ ~Collides(m)
    /\ db' = [db EXCEPT !.inv[m.slot] = m.item]
    /\ Reply(h, "ok") /\ UNCHANGED up

RemoveItem(h) ==
    LET m == call[h].m IN
    /\ Request(h, "RemoveItem")
    /\ db' = [db EXCEPT !.inv[m.slot] = NoItem]
    /\ Reply(h, "ok") /\ UNCHANGED up

MoveItem(h) ==
    LET m == call[h].m IN
    /\ Request(h, "MoveItem") /\ ~Collides(m)
    /\ db' = IF db.inv[m.slot] = NoItem THEN db
             ELSE [db EXCEPT !.inv[m.to] = db.inv[m.slot], !.inv[m.slot] = NoItem]
    /\ Reply(h, "ok") /\ UNCHANGED up

\* Three updates through a temporary slot; either row may be missing.
SwapItem(h) ==
    LET m == call[h].m IN
    /\ Request(h, "SwapItem")
    /\ db' = [db EXCEPT !.inv[m.slot] = db.inv[m.to], !.inv[m.to] = db.inv[m.slot]]
    /\ Reply(h, "ok") /\ UNCHANGED up

\* The rows are selected by the kind, not by the slot.
StackItem(h) ==
    LET m == call[h].m IN
    /\ Request(h, "StackItem")
    /\ db' = [db EXCEPT !.inv = [s \in Slots |->
                IF @[s] # NoItem /\ @[s].kind = m.item.kind
                THEN [@[s] EXCEPT !.opt = m.item.opt] ELSE @[s]]]
    /\ Reply(h, "ok") /\ UNCHANGED up

ConsumeItem(h) ==
    LET m == call[h].m IN
    /\ Request(h, "ConsumeItem")
    /\ IF Stored(At(m.slot, m.item)) /\ m.item.opt > 0
       THEN /\ db' = [db EXCEPT !.inv[m.slot] =
                        IF m.item.opt = 1 THEN NoItem ELSE [m.item EXCEPT !.opt = @ - 1]]
            /\ Reply(h, "ok") /\ UNCHANGED up
       ELSE Refused(h)

PurchaseItem(h) ==
    LET m == call[h].m IN
    /\ Request(h, "PurchaseItem")
    /\ IF m.price > 0 /\ m.item.kind # NoKind /\ db.alz >= m.price /\ db.inv[m.slot] = NoItem
       THEN /\ db' = [db EXCEPT !.inv[m.slot] = m.item, !.alz = @ - m.price]
            /\ call' = [call EXCEPT ![h].at = "reply", ![h].res = "ok",
                                    ![h].alz = db.alz - m.price]
            /\ UNCHANGED up
       ELSE Refused(h)

SellItems(h) ==
    LET m == call[h].m IN
    /\ Request(h, "SellItems")
    /\ IF m.price > 0 /\ m.cores # {} /\ AlzLimit - db.alz >= m.price
          /\ \A p \in m.cores : p.item.kind # NoKind /\ Stored(p)
       THEN /\ db' = [db EXCEPT !.inv = Deleted(@, {p.slot : p \in m.cores}),
                                !.alz = @ + m.price]
            /\ call' = [call EXCEPT ![h].at = "reply", ![h].res = "ok",
                                    ![h].alz = db.alz + m.price]
            /\ UNCHANGED up
       ELSE Refused(h)

EquipItem(h) ==
    LET m == call[h].m IN
    /\ Request(h, "EquipItem") /\ ~Collides(m)
    /\ db' = [db EXCEPT !.eqp[m.slot] = m.item]
    /\ Reply(h, "ok") /\ UNCHANGED up

UnEquipItem(h) ==
    LET m == call[h].m IN
    /\ Request(h, "UnEquipItem")
    /\ db' = [db EXCEPT !.eqp[m.slot] = NoItem]
    /\ Reply(h, IF db.eqp[m.slot] = NoItem THEN "err" ELSE "ok") /\ UNCHANGED up

SwapEquipmentItem(h) ==
    LET m == call[h].m IN
    /\ Request(h, "SwapEquipmentItem")
    /\ db' = [db EXCEPT !.eqp[m.slot] = db.eqp[m.to], !.eqp[m.to] = db.eqp[m.slot]]
    /\ Reply(h, "ok") /\ UNCHANGED up

MoveEquipmentItem(h) ==
    LET m == call[h].m IN
    /\ Request(h, "MoveEquipmentItem") /\ ~Collides(m)
    /\ IF db.eqp[m.slot] = NoItem THEN Reply(h, "err") /\ UNCHANGED <<db, up>>
       ELSE /\ db' = [db EXCEPT !.eqp[m.to] = db.eqp[m.slot], !.eqp[m.slot] = NoItem]
            /\ Reply(h, "ok") /\ UNCHANGED up

\* The row moved is the one the table holds, whatever the caller has seen.
StorageMove(h) ==
    LET m == call[h].m
        row == db[m.table][m.slot] IN
    /\ Request(h, "StorageMove")
    /\ IF m.table = m.target /\ m.slot = m.to THEN Reply(h, "ok") /\ UNCHANGED <<db, up>>
       ELSE IF row # NoItem /\ db[m.target][m.to] = NoItem
       THEN /\ db' = [[db EXCEPT ![m.table][m.slot] = NoItem] EXCEPT ![m.target][m.to] = row]
            /\ Reply(h, "ok") /\ UNCHANGED up
       ELSE Refused(h)

----------------------------------------------------------------------------
(* rpc/enchant.go, attach.go, forcecore.go, cash_inventory.go, skill.go *)

\* nextEnchantKind; NoKind when the level is at its limit.
nextEnchantKind(kind) ==
    IF kind = NoKind \/ kind.level >= MaxUpgradeLevel THEN NoKind
    ELSE [kind EXCEPT !.level = @ + 1]

EnchantItem(h) ==
    LET m == call[h].m IN
    /\ Request(h, "EnchantItem")
    /\ IF /\ m.new.kind # NoKind /\ m.new.kind = nextEnchantKind(m.item.kind)
          /\ m.cores # {} /\ Stored(At(m.slot, m.item))
          /\ \A p \in m.cores : p.item.kind # NoKind /\ p.slot # m.slot /\ Stored(p)
       THEN /\ db' = [db EXCEPT !.inv = [Deleted(@, {p.slot : p \in m.cores}) EXCEPT
                                           ![m.slot] = [m.item EXCEPT !.kind = m.new.kind]]]
            /\ Reply(h, "ok") /\ UNCHANGED up
       ELSE Refused(h)

\* The source, in m.others, is consumed; the target, at m.slot, becomes m.new.
AttachItem(h) ==
    LET m == call[h].m IN
    /\ Request(h, "AttachItem")
    /\ IF /\ m.item.kind # NoKind /\ m.new.kind # NoKind /\ m.new.serials = m.item.serials
          /\ Stored(At(m.slot, m.item))
          /\ \A p \in m.others : p.item.kind # NoKind /\ p.slot # m.slot /\ Stored(p)
       THEN /\ db' = [db EXCEPT !.inv = [Deleted(@, {p.slot : p \in m.others}) EXCEPT
                                           ![m.slot] = m.new]]
            /\ Reply(h, "ok") /\ UNCHANGED up
       ELSE Refused(h)

\* The scrolls are in m.others.  One whose count reaches zero keeps its row.
ForceCoreEnchant(h) ==
    LET m == call[h].m
        used == m.cores \cup m.others
        Spend(s) == LET p == CHOOSE q \in m.others : q.slot = s IN
                    IF p.item.opt > 0 THEN [p.item EXCEPT !.opt = @ - 1] ELSE NoItem IN
    /\ Request(h, "ForceCoreEnchant")
    /\ IF /\ m.item.kind # NoKind /\ m.new.kind = m.item.kind
          /\ m.new.serials = m.item.serials /\ m.cores # {}
          /\ Stored(At(m.slot, m.item))
          /\ \A p \in used : /\ p.item.kind # NoKind /\ p.slot # m.slot /\ Stored(p)
                            /\ \A q \in used : q.slot = p.slot => q = p
          /\ m.cores \cap m.others = {}
       THEN /\ db' = [db EXCEPT !.inv = [s \in Slots |->
                        IF s = m.slot THEN m.new
                        ELSE IF \E p \in m.cores : p.slot = s THEN NoItem
                        ELSE IF \E p \in m.others : p.slot = s THEN Spend(s) ELSE @[s]]]
            /\ Reply(h, "ok") /\ UNCHANGED up
       ELSE Refused(h)

LoadCashInventory(h) ==
    /\ Request(h, "LoadCashInventory")
    /\ call' = [call EXCEPT ![h].at = "reply", ![h].res = "ok", ![h].list = db.cash]
    /\ UNCHANGED <<db, up>>

\* m.to is the id of the cash item.
UseCashItem(h) ==
    LET m == call[h].m IN
    /\ Request(h, "UseCashItem")
    /\ IF m.item # NoItem /\ db.cash[m.to] = m.item /\ db.inv[m.slot] = NoItem
       THEN /\ db' = [db EXCEPT !.inv[m.slot] = m.item, !.cash[m.to] = NoItem]
            /\ Reply(h, "ok") /\ UNCHANGED up
       ELSE Refused(h)

\* Mutant: the row is inserted without looking for the skill or the slot.
LearnSkillUnchecked(h) ==
    LET m == call[h].m IN
    /\ Request(h, "LearnSkill")
    /\ IF db.inv[m.slot] # NoItem /\ db.inv[m.slot].kind = m.item.kind
       THEN /\ db' = [db EXCEPT !.inv[m.slot] = NoItem, !.skills[m.to] = m.item.kind.base]
            /\ Reply(h, "ok") /\ UNCHANGED up
       ELSE Refused(h)

\* A book teaches the skill named like it; m.to is the skill slot.
LearnSkill(h) ==
    LET m == call[h].m
        skill == m.item.kind.base IN
    /\ Request(h, "LearnSkill")
    /\ IF /\ db.inv[m.slot] # NoItem /\ db.inv[m.slot].kind = m.item.kind
          /\ db.skills[m.to] = NoSkill /\ \A s \in SkillSlots : db.skills[s] # skill
       THEN /\ db' = [db EXCEPT !.inv[m.slot] = NoItem, !.skills[m.to] = skill]
            /\ Reply(h, "ok") /\ UNCHANGED up
       ELSE Refused(h)

Master ==
    \/ MasterRestarts
    \/ \E h \in Handlers :
         \/ MasterPanics(h) \/ CallFails(h) \/ AnswerLost(h)
         \/ AddItem(h) \/ RemoveItem(h) \/ MoveItem(h) \/ SwapItem(h) \/ StackItem(h)
         \/ ConsumeItem(h) \/ PurchaseItem(h) \/ SellItems(h)
         \/ EquipItem(h) \/ UnEquipItem(h) \/ SwapEquipmentItem(h) \/ MoveEquipmentItem(h)
         \/ StorageMove(h) \/ EnchantItem(h) \/ AttachItem(h) \/ ForceCoreEnchant(h)
         \/ LoadCashInventory(h) \/ UseCashItem(h) \/ LearnSkill(h)
=============================================================================

------------------------------ MODULE MCItems ------------------------------
EXTENDS ItemHandlers, TLC

CONSTANTS h1, h2

MCBases == {"none", "sword", "blade", "ring", "potion", "book", "core", "scroll", "binder", "extender"}
MCHands == {0, 1}
MCSlots == 0..3
MCAccessories == <<2, 3>>
MCPrices == [sword |-> 3, potion |-> 1, book |-> 2]
MCBuyPrice == [book |-> 3]
MCStock == {Item("book", 0, 0)}
MCBinder == {<<"binder", "sword", "blade">>}
MCSymmetry == Permutations({h1, h2})

Holding(items) == [s \in MCSlots |-> IF s < Len(items) THEN items[s + 1] ELSE NoItem]

Sword(serials) == Item("sword", serials, 16)
Ring(serials) == Item("ring", serials, 0)

NoCash == [id \in {1} |-> NoItem]

Player(items, worn, sends, slots, hands) ==
    [inv |-> Holding(items), eqp |-> Holding(worn), cash |-> NoCash, ground |-> <<>>,
     packets |-> sends, slots |-> slots, worn |-> hands]

MCPlayers ==
    {Player(<<Item("sword", 1, 0), Item("potion", 0, 2)>>, <<>>, {"Move", "Swap", "Potion", "Sell"}, 0..2, {}),
     Player(<<Sword(1), Item("core", 2, 0), Item("scroll", 0, 2)>>, <<>>,
            {"ForceCore", "Upgrade", "Swap", "Move"}, 0..2, {}),
     Player(<<Item("binder", 0, 0), Sword(1), Item("extender", 0, 0)>>, <<>>,
            {"Attach", "Swap", "Sell"}, 0..2, {}),
     Player(<<Item("book", 0, 0), Item("book", 0, 0)>>, <<>>, {"Book", "Buy", "Sell"}, 0..1, {}),
     Player(<<Sword(1), Sword(2)>>, <<>>, {"Equip", "UnEquip", "SwapEquip"}, 0..1, MCHands),
     Player(<<Sword(1)>>, <<Sword(2)>>, {"EqMove", "EqSwap", "UnEquip", "Move"}, 0..1, MCHands),
     Player(<<Ring(1)>>, <<NoItem, NoItem, Ring(2), Ring(3)>>, {"Accessory", "UnEquip"}, 0..1, {2, 3}),
     [Player(<<Sword(1), Item("potion", 0, 1)>>, <<>>,
             {"Storage", "QueryCash", "UseCash", "Drop", "Loot"}, 0..2, {})
        EXCEPT !.cash[1] = Item("book", 0, 0), !.ground = <<Item("potion", 0, 1)>>]}

MCStalePlayers ==
    {Player(<<Item("binder", 0, 0), Sword(1), Item("extender", 0, 0)>>, <<>>, {"Attach", "Swap"},
            0..2, {})}
MCLostPlayers == {Player(<<Sword(1), Sword(2)>>, <<>>, {"Equip"}, 0..1, MCHands)}
MCScrollPlayers ==
    {Player(<<Sword(1), Item("core", 2, 0), Item("scroll", 0, 1)>>, <<>>, {"ForceCore", "Move"},
            0..2, {})}

Shopping == {"Sell", "Buy"}
Locked == {"Move", "Swap", "EqMove", "EqSwap", "Potion", "Book", "Upgrade", "ForceCore", "Attach"}
Outer == {"Equip", "UnEquip", "SwapEquip"}
MCOverlapping ==
    {{a, b} : a, b \in Locked} \cup {{a, b} : a \in Shopping, b \in Locked} \cup {{a, b} : a, b \in Outer}

\* Answers are lost to the clients whose packets SkillOnce and NoStaleSpending are
\* about: of the others nothing is claimed after a loss.
MCNext == Next /\ (lost' = lost \/ player.packets \cap {"Book", "ForceCore"} # {})
MCSpec == Init /\ [][MCNext]_vars

\* EquipItem puts an item back when it could not be put on ("attempt to
\* rollback", equipment.go:129-132), so that it is never doubled.  A lost answer makes
\* it put back an item that was put on.
RolledBackOnce == \A serials \in Serials \ {0} : Places(serials) = 1
=============================================================================

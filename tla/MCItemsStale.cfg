SPECIFICATION Spec
CONSTANTS
    h1 = h1
    h2 = h2
    Handlers = {h1, h2}
    Free = Free
    Slots <- MCSlots
    EqSlots <- MCSlots
    WhSlots = {0}
    CashIds = {1}
    SkillSlots = {0, 1}
    Bases <- MCBases
    MaxUpgradeLevel = 1
    AlzLimit = 6
    Players <- MCStalePlayers
    Overlapping <- MCOverlapping
    Hands <- MCHands
    Accessories <- MCAccessories
    Stock <- MCStock
    BuyPrice <- MCBuyPrice
    SellPrice <- MCPrices
    Counted = {"potion", "scroll"}
    Potions = {"potion"}
    Books = {"book"}
    Extenders = {"extender"}
    Extendable = {"sword"}
    Enchantable = {"sword"}
    ArmorBinder <- MCBinder
    MaxOptionSlots = 2
    MaxCores = 1
    Scrolls = {"scroll"}
    Cores = {"core"}
    StartAlz = 2
    MaxLost = 1
PROPERTY NoStaleAttach

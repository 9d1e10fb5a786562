\* An exchange is committed for a trade that no longer asks for it.
CONSTANTS
    Users = {0, 1}
    Handlers = {h1, h2}
    Slots = {1, 2}
    TradeSlots = {1}
    sword = sword
    ring = ring
    Items = {sword, ring}
    NoItem = NoItem
    StartInv <- TwoItems
    StartAlz <- TwoAndOne
    AlzLimit = 2
    Leavers = {1}
    Movers = {0}
    LossyRPC = TRUE
    Kinds = {"live"}
SYMMETRY HandlerSymmetry
SPECIFICATION MCSpec
PROPERTY ExchangeIsLive

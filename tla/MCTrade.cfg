\* One item is exchanged under two goroutines and a leaving player; items move,
\* balances are at their limit and replies get lost under one.
CONSTANTS
    Users = {0, 1}
    Handlers = {h1, h2}
    Slots = {1, 2}
    TradeSlots = {1}
    sword = sword
    ring = ring
    Items = {sword, ring}
    NoItem = NoItem
    StartInv <- TwoItems
    StartAlz <- TwoAndOne
    AlzLimit = 2
    Leavers = {1}
    Movers = {0}
    LossyRPC = TRUE
    Kinds = {"exchange", "items"}
SYMMETRY HandlerSymmetry
SPECIFICATION MCSpec
INVARIANTS TypeOK ItemsOnce OffersDistinct Paired
PROPERTIES SubmittedSeesOffer AlzConserved

SPECIFICATION MCSpec
CONSTANTS
    Users = {a, b, c, d}
    NoUser = NoUser
    Handlers = {h1, h2}
    MaxMembers = 3
    MaxParties = 2
    LootTypes = 1
    Auths = {TRUE, FALSE}
    Leavers = {a}
    Watchers = {d}
    Kinds = {"kick"}
SYMMETRY PartySymmetry
PROPERTY KickedByLeader

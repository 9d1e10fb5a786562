# Freya: TLA+ models, model checking and proofs

Freya is a server emulator for a multi-player game, written in Go. This
directory models the parts of it in which goroutines, messages, timers and
broken connections meet, checks the models with TLC on small instances and
proves the most important invariants with TLAPS for instances of every size.

- `PROJECT.json` lists the components, the runs, the map from definitions to
  source lines, the hazards of the code and the theorems.
- `tlc -workers 2 -config X.cfg M` repeats a run, `tlapm M.tla` the proofs of a
  module.

## 1. The system

| Process | State | Talks to |
|---|---|---|
| `cmd/loginserver` | sessions, `ServerState` jobs | clients (packets), master (RPC) |
| `cmd/gameserver` | sessions with a `context.Context` each (character, trade, party, battle mode, buffs, PVP), worlds with cells, mobs and items | clients, master |
| `cmd/chatserver` | sessions, presence, buddy invitations | clients, master |
| `cmd/masterserver` | table of registered servers, MariaDB | all other servers |

What makes the code hard to test is common to all of them:

- `event.Trigger` starts a goroutine per handler (`share/event/event.go:83`).
  Packets of one client are handled concurrently, in any order, and also after
  the session has been closed. `ClientDisconnectEvent` has two handlers that
  run in any order: the game's cleanup and the removal from the session table.
- State is guarded by one mutex per context. Handlers copy a context, unlock,
  look at the copy, and lock again, often with a second context. What they
  decided on may be stale by then.
- RPC calls to the master are made between two locked sections. They have no
  timeout and fail when the connection breaks, before or after the master has
  acted.
- Timers and periodic jobs call back into contexts that have moved on.

### Components, operations and what makes them correct

| Component | State | Operations | Correct when |
|---|---|---|---|
| Player trade (`packet/trade.go`, `rpc/inventory.go` `TradeItems`) | `Context.Trade`, inventories, Alz, two tables | request, open, add, remove, submit, exchange, cancel, cleanup | no item or Alz is lost or duplicated; nobody submits to an offer not seen; the two ends agree |
| Party (`packet/party.go`) | `Context.Party`, `Context.PartyInvite`, search list | invite, answer, cancel, leave, kick, leader, auth, looting, search, cleanup | every view is a party; the views agree; the leader rules |
| Session jobs (`share/network/session.go`, `periodic_task.go`) | job list, `jobMutex`, goroutines | create, add, remove, remove all, close | every stop comes back; nothing runs that cannot be stopped |
| Battle mode (`packet/battle_mode.go`) | mode, generation, end timer, drain job | start, stop, drain, time out, reset | every mode ends, and only by its own timer and job |
| Buffs (`context/buff.go`) | active buffs, generations, timers | apply, remove, expire | an expiry never removes a later instance |
| Inventory and equipment (`share/models/inventory`, `packet/inventory.go`, `rpc/inventory.go`), storage, cash, shop, enchant, attach | two maps per character, tables | move, swap, stack, equip, consume, buy, sell, upgrade | the maps follow the tables; no duplication |
| RPC (`share/rpc`) and server table (`masterserver/server`) | pending calls, connection, registered servers | call, answer, break, reconnect, register | every call returns once, with its own answer; a connected server is in the table |
| Login (`loginserver`, `rpc/account.go`) and sessions (`share/network/network.go`) | session table, verified sessions | check, verify, kick, close | an account is online once |
| Secondary password (`packet/subpassword.go`, `rpc/subpassword.go`) | copy of the session, verified mark, row | set, check, change, find, remove | it is changed only for a user who has shown it |
| Characters (`packet/character.go`, `initialized.go`, `rpc/character.go`) | list of the session, rows, position | list, create, delete, enter, leave | a character is entered where it was left; the master never meets a duplicate key |
| Growth (`packet/skill.go`, `stat.go`, `hp.go`, `models/skills/links.go`, `rpc`) | level, experience, ranks, stat points, skills, links; copy and row | kill, use skill, distribute, train, untrain, link | nothing earned is lost or given twice; copy and row agree |
| Chat (`chatserver/chat`, `rpc/buddy.go`) | presence, invitations, equipment views, buddy rows | log in and out, invite, answer, remove, note, view | friendships are mutual; lists show friends as they are |
| Mail (`packet/mail.go`, `rpc/mail.go`) | mails, balances, items; copies; clients' lists | send, take Alz or item, return, delete, notify | Alz and items are neither made nor lost; every new mail becomes known |
| World (`game/`) | cells, mobs, ground items | enter, leave, move, spawn, drop, pick up | everybody is in one cell; an item is picked up once |
| PVP (`packet/pvp.go`, `pvp_combat.go`) | challenge and duel per context | ask, answer, fight, end | a duel has two ends and one result |
| Quests, guilds, combos | tables, contexts | see `PROJECT.json` | a reward is given once |
| Client data, Lua, encryption, codecs, configuration | - | parsing and arithmetic | not modelled |

`PROJECT.json` lists each with its sources, and 40 hazards at their lines.

## 2. Plan

Done: `Trade`, `Party`, `JobList` with `SessionJobs` and `BattleMode`;
`RpcLink` with its abstract specification `RpcCall`; `Chat`; `Mail`; `Growth`;
`Lobby`; `ItemMaster`, `Inventory` and `ItemHandlers`; the proofs about these.

Open, in this order:

1. `World`: cells, visibility, mobs and ground items; movement and warps. The
   pick-up of one item by two characters belongs here.
2. `Buffs` and `Pvp`, with timers as in `BattleMode`.
3. Quests (accept, progress, reward), combos, guild creation.

No safety invariant of a passing run is without a proof; a new module gets its
invariants proved as these have been.

## 3. Modules

Every section a handler executes under its locks is one step; what it copies
and uses after an unlock is kept in a record of the handler (`call`, `h`).
Handlers are members of a set: they are the goroutines that run at a time.
Message layouts, logging and arithmetic that no guard looks at are left out.

### Trade (`Trade`, `MCTrade`, `TradeProofs`)

`trade[u]` is `Context.Trade` (status, role, opponent, items, Alz, submitted),
`inv` and `alz` are the game server's copies, `db` and `dbAlz` the rows of the
World database. `clients` is the session table, `closed` the sessions whose
`Close` has run, `left` those whose cleanup has run. Each handler of `trade.go` has an action
for what it reads first and one for its locked section (`TradeOpenEvent` and
`TradeOpenEventLocked`, `CancelTrade` and `CancelTradeLocked`). `completeTrade`
copies both offers and unlocks; the transaction of the master
(`TradeItemsCommit`, or its refusal) is a step of its own; `completeTradeApply`
locks again and moves the items in memory. With `LossyRPC` the call may fail
before the master acts or after it has committed. `InventoryMove` is a move of
an item by its owner (`Movers`) meanwhile.

Two facts of the source that surprise and are kept: the zero `TradeState` names
opponent 0, a real session index; and `validateTradeTransfers` refuses an item
whose target slot has the number of its source slot.

### Party (`Party`, `MCParty`, `PartyProofs`)

`party[u]` is the copy of the party the context of `u` holds, `invite[u]` its
invitation. A handler that changes a party computes the new state from its own
copy and then writes it to the members one by one, each under that member's
lock: `call[h].apply` and `call[h].clear` are what is still to be written. A
write skips users who are not connected. Requests of a closed session may
still run. User indices are not reused, and a search entry is never removed,
as in the code.

### Job list (`JobList`, `SessionJobs`, `MCSessionJobs`, `SessionProofs`)

`JobList` has the operations: `task[t]` is where the goroutine of a periodic
task is ("top", the call at the head of its loop; "select"; "tick", the call in
the ticker branch), `lock` is `jobMutex` while jobs are stopped under it. `Stop`
is the meeting of the send on the unbuffered channel with the task's select.
`SessionJobs` lets goroutines create, add and remove jobs and close the session
in any order; `owed` counts the calls the documented schedule asks for.

### Battle mode (`BattleMode`, `MCBattleMode`, `BattleModeProofs`)

Extends `JobList` with the state of `context/battle_mode.go`: `mode` (type,
generation, gauge), `gen`, `endTimer`, and with what is under way: `timer[k]`
and `drain[k]` of the `k`-th call of `startBattleModeDrain`, the goroutines of
`go session.RemoveJob` (`removers`), the packet handlers `h`. Every lamp pays
for one start, so `Lamps` bounds timers and tasks. Timers fire and tickers tick
at any moment. Of the pending removal goroutines at most `MaxRemovers` = 2 are
told apart: a third would find the same state as the second.

### Items (`ItemMaster`, `Inventory`, `ItemHandlers`, `MCItems`, `ItemInvariants`, `ItemProofs`)

`ItemMaster` is the database (`db`: the rows of inventory, equipment,
warehouse, cash inventory, skills and Alz of one character) and one action per
RPC command, a transaction each. `MustExec` panics on a slot that is taken; the
panic ends the master and fails all calls under way (`MasterPanics`, `up`). A
call may fail before it has reached the master (`CallFails`) or after the
transaction has committed (`AnswerLost`, as `share/rpc/client.go` closes the
pending calls when the connection breaks).
`Inventory` adds the maps `inv` and `eqp` and the methods of `inventory.go` and
`equipment.go`. A method is two actions around the one of the master: it checks
the map, locks and sends; it applies the answer and unlocks (`...Done`).
`lock` has the mutexes of the two maps, `mutexOut` of the equipment and the one
of the context. `ItemHandlers` has the packet handlers and the operations of
`equipment.go` that make several calls, with their rollbacks: `call[h]` is the
packet being handled, where its goroutine is (`at`, `ret`), its request (`m`)
and what it has read (`item`, `seen`). `ground` are the items of the cell. `lost`
counts the committed transactions whose answer was lost, by a broken connection
or a panic: the code rolls such an operation back although it was done, so that
`MapsFollowTables` and `ItemOnce` hold as long as `lost = 0` only, and the
others (`SkillOnce`, `NoStaleSpending`) whatever is lost.

An item has a base kind, an upgrade level, the ownership bit, a serial number
and an option; the packed slots of an option are multiples of 16. Whether an
enchantment succeeds, whether a potion cools down and how full mana is are
choices. Clients offer scrolls, cores, binders and extenders of the right
kinds; the tables of which kind does what are constants.

Facts of the source that surprise and are kept: `Remove`, `Move`, `Swap` and
`Stack` change the map although the master's answer was `Result` false (which
it never is for them); `unEquipItem` does not look at the slot it puts the item
in, so that a slot in use stops the master, and its rollback writes the
equipment slot's number into the inventory; `SwapEquipItem` has no rollback;
`StackItem` of the master updates every stack of the kind; the id of a dropped
item is the number of items plus one, so that a drop after a pick-up replaces
an item.

### Servers and their calls (`RpcLink`, `RpcCall`, `MCRpcLink`, `ServerProofs`)

`RpcCall` is what a caller may rely on: the handler runs at most once, an
answer is the one of that run, an error says nothing about the run, every call
comes back. `RpcLink` is `share/rpc`: the game server's `Client` with its
`codec`, `seq` and `pending`, which dials again after a break (`Dial`), one
`Client` of the master per connection (`peer`), requests and responses on the
wire, the read loops and the goroutines that serve a request (`handlers`).
`servers` is `ServerManager.servers`; `ServerRegister` is called after every
dial and `OnSyncDisconnect` removes a server later (`leaving`). `check[m]` is
`IsOnline` or `KickAccount`, which walks the servers with their lock held.
Messages carry the call they belong to, for the properties only: the code
compares `seq`. `Promise` maps a call of `RpcLink` to one of `RpcCall`; a call
that came back with the answer of another one is mapped to one that still
waits, so that it breaks the refinement.

### Chat (`Chat`, `MCChat`, `ServerProofs`)

`sess[s]` is the `State` of a connection, which has no lock; `invites` and
`views` are `pendingBuddyInvites` and `pendingEquipmentViews`; `buddies` and
`memo` are rows of the master. A handler loads a list, looks up sessions and
sends to them one by one, each a step (`todo`, `to`). `told[s]` is the last
member list the client has received: the property is about what a user sees.

### Mail (`Mail`, `MCMail`, `MailProofs`)

A packet and the transaction that serves it are one goroutine, `call[h]`. What
a transaction reads without a lock (the count of a mailbox, the receiver) is a
step before what it does under `FOR UPDATE`. `mails` are the rows with the
deletion marks of both sides, `alz` and `items` the tables, `charAlz` and
`charItems` the copies of the game server, `notices`, `rung` and `known` the
way of a new mail to the list of the client over the chat server.

### Growth (`Growth`, `MCGrowth`, `GrowthProofs`)

`db` is the row of the character, `game` its copy. Most handlers ask the master
to write on the condition that the row still is what the copy was, and hold
`ctx.Mutex` during the call (`lock`); stats, vitals and links do not, or hold
another one (`linkLock`). A call fails before the master has acted, after it,
or leaves its request to be served late (`late`). `Climb` is the loop of
`addSkillExperienceForType`, `LevelForExperience` the search in the table of
levels.

### Lobby (`Lobby`, `MCLobby`, `SessionProofs`)

One account on two machines: `login[c]` is the connection to the login server
(what `AuthAccount` answered, the login its account id is of, and the
verifications under way for it), `sess[c]` the session of the game server with
its list of characters, its copy of the secondary password and whether it is
verified (`from`, the login that its account id is of) and in the table.
`AuthCheck` asks the game servers; it gives the account id to the client also
when it answers Online, who may then have the other session thrown out
(`FDisconnect`) or ask for a verification. `VerifyLinks` of the login server and
`ServerVerifyLinks` of the game server (the client changes the channel or goes
back to the login server) ask the master to verify another connection
(`UserVerify`); `asked` are the requests on their way, which `VerifyUser` and
`VerifyLogin` serve and `VerifyFails` loses. Neither looks at the status of the
connection that asks, only at its account id. `bye[c]` is `OnClientDisconnect`, which
saves the position, beside `NetworkRemoves`, the other handler of that event.
Every packet of the lobby is a request (`Ask`), its service by the master
(`CreateCharacter`, `SavePosition` and the others) and its answer (`Created`,
`Left`...). `where` and `shown` are history variables for the properties. A
restriction of the behaviours that a property needs has a name: `OneLogin` (one
login at a time is under way, from the check to the end of the connection and of
every verification it has asked for), `Obeys` (a client that was answered Online
does not ask for a verification all the same), `OneSession` (the sessions of the account
do not overlap), `NoneReplaced` (no character is created in the slot of one the
session has played), `FetchAnswered` (the fetch of the secondary password does
not fail). The modes of `MCLobby` keep to them; the theorems assume them.

## 4. Runs

| Run | Instance | Checks | Distinct states |
|---|---|---|---|
| `trade` | 2 players. Mode exchange: 2 handlers, one sword, no Alz, one player may leave. Mode items: 1 handler, 2 items, balances 2 and 1 of at most 2, moves. Replies get lost in both | `TypeOK`, `ItemsOnce`, `OffersDistinct`, `Paired`, `SubmittedSeesOffer`, `AlzConserved` | 2.4 M |
| `party` | Mode single: 4 users, 1 handler, parties of 3. Mode overlap: 3 of the users, 2 handlers, the first party, of two members; one user may leave | `TypeOK`, `SingleAgreement`, `ViewsWellFormed` | 2.6 M |
| `jobs` | 2 goroutines, 3 tasks, 2 names, fairness | `ListedRun`, `StopReturns` | 0.2 M |
| `battle_race` | 2 handlers, 2 lamps, close | `EndIsComing`, `TimerOfMode`, `SparesNextMode` | 2.8 M |
| `battle_live` | 1 handler, 2 lamps, deaths and departures, fairness | `ModeEnds`, `DrainsEnd`, `NoOrphan`, `LobbyClean` | 55 k |
| `inventory` | 8 kinds of clients, 2 handlers, 4 slots, calls fail, one answer is lost, the master stops and restarts | `MapsFollowTables`, `ItemOnce`, `SkillOnce`, `NoStaleSpending` | 0.98 M |
| `inventory_scroll` | violation | `SpentIsGone` | |
| `chat` | 2 characters. Modes buddies and views: 3 sessions, one event at a time. Mode overlap: 2 sessions, 2 handlers, calls fail | `Mutual`, `SoloSettles`, `SoloViews` | 3.7 M |
| `mail` | 2 characters, one item, 2 mails. Mode overlap: 2 handlers, calls fail. Modes solo and lists: one packet at a time | `AlzKept`, `ItemOnce`, `SoloCopies`, `ListsKnowNew` | 1.3 M |
| `growth` | 3 levels, 2 ranks. Modes solo, book: one packet at a time; faults: one failed call and its late request; fight, train: 2 handlers | `Earned`, `LockedAgree`, `SoloCopies`, `Grows` | 2.2 M |
| `rpc` | one call, two registrations and one check over two connections, fairness | `Registered`, `CallsKeepPromise`, `ChecksReturn` | 0.25 M |
| `lobby` | one account. Mode login: 2 machines; modes lobby, secret, faults: one machine, 2 slots; one failed verification in login, one failed call in faults | `SingleLogin`, `AnsweredUp`, `FreshEntry`, `SecretKept` | 1.36 M |

A module with a mode asks several questions of one specification: the mode is
chosen at first and selects the packets that are sent and how they overlap.

What the later runs show:

- `chat`: rows of a friendship come and go together whatever overlaps
  (`Mutual`). With one event at a time, every login, logout, reconnect and
  break has reached the lists of the friends (`SoloSettles`), and no equipment
  request waits for somebody who is gone (`SoloViews`).
- `mail`: balances, open mails and fees add up, an item is in one place, for
  two overlapping packets and calls that fail at any point. With one packet at a
  time the copies of the game server follow (`SoloCopies`), and a client that
  has answered its notifications knows every mail sent to it (`ListsKnowNew`).
- `growth`: level, ranks and stat points of the row are those its experience
  and points have earned, no point is given twice (`Earned`); nothing earned is
  taken back, not even by a late request (`Grows`); what changes under
  `ctx.Mutex` agrees in copy and row as long as no call failed (`LockedAgree`).
- `rpc`: `RpcLink` implements `RpcCall` for the game server's calls, over
  breaks and dials; an online check comes back although it holds the lock of
  the list and its game server may be gone; a server that is connected and was
  told it is registered is listed, although the removal of its earlier
  connection comes late.
- `lobby`: the sessions in the table all come from one login, also while an old
  session is being closed and while a client changes the channel with two sessions
  at once (`SingleLogin`), as long as logins do not overlap and clients do not have
  a session verified after the answer Online; the list of the session keeps
  the master from a duplicate key (`AnsweredUp`); a character enters where it
  was left (`FreshEntry`); the secondary password is changed or removed only
  for somebody who has shown it, calls that fail included (`SecretKept`).

Deadlock is checked for trades, parties, jobs, battle modes and items. In the
other five the clients may stop, and ids, connections and experience come to
their bounds, so that it is not. Their type invariants (`ChatTypeOK`, `TypeOK` of
`Mail` and `RpcLink`, and those of the older modules whose cfg does not list
them) hold and can be added to the cfg.

**Bounds.** Two players suffice for what a trade does to its two ends; two
inventory slots give one item a place to move to, so that an offer can go
stale. An Alz limit of 2 with balances 2 and 1 has exchanges that fit, that
overflow and that underflow. Two handlers are two overlapping packets; every
race found so far needs no more. Parties of three have a leader, a member who
leaves and one who stays; four users leave one outside to be invited. Two lamps
give an old and a new battle mode, which is what generations are for; the
gauge of one share is the boundary of `consumeBattleModeGauge`. Three tasks
fill two names and replace one. The theorems have no such bounds.

In `mail` two ids allow a mail and its overlap with a second one; balances at
the largest Alz make every receipt on a full balance overflow; a mailbox of one
is full at once. In `mail` only one character sends while handlers overlap; both
do in the other modes. In `growth` the second rank needs the second level and
the last level ends at 3, so that the limits of rank, level and experience are
all met; one failure (`MaxFails`) leaves one late request, which meets every
later packet. Two connections of `rpc` are an old and a new one. In `lobby` two
places tell a stale position from a true one, and two secrets an old password
from a new one. In `chat` one character may have two sessions, as in a
reconnect, and a list of one friend is full at once.

The `inventory` run has one client of each kind in `MCPlayers` instead of one
that sends everything: each sends the packets that touch the same items (moves,
swaps, potions and sales; force cores and upgrades; attaching; books and the
shop; three groups for the equipment; storage, cash and the ground). Four slots
hold the items and a free place; the last two are also the accessory slots. An
Alz limit of 6 is met by selling what is there; one upgrade level and one core
per enchantment are the boundary of each. `MCOverlapping` says which two packets
are handled at a time: those whose methods hold the mutex from check to answer,
a shop packet with one of those, and two operations under `mutexOut`. One answer is
lost in the run, to the clients with force cores and with books, since of the others
nothing is claimed after a loss.

**What holds only with one handler.** `Agreement`, `NoOrphan` and `LobbyClean`
are properties of handlers that do not overlap, for which they are proved; two
overlapping handlers break each of them (section 6). `Paired` and
`SubmittedSeesOffer` are checked and proved for two players, whose handlers may
overlap; more players reach states in which a third player's stale peer breaks
the pairing. Two sales or purchases at a time may write the two balances to the
character in the wrong order. Three stacks of one kind differ from their rows
after a stack. `EquipAccessory` holds no mutex from its first call to its last,
the storage and cash handlers none during their call: these packets are handled
one at a time. An equip or unequip meeting a move finds another item in the
slot it takes from than the one it puts on. What a client sees (`SoloSettles`,
`SoloViews`, `SoloCopies`, `ListsKnowNew`) is a promise for one packet at a
time; overlapping handlers deliver lists and copies in the wrong order.
`SingleLogin` is for logins that do not overlap (`OneLogin`) and clients
that keep to the protocol (`Obeys`); without either the check of the login server
does not keep two clients apart.

**Fairness.** Goroutines go on (weak fairness), timers fire and tickers tick.
What waits for `jobMutex` gets its turn, as Go's mutex hands over to a starving
waiter, and a select with two ready channels takes each of them sooner or
later: strong fairness of the steps that wait for one of the two. The drain
callback finds it late enough to drain sooner or later. In `RpcLink` the read
loops, the senders, the handlers of requests and the removal of a server go on
(weak fairness for each); nobody has to call, to dial or to break the
connection, and no message of a connection that stays up is lost, as TCP has
it. A handler of the other side that never answered would hold its caller for
ever: calls have no timeout. Players owe nothing: no packet has to come.

## 5. Theorems

All are proved for every value of the constants, from the assumptions the
modules name: numbers are naturals; "none" values are no members of the sets;
users, characters and mails of `Mail` are finite sets, without which a sum of Alz
means nothing; the tables of `Growth` do not fall from one level to the next and
the first level needs experience, as in the client data. A theorem that needs
one handler at a time, two players or calls that succeed says so in its
`ASSUME`, and one about a part of the behaviours names them next to `Spec`;
there are such instances and behaviours, and the runs have them.

Each proof has the same frame: an inductive invariant that adds what the running
handlers hold, since what a handler read under a lock is used after it; one
lemma per action; the property as a consequence.

- **Trade.** `TradeInvariant` is inductive: the types, the types of what the
  running handlers hold, and distinct offers. From it follow `TradeTypeOK` (no
  balance leaves its range), `TradeOffersDistinct`, `TradeItemsOnce` (no
  sequence of trades, moves and broken calls loses or duplicates an item in the
  database) and `TradeAlzConserved`. Distinct offers, and what the master
  validates again, make the two halves of the transaction disjoint; the proof
  that an item is in exactly one row splits rows into taken, given and other.
  `TradePaired` and `TradeSubmittedSeesOffer` are for two players and any number
  of handlers. Their invariant adds that no handler has one player at both ends,
  except to cancel a trade whose other end has left (`Apart`), that everybody is
  in the session table as long as nobody has closed (`Present`), and, as long as
  that is so, that the opponent is the other user (`Ends`).
- **Party.** `PartyInvariant`: the types, well-formed views, invitations
  between different users, and well-formed states in the hands of the handlers,
  which is the part that makes it inductive: a view is written long after it
  was computed. From it `PartyTypeOK` (no party above `PartyMaxMembers`) and
  `PartyViewsWellFormed`, for any number of overlapping handlers.
  `PartyAgreement`, for one handler and users who stay, looks ahead: the copies
  as they will be after the writes that the handler has left agree at every
  moment (`Settles`), and between two packets nothing is left.
- **Job list.** `JobInvariant`, `JobsListedRun`, `JobsLockedListed`: `Stop` is
  only sent to a goroutine that is there to receive it, the safety half of
  `StopReturns`.
- **Battle mode.** `BattleInvariant`: the types; a handler that made a timer
  holds its number, and that timer has the handler's generation (`RunOK`); the
  stored timer has been made; `TimerOfMode`; `EndIsComing`. The last needs the
  others: a timer is stopped by whoever finds it stored, which is harmless only
  because the stored timer belongs to the mode that ends in the same step, and
  by the handler that made it, which does so only when its generation is not
  the active one. `BattleSparesNextMode` says the same of a step, for any number
  of handlers: no late timer or drain ends a mode other than its own.
  `BattleNoOrphan` and `BattleLobbyClean` are for one handler; they need in
  addition that a handler between the removal of the old drain job and the new
  one finds no job listed (`OldGone`), and that out of the world no mode is active
  and no handler starts one (`Away`).
- **Servers and calls.** `RpcInvariant`: the types, one link at a time, where a
  call is and what that implies for the wire (`Stage`), no duplicate messages,
  the numbers of pending calls (`Numbering`), and who is in the list of servers
  and why (`Lists`). From it `RpcRegistered` and `RpcKeepsPromise`: under the
  mapping `Promise` the initial state of `RpcLink` is one of `RpcCall` and every
  step is a step or a stutter, so that a handler runs at most once and an answer
  is the one of that run, over any number of breaks and dials. That every call
  comes back is the fairness half, which TLC checks.
- **Chat.** `ChatInvariant`: the types, what the handlers hold (`CallsOK`),
  that nobody invites himself (`Invited`), and mutual rows.
  `ChatMutual` follows for any number of sessions, overlapping handlers and
  failing calls. `ChatPresenceSettles` and `ChatViewsLive` are about behaviours of
  `AloneNext`: one packet or connection at a time, calls that succeed, and no client
  logged in twice. Their invariant `AloneInv` says that whatever a client has read
  of a friend is so, unless the friend's connection is closed and not yet handled,
  a handler is about to tell the friends (`Unheard`), or one still has to send this
  client its list (`Sends`); that who is told is who has read, by `Mutual`; and that
  a request to see an equipment is addressed to somebody who is there or whose
  leaving is being handled (`Waits`).
- **Mail.** `MailInvariant`: the types; what the goroutines hold; what
  `DeleteReceivedMail` saw as empty without a lock stays empty until it marks the
  mail (`MarksEmpty`); `AlzKept`; and the place of each item (`Placed`). From it
  `MailAlzKept` and `MailItemOnce`, with handlers that overlap and calls that
  fail at any point. What a transaction does to a sum over all balances and
  mails rests on lemmas about sums over finite sets, which are proved by a
  smallest counterexample, as the induction theorems of the library cannot be
  used. `MailCopiesFollow`, for one packet at a time and a master that answers,
  from `CopyInv`: at every moment the balances and inventories of the database
  are those of the game server plus what is left of the one answer under way
  (`Owed`), so that between two packets they are equal. `MailboxBounded`, for the
  same behaviours: no mailbox exceeds `MaxMailbox`, since the room that a request
  has counted (`Room`) is still there when it writes the mail. `MailListsKnow`,
  if moreover every notification arrives (`AllRing`) and the mails that are new to a
  client fit one update (`FewNew`): a mail that somebody sent is known to its
  receiver, or is newer than all that is known and announced (`Heard`); the answer
  to a notification brings all that is newer than the last one known. Both halves
  need `InOrder`, the order of the ids.
- **Growth.** `GrowthInvariant`: the types; who holds `ctx.Mutex` (`Held`) and
  that what it asked is still true of the copy; no request, however late, asks
  for a rank its copy had not earned (`AllAllowed`); the copy is behind the row
  (`Behind`); row and copy have what they earned; they agree on what changes
  under the mutex (`Agreement`). From it `GrowthEarned`, `GrowthLockedAgree` and
  the action property `GrowthGrows`, for any tables, handlers and failures. That
  the loop over the ranks (`Climb`) returns what was earned, and that the
  recursive sums satisfy their equations, is again shown by a smallest
  counterexample. `GrowthCopyFollows`, for one handler and calls that succeed:
  at every moment the row differs from the copy by the vitals about to be saved
  or by what the handler is about to learn (`Follows`), so that between two
  packets they are equal.

- **Lobby.** `LobbyInvariant` (`Base`): the types, and for each session what its
  parts imply of each other (`Sound`): a session in the world has a character,
  one that is gone has left nothing behind, the disconnect handler runs for a
  closed session, and a call fits the session that waits for it (`Fit`). Each
  property adds who holds which answer:
  - `LobbySingleLogin`: `LoginInv` says that whoever was let in, and every
    verification under way, has the login of all sessions in the table. Only
    `AuthCheck` can let another login in, and it finds no session then. Any number
    of clients and channel changes; the hypotheses are `OneLogin`, that every client
    `Obeys`, and that no online check fails (which counts as offline). Requests for
    a verification may get lost.
  - `LobbyAnsweredUp`: `UpInv` says that the list of a session in the lobby, or one
    on its way, hides no row except one whose creation is yet to be answered, so
    that `NewMyChartr` asks for free slots only.
  - `LobbySecretKept`: `SecretInv` says that, as long as the user has not shown a
    stored password, the copy of the session is the row, is not verified, and no
    request to set, check or remove it is under way. Calls other than the fetch
    may fail.
  - `LobbyFreshEntry`: `FreshInv` says that a row is behind the true place only for a
    session that has yet to save it, itself or in its disconnect handler
    (`Stored`), and that lists, answers and characters have the true places
    (`FreshFor`). It holds while no call has failed, for behaviours with `OneSession`
    and `NoneReplaced`; without the latter `MCLobbyRecreate.cfg` breaks it.

- **Items** (the invariants are in `ItemInvariants`). `ItemInvariant` (`Base`): maps and tables hold items; each
  goroutine has a request that its handler can have sent at the point where it is
  (`Good`); and the mutex of `Inventory` or `Equipment` is held by the one goroutine
  whose call of it is under way (`LockOK`). Every step is of one of eight kinds:
  a handler goes on (`Quiet`), a method sends, declines or returns (`Sent`,
  `Declined`, `Returned`), the master serves a request (`Served`, with its `Effect`
  on the tables), a map is updated without its mutex (`Locally`), the master
  panics or restarts. `ItemsNotStale` needs only what `Base` says of a request
  and what the master compares before it acts. `ItemsSkillOnce` adds `SkillInv`:
  a goroutine whose skill the master has accepted owes it to an empty slot of the
  map, no two owe the same slot, and the table has no skill twice.
  `ItemMapsFollow` proves `MapsFollowTables` from `MapInv`: where a map and its table
  differ, an acknowledged answer is under way and says the difference (`Owes`:
  `Gives` for the inventory, `EqGives` for the equipment, the two halves of a
  move to the warehouse and of taking a cash item), and what a request was based
  on is still in the map when the master serves it (`Based`). `AlzInv` and
  `SkillSync` say the same of the Alz and the skills. The hypotheses name where
  the code lets a map and its table part: packets whose handlers change a map
  without its mutex (`Solo`: storage, cash inventory, pick-up) overlap with
  none, and one sale or purchase runs at a time (`Apart`); no force core spends
  the last unit of a scroll (`NoLastUnit`, the disagreement of section 6); of a
  stacked kind there is one stack (`OneStack`). The property itself ends with the
  first lost answer of a committed transaction (`lost = 0`), and so does the
  invariant (`Following`, `LyingOnce`): as long as there is none, calls fail before
  they are served, are refused and rolled back, and the master panics. The run
  `inventory` keeps to the hypotheses while two packets of eight kinds of clients
  overlap.
  `ItemsLieOnce` proves `ItemOnce` from `MapInv` and `Carry`. `Lying` is the set of
  places (rows, ground) with the serials there, `Once` says that no serials are at
  two of them. An operation of several calls takes an item into its hands and puts
  it down later, possibly in a rollback: `Carry` says that what is in a handler's
  hands (`HasItem`, `HasMoved`) lies nowhere, that what it is about to take away
  lies only where it takes it, and that a handler beyond its look at `mutexOut`
  holds it (`OutHeld`). That the handler saw in the map what lies in the table needs
  `MapInv`, since a look and the removal are two steps. A transaction of the master
  takes away, exchanges or puts down (`Less`, `Crosses`, `Puts`). The hypotheses
  added to those of `ItemMapsFollow`: drops, pick-ups and accessories are handled
  alone, and equipping, unequipping and swapping overlap only with each other
  (`CarryApart`), since `mutexOut` keeps nothing else out: `StorageItemDrop` and
  `EquipItem` read a slot and remove what it holds later. What the shop sells and the
  cash inventory gives has no serials (`Unmarked`), and no client starts with two of
  one item (`StartOnce`).

`JobsLockedListed`, `BattleTypeOK`, `ChatTyped`, `RpcTypes`, `LobbyInvariant`,
`MailMarksEmpty`, `MailboxBounded` and `ItemInvariant` are proved and have no run of
their own. `PartyAgreement`, `GrowthCopyFollows`, `MailCopiesFollow`,
`MailListsKnow`, `ChatPresenceSettles` and `ChatViewsLive` prove `Agreement`,
`CopyFollows`, `CopiesFollow`, `KnowsNew`, `PresenceSettles` and `ViewsLive`, which
the runs check as `SingleAgreement`, `SoloCopies` (of `MCGrowth` and of `MCMail`),
`ListsKnowNew`, `SoloSettles` and `SoloViews` in the modes with one packet at a
time.

Only model-checked:

- liveness, since the prover does neither fairness nor `ENABLED`: `StopReturns`,
  `ModeEnds`, `DrainsEnd`, `ChecksReturn` and the fairness half of
  `CallsKeepPromise`.

## 6. Where code and comments disagree

The run `inventory_scroll`: the last unit of a scroll spent on a force core
leaves a row of zero units in a slot the game server takes for empty; the next
insert into that slot stops the master.

Further counterexamples, each found within seconds with the cfg named:

- `MCTradeLive.cfg`, `ExchangeIsLive`: the master relies on the game server to
  validate "the live trade state" (`masterserver/rpc/inventory.go:536`); the
  exchange is committed from a copy while the live trade may have been
  cancelled or replaced.
- `MCPartyKick.cfg`, `KickedByLeader`: "Only the party leader can remove another
  member" (`packet/party.go:374`), yet a kick checked before a change of leader
  takes effect after it, and restores the old leader.
- `MCItemsStale.cfg`, `NoStaleAttach`: "a stale client packet cannot consume or
  transform a newer item" (`masterserver/rpc/attach.go:11`), yet the master
  compares with what the game server read under its mutex, not with what the
  handler decided on: a swap in between makes the attach consume another item.
- `MCItemsLost.cfg`, `RolledBackOnce`: `EquipItem` calls what follows a failed call
  an "attempt to rollback" (`share/models/inventory/equipment.go:129`), yet a call
  whose answer is lost has failed for the caller only: the item is put back and
  is worn.
- `MCChatInvites.cfg`, `InvitesLive`: `ClearBuddyInvites` is there so that no
  "stale invitation could block a new request" (`chat.go:166`), yet a logout sets
  the character of the session to 0 (`chat.go:1040`), so that the disconnect
  clears nothing.
- `MCMailLists.cfg`, `ListsKnowAll`: a mail "will be returned by the normal
  mailbox list/update request" (`masterserver/rpc/mail.go:294`), yet a returned
  mail keeps its old id and the update asks for larger ones only.
- `MCRpcLinkStale.cfg`, `ChecksOwnAnswer`: `readLoop` "sends the reply to the
  associated call" (`share/rpc/client.go:109`), yet an answer of the game server
  is written to the connection it has by then (`client.go:204`), where the
  master's new client has used the number again for another check.
- `MCLobbyRecreate.cfg`, `SavesTrue`: `SaveCharacterPosition` "is safe to call
  when the session is already in the lobby" (`packet/position.go:12`), yet
  `ctx.Char` is never cleared: a new character created in the slot of the one
  the session has played is moved to the old place at disconnect.

Seen while modelling, with no run of their own:

- *Trade, party, jobs.* A late accept of an earlier trade request opens the
  request the same player has made since. A `TradeRequest` between the cleanup
  of a session and its removal from the table leaves the requester in a trade
  with nobody. A write of party settings resets one end of a pending invitation,
  and the invited player can neither accept nor decline; an invitation outlives
  the cleanup of the session that made it. Each tick calls a periodic task's
  function twice, while its comment asks for one call; a job added under a name
  in use, or after `Close`, is never stopped. Two overlapping starts of a battle
  mode leave a drain job that is not listed; a start packet handled after
  `Uninitialze` leaves a mode in the lobby.
- *Items.* `ConsumeOne` takes its unit from whatever has come into the slot, from
  the packed option of a weapon too (the weapon of the client that uses potions
  has no option slots, so that the run goes on past it). Two characters may
  receive one item from the ground. When the answer of a committed transaction is
  lost, the map stays behind its table until the next login, and the rollback of
  an equip creates a second item: `EquipItem` puts back what it took
  (`equipment.go:131-132`) although the master has put it on. `MapsFollowTables`
  and `ItemOnce` except these states; `MCItemsLost.cfg` shows one.
- *Calls.* A `ServerRegister` served after the removal of its connection leaves a
  dead server in the list. The `pending` map is not cleared after a break.
- *Chat.* Of two sessions of one character that are logged in at once only one
  gets the lists. A list that could not be loaded is sent empty. Overlapping
  acceptances exceed `MaxMembers`. Equipment requests of a session that never
  logged in are not cleared.
- *Mail.* Overlapping sends and returns exceed `MaxMailbox`. A lost answer leaves
  the copies of the game server stale until the next login.
- *Growth.* The answer to a distribution of stat points overwrites points gained
  meanwhile (`stat.go:65`). Vitals are written from snapshots that may arrive
  out of order. The grants of two levels out of order remove the newer skills
  until the next login. After a lost answer of `SaveExperience` every later save
  is rejected until then. An `UPDATE` that changes nothing counts as rejected.
- *Lobby.* Two overlapping logins of one account both get in: neither is
  verified yet when the other is checked. A failed online check counts as
  offline. A client that is answered Online has its account id nevertheless
  (`auth.go:103-104`), and `VerifyLinks` passes its verification on without a look
  at the answer (`loginserver/packet/server.go:141-144`): a second client is in
  beside the first (`SingleLogin` without `Obeys`). A client that changes the
  channel is verified in two sessions until it closes the first; one that has
  closed the first before the second is verified is not found by a check. A creation whose answer is lost and that is repeated stops the
  master, and so does one asked for after `Uninitialze` without asking for the
  list; a lost answer of a deletion leaves an entry of a character that is gone
  and the check good for a second deletion. A failed fetch makes the secondary
  password look unset. The check of a name and the insert are not atomic.
  After a quick login elsewhere the older session's `SavePosition` may come after
  the newer session's load. `Close` during `Initialized` leaves a closed session
  in its cell. A failed `LoadCharacterData` enters with empty data.

## 7. Not modelled

Open, see the plan: world, cells and mobs, movement and warps, player versus
player, buffs, combos, quests and guilds. Two hazards known there have no model:
an expiry timer of an earlier buff (`context/buff.go:79`) and a pick-up by two
characters (`game/world.go:519`).

Left out for good: client data files, Lua, encryption, codecs, configuration and
logging, which are parsing and byte arithmetic.

In the modelled parts:

- packet contents, texts and what a client is shown otherwise than in lists;
- time: every timer may fire at any moment, which allows more than the code
  does;
- the search list of parties, battle mode skills in `BattleMode` (they are in
  `Growth`), what a potion or a skill does once it is used, damage and mobs, the
  success rates of enchantments, cash items that scripts add, and the items of
  several characters at once (except in a trade and in mail);
- in `Chat` the connect event is handled before the first packet;
- in `Mail` ids are given in the order of the commits, and no more new mails
  come than one update has room for;
- in `Growth` `cur` and `max` stand for HP and MP, `stat` for the sum of the
  three stats; `SetPlayerLevel` of scripts and a new login are left out, and so
  are the clamps to 16 bits, which no table reaches;
- in the items a request served after its call has failed;
- in `Lobby` requests served after their call has failed, the order of the
  slots, the last character played and the premium renewal; the client asks for
  its list before it creates a character, while `DelMyChartr` takes any slot,
  listed or not, as the code takes any id. A connection without an account id may
  ask for a verification too (with account 0), which is left out. The search for a free user index
  (`share/network/network.go:63`), which never ends once all are in use, is not
  modelled.

-------------------------------- MODULE Chat --------------------------------
(***************************************************************************)
(* The chat server: sessions, presence, buddy invitations and requests to  *)
(* see somebody's equipment (cmd/chatserver), with the buddy rows of the   *)
(* World database (cmd/masterserver/rpc/buddy.go).                         *)
(*                                                                         *)
(* Each packet and each disconnect is handled by a goroutine of its own,   *)
(* call[h].  The fields of a session's State have no lock: every access is *)
(* a step.  What a handler loads from the master, looks up in the sessions *)
(* and sends are steps of their own.  The client of a session names its    *)
(* own character (Owner).  Texts, levels, channels and worlds are left     *)
(* out; a change of these without the presence flag is only echoed.        *)
(*                                                                         *)
(* ChatInit, ChatNext and ChatSpec carry the name of the module, so that a *)
(* module may extend it beside another specification.                      *)
(***************************************************************************)
EXTENDS Integers, FiniteSets

CONSTANTS
    Chars,          \* characters
    Sessions,       \* connections to the chat server
    Owner,          \* the character each client plays
    Handlers,       \* goroutines
    Statuses,       \* presenceStatus values of a client that is there
    MaxMembers,     \* buddy.MaxMembers
    Nil

ASSUME OwnerAssumption == Owner \in [Sessions -> Chars]
ASSUME NilAssumption == Nil \notin Chars \cup Sessions \cup Statuses
ASSUME StatusAssumption == "online" \in Statuses /\ "offline" \notin Statuses
ASSUME LimitAssumption == MaxMembers \in Nat

VARIABLES
    sess,           \* State of each session and whether its connection is open
    invites,        \* pendingBuddyInvites: the requester by target
    views,          \* pendingEquipmentViews: <<target, requester>>
    buddies,        \* characters_buddies: <<character, buddy>>
    memo,           \* the rows with a memo
    told,           \* the last member list the client, if connected, has received
                    \* since its login
    call            \* what each goroutine is doing

chatVars == <<sess, invites, views, buddies, memo, told, call>>
db == <<buddies, memo>>
server == <<sess, invites, views>>

NoList == [c \in Chars |-> Nil]
Idle == [at |-> "idle", op |-> "none", s |-> Nil, who |-> Nil, peer |-> Nil, own |-> FALSE,
         todo |-> {}, to |-> Nil, rows |-> {}, list |-> NoList]

ChatInit ==
    /\ sess = [s \in Sessions |-> [open |-> "new", char |-> Nil, login |-> FALSE,
                                   status |-> "offline"]]
    /\ invites = [c \in Chars |-> Nil]
    /\ views = {} /\ buddies = {} /\ memo = {}
    /\ told = [s \in Sessions |-> NoList]
    /\ call = [h \in Handlers |-> Idle]

----------------------------------------------------------------------------
(* Looking up sessions. *)

\* buddySession returns one of these.
buddySessions(c) == {s \in Sessions : sess[s].open = "open" /\ sess[s].login /\ sess[s].char = c}
Online(c) == buddySessions(c) # {}

\* buddyPresence: the status of one of them.
buddyPresence(c) == IF Online(c) THEN {sess[s].status : s \in buddySessions(c)} ELSE {"offline"}

Friends(c) == {b \in Chars : <<c, b>> \in buddies}

----------------------------------------------------------------------------
(* Connections.  A packet may be handled after its connection is closed.   *)

onClientConnect(s) ==
    /\ sess[s].open = "new"
    /\ sess' = [sess EXCEPT ![s].open = "open"]
    /\ UNCHANGED <<invites, views, db, told, call>>

\* Session.Close: the client leaves, or the two seconds after its logout end.
Close(s) ==
    /\ sess[s].open = "open"
    /\ sess' = [sess EXCEPT ![s].open = "closed"]
    /\ told' = [told EXCEPT ![s] = NoList]
    /\ UNCHANGED <<invites, views, db, call>>

Becomes(h, c) == call' = [call EXCEPT ![h] = c]
Taking(op, s) == [Idle EXCEPT !.op = op, !.s = s, !.who = sess[s].char]

\* A goroutine takes up a packet; but for auth and login the handlers ask for
\* the character of the session first.
Receives(h, s) == call[h].at = "idle" /\ sess[s].open \in {"open", "closed", "left"}
ReceivesFrom(h, s) == Receives(h, s) /\ sess[s].char # Nil

----------------------------------------------------------------------------
(* Presence.  The handlers of these packets change the State and go on     *)
(* with notifyBuddyPresence.                                               *)

\* The guild number handleAuth looks up is left out.
handleAuth(h, s) ==
    /\ Receives(h, s)
    /\ sess' = [sess EXCEPT ![s].char = Owner[s]]
    /\ UNCHANGED <<invites, views, db, told, call>>

\* The extended packet names the character, the short one relies on handleAuth.
handleLogin(h, s) ==
    /\ Receives(h, s)
    /\ \E c \in {sess[s].char, Owner[s]} \ {Nil} :
         /\ sess' = [sess EXCEPT ![s].char = c, ![s].login = TRUE, ![s].status = "online"]
         /\ Becomes(h, [Taking("login", s) EXCEPT !.at = "notify", !.who = c])
    /\ told' = [told EXCEPT ![s] = NoList]
    /\ UNCHANGED <<invites, views, db>>

handleLogout(h, s) ==
    /\ Receives(h, s)
    /\ sess' = [sess EXCEPT ![s].status = "offline", ![s].login = FALSE]
    /\ Becomes(h, [Taking("logout", s) EXCEPT !.at = "notify"])
    /\ UNCHANGED <<invites, views, db, told>>

handleCharGameStateChange(h, s, status) ==
    /\ ReceivesFrom(h, s)
    /\ sess' = [sess EXCEPT ![s].status = status]
    /\ Becomes(h, [Taking("state", s) EXCEPT !.at = "notify"])
    /\ UNCHANGED <<invites, views, db, told>>

\* A mutant: only the client's own logout is announced.
onClientDisconnectSilent(h, s) ==
    /\ call[h].at = "idle" /\ sess[s].open = "closed"
    /\ sess' = [sess EXCEPT ![s].open = "left", ![s].login = FALSE]
    /\ Becomes(h, [Taking("disconnect", s) EXCEPT !.at = "views"])
    /\ UNCHANGED <<invites, views, db, told>>

onClientDisconnect(h, s) ==
    LET there == sess[s].login /\ sess[s].char # Nil IN
    /\ call[h].at = "idle" /\ sess[s].open = "closed"
    /\ sess' = [sess EXCEPT ![s].open = "left", ![s].login = @ /\ ~there]
    /\ Becomes(h, [Taking("disconnect", s) EXCEPT !.at = IF there THEN "notify" ELSE "invites"])
    /\ UNCHANGED <<invites, views, db, told>>

\* Where a handler goes on after notifyBuddyPresence and the member lists.
Notified(c) ==
    IF c.op \in {"logout", "disconnect"} THEN [c EXCEPT !.at = "views", !.list = NoList] ELSE Idle

\* notifyBuddyPresence returns for a character of zero, and loads the list of
\* the character's friends.
notifyBuddyPresence(h) ==
    LET c == call[h] IN
    /\ c.at = "notify"
    /\ Becomes(h, IF c.who = Nil THEN Notified(c)
                  ELSE [c EXCEPT !.at = "lists", !.todo = Friends(c.who)])
    /\ UNCHANGED <<server, db, told>>

\* The next friend who is there, or the session itself, is sent its list: after
\* an addition the session comes first, after a deletion it comes last.
NextList(h) ==
    LET c == call[h] IN
    /\ c.at = "lists"
    /\ \/ /\ ~c.own /\ c.todo = {}
          /\ Becomes(h, Notified(c))
       \/ /\ c.own /\ (c.op = "delete" => c.todo = {})
          /\ Becomes(h, [c EXCEPT !.own = FALSE, !.at = "load", !.to = c.s])
       \/ \E f \in c.todo :
            /\ c.own => c.op = "delete"
            /\ \/ ~Online(f) /\ Becomes(h, [c EXCEPT !.todo = @ \ {f}])
               \/ \E t \in buddySessions(f) :
                    Becomes(h, [c EXCEPT !.todo = @ \ {f}, !.at = "load", !.to = t])
    /\ UNCHANGED <<server, db, told>>

\* sendBuddyMemberList loads the rows ...
LoadBuddyList(h) ==
    /\ call[h].at = "load"
    /\ Becomes(h, [call[h] EXCEPT !.at = "build",
                     !.rows = Friends(sess[call[h].to].char)])
    /\ UNCHANGED <<server, db, told>>

\* ... writes the presence of each member into the packet ...
BuildList(h) ==
    LET c == call[h] IN
    /\ c.at = "build"
    /\ \E list \in [Chars -> Statuses \cup {"offline", Nil}] :
         /\ \A b \in Chars : list[b] \in IF b \in c.rows THEN buddyPresence(b) ELSE {Nil}
         /\ Becomes(h, [c EXCEPT !.at = "send", !.rows = {}, !.list = list])
    /\ UNCHANGED <<server, db, told>>

\* ... and sends it; a closed session sends nothing.
SendList(h) ==
    LET c == call[h] IN
    /\ c.at = "send"
    /\ told' = IF sess[c.to].open = "open" THEN [told EXCEPT ![c.to] = c.list] ELSE told
    /\ Becomes(h, [c EXCEPT !.at = "lists", !.to = Nil, !.list = NoList])
    /\ UNCHANGED <<server, db>>

\* A mutant: the requests addressed to the character stay.
ClearEquipmentViewRequestsOwn(h) ==
    LET c == call[h] IN
    /\ c.at = "views"
    /\ views' = {v \in views : v[2] # c.who}
    /\ sess' = IF c.op = "logout" THEN [sess EXCEPT ![c.s].char = Nil] ELSE sess
    /\ Becomes(h, IF c.op = "logout" THEN Idle ELSE [c EXCEPT !.at = "invites"])
    /\ UNCHANGED <<invites, db, told>>

\* ClearEquipmentViewRequests; after a logout the session has no character.
ClearEquipmentViewRequests(h) ==
    LET c == call[h] IN
    /\ c.at = "views"
    /\ views' = {v \in views : v[1] # c.who /\ v[2] # c.who}
    /\ \/ /\ c.op = "logout"
          /\ sess' = [sess EXCEPT ![c.s].char = Nil]
          /\ Becomes(h, Idle)
       \/ /\ c.op = "disconnect"
          /\ Becomes(h, [c EXCEPT !.at = "invites"])
          /\ UNCHANGED sess
    /\ UNCHANGED <<invites, db, told>>

\* The character of the session as it is by now.
ClearBuddyInvites(h) ==
    LET who == sess[call[h].s].char IN
    /\ call[h].at = "invites"
    /\ invites' = [c \in Chars |-> IF who \in {c, invites[c]} THEN Nil ELSE invites[c]]
    /\ Becomes(h, Idle)
    /\ UNCHANGED <<sess, views, db, told>>

----------------------------------------------------------------------------
(* Buddies. *)

handleBuddyMemberList(h, s) ==
    /\ Receives(h, s)
    /\ Becomes(h, [Taking("list", s) EXCEPT !.at = "lists", !.own = TRUE])
    /\ UNCHANGED <<server, db, told>>

handleBuddyMemberAdd(h, s, target) ==
    /\ ReceivesFrom(h, s) /\ target # sess[s].char /\ Online(target)
    /\ Becomes(h, [Taking("add", s) EXCEPT !.at = "check", !.peer = target])
    /\ UNCHANGED <<server, db, told>>

hasBuddyLimit(c) == Cardinality(Friends(c)) >= MaxMembers

\* alreadyBuddy and hasBuddyLimit of both.
BuddyAddCheck(h) ==
    LET c == call[h] IN
    /\ c.at = "check"
    /\ Becomes(h, IF c.peer \in Friends(c.who) \/ hasBuddyLimit(c.who) \/ hasBuddyLimit(c.peer)
                  THEN Idle ELSE [c EXCEPT !.at = "invite"])
    /\ UNCHANGED <<server, db, told>>

\* Nobody makes, and nobody receives, a second invitation.
BuddyAddInvite(h) ==
    LET c == call[h]
        free == invites[c.peer] = Nil /\ \A t \in Chars : invites[t] # c.who IN
    /\ c.at = "invite"
    /\ invites' = IF free THEN [invites EXCEPT ![c.peer] = c.who] ELSE invites
    /\ Becomes(h, Idle)
    /\ UNCHANGED <<sess, views, db, told>>

\* The answer names the requester, who is looked up before the call; a refusal
\* only takes the invitation away.
handleBuddyMemberResponse(h, s, requester, accepted) ==
    LET me == sess[s].char IN
    /\ ReceivesFrom(h, s) /\ invites[me] = requester
    /\ invites' = [invites EXCEPT ![me] = Nil]
    /\ IF accepted
       THEN Becomes(h, [Taking("accept", s) EXCEPT !.at = "add", !.peer = requester,
                          !.todo = IF Online(requester) THEN {requester} ELSE {}])
       ELSE UNCHANGED call
    /\ UNCHANGED <<sess, views, db, told>>

\* AddBuddy of the master: plain reads first ...
AddBuddyRead(h) ==
    LET c == call[h] IN
    /\ c.at = "add"
    /\ Becomes(h, IF c.who \in Friends(c.peer) \/ hasBuddyLimit(c.who) \/ hasBuddyLimit(c.peer)
                  THEN Idle ELSE [c EXCEPT !.at = "insert"])
    /\ UNCHANGED <<server, db, told>>

\* ... then both rows; a duplicate key rolls the transaction back.  The target
\* and the requester, if it was there, are sent their lists.
AddBuddyInsert(h) ==
    LET c == call[h]
        rows == {<<c.who, c.peer>>, <<c.peer, c.who>>} IN
    /\ c.at = "insert"
    /\ IF buddies \cap rows = {}
       THEN /\ buddies' = buddies \cup rows
            /\ Becomes(h, [c EXCEPT !.at = "lists", !.own = TRUE])
       ELSE Becomes(h, Idle) /\ UNCHANGED buddies
    /\ UNCHANGED <<server, memo, told>>

handleBuddyMemberDelete(h, s, target) ==
    /\ ReceivesFrom(h, s) /\ target # sess[s].char
    /\ Becomes(h, [Taking("delete", s) EXCEPT !.at = "delete", !.peer = target])
    /\ UNCHANGED <<server, db, told>>

\* A mutant: the friend keeps its row.
DeleteBuddyOneWay(h) ==
    LET c == call[h] IN
    /\ c.at = "delete"
    /\ buddies' = buddies \ {<<c.who, c.peer>>} /\ memo' = memo \ {<<c.who, c.peer>>}
    /\ Becomes(h, [c EXCEPT !.at = "lists", !.own = TRUE, !.todo = {c.peer}])
    /\ UNCHANGED <<server, told>>

\* DeleteBuddy deletes two rows or none.
DeleteBuddy(h) ==
    LET c == call[h]
        rows == {<<c.who, c.peer>>, <<c.peer, c.who>>} IN
    /\ c.at = "delete"
    /\ IF rows \subseteq buddies
       THEN /\ buddies' = buddies \ rows /\ memo' = memo \ rows
            /\ Becomes(h, [c EXCEPT !.at = "lists", !.own = TRUE, !.todo = {c.peer}])
       ELSE Becomes(h, Idle) /\ UNCHANGED db
    /\ UNCHANGED <<server, told>>

handleBuddyMemberMemoModify(h, s, target) ==
    /\ ReceivesFrom(h, s) /\ target # sess[s].char
    /\ Becomes(h, [Taking("memo", s) EXCEPT !.at = "memo", !.peer = target])
    /\ UNCHANGED <<server, db, told>>

\* UpdateBuddyMemo looks for the row and then updates it, without a transaction.
UpdateBuddyMemo(h) ==
    LET c == call[h] IN
    /\ \/ /\ c.at = "memo"
          /\ Becomes(h, IF c.peer \in Friends(c.who) THEN [c EXCEPT !.at = "note"] ELSE Idle)
          /\ UNCHANGED memo
       \/ /\ c.at = "note"
          /\ memo' = memo \cup ({<<c.who, c.peer>>} \cap buddies)
          /\ Becomes(h, Idle)
    /\ UNCHANGED <<server, buddies, told>>

----------------------------------------------------------------------------
(* Looking at the equipment of somebody. *)

handleEquipmentViewRequest(h, s, target) ==
    /\ ReceivesFrom(h, s) /\ Online(target)
    /\ Becomes(h, [Taking("view", s) EXCEPT !.at = "remember", !.peer = target])
    /\ UNCHANGED <<server, db, told>>

rememberEquipmentViewRequest(h) ==
    LET c == call[h] IN
    /\ c.at = "remember"
    /\ views' = views \cup {<<c.peer, c.who>>}
    /\ Becomes(h, Idle)
    /\ UNCHANGED <<sess, invites, db, told>>

\* consumeEquipmentViewRequest; the requester is sent the answer if it is there.
handleEquipmentViewResponse(h, s, requester) ==
    /\ ReceivesFrom(h, s) /\ <<sess[s].char, requester>> \in views
    /\ views' = views \ {<<sess[s].char, requester>>}
    /\ UNCHANGED <<sess, invites, db, told, call>>

----------------------------------------------------------------------------
(* Calls to the master that fail: a list that cannot be loaded is sent as  *)
(* an empty one, and a check passes.  The answer of an addition or of a    *)
(* deletion may also be lost.                                              *)

CallFails(h) ==
    LET c == call[h] IN
    /\ \/ c.at = "notify" /\ Becomes(h, Notified(c))
       \/ c.at = "load" /\ Becomes(h, [c EXCEPT !.at = "build", !.rows = {}])
       \/ c.at = "check" /\ (Becomes(h, [c EXCEPT !.at = "invite"]) \/ Becomes(h, Idle))
       \/ c.at \in {"add", "delete", "memo"} /\ Becomes(h, Idle)
       \/ /\ c.at = "lists"
          /\ (c.op = "accept" /\ c.own) \/ (c.op = "delete" /\ c.todo # {})
          /\ Becomes(h, Idle)
    /\ UNCHANGED <<server, db, told>>

PresencePacket(h, s) ==
    \/ handleAuth(h, s) \/ handleLogin(h, s) \/ handleLogout(h, s)
    \/ \E status \in Statuses : handleCharGameStateChange(h, s, status)

BuddyPacket(h, s) ==
    \/ handleBuddyMemberList(h, s)
    \/ \E c \in Chars :
         \/ handleBuddyMemberAdd(h, s, c) \/ handleBuddyMemberDelete(h, s, c)
         \/ \E accepted \in BOOLEAN : handleBuddyMemberResponse(h, s, c, accepted)

MemoPacket(h, s) == \E c \in Chars : handleBuddyMemberMemoModify(h, s, c)

ViewPacket(h, s) ==
    \E c \in Chars : handleEquipmentViewRequest(h, s, c) \/ handleEquipmentViewResponse(h, s, c)

Packet(h, s) ==
    PresencePacket(h, s) \/ BuddyPacket(h, s) \/ MemoPacket(h, s) \/ ViewPacket(h, s)

Step(h) ==
    \/ notifyBuddyPresence(h) \/ NextList(h) \/ LoadBuddyList(h) \/ BuildList(h) \/ SendList(h)
    \/ ClearEquipmentViewRequests(h) \/ ClearBuddyInvites(h)
    \/ BuddyAddCheck(h) \/ BuddyAddInvite(h) \/ AddBuddyRead(h) \/ AddBuddyInsert(h)
    \/ DeleteBuddy(h) \/ UpdateBuddyMemo(h) \/ rememberEquipmentViewRequest(h)

Connection ==
    \E s \in Sessions :
      onClientConnect(s) \/ Close(s) \/ \E h \in Handlers : onClientDisconnect(h, s)

ChatNext ==
    \/ Connection
    \/ \E h \in Handlers : Step(h) \/ CallFails(h) \/ \E s \in Sessions : Packet(h, s)

ChatSpec == ChatInit /\ [][ChatNext]_chatVars

----------------------------------------------------------------------------
(* Properties. *)

ChatTypeOK ==
    /\ sess \in [Sessions -> [open : {"new", "open", "closed", "left"}, char : Chars \cup {Nil},
                              login : BOOLEAN, status : Statuses \cup {"offline"}]]
    /\ invites \in [Chars -> Chars \cup {Nil}]
    /\ views \subseteq Chars \X Chars
    /\ buddies \subseteq Chars \X Chars /\ memo \subseteq buddies
    /\ told \in [Sessions -> [Chars -> Statuses \cup {"offline", Nil}]]

\* A friendship has two ends: whatever additions, removals and notes overlap,
\* and whichever calls fail, the rows of the two characters come and go
\* together, and nobody is a friend of his own (AddBuddy, DeleteBuddy
\* "removes both directed rows of a friendship atomically").
Mutual == \A c, d \in Chars : <<c, d>> \in buddies => <<d, c>> \in buddies /\ c # d

Settled ==
    /\ \A h \in Handlers : call[h].at = "idle"
    /\ \A s \in Sessions : sess[s].open # "closed"

\* With one packet handled at a time the client of everybody who is there sees
\* its friends as they are: a login, a logout, a reconnect over a second
\* session and a broken connection have reached every friend's list
\* (NotifyBuddyPresence "refreshes the member list of every online friend when
\* a character enters or leaves ChatNode").
PresenceSettles ==
    Settled => \A s \in Sessions : \A b \in Chars :
               sess[s].open = "open" /\ sess[s].login /\ told[s][b] # Nil
                 => told[s][b] \in buddyPresence(b)

\* With one packet handled at a time no request to see an equipment waits for a
\* character that is gone: it is there, or was when the request was noted and
\* every way of leaving removes it (ClearEquipmentViewRequests).
ViewsLive == Settled => \A v \in views : Online(v[1])

\* ClearBuddyInvites: "Without this cleanup, a stale invitation could block a
\* new request until the ChatServer process is restarted".
InvitesLive ==
    Settled => \A t \in Chars : invites[t] # Nil =>
               \A c \in {t, invites[t]} :
                 \E s \in Sessions : sess[s].open = "open" /\ Owner[s] = c
=============================================================================

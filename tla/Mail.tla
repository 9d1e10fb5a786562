-------------------------------- MODULE Mail --------------------------------
(***************************************************************************)
(* Mail with attached Alz and items: the handlers of the game server       *)
(* (cmd/gameserver/packet/mail.go), the transactions of the master server  *)
(* (cmd/masterserver/rpc/mail.go) and the notification and the lists of    *)
(* the chat server (cmd/chatserver/chat/chat.go).                          *)
(*                                                                         *)
(* A handler, call[h], is the goroutine of one packet together with the    *)
(* transaction that serves it.  The rows a transaction locks with FOR      *)
(* UPDATE are read and written in one step; the reads it makes without a   *)
(* lock are steps of their own.  Each character is of another account.     *)
(* Names, titles, contents, the mark of a mail that was read, which nobody *)
(* asks for, and reads without effect (LoadMailDetail, ReportMail) are     *)
(* left out.                                                               *)
(***************************************************************************)
EXTENDS Integers, FiniteSets, FiniteSetsExt

CONSTANTS
    Chars,          \* characters
    Items,          \* items that exist once
    Slots,          \* slots of an inventory, an interval from 0
    Handlers,       \* goroutines
    Amounts,        \* values of Alz a client may attach
    StartAlz,       \* Alz of each character at first
    StartItems,     \* items of each character at first: slot -> item
    AttachmentFee,  \* mail.AttachmentFee
    MaxAlz,         \* the largest uint64
    MaxMailbox,     \* mail.MaxMailbox
    MaxMails,       \* bound: ids the table hands out
    UpdateCount,    \* the mails one update packet has room for
    None

ASSUME AlzAssumption ==
    /\ AttachmentFee \in Nat /\ MaxAlz \in Nat /\ Amounts \subseteq 0 .. MaxAlz
    /\ StartAlz \in [Chars -> 0 .. MaxAlz]
ASSUME StartAssumption ==
    /\ StartItems \in [Chars -> [Slots -> Items \cup {None}]] /\ None \notin Chars \cup Items
    /\ \A c, d \in Chars : \A s, t \in Slots :         \* an item is in one slot at first
         StartItems[c][s] = StartItems[d][t] /\ StartItems[c][s] # None => c = d /\ s = t
ASSUME FiniteAssumption == IsFiniteSet(Chars) /\ IsFiniteSet(Slots) /\ Slots \subseteq Nat
ASSUME BoundAssumption == MaxMailbox \in Nat /\ MaxMails \in Nat /\ UpdateCount \in Nat

VARIABLES
    alz,            \* characters.alz
    items,          \* characters_inventory: slot -> item
    mails,          \* characters_mail by id; ids are not used again
    fees,           \* Alz paid for attachments so far
    charAlz,        \* ctx.Char.Alz of the game server
    charItems,      \* ctx.Char.Inventory of the game server
    notices,        \* characters notifyMailReceived is about to notify
    rung,           \* characters whose client has a notification to answer
    known,          \* ids of received mails each client has been told of
    call            \* what each goroutine is doing

master == <<alz, items, mails, fees>>
game == <<charAlz, charItems>>
chat == <<notices, rung, known>>
vars == <<master, game, chat, call>>

Ids == 1 .. MaxMails
NoSlot == -1          \* "no slot" of the client: none attached, or any free one
Unused == [is |-> "unused"]
Removed == [is |-> "removed"]
There(i) == mails[i].is = "row"

Idle == [at |-> "idle", c |-> None, id |-> 0, peer |-> None, alz |-> 0, item |-> None, slot |-> NoSlot]

Init ==
    /\ alz = StartAlz /\ charAlz = StartAlz
    /\ items = StartItems /\ charItems = StartItems
    /\ mails = [i \in Ids |-> Unused] /\ fees = 0
    /\ notices = {} /\ rung = {} /\ known = [c \in Chars |-> {}]
    /\ call = [h \in Handlers |-> Idle]

Becomes(h, c) == call' = [call EXCEPT ![h] = c]
Request(h, c) == call[h].at = "idle" /\ Becomes(h, c) /\ UNCHANGED <<master, game, chat>>

\* deleted_receiver = 0 AND receiver_id = c
Received(i, c) == There(i) /\ mails[i].to = c /\ ~mails[i].delReceiver
Box(c) == {i \in Ids : Received(i, c)}

\* A read or a check of the master ends the request without a change.
Fails(h) == Becomes(h, Idle) /\ UNCHANGED <<master, game, chat>>

----------------------------------------------------------------------------
(* Sending. *)

\* The item is taken from the game server's copy of the inventory.
MailSend(h, c, to, amount, slot) ==
    /\ slot # NoSlot => charItems[c][slot] # None
    /\ Request(h, [at |-> "send", c |-> c, id |-> 0, peer |-> to, alz |-> amount,
                   item |-> IF slot = NoSlot THEN None ELSE charItems[c][slot], slot |-> slot])

\* SendMail: the receiver is of another account and its mailbox has room ...
SendMailCheck(h) ==
    LET r == call[h] IN
    /\ r.at = "send"
    /\ IF r.c = r.peer \/ Cardinality(Box(r.peer)) >= MaxMailbox
       THEN Fails(h)
       ELSE Becomes(h, [r EXCEPT !.at = "post"]) /\ UNCHANGED <<master, game, chat>>

Fee(r) == IF r.alz > 0 \/ r.item # None THEN AttachmentFee ELSE 0

\* ... then with the rows of the sender and of the item locked.
SendMail(h) ==
    LET r == call[h] IN
    /\ r.at = "post"
    /\ IF \/ r.alz > MaxAlz - Fee(r) \/ alz[r.c] < r.alz + Fee(r)
          \/ r.item # None /\ items[r.c][r.slot] # r.item
       THEN Fails(h)
       ELSE \E i \in Ids :
              /\ mails[i] = Unused /\ \A j \in 1 .. (i - 1) : mails[j] # Unused
              /\ mails' = [mails EXCEPT ![i] =
                     [is |-> "row", from |-> r.c, to |-> r.peer, type |-> "user", state |-> {},
                      alz |-> r.alz, item |-> r.item, delSender |-> FALSE, delReceiver |-> FALSE]]
              /\ items' = IF r.item = None THEN items ELSE [items EXCEPT ![r.c][r.slot] = None]
              /\ alz' = [alz EXCEPT ![r.c] = @ - r.alz - Fee(r)]
              /\ fees' = fees + Fee(r)
              /\ notices' = notices \cup {r.peer}
              /\ Becomes(h, [r EXCEPT !.at = "alz", !.alz = alz'[r.c]])
              /\ UNCHANGED <<game, rung, known>>

\* A mutant: the item stays in the game server's copy.
setCharacterAlzOnly(h) ==
    LET r == call[h] IN
    /\ r.at = "alz"
    /\ charAlz' = [charAlz EXCEPT ![r.c] = r.alz]
    /\ Becomes(h, Idle)
    /\ UNCHANGED <<master, charItems, chat>>

\* Back on the game server: the balance of the answer ...
setCharacterAlz(h) ==
    LET r == call[h] IN
    /\ r.at = "alz"
    /\ charAlz' = [charAlz EXCEPT ![r.c] = r.alz]
    /\ Becomes(h, IF r.item = None THEN Idle ELSE [r EXCEPT !.at = "remove"])
    /\ UNCHANGED <<master, charItems, chat>>

\* ... and RemoveLocal of the slot.
MailSendRemove(h) ==
    LET r == call[h] IN
    /\ r.at = "remove"
    /\ charItems' = [charItems EXCEPT ![r.c][r.slot] = None]
    /\ Becomes(h, Idle)
    /\ UNCHANGED <<master, charAlz, chat>>

----------------------------------------------------------------------------
(* Taking attachments.  The two are independent of each other. *)

MailReceiveAlz(h, c, i) == Request(h, [Idle EXCEPT !.at = "takeAlz", !.c = c, !.id = i])

\* A mutant: the mail keeps its Alz.
ReceiveMailAlzKeeps(h) ==
    LET r == call[h] IN
    /\ r.at = "takeAlz"
    /\ IF ~Received(r.id, r.c) THEN Fails(h) ELSE
         IF mails[r.id].alz = 0 \/ MaxAlz - alz[r.c] < mails[r.id].alz THEN Fails(h) ELSE
         /\ alz' = [alz EXCEPT ![r.c] = @ + mails[r.id].alz]
         /\ mails' = [mails EXCEPT ![r.id].state = @ \cup {"alz"}]
         /\ Becomes(h, [r EXCEPT !.at = "alz", !.alz = alz'[r.c]])
         /\ UNCHANGED <<items, fees, game, chat>>

\* The rows of the mail and of the character are locked.
ReceiveMailAlz(h) ==
    LET r == call[h] IN
    /\ r.at = "takeAlz"
    /\ IF ~Received(r.id, r.c) THEN Fails(h) ELSE
         IF mails[r.id].alz = 0 \/ MaxAlz - alz[r.c] < mails[r.id].alz THEN Fails(h) ELSE
         /\ alz' = [alz EXCEPT ![r.c] = @ + mails[r.id].alz]
         /\ mails' = [mails EXCEPT ![r.id].alz = 0, ![r.id].state = @ \cup {"alz"}]
         /\ Becomes(h, [r EXCEPT !.at = "alz", !.alz = alz'[r.c]])
         /\ UNCHANGED <<items, fees, game, chat>>

MailReceiveItem(h, c, i, slot) ==
    Request(h, [Idle EXCEPT !.at = "takeItem", !.c = c, !.id = i, !.slot = slot])

FreeSlots(c) == {s \in Slots : items[c][s] = None}

\* A mutant: the attachment stays.
ReceiveMailItemKeeps(h) ==
    LET r == call[h] IN
    /\ r.at = "takeItem"
    /\ IF ~Received(r.id, r.c) THEN Fails(h) ELSE
         IF mails[r.id].item = None \/ FreeSlots(r.c) = {} THEN Fails(h) ELSE
         \E s \in FreeSlots(r.c) :
           /\ items' = [items EXCEPT ![r.c][s] = mails[r.id].item]
           /\ mails' = [mails EXCEPT ![r.id].state = @ \cup {"item"}]
           /\ Becomes(h, [r EXCEPT !.at = "set", !.item = mails[r.id].item, !.slot = s])
           /\ UNCHANGED <<alz, fees, game, chat>>

\* The row of the mail is locked; the key of the inventory refuses a second
\* item in a slot.
ReceiveMailItem(h) ==
    LET r == call[h]
        slots == IF r.slot # NoSlot THEN {r.slot} \cap FreeSlots(r.c)
                 ELSE {s \in FreeSlots(r.c) : \A t \in FreeSlots(r.c) : s <= t} IN
    /\ r.at = "takeItem"
    /\ IF ~Received(r.id, r.c) THEN Fails(h) ELSE
         IF mails[r.id].item = None \/ slots = {} THEN Fails(h) ELSE
         \E s \in slots :
           /\ items' = [items EXCEPT ![r.c][s] = mails[r.id].item]
           /\ mails' = [mails EXCEPT ![r.id].item = None, ![r.id].state = @ \cup {"item"}]
           /\ Becomes(h, [r EXCEPT !.at = "set", !.item = mails[r.id].item, !.slot = s])
           /\ UNCHANGED <<alz, fees, game, chat>>

\* SetLocal of the game server's copy.
MailReceiveItemSet(h) ==
    LET r == call[h] IN
    /\ r.at = "set"
    /\ charItems' = [charItems EXCEPT ![r.c][r.slot] = r.item]
    /\ Becomes(h, Idle)
    /\ UNCHANGED <<master, charAlz, chat>>

----------------------------------------------------------------------------
(* Returning and deleting. *)

MailReturn(h, c, i) == Request(h, [Idle EXCEPT !.at = "return", !.c = c, !.id = i])

\* A mail of which something was taken stays; the mailbox of its sender has room ...
ReturnMailCheck(h) ==
    LET r == call[h] IN
    /\ r.at = "return"
    /\ IF ~Received(r.id, r.c) THEN Fails(h) ELSE
         IF \/ mails[r.id].state \cap {"alz", "item"} # {}
            \/ Cardinality(Box(mails[r.id].from)) >= MaxMailbox
         THEN Fails(h)
         ELSE /\ Becomes(h, [r EXCEPT !.at = "turn", !.peer = mails[r.id].from])
              /\ UNCHANGED <<master, game, chat>>

\* ... and the row, which has been locked since it was read, changes sides.
ReturnMail(h) ==
    LET r == call[h] IN
    /\ r.at = "turn"
    /\ IF ~Received(r.id, r.c) THEN Fails(h) ELSE
         IF mails[r.id].state \cap {"alz", "item"} # {} \/ mails[r.id].from # r.peer
         THEN Fails(h)
         ELSE /\ mails' = [mails EXCEPT ![r.id] =
                     [@ EXCEPT !.from = r.c, !.to = r.peer, !.type = "returned", !.state = {},
                               !.delSender = FALSE, !.delReceiver = FALSE]]
              /\ notices' = notices \cup {r.peer}
              /\ Becomes(h, Idle)
              /\ UNCHANGED <<alz, items, fees, game, rung, known>>

MailDeleteReceived(h, c, i) == Request(h, [Idle EXCEPT !.at = "erase", !.c = c, !.id = i])

\* DeleteReceivedMail, without a transaction: nothing is attached any more ...
DeleteReceivedCheck(h) ==
    LET r == call[h] IN
    /\ r.at = "erase"
    /\ IF ~Received(r.id, r.c) THEN Fails(h) ELSE
         IF mails[r.id].alz # 0 \/ mails[r.id].item # None THEN Fails(h)
         ELSE Becomes(h, [r EXCEPT !.at = "mark"]) /\ UNCHANGED <<master, game, chat>>

\* ... the row is marked ...
DeleteReceivedMail(h) ==
    LET r == call[h] IN
    /\ r.at = "mark"
    /\ IF ~Received(r.id, r.c) THEN Fails(h)
       ELSE /\ mails' = [mails EXCEPT ![r.id].delReceiver = TRUE]
            /\ Becomes(h, [r EXCEPT !.at = "cleanup"])
            /\ UNCHANGED <<alz, items, fees, game, chat>>

DeleteSentMail(h, c, i) ==
    /\ call[h].at = "idle" /\ There(i)
    /\ mails[i].from = c /\ ~mails[i].delSender
    /\ mails' = [mails EXCEPT ![i].delSender = TRUE]
    /\ Becomes(h, [Idle EXCEPT !.at = "cleanup", !.c = c, !.id = i])
    /\ UNCHANGED <<alz, items, fees, game, chat>>

\* ... and removed once both sides have marked it.
cleanupDeletedMail(h) ==
    LET i == call[h].id
        both == IF There(i) THEN mails[i].delSender /\ mails[i].delReceiver ELSE FALSE IN
    /\ call[h].at = "cleanup"
    /\ mails' = IF both THEN [mails EXCEPT ![i] = Removed] ELSE mails
    /\ Becomes(h, Idle)
    /\ UNCHANGED <<alz, items, fees, game, chat>>

----------------------------------------------------------------------------
(* The chat server. *)

\* A mutant: the session of the character is passed over.
NotifyMailReceivedMissed(c) ==
    /\ c \in notices
    /\ notices' = notices \ {c}
    /\ UNCHANGED <<master, game, rung, known, call>>

\* notifyMailReceived calls the chat server, which tells the client.
NotifyMailReceived(c) ==
    /\ c \in notices
    /\ notices' = notices \ {c} /\ rung' = rung \cup {c}
    /\ UNCHANGED <<master, game, known, call>>

\* The chat server is away, or the client is not logged in there.
NotifyMailLost(c) ==
    /\ c \in notices
    /\ notices' = notices \ {c}
    /\ UNCHANGED <<master, game, rung, known, call>>

\* The newest n of some mails.
Newest(n, ids) == {i \in ids : Cardinality({j \in ids : j > i}) < n}

\* sendMailList: the client opens its mailbox.
sendMailList(c) ==
    /\ known' = [known EXCEPT ![c] = Newest(MaxMailbox, Box(c))]
    /\ UNCHANGED <<master, game, notices, rung, call>>

\* sendMailUpdate: the client answers a notification with the last id it knows.
sendMailUpdate(c) ==
    LET last == IF known[c] = {} THEN 0 ELSE Max(known[c]) IN
    /\ c \in rung
    /\ known' = [known EXCEPT ![c] =
           @ \cup Newest(UpdateCount, Newest(MaxMailbox, {i \in Box(c) : i > last}))]
    /\ rung' = rung \ {c}
    /\ UNCHANGED <<master, game, notices, call>>

----------------------------------------------------------------------------

\* A call fails before the master has acted, or its answer is lost.
CallFails(h) ==
    /\ call[h].at \notin {"idle", "remove"}
    /\ Fails(h)

SendPacket(h, senders, amounts, slots) ==
    \E c \in senders, to \in Chars, amount \in amounts, slot \in slots : MailSend(h, c, to, amount, slot)

MailboxPacket(h, slots) ==
    \E c \in Chars :
      \E i \in {j \in Ids : mails[j] # Unused} :
        \/ MailReceiveAlz(h, c, i) \/ MailReturn(h, c, i)
        \/ MailDeleteReceived(h, c, i) \/ DeleteSentMail(h, c, i)
        \/ \E slot \in slots : MailReceiveItem(h, c, i, slot)

Packet(h) == SendPacket(h, Chars, Amounts, Slots \cup {NoSlot}) \/ MailboxPacket(h, Slots \cup {NoSlot})

Step(h) ==
    \/ SendMailCheck(h) \/ SendMail(h) \/ setCharacterAlz(h) \/ MailSendRemove(h)
    \/ ReceiveMailAlz(h) \/ ReceiveMailItem(h) \/ MailReceiveItemSet(h)
    \/ ReturnMailCheck(h) \/ ReturnMail(h)
    \/ DeleteReceivedCheck(h) \/ DeleteReceivedMail(h) \/ cleanupDeletedMail(h)

ChatStep == \E c \in Chars : NotifyMailReceived(c) \/ sendMailList(c) \/ sendMailUpdate(c)

Next ==
    \/ \E h \in Handlers : Packet(h) \/ Step(h) \/ CallFails(h)
    \/ ChatStep \/ \E c \in Chars : NotifyMailLost(c)

Spec == Init /\ [][Next]_vars

----------------------------------------------------------------------------
(* Properties. *)

Rows ==
    [is : {"row"}, from : Chars, to : Chars, type : {"user", "returned"},
     state : SUBSET {"alz", "item"}, alz : 0 .. MaxAlz, item : Items \cup {None},
     delSender : BOOLEAN, delReceiver : BOOLEAN]

TypeOK ==
    /\ alz \in [Chars -> 0 .. MaxAlz] /\ charAlz \in [Chars -> 0 .. MaxAlz]
    /\ items \in [Chars -> [Slots -> Items \cup {None}]]
    /\ charItems \in [Chars -> [Slots -> Items \cup {None}]]
    /\ mails \in [Ids -> {Unused, Removed} \cup Rows]
    /\ fees \in Nat
    /\ notices \subseteq Chars /\ rung \subseteq Chars /\ known \in [Chars -> SUBSET Ids]

\* The mails whose attachments somebody can still take.
Open == {i \in Ids : There(i) /\ ~mails[i].delReceiver}

\* The Alz that waits in each of them, and what the values of a function add up to.
Waiting == [i \in Ids |-> IF i \in Open THEN mails[i].alz ELSE 0]
Total(f) == MapThenSumSet(LAMBDA x : f[x], DOMAIN f)

\* Alz is neither made nor lost: what the characters have, what waits in mails
\* that can still be opened and the fees add up, whatever packets overlap,
\* whichever calls fail and whichever side deletes (SendMail, ReceiveMailAlz,
\* ReturnMail, DeleteReceivedMail, cleanupDeletedMail).
AlzKept == Total(alz) + Total(Waiting) + fees = Total(StartAlz)

\* The items there are, the slots one of them is in and the mails it waits in.
Goods == {StartItems[c][s] : c \in Chars, s \in Slots} \ {None}
SlotsOf(x) == {p \in Chars \X Slots : items[p[1]][p[2]] = x}
MailsOf(x) == {i \in Open : mails[i].item = x}

\* An item is in one slot of one character or attached to one mail that can
\* still be opened, and nowhere else (SendMail, ReceiveMailItem, ReturnMail).
ItemOnce == \A x \in Goods : Cardinality(SlotsOf(x)) + Cardinality(MailsOf(x)) = 1

Quiet == \A h \in Handlers : call[h].at = "idle"

\* With one packet at a time and a master that answers, the balance and the
\* inventory the game server shows are those of the database (setCharacterAlz,
\* RemoveLocal and SetLocal after the answer).
CopiesFollow == Quiet => charAlz = alz /\ charItems = items

\* When a client has answered its notifications it knows of every mail somebody
\* has sent to it and that is still in its mailbox (NotifyMailReceived: "the
\* client requests the actual mail data with packet 2007 after receiving it").
KnowsNew ==
    Quiet => \A c \in Chars \ (notices \cup rung) :
               \A i \in Box(c) : mails[i].type = "user" => i \in known[c]

\* The same of every mail: notifyMailReceived says that a mail "remains in the
\* database and will be returned by the normal mailbox list/update request".
KnowsAll == Quiet => \A c \in Chars \ (notices \cup rung) : Box(c) \subseteq known[c]
=============================================================================

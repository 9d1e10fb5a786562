------------------------------- MODULE Lobby --------------------------------
(***************************************************************************)
(* Login, lobby and the way into the world and back, for one account.  A   *)
(* client has a connection to the login server and one to a game server.   *)
(* The login server answers Normal when no game server has the account     *)
(* online, and Online otherwise.  Whoever has the account id of either     *)
(* answer can have a game session verified, and a verified game session    *)
(* another one (change of channel) or a connection to the login server.    *)
(* An account id carries, as history, the client whose login it is of.     *)
(* In the lobby the session keeps                                          *)
(* a copy of the characters and of the secondary password; the master has  *)
(* the rows.  Every call is a request, its service by the master and its   *)
(* answer, and may fail before or after it was served.                     *)
(***************************************************************************)
EXTENDS Integers

CONSTANTS Clients,   \* programs that play the account
          Slots,     \* character slots of the account
          Places,    \* where a character can stand
          Start,     \* where a new character stands
          Secrets,   \* secondary passwords and answers
          MaxFails,  \* bound: calls that fail
          None

ASSUME StartAssumption == Start \in Places

\* A character of a session, the secondary password and the list of characters.
Character == [slot : Slots, pos : Places]
Secret == [pw : Secrets \cup {None}, answer : Secrets \cup {None}]
List == [Slots -> Places \cup {None}]

\* A call: what it asks for, how far it is, its slot, and its argument or
\* answer.
Ops == {"fetch", "load", "create", "delete", "password", "reload", "enter", "save",
        "set", "check", "remove"}
Values == {None} \cup Places \cup List \cup Character \cup Secret
Call == [op : Ops, st : {"asked", "ok", "failed"}, slot : Slots \cup {None}, val : Values]

ASSUME NoneAssumption == None \notin Clients \cup Places \cup Slots \cup Secrets \cup Character \cup Call

VARIABLES
    login,     \* connection to the login server
    sess,      \* session of a game server
    call,      \* call the packet handler of the session waits for, or None
    bye,       \* OnClientDisconnect of the session
    rows,      \* characters: slot -> place, or None
    subRow,    \* sub_password: password and answer, or None
    up,        \* the master runs
    fails,     \* calls that failed
    where,     \* history: where the character of a slot stands
    shown      \* history: the user has set or shown the stored secret since the fetch

vars == <<login, sess, call, bye, rows, subRow, up, fails, where, shown>>

NoList == [s \in Slots |-> None]
NoSecret == [pw |-> None, answer |-> None]

\* from: the login that the account id is of, or None without one; asked: the
\* logins of the requests under way to verify the connection or session.
NoLogin == [st |-> "out", from |-> None, asked |-> {}]
Nobody == [conn |-> "none", listed |-> FALSE, from |-> None, asked |-> {}, list |-> NoList,
           sub |-> NoSecret, subVerified |-> FALSE, charVerified |-> FALSE,
           char |-> None, at |-> "start"]
NoBye == [st |-> "no", char |-> None]

Init ==
    /\ login = [c \in Clients |-> NoLogin]
    /\ sess = [c \in Clients |-> Nobody]
    /\ call = [c \in Clients |-> None]
    /\ bye = [c \in Clients |-> NoBye]
    /\ rows = NoList
    /\ subRow = NoSecret
    /\ up = TRUE
    /\ fails = 0
    /\ where = NoList
    /\ shown = [c \in Clients |-> FALSE]

----------------------------------------------------------------------------
(* Login.                                                                  *)

InTable(c) == sess[c].listed /\ sess[c].from # None

\* Mutant: a session that is being closed is not found.
IsOnlineOpen(c) == InTable(c) /\ sess[c].conn = "open"

IsOnline(c) == InTable(c)

\* AuthAccount, up to its call.
AuthAccount(c) ==
    /\ login[c].st # "checking"
    /\ login' = [login EXCEPT ![c].st = "checking"]
    /\ UNCHANGED <<sess, call, bye, rows, subRow, up, fails, where, shown>>

\* The account id comes with either answer.
AuthAnswered(c, st) == login' = [login EXCEPT ![c].st = st, ![c].from = c]

\* AuthCheck asks the game servers, and AuthAccount gets the status.
AuthCheck(c) ==
    /\ login[c].st = "checking"
    /\ AuthAnswered(c, IF \E d \in Clients : IsOnline(d) THEN "double" ELSE "in")
    /\ UNCHANGED <<sess, call, bye, rows, subRow, up, fails, where, shown>>

\* Either call fails: the client is turned away and keeps the account id it may
\* have, or the account counts as offline.
AuthFails(c) ==
    /\ login[c].st = "checking" /\ fails < MaxFails
    /\ login' = [login EXCEPT ![c].st = "out"] \/ AuthAnswered(c, "in")
    /\ fails' = fails + 1
    /\ UNCHANGED <<sess, call, bye, rows, subRow, up, where, shown>>

\* Session.Close: the two handlers of the disconnect event follow in
\* goroutines of their own.
Close(d) ==
    /\ sess[d].conn = "open"
    /\ sess' = [sess EXCEPT ![d].conn = "closed"]
    /\ bye' = [bye EXCEPT ![d].st = "wait"]

\* The user has the other login thrown out: any account id will do.
FDisconnect(c) ==
    /\ login[c].from # None
    /\ \E d \in Clients : IsOnline(d) /\ Close(d)
    /\ UNCHANGED <<login, call, rows, subRow, up, fails, where, shown>>

Connect(c) ==
    /\ sess[c].conn = "none"
    /\ sess' = [sess EXCEPT ![c].conn = "open", ![c].listed = TRUE]
    /\ UNCHANGED <<login, call, bye, rows, subRow, up, fails, where, shown>>

\* UserVerify of the master passes the request on, to the game server of d or
\* (server 128) to the login server.  A request for a session that is not in the
\* table finds nothing.
UserVerify(from, d) ==
    \/ /\ sess[d].listed
       /\ sess' = [sess EXCEPT ![d].asked = @ \cup {from}]
       /\ UNCHANGED login
    \/ /\ login' = [login EXCEPT ![d].asked = @ \cup {from}]
       /\ UNCHANGED sess

\* The login server asks for whoever has an account id, whatever status came
\* with it.
VerifyLinks(c, d) ==
    /\ login[c].from # None
    /\ UserVerify(login[c].from, d)
    /\ UNCHANGED <<call, bye, rows, subRow, up, fails, where, shown>>

\* So does the game server: the client changes the channel or goes back to the
\* login server, and is still here when its other session is verified.
ServerVerifyLinks(c, d) ==
    /\ sess[c].conn = "open" /\ sess[c].from # None
    /\ UserVerify(sess[c].from, d)
    /\ UNCHANGED <<call, bye, rows, subRow, up, fails, where, shown>>

\* Network.VerifyUser of the game server.
VerifyUser(d) ==
    /\ sess[d].listed
    /\ \E from \in sess[d].asked :
         sess' = [sess EXCEPT ![d].from = from, ![d].asked = @ \ {from}]
    /\ UNCHANGED <<login, call, bye, rows, subRow, up, fails, where, shown>>

\* The same of the login server.
VerifyLogin(d) ==
    /\ \E from \in login[d].asked :
         login' = [login EXCEPT ![d].from = from, ![d].asked = @ \ {from},
                                ![d].st = IF @ = "checking" THEN @ ELSE "in"]
    /\ UNCHANGED <<sess, call, bye, rows, subRow, up, fails, where, shown>>

\* A request that does not arrive.
VerifyFails(d) ==
    /\ fails < MaxFails
    /\ \/ /\ \E from \in sess[d].asked : sess' = [sess EXCEPT ![d].asked = @ \ {from}]
          /\ UNCHANGED login
       \/ /\ \E from \in login[d].asked : login' = [login EXCEPT ![d].asked = @ \ {from}]
          /\ UNCHANGED sess
    /\ fails' = fails + 1
    /\ UNCHANGED <<call, bye, rows, subRow, up, where, shown>>

\* The connection to the login server ends; its session leaves the table.
LeaveLogin(c) ==
    /\ login[c] # NoLogin
    /\ login' = [login EXCEPT ![c] = NoLogin]
    /\ UNCHANGED <<sess, call, bye, rows, subRow, up, fails, where, shown>>

----------------------------------------------------------------------------
(* The end of a session.                                                   *)

\* RequestDisconnects, or the client is gone.
Disconnect(c) ==
    /\ Close(c)
    /\ UNCHANGED <<login, call, rows, subRow, up, fails, where, shown>>

\* No request finds the session any more.
NetworkRemoves(c) ==
    /\ sess[c].conn = "closed" /\ sess[c].listed
    /\ sess' = [sess EXCEPT ![c].listed = FALSE, ![c].asked = {}]
    /\ UNCHANGED <<login, call, bye, rows, subRow, up, fails, where, shown>>

\* SaveCharacterPosition, for the character the context has: it keeps it when
\* the client returns to the lobby.
OnClientDisconnect(c) ==
    /\ bye[c].st = "wait"
    /\ bye' = [bye EXCEPT ![c] = [st |-> IF sess[c].char = None THEN "done" ELSE "save",
                                  char |-> sess[c].char]]
    /\ UNCHANGED <<login, sess, call, rows, subRow, up, fails, where, shown>>

\* SavePosition of the master: an update, of a row that may be gone.
Positioned(char) ==
    IF rows[char.slot] = None THEN rows ELSE [rows EXCEPT ![char.slot] = char.pos]

LastSave(c) ==
    /\ bye[c].st = "save"
    /\ rows' = Positioned(bye[c].char)
    /\ bye' = [bye EXCEPT ![c] = [NoBye EXCEPT !.st = "done"]]
    /\ UNCHANGED <<login, sess, call, subRow, up, fails, where, shown>>

LastSaveFails(c) ==
    /\ bye[c].st = "save" /\ fails < MaxFails
    /\ bye' = [bye EXCEPT ![c] = [NoBye EXCEPT !.st = "done"]]
    /\ fails' = fails + 1
    /\ UNCHANGED <<login, sess, call, rows, subRow, up, where, shown>>

\* Nothing refers to the session any more.
Forgotten(c) ==
    /\ sess[c].conn = "closed" /\ ~sess[c].listed /\ bye[c].st = "done" /\ call[c] = None
    /\ sess' = [sess EXCEPT ![c] = Nobody]
    /\ bye' = [bye EXCEPT ![c] = NoBye]
    /\ shown' = [shown EXCEPT ![c] = FALSE]
    /\ UNCHANGED <<login, call, rows, subRow, up, fails, where>>

----------------------------------------------------------------------------
(* Packets of the lobby, up to their call.  The client sends the next one  *)
(* when the last one was handled, the packets of the lobby after it asked  *)
(* for its list, and none of them from the world.                          *)

Request(op, slot, val) == [op |-> op, st |-> "asked", slot |-> slot, val |-> val]

Ready(c) == sess[c].conn = "open" /\ call[c] = None
InLobby(c) == Ready(c) /\ sess[c].at = "lobby"

Ask(c, op, slot, val) ==
    /\ call' = [call EXCEPT ![c] = Request(op, slot, val)]
    /\ UNCHANGED <<login, bye, rows, subRow, up, fails, where, shown>>

GetMyChartr(c) ==
    /\ Ready(c) /\ sess[c].at # "world"
    /\ \/ /\ sess[c].from # None
          /\ Ask(c, "fetch", None, None)
          /\ UNCHANGED sess
       \/ /\ sess[c].from = None
          /\ Close(c)
          /\ UNCHANGED <<login, call, rows, subRow, up, fails, where, shown>>

NewMyChartr(c, slot) ==
    /\ InLobby(c)
    /\ sess[c].list[slot] = None
    /\ Ask(c, "create", slot, None)
    /\ UNCHANGED sess

\* Any character of the account, in the list or not.
DelMyChartr(c, slot) ==
    /\ InLobby(c)
    /\ sess[c].charVerified
    /\ sess[c].sub.pw # None => sess[c].subVerified
    /\ Ask(c, "delete", slot, None)
    /\ UNCHANGED sess

CheckUserPrivacyData(c) ==
    /\ InLobby(c)
    /\ Ask(c, "password", None, None)
    /\ UNCHANGED sess

\* The list is loaded again only when it is empty.
Initialized(c, slot) ==
    /\ Ready(c) /\ sess[c].at # "world" /\ sess[c].from # None
    /\ \/ sess[c].list = NoList /\ Ask(c, "reload", slot, None)
       \/ sess[c].list[slot] # None /\ Ask(c, "enter", slot, sess[c].list[slot])
    /\ UNCHANGED sess

\* Movement of the character, whatever packets it takes.
Walk(c, place) ==
    /\ Ready(c) /\ sess[c].at = "world"
    /\ sess' = [sess EXCEPT ![c].char.pos = place]
    /\ where' = IF where[sess[c].char.slot] = None THEN where
                ELSE [where EXCEPT ![sess[c].char.slot] = place]
    /\ UNCHANGED <<login, call, bye, rows, subRow, up, fails, shown>>

Uninitialze(c) ==
    /\ Ready(c) /\ sess[c].at = "world"
    /\ Ask(c, "save", None, sess[c].char)
    /\ UNCHANGED sess

----------------------------------------------------------------------------
(* The secondary password.                                                 *)

\* The handlers that compare with the copy of the session and no more.
Proves(c, secret, stored) ==
    /\ InLobby(c)
    /\ secret # None
    /\ sess' = [sess EXCEPT ![c].subVerified = TRUE]
    /\ shown' = [shown EXCEPT ![c] = @ \/ secret = stored]
    /\ UNCHANGED <<login, call, bye, rows, subRow, up, fails, where>>

SubPasswordFind(c) == Proves(c, sess[c].sub.answer, subRow.answer)
SubPasswordDelRequest(c) == Proves(c, sess[c].sub.pw, subRow.pw)
SubPasswordChangeQARequest(c) == Proves(c, sess[c].sub.pw, subRow.pw)
CharacterDeleteCheckSubPassword(c) == Proves(c, sess[c].sub.pw, subRow.pw)

\* Writes the copy, with a new expiry, and is verified when that succeeds.
SubPasswordCheck(c) ==
    /\ InLobby(c)
    /\ sess[c].sub.pw # None
    /\ call' = [call EXCEPT ![c] = Request("check", None, sess[c].sub)]
    /\ shown' = [shown EXCEPT ![c] = @ \/ sess[c].sub.pw = subRow.pw]
    /\ UNCHANGED <<login, sess, bye, rows, subRow, up, fails, where>>

First(c) == sess[c].sub.pw = None

Set(c, secret) == [pw |-> secret, answer |-> IF First(c) THEN secret ELSE sess[c].sub.answer]

\* Mutant: a password that exists is replaced without having been shown.
SubPasswordSetUnasked(c, secret) ==
    /\ InLobby(c)
    /\ sess' = [sess EXCEPT ![c].sub = Set(c, secret), ![c].subVerified = TRUE]
    /\ Ask(c, "set", None, Set(c, secret))

\* The first password needs no proof.
SubPasswordSet(c, secret) ==
    /\ InLobby(c)
    /\ First(c) \/ sess[c].subVerified
    /\ sess' = [sess EXCEPT ![c].sub = Set(c, secret), ![c].subVerified = TRUE]
    /\ Ask(c, "set", None, Set(c, secret))

\* A first password that is too short leaves the session verified.
SubPasswordTooShort(c) ==
    /\ InLobby(c)
    /\ First(c)
    /\ sess' = [sess EXCEPT ![c].subVerified = TRUE]
    /\ UNCHANGED <<login, call, bye, rows, subRow, up, fails, where, shown>>

SubPasswordChangeQA(c, secret) ==
    /\ InLobby(c)
    /\ sess[c].subVerified
    /\ sess' = [sess EXCEPT ![c].sub.answer = secret]
    /\ Ask(c, "set", None, [sess[c].sub EXCEPT !.answer = secret])

SubPasswordDel(c) ==
    /\ InLobby(c)
    /\ sess[c].subVerified
    /\ Ask(c, "remove", None, None)
    /\ UNCHANGED sess

----------------------------------------------------------------------------
(* The master.                                                             *)

Serving(c, op) == call[c] # None /\ call[c].op = op /\ call[c].st = "asked" /\ up

\* What the caller gets, of a call that changes nothing else of it.
Served(c, val) == call' = [call EXCEPT ![c].st = "ok", ![c].val = val]
Refused(c) == call' = [call EXCEPT ![c].st = "failed"]

FetchSubPassword(c) ==
    /\ Serving(c, "fetch")
    /\ Served(c, subRow)
    /\ UNCHANGED <<login, sess, bye, rows, subRow, up, fails, where, shown>>

LoadCharacters(c) ==
    /\ Serving(c, "load") \/ Serving(c, "reload")
    /\ Served(c, rows)
    /\ UNCHANGED <<login, sess, bye, rows, subRow, up, fails, where, shown>>

\* The name may be in use; a slot in use is a duplicate key, and the panic of
\* MustExec ends the master.
CreateCharacter(c) ==
    /\ Serving(c, "create")
    /\ \/ Refused(c) /\ UNCHANGED <<rows, up, where>>
       \/ /\ rows[call[c].slot] = None
          /\ Served(c, Start)
          /\ rows' = [rows EXCEPT ![call[c].slot] = Start]
          /\ where' = [where EXCEPT ![call[c].slot] = Start]
          /\ UNCHANGED up
       \/ /\ rows[call[c].slot] # None
          /\ up' = FALSE
          /\ UNCHANGED <<call, rows, where>>
    /\ UNCHANGED <<login, sess, bye, subRow, fails, shown>>

DeleteCharacter(c) ==
    /\ Serving(c, "delete")
    /\ Served(c, None)
    /\ rows' = [rows EXCEPT ![call[c].slot] = None]
    /\ where' = [where EXCEPT ![call[c].slot] = None]
    /\ UNCHANGED <<login, sess, bye, subRow, up, fails, shown>>

PasswdCheck(c) ==
    /\ Serving(c, "password")
    /\ Refused(c) \/ Served(c, None)
    /\ UNCHANGED <<login, sess, bye, rows, subRow, up, fails, where, shown>>

LoadCharacterData(c) ==
    /\ Serving(c, "enter")
    /\ Served(c, call[c].val)
    /\ UNCHANGED <<login, sess, bye, rows, subRow, up, fails, where, shown>>

SavePosition(c) ==
    /\ Serving(c, "save")
    /\ rows' = Positioned(call[c].val)
    /\ Served(c, None)
    /\ UNCHANGED <<login, sess, bye, subRow, up, fails, where, shown>>

SetSubPassword(c) ==
    /\ Serving(c, "set") \/ Serving(c, "check")
    /\ subRow' = call[c].val
    /\ Served(c, None)
    /\ shown' = [shown EXCEPT ![c] = TRUE]
    /\ UNCHANGED <<login, sess, bye, rows, up, fails, where>>

RemoveSubPassword(c) ==
    /\ Serving(c, "remove")
    /\ subRow' = NoSecret
    /\ Served(c, None)
    /\ UNCHANGED <<login, sess, bye, rows, up, fails, where, shown>>

Serve(c) ==
    \/ FetchSubPassword(c) \/ LoadCharacters(c) \/ CreateCharacter(c) \/ DeleteCharacter(c)
    \/ PasswdCheck(c) \/ LoadCharacterData(c) \/ SavePosition(c)
    \/ SetSubPassword(c) \/ RemoveSubPassword(c)

\* The caller is told that the call failed; it may have been served.
CallFails(c) ==
    /\ call[c] # None /\ call[c].st \in {"asked", "ok"} /\ fails < MaxFails
    /\ Refused(c)
    /\ fails' = fails + 1
    /\ UNCHANGED <<login, sess, bye, rows, subRow, up, where, shown>>

----------------------------------------------------------------------------
(* The rest of the packet handlers.                                        *)

Answered(c, op) == call[c] # None /\ call[c].op = op /\ call[c].st # "asked"
Ok(c) == call[c].st = "ok"

Finished(c) ==
    /\ call' = [call EXCEPT ![c] = None]
    /\ UNCHANGED <<login, bye, rows, subRow, up, fails, where, shown>>

\* A failed fetch leaves an empty password.
Fetched(c) ==
    /\ Answered(c, "fetch")
    /\ sess' = [sess EXCEPT ![c].sub = IF Ok(c) THEN call[c].val ELSE NoSecret,
                            ![c].subVerified = FALSE]
    /\ call' = [call EXCEPT ![c] = Request("load", None, None)]
    /\ shown' = [shown EXCEPT ![c] = FALSE]
    /\ UNCHANGED <<login, bye, rows, subRow, up, fails, where>>

Loaded(c) == IF Ok(c) THEN call[c].val ELSE NoList

Listed(c) ==
    /\ Answered(c, "load")
    /\ sess' = [sess EXCEPT ![c].list = Loaded(c), ![c].at = "lobby"]
    /\ Finished(c)

\* Mutant: the new character is not added to the list.
CreatedUnlisted(c) ==
    /\ Answered(c, "create")
    /\ UNCHANGED sess
    /\ Finished(c)

Created(c) ==
    /\ Answered(c, "create")
    /\ sess' = IF Ok(c) THEN [sess EXCEPT ![c].list[call[c].slot] = call[c].val] ELSE sess
    /\ Finished(c)

Deleted(c) ==
    /\ Answered(c, "delete")
    /\ sess' = IF Ok(c)
               THEN [sess EXCEPT ![c].list[call[c].slot] = None, ![c].charVerified = FALSE,
                                 ![c].subVerified = FALSE]
               ELSE sess
    /\ Finished(c)

PasswordChecked(c) ==
    /\ Answered(c, "password")
    /\ sess' = IF Ok(c) THEN [sess EXCEPT ![c].charVerified = TRUE] ELSE sess
    /\ Finished(c)

\* Goes on into the world, or gives up.
Reloaded(c) ==
    /\ Answered(c, "reload")
    /\ sess' = [sess EXCEPT ![c].list = Loaded(c)]
    /\ call' = [call EXCEPT ![c] = IF Loaded(c)[call[c].slot] = None THEN None
                                   ELSE Request("enter", call[c].slot, Loaded(c)[call[c].slot])]
    /\ UNCHANGED <<login, bye, rows, subRow, up, fails, where, shown>>

\* The character is the one of the list, whether its data could be loaded or
\* not.
Entered(c) ==
    /\ Answered(c, "enter")
    /\ sess' = [sess EXCEPT ![c].char = [slot |-> call[c].slot, pos |-> call[c].val],
                            ![c].at = "world"]
    /\ Finished(c)

\* Mutant: the list is kept.
LeftKeepingList(c) ==
    /\ Answered(c, "save")
    /\ sess' = [sess EXCEPT ![c].at = "start"]
    /\ Finished(c)

Left(c) ==
    /\ Answered(c, "save")
    /\ sess' = [sess EXCEPT ![c].at = "start", ![c].list = NoList]
    /\ Finished(c)

\* SubPasswordSet and SubPasswordChangeQA keep their copy whatever the answer.
SecretSet(c) ==
    /\ Answered(c, "set")
    /\ sess' = [sess EXCEPT ![c].subVerified = FALSE]
    /\ Finished(c)

SecretChecked(c) ==
    /\ Answered(c, "check")
    /\ sess' = IF Ok(c) THEN [sess EXCEPT ![c].subVerified = TRUE] ELSE sess
    /\ Finished(c)

SecretRemoved(c) ==
    /\ Answered(c, "remove")
    /\ sess' = IF Ok(c) THEN [sess EXCEPT ![c].sub = NoSecret, ![c].subVerified = FALSE]
                        ELSE sess
    /\ Finished(c)

Return(c) ==
    \/ Fetched(c) \/ Listed(c) \/ Created(c) \/ Deleted(c) \/ PasswordChecked(c)
    \/ Reloaded(c) \/ Entered(c) \/ Left(c)
    \/ SecretSet(c) \/ SecretChecked(c) \/ SecretRemoved(c)

----------------------------------------------------------------------------
Login(c) ==
    \/ AuthAccount(c) \/ AuthCheck(c) \/ FDisconnect(c) \/ LeaveLogin(c)
    \/ VerifyUser(c) \/ VerifyLogin(c)
    \/ \E d \in Clients : VerifyLinks(c, d) \/ ServerVerifyLinks(c, d)

Leaving(c) ==
    NetworkRemoves(c) \/ OnClientDisconnect(c) \/ LastSave(c) \/ Forgotten(c)

Manage(c, slots) ==
    \/ GetMyChartr(c) \/ CheckUserPrivacyData(c)
    \/ \E slot \in slots : NewMyChartr(c, slot) \/ DelMyChartr(c, slot)

Roam(c, slots) ==
    \/ Uninitialze(c)
    \/ \E slot \in slots : Initialized(c, slot)
    \/ \E place \in Places : Walk(c, place)

Secure(c) ==
    \/ SubPasswordFind(c) \/ SubPasswordDelRequest(c) \/ SubPasswordChangeQARequest(c)
    \/ CharacterDeleteCheckSubPassword(c) \/ SubPasswordCheck(c)
    \/ SubPasswordTooShort(c) \/ SubPasswordDel(c)
    \/ \E secret \in Secrets : SubPasswordSet(c, secret) \/ SubPasswordChangeQA(c, secret)

Next ==
    \E c \in Clients :
        \/ Login(c) \/ AuthFails(c) \/ VerifyFails(c) \/ Connect(c) \/ Disconnect(c)
        \/ Leaving(c) \/ LastSaveFails(c)
        \/ Manage(c, Slots) \/ Roam(c, Slots) \/ Secure(c) \/ Serve(c) \/ CallFails(c) \/ Return(c)

Spec == Init /\ [][Next]_vars

----------------------------------------------------------------------------
(* What the properties take for granted.                                   *)

\* The logins under way: of a client that is checked, that was let in, or for
\* which a verification is asked.
Entering ==
    {c \in Clients : login[c].st = "checking"}
      \cup {login[c].from : c \in {d \in Clients : login[d].st = "in"}}
      \cup UNION {sess[c].asked \cup login[c].asked : c \in Clients}

\* One login at a time.
OneLogin == \A a, b \in Entering : a = b

\* The client asks for a verification when its last answer was Normal.
Obeys(c) == \A d \in Clients : VerifyLinks(c, d) => login[c].st = "in"

\* A session begins when nothing refers to the last one any more.
OneSession == \A c, d \in Clients : sess[c].conn # "none" /\ sess[d].conn # "none" => c = d

\* The slot of the character the session has played.
Played(c, slot) == sess[c].char # None /\ sess[c].char.slot = slot

\* No character is created in the place of one the session has played.
NoneReplaced ==
    \A c \in Clients : call[c] # None /\ call[c].op = "create" => ~Played(c, call[c].slot)

\* The secondary password is always fetched.
FetchAnswered ==
    \A c \in Clients : call[c] # None /\ call[c].op = "fetch" => call[c].st # "failed"

----------------------------------------------------------------------------
(* Properties.                                                             *)

\* The verified sessions of the account that are in a table all come from one
\* login: two only while that client changes the channel, never of two clients
\* (the double login check of AuthCheck, which finds a session until the network
\* has removed it).  Under three restrictions, which the code leaves to its
\* clients and to luck: logins do not overlap (OneLogin; the check does not see
\* a client that was let in and is not verified yet, nor one between channels),
\* a client that is told Online does not ask for its verification (Obeys;
\* VerifyLinks would pass it on), and no check fails (a server that does not
\* answer counts as one without the account).
SingleLogin == \A c, d \in Clients : InTable(c) /\ InTable(d) => sess[c].from = sess[d].from

\* A session in the lobby never asks the master for a character in a slot
\* that has one: the master would stop at the duplicate key (NewMyChartr checks
\* its list, which creation and deletion keep up to date).  A creation whose
\* answer is lost leaves a row the list does not have.
AnsweredUp == fails = 0 => up

\* A character is entered where it stands: where it was created, or where it
\* was when it was last left (Initialized takes the position from the list of
\* the session, which Uninitialze drops after SaveCharacterPosition).
EnteredWhereLeft ==
    \A c \in Clients : sess[c].at # "world" /\ sess'[c].at = "world"
      => sess'[c].char.pos = where[sess'[c].char.slot]

\* EnteredWhereLeft, as long as no call fails: a lost save leaves the row of
\* an earlier place.
FreshEntry == [][fails = 0 => EnteredWhereLeft]_vars

\* A stored secondary password is changed or removed only for a user who has
\* set it, or shown it or its answer, since the session fetched it
\* (SubPasswordSet and SubPasswordDel go by the copy of the session).
SecretKept ==
    [][subRow.pw # None /\ subRow'.pw # subRow.pw
         => \E c \in Clients : call[c] # None /\ call'[c] # call[c] /\ shown[c]]_vars

\* A save of the position leaves the character of the row where it stands
\* (position.go, line 12: SaveCharacterPosition "is safe to call when the
\* session is already in the lobby").
SavesTrue ==
    [][\A s \in Slots :
         rows[s] # None /\ rows'[s] \notin {None, rows[s]} => rows'[s] = where[s]]_vars
=============================================================================

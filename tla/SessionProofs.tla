--------------------------- MODULE SessionProofs ---------------------------
(***************************************************************************)
(* Sessions of the game server, for any constants: login, lobby, secondary *)
(* password and the way into the world (Lobby), and the list of jobs every *)
(* session has (SessionJobs).  The properties of the lobby hold of the     *)
(* behaviours in which one login at a time is under way, or one session:   *)
(* these restrictions are named in Lobby and are hypotheses of the         *)
(* theorems.                                                               *)
(***************************************************************************)
EXTENDS Lobby, JobList, FiniteSetTheorems, TLAPS

\* The callers of the job list, in SessionJobs.
VARIABLES proc, owed

----------------------------------------------------------------------------
(* Types, and what a session is.                                           *)

\* The logins whose verification is under way.
Verifying == SUBSET Clients

\* A connection to the login server.
Connection == [st : {"out", "checking", "double", "in"}, from : Clients \cup {None},
               asked : Verifying]

\* A session of the game server.
Session == [conn : {"none", "open", "closed"}, listed : BOOLEAN, from : Clients \cup {None},
            asked : Verifying, list : List, sub : Secret, subVerified : BOOLEAN, charVerified : BOOLEAN,
            char : Character \cup {None}, at : {"start", "lobby", "world"}]

\* The disconnect handler of a session: how far it is and what it saves.
Bye == [st : {"no", "wait", "save", "done"}, char : Character \cup {None}]

\* Types of what does not belong to a session.
RestOK ==
    /\ login \in [Clients -> Connection]
    /\ rows \in List
    /\ subRow \in Secret
    /\ up \in BOOLEAN
    /\ fails \in Nat
    /\ where \in List

\* Types of all variables.
TypeOK ==
    /\ RestOK
    /\ sess \in [Clients -> Session]
    /\ call \in [Clients -> Call \cup {None}]
    /\ bye \in [Clients -> Bye]
    /\ shown \in [Clients -> BOOLEAN]

\* A call k fits its session s: its slot and its value are what its operation
\* reads, only the world saves, and the packets of the lobby come from there.
Fit(k, s) ==
    /\ k.op \in {"create", "delete", "reload", "enter"} => k.slot \in Slots
    /\ k.op = "fetch" /\ k.st = "ok" => k.val \in Secret
    /\ k.op \in {"load", "reload"} /\ k.st = "ok" => k.val \in List
    /\ k.op = "create" /\ k.st = "ok" => k.val \in Places
    /\ k.op = "enter" => k.val \in Places
    /\ k.op = "save" /\ k.st = "asked" => k.val = s.char
    /\ k.op \in {"set", "check"} /\ k.st = "asked" => k.val \in Secret
    /\ k.op = "save" <=> s.at = "world"
    /\ k.op \in {"create", "delete", "password", "set", "check", "remove"} => s.at = "lobby"

\* Session s with call k, disconnect handler b and history w: a session in the
\* world has a character, one that is gone has left nothing behind, and the
\* disconnect handler runs for a closed session only.
Sound(s, k, b, w) ==
    /\ s.at = "world" => s.char # None
    /\ s.conn = "none" => s = Nobody /\ k = None /\ b = NoBye /\ ~w
    /\ s.conn = "closed" <=> b.st # "no"
    /\ b.st = "save" => b.char # None
    /\ k # None => Fit(k, s)

\* The invariant of the types, inductive without any restriction.
Base == TypeOK /\ \A c \in Clients : Sound(sess[c], call[c], bye[c], shown[c])

\* The step writes what belongs to the session of c.
Writes(c, s, k, b, w) ==
    /\ sess' = [sess EXCEPT ![c] = s]
    /\ call' = [call EXCEPT ![c] = k]
    /\ bye' = [bye EXCEPT ![c] = b]
    /\ shown' = [shown EXCEPT ![c] = w]

\* A session that is written soundly keeps the invariant.
LEMMA WriteBase ==
  ASSUME Base, NEW c \in Clients, NEW s \in Session, NEW k \in Call \cup {None}, NEW b \in Bye,
         NEW w \in BOOLEAN, Writes(c, s, k, b, w), Sound(s, k, b, w), RestOK'
  PROVE  Base'
  BY DEF Base, Writes, TypeOK

\* What the invariant says of one session.
LEMMA Typed ==
  ASSUME Base, NEW c \in Clients
  PROVE  /\ sess[c] \in Session /\ call[c] \in Call \cup {None} /\ bye[c] \in Bye /\ shown[c] \in BOOLEAN
         /\ Sound(sess[c], call[c], bye[c], shown[c])
         /\ RestOK
  BY DEF Base, TypeOK

\* A call belongs to a session that is there.
LEMMA Waiting ==
  ASSUME Base, NEW c \in Clients, call[c] # None
  PROVE  sess[c].conn # "none"
  BY Typed DEF Sound

\* A step that leaves the sessions alone keeps the invariant.
LEMMA KeepBase ==
  ASSUME Base, UNCHANGED <<sess, call, bye, shown>>, RestOK'
  PROVE  Base'
  BY DEF Base, TypeOK

\* A call that fits keeps it.
LEMMA CallBase ==
  ASSUME Base, NEW c \in Clients, sess[c].conn # "none", NEW k \in Call \cup {None},
         call' = [call EXCEPT ![c] = k], k # None => Fit(k, sess[c]),
         UNCHANGED <<sess, bye, shown>>, RestOK'
  PROVE  Base'
  <1>1. Sound(sess[c], k, bye[c], shown[c])
    BY Typed DEF Sound
  <1> QED
    BY <1>1 DEF Base, TypeOK

\* So does a session that stays connected, with a call that fits.
LEMMA SessBase ==
  ASSUME Base, NEW c \in Clients, NEW s \in Session, NEW k \in Call \cup {None},
         sess' = [sess EXCEPT ![c] = s], call' = [call EXCEPT ![c] = k],
         UNCHANGED <<bye, shown>>, RestOK',
         sess[c].conn # "none", s.conn = sess[c].conn, s.at = "world" => s.char # None,
         k # None => Fit(k, s)
  PROVE  Base'
  <1>1. Sound(s, k, bye[c], shown[c])
    BY Typed DEF Sound
  <1> QED
    BY <1>1 DEF Base, TypeOK

\* The steps of the login server keep it.
LEMMA LoginBase ==
  ASSUME Base, NEW c \in Clients, AuthAccount(c) \/ AuthCheck(c) \/ AuthFails(c) \/ LeaveLogin(c)
  PROVE  Base'
  <1>1. login' \in [Clients -> Connection] /\ fails' \in Nat
    BY DEF Base, TypeOK, RestOK, AuthAccount, AuthCheck, AuthFails, AuthAnswered, LeaveLogin, NoLogin,
           Connection, Verifying
  <1> QED
    BY <1>1, KeepBase DEF Base, TypeOK, RestOK, AuthAccount, AuthCheck, AuthFails, LeaveLogin

\* Session.Close keeps it.
LEMMA CloseBase ==
  ASSUME Base, NEW d \in Clients, Close(d),
         UNCHANGED <<login, call, rows, subRow, up, fails, where, shown>>
  PROVE  Base'
  <1>1. PICK s, k, b, w : /\ s = [sess[d] EXCEPT !.conn = "closed"]
                          /\ b = [bye[d] EXCEPT !.st = "wait"]
                          /\ k = call[d] /\ w = shown[d]
    OBVIOUS
  <1>2. s \in Session /\ k \in Call \cup {None} /\ b \in Bye /\ w \in BOOLEAN
    BY <1>1, Typed DEF Session, Bye
  <1>3. Sound(s, k, b, w)
    BY <1>1, Typed DEF Close, Sound, Fit, Session, Bye
  <1>4. Writes(d, s, k, b, w) /\ RestOK'
    BY <1>1, Typed DEF Base, TypeOK, Writes, Close, RestOK
  <1> QED
    BY <1>2, <1>3, <1>4, WriteBase

\* A new connection keeps it.
LEMMA ConnectBase ==
  ASSUME Base, NEW c \in Clients, Connect(c)
  PROVE  Base'
  <1>1. PICK s, k, b, w : /\ s = [sess[c] EXCEPT !.conn = "open", !.listed = TRUE]
                          /\ k = call[c] /\ b = bye[c] /\ w = shown[c]
    OBVIOUS
  <1>2. s \in Session /\ k \in Call \cup {None} /\ b \in Bye /\ w \in BOOLEAN
    BY <1>1, Typed DEF Session
  <1>3. Sound(s, k, b, w)
    BY <1>1, Typed DEF Connect, Sound, Session, Nobody, NoBye
  <1>4. Writes(c, s, k, b, w) /\ RestOK'
    BY <1>1, Typed DEF Base, TypeOK, Writes, Connect, RestOK
  <1> QED
    BY <1>2, <1>3, <1>4, WriteBase

\* A step of a verification: requests for session or connection d, or the
\* account id it has.
Verifies(d) ==
    /\ \/ sess' = sess
       \/ /\ sess[d].conn # "none"
          /\ \E from \in Clients \cup {None}, asked \in Verifying :
               sess' = [sess EXCEPT ![d].from = from, ![d].asked = asked]
    /\ login' \in [Clients -> Connection]
    /\ fails' \in {fails, fails + 1}
    /\ UNCHANGED <<call, bye, rows, subRow, up, where, shown>>

\* So are the steps of VerifyLinks and VerifyUser.
LEMMA VerifyCases ==
  ASSUME Base, NEW c \in Clients,
         \/ VerifyUser(c) \/ VerifyLogin(c) \/ VerifyFails(c)
         \/ \E d \in Clients : VerifyLinks(c, d) \/ ServerVerifyLinks(c, d)
  PROVE  \E d \in Clients : Verifies(d)
  <1>1. sess \in [Clients -> Session] /\ login \in [Clients -> Connection]
    BY DEF Base, TypeOK, RestOK
  <1>2. \A d \in Clients : sess[d].listed \/ sess[d].asked # {} => sess[d].conn # "none"
    <2>1. Nobody.listed = FALSE /\ Nobody.asked = {}
      BY DEF Nobody
    <2> QED
      BY <2>1, Typed DEF Sound
  <1>3. ASSUME NEW d \in Clients, sess[d].listed \/ sess[d].asked # {},
               NEW from \in Clients \cup {None}, NEW asked \in Verifying,
               sess' = [sess EXCEPT ![d].from = from, ![d].asked = asked],
               login' = login, fails' \in {fails, fails + 1},
               UNCHANGED <<call, bye, rows, subRow, up, where, shown>>
        PROVE  Verifies(d)
    BY <1>1, <1>2, <1>3 DEF Verifies
  <1>4. ASSUME NEW from \in Clients, NEW d \in Clients, UserVerify(from, d),
               UNCHANGED <<call, bye, rows, subRow, up, fails, where, shown>>
        PROVE  Verifies(d)
    <2>1. CASE sess[d].listed /\ sess' = [sess EXCEPT ![d].asked = @ \cup {from}] /\ UNCHANGED login
      <3>1. PICK f, a : f = sess[d].from /\ a = sess[d].asked \cup {from}
        OBVIOUS
      <3>2. f \in Clients \cup {None} /\ a \in Verifying
        BY <1>1, <3>1 DEF Session, Verifying
      <3>3. sess' = [sess EXCEPT ![d].from = f, ![d].asked = a]
        BY <1>1, <2>1, <3>1 DEF Session
      <3> QED
        BY <1>3, <1>4, <2>1, <3>2, <3>3
    <2>2. CASE login' = [login EXCEPT ![d].asked = @ \cup {from}] /\ UNCHANGED sess
      BY <1>1, <1>4, <2>2 DEF Verifies, Connection, Verifying
    <2> QED
      BY <1>4, <2>1, <2>2 DEF UserVerify
  <1>5. CASE VerifyUser(c)
    <2>1. PICK f \in sess[c].asked : sess' = [sess EXCEPT ![c].from = f, ![c].asked = @ \ {f}]
      BY <1>5 DEF VerifyUser
    <2>2. PICK a : a = sess[c].asked \ {f}
      OBVIOUS
    <2>3. f \in Clients \cup {None} /\ a \in Verifying
      BY <1>1, <2>1, <2>2 DEF Session, Verifying
    <2>4. sess' = [sess EXCEPT ![c].from = f, ![c].asked = a]
      BY <1>1, <2>1, <2>2 DEF Session
    <2> QED
      BY <1>3, <1>5, <2>3, <2>4 DEF VerifyUser
  <1>6. CASE VerifyLogin(c)
    <2>1. PICK f \in login[c].asked :
            login' = [login EXCEPT ![c].from = f, ![c].asked = @ \ {f},
                                   ![c].st = IF @ = "checking" THEN @ ELSE "in"]
      BY <1>6 DEF VerifyLogin
    <2>2. PICK a, st : a = login[c].asked \ {f} /\ st = IF login[c].st = "checking" THEN "checking" ELSE "in"
      OBVIOUS
    <2>3. f \in Clients \cup {None} /\ a \in Verifying
      BY <1>1, <2>1, <2>2 DEF Connection, Verifying
    <2>4. login' = [login EXCEPT ![c].from = f, ![c].asked = a, ![c].st = st]
      BY <1>1, <2>1, <2>2 DEF Connection
    <2>5. login' \in [Clients -> Connection]
      BY <1>1, <2>2, <2>3, <2>4 DEF Connection
    <2> QED
      BY <1>6, <2>5 DEF VerifyLogin, Verifies
  <1>7. CASE VerifyFails(c)
    <2>1. CASE UNCHANGED sess
      <3>1. PICK f \in login[c].asked : login' = [login EXCEPT ![c].asked = @ \ {f}]
        BY <1>1, <1>2, <1>7, <2>1 DEF VerifyFails, Session, Verifying
      <3>2. login' \in [Clients -> Connection]
        BY <1>1, <3>1 DEF Connection, Verifying
      <3> QED
        BY <1>7, <2>1, <3>2 DEF VerifyFails, Verifies
    <2>2. CASE \E f \in sess[c].asked : sess' = [sess EXCEPT ![c].asked = @ \ {f}] /\ UNCHANGED login
      <3>1. PICK f \in sess[c].asked : sess' = [sess EXCEPT ![c].asked = @ \ {f}] /\ UNCHANGED login
        BY <2>2
      <3>2. PICK g, a : g = sess[c].from /\ a = sess[c].asked \ {f}
        OBVIOUS
      <3>3. g \in Clients \cup {None} /\ a \in Verifying
        BY <1>1, <3>2 DEF Session, Verifying
      <3>4. sess' = [sess EXCEPT ![c].from = g, ![c].asked = a]
        BY <1>1, <3>1, <3>2 DEF Session
      <3>5. Verifies(c)
        BY <1>3, <1>7, <3>1, <3>3, <3>4 DEF VerifyFails
      <3> QED
        BY <3>5
    <2> QED
      BY <1>7, <2>1, <2>2 DEF VerifyFails
  <1>8. ASSUME NEW d \in Clients, VerifyLinks(c, d) PROVE Verifies(d)
    <2>1. login[c].from \in Clients
      BY <1>1, <1>8 DEF VerifyLinks, Connection
    <2> QED
      BY <1>4, <1>8, <2>1 DEF VerifyLinks
  <1>9. ASSUME NEW d \in Clients, ServerVerifyLinks(c, d) PROVE Verifies(d)
    <2>1. sess[c].from \in Clients
      BY <1>1, <1>9 DEF ServerVerifyLinks, Session
    <2> QED
      BY <1>4, <1>9, <2>1 DEF ServerVerifyLinks
  <1> QED
    BY <1>5, <1>6, <1>7, <1>8, <1>9 DEF VerifyUser

\* The verification of a session keeps it.
LEMMA VerifyBase ==
  ASSUME Base, NEW d \in Clients, Verifies(d)
  PROVE  Base'
  <1>1. RestOK'
    BY Typed DEF Verifies, RestOK
  <1>2. CASE sess' = sess
    BY <1>1, <1>2, KeepBase DEF Verifies
  <1>3. CASE sess' # sess
    <2>1. PICK from \in Clients \cup {None}, asked \in Verifying :
            sess[d].conn # "none" /\ sess' = [sess EXCEPT ![d].from = from, ![d].asked = asked]
      BY <1>3 DEF Verifies
    <2>2. PICK s, k : s = [sess[d] EXCEPT !.from = from, !.asked = asked] /\ k = call[d]
      OBVIOUS
    <2>3. s \in Session /\ s.conn = sess[d].conn /\ s.at = sess[d].at /\ s.char = sess[d].char
      BY <2>2, Typed DEF Session
    <2>4. /\ k \in Call \cup {None} /\ (s.at = "world" => s.char # None)
          /\ k # None => Fit(k, s)
      BY <2>2, <2>3, Typed DEF Sound, Fit
    <2>5. /\ sess' = [sess EXCEPT ![d] = s] /\ call' = [call EXCEPT ![d] = k]
          /\ UNCHANGED <<bye, shown>>
      BY <2>1, <2>2 DEF Verifies, Base, TypeOK, Session
    <2> QED
      BY <1>1, <2>1, <2>3, <2>4, <2>5, SessBase
  <1> QED
    BY <1>2, <1>3

\* Taking a session off the table keeps it.
LEMMA RemoveBase ==
  ASSUME Base, NEW c \in Clients, NetworkRemoves(c)
  PROVE  Base'
  <1>1. PICK s, k, a : s = [sess[c] EXCEPT !.listed = FALSE, !.asked = a] /\ k = call[c] /\ a = {}
    OBVIOUS
  <1>2. s \in Session /\ s.conn = sess[c].conn /\ s.at = sess[c].at /\ s.char = sess[c].char
    <2>1. a \in Verifying
      BY <1>1 DEF Verifying
    <2> QED
      BY <1>1, <2>1, Typed DEF Session
  <1>3. /\ sess[c].conn # "none" /\ k \in Call \cup {None}
        /\ s.at = "world" => s.char # None
        /\ k # None => Fit(k, s)
    BY <1>1, <1>2, Typed DEF NetworkRemoves, Sound, Fit
  <1>4. /\ sess' = [sess EXCEPT ![c] = s] /\ call' = [call EXCEPT ![c] = k]
        /\ UNCHANGED <<bye, shown>> /\ RestOK'
    BY <1>1, Typed DEF NetworkRemoves, Base, TypeOK, RestOK
  <1> QED
    BY <1>2, <1>3, <1>4, SessBase

\* The disconnect handler of a closed session keeps it.
LEMMA ByeBase ==
  ASSUME Base, NEW c \in Clients, bye[c].st # "no", NEW b \in Bye, b.st # "no",
         b.st = "save" => b.char # None,
         bye' = [bye EXCEPT ![c] = b], UNCHANGED <<sess, call, shown>>, RestOK'
  PROVE  Base'
  <1>1. Sound(sess[c], call[c], b, shown[c])
    BY Typed DEF Sound
  <1> QED
    BY <1>1 DEF Base, TypeOK

\* SavePosition leaves places in the rows.
LEMMA PositionedOK ==
  ASSUME Base, NEW char \in Character
  PROVE  Positioned(char) \in List
  <1>1. char.slot \in Slots /\ char.pos \in Places /\ rows \in List
    BY DEF Character, Base, TypeOK, RestOK
  <1>2. [rows EXCEPT ![char.slot] = char.pos] \in List
    BY <1>1 DEF List
  <1> QED
    BY <1>1, <1>2 DEF Positioned

\* The steps of OnClientDisconnect keep it.
LEMMA EndBase ==
  ASSUME Base, NEW c \in Clients, OnClientDisconnect(c) \/ LastSave(c) \/ LastSaveFails(c)
  PROVE  Base'
  <1>1. CASE OnClientDisconnect(c)
    <2>1. PICK b : b = [st |-> IF sess[c].char = None THEN "done" ELSE "save", char |-> sess[c].char]
      OBVIOUS
    <2>2. b \in Bye /\ b.st # "no" /\ (b.st = "save" => b.char # None)
      BY <2>1, Typed DEF Session, Bye
    <2>3. bye[c].st # "no" /\ bye' = [bye EXCEPT ![c] = b] /\ UNCHANGED <<sess, call, shown>> /\ RestOK'
      BY <1>1, <2>1, Typed DEF OnClientDisconnect, RestOK
    <2> QED
      BY <2>2, <2>3, ByeBase
  <1>2. CASE LastSave(c) \/ LastSaveFails(c)
    <2>1. PICK b : b = [NoBye EXCEPT !.st = "done"]
      OBVIOUS
    <2>2. b \in Bye /\ b.st = "done"
      BY <2>1 DEF NoBye, Bye
    <2>3. bye[c].char \in Character
      BY <1>2, Typed DEF LastSave, LastSaveFails, Sound, Bye
    <2>4. RestOK'
      BY <1>2, <2>3, Typed, PositionedOK DEF LastSave, LastSaveFails, RestOK
    <2>5. bye[c].st # "no" /\ bye' = [bye EXCEPT ![c] = b] /\ UNCHANGED <<sess, call, shown>>
      BY <1>2, <2>1 DEF LastSave, LastSaveFails
    <2> QED
      BY <2>2, <2>4, <2>5, ByeBase
  <1> QED
    BY <1>1, <1>2

\* The end of a session keeps it.
LEMMA ForgetBase ==
  ASSUME Base, NEW c \in Clients, Forgotten(c)
  PROVE  Base'
  <1>1. PICK s, k, b, w : s = Nobody /\ k = call[c] /\ b = NoBye /\ w = FALSE
    OBVIOUS
  <1>2. s \in Session /\ k \in Call \cup {None} /\ b \in Bye /\ w \in BOOLEAN
    <2>1. NoList \in List /\ NoSecret \in Secret /\ {} \in Verifying
      BY DEF NoList, List, NoSecret, Secret, Verifying
    <2> QED
      BY <1>1, <2>1, Typed DEF Session, Bye, Nobody, NoBye
  <1>3. Sound(s, k, b, w)
    BY <1>1 DEF Forgotten, Sound, Nobody, NoBye
  <1>4. Writes(c, s, k, b, w) /\ RestOK'
    BY <1>1, Typed DEF Base, TypeOK, Writes, Forgotten, RestOK
  <1> QED
    BY <1>2, <1>3, <1>4, WriteBase

\* Movement keeps it.
LEMMA WalkBase ==
  ASSUME Base, NEW c \in Clients, NEW place \in Places, Walk(c, place)
  PROVE  Base'
  <1>1. sess[c].char \in Character /\ call[c] = None /\ sess[c].conn = "open"
    BY Typed DEF Walk, Ready, Session, Sound
  <1>2. PICK x : x = [sess[c].char EXCEPT !.pos = place]
    OBVIOUS
  <1>3. PICK s, k : s = [sess[c] EXCEPT !.char = x] /\ k = call[c]
    OBVIOUS
  <1>4. x \in Character /\ x # None
    BY <1>1, <1>2, NoneAssumption DEF Character
  <1>5. s \in Session /\ s.conn = sess[c].conn /\ s.char # None
    BY <1>3, <1>4, Typed DEF Session
  <1>6. sess' = [sess EXCEPT ![c] = s] /\ call' = [call EXCEPT ![c] = k] /\ UNCHANGED <<bye, shown>>
    BY <1>2, <1>3, Typed DEF Walk, Base, TypeOK
  <1>7. where' \in List
    BY <1>1, Typed DEF Walk, RestOK, List, Character
  <1>8. RestOK'
    BY <1>7, Typed DEF Walk, RestOK
  <1> QED
    BY <1>1, <1>3, <1>5, <1>6, <1>8, Typed, SessBase

\* What a request consists of.
LEMMA RequestOK ==
  ASSUME NEW op \in Ops, NEW slot \in Slots \cup {None}, NEW val \in Values
  PROVE  /\ Request(op, slot, val) \in Call
         /\ Request(op, slot, val).op = op /\ Request(op, slot, val).st = "asked"
         /\ Request(op, slot, val).slot = slot /\ Request(op, slot, val).val = val
  BY DEF Request, Call

\* A packet that only asks keeps it.
LEMMA AskBase ==
  ASSUME Base, NEW c \in Clients, NEW op \in Ops, NEW slot \in Slots \cup {None}, NEW val \in Values,
         Ready(c), Ask(c, op, slot, val), UNCHANGED sess, Fit(Request(op, slot, val), sess[c])
  PROVE  Base'
  <1>1. PICK k : k = Request(op, slot, val)
    OBVIOUS
  <1>2. k \in Call \cup {None}
    BY <1>1, RequestOK
  <1>3. call' = [call EXCEPT ![c] = k] /\ UNCHANGED <<bye, shown>> /\ RestOK' /\ sess[c].conn # "none"
    BY <1>1, Typed DEF Ask, Ready, RestOK
  <1> QED
    BY <1>1, <1>2, <1>3, CallBase

\* The packets of the lobby keep it.
LEMMA ManageBase ==
  ASSUME Base, NEW c \in Clients, Manage(c, Slots)
  PROVE  Base'
  <1>1. CASE GetMyChartr(c)
    <2>1. CASE Ask(c, "fetch", None, None) /\ UNCHANGED sess
      <3>1. Fit(Request("fetch", None, None), sess[c])
        BY <1>1 DEF GetMyChartr, Request, Fit
      <3> QED
        BY <1>1, <2>1, <3>1, AskBase DEF GetMyChartr, Ops, Values
    <2>2. CASE Close(c) /\ UNCHANGED <<login, call, rows, subRow, up, fails, where, shown>>
      BY <2>2, CloseBase
    <2> QED
      BY <1>1, <2>1, <2>2 DEF GetMyChartr
  <1>2. CASE CheckUserPrivacyData(c)
    <2>1. Fit(Request("password", None, None), sess[c])
      BY <1>2 DEF CheckUserPrivacyData, InLobby, Request, Fit
    <2> QED
      BY <1>2, <2>1, AskBase DEF CheckUserPrivacyData, InLobby, Ops, Values
  <1>3. ASSUME NEW slot \in Slots, NewMyChartr(c, slot) PROVE Base'
    <2>1. Fit(Request("create", slot, None), sess[c])
      BY <1>3 DEF NewMyChartr, InLobby, Request, Fit
    <2> QED
      BY <1>3, <2>1, AskBase DEF NewMyChartr, InLobby, Ops, Values
  <1>4. ASSUME NEW slot \in Slots, DelMyChartr(c, slot) PROVE Base'
    <2>1. Fit(Request("delete", slot, None), sess[c])
      BY <1>4 DEF DelMyChartr, InLobby, Request, Fit
    <2> QED
      BY <1>4, <2>1, AskBase DEF DelMyChartr, InLobby, Ops, Values
  <1> QED
    BY <1>1, <1>2, <1>3, <1>4 DEF Manage

\* The packets into, in and out of the world keep it.
LEMMA RoamBase ==
  ASSUME Base, NEW c \in Clients, Roam(c, Slots)
  PROVE  Base'
  <1>1. CASE Uninitialze(c)
    <2>1. PICK x : x = sess[c].char
      OBVIOUS
    <2>2. x \in Character
      BY <1>1, <2>1, Typed DEF Uninitialze, Session, Sound
    <2>3. Fit(Request("save", None, x), sess[c])
      BY <1>1, <2>1 DEF Uninitialze, Request, Fit
    <2>4. Ask(c, "save", None, x)
      BY <1>1, <2>1 DEF Uninitialze
    <2> QED
      BY <1>1, <2>2, <2>3, <2>4, AskBase DEF Uninitialze, Ops, Values
  <1>2. ASSUME NEW slot \in Slots, Initialized(c, slot) PROVE Base'
    <2>1. CASE Ask(c, "reload", slot, None)
      <3>1. Fit(Request("reload", slot, None), sess[c])
        BY <1>2 DEF Initialized, Request, Fit
      <3> QED
        BY <1>2, <2>1, <3>1, AskBase DEF Initialized, Ops, Values
    <2>2. CASE sess[c].list[slot] # None /\ Ask(c, "enter", slot, sess[c].list[slot])
      <3>1. PICK p : p = sess[c].list[slot]
        OBVIOUS
      <3>2. p \in Places
        BY <2>2, <3>1, Typed DEF Session, List
      <3>3. Fit(Request("enter", slot, p), sess[c])
        BY <1>2, <3>2 DEF Initialized, Request, Fit
      <3>4. Ask(c, "enter", slot, p)
        BY <2>2, <3>1
      <3> QED
        BY <1>2, <3>2, <3>3, <3>4, AskBase DEF Initialized, Ops, Values
    <2> QED
      BY <1>2, <2>1, <2>2 DEF Initialized
  <1> QED
    BY <1>1, <1>2, WalkBase DEF Roam

\* The handlers that compare a secret keep it.
LEMMA ProvesBase ==
  ASSUME Base, NEW c \in Clients, NEW secret, NEW stored, Proves(c, secret, stored)
  PROVE  Base'
  <1>1. PICK s, k, b, w : /\ s = [sess[c] EXCEPT !.subVerified = TRUE]
                          /\ k = call[c] /\ b = bye[c] /\ w = (shown[c] \/ secret = stored)
    OBVIOUS
  <1>2. /\ s \in Session /\ k \in Call \cup {None} /\ b \in Bye /\ w \in BOOLEAN
        /\ s.conn = sess[c].conn /\ s.at = sess[c].at /\ s.char = sess[c].char
    BY <1>1, Typed DEF Session
  <1>3. Sound(s, k, b, w)
    BY <1>1, <1>2, Typed DEF Proves, InLobby, Ready, Sound
  <1>4. Writes(c, s, k, b, w) /\ RestOK'
    BY <1>1, Typed DEF Base, TypeOK, Writes, Proves, RestOK
  <1> QED
    BY <1>2, <1>3, <1>4, WriteBase

\* The handlers of the secondary password keep it.
LEMMA SecureBase ==
  ASSUME Base, NEW c \in Clients, Secure(c)
  PROVE  Base'
  <1>1. CASE \/ SubPasswordFind(c) \/ SubPasswordDelRequest(c) \/ SubPasswordChangeQARequest(c)
             \/ CharacterDeleteCheckSubPassword(c)
    <2>1. PICK p, a, q, r : p = sess[c].sub.pw /\ a = sess[c].sub.answer /\ q = subRow.pw /\ r = subRow.answer
      OBVIOUS
    <2>2. Proves(c, p, q) \/ Proves(c, a, r)
      BY <1>1, <2>1 DEF SubPasswordFind, SubPasswordDelRequest, SubPasswordChangeQARequest,
                        CharacterDeleteCheckSubPassword
    <2> QED
      BY <2>2, ProvesBase
  <1>2. CASE SubPasswordCheck(c)
    <2>1. PICK v : v = sess[c].sub
      OBVIOUS
    <2>2. v \in Secret /\ v \in Values
      BY <2>1, Typed DEF Session, Values
    <2>3. PICK s, k, b, w : /\ s = sess[c] /\ k = Request("check", None, v)
                            /\ b = bye[c] /\ w = (shown[c] \/ sess[c].sub.pw = subRow.pw)
      OBVIOUS
    <2>4. s \in Session /\ k \in Call \cup {None} /\ b \in Bye /\ w \in BOOLEAN
      BY <2>2, <2>3, Typed, RequestOK DEF Ops
    <2>5. Sound(s, k, b, w)
      BY <1>2, <2>2, <2>3, Typed DEF SubPasswordCheck, InLobby, Ready, Sound, Fit, Request
    <2>6. Writes(c, s, k, b, w) /\ RestOK'
      BY <1>2, <2>1, <2>3, Typed DEF Base, TypeOK, Writes, SubPasswordCheck, RestOK
    <2> QED
      BY <2>4, <2>5, <2>6, WriteBase
  <1>3. CASE SubPasswordTooShort(c)
    <2>1. PICK s, k : s = [sess[c] EXCEPT !.subVerified = TRUE] /\ k = call[c]
      OBVIOUS
    <2>2. s \in Session /\ s.conn = sess[c].conn /\ s.at = sess[c].at /\ s.char = sess[c].char
      BY <2>1, Typed DEF Session
    <2>3. /\ sess[c].conn # "none" /\ k = None
          /\ s.at = "world" => s.char # None
      BY <1>3, <2>1, <2>2, Typed DEF SubPasswordTooShort, InLobby, Ready
    <2>4. /\ sess' = [sess EXCEPT ![c] = s] /\ call' = [call EXCEPT ![c] = k]
          /\ UNCHANGED <<bye, shown>> /\ RestOK'
      BY <1>3, <2>1, Typed DEF SubPasswordTooShort, Base, TypeOK, RestOK
    <2> QED
      BY <2>2, <2>3, <2>4, SessBase
  <1>4. CASE SubPasswordDel(c)
    <2>1. Fit(Request("remove", None, None), sess[c])
      BY <1>4 DEF SubPasswordDel, InLobby, Request, Fit
    <2> QED
      BY <1>4, <2>1, AskBase DEF SubPasswordDel, InLobby, Ops, Values
  <1>5. ASSUME NEW s \in Session, s.conn = sess[c].conn, s.at = sess[c].at, s.char = sess[c].char,
               NEW v \in Secret, InLobby(c), Ask(c, "set", None, v), sess' = [sess EXCEPT ![c] = s]
        PROVE  Base'
    <2>1. PICK k : k = Request("set", None, v)
      OBVIOUS
    <2>2. k \in Call \cup {None}
      BY <2>1, RequestOK DEF Ops, Values
    <2>3. /\ sess[c].conn # "none"
          /\ s.at = "world" => s.char # None
          /\ Fit(k, s)
      BY <1>5, <2>1, Typed DEF InLobby, Ready, Fit, Request
    <2>4. call' = [call EXCEPT ![c] = k] /\ UNCHANGED <<bye, shown>> /\ RestOK'
      BY <1>5, <2>1, Typed DEF Ask, RestOK
    <2> QED
      BY <1>5, <2>2, <2>3, <2>4, SessBase
  <1>6. ASSUME NEW secret \in Secrets, SubPasswordSet(c, secret) PROVE Base'
    <2>1. PICK v : v = Set(c, secret)
      OBVIOUS
    <2>2. v \in Secret
      BY <2>1, Typed DEF Set, Session, Secret
    <2>3. PICK s : s = [sess[c] EXCEPT !.sub = v, !.subVerified = TRUE]
      OBVIOUS
    <2>4. s \in Session /\ s.conn = sess[c].conn /\ s.at = sess[c].at /\ s.char = sess[c].char
      BY <2>2, <2>3, Typed DEF Session
    <2>5. InLobby(c) /\ Ask(c, "set", None, v) /\ sess' = [sess EXCEPT ![c] = s]
      BY <1>6, <2>1, <2>3, Typed DEF SubPasswordSet, Base, TypeOK
    <2> QED
      BY <1>5, <2>2, <2>4, <2>5
  <1>7. ASSUME NEW secret \in Secrets, SubPasswordChangeQA(c, secret) PROVE Base'
    <2>1. PICK v : v = [sess[c].sub EXCEPT !.answer = secret]
      OBVIOUS
    <2>2. v \in Secret
      BY <2>1, Typed DEF Session, Secret
    <2>3. PICK s : s = [sess[c] EXCEPT !.sub = v]
      OBVIOUS
    <2>4. s \in Session /\ s.conn = sess[c].conn /\ s.at = sess[c].at /\ s.char = sess[c].char
      BY <2>2, <2>3, Typed DEF Session
    <2>5. InLobby(c) /\ Ask(c, "set", None, v) /\ sess' = [sess EXCEPT ![c] = s]
      BY <1>7, <2>1, <2>3, Typed DEF SubPasswordChangeQA, Base, TypeOK
    <2> QED
      BY <1>5, <2>2, <2>4, <2>5
  <1> QED
    BY <1>1, <1>2, <1>3, <1>4, <1>6, <1>7 DEF Secure

\* An answer that fits keeps it.
LEMMA ServedBase ==
  ASSUME Base, NEW c \in Clients, NEW k \in Call, NEW w \in BOOLEAN,
         call[c] # None, call' = [call EXCEPT ![c] = k], Fit(k, sess[c]),
         UNCHANGED <<sess, bye>>, shown' = [shown EXCEPT ![c] = w], RestOK'
  PROVE  Base'
  <1>1. PICK s, b : s = sess[c] /\ b = bye[c]
    OBVIOUS
  <1>2. s \in Session /\ b \in Bye /\ Sound(s, k, b, w)
    BY <1>1, Typed DEF Sound
  <1>3. Writes(c, s, k, b, w)
    BY <1>1, Typed DEF Base, TypeOK, Writes
  <1> QED
    BY <1>2, <1>3, WriteBase

\* The value v answers a call of op.
Suits(op, v) ==
    /\ op = "fetch" => v \in Secret
    /\ op \in {"load", "reload"} => v \in List
    /\ op \in {"create", "enter"} => v \in Places

\* An answer that suits its operation fits.
LEMMA AnswerBase ==
  ASSUME Base, NEW c \in Clients, NEW v \in Values, NEW w \in BOOLEAN, call[c] # None,
         Served(c, v), Suits(call[c].op, v),
         UNCHANGED <<sess, bye>>, shown' = [shown EXCEPT ![c] = w], RestOK'
  PROVE  Base'
  <1>1. call[c] \in Call /\ Fit(call[c], sess[c])
    BY Typed DEF Sound
  <1>2. PICK k : k = [call[c] EXCEPT !.st = "ok", !.val = v]
    OBVIOUS
  <1>3. k \in Call /\ k.op = call[c].op /\ k.st = "ok" /\ k.slot = call[c].slot /\ k.val = v
    BY <1>1, <1>2 DEF Call
  <1>4. Fit(k, sess[c])
    BY <1>1, <1>3 DEF Fit, Suits
  <1>5. call' = [call EXCEPT ![c] = k]
    BY <1>2 DEF Served, Base, TypeOK
  <1> QED
    BY <1>3, <1>4, <1>5, ServedBase

\* A refusal keeps it.
LEMMA RefusedBase ==
  ASSUME Base, NEW c \in Clients, call[c] # None, Refused(c), UNCHANGED <<sess, bye, shown>>, RestOK'
  PROVE  Base'
  <1>1. call[c] \in Call /\ Fit(call[c], sess[c])
    BY Typed DEF Sound
  <1>2. PICK k : k = [call[c] EXCEPT !.st = "failed"]
    OBVIOUS
  <1>3. /\ k \in Call /\ k.op = call[c].op /\ k.st = "failed"
        /\ k.slot = call[c].slot /\ k.val = call[c].val
    BY <1>1, <1>2 DEF Call
  <1>4. Fit(k, sess[c])
    BY <1>1, <1>3 DEF Fit
  <1>5. call' = [call EXCEPT ![c] = k]
    BY <1>2 DEF Refused, Base, TypeOK
  <1> QED
    BY <1>3, <1>4, <1>5, Waiting, CallBase

\* The calls of the master keep it.
LEMMA ServeBase ==
  ASSUME Base, NEW c \in Clients, Serve(c)
  PROVE  Base'
  <1>1. call[c] # None /\ (call[c] \in Call /\ Fit(call[c], sess[c]))
    BY Typed DEF Sound, Serve, Serving, FetchSubPassword, LoadCharacters, CreateCharacter,
               DeleteCharacter, PasswdCheck, LoadCharacterData, SavePosition, SetSubPassword,
               RemoveSubPassword
  <1>2. PICK w, v, l : w = shown[c] /\ v = subRow /\ l = rows
    OBVIOUS
  <1>3. /\ w \in BOOLEAN /\ (shown' = shown => shown' = [shown EXCEPT ![c] = w])
        /\ v \in Values /\ v \in Secret /\ l \in Values /\ l \in List /\ None \in Values
    BY <1>2, Typed DEF Base, TypeOK, RestOK, Values
  <1>4. CASE FetchSubPassword(c)
    <2>1. Served(c, v) /\ Suits(call[c].op, v) /\ UNCHANGED <<sess, bye, shown>> /\ RestOK'
      BY <1>2, <1>3, <1>4, Typed DEF FetchSubPassword, Serving, Suits, RestOK
    <2> QED
      BY <1>1, <1>3, <2>1, AnswerBase
  <1>5. CASE LoadCharacters(c)
    <2>1. Served(c, l) /\ Suits(call[c].op, l) /\ UNCHANGED <<sess, bye, shown>> /\ RestOK'
      BY <1>2, <1>3, <1>5, Typed DEF LoadCharacters, Serving, Suits, RestOK
    <2> QED
      BY <1>1, <1>3, <2>1, AnswerBase
  <1>6. CASE CreateCharacter(c)
    <2>1. call[c].op = "create" /\ call[c].slot \in Slots
      BY <1>1, <1>6 DEF CreateCharacter, Serving, Fit
    <2>2. CASE Refused(c) /\ UNCHANGED <<rows, up, where>>
      BY <1>1, <1>6, <2>2, RefusedBase, Typed DEF CreateCharacter, RestOK
    <2>3. CASE /\ Served(c, Start)
               /\ rows' = [rows EXCEPT ![call[c].slot] = Start]
               /\ where' = [where EXCEPT ![call[c].slot] = Start]
               /\ UNCHANGED up
      <3>1. RestOK'
        BY <1>6, <2>1, <2>3, Typed, StartAssumption DEF CreateCharacter, RestOK, List
      <3>2. Start \in Values /\ Suits(call[c].op, Start)
        BY <2>1, StartAssumption DEF Values, Suits
      <3> QED
        BY <1>1, <1>3, <1>6, <2>3, <3>1, <3>2, AnswerBase DEF CreateCharacter
    <2>4. CASE up' = FALSE /\ UNCHANGED <<call, rows, where>>
      BY <1>6, <2>4, KeepBase, Typed DEF CreateCharacter, RestOK
    <2> QED
      BY <1>6, <2>2, <2>3, <2>4 DEF CreateCharacter
  <1>7. CASE DeleteCharacter(c)
    <2>1. call[c].op = "delete" /\ call[c].slot \in Slots
      BY <1>1, <1>7 DEF DeleteCharacter, Serving, Fit
    <2>2. RestOK' /\ Suits(call[c].op, None)
      BY <1>7, <2>1, Typed DEF DeleteCharacter, RestOK, List, Suits
    <2> QED
      BY <1>1, <1>3, <1>7, <2>2, AnswerBase DEF DeleteCharacter
  <1>8. CASE PasswdCheck(c)
    <2>1. call[c].op = "password" /\ Suits(call[c].op, None) /\ RestOK'
      BY <1>8, Typed DEF PasswdCheck, Serving, Suits, RestOK
    <2> QED
      BY <1>1, <1>3, <1>8, <2>1, AnswerBase, RefusedBase DEF PasswdCheck
  <1>9. CASE LoadCharacterData(c)
    <2>1. PICK p : p = call[c].val
      OBVIOUS
    <2>2. p \in Places /\ p \in Values /\ Suits(call[c].op, p) /\ RestOK'
      BY <1>1, <1>9, <2>1, Typed DEF LoadCharacterData, Serving, Fit, Suits, Values, RestOK
    <2> QED
      BY <1>1, <1>3, <1>9, <2>1, <2>2, AnswerBase DEF LoadCharacterData
  <1>10. CASE SavePosition(c)
    <2>1. call[c].op = "save" /\ call[c].val \in Character
      BY <1>1, <1>10, Typed DEF SavePosition, Serving, Fit, Sound, Session
    <2>2. Suits(call[c].op, None) /\ RestOK'
      BY <1>10, <2>1, Typed, PositionedOK DEF SavePosition, Suits, RestOK
    <2> QED
      BY <1>1, <1>3, <1>10, <2>2, AnswerBase DEF SavePosition
  <1>11. CASE SetSubPassword(c)
    <2>1. call[c].op \in {"set", "check"} /\ call[c].val \in Secret
      BY <1>1, <1>11 DEF SetSubPassword, Serving, Fit
    <2>2. Suits(call[c].op, None) /\ RestOK'
      BY <1>11, <2>1, Typed DEF SetSubPassword, Suits, RestOK
    <2> QED
      BY <1>1, <1>3, <1>11, <2>2, AnswerBase DEF SetSubPassword
  <1>12. CASE RemoveSubPassword(c)
    <2>1. Suits(call[c].op, None) /\ RestOK'
      BY <1>12, Typed DEF RemoveSubPassword, Serving, Suits, RestOK, NoSecret, Secret
    <2> QED
      BY <1>1, <1>3, <1>12, <2>1, AnswerBase DEF RemoveSubPassword
  <1> QED
    BY <1>4, <1>5, <1>6, <1>7, <1>8, <1>9, <1>10, <1>11, <1>12 DEF Serve

\* A call that fails keeps it.
LEMMA FailBase ==
  ASSUME Base, NEW c \in Clients, CallFails(c)
  PROVE  Base'
  BY Typed, RefusedBase DEF CallFails, RestOK

\* GetMyChartr keeps it, going on from the password to the list.
LEMMA FetchedBase ==
  ASSUME Base, NEW c \in Clients, Fetched(c)
  PROVE  Base'
  <1>1. PICK v : v = IF Ok(c) THEN call[c].val ELSE NoSecret
    OBVIOUS
  <1>2. PICK s, k, b, w : /\ s = [sess[c] EXCEPT !.sub = v, !.subVerified = FALSE]
                          /\ k = Request("load", None, None) /\ b = bye[c] /\ w = FALSE
    OBVIOUS
  <1>3. v \in Secret
    BY <1>1, Typed, SMT DEF Fetched, Answered, Ok, Sound, Fit, Call, NoSecret, Secret
  <1>4. s \in Session /\ s.conn = sess[c].conn /\ s.at = sess[c].at /\ s.char = sess[c].char
    BY <1>2, <1>3, Typed DEF Session
  <1>5. k \in Call \cup {None} /\ b \in Bye /\ w \in BOOLEAN
    <2>1. "load" \in Ops /\ None \in Values
      BY DEF Ops, Values
    <2>2. k \in Call
      BY <1>2, <2>1, RequestOK
    <2> QED
      BY <1>2, <2>2, Typed
  <1>6. Sound(s, k, b, w)
    BY <1>2, <1>4, Typed DEF Fetched, Answered, Sound, Fit, Request
  <1>7. Writes(c, s, k, b, w) /\ RestOK'
    BY <1>1, <1>2, Typed DEF Base, TypeOK, Writes, Fetched, RestOK
  <1> QED
    BY <1>4, <1>5, <1>6, <1>7, WriteBase

\* A handler that ends with a session as sound as before keeps it.
LEMMA FinishedBase ==
  ASSUME Base, NEW c \in Clients, call[c] # None, NEW s \in Session, sess' = [sess EXCEPT ![c] = s],
         s.conn = sess[c].conn, s.at = "world" => s.char # None, Finished(c)
  PROVE  Base'
  <1>1. RestOK' /\ sess[c].conn # "none"
    BY Typed, Waiting DEF Finished, RestOK
  <1> QED
    BY <1>1, SessBase DEF Finished

\* So does one that leaves its session alone.
LEMMA StayingBase ==
  ASSUME Base, NEW c \in Clients, call[c] # None, NEW s \in Session, sess' = [sess EXCEPT ![c] = s],
         s.conn = sess[c].conn, s.at = sess[c].at, s.char = sess[c].char, Finished(c)
  PROVE  Base'
  BY Typed, FinishedBase DEF Sound

\* What is loaded is a list.
LEMMA LoadedOK ==
  ASSUME Base, NEW c \in Clients, Answered(c, "load") \/ Answered(c, "reload")
  PROVE  Loaded(c) \in List
  <1>1. NoList \in List
    BY DEF NoList, List
  <1>2. Ok(c) => call[c].val \in List
    BY Typed DEF Answered, Ok, Sound, Fit
  <1> QED
    BY <1>1, <1>2 DEF Loaded

\* GetMyChartr keeps it at its end.
LEMMA ListedBase ==
  ASSUME Base, NEW c \in Clients, Listed(c)
  PROVE  Base'
  <1>1. PICK l : l = Loaded(c)
    OBVIOUS
  <1>2. PICK s : s = [sess[c] EXCEPT !.list = l, !.at = "lobby"]
    OBVIOUS
  <1>3. s \in Session /\ s.conn = sess[c].conn /\ s.at = "lobby"
    BY <1>1, <1>2, Typed, LoadedOK DEF Listed, Session
  <1>4. sess' = [sess EXCEPT ![c] = s] /\ call[c] # None /\ Finished(c)
    BY <1>1, <1>2 DEF Listed, Answered
  <1> QED
    BY <1>3, <1>4, FinishedBase

\* NewMyChartr keeps it at its end.
LEMMA CreatedBase ==
  ASSUME Base, NEW c \in Clients, Created(c)
  PROVE  Base'
  <1>1. CASE Ok(c)
    <2>1. call[c].slot \in Slots /\ call[c].val \in Places /\ sess[c].list \in List
      BY <1>1, Typed DEF Created, Answered, Ok, Sound, Fit, Session
    <2>2. PICK l : l = [sess[c].list EXCEPT ![call[c].slot] = call[c].val]
      OBVIOUS
    <2>3. l \in List
      BY <2>1, <2>2 DEF List
    <2>4. PICK s : s = [sess[c] EXCEPT !.list = l]
      OBVIOUS
    <2>5. s \in Session /\ s.conn = sess[c].conn /\ s.at = sess[c].at /\ s.char = sess[c].char
      BY <2>3, <2>4, Typed DEF Session
    <2>6. sess' = [sess EXCEPT ![c] = s] /\ call[c] # None /\ Finished(c)
      BY <1>1, <2>2, <2>4, Typed DEF Created, Answered, Base, TypeOK
    <2> QED
      BY <2>5, <2>6, StayingBase
  <1>2. CASE ~Ok(c)
    BY <1>2, Typed, Waiting, CallBase DEF Created, Answered, Finished, RestOK
  <1> QED
    BY <1>1, <1>2

\* DelMyChartr keeps it at its end.
LEMMA DeletedBase ==
  ASSUME Base, NEW c \in Clients, Deleted(c)
  PROVE  Base'
  <1>1. CASE Ok(c)
    <2>1. call[c].slot \in Slots /\ sess[c].list \in List
      BY <1>1, Typed DEF Deleted, Answered, Sound, Fit, Session
    <2>2. PICK l : l = [sess[c].list EXCEPT ![call[c].slot] = None]
      OBVIOUS
    <2>3. l \in List
      BY <2>1, <2>2 DEF List
    <2>4. PICK s : s = [sess[c] EXCEPT !.list = l, !.charVerified = FALSE, !.subVerified = FALSE]
      OBVIOUS
    <2>5. s \in Session /\ s.conn = sess[c].conn /\ s.at = sess[c].at /\ s.char = sess[c].char
      BY <2>3, <2>4, Typed DEF Session
    <2>6. sess' = [sess EXCEPT ![c] = s] /\ call[c] # None /\ Finished(c)
      BY <1>1, <2>2, <2>4, Typed DEF Deleted, Answered, Base, TypeOK
    <2> QED
      BY <2>5, <2>6, StayingBase
  <1>2. CASE ~Ok(c)
    BY <1>2, Typed, Waiting, CallBase DEF Deleted, Answered, Finished, RestOK
  <1> QED
    BY <1>1, <1>2

\* The handlers that only mark the session keep it at their end.
LEMMA MarkedBase ==
  ASSUME Base, NEW c \in Clients,
         PasswordChecked(c) \/ SecretSet(c) \/ SecretChecked(c) \/ SecretRemoved(c)
  PROVE  Base'
  <1>1. PICK s, t, u, v : /\ s = [sess[c] EXCEPT !.charVerified = TRUE]
                          /\ t = [sess[c] EXCEPT !.subVerified = FALSE]
                          /\ u = [sess[c] EXCEPT !.subVerified = TRUE]
                          /\ v = [sess[c] EXCEPT !.sub = NoSecret, !.subVerified = FALSE]
    OBVIOUS
  <1>2. \A x \in {s, t, u, v} :
          x \in Session /\ x.conn = sess[c].conn /\ x.at = sess[c].at /\ x.char = sess[c].char
    <2>1. s \in Session /\ s.conn = sess[c].conn /\ s.at = sess[c].at /\ s.char = sess[c].char
      BY <1>1, Typed DEF Session
    <2>2. t \in Session /\ t.conn = sess[c].conn /\ t.at = sess[c].at /\ t.char = sess[c].char
      BY <1>1, Typed DEF Session
    <2>3. u \in Session /\ u.conn = sess[c].conn /\ u.at = sess[c].at /\ u.char = sess[c].char
      BY <1>1, Typed DEF Session
    <2>4. NoSecret \in Secret
      BY DEF NoSecret, Secret
    <2>5. v \in Session /\ v.conn = sess[c].conn /\ v.at = sess[c].at /\ v.char = sess[c].char
      BY <1>1, <2>4, Typed DEF Session
    <2> QED
      BY <2>1, <2>2, <2>3, <2>5
  <1>3. /\ \/ \E x \in {s, t, u, v} : sess' = [sess EXCEPT ![c] = x]
           \/ UNCHANGED sess
        /\ call[c] # None /\ Finished(c)
    BY <1>1 DEF PasswordChecked, SecretSet, SecretChecked, SecretRemoved, Answered
  <1>4. CASE UNCHANGED sess
    BY <1>3, <1>4, Typed, Waiting, CallBase DEF Finished, RestOK
  <1> QED
    BY <1>2, <1>3, <1>4, StayingBase

\* Initialized keeps it, with its list loaded again.
LEMMA ReloadedBase ==
  ASSUME Base, NEW c \in Clients, Reloaded(c)
  PROVE  Base'
  <1>1. PICK l : l = Loaded(c)
    OBVIOUS
  <1>2. l \in List /\ call[c].slot \in Slots /\ sess[c].at # "world"
    BY <1>1, Typed, LoadedOK DEF Reloaded, Answered, Sound, Fit
  <1>3. PICK s : s = [sess[c] EXCEPT !.list = l]
    OBVIOUS
  <1>4. s \in Session /\ s.conn = sess[c].conn /\ s.at = sess[c].at /\ s.char = sess[c].char
    BY <1>2, <1>3, Typed DEF Session
  <1>5. PICK k : k = IF l[call[c].slot] = None THEN None
                     ELSE Request("enter", call[c].slot, l[call[c].slot])
    OBVIOUS
  <1>6. k \in Call \cup {None} /\ (k # None => Fit(k, s))
    <2>1. CASE l[call[c].slot] = None
      BY <1>5, <2>1
    <2>2. CASE l[call[c].slot] # None
      <3>1. PICK x, p : x = call[c].slot /\ p = l[call[c].slot]
        OBVIOUS
      <3>2. x \in Slots /\ p \in Places /\ p \in Values /\ k = Request("enter", x, p)
        BY <1>2, <1>5, <2>2, <3>1 DEF List, Values
      <3>3. k \in Call
        BY <3>2, RequestOK DEF Ops
      <3>4. Fit(k, s)
        BY <1>2, <1>4, <3>2 DEF Fit, Request
      <3> QED
        BY <3>3, <3>4
    <2> QED
      BY <2>1, <2>2
  <1>7. /\ sess' = [sess EXCEPT ![c] = s] /\ call' = [call EXCEPT ![c] = k] /\ UNCHANGED <<bye, shown>>
        /\ call[c] # None
    BY <1>1, <1>3, <1>5 DEF Reloaded, Answered
  <1>8. RestOK' /\ sess[c].conn # "none" /\ (s.at = "world" => s.char # None)
    BY <1>2, <1>4, <1>7, Typed, Waiting DEF Reloaded, RestOK
  <1> QED
    BY <1>4, <1>6, <1>7, <1>8, SessBase

\* Initialized keeps it at its end.
LEMMA EnteredBase ==
  ASSUME Base, NEW c \in Clients, Entered(c)
  PROVE  Base'
  <1>1. PICK x : x = [slot |-> call[c].slot, pos |-> call[c].val]
    OBVIOUS
  <1>2. x \in Character /\ x # None
    BY <1>1, Typed, NoneAssumption DEF Entered, Answered, Sound, Fit, Character
  <1>3. PICK s : s = [sess[c] EXCEPT !.char = x, !.at = "world"]
    OBVIOUS
  <1>4. s \in Session /\ s.conn = sess[c].conn /\ s.char # None
    BY <1>2, <1>3, Typed DEF Session
  <1>5. sess' = [sess EXCEPT ![c] = s] /\ call[c] # None /\ Finished(c)
    BY <1>1, <1>3 DEF Entered, Answered
  <1> QED
    BY <1>4, <1>5, FinishedBase

\* Uninitialze keeps it at its end.
LEMMA LeftBase ==
  ASSUME Base, NEW c \in Clients, Left(c)
  PROVE  Base'
  <1>1. PICK s : s = [sess[c] EXCEPT !.at = "start", !.list = NoList]
    OBVIOUS
  <1>2. s \in Session /\ s.conn = sess[c].conn /\ s.at = "start"
    BY <1>1, Typed DEF Session, NoList, List
  <1>3. sess' = [sess EXCEPT ![c] = s] /\ call[c] # None /\ Finished(c)
    BY <1>1 DEF Left, Answered
  <1> QED
    BY <1>2, <1>3, FinishedBase

\* No session is sound.
LEMMA InitBase == Init => Base
  <1> SUFFICES ASSUME Init PROVE Base
    OBVIOUS
  <1>1. NoList \in List /\ NoSecret \in Secret /\ NoLogin \in Connection /\ {} \in Verifying
    BY DEF NoList, List, NoSecret, Secret, NoLogin, Connection, Verifying
  <1>2. Nobody \in Session /\ NoBye \in Bye
    BY <1>1 DEF Nobody, NoBye, Session, Bye
  <1>3. TypeOK
    BY <1>1, <1>2 DEF Init, TypeOK, RestOK
  <1>4. Sound(Nobody, None, NoBye, FALSE)
    BY DEF Sound, Nobody, NoBye
  <1> QED
    BY <1>3, <1>4 DEF Init, Base

\* Every step keeps the invariant.
LEMMA NextBase == Base /\ [Next]_vars => Base'
  <1> SUFFICES ASSUME Base, [Next]_vars PROVE Base'
    OBVIOUS
  <1>1. CASE UNCHANGED vars
    BY <1>1, KeepBase, Typed DEF vars, Base, TypeOK, RestOK
  <1>2. CASE Next
    <2>1. PICK c \in Clients :
            \/ Login(c) \/ AuthFails(c) \/ VerifyFails(c) \/ Connect(c) \/ Disconnect(c)
            \/ Leaving(c) \/ LastSaveFails(c)
            \/ Manage(c, Slots) \/ Roam(c, Slots) \/ Secure(c) \/ Serve(c) \/ CallFails(c) \/ Return(c)
      BY <1>2 DEF Next
    <2>2. CASE Login(c) \/ AuthFails(c) \/ VerifyFails(c) \/ Connect(c)
      BY <2>2, LoginBase, CloseBase, VerifyCases, VerifyBase, ConnectBase DEF Login, FDisconnect
    <2>3. CASE Disconnect(c) \/ Leaving(c) \/ LastSaveFails(c)
      BY <2>3, CloseBase, RemoveBase, EndBase, ForgetBase DEF Disconnect, Leaving
    <2>4. CASE Return(c)
      BY <2>4, FetchedBase, ListedBase, CreatedBase, DeletedBase, MarkedBase, ReloadedBase,
         EnteredBase, LeftBase DEF Return
    <2> QED
      BY <2>1, <2>2, <2>3, <2>4, ManageBase, RoamBase, SecureBase, ServeBase, FailBase
  <1> QED
    BY <1>1, <1>2

\* Types and the soundness of every session hold in every reachable state, for
\* any number of clients, slots, places and secrets and however many calls
\* fail (Session, the context of the packet handlers).
THEOREM LobbyInvariant == Spec => []Base
  BY InitBase, NextBase, PTL DEF Spec

----------------------------------------------------------------------------
(* One login.                                                              *)

\* The inductive invariant of SingleLogin.  The login of a session in the table
\* is the one of every client that passed the check of the login server and of
\* every verification under way.
LoginInv ==
    /\ \A c \in Clients : sess[c].conn = "open" => sess[c].listed
    /\ \A c, d \in Clients : login[c].st = "in" /\ InTable(d) => login[c].from = sess[d].from
    /\ \A c, d \in Clients : InTable(d) => sess[c].asked \cup login[c].asked \subseteq {sess[d].from}
    /\ SingleLogin

\* The step keeps what AuthCheck and the verification go by.
Marks(c) ==
    /\ sess'[c].listed = sess[c].listed /\ sess'[c].from = sess[c].from /\ sess'[c].asked = sess[c].asked
    /\ sess'[c].conn \in {sess[c].conn, "closed"}

\* Packets and calls of the master leave the login and the table alone.
LEMMA MarksKept ==
  ASSUME Base, NEW c \in Clients,
         Manage(c, Slots) \/ Roam(c, Slots) \/ Secure(c) \/ Serve(c) \/ CallFails(c) \/ Return(c)
  PROVE  login' = login /\ \A d \in Clients : Marks(d)
  <1>1. sess \in [Clients -> Session]
    BY DEF Base, TypeOK
  <1>2. CASE Manage(c, Slots)
    BY <1>1, <1>2 DEF Manage, GetMyChartr, CheckUserPrivacyData, NewMyChartr, DelMyChartr, Ask, Close,
                      Marks, Session
  <1>3. CASE Roam(c, Slots)
    BY <1>1, <1>3 DEF Roam, Uninitialze, Initialized, Walk, Ask, Marks, Session
  <1>4. CASE Secure(c)
    <2>1. CASE \E secret \in Secrets : SubPasswordSet(c, secret) \/ SubPasswordChangeQA(c, secret)
      BY <1>1, <2>1 DEF SubPasswordSet, SubPasswordChangeQA, Ask, Marks, Session
    <2>2. CASE ~\E secret \in Secrets : SubPasswordSet(c, secret) \/ SubPasswordChangeQA(c, secret)
      BY <1>1, <1>4, <2>2
         DEF Secure, SubPasswordFind, SubPasswordDelRequest, SubPasswordChangeQARequest,
             CharacterDeleteCheckSubPassword, SubPasswordCheck, SubPasswordTooShort, SubPasswordDel,
             Proves, Ask, Marks, Session
    <2> QED
      BY <2>1, <2>2
  <1>5. CASE Serve(c) \/ CallFails(c)
    BY <1>5 DEF Serve, CallFails, FetchSubPassword, LoadCharacters, CreateCharacter, DeleteCharacter,
                PasswdCheck, LoadCharacterData, SavePosition, SetSubPassword, RemoveSubPassword, Marks
  <1>6. CASE Return(c)
    <2>1. CASE Fetched(c) \/ Listed(c) \/ Reloaded(c) \/ Entered(c) \/ Left(c)
      BY <1>1, <2>1 DEF Fetched, Listed, Reloaded, Entered, Left, Finished, Marks, Session
    <2>2. CASE Created(c) \/ Deleted(c)
      BY <1>1, <2>2 DEF Created, Deleted, Finished, Marks, Session
    <2>3. CASE PasswordChecked(c) \/ SecretSet(c) \/ SecretChecked(c) \/ SecretRemoved(c)
      BY <1>1, <2>3 DEF PasswordChecked, SecretSet, SecretChecked, SecretRemoved, Finished, Marks, Session
    <2> QED
      BY <1>6, <2>1, <2>2, <2>3 DEF Return
  <1> QED
    BY <1>2, <1>3, <1>4, <1>5, <1>6

\* A step after which there is no more than before of what LoginInv is about.
Fewer ==
    /\ \A c \in Clients : /\ sess'[c].asked \subseteq sess[c].asked
                          /\ login'[c].asked \subseteq login[c].asked
                          /\ login'[c].st = "in" => login[c].st = "in" /\ login'[c].from = login[c].from
    /\ \A c \in Clients : sess'[c].conn = "open" => sess'[c].listed
    /\ \A c \in Clients : InTable(c)' => InTable(c) /\ sess'[c].from = sess[c].from

\* Such a step keeps it.
LEMMA FewerKeeps ==
  ASSUME LoginInv, Fewer
  PROVE  LoginInv'
  <1>1. \A c, d \in Clients : InTable(d)' => sess'[c].asked \cup login'[c].asked \subseteq {sess'[d].from}
    BY DEF LoginInv, Fewer
  <1>2. \A c, d \in Clients : login'[c].st = "in" /\ InTable(d)' => login'[c].from = sess'[d].from
    BY DEF LoginInv, Fewer
  <1>3. SingleLogin'
    BY DEF LoginInv, Fewer, SingleLogin
  <1> QED
    BY <1>1, <1>2, <1>3 DEF LoginInv, Fewer

\* A request for the login of a client that was let in, or of a session, asks for
\* nothing new.
LEMMA UserVerifyKeeps ==
  ASSUME Base, LoginInv, NEW from \in Clients, NEW d \in Clients, UserVerify(from, d),
         \A e \in Clients : InTable(e) => sess[e].from = from
  PROVE  LoginInv'
  <1>1. sess \in [Clients -> Session] /\ login \in [Clients -> Connection]
    BY DEF Base, TypeOK, RestOK
  <1>2. \A c \in Clients : /\ sess'[c].from = sess[c].from /\ sess'[c].listed = sess[c].listed
                           /\ sess'[c].conn = sess[c].conn
                           /\ login'[c].st = login[c].st /\ login'[c].from = login[c].from
    BY <1>1 DEF UserVerify, Session, Connection
  <1>3. \A c \in Clients : /\ sess'[c].asked \subseteq sess[c].asked \cup {from}
                           /\ login'[c].asked \subseteq login[c].asked \cup {from}
    BY <1>1 DEF UserVerify, Session, Connection
  <1>4. \A e \in Clients : InTable(e)' <=> InTable(e)
    BY <1>2 DEF InTable
  <1>5. \A c, e \in Clients : InTable(e)' => sess'[c].asked \cup login'[c].asked \subseteq {sess'[e].from}
    BY <1>2, <1>3, <1>4 DEF LoginInv
  <1>6. SingleLogin'
    BY <1>2, <1>4 DEF LoginInv, SingleLogin
  <1>7. \A c, e \in Clients : login'[c].st = "in" /\ InTable(e)' => login'[c].from = sess'[e].from
    BY <1>2, <1>4 DEF LoginInv
  <1> QED
    BY <1>2, <1>5, <1>6, <1>7 DEF LoginInv

\* A verified session has the login that everything under way has.
LEMMA VerifyUserKeeps ==
  ASSUME Base, LoginInv, NEW d \in Clients, VerifyUser(d), OneLogin
  PROVE  LoginInv'
  <1>1. sess \in [Clients -> Session] /\ login \in [Clients -> Connection]
    BY DEF Base, TypeOK, RestOK
  <1>2. PICK a \in sess[d].asked : sess' = [sess EXCEPT ![d].from = a, ![d].asked = @ \ {a}]
    BY DEF VerifyUser
  <1>3. sess[d].listed /\ login' = login /\ a \in Entering /\ \A b \in Entering : b = a
    <2>1. a \in sess[d].asked \cup login[d].asked
      BY <1>2
    <2>2. a \in UNION {sess[c].asked \cup login[c].asked : c \in Clients}
      BY <2>1
    <2>3. a \in Entering
      BY <2>2 DEF Entering
    <2> QED
      BY <2>3 DEF VerifyUser, OneLogin
  <1>4. /\ sess'[d].from = a /\ sess'[d].listed = sess[d].listed /\ sess'[d].conn = sess[d].conn
        /\ sess'[d].asked \subseteq sess[d].asked
        /\ \A e \in Clients \ {d} : sess'[e] = sess[e]
    BY <1>1, <1>2 DEF Session
  <1>5. ASSUME NEW e \in Clients, InTable(e)' PROVE sess'[e].from = a
    <2>1. CASE e # d
      <3>1. InTable(e) /\ sess'[e].from = sess[e].from
        BY <1>4, <1>5, <2>1 DEF InTable
      <3>2. sess[d].asked \subseteq {sess[e].from}
        BY <3>1 DEF LoginInv
      <3> QED
        BY <1>2, <3>1, <3>2
    <2> QED
      BY <1>4, <2>1
  <1>6. \A c \in Clients : sess'[c].asked \cup login'[c].asked \subseteq {a}
    <2>1. \A c \in Clients : sess[c].asked \cup login[c].asked \subseteq Entering
      BY DEF Entering
    <2> QED
      BY <1>3, <1>4, <2>1
  <1>7. \A c \in Clients : login'[c].st = "in" => login'[c].from = a
    BY <1>3 DEF Entering
  <1>8. SingleLogin'
    BY <1>5 DEF SingleLogin
  <1>9. \A c \in Clients : sess'[c].conn = "open" => sess'[c].listed
    BY <1>4 DEF LoginInv
  <1> QED
    BY <1>5, <1>6, <1>7, <1>8, <1>9 DEF LoginInv

\* A verified connection to the login server has the login of the sessions.
LEMMA VerifyLoginKeeps ==
  ASSUME Base, LoginInv, NEW d \in Clients, VerifyLogin(d)
  PROVE  LoginInv'
  <1>1. sess \in [Clients -> Session] /\ login \in [Clients -> Connection]
    BY DEF Base, TypeOK, RestOK
  <1>2. PICK a \in login[d].asked :
          login' = [login EXCEPT ![d].from = a, ![d].asked = @ \ {a},
                                 ![d].st = IF @ = "checking" THEN @ ELSE "in"]
    BY DEF VerifyLogin
  <1>3. /\ login'[d].from = a /\ login'[d].asked \subseteq login[d].asked
        /\ \A c \in Clients \ {d} : login'[c] = login[c]
    BY <1>1, <1>2 DEF Connection
  <1>4. sess' = sess /\ \A e \in Clients : InTable(e)' <=> InTable(e)
    BY DEF VerifyLogin, InTable
  <1>5. \A e \in Clients : InTable(e) => sess[e].from = a
    BY <1>2 DEF LoginInv
  <1>6. \A c, e \in Clients : login'[c].st = "in" /\ InTable(e)' => login'[c].from = sess'[e].from
    BY <1>3, <1>4, <1>5 DEF LoginInv
  <1>7. \A c, e \in Clients : InTable(e)' => sess'[c].asked \cup login'[c].asked \subseteq {sess'[e].from}
    BY <1>3, <1>4 DEF LoginInv
  <1>8. SingleLogin'
    BY <1>4 DEF LoginInv, SingleLogin
  <1> QED
    BY <1>4, <1>6, <1>7, <1>8 DEF LoginInv

\* Every step keeps LoginInv, when logins do not overlap, clients obey and no
\* check fails.
LEMMA LoginStep ==
  ASSUME Base, LoginInv, [Next]_vars, OneLogin,
         [\A c \in Clients : Obeys(c) /\ ~AuthFails(c)]_vars
  PROVE  LoginInv'
  <1>1. sess \in [Clients -> Session] /\ login \in [Clients -> Connection]
    BY DEF Base, TypeOK, RestOK
  <1>2. CASE UNCHANGED vars
    BY <1>2 DEF vars, LoginInv, InTable, SingleLogin
  <1>3. ASSUME NEW c \in Clients, AuthAccount(c) \/ LeaveLogin(c) PROVE LoginInv'
    BY <1>1, <1>3, FewerKeeps DEF AuthAccount, LeaveLogin, NoLogin, Fewer, InTable, LoginInv, Connection
  <1>4. ASSUME NEW c \in Clients, AuthCheck(c) PROVE LoginInv'
    <2>1. /\ UNCHANGED sess /\ login'[c].asked = login[c].asked
          /\ \A d \in Clients \ {c} : login'[d] = login[d]
          /\ login'[c].st = "in" => ~\E d \in Clients : InTable(d)
      BY <1>1, <1>4 DEF AuthCheck, AuthAnswered, IsOnline, Connection
    <2>2. CASE \E d \in Clients : InTable(d)
      BY <2>1, <2>2, FewerKeeps DEF Fewer, InTable, LoginInv
    <2>3. CASE ~\E d \in Clients : InTable(d)
      BY <2>1, <2>3 DEF LoginInv, InTable, SingleLogin
    <2> QED
      BY <2>2, <2>3
  <1>5. ASSUME NEW d \in Clients, Close(d), login' = login PROVE LoginInv'
    BY <1>1, <1>5, FewerKeeps DEF Close, Fewer, InTable, LoginInv, Session
  <1>6. ASSUME NEW c \in Clients, VerifyFails(c) PROVE LoginInv'
    <2>1. PICK f : \/ sess' = [sess EXCEPT ![c].asked = @ \ {f}] /\ login' = login
                   \/ login' = [login EXCEPT ![c].asked = @ \ {f}] /\ sess' = sess
      BY <1>6 DEF VerifyFails
    <2>2. CASE sess' = [sess EXCEPT ![c].asked = @ \ {f}] /\ login' = login
      BY <1>1, <2>2, FewerKeeps DEF Fewer, InTable, LoginInv, Session
    <2>3. CASE login' = [login EXCEPT ![c].asked = @ \ {f}] /\ sess' = sess
      BY <1>1, <2>3, FewerKeeps DEF Fewer, InTable, LoginInv, Connection
    <2> QED
      BY <2>1, <2>2, <2>3
  <1>7. ASSUME NEW c \in Clients, NEW d \in Clients, VerifyLinks(c, d), Obeys(c) PROVE LoginInv'
    <2>1. login[c].st = "in" /\ login[c].from \in Clients /\ UserVerify(login[c].from, d)
      BY <1>1, <1>7 DEF VerifyLinks, Obeys, Connection
    <2> QED
      BY <2>1, UserVerifyKeeps DEF LoginInv
  <1>8. ASSUME NEW c \in Clients, NEW d \in Clients, ServerVerifyLinks(c, d) PROVE LoginInv'
    <2>1. InTable(c) /\ sess[c].from \in Clients /\ UserVerify(sess[c].from, d)
      BY <1>1, <1>8 DEF ServerVerifyLinks, InTable, LoginInv, Session
    <2> QED
      BY <2>1, UserVerifyKeeps DEF LoginInv, SingleLogin
  <1>9. ASSUME NEW c \in Clients, Connect(c) PROVE LoginInv'
    <2>1. sess[c].from = None
      <3>1. Nobody.from = None
        BY DEF Nobody
      <3> QED
        BY <1>9, <3>1, Typed DEF Connect, Sound
    <2>2. /\ login' = login /\ sess'[c].from = None /\ sess'[c].asked = sess[c].asked /\ sess'[c].listed
          /\ \A d \in Clients \ {c} : sess'[d] = sess[d]
      BY <1>1, <1>9, <2>1 DEF Connect, Session
    <2> QED
      BY <2>2, FewerKeeps DEF Fewer, InTable, LoginInv
  <1>10. ASSUME NEW c \in Clients, Leaving(c) \/ LastSaveFails(c) PROVE LoginInv'
    <2>1. Nobody.listed = FALSE /\ Nobody.conn = "none" /\ Nobody.asked = {}
      BY DEF Nobody
    <2>2. CASE Forgotten(c)
      <3>1. login' = login /\ sess'[c] = Nobody /\ \A d \in Clients \ {c} : sess'[d] = sess[d]
        BY <1>1, <2>2 DEF Forgotten
      <3> QED
        BY <2>1, <3>1, FewerKeeps DEF Fewer, InTable, LoginInv
    <2>3. CASE NetworkRemoves(c)
      <3>1. /\ login' = login /\ sess'[c].conn = "closed" /\ ~sess'[c].listed /\ sess'[c].asked = {}
            /\ \A d \in Clients \ {c} : sess'[d] = sess[d]
        BY <1>1, <2>3 DEF NetworkRemoves, Session
      <3> QED
        BY <3>1, FewerKeeps DEF Fewer, InTable, LoginInv
    <2>4. CASE OnClientDisconnect(c) \/ LastSave(c) \/ LastSaveFails(c)
      <3>1. login' = login /\ sess' = sess
        BY <2>4 DEF OnClientDisconnect, LastSave, LastSaveFails
      <3> QED
        BY <3>1, FewerKeeps DEF Fewer, InTable, LoginInv
    <2> QED
      BY <1>10, <2>2, <2>3, <2>4 DEF Leaving
  <1>11. ASSUME NEW c \in Clients,
                \/ Manage(c, Slots) \/ Roam(c, Slots) \/ Secure(c) \/ Serve(c) \/ CallFails(c) \/ Return(c)
         PROVE  LoginInv'
    BY <1>11, MarksKept, FewerKeeps DEF Marks, Fewer, InTable, LoginInv
  <1>12. CASE Next /\ vars' # vars
    <2>1. PICK c \in Clients :
            \/ Login(c) \/ AuthFails(c) \/ VerifyFails(c) \/ Connect(c) \/ Disconnect(c)
            \/ Leaving(c) \/ LastSaveFails(c)
            \/ Manage(c, Slots) \/ Roam(c, Slots) \/ Secure(c) \/ Serve(c) \/ CallFails(c) \/ Return(c)
      BY <1>12 DEF Next
    <2>2. ~AuthFails(c) /\ Obeys(c)
      BY <1>12
    <2>3. CASE Login(c)
      <3>1. CASE AuthAccount(c) \/ AuthCheck(c) \/ FDisconnect(c) \/ LeaveLogin(c)
        BY <3>1, <1>3, <1>4, <1>5 DEF FDisconnect
      <3>2. CASE VerifyUser(c) \/ VerifyLogin(c)
        BY <3>2, VerifyUserKeeps, VerifyLoginKeeps
      <3>3. CASE \E d \in Clients : VerifyLinks(c, d) \/ ServerVerifyLinks(c, d)
        BY <2>2, <3>3, <1>7, <1>8
      <3> QED
        BY <2>3, <3>1, <3>2, <3>3 DEF Login
    <2>4. CASE VerifyFails(c) \/ Connect(c) \/ Disconnect(c)
      BY <2>4, <1>5, <1>6, <1>9 DEF Disconnect
    <2> QED
      BY <2>1, <2>2, <2>3, <2>4, <1>10, <1>11
  <1> QED
    BY <1>2, <1>12

\* All verified sessions of the table come from one login, also over a change of
\* channel and a return to the login server, for any number of clients, sessions
\* and verifications that are asked, lost or late (AuthAccount, AuthCheck,
\* VerifyLinks of both servers, VerifyUser).  It needs that logins do not overlap
\* (OneLogin), that a client asks for a verification only if its last answer was
\* Normal (Obeys), and that no check fails: the code itself ensures none of them.
THEOREM LobbySingleLogin ==
  Spec /\ []OneLogin /\ [][\A c \in Clients : Obeys(c) /\ ~AuthFails(c)]_vars => []SingleLogin
  <1>1. Init => LoginInv
    BY DEF Init, LoginInv, InTable, SingleLogin, Nobody, NoLogin
  <1>2. LoginInv => SingleLogin
    BY DEF LoginInv
  <1>3. Base /\ LoginInv /\ [Next]_vars /\ OneLogin
          /\ [\A c \in Clients : Obeys(c) /\ ~AuthFails(c)]_vars => LoginInv'
    BY LoginStep
  <1> QED
    BY <1>1, <1>2, <1>3, LobbyInvariant, PTL DEF Spec

----------------------------------------------------------------------------
(* The master stays up.                                                    *)

\* The call of c asks for op and has come as far as st.
CallIs(c, op, st) == call[c] # None /\ call[c].op = op /\ call[c].st = st

\* The list of a session in the lobby hides no row, and neither does a list
\* that is on its way: a row it misses is one whose creation has not been
\* answered yet.
UpFor(c) ==
    /\ call[c] # None /\ call[c].st = "failed" => call[c].op \in {"create", "password"}
    /\ CallIs(c, "load", "ok") \/ CallIs(c, "reload", "ok")
         => \A s \in Slots : call[c].val[s] = None => rows[s] = None
    /\ CallIs(c, "create", "asked") => rows[call[c].slot] = None
    /\ CallIs(c, "delete", "ok") => rows[call[c].slot] = None
    /\ sess[c].at = "lobby" =>
         \A s \in Slots : sess[c].list[s] = None /\ ~(CallIs(c, "create", "ok") /\ call[c].slot = s)
           => rows[s] = None

\* The inductive invariant of AnsweredUp.
UpInv == fails = 0 => up /\ \A c \in Clients : UpFor(c)

\* The step keeps what the session of d knows of its characters.
Kept(d) == sess'[d].at = sess[d].at /\ sess'[d].list = sess[d].list /\ sess'[d].char = sess[d].char

\* The step neither adds nor removes a row.
SameRows == \A s \in Slots : rows'[s] = None <=> rows[s] = None

\* A step that keeps lists, calls and rows keeps UpInv.
LEMMA UpFrame ==
  ASSUME UpInv, \A d \in Clients : Kept(d) /\ call'[d] = call[d] /\ (call[d] # None => Fit(call[d], sess[d])),
         SameRows, up' = up, fails' = 0 => fails = 0
  PROVE  UpInv'
  <1> SUFFICES ASSUME fails' = 0 PROVE up' /\ \A c \in Clients : UpFor(c)'
    BY DEF UpInv
  <1>1. up /\ \A c \in Clients : UpFor(c)
    BY DEF UpInv
  <1>2. ASSUME NEW c \in Clients PROVE UpFor(c)'
    <2>1. call[c] # None /\ call[c].op \in {"create", "delete"} => call[c].slot \in Slots
      BY DEF Fit
    <2> QED
      BY <1>1, <2>1 DEF UpFor, CallIs, Kept, SameRows
  <1> QED
    BY <1>1, <1>2

\* A step of the one session there is has to keep UpFor of it alone.
LEMMA UpAct ==
  ASSUME UpInv, Base', OneSession', NEW c \in Clients, sess'[c].conn # "none",
         fails = 0 /\ fails' = 0 => up' /\ UpFor(c)', fails' = 0 => fails = 0
  PROVE  UpInv'
  <1> SUFFICES ASSUME fails' = 0 PROVE up' /\ \A d \in Clients : UpFor(d)'
    BY DEF UpInv
  <1>1. ASSUME NEW d \in Clients \ {c} PROVE UpFor(d)'
    <2>1. sess'[d].conn = "none"
      BY DEF OneSession
    <2>2. sess'[d] = Nobody /\ call'[d] = None
      BY <2>1 DEF Base, Sound
    <2> QED
      BY <2>2 DEF UpFor, CallIs, Nobody
  <1> QED
    BY <1>1

\* A session that acts is there after the step.
LEMMA Present ==
  ASSUME Base, NEW c \in Clients,
         Manage(c, Slots) \/ Roam(c, Slots) \/ Secure(c) \/ Serve(c) \/ CallFails(c) \/ Return(c)
  PROVE  sess'[c].conn # "none"
  <1>1. sess \in [Clients -> Session]
    BY DEF Base, TypeOK
  <1>2. CASE Manage(c, Slots)
    BY <1>1, <1>2 DEF Manage, GetMyChartr, CheckUserPrivacyData, NewMyChartr, DelMyChartr, Ask, Close,
                      InLobby, Ready, Session
  <1>3. CASE Roam(c, Slots)
    BY <1>1, <1>3 DEF Roam, Uninitialze, Initialized, Walk, Ask, InLobby, Ready, Session
  <1>4. CASE Secure(c)
    <2>1. CASE \E secret \in Secrets : SubPasswordSet(c, secret) \/ SubPasswordChangeQA(c, secret)
      BY <1>1, <2>1 DEF SubPasswordSet, SubPasswordChangeQA, InLobby, Ready, Session
    <2>2. CASE ~\E secret \in Secrets : SubPasswordSet(c, secret) \/ SubPasswordChangeQA(c, secret)
      BY <1>1, <1>4, <2>2
         DEF Secure, SubPasswordFind, SubPasswordDelRequest, SubPasswordChangeQARequest,
             CharacterDeleteCheckSubPassword, SubPasswordCheck, SubPasswordTooShort, SubPasswordDel,
             Proves, InLobby, Ready, Session
    <2> QED
      BY <2>1, <2>2
  <1>5. CASE Serve(c) \/ CallFails(c)
    BY <1>5, Waiting DEF Serve, CallFails, FetchSubPassword, LoadCharacters, CreateCharacter, DeleteCharacter,
                PasswdCheck, LoadCharacterData, SavePosition, SetSubPassword, RemoveSubPassword, Serving
  <1>6. CASE Return(c)
    <2>0. call[c] # None
      BY <1>6 DEF Return, Fetched, Listed, Created, Deleted, PasswordChecked, Reloaded, Entered, Left,
                  SecretSet, SecretChecked, SecretRemoved, Answered
    <2>1. sess[c].conn # "none"
      BY <2>0, Waiting
    <2>2. CASE Fetched(c) \/ Listed(c) \/ Reloaded(c) \/ Entered(c) \/ Left(c)
      BY <1>1, <2>1, <2>2 DEF Fetched, Listed, Reloaded, Entered, Left, Session
    <2>3. CASE Created(c) \/ Deleted(c)
      BY <1>1, <2>1, <2>3 DEF Created, Deleted, Session
    <2>4. CASE PasswordChecked(c) \/ SecretSet(c) \/ SecretChecked(c) \/ SecretRemoved(c)
      BY <1>1, <2>1, <2>4 DEF PasswordChecked, SecretSet, SecretChecked, SecretRemoved, Session
    <2> QED
      BY <1>6, <2>2, <2>3, <2>4 DEF Return
  <1> QED
    BY <1>2, <1>3, <1>4, <1>5, <1>6

\* The step keeps what the session of d knows of the password.
Guarded(d) == sess'[d].sub = sess[d].sub /\ sess'[d].subVerified = sess[d].subVerified

\* The step concerns neither characters nor passwords.
Calm ==
    /\ UNCHANGED <<call, rows, subRow, up, where, shown>>
    /\ fails' = 0 => fails = 0
    /\ \A d \in Clients :
         /\ Kept(d) /\ Guarded(d)
         /\ bye'[d] = bye[d] \/ (bye[d].st = "no" /\ bye'[d].st = "wait")

\* Session.Close is calm.
LEMMA CloseCalm ==
  ASSUME Base, NEW c \in Clients, Close(c), UNCHANGED <<call, rows, subRow, up, fails, where, shown>>
  PROVE  Calm
  <1>1. sess \in [Clients -> Session] /\ bye \in [Clients -> Bye] /\ bye[c].st = "no"
    BY Typed DEF Base, TypeOK, Close, Sound, Session, Bye
  <1>2. \A d \in Clients : Kept(d) /\ Guarded(d)
    BY <1>1 DEF Close, Kept, Guarded, Session
  <1>3. \A d \in Clients : bye'[d] = bye[d] \/ (bye[d].st = "no" /\ bye'[d].st = "wait")
    BY <1>1 DEF Close, Bye
  <1> QED
    BY <1>2, <1>3 DEF Calm

\* So are the login and the connection.
LEMMA NetworkCalm ==
  ASSUME Base, NEW c \in Clients,
         Login(c) \/ AuthFails(c) \/ VerifyFails(c) \/ Connect(c) \/ Disconnect(c) \/ NetworkRemoves(c)
  PROVE  Calm
  <1>1. sess \in [Clients -> Session] /\ fails \in Nat
    BY DEF Base, TypeOK, RestOK
  <1>2. CASE AuthAccount(c) \/ LeaveLogin(c) \/ AuthCheck(c) \/ AuthFails(c)
    BY <1>1, <1>2 DEF AuthAccount, LeaveLogin, AuthCheck, AuthFails, Calm, Kept, Guarded
  <1>3. CASE \/ VerifyUser(c) \/ VerifyLogin(c) \/ VerifyFails(c)
             \/ \E d \in Clients : VerifyLinks(c, d) \/ ServerVerifyLinks(c, d)
    <2>1. PICK e \in Clients : Verifies(e)
      BY <1>3, VerifyCases
    <2>2. \A d \in Clients : Kept(d) /\ Guarded(d)
      <3>1. CASE sess' = sess
        BY <3>1 DEF Kept, Guarded
      <3>2. CASE \E f, a : sess' = [sess EXCEPT ![e].from = f, ![e].asked = a]
        BY <1>1, <3>2 DEF Kept, Guarded, Session
      <3> QED
        BY <2>1, <3>1, <3>2 DEF Verifies
    <2>3. UNCHANGED <<call, bye, rows, subRow, up, where, shown>> /\ (fails' = 0 => fails = 0)
      BY <1>1, <2>1 DEF Verifies
    <2> QED
      BY <2>2, <2>3 DEF Calm
  <1>4. CASE Connect(c) \/ NetworkRemoves(c)
    <2>1. \A d \in Clients : Kept(d) /\ Guarded(d)
      BY <1>1, <1>4 DEF Connect, NetworkRemoves, Kept, Guarded, Session
    <2> QED
      BY <1>4, <2>1 DEF Connect, NetworkRemoves, Calm
  <1>5. CASE FDisconnect(c) \/ Disconnect(c)
    BY <1>5, CloseCalm DEF FDisconnect, Disconnect
  <1> QED
    BY <1>2, <1>3, <1>4, <1>5 DEF Login

\* A packet that asks: what has changed.
LEMMA AskEffect ==
  ASSUME Base, NEW c \in Clients, NEW op \in Ops, NEW slot \in Slots \cup {None}, NEW val \in Values,
         Ask(c, op, slot, val)
  PROVE  /\ call'[c] # None /\ call'[c].op = op /\ call'[c].st = "asked"
         /\ call'[c].slot = slot /\ call'[c].val = val
         /\ UNCHANGED <<bye, rows, subRow, up, fails, where, shown>>
  <1>1. call'[c] = Request(op, slot, val) /\ UNCHANGED <<bye, rows, subRow, up, fails, where, shown>>
    BY DEF Ask, Base, TypeOK
  <1> QED
    BY <1>1, RequestOK, NoneAssumption

\* Calm steps keep UpInv.
LEMMA UpCalm ==
  ASSUME Base, UpInv, Calm
  PROVE  UpInv'
  BY Typed, UpFrame DEF Calm, SameRows, Sound

\* A save neither adds nor removes a row.
LEMMA SavedRows ==
  ASSUME Base, NEW char \in Character, rows' = Positioned(char)
  PROVE  SameRows
  <1>1. char.slot \in Slots /\ char.pos \in Places /\ char.pos # None /\ rows \in [Slots -> Places \cup {None}]
    BY NoneAssumption DEF Character, Base, TypeOK, RestOK, List
  <1> QED
    BY <1>1 DEF Positioned, SameRows

\* The end of a session keeps UpInv.
LEMMA UpEnd ==
  ASSUME Base, UpInv, NEW c \in Clients,
         OnClientDisconnect(c) \/ LastSave(c) \/ LastSaveFails(c) \/ Forgotten(c)
  PROVE  UpInv'
  <1>1. CASE OnClientDisconnect(c)
    BY <1>1, Typed, UpFrame DEF OnClientDisconnect, Kept, SameRows, Sound
  <1>2. CASE LastSave(c)
    <2>1. bye[c].char \in Character
      BY <1>2, Typed DEF LastSave, Sound, Bye
    <2>2. SameRows
      BY <1>2, <2>1, SavedRows DEF LastSave
    <2> QED
      BY <1>2, <2>2, Typed, UpFrame DEF LastSave, Kept, Sound
  <1>3. CASE LastSaveFails(c)
    BY <1>3, Typed, UpFrame DEF LastSaveFails, Kept, SameRows, Sound, RestOK
  <1>4. CASE Forgotten(c)
    <2>1. ASSUME NEW d \in Clients, UpFor(d) PROVE UpFor(d)'
      <3>1. CASE d = c
        BY <1>4, <3>1 DEF Forgotten, UpFor, CallIs, Base, TypeOK, Nobody
      <3>2. CASE d # c
        BY <1>4, <2>1, <3>2 DEF Forgotten, UpFor, CallIs, Base, TypeOK
      <3> QED
        BY <3>1, <3>2
    <2> QED
      BY <1>4, <2>1 DEF Forgotten, UpInv
  <1> QED
    BY <1>1, <1>2, <1>3, <1>4

\* A request keeps it, when a creation is for a slot the list has free.
LEMMA UpAsk ==
  ASSUME Base, UpInv, Base', OneSession', NEW c \in Clients, sess'[c].conn # "none",
         NEW op \in Ops, NEW slot \in Slots \cup {None}, NEW val \in Values,
         Ready(c), Ask(c, op, slot, val), Kept(c),
         op = "create" => slot \in Slots /\ sess[c].at = "lobby" /\ sess[c].list[slot] = None
  PROVE  UpInv'
  <1>1. /\ call'[c] # None /\ call'[c].op = op /\ call'[c].st = "asked" /\ call'[c].slot = slot
        /\ UNCHANGED <<rows, up, fails>> /\ call[c] = None
    BY AskEffect DEF Ready
  <1>2. ASSUME fails = 0 PROVE up /\ UpFor(c)'
    <2>1. up /\ UpFor(c)
      BY <1>2 DEF UpInv
    <2> QED
      BY <1>1, <2>1 DEF UpFor, CallIs, Kept
  <1> QED
    BY <1>1, <1>2, UpAct

\* The packets of the lobby keep it.
LEMMA UpManage ==
  ASSUME Base, UpInv, Base', OneSession', NEW c \in Clients, Manage(c, Slots)
  PROVE  UpInv'
  <1>1. sess'[c].conn # "none"
    BY Present
  <1>2. UNCHANGED sess => Kept(c)
    BY DEF Kept
  <1>3. CASE GetMyChartr(c)
    BY <1>1, <1>2, <1>3, CloseCalm, UpCalm, UpAsk DEF GetMyChartr, Ops, Values
  <1>4. CASE CheckUserPrivacyData(c)
    BY <1>1, <1>2, <1>4, UpAsk DEF CheckUserPrivacyData, InLobby, Ops, Values
  <1>5. ASSUME NEW slot \in Slots, NewMyChartr(c, slot) PROVE UpInv'
    BY <1>1, <1>2, <1>5, UpAsk DEF NewMyChartr, InLobby, Ops, Values
  <1>6. ASSUME NEW slot \in Slots, DelMyChartr(c, slot) PROVE UpInv'
    BY <1>1, <1>2, <1>6, UpAsk DEF DelMyChartr, InLobby, Ops, Values
  <1> QED
    BY <1>3, <1>4, <1>5, <1>6 DEF Manage

\* The packets of the world keep it.
LEMMA UpRoam ==
  ASSUME Base, UpInv, Base', OneSession', NEW c \in Clients, Roam(c, Slots)
  PROVE  UpInv'
  <1>1. sess'[c].conn # "none"
    BY Present
  <1>2. UNCHANGED sess => Kept(c)
    BY DEF Kept
  <1>3. CASE Uninitialze(c)
    <2>1. PICK x : x = sess[c].char
      OBVIOUS
    <2>2. x \in Values
      BY <1>3, <2>1, Typed DEF Uninitialze, Session, Sound, Values
    <2> QED
      BY <1>1, <1>2, <1>3, <2>1, <2>2, UpAsk DEF Uninitialze, Ops
  <1>4. ASSUME NEW slot \in Slots, Initialized(c, slot) PROVE UpInv'
    <2>1. PICK p : p = sess[c].list[slot]
      OBVIOUS
    <2>2. p \in Values
      BY <2>1, Typed DEF Session, List, Values
    <2>3. Ask(c, "reload", slot, None) \/ Ask(c, "enter", slot, p)
      BY <1>4, <2>1 DEF Initialized
    <2> QED
      BY <1>1, <1>2, <1>4, <2>2, <2>3, UpAsk DEF Initialized, Ops, Values
  <1>5. ASSUME NEW place \in Places, Walk(c, place) PROVE UpInv'
    <2>1. \A d \in Clients : sess'[d].at = sess[d].at /\ sess'[d].list = sess[d].list
      BY <1>5 DEF Walk, Base, TypeOK, Session
    <2>2. sess[c].at = "world" /\ call[c] = None /\ UNCHANGED <<call, rows, up, fails>>
      BY <1>5 DEF Walk, Ready
    <2>3. ASSUME fails = 0 PROVE up /\ UpFor(c)'
      BY <2>1, <2>2, <2>3 DEF UpInv, UpFor, CallIs
    <2> QED
      BY <1>1, <2>2, <2>3, UpAct
  <1> QED
    BY <1>3, <1>4, <1>5 DEF Roam

\* The handlers of the password: what they leave alone and what they ask for.
LEMMA SecureEffect ==
  ASSUME Base, NEW c \in Clients, Secure(c)
  PROVE  /\ Ready(c) /\ sess[c].at = "lobby" /\ Kept(c)
         /\ UNCHANGED <<rows, where, up, fails, bye, subRow>>
         /\ \/ UNCHANGED call
            \/ /\ call'[c] # None /\ call'[c].op \in {"set", "check", "remove"}
               /\ call'[c].st = "asked"
  <1>1. sess \in [Clients -> Session] /\ call \in [Clients -> Call \cup {None}]
    BY DEF Base, TypeOK
  <1>2. CASE \/ SubPasswordFind(c) \/ SubPasswordDelRequest(c) \/ SubPasswordChangeQARequest(c)
             \/ CharacterDeleteCheckSubPassword(c) \/ SubPasswordTooShort(c)
    <2>1. InLobby(c) /\ sess' = [sess EXCEPT ![c].subVerified = TRUE]
          /\ UNCHANGED <<rows, where, up, fails, bye, subRow, call>>
      BY <1>2 DEF SubPasswordFind, SubPasswordDelRequest, SubPasswordChangeQARequest,
                  CharacterDeleteCheckSubPassword, SubPasswordTooShort, Proves
    <2>2. Kept(c)
      BY <1>1, <2>1 DEF Kept, Session
    <2> QED
      BY <2>1, <2>2 DEF InLobby
  <1>3. CASE SubPasswordCheck(c)
    <2>1. PICK v : v = sess[c].sub
      OBVIOUS
    <2>2. v \in Values /\ call' = [call EXCEPT ![c] = Request("check", None, v)]
      BY <1>1, <1>3, <2>1 DEF SubPasswordCheck, Values, Session
    <2>3. call'[c] # None /\ call'[c].op = "check" /\ call'[c].st = "asked"
      BY <1>1, <2>2, RequestOK, NoneAssumption DEF Ops
    <2> QED
      BY <1>3, <2>3 DEF SubPasswordCheck, InLobby, Kept
  <1>4. CASE SubPasswordDel(c)
    BY <1>4, AskEffect DEF SubPasswordDel, InLobby, Kept, Ops, Values
  <1>5. ASSUME NEW secret \in Secrets, SubPasswordSet(c, secret) \/ SubPasswordChangeQA(c, secret)
        PROVE  /\ InLobby(c) /\ Kept(c)
               /\ UNCHANGED <<rows, where, up, fails, bye, subRow>>
               /\ call'[c] # None /\ call'[c].op = "set" /\ call'[c].st = "asked"
    <2>1. PICK v, u : v = Set(c, secret) /\ u = [sess[c].sub EXCEPT !.answer = secret]
      OBVIOUS
    <2>2. v \in Values /\ u \in Values
      BY <2>1, Typed DEF Set, Session, Secret, Values
    <2>3. Kept(c)
      BY <1>1, <1>5 DEF SubPasswordSet, SubPasswordChangeQA, Kept, Session
    <2>4. InLobby(c) /\ (Ask(c, "set", None, v) \/ Ask(c, "set", None, u))
      BY <1>5, <2>1 DEF SubPasswordSet, SubPasswordChangeQA
    <2> QED
      BY <2>2, <2>3, <2>4, AskEffect DEF Ops
  <1> QED
    BY <1>2, <1>3, <1>4, <1>5 DEF Secure, InLobby

\* They keep UpInv.
LEMMA UpSecure ==
  ASSUME Base, UpInv, Base', OneSession', NEW c \in Clients, Secure(c)
  PROVE  UpInv'
  <1>1. ASSUME fails = 0 PROVE up' /\ UpFor(c)'
    <2>1. up /\ UpFor(c)
      BY <1>1 DEF UpInv
    <2> QED
      <3>1. Kept(c) /\ Ready(c) /\ rows' = rows /\ up' = up
        BY SecureEffect
      <3>2. CASE call' = call
        BY <2>1, <3>1, <3>2 DEF UpFor, CallIs, Kept, Ready
      <3>3. CASE call'[c] # None /\ call'[c].op \in {"set", "check", "remove"} /\ call'[c].st = "asked"
        BY <2>1, <3>1, <3>3 DEF UpFor, CallIs, Kept, Ready
      <3> QED
        BY <3>2, <3>3, SecureEffect
  <1> QED
    BY <1>1, Present, SecureEffect, UpAct

\* An answer: what has changed.
LEMMA ServedEffect ==
  ASSUME Base, NEW c \in Clients, call[c] # None, NEW v \in Values, Served(c, v)
  PROVE  /\ call'[c] # None /\ call'[c].op = call[c].op /\ call'[c].slot = call[c].slot
         /\ call'[c].st = "ok" /\ call'[c].val = v
  <1>1. PICK k : k = [call[c] EXCEPT !.st = "ok", !.val = v]
    OBVIOUS
  <1>2. call[c] \in Call /\ call'[c] = k
    BY <1>1, Typed DEF Served, Base, TypeOK
  <1>3. k \in Call /\ k.op = call[c].op /\ k.slot = call[c].slot /\ k.st = "ok" /\ k.val = v
    BY <1>1, <1>2 DEF Call
  <1> QED
    BY <1>2, <1>3, NoneAssumption

\* A refusal: what has changed.
LEMMA RefusedEffect ==
  ASSUME Base, NEW c \in Clients, call[c] # None, Refused(c)
  PROVE  /\ call'[c] # None /\ call'[c].op = call[c].op /\ call'[c].slot = call[c].slot
         /\ call'[c].st = "failed" /\ call'[c].val = call[c].val
  <1>1. PICK k : k = [call[c] EXCEPT !.st = "failed"]
    OBVIOUS
  <1>2. call[c] \in Call /\ call'[c] = k
    BY <1>1, Typed DEF Refused, Base, TypeOK
  <1>3. k \in Call /\ k.op = call[c].op /\ k.slot = call[c].slot /\ k.st = "failed" /\ k.val = call[c].val
    BY <1>1, <1>2 DEF Call
  <1> QED
    BY <1>2, <1>3, NoneAssumption

\* The master answers the call for op with v.
ServeStep(c, op, v) ==
    /\ call[c] # None /\ call[c].op = op /\ call[c].st = "asked"
    /\ call'[c] # None /\ call'[c].op = op /\ call'[c].slot = call[c].slot
    /\ call'[c].st = "ok" /\ call'[c].val = v

\* The master refuses the call for op.
RefuseStep(c, op) ==
    /\ call[c] # None /\ call[c].op = op /\ call[c].st = "asked"
    /\ call'[c] # None /\ call'[c].op = op /\ call'[c].slot = call[c].slot
    /\ call'[c].st = "failed"

\* One disjunct per call of the master: what it leaves behind.
ServeEffect(c) ==
    \/ /\ ServeStep(c, "fetch", subRow)
       /\ UNCHANGED <<rows, subRow, up, where, shown>>
    \/ /\ ServeStep(c, "load", rows) \/ ServeStep(c, "reload", rows)
       /\ UNCHANGED <<rows, subRow, up, where, shown>>
    \/ /\ RefuseStep(c, "create") \/ RefuseStep(c, "password") \/ ServeStep(c, "password", None)
       /\ UNCHANGED <<rows, subRow, up, where, shown>>
    \/ /\ ServeStep(c, "create", Start)
       /\ rows[call[c].slot] = None
       /\ rows' = [rows EXCEPT ![call[c].slot] = Start]
       /\ where' = [where EXCEPT ![call[c].slot] = Start]
       /\ UNCHANGED <<subRow, up, shown>>
    \/ /\ call[c] # None /\ call[c].op = "create" /\ call[c].st = "asked"
       /\ rows[call[c].slot] # None
       /\ up' = FALSE
       /\ UNCHANGED <<call, rows, subRow, where, shown>>
    \/ /\ ServeStep(c, "delete", None)
       /\ rows' = [rows EXCEPT ![call[c].slot] = None]
       /\ where' = [where EXCEPT ![call[c].slot] = None]
       /\ UNCHANGED <<subRow, up, shown>>
    \/ /\ ServeStep(c, "enter", call[c].val)
       /\ UNCHANGED <<rows, subRow, up, where, shown>>
    \/ /\ ServeStep(c, "save", None)
       /\ rows' = Positioned(call[c].val)
       /\ UNCHANGED <<subRow, up, where, shown>>
    \/ /\ ServeStep(c, "set", None) \/ ServeStep(c, "check", None)
       /\ subRow' = call[c].val
       /\ shown' = [shown EXCEPT ![c] = TRUE]
       /\ UNCHANGED <<rows, up, where>>
    \/ /\ ServeStep(c, "remove", None)
       /\ subRow' = NoSecret
       /\ UNCHANGED <<rows, up, where, shown>>

\* A call of the master has one of the effects above.
LEMMA ServeIs ==
  ASSUME Base, NEW c \in Clients, Serve(c)
  PROVE  ServeEffect(c) /\ UNCHANGED <<sess, bye, fails>>
  <1>1. PICK v, l, k : v = subRow /\ l = rows /\ k = call[c].val
    OBVIOUS
  <1>2. v \in Values /\ l \in Values /\ None \in Values /\ Start \in Values /\ (call[c] # None => k \in Values)
    BY <1>1, Typed, StartAssumption DEF RestOK, Values, Call
  <1>3. CASE FetchSubPassword(c)
    BY <1>1, <1>2, <1>3, ServedEffect DEF FetchSubPassword, Serving, ServeEffect, ServeStep
  <1>4. CASE LoadCharacters(c)
    BY <1>1, <1>2, <1>4, ServedEffect DEF LoadCharacters, Serving, ServeEffect, ServeStep
  <1>5. CASE CreateCharacter(c)
    <2>1. CASE Refused(c) /\ UNCHANGED <<rows, up, where>>
      BY <1>5, <2>1, RefusedEffect DEF CreateCharacter, Serving, ServeEffect, RefuseStep
    <2>2. CASE /\ rows[call[c].slot] = None
               /\ Served(c, Start)
               /\ rows' = [rows EXCEPT ![call[c].slot] = Start]
               /\ where' = [where EXCEPT ![call[c].slot] = Start]
               /\ UNCHANGED up
      <3>1. ServeStep(c, "create", Start)
        BY <1>2, <1>5, <2>2, ServedEffect DEF CreateCharacter, Serving, ServeStep
      <3> QED
        BY <1>5, <2>2, <3>1 DEF CreateCharacter, ServeEffect
    <2>3. CASE rows[call[c].slot] # None /\ up' = FALSE /\ UNCHANGED <<call, rows, where>>
      BY <1>5, <2>3 DEF CreateCharacter, Serving, ServeEffect
    <2> QED
      BY <1>5, <2>1, <2>2, <2>3 DEF CreateCharacter
  <1>6. CASE DeleteCharacter(c)
    <2>1. ServeStep(c, "delete", None)
      BY <1>2, <1>6, ServedEffect DEF DeleteCharacter, Serving, ServeStep
    <2> QED
      BY <1>6, <2>1 DEF DeleteCharacter, ServeEffect
  <1>7. CASE PasswdCheck(c)
    BY <1>2, <1>7, ServedEffect, RefusedEffect DEF PasswdCheck, Serving, ServeEffect, ServeStep, RefuseStep
  <1>8. CASE LoadCharacterData(c)
    BY <1>1, <1>2, <1>8, ServedEffect DEF LoadCharacterData, Serving, ServeEffect, ServeStep
  <1>9. CASE SavePosition(c)
    BY <1>2, <1>9, ServedEffect DEF SavePosition, Serving, ServeEffect, ServeStep
  <1>10. CASE SetSubPassword(c)
    <2>1. ServeStep(c, "set", None) \/ ServeStep(c, "check", None)
      BY <1>2, <1>10, ServedEffect DEF SetSubPassword, Serving, ServeStep
    <2> QED
      BY <1>10, <2>1 DEF SetSubPassword, ServeEffect
  <1>11. CASE RemoveSubPassword(c)
    BY <1>2, <1>11, ServedEffect DEF RemoveSubPassword, Serving, ServeEffect, ServeStep
  <1> QED
    BY <1>3, <1>4, <1>5, <1>6, <1>7, <1>8, <1>9, <1>10, <1>11 DEF Serve

\* The calls of the master keep UpInv: a creation finds its slot free.
LEMMA UpServe ==
  ASSUME Base, UpInv, Base', OneSession', NEW c \in Clients, Serve(c)
  PROVE  UpInv'
  <1>1. ServeEffect(c) /\ UNCHANGED <<sess, bye, fails>>
    BY ServeIs
  <1>2. ASSUME fails = 0 PROVE up' /\ UpFor(c)'
    <2>1. up /\ UpFor(c) /\ rows \in [Slots -> Places \cup {None}]
      BY <1>2 DEF UpInv, Base, TypeOK, RestOK, List
    <2>2. call[c] # None => Fit(call[c], sess[c])
      BY Typed DEF Sound
    <2>3. CASE UNCHANGED <<rows, up>> /\
               \/ ServeStep(c, "fetch", subRow) \/ ServeStep(c, "load", rows) \/ ServeStep(c, "reload", rows)
               \/ RefuseStep(c, "create") \/ RefuseStep(c, "password") \/ ServeStep(c, "password", None)
               \/ ServeStep(c, "enter", call[c].val)
      BY <1>1, <2>1, <2>3 DEF UpFor, CallIs, ServeStep, RefuseStep
    <2>4. CASE /\ ServeStep(c, "create", Start)
               /\ rows' = [rows EXCEPT ![call[c].slot] = Start]
               /\ UNCHANGED up
      BY <1>1, <2>1, <2>2, <2>4 DEF UpFor, CallIs, ServeStep, Fit
    <2>5. CASE call[c] # None /\ call[c].op = "create" /\ call[c].st = "asked" /\ rows[call[c].slot] # None
      BY <2>1, <2>5 DEF UpFor, CallIs
    <2>6. CASE /\ ServeStep(c, "delete", None)
               /\ rows' = [rows EXCEPT ![call[c].slot] = None]
               /\ UNCHANGED up
      BY <1>1, <2>1, <2>2, <2>6 DEF UpFor, CallIs, ServeStep, Fit
    <2>7. CASE ServeStep(c, "save", None) /\ rows' = Positioned(call[c].val) /\ UNCHANGED up
      <3>1. sess[c].at = "world"
        BY <2>2, <2>7 DEF ServeStep, Fit
      <3> QED
        BY <1>1, <2>1, <2>7, <3>1 DEF UpFor, CallIs, ServeStep
    <2>8. CASE /\ UNCHANGED <<rows, up>>
               /\ ServeStep(c, "set", None) \/ ServeStep(c, "check", None) \/ ServeStep(c, "remove", None)
      BY <1>1, <2>1, <2>8 DEF UpFor, CallIs, ServeStep
    <2> QED
      BY <1>1, <2>3, <2>4, <2>5, <2>6, <2>7, <2>8 DEF ServeEffect
  <1> QED
    BY <1>1, <1>2, Present, UpAct

\* One disjunct per handler that goes on: what its session is afterwards.
ReturnEffect(c) ==
    \/ /\ call[c].op = "fetch"
       /\ Kept(c)
       /\ sess'[c].sub = (IF Ok(c) THEN call[c].val ELSE NoSecret) /\ sess'[c].subVerified = FALSE
       /\ call'[c] # None /\ call'[c].op = "load" /\ call'[c].st = "asked"
       /\ shown' = [shown EXCEPT ![c] = FALSE]
    \/ /\ call[c].op = "load"
       /\ sess'[c].list = Loaded(c) /\ sess'[c].at = "lobby" /\ sess'[c].char = sess[c].char
       /\ Guarded(c)
       /\ call'[c] = None /\ UNCHANGED shown
    \/ /\ call[c].op = "reload"
       /\ sess'[c].list = Loaded(c) /\ sess'[c].at = sess[c].at /\ sess'[c].char = sess[c].char
       /\ Guarded(c)
       /\ \/ call'[c] = None
          \/ /\ call'[c] # None /\ call'[c].op = "enter" /\ call'[c].st = "asked"
             /\ call'[c].slot = call[c].slot /\ call'[c].val = Loaded(c)[call[c].slot]
             /\ call'[c].val # None
       /\ UNCHANGED shown
    \/ /\ call[c].op = "create"
       /\ sess'[c].list = IF Ok(c) THEN [sess[c].list EXCEPT ![call[c].slot] = call[c].val] ELSE sess[c].list
       /\ sess'[c].at = sess[c].at /\ sess'[c].char = sess[c].char
       /\ Guarded(c)
       /\ call'[c] = None /\ UNCHANGED shown
    \/ /\ call[c].op = "delete"
       /\ sess'[c].list = IF Ok(c) THEN [sess[c].list EXCEPT ![call[c].slot] = None] ELSE sess[c].list
       /\ sess'[c].at = sess[c].at /\ sess'[c].char = sess[c].char
       /\ sess'[c].sub = sess[c].sub /\ (sess'[c].subVerified => sess[c].subVerified)
       /\ call'[c] = None /\ UNCHANGED shown
    \/ /\ call[c].op = "enter"
       /\ sess'[c].list = sess[c].list /\ sess'[c].at = "world"
       /\ sess'[c].char = [slot |-> call[c].slot, pos |-> call[c].val]
       /\ Guarded(c)
       /\ call'[c] = None /\ UNCHANGED shown
    \/ /\ call[c].op = "save"
       /\ sess'[c].list = NoList /\ sess'[c].at = "start" /\ sess'[c].char = sess[c].char
       /\ Guarded(c)
       /\ call'[c] = None /\ UNCHANGED shown
    \/ /\ call[c].op = "password"
       /\ Kept(c) /\ Guarded(c)
       /\ call'[c] = None /\ UNCHANGED shown
    \/ /\ call[c].op \in {"set", "check"}
       /\ Kept(c) /\ sess'[c].sub = sess[c].sub
       /\ call'[c] = None /\ UNCHANGED shown
    \/ /\ call[c].op = "remove"
       /\ Kept(c) /\ (Guarded(c) \/ ~sess'[c].subVerified)
       /\ call'[c] = None /\ UNCHANGED shown

\* A handler that goes on has one of the effects above.
LEMMA ReturnIs ==
  ASSUME Base, NEW c \in Clients, Return(c)
  PROVE  /\ ReturnEffect(c) /\ UNCHANGED <<bye, rows, subRow, up, fails, where>>
         /\ call[c] # None /\ call[c].st # "asked"
  <1>1. sess \in [Clients -> Session] /\ call \in [Clients -> Call \cup {None}]
    BY DEF Base, TypeOK
  <1>2. /\ call[c] # None /\ call[c].st # "asked"
        /\ UNCHANGED <<bye, rows, subRow, up, fails, where>>
    BY DEF Return, Fetched, Listed, Created, Deleted, PasswordChecked, Reloaded, Entered, Left,
           SecretSet, SecretChecked, SecretRemoved, Answered, Finished
  <1>3. CASE Fetched(c)
    <2>1. PICK v : v = IF Ok(c) THEN call[c].val ELSE NoSecret
      OBVIOUS
    <2>2. sess' = [sess EXCEPT ![c].sub = v, ![c].subVerified = FALSE]
      BY <1>3, <2>1 DEF Fetched
    <2>3. Kept(c) /\ sess'[c].sub = v /\ sess'[c].subVerified = FALSE
      BY <1>1, <2>2 DEF Kept, Session
    <2>4. call'[c] = Request("load", None, None)
      BY <1>1, <1>3 DEF Fetched
    <2>5. call'[c] # None /\ call'[c].op = "load" /\ call'[c].st = "asked"
      BY <2>4, RequestOK, NoneAssumption DEF Ops, Values
    <2> QED
      BY <1>2, <1>3, <2>1, <2>3, <2>5 DEF Fetched, Answered, ReturnEffect
  <1>4. CASE Listed(c)
    <2>1. PICK l : l = Loaded(c)
      OBVIOUS
    <2>2. sess'[c].list = l /\ sess'[c].at = "lobby" /\ sess'[c].char = sess[c].char /\ Guarded(c)
      BY <1>1, <1>4, <2>1 DEF Listed, Guarded, Session
    <2> QED
      BY <1>1, <1>2, <1>4, <2>1, <2>2 DEF Listed, Answered, Finished, ReturnEffect
  <1>5. CASE Reloaded(c)
    <2>1. PICK l : l = Loaded(c)
      OBVIOUS
    <2>2. sess'[c].list = l /\ sess'[c].at = sess[c].at /\ sess'[c].char = sess[c].char /\ Guarded(c)
      BY <1>1, <1>5, <2>1 DEF Reloaded, Guarded, Session
    <2>3. \/ call'[c] = None
          \/ /\ call'[c] # None /\ call'[c].op = "enter" /\ call'[c].st = "asked"
             /\ call'[c].slot = call[c].slot /\ call'[c].val = l[call[c].slot]
             /\ call'[c].val # None
      <3>1. PICK x, p : x = call[c].slot /\ p = l[call[c].slot]
        OBVIOUS
      <3>2. call'[c] = IF p = None THEN None ELSE Request("enter", x, p)
        BY <1>1, <1>5, <2>1, <3>1 DEF Reloaded
      <3>3. x \in Slots /\ l \in List
        BY <1>5, <2>1, <3>1, Typed, LoadedOK DEF Reloaded, Answered, Sound, Fit
      <3>4. p \in Values
        BY <3>1, <3>3 DEF List, Values
      <3> QED
        BY <3>1, <3>2, <3>3, <3>4, RequestOK DEF Ops
    <2> QED
      BY <1>2, <1>5, <2>1, <2>2, <2>3 DEF Reloaded, Answered, ReturnEffect
  <1>6. CASE Created(c)
    <2>1. PICK l : l = IF Ok(c) THEN [sess[c].list EXCEPT ![call[c].slot] = call[c].val] ELSE sess[c].list
      OBVIOUS
    <2>2. sess'[c].list = l /\ sess'[c].at = sess[c].at /\ sess'[c].char = sess[c].char /\ Guarded(c)
      <3>1. CASE Ok(c)
        BY <1>1, <1>6, <2>1, <3>1 DEF Created, Guarded, Session
      <3>2. CASE ~Ok(c)
        BY <1>6, <2>1, <3>2 DEF Created, Guarded
      <3> QED
        BY <3>1, <3>2
    <2> QED
      BY <1>1, <1>2, <1>6, <2>1, <2>2 DEF Created, Answered, Finished, ReturnEffect
  <1>7. CASE Deleted(c)
    <2>1. PICK l : l = IF Ok(c) THEN [sess[c].list EXCEPT ![call[c].slot] = None] ELSE sess[c].list
      OBVIOUS
    <2>2. /\ sess'[c].list = l /\ sess'[c].at = sess[c].at /\ sess'[c].char = sess[c].char
          /\ sess'[c].sub = sess[c].sub /\ (sess'[c].subVerified => sess[c].subVerified)
      <3>1. CASE Ok(c)
        BY <1>1, <1>7, <2>1, <3>1 DEF Deleted, Session
      <3>2. CASE ~Ok(c)
        BY <1>7, <2>1, <3>2 DEF Deleted
      <3> QED
        BY <3>1, <3>2
    <2> QED
      BY <1>1, <1>2, <1>7, <2>1, <2>2 DEF Deleted, Answered, Finished, ReturnEffect
  <1>8. CASE Entered(c)
    <2>1. PICK x : x = [slot |-> call[c].slot, pos |-> call[c].val]
      OBVIOUS
    <2>2. sess'[c].list = sess[c].list /\ sess'[c].at = "world" /\ sess'[c].char = x /\ Guarded(c)
      BY <1>1, <1>8, <2>1 DEF Entered, Guarded, Session
    <2> QED
      BY <1>1, <1>2, <1>8, <2>1, <2>2 DEF Entered, Answered, Finished, ReturnEffect
  <1>9. CASE Left(c)
    <2>1. sess'[c].list = NoList /\ sess'[c].at = "start" /\ sess'[c].char = sess[c].char /\ Guarded(c)
      BY <1>1, <1>9 DEF Left, Guarded, Session
    <2> QED
      BY <1>1, <1>2, <1>9, <2>1 DEF Left, Answered, Finished, ReturnEffect
  <1>10. CASE PasswordChecked(c)
    <2>1. Kept(c) /\ Guarded(c)
      BY <1>1, <1>10 DEF PasswordChecked, Kept, Guarded, Session
    <2> QED
      BY <1>1, <1>2, <1>10, <2>1 DEF PasswordChecked, Answered, Finished, ReturnEffect
  <1>11. CASE SecretSet(c) \/ SecretChecked(c)
    <2>1. Kept(c) /\ sess'[c].sub = sess[c].sub
      BY <1>1, <1>11 DEF SecretSet, SecretChecked, Kept, Session
    <2> QED
      BY <1>1, <1>2, <1>11, <2>1 DEF SecretSet, SecretChecked, Answered, Finished, ReturnEffect
  <1>12. CASE SecretRemoved(c)
    <2>1. Kept(c) /\ (Guarded(c) \/ sess'[c].subVerified = FALSE)
      <3>1. CASE sess' = sess
        BY <3>1 DEF Kept, Guarded
      <3>2. CASE sess' = [sess EXCEPT ![c].sub = NoSecret, ![c].subVerified = FALSE]
        BY <1>1, <3>2 DEF Kept, Session
      <3> QED
        BY <1>12, <3>1, <3>2 DEF SecretRemoved
    <2> QED
      BY <1>1, <1>2, <1>12, <2>1 DEF SecretRemoved, Answered, Finished, ReturnEffect
  <1> QED
    BY <1>2, <1>3, <1>4, <1>5, <1>6, <1>7, <1>8, <1>9, <1>10, <1>11, <1>12 DEF Return

\* It keeps UpInv: the list gets what was created and loses what was deleted.
LEMMA UpReturn ==
  ASSUME Base, UpInv, Base', OneSession', NEW c \in Clients, Return(c)
  PROVE  UpInv'
  <1>1. /\ ReturnEffect(c) /\ UNCHANGED <<rows, up, fails>>
        /\ call[c] # None /\ call[c].st # "asked"
    BY ReturnIs
  <1>2. ASSUME fails = 0 PROVE up' /\ UpFor(c)'
    <2>1. up /\ UpFor(c)
      BY <1>2 DEF UpInv
    <2>2. /\ call[c] \in Call /\ Fit(call[c], sess[c])
          /\ call[c].st \in {"ok", "failed"} /\ sess[c].list \in [Slots -> Places \cup {None}]
      BY <1>1, Typed DEF Sound, Call, Session, List
    <2>3. call[c].op \notin {"create", "password"} => Ok(c)
      BY <2>1, <2>2, <1>1 DEF UpFor, Ok
    <2>4. CASE call[c].op \in {"fetch", "password", "set", "check", "remove", "enter", "save"}
      BY <1>1, <2>1, <2>2, <2>4 DEF ReturnEffect, UpFor, CallIs, Kept, Fit
    <2>5. CASE call[c].op \in {"load", "reload"}
      <3>1. Loaded(c) = call[c].val /\ \A s \in Slots : call[c].val[s] = None => rows[s] = None
        BY <1>1, <2>1, <2>3, <2>5 DEF Loaded, UpFor, CallIs, Ok
      <3>2. /\ sess'[c].list = Loaded(c)
            /\ call'[c] = None \/ (call'[c].op = "enter" /\ call'[c].st = "asked")
        BY <1>1, <2>5 DEF ReturnEffect
      <3> QED
        BY <1>1, <2>1, <3>1, <3>2 DEF UpFor, CallIs
    <2>6. CASE call[c].op = "create"
      <3>1. /\ sess'[c].list = IF Ok(c) THEN [sess[c].list EXCEPT ![call[c].slot] = call[c].val]
                               ELSE sess[c].list
            /\ sess'[c].at = sess[c].at /\ call'[c] = None
        BY <1>1, <2>6 DEF ReturnEffect
      <3>2. call[c].slot \in Slots /\ (Ok(c) => call[c].val \in Places /\ call[c].val # None)
        BY <2>2, <2>6, NoneAssumption DEF Fit, Ok
      <3> QED
        BY <1>1, <2>1, <2>2, <2>6, <3>1, <3>2 DEF UpFor, CallIs, Ok
    <2>7. CASE call[c].op = "delete"
      <3>1. /\ sess'[c].list = [sess[c].list EXCEPT ![call[c].slot] = None]
            /\ sess'[c].at = sess[c].at /\ call'[c] = None
        BY <1>1, <2>3, <2>7 DEF ReturnEffect
      <3>2. call[c].slot \in Slots /\ rows[call[c].slot] = None
        BY <1>1, <2>1, <2>2, <2>3, <2>7 DEF Fit, UpFor, CallIs, Ok
      <3> QED
        BY <1>1, <2>1, <2>2, <2>7, <3>1, <3>2 DEF UpFor, CallIs
    <2> QED
      BY <2>2, <2>4, <2>5, <2>6, <2>7 DEF Call, Ops
  <1> QED
    BY <1>1, <1>2, Present, UpAct

\* Every step keeps UpInv.
LEMMA UpStep ==
  ASSUME Base, UpInv, [Next]_vars, Base', OneSession'
  PROVE  UpInv'
  <1>1. CASE UNCHANGED vars
    BY <1>1 DEF vars, UpInv, UpFor, CallIs
  <1>2. CASE Next
    <2>1. PICK c \in Clients :
            \/ Login(c) \/ AuthFails(c) \/ VerifyFails(c) \/ Connect(c) \/ Disconnect(c)
            \/ Leaving(c) \/ LastSaveFails(c)
            \/ Manage(c, Slots) \/ Roam(c, Slots) \/ Secure(c) \/ Serve(c) \/ CallFails(c) \/ Return(c)
      BY <1>2 DEF Next
    <2>2. CASE Login(c) \/ AuthFails(c) \/ VerifyFails(c) \/ Connect(c) \/ Disconnect(c) \/ NetworkRemoves(c)
      BY <2>2, NetworkCalm, UpCalm
    <2>3. CASE CallFails(c)
      BY <2>3, Typed DEF CallFails, UpInv, RestOK
    <2> QED
      BY <2>1, <2>2, <2>3, UpEnd, UpManage, UpRoam, UpSecure, UpServe, UpReturn DEF Leaving
  <1> QED
    BY <1>1, <1>2

\* As long as no call has failed the master runs: no creation hits a slot in
\* use (NewMyChartr, CreateCharacter).
THEOREM LobbyAnsweredUp == Spec /\ []OneSession => []AnsweredUp
  <1>1. Init => UpInv
    BY DEF Init, UpInv, UpFor, CallIs, Nobody
  <1>2. Base /\ UpInv /\ [Next]_vars /\ Base' /\ OneSession' => UpInv'
    BY UpStep
  <1>3. UpInv => AnsweredUp
    BY DEF UpInv, AnsweredUp
  <1> QED
    BY <1>1, <1>2, <1>3, InitBase, NextBase, PTL DEF Spec

----------------------------------------------------------------------------
(* The secondary password.                                                 *)

\* The copy of the password is in use, or about to be.
Facing(c) == sess[c].at = "lobby" \/ (call[c] # None /\ call[c].op = "load")

\* As long as the user has not shown the stored password, the session has the
\* password as it is stored, is not verified and is not about to write it.
SecretFor(c) ==
    /\ CallIs(c, "fetch", "ok") => call[c].val = subRow
    /\ Facing(c) /\ subRow.pw # None /\ ~shown[c] =>
         /\ sess[c].sub = subRow
         /\ ~sess[c].subVerified
         /\ call[c] # None => call[c].op \notin {"set", "check", "remove"}

\* The inductive invariant of SecretKept.
SecretInv == \A c \in Clients : SecretFor(c)

\* A step of the one session there is has to keep SecretFor of it alone.
LEMMA SecretAct ==
  ASSUME Base', OneSession', NEW c \in Clients, sess'[c].conn # "none", SecretFor(c)'
  PROVE  SecretInv'
  <1>1. ASSUME NEW d \in Clients \ {c} PROVE SecretFor(d)'
    <2>1. sess'[d].conn = "none"
      BY DEF OneSession
    <2>2. sess'[d] = Nobody /\ call'[d] = None
      BY <2>1 DEF Base, Sound
    <2> QED
      BY <2>2 DEF SecretFor, Facing, CallIs, Nobody
  <1> QED
    BY <1>1 DEF SecretInv

\* A step that keeps password, calls and sessions keeps SecretInv.
LEMMA SecretFrame ==
  ASSUME SecretInv, \A d \in Clients : sess'[d].at = sess[d].at /\ Guarded(d),
         UNCHANGED <<call, subRow, shown>>
  PROVE  SecretInv'
  BY DEF SecretInv, SecretFor, Facing, CallIs, Guarded

\* The end of a session keeps it.
LEMMA SecretEnd ==
  ASSUME Base, SecretInv, NEW c \in Clients,
         OnClientDisconnect(c) \/ LastSave(c) \/ LastSaveFails(c) \/ Forgotten(c)
  PROVE  SecretInv' /\ UNCHANGED subRow
  <1>1. CASE OnClientDisconnect(c) \/ LastSave(c) \/ LastSaveFails(c)
    BY <1>1, SecretFrame DEF OnClientDisconnect, LastSave, LastSaveFails, Guarded
  <1>2. CASE Forgotten(c)
    <2>1. ASSUME NEW d \in Clients PROVE SecretFor(d)'
      <3>1. CASE d = c
        BY <1>2, <3>1 DEF Forgotten, SecretFor, Facing, CallIs, Base, TypeOK, Nobody
      <3>2. CASE d # c
        BY <1>2, <3>2 DEF Forgotten, SecretInv, SecretFor, Facing, CallIs, Base, TypeOK
      <3> QED
        BY <3>1, <3>2
    <2> QED
      BY <1>2, <2>1 DEF SecretInv, Forgotten
  <1> QED
    BY <1>1, <1>2

\* So does a request that does not concern the password.
LEMMA SecretAsk ==
  ASSUME Base, SecretInv, Base', OneSession', NEW c \in Clients, sess'[c].conn # "none",
         NEW op \in Ops, op \notin {"load", "set", "check", "remove"},
         NEW slot \in Slots \cup {None}, NEW val \in Values,
         Ask(c, op, slot, val), UNCHANGED sess
  PROVE  SecretInv' /\ UNCHANGED subRow
  <1>1. /\ call'[c] # None /\ call'[c].op = op /\ call'[c].st = "asked" /\ UNCHANGED <<subRow, shown>>
    BY AskEffect
  <1>2. SecretFor(c)'
    BY <1>1 DEF SecretInv, SecretFor, Facing, CallIs
  <1> QED
    BY <1>1, <1>2, SecretAct

\* The packets of the lobby keep it.
LEMMA SecretManage ==
  ASSUME Base, SecretInv, Base', OneSession', NEW c \in Clients, Manage(c, Slots)
  PROVE  SecretInv' /\ UNCHANGED subRow
  <1>1. sess'[c].conn # "none"
    BY Present
  <1>2. CASE GetMyChartr(c)
    <2>1. Calm => SecretInv' /\ UNCHANGED subRow
      BY SecretFrame DEF Calm, Kept
    <2> QED
      BY <1>1, <1>2, <2>1, CloseCalm, SecretAsk DEF GetMyChartr, Ops, Values
  <1>3. CASE CheckUserPrivacyData(c)
    BY <1>1, <1>3, SecretAsk DEF CheckUserPrivacyData, Ops, Values
  <1>4. ASSUME NEW slot \in Slots, NewMyChartr(c, slot) PROVE SecretInv' /\ UNCHANGED subRow
    BY <1>1, <1>4, SecretAsk DEF NewMyChartr, Ops, Values
  <1>5. ASSUME NEW slot \in Slots, DelMyChartr(c, slot) PROVE SecretInv' /\ UNCHANGED subRow
    BY <1>1, <1>5, SecretAsk DEF DelMyChartr, Ops, Values
  <1> QED
    BY <1>2, <1>3, <1>4, <1>5 DEF Manage

\* The packets of the world keep it.
LEMMA SecretRoam ==
  ASSUME Base, SecretInv, Base', OneSession', NEW c \in Clients, Roam(c, Slots)
  PROVE  SecretInv' /\ UNCHANGED subRow
  <1>1. sess'[c].conn # "none"
    BY Present
  <1>2. CASE Uninitialze(c)
    <2>1. PICK x : x = sess[c].char
      OBVIOUS
    <2>2. x \in Values
      BY <1>2, <2>1, Typed DEF Uninitialze, Session, Sound, Values
    <2> QED
      BY <1>1, <1>2, <2>1, <2>2, SecretAsk DEF Uninitialze, Ops
  <1>3. ASSUME NEW slot \in Slots, Initialized(c, slot) PROVE SecretInv' /\ UNCHANGED subRow
    <2>1. PICK p : p = sess[c].list[slot]
      OBVIOUS
    <2>2. p \in Values
      BY <2>1, Typed DEF Session, List, Values
    <2>3. Ask(c, "reload", slot, None) \/ Ask(c, "enter", slot, p)
      BY <1>3, <2>1 DEF Initialized
    <2> QED
      BY <1>1, <1>3, <2>2, <2>3, SecretAsk DEF Initialized, Ops, Values
  <1>4. ASSUME NEW place \in Places, Walk(c, place) PROVE SecretInv' /\ UNCHANGED subRow
    <2>1. \A d \in Clients : sess'[d].at = sess[d].at /\ Guarded(d)
      BY <1>4 DEF Walk, Base, TypeOK, Session, Guarded
    <2> QED
      BY <1>4, <2>1, SecretFrame DEF Walk
  <1> QED
    BY <1>2, <1>3, <1>4 DEF Roam

\* The handlers of the password keep it: they ask for a change only when the
\* session is verified, has no password or the user shows it.
LEMMA SecretSecure ==
  ASSUME Base, SecretInv, Base', OneSession', NEW c \in Clients, Secure(c)
  PROVE  SecretInv' /\ UNCHANGED subRow
  <1>1. /\ Ready(c) /\ sess[c].at = "lobby" /\ Kept(c) /\ UNCHANGED subRow
        /\ \/ UNCHANGED call
           \/ /\ call'[c] # None /\ call'[c].op \in {"set", "check", "remove"}
              /\ call'[c].st = "asked"
    BY SecureEffect
  <1>2. SecretFor(c) /\ Facing(c) /\ shown \in [Clients -> BOOLEAN] /\ sess[c] \in Session
    BY <1>1 DEF SecretInv, Facing, Base, TypeOK
  \* A packet after which the stored password counts as shown, or is none.
  <1>3. ASSUME subRow.pw = None \/ shown'[c] PROVE SecretInv'
    <2>1. SecretFor(c)'
      BY <1>1, <1>3 DEF SecretFor, CallIs, Ready
    <2> QED
      BY <2>1, Present, SecretAct
  <1>4. ASSUME NEW secret, NEW stored, Proves(c, secret, stored),
               sess[c].sub = subRow => secret = stored
        PROVE  SecretInv'
    <2>1. shown[c] \/ secret = stored => shown'[c]
      BY <1>2, <1>4 DEF Proves
    <2>2. subRow.pw = None \/ shown'[c]
      BY <1>2, <1>4, <2>1 DEF SecretFor
    <2> QED
      BY <1>3, <2>2
  <1>5. CASE \/ SubPasswordFind(c) \/ SubPasswordDelRequest(c) \/ SubPasswordChangeQARequest(c)
             \/ CharacterDeleteCheckSubPassword(c)
    <2>1. PICK p, a, q, r : p = sess[c].sub.pw /\ a = sess[c].sub.answer /\ q = subRow.pw /\ r = subRow.answer
      OBVIOUS
    <2>2. Proves(c, p, q) \/ Proves(c, a, r)
      BY <1>5, <2>1 DEF SubPasswordFind, SubPasswordDelRequest, SubPasswordChangeQARequest,
                        CharacterDeleteCheckSubPassword
    <2>3. sess[c].sub = subRow => p = q /\ a = r
      BY <2>1
    <2> QED
      BY <1>1, <1>4, <2>2, <2>3
  <1>6. CASE SubPasswordCheck(c)
    <2>1. shown[c] \/ sess[c].sub.pw = subRow.pw => shown'[c]
      BY <1>2, <1>6 DEF SubPasswordCheck
    <2>2. subRow.pw = None \/ shown'[c]
      BY <1>2, <2>1 DEF SecretFor
    <2> QED
      BY <1>1, <1>3, <2>2
  \* The packets that need a password already shown, or none.
  <1>7. ASSUME First(c) \/ sess[c].subVerified, UNCHANGED shown PROVE SecretInv'
    <2>1. subRow.pw = None \/ shown[c]
      BY <1>2, <1>7 DEF SecretFor, First
    <2> QED
      BY <1>3, <1>7, <2>1
  <1>8. CASE SubPasswordTooShort(c) \/ SubPasswordDel(c)
    BY <1>7, <1>8 DEF SubPasswordTooShort, SubPasswordDel, Ask
  <1>9. CASE \E secret \in Secrets : SubPasswordSet(c, secret) \/ SubPasswordChangeQA(c, secret)
    BY <1>7, <1>9 DEF SubPasswordSet, SubPasswordChangeQA, Ask
  <1> QED
    BY <1>1, <1>5, <1>6, <1>8, <1>9 DEF Secure

\* The calls of the master keep it, and change the password only after it was
\* shown.
LEMMA SecretServe ==
  ASSUME Base, SecretInv, Base', OneSession', NEW c \in Clients, Serve(c)
  PROVE  /\ SecretInv'
         /\ subRow.pw # None /\ subRow'.pw # subRow.pw
              => call[c] # None /\ call'[c] # call[c] /\ shown[c]
  <1>1. ServeEffect(c) /\ UNCHANGED sess
    BY ServeIs
  <1>2. SecretFor(c) /\ shown \in [Clients -> BOOLEAN]
    BY DEF SecretInv, Base, TypeOK
  <1>3. call[c] # None => Fit(call[c], sess[c])
    BY Typed DEF Sound
  <1>4. CASE UNCHANGED <<subRow, shown>>
    <2>1. \/ UNCHANGED call
          \/ /\ call'[c] # None /\ call[c] # None /\ call'[c].op = call[c].op
             /\ call'[c].op = "fetch" /\ call'[c].st = "ok" => call'[c].val = subRow
      BY <1>1 DEF ServeEffect, ServeStep, RefuseStep
    <2>2. SecretFor(c)'
      BY <1>1, <1>2, <1>4, <2>1 DEF SecretFor, Facing, CallIs
    <2> QED
      BY <1>4, <2>2, Present, SecretAct
  <1>5. CASE /\ ServeStep(c, "set", None) \/ ServeStep(c, "check", None)
             /\ shown' = [shown EXCEPT ![c] = TRUE]
    <2>1. SecretFor(c)'
      BY <1>2, <1>5 DEF SecretFor, CallIs, ServeStep
    <2>2. Facing(c) /\ call'[c] # call[c]
      BY <1>3, <1>5 DEF ServeStep, Fit, Facing
    <2> QED
      BY <1>2, <1>5, <2>1, <2>2, Present, SecretAct DEF SecretFor, ServeStep
  <1>6. CASE ServeStep(c, "remove", None) /\ subRow' = NoSecret /\ UNCHANGED shown
    <2>1. SecretFor(c)'
      BY <1>6 DEF SecretFor, CallIs, ServeStep, NoSecret
    <2>2. Facing(c) /\ call'[c] # call[c]
      BY <1>3, <1>6 DEF ServeStep, Fit, Facing
    <2> QED
      BY <1>2, <1>6, <2>1, <2>2, Present, SecretAct DEF SecretFor, ServeStep
  <1> QED
    BY <1>1, <1>4, <1>5, <1>6 DEF ServeEffect

\* A call that fails keeps it, if it is not the fetch.
LEMMA SecretFail ==
  ASSUME Base, SecretInv, Base', OneSession', NEW c \in Clients, CallFails(c)
  PROVE  SecretInv' /\ UNCHANGED subRow
  <1>1. /\ call[c] # None /\ call'[c] # None /\ call'[c].op = call[c].op /\ call'[c].st = "failed"
        /\ UNCHANGED <<sess, subRow, shown>>
    BY RefusedEffect DEF CallFails
  <1>2. SecretFor(c)'
    BY <1>1 DEF SecretInv, SecretFor, Facing, CallIs
  <1> QED
    BY <1>1, <1>2, Present, SecretAct

\* A handler that goes on keeps it.
LEMMA SecretReturn ==
  ASSUME Base, SecretInv, Base', OneSession', FetchAnswered, NEW c \in Clients, Return(c)
  PROVE  SecretInv' /\ UNCHANGED subRow
  <1>1. ReturnEffect(c) /\ UNCHANGED subRow /\ call[c] # None /\ call[c].st # "asked"
    BY ReturnIs
  <1>2. SecretFor(c) /\ shown \in [Clients -> BOOLEAN] /\ call[c] \in Call /\ Fit(call[c], sess[c])
    BY <1>1, Typed DEF SecretInv, Base, TypeOK, Sound
  <1>3. CASE call[c].op = "fetch"
    <2>1. Ok(c)
      BY <1>1, <1>2, <1>3 DEF FetchAnswered, Ok, Call
    <2>2. /\ sess'[c].sub = call[c].val /\ sess'[c].subVerified = FALSE
          /\ call'[c] # None /\ call'[c].op = "load" /\ call'[c].st = "asked"
      BY <1>1, <1>3, <2>1 DEF ReturnEffect
    <2>3. call[c].val = subRow
      BY <1>1, <1>2, <1>3, <2>1 DEF SecretFor, CallIs, Ok
    <2> QED
      BY <1>1, <2>2, <2>3, Present, SecretAct DEF SecretFor, CallIs
  <1>4. CASE call[c].op \in {"enter", "save"}
    <2>1. sess'[c].at # "lobby" /\ call'[c] = None
      BY <1>1, <1>4 DEF ReturnEffect
    <2> QED
      BY <1>1, <2>1, Present, SecretAct DEF SecretFor, Facing, CallIs
  <1>5. CASE call[c].op \in {"set", "check", "remove"}
    <2>1. Kept(c) /\ call'[c] = None /\ UNCHANGED shown
      BY <1>1, <1>5 DEF ReturnEffect
    <2>2. Facing(c)
      BY <1>2, <1>5 DEF Fit, Facing
    <2>3. subRow.pw = None \/ shown[c]
      BY <1>1, <1>2, <1>5, <2>2 DEF SecretFor
    <2> QED
      BY <1>1, <2>1, <2>3, Present, SecretAct DEF SecretFor, CallIs
  <1>6. CASE call[c].op \in {"load", "reload", "create", "delete", "password"}
    <2>1. /\ sess'[c].sub = sess[c].sub /\ (sess'[c].subVerified => sess[c].subVerified)
          /\ call'[c] = None \/ (call'[c].op = "enter" /\ call'[c].st = "asked")
          /\ UNCHANGED shown
          /\ call[c].op # "load" => sess'[c].at = sess[c].at
      BY <1>1, <1>6 DEF ReturnEffect, Kept, Guarded
    <2>2. SecretFor(c)'
      BY <1>1, <1>2, <1>6, <2>1 DEF SecretFor, Facing, CallIs
    <2> QED
      BY <1>1, <2>2, Present, SecretAct
  <1> QED
    BY <1>2, <1>3, <1>4, <1>5, <1>6 DEF Call, Ops

\* What SecretKept says of a step.
SecretChange ==
    subRow.pw # None /\ subRow'.pw # subRow.pw
      => \E c \in Clients : call[c] # None /\ call'[c] # call[c] /\ shown[c]

\* Every step keeps SecretInv and does what SecretKept says.
LEMMA SecretStep ==
  ASSUME Base, SecretInv, [Next]_vars, Base', OneSession', FetchAnswered
  PROVE  SecretInv' /\ [SecretChange]_vars
  <1>1. CASE UNCHANGED vars
    BY <1>1 DEF vars, SecretInv, SecretFor, Facing, CallIs
  <1>2. CASE Next
    <2>1. PICK c \in Clients :
            \/ Login(c) \/ AuthFails(c) \/ VerifyFails(c) \/ Connect(c) \/ Disconnect(c)
            \/ Leaving(c) \/ LastSaveFails(c)
            \/ Manage(c, Slots) \/ Roam(c, Slots) \/ Secure(c) \/ Serve(c) \/ CallFails(c) \/ Return(c)
      BY <1>2 DEF Next
    <2>2. CASE Login(c) \/ AuthFails(c) \/ VerifyFails(c) \/ Connect(c) \/ Disconnect(c) \/ NetworkRemoves(c)
      <3>1. Calm
        BY <2>2, NetworkCalm
      <3> QED
        BY <3>1, SecretFrame DEF Calm, Kept, SecretChange
    <2>3. CASE Serve(c)
      BY <2>3, SecretServe DEF SecretChange
    <2>4. SecretInv' /\ UNCHANGED subRow => SecretInv' /\ SecretChange
      BY DEF SecretChange
    <2> QED
      BY <2>1, <2>2, <2>3, <2>4, SecretEnd, SecretManage, SecretRoam, SecretSecure, SecretFail, SecretReturn
         DEF Leaving
  <1> QED
    BY <1>1, <1>2

\* A stored secondary password is changed or removed only for a user who set
\* it or has shown it since, when the fetch of the password is answered
\* (SubPasswordSet, SubPasswordDel, SubPasswordCheck); other calls may fail.
THEOREM LobbySecretKept == Spec /\ []OneSession /\ []FetchAnswered => SecretKept
  <1>1. Init => SecretInv
    <2>1. Nobody.conn = "none" /\ Nobody.sub = NoSecret /\ ~Nobody.subVerified /\ Nobody.at = "start"
      BY DEF Nobody
    <2> QED
      BY <2>1 DEF Init, SecretInv, SecretFor, Facing, CallIs
  <1>2. Base /\ SecretInv /\ [Next]_vars /\ Base' /\ OneSession' /\ FetchAnswered => SecretInv'
    BY SecretStep
  <1>3. Base /\ SecretInv /\ [Next]_vars /\ Base' /\ OneSession' /\ FetchAnswered
          => [subRow.pw # None /\ subRow'.pw # subRow.pw
                => \E c \in Clients : call[c] # None /\ call'[c] # call[c] /\ shown[c]]_vars
    BY SecretStep DEF SecretChange
  <1> QED
    BY <1>1, <1>2, <1>3, InitBase, NextBase, PTL DEF Spec, SecretKept

----------------------------------------------------------------------------
(* Where a character enters.                                               *)

\* The session plays a character and has not saved it since: neither
\* Uninitialze nor the disconnect handler has.
Unsaved(c) ==
    /\ sess[c].at = "world" /\ ~CallIs(c, "save", "ok")
    /\ \/ bye[c].st \in {"no", "wait"}
       \/ bye[c].st = "save" /\ bye[c].char = sess[c].char

\* A character stands where the history says, if it still exists.
PosOK(char) == where[char.slot] # None => char.pos = where[char.slot]

\* A row and the history have the same characters; a row is behind only for a
\* session that has not saved yet.
Stored ==
    /\ \A s \in Slots : rows[s] = None <=> where[s] = None
    /\ \A s \in Slots : rows[s] = where[s] \/ \E c \in Clients : Unsaved(c) /\ sess[c].char.slot = s

\* A list on its way, and the place of an entry on its way, are those of the
\* history.
FreshCall(c) ==
    /\ call[c] # None /\ call[c].st = "failed" => call[c].op \in {"create", "password"}
    /\ CallIs(c, "load", "ok") \/ CallIs(c, "reload", "ok") => call[c].val = where
    /\ CallIs(c, "create", "asked") => sess[c].list[call[c].slot] = None
    /\ CallIs(c, "create", "ok") => call[c].val = where[call[c].slot]
    /\ call[c] # None /\ call[c].op = "enter" => call[c].val = where[call[c].slot]

\* The character of the session, and the one its disconnect handler saves,
\* stand where the history says.
FreshChar(c) ==
    /\ sess[c].char # None => PosOK(sess[c].char)
    /\ bye[c].st = "save" => PosOK(bye[c].char)
    /\ bye[c].st = "save" /\ call[c] # None /\ call[c].op = "create" => bye[c].char = sess[c].char

\* Outside the world the list has the place of every character.
FreshList(c) ==
    sess[c].at # "world" =>
      \A s \in Slots : sess[c].list[s] # None /\ ~(CallIs(c, "delete", "ok") /\ call[c].slot = s)
        => sess[c].list[s] = where[s]

\* The parts of the invariant that belong to c.
FreshFor(c) == FreshCall(c) /\ FreshChar(c) /\ FreshList(c)

\* The inductive invariant of FreshEntry.
FreshInv == fails = 0 => Stored /\ \A c \in Clients : FreshFor(c)

\* Stored, when no session but that of c can be behind.
StoredFor(c) ==
    /\ \A s \in Slots : rows[s] = None <=> where[s] = None
    /\ \A s \in Slots : rows[s] = where[s] \/ (Unsaved(c) /\ sess[c].char.slot = s)

\* A step of the one session there is has to keep the invariant for it alone.
LEMMA FreshAct ==
  ASSUME Base', OneSession', NEW c \in Clients, sess'[c].conn # "none",
         fails' = 0 => StoredFor(c)' /\ FreshFor(c)'
  PROVE  FreshInv'
  <1>1. ASSUME NEW d \in Clients \ {c} PROVE FreshFor(d)'
    <2>1. sess'[d].conn = "none"
      BY DEF OneSession
    <2>2. sess'[d] = Nobody /\ call'[d] = None /\ bye'[d] = NoBye
      BY <2>1 DEF Base, Sound
    <2>3. FreshCall(d)' /\ FreshChar(d)' /\ FreshList(d)'
      BY <2>2 DEF FreshCall, FreshChar, FreshList, CallIs, Nobody, NoBye, NoList
    <2> QED
      BY <2>3 DEF FreshFor
  <1>2. StoredFor(c)' => Stored'
    BY DEF Stored, StoredFor
  <1> QED
    BY <1>1, <1>2 DEF FreshInv

\* The invariant, as the one session there is sees it.
LEMMA FreshHere ==
  ASSUME Base, OneSession, FreshInv, fails = 0, NEW c \in Clients, sess[c].conn # "none"
  PROVE  StoredFor(c) /\ FreshFor(c)
  <1>1. ASSUME NEW d \in Clients, Unsaved(d) PROVE d = c
    <2>1. sess[d].conn # "none"
      BY <1>1, Typed DEF Unsaved, Sound, Nobody
    <2> QED
      BY <2>1 DEF OneSession
  <1> QED
    BY <1>1 DEF FreshInv, Stored, StoredFor

\* Calm steps keep FreshInv.
LEMMA FreshCalm ==
  ASSUME Base, FreshInv, Calm
  PROVE  FreshInv'
  <1> SUFFICES ASSUME fails' = 0 PROVE Stored' /\ \A c \in Clients : FreshFor(c)'
    BY DEF FreshInv
  <1>1. Stored /\ \A c \in Clients : FreshFor(c)
    BY DEF FreshInv, Calm
  <1>2. ASSUME NEW c \in Clients PROVE Unsaved(c) => Unsaved(c)' /\ sess'[c].char = sess[c].char
    BY DEF Unsaved, CallIs, Calm, Kept
  <1>3. Stored'
    BY <1>1, <1>2 DEF Stored, Calm
  <1>4. ASSUME NEW c \in Clients PROVE FreshFor(c)'
    <2>1. FreshCall(c)'
      BY <1>1 DEF FreshFor, FreshCall, CallIs, Calm, Kept
    <2>2. FreshChar(c)'
      BY <1>1 DEF FreshFor, FreshChar, PosOK, Calm, Kept
    <2>3. FreshList(c)'
      BY <1>1 DEF FreshFor, FreshList, CallIs, Calm, Kept
    <2> QED
      BY <2>1, <2>2, <2>3 DEF FreshFor
  <1> QED
    BY <1>3, <1>4

\* The disconnect handler keeps it: what it saves is where the character
\* stands, even when the client has returned to the lobby before.
LEMMA FreshEnd ==
  ASSUME Base, OneSession, FreshInv, Base', OneSession', NEW c \in Clients,
         OnClientDisconnect(c) \/ LastSave(c)
  PROVE  FreshInv'
  <1>1. sess[c].conn # "none" /\ UNCHANGED <<sess, call, where, fails>> /\ bye \in [Clients -> Bye]
        /\ rows \in [Slots -> Places \cup {None}] /\ where \in [Slots -> Places \cup {None}]
    BY Typed DEF OnClientDisconnect, LastSave, Sound, Base, TypeOK, RestOK, List
  <1>2. ASSUME fails = 0 PROVE StoredFor(c)' /\ FreshFor(c)'
    <2>1. StoredFor(c) /\ FreshFor(c)
      BY <1>1, <1>2, FreshHere
    <2>2. CASE OnClientDisconnect(c)
      <3>0. PICK b : b = [st |-> IF sess[c].char = None THEN "done" ELSE "save", char |-> sess[c].char]
        OBVIOUS
      <3>1. /\ bye[c].st = "wait" /\ bye'[c] = b /\ UNCHANGED rows
            /\ b.st = "save" => b.char = sess[c].char /\ sess[c].char # None
            /\ b.st = "done" => sess[c].char = None
            /\ b.st \in {"done", "save"}
        BY <1>1, <2>2, <3>0 DEF OnClientDisconnect
      <3>2. Unsaved(c) => Unsaved(c)'
        BY <1>1, <3>1, Typed DEF Unsaved, CallIs, Sound
      <3>3. StoredFor(c)'
        BY <1>1, <2>1, <3>1, <3>2 DEF StoredFor
      <3>4. FreshChar(c)'
        BY <1>1, <2>1, <3>1 DEF FreshFor, FreshChar, PosOK
      <3>5. FreshCall(c)' /\ FreshList(c)'
        BY <1>1, <2>1 DEF FreshFor, FreshCall, FreshList, CallIs
      <3> QED
        BY <3>3, <3>4, <3>5 DEF FreshFor
    <2>3. CASE LastSave(c)
      <3>1. bye[c].st = "save" /\ bye'[c].st = "done" /\ rows' = Positioned(bye[c].char)
        BY <1>1, <2>3 DEF LastSave, NoBye
      <3>2. bye[c].char \in Character /\ PosOK(bye[c].char)
        BY <2>1, <3>1, Typed DEF Sound, Bye, FreshFor, FreshChar
      <3>3. PICK b : b = bye[c].char
        OBVIOUS
      <3>4. b.slot \in Slots /\ rows' = IF rows[b.slot] = None THEN rows ELSE [rows EXCEPT ![b.slot] = b.pos]
        BY <3>1, <3>2, <3>3 DEF Positioned, Character
      <3>5. where[b.slot] # None => b.pos = where[b.slot]
        BY <3>2, <3>3 DEF PosOK
      <3>6. \A s \in Slots \ {b.slot} : rows[s] = where[s]
        BY <2>1, <3>1, <3>3 DEF StoredFor, Unsaved
      <3>7. \A s \in Slots : rows'[s] = where[s]
        <4>1. CASE rows[b.slot] = None
          BY <2>1, <3>4, <3>6, <4>1 DEF StoredFor
        <4>2. CASE rows[b.slot] # None
          BY <1>1, <2>1, <3>4, <3>5, <3>6, <4>2 DEF StoredFor
        <4> QED
          BY <4>1, <4>2
      <3>8. StoredFor(c)'
        BY <1>1, <3>7 DEF StoredFor
      <3>9. FreshChar(c)'
        BY <1>1, <2>1, <3>1 DEF FreshFor, FreshChar, PosOK
      <3>10. FreshCall(c)' /\ FreshList(c)'
        BY <1>1, <2>1 DEF FreshFor, FreshCall, FreshList, CallIs
      <3> QED
        BY <3>8, <3>9, <3>10 DEF FreshFor
    <2> QED
      BY <2>2, <2>3
  <1> QED
    BY <1>1, <1>2, FreshAct

\* The end of a session keeps it: its character has been saved.
LEMMA FreshForget ==
  ASSUME Base, OneSession, FreshInv, NEW c \in Clients, Forgotten(c)
  PROVE  FreshInv'
  <1> SUFFICES ASSUME fails = 0 PROVE Stored' /\ \A d \in Clients : FreshFor(d)'
    BY DEF FreshInv, Forgotten
  <1>1. StoredFor(c) /\ ~Unsaved(c)
    BY FreshHere DEF Forgotten, Unsaved
  <1>2. Stored'
    BY <1>1 DEF StoredFor, Stored, Forgotten
  <1>3. ASSUME NEW d \in Clients PROVE FreshFor(d)'
    <2>1. CASE d = c
      <3>1. sess'[d] = Nobody /\ call'[d] = None /\ bye'[d] = NoBye
        BY <2>1 DEF Forgotten, Base, TypeOK
      <3>2. FreshCall(d)' /\ FreshChar(d)' /\ FreshList(d)'
        BY <3>1 DEF FreshCall, FreshChar, FreshList, CallIs, Nobody, NoBye, NoList
      <3> QED
        BY <3>2 DEF FreshFor
    <2>2. CASE d # c
      <3>1. sess'[d] = sess[d] /\ call'[d] = call[d] /\ bye'[d] = bye[d] /\ where' = where
        BY <2>2 DEF Forgotten, Base, TypeOK
      <3>2. FreshCall(d)' /\ FreshChar(d)' /\ FreshList(d)'
        BY <3>1 DEF FreshInv, FreshFor, FreshCall, FreshChar, FreshList, CallIs, PosOK
      <3> QED
        BY <3>2 DEF FreshFor
    <2> QED
      BY <2>1, <2>2
  <1> QED
    BY <1>2, <1>3

\* Movement keeps it: the session is behind with its own character only.
LEMMA FreshWalk ==
  ASSUME Base, OneSession, FreshInv, Base', OneSession', NEW c \in Clients, NEW place \in Places,
         Walk(c, place)
  PROVE  FreshInv'
  <1>1. PICK x : x = sess[c].char
    OBVIOUS
  <1>2. /\ sess[c].conn = "open" /\ sess[c].at = "world" /\ call[c] = None
        /\ bye[c].st = "no" /\ x \in Character /\ x.slot \in Slots /\ place # None
    BY <1>1, Typed, NoneAssumption DEF Walk, Ready, Sound, Session, Bye, Character
  <1>3. /\ sess'[c].conn = "open" /\ sess'[c].at = "world"
        /\ sess'[c].char.slot = x.slot /\ sess'[c].char.pos = place
    BY <1>1, <1>2 DEF Walk, Base, TypeOK, Session, Character
  <1>4. /\ UNCHANGED <<call, bye, rows, fails>>
        /\ where' = IF where[x.slot] = None THEN where ELSE [where EXCEPT ![x.slot] = place]
    BY <1>1 DEF Walk
  <1>5. ASSUME fails = 0 PROVE StoredFor(c)' /\ FreshFor(c)'
    <2>1. StoredFor(c) /\ where \in [Slots -> Places \cup {None}]
      BY <1>2, <1>5, FreshHere DEF Base, TypeOK, RestOK, List
    <2>2. Unsaved(c)'
      BY <1>2, <1>3, <1>4 DEF Unsaved, CallIs
    <2>3. \A s \in Slots : where'[s] = IF s = x.slot /\ where[s] # None THEN place ELSE where[s]
      BY <1>2, <1>4, <2>1
    <2>4. StoredFor(c)'
      BY <1>1, <1>2, <1>3, <1>4, <2>1, <2>2, <2>3 DEF StoredFor
    <2>5. FreshCall(c)' /\ FreshChar(c)' /\ FreshList(c)'
      BY <1>2, <1>3, <1>4, <2>3 DEF FreshCall, FreshChar, FreshList, CallIs, PosOK
    <2> QED
      BY <2>4, <2>5 DEF FreshFor
  <1> QED
    BY <1>3, <1>4, <1>5, FreshAct

\* A request keeps it, when an entry takes its place from the list.
LEMMA FreshAsk ==
  ASSUME Base, OneSession, FreshInv, Base', OneSession', NEW c \in Clients, sess'[c].conn # "none",
         NEW op \in Ops, NEW slot \in Slots \cup {None}, NEW val \in Values,
         Ready(c), Ask(c, op, slot, val), UNCHANGED sess,
         op = "create" => slot \in Slots /\ sess[c].list[slot] = None,
         op = "enter" => /\ slot \in Slots /\ sess[c].at # "world"
                         /\ sess[c].list[slot] # None /\ val = sess[c].list[slot]
  PROVE  FreshInv'
  <1>1. /\ call'[c] # None /\ call'[c].op = op /\ call'[c].st = "asked" /\ call'[c].slot = slot
        /\ call'[c].val = val
        /\ UNCHANGED <<bye, rows, where, fails>> /\ call[c] = None
    BY AskEffect DEF Ready
  <1>2. sess[c].conn = "open" /\ bye[c].st = "no"
    BY Typed DEF Ready, Sound, Session, Bye
  <1>3. ASSUME fails = 0 PROVE StoredFor(c)' /\ FreshFor(c)'
    <2>1. StoredFor(c) /\ FreshFor(c)
      BY <1>2, <1>3, FreshHere
    <2>2. Unsaved(c) => Unsaved(c)'
      BY <1>1 DEF Unsaved, CallIs
    <2>3. StoredFor(c)'
      BY <1>1, <2>1, <2>2 DEF StoredFor
    <2>4. FreshCall(c)'
      BY <1>1, <2>1 DEF FreshFor, FreshCall, FreshList, CallIs
    <2>5. FreshChar(c)' /\ FreshList(c)'
      BY <1>1, <1>2, <2>1 DEF FreshFor, FreshChar, FreshList, CallIs, PosOK
    <2> QED
      BY <2>3, <2>4, <2>5 DEF FreshFor
  <1> QED
    BY <1>1, <1>3, FreshAct

\* The packets of the lobby keep it.
LEMMA FreshManage ==
  ASSUME Base, OneSession, FreshInv, Base', OneSession', NEW c \in Clients, Manage(c, Slots)
  PROVE  FreshInv'
  <1>1. sess'[c].conn # "none"
    BY Present
  <1>2. CASE GetMyChartr(c)
    BY <1>1, <1>2, CloseCalm, FreshCalm, FreshAsk DEF GetMyChartr, Ops, Values
  <1>3. CASE CheckUserPrivacyData(c)
    BY <1>1, <1>3, FreshAsk DEF CheckUserPrivacyData, InLobby, Ops, Values
  <1>4. ASSUME NEW slot \in Slots, NewMyChartr(c, slot) PROVE FreshInv'
    BY <1>1, <1>4, FreshAsk DEF NewMyChartr, InLobby, Ops, Values
  <1>5. ASSUME NEW slot \in Slots, DelMyChartr(c, slot) PROVE FreshInv'
    BY <1>1, <1>5, FreshAsk DEF DelMyChartr, InLobby, Ops, Values
  <1> QED
    BY <1>2, <1>3, <1>4, <1>5 DEF Manage

\* The packets of the world keep it.
LEMMA FreshRoam ==
  ASSUME Base, OneSession, FreshInv, Base', OneSession', NEW c \in Clients, Roam(c, Slots)
  PROVE  FreshInv'
  <1>1. sess'[c].conn # "none"
    BY Present
  <1>2. CASE Uninitialze(c)
    <2>1. PICK x : x = sess[c].char
      OBVIOUS
    <2>2. x \in Values
      BY <1>2, <2>1, Typed DEF Uninitialze, Session, Sound, Values
    <2> QED
      BY <1>1, <1>2, <2>1, <2>2, FreshAsk DEF Uninitialze, Ops
  <1>3. ASSUME NEW slot \in Slots, Initialized(c, slot) PROVE FreshInv'
    <2>1. PICK p : p = sess[c].list[slot]
      OBVIOUS
    <2>2. p \in Values
      BY <2>1, Typed DEF Session, List, Values
    <2>3. CASE Ask(c, "reload", slot, None)
      BY <1>1, <1>3, <2>3, FreshAsk DEF Initialized, Ops, Values
    <2>4. CASE sess[c].list[slot] # None /\ Ask(c, "enter", slot, p)
      BY <1>1, <1>3, <2>1, <2>2, <2>4, FreshAsk DEF Initialized, Ops
    <2> QED
      BY <1>3, <2>1, <2>3, <2>4 DEF Initialized
  <1> QED
    BY <1>2, <1>3, FreshWalk DEF Roam

\* The handlers of the password keep it.
LEMMA FreshSecure ==
  ASSUME Base, OneSession, FreshInv, Base', OneSession', NEW c \in Clients, Secure(c)
  PROVE  FreshInv'
  <1>1. /\ Ready(c) /\ sess[c].at = "lobby" /\ Kept(c)
        /\ UNCHANGED <<rows, where, fails, bye>>
        /\ \/ UNCHANGED call
           \/ /\ call'[c] # None /\ call'[c].op \in {"set", "check", "remove"}
              /\ call'[c].st = "asked"
    BY SecureEffect
  <1>2. ASSUME fails = 0 PROVE StoredFor(c)' /\ FreshFor(c)'
    <2>1. StoredFor(c) /\ FreshFor(c)
      BY <1>1, <1>2, FreshHere DEF Ready
    <2>2. StoredFor(c)'
      BY <1>1, <2>1 DEF StoredFor, Unsaved
    <2>3. FreshCall(c)' /\ FreshChar(c)' /\ FreshList(c)'
      BY <1>1, <2>1 DEF FreshFor, FreshCall, FreshChar, FreshList, CallIs, PosOK, Kept, Ready
    <2> QED
      BY <2>2, <2>3 DEF FreshFor
  <1> QED
    BY <1>1, <1>2, Present, FreshAct

\* Every row has the place of its character.
Clean == \A s \in Slots : rows[s] = where[s]

\* The calls of the master keep it: a list is loaded only after the save, and
\* a save brings its row up to date.
LEMMA FreshServe ==
  ASSUME Base, OneSession, NoneReplaced, FreshInv, Base', OneSession', NEW c \in Clients, Serve(c)
  PROVE  FreshInv'
  <1>1. ServeEffect(c) /\ UNCHANGED <<sess, bye, fails>> /\ sess[c].conn # "none"
    BY ServeIs, Present
  <1>2. ASSUME fails = 0 PROVE StoredFor(c)' /\ FreshFor(c)'
    <2>1. /\ StoredFor(c) /\ FreshCall(c) /\ FreshChar(c) /\ FreshList(c)
          /\ rows \in [Slots -> Places \cup {None}] /\ where \in [Slots -> Places \cup {None}]
      BY <1>1, <1>2, FreshHere DEF FreshFor, Base, TypeOK, RestOK, List
    <2>2. /\ call[c] # None => Fit(call[c], sess[c])
          /\ sess[c].at # "world" => Clean
      BY <2>1, Typed DEF Sound, StoredFor, Unsaved, Clean
    <2>3. CASE /\ UNCHANGED <<rows, where>>
               /\ \/ ServeStep(c, "fetch", subRow) \/ RefuseStep(c, "create")
                  \/ RefuseStep(c, "password") \/ ServeStep(c, "password", None)
                  \/ ServeStep(c, "enter", call[c].val)
                  \/ ServeStep(c, "set", None) \/ ServeStep(c, "check", None)
                  \/ ServeStep(c, "remove", None)
      <3>1. Clean /\ sess[c].at # "world" /\ ~CallIs(c, "delete", "ok")
        BY <2>2, <2>3 DEF ServeStep, RefuseStep, Fit, CallIs
      <3>2. StoredFor(c)'
        BY <2>1, <2>3, <3>1 DEF StoredFor, Clean
      <3>3. FreshCall(c)'
        BY <1>1, <2>1, <2>3 DEF FreshCall, CallIs, ServeStep, RefuseStep
      <3>4. FreshChar(c)'
        BY <1>1, <2>1, <2>3 DEF FreshChar, PosOK, ServeStep, RefuseStep
      <3>5. FreshList(c)'
        BY <1>1, <2>1, <2>3, <3>1 DEF FreshList
      <3> QED
        BY <3>2, <3>3, <3>4, <3>5 DEF FreshFor
    <2>4. CASE /\ UNCHANGED <<rows, where>>
               /\ ServeStep(c, "load", rows) \/ ServeStep(c, "reload", rows)
      <3>1. Clean /\ sess[c].at # "world" /\ ~CallIs(c, "delete", "ok")
        BY <2>2, <2>4 DEF ServeStep, Fit, CallIs
      <3>2. rows = where
        BY <2>1, <3>1 DEF Clean
      <3>3. StoredFor(c)'
        BY <2>1, <2>4, <3>1 DEF StoredFor, Clean
      <3>4. FreshCall(c)' /\ FreshChar(c)'
        BY <1>1, <2>1, <2>4, <3>2 DEF FreshCall, FreshChar, PosOK, CallIs, ServeStep
      <3>5. FreshList(c)'
        BY <1>1, <2>1, <2>4, <3>1 DEF FreshList
      <3> QED
        BY <3>3, <3>4, <3>5 DEF FreshFor
    <2>5. CASE /\ ServeStep(c, "create", Start)
               /\ rows[call[c].slot] = None
               /\ rows' = [rows EXCEPT ![call[c].slot] = Start]
               /\ where' = [where EXCEPT ![call[c].slot] = Start]
      <3>1. PICK x : x = call[c].slot
        OBVIOUS
      <3>2. Clean /\ sess[c].at # "world" /\ x \in Slots /\ Start # None
        BY <2>2, <2>5, <3>1, StartAssumption, NoneAssumption DEF ServeStep, Fit
      <3>3. \A s \in Slots : /\ where'[s] = IF s = x THEN Start ELSE where[s]
                             /\ rows'[s] = IF s = x THEN Start ELSE rows[s]
        BY <2>1, <2>5, <3>1, <3>2
      <3>4. StoredFor(c)'
        BY <3>2, <3>3 DEF StoredFor, Clean
      <3>5. FreshCall(c)'
        BY <2>5, <3>1, <3>2, <3>3 DEF FreshCall, CallIs, ServeStep
      <3>6. /\ sess[c].char # None => sess[c].char \in Character /\ sess[c].char.slot # x
            /\ bye[c].st = "save" => bye[c].char = sess[c].char /\ sess[c].char # None
        BY <2>1, <2>5, <3>1, Typed DEF NoneReplaced, Played, FreshChar, ServeStep, Sound, Session
      <3>7. FreshChar(c)'
        BY <1>1, <2>1, <3>3, <3>6 DEF FreshChar, PosOK, Character
      <3>8. sess[c].list[x] = None /\ ~CallIs(c, "delete", "ok")
        BY <2>1, <2>5, <3>1 DEF FreshCall, CallIs, ServeStep
      <3>9. FreshList(c)'
        BY <1>1, <2>1, <3>3, <3>8 DEF FreshList
      <3> QED
        BY <3>4, <3>5, <3>7, <3>9 DEF FreshFor
    <2>6. CASE UNCHANGED <<call, rows, where>>
      BY <1>1, <2>1, <2>6 DEF StoredFor, FreshFor, FreshCall, FreshChar, FreshList, Unsaved, PosOK, CallIs
    <2>7. CASE /\ ServeStep(c, "delete", None)
               /\ rows' = [rows EXCEPT ![call[c].slot] = None]
               /\ where' = [where EXCEPT ![call[c].slot] = None]
      <3>1. PICK x : x = call[c].slot
        OBVIOUS
      <3>2. Clean /\ sess[c].at # "world" /\ x \in Slots
        BY <2>2, <2>7, <3>1 DEF ServeStep, Fit
      <3>3. \A s \in Slots : /\ where'[s] = IF s = x THEN None ELSE where[s]
                             /\ rows'[s] = IF s = x THEN None ELSE rows[s]
        BY <2>1, <2>7, <3>1, <3>2
      <3>4. StoredFor(c)'
        BY <3>2, <3>3 DEF StoredFor, Clean
      <3>5. FreshCall(c)'
        BY <2>7 DEF FreshCall, CallIs, ServeStep
      <3>6. /\ sess[c].char # None => sess[c].char \in Character
            /\ bye[c].st = "save" => bye[c].char \in Character
        BY Typed DEF Sound, Session, Bye
      <3>7. FreshChar(c)'
        BY <1>1, <2>1, <2>7, <3>3, <3>6 DEF FreshChar, PosOK, Character, ServeStep
      <3>8. ~CallIs(c, "delete", "ok") /\ CallIs(c, "delete", "ok")' /\ call'[c].slot = x
        BY <2>7, <3>1 DEF CallIs, ServeStep
      <3>9. FreshList(c)'
        BY <1>1, <2>1, <3>3, <3>8 DEF FreshList
      <3> QED
        BY <3>4, <3>5, <3>7, <3>9 DEF FreshFor
    <2>8. CASE ServeStep(c, "save", None) /\ rows' = Positioned(call[c].val) /\ UNCHANGED where
      <3>1. PICK x : x = sess[c].char
        OBVIOUS
      <3>2. x \in Character /\ x.slot \in Slots /\ PosOK(x) /\ sess[c].at = "world" /\ call[c].val = x
        BY <2>1, <2>2, <2>8, <3>1, Typed DEF ServeStep, Fit, Sound, Session, Character, FreshChar
      <3>3. rows' = IF rows[x.slot] = None THEN rows ELSE [rows EXCEPT ![x.slot] = x.pos]
        BY <2>8, <3>2 DEF Positioned
      <3>4. \A s \in Slots \ {x.slot} : rows[s] = where[s]
        BY <2>1, <3>1 DEF StoredFor
      <3>5. where[x.slot] # None => x.pos = where[x.slot]
        BY <3>2 DEF PosOK
      <3>6. \A s \in Slots : rows'[s] = where[s]
        <4>1. CASE rows[x.slot] = None
          BY <2>1, <3>2, <3>3, <3>4, <4>1 DEF StoredFor
        <4>2. CASE rows[x.slot] # None
          BY <2>1, <3>2, <3>3, <3>4, <3>5, <4>2 DEF StoredFor
        <4> QED
          BY <4>1, <4>2
      <3>7. StoredFor(c)'
        BY <2>8, <3>6 DEF StoredFor
      <3>8. FreshCall(c)' /\ FreshChar(c)'
        BY <1>1, <2>1, <2>8 DEF FreshCall, FreshChar, PosOK, CallIs, ServeStep
      <3>9. FreshList(c)'
        BY <1>1, <3>2 DEF FreshList
      <3> QED
        BY <3>7, <3>8, <3>9 DEF FreshFor
    <2> QED
      BY <1>1, <2>3, <2>4, <2>5, <2>6, <2>7, <2>8 DEF ServeEffect
  <1> QED
    BY <1>1, <1>2, FreshAct

\* A handler that goes on keeps it.
LEMMA FreshReturn ==
  ASSUME Base, OneSession, FreshInv, Base', OneSession', NEW c \in Clients, Return(c)
  PROVE  FreshInv'
  <1>1. /\ ReturnEffect(c) /\ UNCHANGED <<bye, rows, fails, where>>
        /\ call[c] # None /\ call[c].st # "asked" /\ sess[c].conn # "none"
    BY ReturnIs, Waiting
  <1>2. ASSUME fails = 0 PROVE StoredFor(c)' /\ FreshFor(c)'
    <2>1. /\ StoredFor(c) /\ FreshCall(c) /\ FreshChar(c) /\ FreshList(c)
      BY <1>1, <1>2, FreshHere DEF FreshFor
    <2>2. /\ call[c] \in Call /\ Fit(call[c], sess[c]) /\ call[c].st \in {"ok", "failed"}
          /\ sess[c].list \in [Slots -> Places \cup {None}]
      BY <1>1, Typed DEF Sound, Call, Session, List
    <2>3. call[c].op \notin {"create", "password"} => Ok(c)
      BY <1>1, <2>1, <2>2 DEF FreshCall, Ok
    <2>4. Clean
      <3>1. ~Unsaved(c)
        BY <1>1, <2>2, <2>3 DEF Unsaved, CallIs, Fit, Ok
      <3> QED
        BY <2>1, <3>1 DEF StoredFor, Clean
    <2>5. StoredFor(c)'
      BY <1>1, <2>4 DEF StoredFor, Clean
    <2>6. CASE call[c].op \in {"fetch", "password", "set", "check", "remove"}
      <3>1. /\ Kept(c) /\ ~CallIs(c, "delete", "ok")
            /\ call'[c] = None \/ (call'[c] # None /\ call'[c].op = "load" /\ call'[c].st = "asked")
        BY <1>1, <2>6 DEF ReturnEffect, CallIs
      <3>2. FreshCall(c)' /\ FreshChar(c)'
        BY <1>1, <2>1, <3>1 DEF FreshCall, FreshChar, PosOK, CallIs, Kept
      <3>3. FreshList(c)'
        BY <1>1, <2>1, <3>1 DEF FreshList, Kept
      <3> QED
        BY <2>5, <3>2, <3>3 DEF FreshFor
    <2>7. CASE call[c].op \in {"load", "reload"}
      <3>1. Loaded(c) = where
        BY <1>1, <2>1, <2>3, <2>7 DEF Loaded, FreshCall, CallIs, Ok
      <3>2. /\ sess'[c].list = where /\ sess'[c].char = sess[c].char
            /\ \/ call'[c] = None
               \/ /\ call'[c] # None /\ call'[c].op = "enter" /\ call'[c].st = "asked"
                  /\ call'[c].val = where[call'[c].slot]
        BY <1>1, <2>7, <3>1 DEF ReturnEffect
      <3>3. FreshCall(c)' /\ FreshChar(c)' /\ FreshList(c)'
        BY <1>1, <2>1, <3>2 DEF FreshCall, FreshChar, FreshList, PosOK, CallIs
      <3> QED
        BY <2>5, <3>3 DEF FreshFor
    <2>8. CASE call[c].op = "create"
      <3>1. /\ sess'[c].list = IF Ok(c) THEN [sess[c].list EXCEPT ![call[c].slot] = call[c].val]
                               ELSE sess[c].list
            /\ sess'[c].at = sess[c].at /\ sess'[c].char = sess[c].char /\ call'[c] = None
        BY <1>1, <2>8 DEF ReturnEffect
      <3>2. /\ call[c].slot \in Slots /\ (Ok(c) => call[c].val = where[call[c].slot])
            /\ ~CallIs(c, "delete", "ok")
        BY <1>1, <2>1, <2>2, <2>8 DEF Fit, Ok, FreshCall, CallIs
      <3>3. FreshCall(c)' /\ FreshChar(c)'
        BY <1>1, <2>1, <3>1 DEF FreshCall, FreshChar, PosOK, CallIs
      <3>4. FreshList(c)'
        <4>1. CASE Ok(c)
          BY <1>1, <2>1, <2>2, <3>1, <3>2, <4>1 DEF FreshList
        <4>2. CASE ~Ok(c)
          BY <1>1, <2>1, <3>1, <3>2, <4>2 DEF FreshList
        <4> QED
          BY <4>1, <4>2
      <3> QED
        BY <2>5, <3>3, <3>4 DEF FreshFor
    <2>9. CASE call[c].op = "delete"
      <3>1. /\ sess'[c].list = [sess[c].list EXCEPT ![call[c].slot] = None]
            /\ sess'[c].at = sess[c].at /\ sess'[c].char = sess[c].char /\ call'[c] = None
        BY <1>1, <2>3, <2>9 DEF ReturnEffect
      <3>2. call[c].slot \in Slots
        BY <2>2, <2>9 DEF Fit
      <3>3. FreshCall(c)' /\ FreshChar(c)'
        BY <1>1, <2>1, <3>1 DEF FreshCall, FreshChar, PosOK, CallIs
      <3>4. FreshList(c)'
        BY <1>1, <2>1, <2>2, <3>1, <3>2 DEF FreshList, CallIs
      <3> QED
        BY <2>5, <3>3, <3>4 DEF FreshFor
    <2>10. CASE call[c].op = "enter"
      <3>1. PICK x, p : x = call[c].slot /\ p = call[c].val
        OBVIOUS
      <3>2. /\ sess'[c].char = [slot |-> x, pos |-> p] /\ sess'[c].at = "world" /\ call'[c] = None
            /\ p = where[x]
        BY <1>1, <2>1, <2>10, <3>1 DEF ReturnEffect, FreshCall
      <3>3. FreshCall(c)' /\ FreshChar(c)' /\ FreshList(c)'
        BY <1>1, <2>1, <3>2 DEF FreshCall, FreshChar, FreshList, PosOK, CallIs
      <3> QED
        BY <2>5, <3>3 DEF FreshFor
    <2>11. CASE call[c].op = "save"
      <3>1. sess'[c].list = NoList /\ sess'[c].char = sess[c].char /\ call'[c] = None
        BY <1>1, <2>11 DEF ReturnEffect
      <3>2. FreshCall(c)' /\ FreshChar(c)' /\ FreshList(c)'
        BY <1>1, <2>1, <3>1 DEF FreshCall, FreshChar, FreshList, PosOK, CallIs, NoList
      <3> QED
        BY <2>5, <3>2 DEF FreshFor
    <2> QED
      BY <2>2, <2>6, <2>7, <2>8, <2>9, <2>10, <2>11 DEF Call, Ops
  <1> QED
    BY <1>1, <1>2, Present, FreshAct

\* Every step keeps FreshInv.
LEMMA FreshStep ==
  ASSUME Base, OneSession, NoneReplaced, FreshInv, [Next]_vars, Base', OneSession'
  PROVE  FreshInv'
  <1>1. CASE UNCHANGED vars
    BY <1>1 DEF vars, FreshInv, Stored, FreshFor, FreshCall, FreshChar, FreshList, Unsaved, PosOK, CallIs
  <1>2. CASE Next
    <2>1. PICK c \in Clients :
            \/ Login(c) \/ AuthFails(c) \/ VerifyFails(c) \/ Connect(c) \/ Disconnect(c)
            \/ Leaving(c) \/ LastSaveFails(c)
            \/ Manage(c, Slots) \/ Roam(c, Slots) \/ Secure(c) \/ Serve(c) \/ CallFails(c) \/ Return(c)
      BY <1>2 DEF Next
    <2>2. CASE Login(c) \/ AuthFails(c) \/ VerifyFails(c) \/ Connect(c) \/ Disconnect(c) \/ NetworkRemoves(c)
      BY <2>2, NetworkCalm, FreshCalm
    <2>3. CASE CallFails(c) \/ LastSaveFails(c)
      BY <2>3, Typed DEF CallFails, LastSaveFails, FreshInv, RestOK
    <2> QED
      BY <2>1, <2>2, <2>3, FreshEnd, FreshForget, FreshManage, FreshRoam, FreshSecure, FreshServe,
         FreshReturn DEF Leaving
  <1> QED
    BY <1>1, <1>2

\* Only the answer of an entry puts a session into the world, at the place
\* the entry has.
LEMMA EnterStep ==
  ASSUME Base, FreshInv, [Next]_vars, Base', OneSession', fails = 0
  PROVE  EnteredWhereLeft
  <1> SUFFICES ASSUME NEW c \in Clients, sess[c].at # "world", sess'[c].at = "world"
               PROVE  sess'[c].char.pos = where[sess'[c].char.slot]
    BY DEF EnteredWhereLeft
  <1>1. Next
    BY DEF vars
  <1>2. PICK d \in Clients :
            \/ Login(d) \/ AuthFails(d) \/ VerifyFails(d) \/ Connect(d) \/ Disconnect(d)
            \/ Leaving(d) \/ LastSaveFails(d)
            \/ Manage(d, Slots) \/ Roam(d, Slots) \/ Secure(d) \/ Serve(d) \/ CallFails(d) \/ Return(d)
    BY <1>1 DEF Next
  <1>3. ~Calm
    BY DEF Calm, Kept
  <1>4. sess'[d].conn # "none" => d = c
    <2>1. sess'[c].conn # "none"
      BY DEF Base, Sound, Nobody
    <2> QED
      BY <2>1 DEF OneSession
  <1>5. ~UNCHANGED sess
    OBVIOUS
  <1>6. ~Forgotten(d)
    BY DEF Forgotten, Base, TypeOK, Nobody
  <1>7. ~Manage(d, Slots)
    BY <1>3, <1>5, CloseCalm DEF Manage, GetMyChartr, CheckUserPrivacyData, NewMyChartr, DelMyChartr
  <1>8. ~Roam(d, Slots)
    <2>1. ASSUME NEW place \in Places, Walk(d, place) PROVE FALSE
      BY <2>1 DEF Walk, Base, TypeOK, Session
    <2> QED
      BY <1>5, <2>1 DEF Roam, Uninitialze, Initialized
  <1>9. ~Secure(d)
    BY <1>4, Present, SecureEffect DEF Kept
  <1>10. ~Serve(d)
    BY <1>5, ServeIs
  <1>11. ~(Leaving(d) \/ LastSaveFails(d) \/ CallFails(d))
    BY <1>3, <1>5, <1>6, NetworkCalm DEF Leaving, OnClientDisconnect, LastSave, LastSaveFails, CallFails
  <1>12. Return(d)
    BY <1>2, <1>3, <1>7, <1>8, <1>9, <1>10, <1>11, NetworkCalm
  <1>13. /\ d = c /\ ReturnEffect(c) /\ call[c] # None /\ FreshCall(c)
    BY <1>4, <1>12, Present, ReturnIs DEF FreshInv, FreshFor
  <1>14. call[c].op = "enter"
    BY <1>13 DEF ReturnEffect, Kept
  <1>15. PICK x, p : x = call[c].slot /\ p = call[c].val
    OBVIOUS
  <1>16. sess'[c].char = [slot |-> x, pos |-> p] /\ p = where[x]
    BY <1>13, <1>14, <1>15 DEF ReturnEffect, FreshCall
  <1> QED
    BY <1>16

\* A character enters the world where it was left, as long as no call fails
\* and no character is created in the place of one the session has played
\* (Initialized, Uninitialze, SaveCharacterPosition).
THEOREM LobbyFreshEntry == Spec /\ []OneSession /\ []NoneReplaced => FreshEntry
  <1>1. Init => FreshInv
    BY DEF Init, FreshInv, Stored, FreshFor, FreshCall, FreshChar, FreshList, CallIs, Nobody, NoBye, NoList
  <1>2. Base /\ OneSession /\ NoneReplaced /\ FreshInv /\ [Next]_vars /\ Base' /\ OneSession' => FreshInv'
    BY FreshStep
  <1>3. Base /\ FreshInv /\ [Next]_vars /\ Base' /\ OneSession' => [fails = 0 => EnteredWhereLeft]_vars
    BY EnterStep
  <1> QED
    BY <1>1, <1>2, <1>3, InitBase, NextBase, PTL DEF Spec, FreshEntry

----------------------------------------------------------------------------
(* The job list.                                                           *)

\* The job list, with its variables apart from those of the lobby.
J == INSTANCE SessionJobs

\* A task that waits has been called for every tick so far.
Waits == \A t \in Tasks : task[t] = "select" => owed[t] <= 0

\* The inductive invariant.  A listed job stays running because only the
\* holder of jobMutex stops it and deletes it in the same step; a created task
\* stays unlisted until its creator adds it.
JInv == J!TypeOK /\ Waits /\ J!ListedRun /\ J!LockedListed /\ J!PendingRun

\* The empty list satisfies the invariant.
LEMMA InitJInv == J!Init => JInv
  BY SessionAssumption
     DEF J!Init, J!JobsInit, J!Free, JInv, J!TypeOK, J!JobsTypeOK, Waits, J!ListedRun, J!LockedListed, J!PendingRun

\* A step of a task keeps it running and leaves the list alone.
LEMMA TaskStepJInv ==
  ASSUME JInv, NEW t \in Tasks, J!TaskStep(t)
  PROVE  JInv'
  <1>1. /\ UNCHANGED <<jobs, lock, closing, proc>>
        /\ J!Running(t)
        /\ \E s \in {"top", "select", "tick"} : task' = [task EXCEPT ![t] = s]
    BY DEF J!TaskStep, J!CallAtTop, J!CallOnTick, J!Tick, J!Running
  <1>2. \A u \in Tasks : J!Running(u) => J!Running(u)'
    BY <1>1 DEF JInv, J!TypeOK, J!JobsTypeOK, J!Running
  <1>3. owed' \in [Tasks -> -1..1] /\ Waits'
    <2>1. owed \in [Tasks -> -1..1] /\ task \in [Tasks -> {"new", "top", "select", "tick", "done"}]
      BY DEF JInv, J!TypeOK, J!JobsTypeOK
    <2>2. CASE J!CallAtTop(t) /\ J!Called(t)
      BY <2>1, <2>2 DEF J!CallAtTop, J!Called, JInv, Waits
    <2>3. CASE J!CallOnTick(t) /\ J!Called(t)
      BY <2>1, <2>3 DEF J!CallOnTick, J!Called, JInv, Waits
    <2>4. CASE J!Tick(t) /\ owed' = [owed EXCEPT ![t] = @ + 1]
      BY <2>1, <2>4 DEF J!Tick, JInv, Waits
    <2> QED
      BY <2>2, <2>3, <2>4 DEF J!TaskStep
  <1>4. J!TypeOK'
    BY <1>1, <1>3 DEF JInv, J!TypeOK, J!JobsTypeOK
  <1>5. J!ListedRun'
    BY <1>1, <1>2 DEF JInv, J!TypeOK, J!JobsTypeOK, J!ListedRun
  <1>6. J!PendingRun'
    BY <1>1, <1>2 DEF JInv, J!TypeOK, J!JobsTypeOK, J!PendingRun
  <1> QED
    BY <1>1, <1>3, <1>4, <1>5, <1>6 DEF JInv, J!LockedListed

\* Stopping a job takes it off the list; other jobs and pending tasks are
\* different tasks and keep running.
LEMMA StopStepJInv ==
  ASSUME JInv, NEW n \in Names, J!StopStep(n)
  PROVE  JInv'
  <1>1. jobs[n] \in Tasks /\ lock.by # NoProc
    BY DEF J!StopStep, J!Stop, JInv, J!TypeOK, J!JobsTypeOK, J!LockedListed
  <1>2. /\ task' = [task EXCEPT ![jobs[n]] = "done"]
        /\ jobs' = [jobs EXCEPT ![n] = NoTask]
        /\ UNCHANGED <<closing, proc, owed>>
        /\ n \in lock.todo
        /\ lock' = IF lock.todo = {n} THEN J!Free ELSE [lock EXCEPT !.todo = @ \ {n}]
    BY DEF J!StopStep, J!Stop
  <1>3. J!TypeOK'
    BY <1>1, <1>2 DEF JInv, J!TypeOK, J!JobsTypeOK, J!Free
  <1>4. Waits'
    BY <1>1, <1>2 DEF JInv, J!TypeOK, J!JobsTypeOK, Waits
  <1>5. J!ListedRun'
    BY <1>1, <1>2, SessionAssumption DEF JInv, J!TypeOK, J!JobsTypeOK, J!ListedRun, J!Running
  <1>6. J!LockedListed'
    BY <1>1, <1>2, SessionAssumption DEF JInv, J!TypeOK, J!JobsTypeOK, J!LockedListed, J!Free
  <1>7. J!PendingRun'
    BY <1>1, <1>2, SessionAssumption DEF JInv, J!TypeOK, J!JobsTypeOK, J!PendingRun, J!Running
  <1> QED
    BY <1>3, <1>4, <1>5, <1>6, <1>7 DEF JInv

\* Taking jobMutex to stop jobs changes nothing else.
LEMMA RemoveJobsJInv ==
  ASSUME JInv, NEW p \in Procs, NEW names \in SUBSET Names, J!RemoveJobs(p, names),
         UNCHANGED <<jobs, task, proc, owed>>,
         closing' \in {"open", "closing", "closed"}
  PROVE  JInv'
  <1>1. lock' \in [by : Procs \cup {NoProc}, todo : SUBSET Names]
    BY DEF J!RemoveJobs, J!Free
  <1>2. J!LockedListed'
    BY SessionAssumption DEF J!RemoveJobs, J!Free, JInv, J!TypeOK, J!JobsTypeOK, J!LockedListed
  <1> QED
    BY <1>1, <1>2 DEF JInv, J!TypeOK, J!JobsTypeOK, Waits, J!ListedRun, J!PendingRun, J!Running

\* Every step keeps the invariant.
LEMMA NextJInv == JInv /\ [J!Next]_J!vars => JInv'
  <1> SUFFICES ASSUME JInv, [J!Next]_J!vars PROVE JInv'
    OBVIOUS
  <1>1. ASSUME NEW p \in Procs, NEW t \in Tasks, J!StartTask(p, t) PROVE JInv'
    <2>1. /\ task[t] = "new" /\ task' = [task EXCEPT ![t] = "top"]
          /\ proc[p] = NoTask /\ proc' = [proc EXCEPT ![p] = t]
          /\ UNCHANGED <<jobs, lock, closing, owed>>
      BY <1>1 DEF J!StartTask, J!NewPeriodicTask
    <2>2. \A n \in Names : jobs[n] # t
      BY <2>1, SessionAssumption DEF JInv, J!ListedRun, J!Running
    <2>3. \A q \in Procs : proc[q] # t
      BY <2>1, SessionAssumption DEF JInv, J!PendingRun, J!Running
    <2>4. J!TypeOK' /\ Waits' /\ J!LockedListed'
      BY <2>1 DEF JInv, J!TypeOK, J!JobsTypeOK, Waits, J!LockedListed
    <2>5. J!ListedRun'
      BY <2>1, <2>2 DEF JInv, J!TypeOK, J!JobsTypeOK, J!ListedRun, J!Running
    <2>6. J!PendingRun'
      BY <2>1, <2>2, <2>3 DEF JInv, J!TypeOK, J!JobsTypeOK, J!PendingRun, J!Running
    <2> QED
      BY <2>4, <2>5, <2>6 DEF JInv
  <1>2. ASSUME NEW p \in Procs, NEW n \in Names, J!AddTask(p, n) PROVE JInv'
    <2>1. /\ proc[p] \in Tasks /\ lock = J!Free
          /\ jobs' = [jobs EXCEPT ![n] = proc[p]]
          /\ proc' = [proc EXCEPT ![p] = NoTask]
          /\ UNCHANGED <<task, lock, closing, owed>>
      BY <1>2 DEF J!AddTask, J!AddJob, JInv, J!TypeOK, J!JobsTypeOK
    <2>2. J!TypeOK' /\ Waits' /\ J!LockedListed'
      BY <2>1 DEF JInv, J!TypeOK, J!JobsTypeOK, Waits, J!LockedListed, J!Free
    <2>3. J!ListedRun'
      BY <2>1, SessionAssumption DEF JInv, J!TypeOK, J!JobsTypeOK, J!ListedRun, J!PendingRun, J!Running
    <2>4. J!PendingRun'
      BY <2>1, SessionAssumption DEF JInv, J!TypeOK, J!JobsTypeOK, J!PendingRun, J!Running
    <2> QED
      BY <2>2, <2>3, <2>4 DEF JInv
  <1>3. ASSUME NEW p \in Procs, NEW n \in Names, J!RemoveTask(p, n) PROVE JInv'
    BY <1>3, RemoveJobsJInv DEF J!RemoveTask, J!RemoveJob, JInv, J!TypeOK, J!JobsTypeOK
  <1>4. ASSUME NEW p \in Procs, J!Close(p) PROVE JInv'
    BY <1>4 DEF J!Close, JInv, J!TypeOK, J!JobsTypeOK, Waits, J!ListedRun, J!LockedListed, J!PendingRun, J!Running
  <1>5. ASSUME NEW p \in Procs, J!CloseJobs(p) PROVE JInv'
    BY <1>5, RemoveJobsJInv DEF J!CloseJobs, J!RemoveAllJobs
  <1>6. CASE UNCHANGED J!vars
    BY <1>6 DEF J!vars, JInv, J!TypeOK, J!JobsTypeOK, Waits, J!ListedRun, J!LockedListed, J!PendingRun, J!Running
  <1> QED
    BY <1>1, <1>2, <1>3, <1>4, <1>5, <1>6, TaskStepJInv, StopStepJInv DEF J!Next

\* The invariant holds in every reachable state, whoever uses the job list.
THEOREM JobInvariant == J!Spec => []JInv
  BY InitJInv, NextJInv, PTL DEF J!Spec

\* Stop is only ever sent to a goroutine that is still there to receive it
\* (RemoveJob, RemoveAllJobs, AddJob).
THEOREM JobsListedRun == J!Spec => []ListedRun
  <1>1. JInv => ListedRun
    BY DEF JInv, ListedRun, J!ListedRun, Running, J!Running
  <1> QED
    BY <1>1, JobInvariant, PTL

\* The list does not change under the holder of jobMutex (RemoveJobs, Stop).
THEOREM JobsLockedListed == J!Spec => []LockedListed
  <1>1. JInv => LockedListed
    BY DEF JInv, LockedListed, J!LockedListed
  <1> QED
    BY <1>1, JobInvariant, PTL
=============================================================================

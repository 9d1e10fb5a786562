------------------------------ MODULE MCLobby -------------------------------
(***************************************************************************)
(* Modes: login (two clients, their logins, verifications, channel changes *)
(* and disconnects, with OneLogin, Obeys and no check that fails; a        *)
(* verification may be lost), lobby (one client: characters), secret (one  *)
(* client: the secondary password and the deletions it guards), faults     *)
(* (as secret, with calls that fail other than the fetch of the password)  *)
(* and recreate (as lobby, and a character may be created in the slot of   *)
(* the one the session has played).                                        *)
(***************************************************************************)
EXTENDS Lobby, TLC

CONSTANT Modes

VARIABLE mode

mcvars == <<vars, mode>>

One == CHOOSE c \in Clients : TRUE
OneSlot == CHOOSE s \in Slots : TRUE

MCInit == Init /\ mode \in Modes

\* A client that obeys and plays one session.
Enter(c) ==
    \/ AuthAccount(c) \/ AuthCheck(c) \/ LeaveLogin(c) \/ VerifyUser(c)
    \/ login[c].st = "in" /\ sess[c].from = None /\ sess[c].listed /\ VerifyLinks(c, c) /\ UNCHANGED login

Onward(c) == Connect(c) \/ Disconnect(c) \/ Leaving(c) \/ Serve(c) \/ Return(c)

\* Logins do not overlap, and nobody who is told Online asks for more.
LoginNext ==
    /\ \E c \in Clients :
         \/ Login(c) \/ VerifyFails(c) \/ Connect(c) \/ Disconnect(c) \/ Leaving(c)
         \/ GetMyChartr(c) /\ sess[c].from = None
    /\ \A c \in Clients : Obeys(c)
    /\ OneLogin'

RecreateNext(c) == Enter(c) \/ Onward(c) \/ Manage(c, Slots) \/ Roam(c, Slots)

\* Creates no character in the place of one it has played.
Keep(c, slots) ==
    \/ Manage(c, {slot \in slots : ~Played(c, slot)})
    \/ \E slot \in slots : DelMyChartr(c, slot)

LobbyNext(c) == Enter(c) \/ Onward(c) \/ Keep(c, Slots) \/ Roam(c, Slots)
SecretNext(c) == Enter(c) \/ Onward(c) \/ Keep(c, {OneSlot}) \/ Secure(c)
FaultsNext(c) ==
    \/ SecretNext(c) \/ Roam(c, {OneSlot}) \/ AuthFails(c) \/ LastSaveFails(c)
    \/ call[c] # None /\ call[c].op # "fetch" /\ CallFails(c)

MCNext ==
    /\ UNCHANGED mode
    /\ \/ mode = "login" /\ LoginNext
       \/ mode = "lobby" /\ LobbyNext(One)
       \/ mode = "secret" /\ SecretNext(One)
       \/ mode = "faults" /\ FaultsNext(One)
       \/ mode = "recreate" /\ RecreateNext(One)

MCSpec == MCInit /\ [][MCNext]_mcvars
=============================================================================

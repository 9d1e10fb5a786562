------------------------------- MODULE MCChat -------------------------------
(***************************************************************************)
(* Two characters.  In the modes buddies and views the first may be        *)
(* connected twice, as during a reconnect: the client waits for the logout *)
(* of its older session.  One event is handled at a time and the master    *)
(* answers: what the lists say is only a promise then.  In the third mode  *)
(* the handlers of the buddy packets of two sessions that are logged in    *)
(* overlap and calls fail.                                                 *)
(***************************************************************************)
EXTENDS Chat, TLC

CONSTANTS a, b, a1, a2, b1

VARIABLE mode

MCOwner == (a1 :> a) @@ (a2 :> a) @@ (b1 :> b)

mcvars == <<chatVars, mode>>

LoggedIn == {a1, b1}

MCInit ==
    \/ mode \in {"buddies", "views"} /\ ChatInit
    \/ /\ mode = "overlap"
       /\ sess = [s \in Sessions |->
                    IF s \in LoggedIn
                    THEN [open |-> "open", char |-> Owner[s], login |-> TRUE, status |-> "online"]
                    ELSE [open |-> "new", char |-> Nil, login |-> FALSE, status |-> "offline"]]
       /\ invites = [c \in Chars |-> Nil]
       /\ views = {} /\ buddies = {} /\ memo = {}
       /\ told = [s \in Sessions |-> NoList]
       /\ call = [h \in Handlers |-> Idle]

Free == \A h \in Handlers : call[h].at = "idle"

\* The other session of the character is logged out.
Alone(s) == \A t \in Sessions \ {s} : Owner[t] = Owner[s] => ~sess[t].login

SoloNext ==
    \/ Free /\ Connection
    \/ \E h \in Handlers :
         \/ Step(h)
         \/ /\ Free
            /\ \E s \in Sessions :
                 /\ sess[s].open = "open" /\ Alone(s)
                 /\ \/ PresencePacket(h, s)
                    \/ mode = "buddies" /\ BuddyPacket(h, s)
                    \/ mode = "views" /\ ViewPacket(h, s)

OverlapNext ==
    \E h \in Handlers : Step(h) \/ CallFails(h) \/ \E s \in LoggedIn : BuddyPacket(h, s) \/ MemoPacket(h, s)

MCNext == UNCHANGED mode /\ IF mode = "overlap" THEN OverlapNext ELSE SoloNext

MCSpec == MCInit /\ [][MCNext]_mcvars

Symmetry == Permutations(Handlers)

SoloSettles == mode # "overlap" => PresenceSettles
SoloViews == mode # "overlap" => ViewsLive
=============================================================================

------------------------------ MODULE MCParty ------------------------------
(***************************************************************************)
(* Instances of Party for TLC.  In the mode single one handler runs at a   *)
(* time and nobody leaves; in the mode overlap two handlers of the users   *)
(* other than the watchers overlap, over the first party, of two members   *)
(* and with its first settings, and the leavers disconnect at any point;   *)
(* in the mode kick nobody leaves and the party may be full.               *)
(***************************************************************************)
EXTENDS Party, TLC

CONSTANT Kinds

VARIABLE kind

mcvars == <<vars, kind>>

MCInit == Init /\ kind \in Kinds

Goes == \E h \in Handlers : Continue(h)
Asks(users) == \E h \in Handlers, u \in users : Request(h, u)
Watches == \E u \in Watchers, n \in 0..(MaxMembers + 1) : PartySearchRegist(u, n)
Leaves ==
    \E u \in Leavers :
        Close(u) \/ onClientDisconnect(u) \/ \E h \in Handlers : OnClientDisconnect(h, u)

\* What two overlapping handlers of the users other than the watchers may do.
Involved(h) == {call[h].me, call[h].peer}
Small(members) ==
    /\ seq' <= 1
    /\ \A h \in Handlers : Involved(h)' \cap Watchers = {}
    /\ \A h \in Handlers : ~call'[h].next.auth /\ Len(call'[h].next.members) <= members
    /\ \A h \in Handlers : Idle(h) /\ call'[h].pc = "inviting"
         => Len(party[call'[h].me].members) < members

SingleNext == Goes \/ Watches \/ ((\A h \in Handlers : Idle(h)) /\ Asks(Users))
OverlapNext == (Goes \/ Asks(Users \ Watchers) \/ Leaves) /\ Small(2)
KickNext == (Goes \/ Asks(Users \ Watchers)) /\ Small(3)

MCNext ==
    /\ UNCHANGED kind
    /\ \/ kind = "single" /\ SingleNext
       \/ kind = "overlap" /\ OverlapNext
       \/ kind = "kick" /\ KickNext

MCSpec == MCInit /\ [][MCNext]_mcvars

\* Agreement, which is claimed for handlers that do not overlap (party.go:
\* applyPartyState writes one member after the other).
SingleAgreement == kind = "single" => Agreement

\* Users who may leave or advertise are told apart from the others.
PartySymmetry ==
    Permutations(Users \ (Leavers \cup Watchers)) \cup Permutations(Handlers)
=============================================================================

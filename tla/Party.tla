------------------------------- MODULE Party -------------------------------
(***************************************************************************)
(* Parties of one game server (cmd/gameserver/packet/party.go): invitation *)
(* states reserved on two contexts, and a party state that every member    *)
(* keeps a copy of.                                                        *)
(*                                                                         *)
(* A handler copies its own party state, computes the new one, and writes  *)
(* it to one member after the other, each under that member's own lock;    *)
(* handlers run in goroutines of their own, so the writes of two handlers  *)
(* interleave.  The checks PartyInvite makes before locking are repeated   *)
(* under the locks, so the model keeps only the session it looks up.       *)
(***************************************************************************)
EXTENDS Naturals, Sequences, SequencesExt

CONSTANTS
    Users,       \* sessions (Session.UserIdx) of characters in the world
    NoUser,      \* the leader of the zero PartyState
    Handlers,    \* bound on the goroutines that run at the same time
    MaxMembers,  \* PartyMaxMembers
    MaxParties,  \* bound on the parties created (partySequence)
    LootTypes,   \* number of looting settings; 1 is free looting, dice
    Auths,       \* the settings of the invite authority that are requested
    Leavers,     \* users who may disconnect
    Watchers     \* users of sufficient level who may advertise in party search

ASSUME PartyAssumption ==
    /\ NoUser \notin Users
    /\ MaxMembers \in Nat /\ MaxMembers >= 2
    /\ MaxParties \in Nat
    /\ LootTypes \in Nat \ {0}
    /\ Auths \subseteq BOOLEAN
    /\ Leavers \subseteq Users
    /\ Watchers \subseteq Users

VARIABLES
    clients,  \* Network.clients
    closed,   \* sessions whose Close has run
    left,     \* closed sessions whose OnClientDisconnect has started
    party,    \* Context.Party of every user
    invite,   \* Context.PartyInvite of every user
    search,   \* Context.PartySearch: the advertised size, 0 when not registered
    seq,      \* partySequence, counted from its initial value
    call      \* the running handlers

vars == <<clients, closed, left, party, invite, search, seq, call>>
netVars == <<clients, closed, left>>

-----------------------------------------------------------------------------
BoundedMembers == {s \in Seq(Users) : Len(s) <= MaxMembers}

PartyState ==
    [id : Nat, leader : Users \cup {NoUser}, auth : BOOLEAN,
     loot : 0..LootTypes, members : BoundedMembers]

NoParty ==
    [id |-> 0, leader |-> NoUser, auth |-> FALSE, loot |-> 0, members |-> <<>>]

InviteState ==
    [status : {"none", "outgoing", "incoming"}, opp : Users \cup {NoUser}]

NoInvite == [status |-> "none", opp |-> NoUser]

\* A goroutine.  In pc "writing" it clears the party of the users in `clear'
\* and then writes `next' to the users in `apply', one context per step.
Call ==
    [pc : {"idle", "inviting", "answering", "cancelling", "forgetting", "leaving",
           "writing"},
     op : {"none", "accept", "leave", "kick", "change"},
     me : Users \cup {NoUser}, peer : Users \cup {NoUser},
     next : PartyState, clear : Seq(Users), apply : Seq(Users)]

IdleCall ==
    [pc |-> "idle", op |-> "none", me |-> NoUser, peer |-> NoUser,
     next |-> NoParty, clear |-> <<>>, apply |-> <<>>]

Idle(h) == call[h].pc = "idle"
Begin(h, pc, u, p, state) ==
    call' = [call EXCEPT ![h] = [IdleCall EXCEPT !.pc = pc, !.me = u, !.peer = p,
                                                 !.next = state]]
Return(h) == call' = [call EXCEPT ![h] = IdleCall]
Write(h, op, u, clear, state) ==
    call' = [call EXCEPT ![h] = [IdleCall EXCEPT !.pc = "writing", !.op = op, !.me = u,
                                    !.next = state, !.clear = clear,
                                    !.apply = state.members]]

Init ==
    /\ clients = Users
    /\ closed = {}
    /\ left = {}
    /\ party = [u \in Users |-> NoParty]
    /\ invite = [u \in Users |-> NoInvite]
    /\ search = [u \in Users |-> 0]
    /\ seq = 0
    /\ call = [h \in Handlers |-> IdleCall]

-----------------------------------------------------------------------------
\* Invitations.

PartyInvite(h, u, t) ==
    /\ Idle(h)
    /\ t \in clients \ {u}
    /\ Begin(h, "inviting", u, t, NoParty)
    /\ UNCHANGED <<netVars, party, invite, search, seq>>

HasRoom(u) == party[u].id # 0 => Len(party[u].members) < MaxMembers

\* The section under both locks: both sides are reserved or neither.
PartyInviteLocked(h) ==
    LET u == call[h].me
        t == call[h].peer
        free == /\ invite[u].status = "none"
                /\ invite[t].status = "none"
                /\ party[u].id = 0 \/ party[t].id = 0
                /\ HasRoom(u) /\ HasRoom(t)
    IN /\ call[h].pc = "inviting"
       /\ invite' = IF free
                      THEN [invite EXCEPT ![u] = [status |-> "outgoing", opp |-> t],
                                          ![t] = [status |-> "incoming", opp |-> u]]
                      ELSE invite
       /\ Return(h)
       /\ UNCHANGED <<netVars, party, search, seq>>

\* PartyInviteResult: an inviter who is gone ends it without an effect.
PartyInviteResult(h, u) ==
    /\ Idle(h)
    /\ invite[u].status = "incoming"
    /\ invite[u].opp \in clients
    /\ Begin(h, "answering", u, invite[u].opp, NoParty)
    /\ UNCHANGED <<netVars, party, invite, search, seq>>

\* The reservation still stands, on both sides.
Reserved(u, p) ==
    /\ invite[p].status = "outgoing" /\ invite[p].opp = u
    /\ invite[u].status = "incoming" /\ invite[u].opp = p

partyHasMember(state, u) == \E k \in DOMAIN state.members : state.members[k] = u

AddMember(state, u) ==
    IF partyHasMember(state, u) THEN state ELSE [state EXCEPT !.members = Append(@, u)]

\* The inviter's party, else the target's, else a new one led by the inviter.
BaseParty(inviter, target) ==
    IF party[inviter].id # 0 THEN party[inviter]
    ELSE IF party[target].id # 0 THEN party[target]
    ELSE [id |-> seq + 1, leader |-> inviter, auth |-> FALSE, loot |-> 1,
          members |-> <<>>]

\* The zero state stands for a result other than partyInviteOK.
makePartyState(inviter, target) ==
    LET base == BaseParty(inviter, target)
        withInviter == AddMember(base, inviter)
        fails == \/ party[inviter].id # 0 /\ party[target].id # 0
                 \/ Len(base.members) >= MaxMembers
                 \/ /\ ~partyHasMember(withInviter, target)
                    /\ Len(withInviter.members) >= MaxMembers
    IN IF fails THEN NoParty ELSE AddMember(withInviter, target)

PartyInviteResultLocked(h, accepted) ==
    LET u == call[h].me
        p == call[h].peer
        state == makePartyState(p, u)
    IN /\ call[h].pc = "answering"
       /\ accepted => state.id <= MaxParties
       /\ IF Reserved(u, p)
            THEN /\ invite' = [invite EXCEPT ![u] = NoInvite, ![p] = NoInvite]
                 /\ IF accepted /\ state.id # 0
                      THEN /\ seq' = IF state.id > seq THEN state.id ELSE seq
                           /\ Write(h, "accept", u, <<>>, state)
                      ELSE UNCHANGED seq /\ Return(h)
            ELSE UNCHANGED <<invite, seq>> /\ Return(h)
       /\ UNCHANGED <<netVars, party, search>>

\* PartyInviteCancel: a target who is gone is not looked at.
PartyInviteCancel(h, u) ==
    /\ Idle(h)
    /\ invite[u].status = "outgoing"
    /\ Begin(h, IF invite[u].opp \in clients THEN "cancelling" ELSE "forgetting",
             u, invite[u].opp, NoParty)
    /\ UNCHANGED <<netVars, party, invite, search, seq>>

PartyInviteCancelLocked(h) ==
    LET u == call[h].me
        p == call[h].peer
        valid == /\ invite[u].status = "outgoing"
                 /\ invite[p].status = "incoming" /\ invite[p].opp = u
    IN /\ call[h].pc = "cancelling"
       /\ invite' = IF valid THEN [invite EXCEPT ![u] = NoInvite, ![p] = NoInvite]
                    ELSE invite
       /\ Return(h)
       /\ UNCHANGED <<netVars, party, search, seq>>

\* The target was gone: the own side is reset, whatever it has become.
PartyInviteCancelOwn(h) ==
    /\ call[h].pc = "forgetting"
    /\ invite' = [invite EXCEPT ![call[h].me] = NoInvite]
    /\ Return(h)
    /\ UNCHANGED <<netVars, party, search, seq>>

-----------------------------------------------------------------------------
\* Changing the party: each handler copies its own view first.

\* The members of a party are distinct (WellFormed), so the loop that keeps
\* every member but u drops at most one.
Without(state, u) ==
    IF partyHasMember(state, u)
      THEN [state EXCEPT !.members =
                RemoveAt(@, CHOOSE k \in DOMAIN state.members : state.members[k] = u)]
      ELSE state

LeaveParty(h, u) ==
    /\ Idle(h)
    /\ IF party[u].id = 0 THEN UNCHANGED call
       ELSE Begin(h, "leaving", u, u, party[u])

PartyLeave(h, u) ==
    /\ party[u].id # 0
    /\ LeaveParty(h, u)
    /\ UNCHANGED <<netVars, party, invite, search, seq>>

\* The remaining party; the first remaining member replaces a leader who left.
AfterLeaving(state, u) ==
    LET rest == Without(state, u)
    IN IF state.leader = u /\ rest.members # <<>>
         THEN [rest EXCEPT !.leader = rest.members[1]] ELSE rest

\* Mutated form: the last remaining member is not told.
ShrinkForgetsLast(h, op, u, out, state) ==
    IF Len(state.members) <= 1 THEN Write(h, op, u, out, NoParty)
    ELSE Write(h, op, u, out, state)

\* Mutated form: a party of one goes on.
ShrinkToOne(h, op, u, out, state) == Write(h, op, u, out, state)

\* What follows a removal: one remaining member is cleared, more get `state'.
Shrink(h, op, u, out, state) ==
    IF Len(state.members) >= 2 THEN Write(h, op, u, out, state)
    ELSE Write(h, op, u, out \o state.members, NoParty)

\* The second part of LeaveParty: the leaver's own context is reset.
LeavePartyOwn(h) ==
    LET u == call[h].me
    IN /\ call[h].pc = "leaving"
       /\ party' = [party EXCEPT ![u] = NoParty]
       /\ invite' = [invite EXCEPT ![u] = NoInvite]
       /\ Shrink(h, "leave", u, <<>>, AfterLeaving(call[h].next, u))
       /\ UNCHANGED <<netVars, search, seq>>

Leads(u) == party[u].id # 0 /\ party[u].leader = u

PartyKickout(h, u, k) ==
    /\ Idle(h)
    /\ Leads(u)
    /\ k # u
    /\ partyHasMember(party[u], k)
    /\ Shrink(h, "kick", u, <<k>>, Without(party[u], k))
    /\ UNCHANGED <<netVars, party, invite, search, seq>>

PartyLeaderChange(h, u, k) ==
    /\ Idle(h)
    /\ Leads(u)
    /\ k # u
    /\ partyHasMember(party[u], k)
    /\ Write(h, "change", u, <<>>, [party[u] EXCEPT !.leader = k])
    /\ UNCHANGED <<netVars, party, invite, search, seq>>

PartyAuthChange(h, u, leaderOnly) ==
    /\ Idle(h)
    /\ Leads(u)
    /\ Write(h, "change", u, <<>>, [party[u] EXCEPT !.auth = leaderOnly])
    /\ UNCHANGED <<netVars, party, invite, search, seq>>

PartyLootingType(h, u, loot) ==
    /\ Idle(h)
    /\ Leads(u)
    /\ Write(h, "change", u, <<>>, [party[u] EXCEPT !.loot = loot])
    /\ UNCHANGED <<netVars, party, invite, search, seq>>

\* clearPartyState: one context, if its session is still there.
clearPartyState(h) ==
    LET v == Head(call[h].clear)
    IN /\ call[h].pc = "writing"
       /\ call[h].clear # <<>>
       /\ party' = IF v \in clients THEN [party EXCEPT ![v] = NoParty] ELSE party
       /\ invite' = IF v \in clients THEN [invite EXCEPT ![v] = NoInvite] ELSE invite
       /\ call' = [call EXCEPT ![h].clear = Tail(@)]
       /\ UNCHANGED <<netVars, search, seq>>

\* applyPartyState: one iteration of its loop.
applyPartyState(h) ==
    LET v == Head(call[h].apply)
    IN /\ call[h].pc = "writing"
       /\ call[h].clear = <<>>
       /\ call[h].apply # <<>>
       /\ party' = IF v \in clients THEN [party EXCEPT ![v] = call[h].next] ELSE party
       /\ invite' = IF v \in clients THEN [invite EXCEPT ![v] = NoInvite] ELSE invite
       /\ call' = [call EXCEPT ![h].apply = Tail(@)]
       /\ UNCHANGED <<netVars, search, seq>>

Written(h) ==
    /\ call[h].pc = "writing"
    /\ call[h].clear = <<>>
    /\ call[h].apply = <<>>
    /\ Return(h)
    /\ UNCHANGED <<netVars, party, invite, search, seq>>

\* Mutated form: the advertised size has no upper limit.
PartySearchRegistAnySize(u, max) ==
    /\ search[u] = 0
    /\ party[u].id = 0 \/ party[u].leader = u
    /\ max >= Len(party[u].members)
    /\ search' = [search EXCEPT ![u] = max]
    /\ UNCHANGED <<netVars, party, invite, seq, call>>

\* PartySearchRegist, wholly under the own lock.
PartySearchRegist(u, max) ==
    LET count == IF party[u].members = <<>> THEN 1 ELSE Len(party[u].members)
    IN /\ search[u] = 0
       /\ party[u].id = 0 \/ party[u].leader = u
       /\ max \in count..MaxMembers
       /\ search' = [search EXCEPT ![u] = max]
       /\ UNCHANGED <<netVars, party, invite, seq, call>>

-----------------------------------------------------------------------------
\* Session.Close, then two goroutines in either order.

Close(u) ==
    /\ u \notin closed
    /\ closed' = closed \cup {u}
    /\ UNCHANGED <<clients, left, party, invite, search, seq, call>>

onClientDisconnect(u) ==
    /\ u \in closed \cap clients
    /\ clients' = clients \ {u}
    /\ UNCHANGED <<closed, left, party, invite, search, seq, call>>

OnClientDisconnect(h, u) ==
    /\ u \in closed \ left
    /\ left' = left \cup {u}
    /\ LeaveParty(h, u)
    /\ UNCHANGED <<clients, closed, party, invite, search, seq>>

Request(h, u) ==
    \/ \E t \in Users : PartyInvite(h, u, t)
    \/ PartyInviteResult(h, u)
    \/ PartyInviteCancel(h, u)
    \/ PartyLeave(h, u)
    \/ \E k \in Users : PartyKickout(h, u, k) \/ PartyLeaderChange(h, u, k)
    \/ \E b \in Auths : PartyAuthChange(h, u, b)
    \/ \E l \in 1..LootTypes : PartyLootingType(h, u, l)

Continue(h) ==
    \/ PartyInviteLocked(h)
    \/ \E b \in BOOLEAN : PartyInviteResultLocked(h, b)
    \/ PartyInviteCancelLocked(h)
    \/ PartyInviteCancelOwn(h)
    \/ LeavePartyOwn(h)
    \/ clearPartyState(h)
    \/ applyPartyState(h)
    \/ Written(h)

Next ==
    \/ \E h \in Handlers, u \in Users : Request(h, u)
    \/ \E h \in Handlers : Continue(h)
    \/ \E u \in Watchers, n \in 0..(MaxMembers + 1) : PartySearchRegist(u, n)
    \/ \E u \in Leavers : Close(u) \/ onClientDisconnect(u)
    \/ \E u \in Leavers, h \in Handlers : OnClientDisconnect(h, u)

Spec == Init /\ [][Next]_vars

-----------------------------------------------------------------------------
\* Every field has its type, and no party state, stored or about to be stored,
\* has more members than PartyMaxMembers, whichever invitations are accepted
\* at the same time (makePartyState checks the room on the copy it extends).
TypeOK ==
    /\ clients \subseteq Users
    /\ closed \subseteq Users
    /\ left \subseteq Users
    /\ party \in [Users -> PartyState]
    /\ invite \in [Users -> InviteState]
    /\ search \in [Users -> 0..MaxMembers]
    /\ seq \in Nat
    /\ call \in [Handlers -> Call]

\* A party state that is not the zero state.
WellFormed(state) ==
    /\ Len(state.members) >= 2
    /\ \A j, k \in DOMAIN state.members :
          state.members[j] = state.members[k] => j = k
    /\ partyHasMember(state, state.leader)

\* However the writes of several handlers interleave, the party a member sees
\* has at least two distinct members, the member itself and the leader among
\* them: LeaveParty, PartyKickout and makePartyState never publish a party of
\* one, a leader from outside, or a party to somebody it does not contain.
ViewsWellFormed ==
    \A u \in Users :
        party[u].id # 0 => WellFormed(party[u]) /\ partyHasMember(party[u], u)

\* When handlers do not overlap and nobody disconnects, all members of a party
\* hold the same copy of it once the handler is done (applyPartyState,
\* clearPartyState): nobody is a member of a party that does not know it.
Agreement ==
    (\A h \in Handlers : Idle(h)) =>
        \A u, v \in Users :
            partyHasMember(party[u], v) => party[v] = party[u]

\* party.go:374 "Only the party leader can remove another member": when
\* PartyKickout clears the party of the kicked member, the kicking session is
\* still the leader in its own copy.
KickedByLeader ==
    [][\A h \in Handlers :
         /\ call[h].op = "kick"
         /\ call[h].clear # <<>>
         /\ call'[h].clear # call[h].clear
         => Leads(call[h].me)]_vars

=============================================================================

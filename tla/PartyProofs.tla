---------------------------- MODULE PartyProofs ----------------------------
(***************************************************************************)
(* Proofs about Party for every set of users, any number of handlers that  *)
(* run at the same time, and every PartyMaxMembers: a party state has at   *)
(* most PartyMaxMembers members, and the party a member sees is            *)
(* well-formed and contains the member.  For one handler at a time, and    *)
(* users who stay, the copies of a party agree.                            *)
(***************************************************************************)
EXTENDS Party, TLAPS

\* The members of a party are pairwise different.
DistinctMembers(s) == \A j, k \in DOMAIN s : s[j] = s[k] => j = k

\* A state that may be written to its members: none, or a well-formed party.
Publishable(state) == state.members # <<>> => state.id # 0 /\ WellFormed(state)

\* An invitation names another user.
InvitesOther ==
    \A u \in Users : invite[u].status # "none" => invite[u].opp \in Users \ {u}

\* What a goroutine holds between its steps.
HolderOK(c) ==
    /\ c.pc \in {"inviting", "answering", "cancelling", "forgetting", "leaving"} =>
          c.me \in Users /\ c.peer \in Users
    /\ c.pc \in {"inviting", "answering"} => c.me # c.peer
    /\ c.pc = "leaving" =>
          c.next.id # 0 /\ WellFormed(c.next) /\ partyHasMember(c.next, c.me)
    /\ c.pc = "writing" =>
          \A k \in DOMAIN c.apply :
              /\ c.next.id # 0 /\ WellFormed(c.next)
              /\ partyHasMember(c.next, c.apply[k])

CallOK == \A h \in Handlers : HolderOK(call[h])

\* The inductive invariant.
IInv == TypeOK /\ ViewsWellFormed /\ InvitesOther /\ CallOK

-----------------------------------------------------------------------------
\* The zero party, invitation and goroutine have their types.
LEMMA ZeroTypes ==
  /\ NoParty \in PartyState /\ NoParty.id = 0 /\ NoParty.members = <<>>
  /\ NoInvite \in InviteState /\ NoInvite.status = "none"
  /\ IdleCall \in Call /\ HolderOK(IdleCall)
  <1>1. <<>> \in BoundedMembers
    BY PartyAssumption DEF BoundedMembers
  <1>2. NoParty \in PartyState /\ NoParty.id = 0 /\ NoParty.members = <<>>
    BY <1>1, PartyAssumption DEF NoParty, PartyState
  <1>3. NoInvite \in InviteState /\ NoInvite.status = "none"
    BY DEF NoInvite, InviteState
  <1>4. IdleCall \in Call /\ IdleCall.pc = "idle"
    BY <1>2 DEF IdleCall, Call
  <1>5. HolderOK(IdleCall)
    BY <1>4 DEF HolderOK
  <1> QED
    BY <1>2, <1>3, <1>4, <1>5

\* Party states of any length.
AnyParty ==
    [id : Nat, leader : Users \cup {NoUser}, auth : BOOLEAN,
     loot : 0..LootTypes, members : Seq(Users)]

\* A party state is one of at most MaxMembers members.
LEMMA PartyStateSplit ==
  ASSUME NEW s
  PROVE  s \in PartyState <=> s \in AnyParty /\ Len(s.members) <= MaxMembers
  BY DEF PartyState, AnyParty, BoundedMembers

\* Adding a member keeps the members distinct and everybody who was there, and
\* brings in nobody else.
LEMMA AddMemberOK ==
  ASSUME NEW s \in AnyParty, DistinctMembers(s.members), NEW u \in Users
  PROVE  LET r == AddMember(s, u)
         IN /\ r \in AnyParty /\ r.id = s.id /\ r.leader = s.leader
            /\ DistinctMembers(r.members)
            /\ partyHasMember(r, u)
            /\ \A v : partyHasMember(s, v) => partyHasMember(r, v)
            /\ \A v : partyHasMember(r, v) => partyHasMember(s, v) \/ v = u
            /\ partyHasMember(s, u) => r = s
            /\ Len(r.members) <= Len(s.members) + 1
  <1> DEFINE members == s.members
             m == Append(members, u)
  <1>1. members \in Seq(Users)
    BY DEF AnyParty
  <1>2. Len(members) \in Nat
    BY <1>1
  <1>3. CASE partyHasMember(s, u)
    <2>1. AddMember(s, u) = s
      BY <1>3 DEF AddMember
    <2> QED
      BY <1>2, <1>3, <2>1
  <1>4. CASE ~partyHasMember(s, u)
    <2> DEFINE r == [s EXCEPT !.members = m]
    <2>1. AddMember(s, u) = r
      BY <1>4 DEF AddMember
    <2>2. m \in Seq(Users) /\ Len(m) = Len(members) + 1 /\ m[Len(members) + 1] = u
      BY <1>1
    <2>3. \A k \in 1..Len(members) : m[k] = members[k]
      BY <1>1
    <2>4. \A k \in 1..Len(members) : members[k] # u
      BY <1>1, <1>4 DEF partyHasMember
    <2> HIDE DEF m
    <2>5. r \in AnyParty /\ r.id = s.id /\ r.leader = s.leader /\ r.members = m
      BY <2>2 DEF AnyParty
    <2> HIDE DEF r
    <2>6. DistinctMembers(m)
      <3>1. DistinctMembers(members) /\ DOMAIN members = 1..Len(members)
        BY <1>1
      <3>2. DOMAIN m = 1..(Len(members) + 1)
        BY <1>2, <2>2
      <3> HIDE DEF members
      <3>3. \A k \in DOMAIN m : k \in 1..Len(members) \/ k = Len(members) + 1
        BY <1>2, <3>2
      <3> QED
        BY <2>2, <2>3, <2>4, <3>1, <3>3 DEF DistinctMembers
    <2>7. partyHasMember(r, u)
      BY <1>1, <2>2, <2>5 DEF partyHasMember
    <2>8. \A v : partyHasMember(s, v) => partyHasMember(r, v)
      BY <1>1, <2>2, <2>3, <2>5 DEF partyHasMember
    <2>9. ASSUME NEW v, partyHasMember(r, v)
          PROVE  partyHasMember(s, v) \/ v = u
      <3>1. PICK k \in 1..(Len(members) + 1) : m[k] = v
        BY <2>2, <2>5, <2>9 DEF partyHasMember
      <3>2. k \in 1..Len(members) \/ k = Len(members) + 1
        BY <1>2
      <3> QED
        BY <1>1, <2>2, <2>3, <3>1, <3>2 DEF partyHasMember
    <2> QED
      BY <1>2, <1>4, <2>1, <2>2, <2>5, <2>6, <2>7, <2>8, <2>9
  <1> QED
    BY <1>3, <1>4

\* What makePartyState starts from: a party, or nobody and the inviter leads.
LEMMA BasePartyOK ==
  ASSUME IInv, NEW i \in Users, NEW t \in Users
  PROVE  LET b == BaseParty(i, t)
         IN /\ b \in PartyState /\ b.id # 0
            /\ DistinctMembers(b.members)
            /\ partyHasMember(b, b.leader) \/ b.leader = i
  <1>1. seq + 1 \in Nat /\ seq + 1 # 0
    BY DEF IInv, TypeOK
  <1>2. party[i] \in PartyState /\ party[t] \in PartyState
    BY DEF IInv, TypeOK
  <1>3. CASE party[i].id # 0
    BY <1>2, <1>3 DEF BaseParty, IInv, ViewsWellFormed, WellFormed, DistinctMembers
  <1>4. CASE party[i].id = 0 /\ party[t].id # 0
    BY <1>2, <1>4 DEF BaseParty, IInv, ViewsWellFormed, WellFormed, DistinctMembers
  <1>5. CASE party[i].id = 0 /\ party[t].id = 0
    <2> DEFINE n == [id |-> seq + 1, leader |-> i, auth |-> FALSE, loot |-> 1,
                     members |-> <<>>]
    <2>1. BaseParty(i, t) = n
      BY <1>5 DEF BaseParty
    <2>2. n \in PartyState /\ n.id # 0 /\ n.members = <<>> /\ n.leader = i
      BY <1>1, PartyAssumption DEF PartyState, BoundedMembers
    <2>3. DistinctMembers(<<>>)
      BY DEF DistinctMembers
    <2> QED
      BY <2>1, <2>2, <2>3
  <1> QED
    BY <1>3, <1>4, <1>5

\* A party that makePartyState returns has room for its members and is
\* well-formed.
LEMMA makePartyStateOK ==
  ASSUME IInv, NEW i \in Users, NEW t \in Users, i # t
  PROVE  LET s == makePartyState(i, t)
         IN s \in PartyState /\ (s.id # 0 => WellFormed(s)) /\ (s.id = 0 => s = NoParty)
  <1> DEFINE b == BaseParty(i, t)
             a == AddMember(b, i)
             r == AddMember(a, t)
  <1>1. /\ b \in PartyState /\ b.id # 0 /\ DistinctMembers(b.members)
        /\ partyHasMember(b, b.leader) \/ b.leader = i
    BY BasePartyOK
  <1>2. b \in AnyParty /\ Len(b.members) \in Nat
    BY <1>1, PartyStateSplit DEF AnyParty
  <1>3. /\ a \in AnyParty /\ a.id = b.id /\ a.leader = b.leader
        /\ DistinctMembers(a.members)
        /\ partyHasMember(a, i)
        /\ \A v : partyHasMember(b, v) => partyHasMember(a, v)
        /\ Len(a.members) <= Len(b.members) + 1
    BY <1>1, <1>2, AddMemberOK
  <1>4. Len(a.members) \in Nat
    BY <1>3 DEF AnyParty
  <1>5. makePartyState(i, t) = NoParty \/
           /\ makePartyState(i, t) = r
           /\ Len(b.members) < MaxMembers
           /\ partyHasMember(a, t) \/ Len(a.members) < MaxMembers
    BY <1>2, <1>4, PartyAssumption DEF makePartyState
  <1> HIDE DEF b, a
  <1>6. /\ r \in AnyParty /\ r.id = b.id /\ r.leader = b.leader
        /\ DistinctMembers(r.members)
        /\ partyHasMember(r, t)
        /\ \A v : partyHasMember(a, v) => partyHasMember(r, v)
        /\ partyHasMember(a, t) => r = a
        /\ Len(r.members) <= Len(a.members) + 1
    BY <1>3, AddMemberOK
  <1> HIDE DEF r
  <1>7. Len(r.members) \in Nat /\ DOMAIN r.members = 1..Len(r.members)
    BY <1>6 DEF AnyParty
  <1>8. CASE makePartyState(i, t) = NoParty
    BY <1>8, ZeroTypes
  <1>9. CASE makePartyState(i, t) = r /\ Len(b.members) < MaxMembers /\
             (partyHasMember(a, t) \/ Len(a.members) < MaxMembers)
    <2>1. Len(r.members) <= MaxMembers
      BY <1>9, <1>2, <1>3, <1>4, <1>6, <1>7, PartyAssumption
    <2>2. r \in PartyState
      BY <1>6, <2>1, PartyStateSplit
    <2>3. Len(r.members) >= 2
      <3>1. PICK j \in DOMAIN r.members : r.members[j] = i
        BY <1>3, <1>6 DEF partyHasMember
      <3>2. PICK k \in DOMAIN r.members : r.members[k] = t
        BY <1>6 DEF partyHasMember
      <3>3. j # k
        BY <3>1, <3>2
      <3> QED
        BY <3>3, <1>7
    <2>4. partyHasMember(r, r.leader)
      BY <1>1, <1>3, <1>6
    <2>5. WellFormed(r)
      BY <1>6, <2>3, <2>4 DEF WellFormed, DistinctMembers
    <2> QED
      BY <1>9, <1>1, <1>6, <2>2, <2>5
  <1> QED
    BY <1>5, <1>8, <1>9

\* Removing a member keeps the others, distinct.
LEMMA WithoutOK ==
  ASSUME NEW s \in PartyState, WellFormed(s), NEW u \in Users, partyHasMember(s, u)
  PROVE  LET r == Without(s, u)
         IN /\ r \in PartyState /\ r.id = s.id /\ r.leader = s.leader
            /\ DistinctMembers(r.members)
            /\ Len(r.members) = Len(s.members) - 1
            /\ \A v : v # u /\ partyHasMember(s, v) => partyHasMember(r, v)
            /\ \A v : partyHasMember(r, v) => v # u /\ partyHasMember(s, v)
  <1> DEFINE members == s.members
             i == CHOOSE k \in DOMAIN members : members[k] = u
             front == SubSeq(members, 1, i - 1)
             back == SubSeq(members, i + 1, Len(members))
  <1>1. members \in Seq(Users) /\ Len(members) <= MaxMembers /\ DistinctMembers(members)
    BY DEF PartyState, BoundedMembers, WellFormed, DistinctMembers
  <1>2. i \in 1..Len(members) /\ members[i] = u /\ Len(members) \in Nat
    BY <1>1 DEF partyHasMember
  <1> HIDE DEF i, members
  <1>3. /\ front \in Seq(Users) /\ Len(front) = i - 1
        /\ \A j \in 1..(i - 1) : front[j] = members[j]
    BY <1>1, <1>2
  <1>4. /\ back \in Seq(Users) /\ Len(back) = Len(members) - i
        /\ \A j \in 1..(Len(members) - i) : back[j] = members[j + i]
    BY <1>1, <1>2
  <1> HIDE DEF front, back
  <1> DEFINE m == front \o back
             r == [s EXCEPT !.members = m]
  <1>5. m \in Seq(Users) /\ Len(m) = Len(members) - 1
    <2>1. m \in Seq(Users) /\ Len(m) = Len(front) + Len(back)
      BY <1>3, <1>4
    <2> QED
      BY <2>1, <1>2, <1>3, <1>4
  <1>6. \A j \in 1..(Len(members) - 1) :
          m[j] = IF j < i THEN members[j] ELSE members[j + 1]
    <2> SUFFICES ASSUME NEW j \in 1..(Len(members) - 1)
                 PROVE  m[j] = IF j < i THEN members[j] ELSE members[j + 1]
      OBVIOUS
    <2>1. CASE j < i
      <3>1. m[j] = front[j]
        BY <1>2, <1>3, <1>4, <2>1
      <3> QED
        BY <3>1, <1>2, <1>3, <2>1
    <2>2. CASE ~(j < i)
      <3>1. m[j] = back[j - (i - 1)]
        BY <1>2, <1>3, <1>4, <2>2
      <3>2. j - (i - 1) \in 1..(Len(members) - i) /\ j - (i - 1) + i = j + 1
        BY <1>2, <2>2
      <3> QED
        BY <3>1, <3>2, <1>4, <2>2
    <2> QED
      BY <2>1, <2>2
  <1>7. Without(s, u) = r
    BY DEF Without, RemoveAt, m, r, front, back, i, members
  <1> HIDE DEF m
  <1>8. r \in PartyState /\ r.id = s.id /\ r.leader = s.leader /\ r.members = m
    <2>1. Len(m) <= MaxMembers
      BY <1>1, <1>2, <1>5, PartyAssumption
    <2>2. m \in BoundedMembers
      BY <1>5, <2>1 DEF BoundedMembers
    <2> QED
      BY <2>2 DEF PartyState
  <1>9. DistinctMembers(m)
    <2> SUFFICES ASSUME NEW j \in 1..(Len(members) - 1),
                        NEW k \in 1..(Len(members) - 1), m[j] = m[k]
                 PROVE  j = k
      BY <1>5 DEF DistinctMembers
    <2> DEFINE x == IF j < i THEN j ELSE j + 1
               y == IF k < i THEN k ELSE k + 1
    <2>1. x \in 1..Len(members) /\ y \in 1..Len(members)
      BY <1>2
    <2>2. m[j] = members[x] /\ m[k] = members[y]
      BY <1>6
    <2> HIDE DEF x, y
    <2>3. /\ x \in DOMAIN members /\ y \in DOMAIN members
          /\ members[x] = members[y]
      <3>1. DOMAIN members = 1..Len(members)
        BY <1>1
      <3>2. members[x] = members[y]
        BY <2>2
      <3> QED
        BY <2>1, <3>1, <3>2
    <2>4. x = y
      BY <1>1, <2>3 DEF DistinctMembers
    <2> QED
      BY <1>2, <2>4 DEF x, y
  <1> HIDE DEF r
  <1>10. ASSUME NEW v, v # u, partyHasMember(s, v)
         PROVE  partyHasMember(r, v)
    <2>1. PICK k \in DOMAIN members : members[k] = v
      BY <1>10 DEF partyHasMember, members
    <2>2. k \in 1..Len(members) /\ k # i
      BY <1>1, <1>2, <2>1, <1>10
    <2>3. CASE k < i
      <3>1. k \in 1..(Len(members) - 1) /\ m[k] = v
        BY <1>2, <1>6, <2>1, <2>2, <2>3
      <3> QED
        BY <3>1, <1>5, <1>8 DEF partyHasMember
    <2>4. CASE k > i
      <3>1. k - 1 \in 1..(Len(members) - 1) /\ m[k - 1] = v
        BY <1>2, <1>6, <2>1, <2>2, <2>4
      <3> QED
        BY <3>1, <1>5, <1>8 DEF partyHasMember
    <2> QED
      BY <1>2, <2>2, <2>3, <2>4
  <1>11. ASSUME NEW v, partyHasMember(r, v)
         PROVE  v # u /\ partyHasMember(s, v)
    <2>1. PICK j \in 1..(Len(members) - 1) : m[j] = v
      BY <1>5, <1>8, <1>11 DEF partyHasMember
    <2> DEFINE x == IF j < i THEN j ELSE j + 1
    <2>2. x \in 1..Len(members) /\ x # i
      BY <1>2
    <2>3. members[x] = v
      BY <1>6, <2>1
    <2> HIDE DEF x
    <2>4. x \in DOMAIN members /\ i \in DOMAIN members
      BY <1>1, <1>2, <2>2
    <2>5. v # u
      BY <1>1, <1>2, <2>2, <2>3, <2>4 DEF DistinctMembers
    <2> QED
      BY <2>3, <2>4, <2>5 DEF partyHasMember, members
  <1> QED
    BY <1>5, <1>7, <1>8, <1>9, <1>10, <1>11 DEF members

-----------------------------------------------------------------------------
\* The initial state satisfies the invariant.
LEMMA InitInv == Init => IInv
  <1> SUFFICES ASSUME Init PROVE IInv
    OBVIOUS
  <1>1. TypeOK
    BY ZeroTypes, PartyAssumption DEF Init, TypeOK
  <1>2. ViewsWellFormed
    BY ZeroTypes DEF Init, ViewsWellFormed
  <1>3. InvitesOther
    BY ZeroTypes DEF Init, InvitesOther
  <1>4. CallOK
    BY ZeroTypes DEF Init, CallOK
  <1> QED
    BY <1>1, <1>2, <1>3, <1>4 DEF IInv

\* A step that gives one goroutine a record that is in order.
LEMMA SetCall ==
  ASSUME IInv, NEW h \in Handlers, NEW c \in Call, HolderOK(c),
         call' = [call EXCEPT ![h] = c]
  PROVE  call' \in [Handlers -> Call] /\ CallOK'
  <1>1. call' \in [Handlers -> Call]
    BY DEF IInv, TypeOK
  <1>2. ASSUME NEW g \in Handlers PROVE HolderOK(call'[g])
    BY DEF IInv, TypeOK, CallOK
  <1> QED
    BY <1>1, <1>2 DEF CallOK

\* A handler that returns.
LEMMA ReturnInv ==
  ASSUME IInv, NEW h \in Handlers, Return(h)
  PROVE  call' \in [Handlers -> Call] /\ CallOK'
  BY SetCall, ZeroTypes DEF Return

\* A handler that starts an invitation, an answer or a cancellation.
LEMMA BeginInv ==
  ASSUME IInv, NEW h \in Handlers,
         NEW pc \in {"inviting", "answering", "cancelling", "forgetting"},
         NEW u \in Users, NEW p \in Users, u # p, Begin(h, pc, u, p, NoParty)
  PROVE  call' \in [Handlers -> Call] /\ CallOK'
  <1> DEFINE c == [IdleCall EXCEPT !.pc = pc, !.me = u, !.peer = p, !.next = NoParty]
  <1>1. c \in Call /\ c.pc = pc /\ c.me = u /\ c.peer = p
    BY ZeroTypes DEF Call
  <1>2. call' = [call EXCEPT ![h] = c]
    BY DEF Begin
  <1> HIDE DEF c
  <1>3. HolderOK(c)
    BY <1>1 DEF HolderOK
  <1> QED
    BY <1>1, <1>2, <1>3, SetCall

\* A handler that starts to write a party that may be published.
LEMMA WriteInv ==
  ASSUME IInv, NEW h \in Handlers, NEW op \in {"accept", "leave", "kick", "change"},
         NEW u \in Users, NEW out \in Seq(Users), NEW s \in PartyState,
         Publishable(s), Write(h, op, u, out, s)
  PROVE  call' \in [Handlers -> Call] /\ CallOK'
  <1> DEFINE c == [IdleCall EXCEPT !.pc = "writing", !.op = op, !.me = u,
                                   !.next = s, !.clear = out, !.apply = s.members]
  <1>1. s.members \in Seq(Users)
    BY DEF PartyState, BoundedMembers
  <1>2. c \in Call /\ c.pc = "writing" /\ c.next = s /\ c.apply = s.members
    BY <1>1, ZeroTypes DEF Call
  <1>3. call' = [call EXCEPT ![h] = c]
    BY DEF Write
  <1> HIDE DEF c
  <1>4. ASSUME NEW k \in DOMAIN s.members
        PROVE  s.id # 0 /\ WellFormed(s) /\ partyHasMember(s, s.members[k])
    <2>1. s.members # <<>>
      BY <1>1
    <2> QED
      BY <2>1 DEF Publishable, partyHasMember
  <1>5. HolderOK(c)
    BY <1>2, <1>4 DEF HolderOK
  <1> QED
    BY <1>2, <1>3, <1>5, SetCall

\* A handler that has taken a member out.
LEMMA ShrinkInv ==
  ASSUME IInv, NEW h \in Handlers, NEW op \in {"leave", "kick"},
         NEW u \in Users, NEW out \in Seq(Users), NEW s \in PartyState,
         Len(s.members) >= 2 => s.id # 0 /\ WellFormed(s),
         Shrink(h, op, u, out, s)
  PROVE  call' \in [Handlers -> Call] /\ CallOK'
  <1>1. s.members \in Seq(Users) /\ Len(s.members) \in Nat
    BY DEF PartyState, BoundedMembers
  <1>2. Publishable(NoParty) /\ NoParty \in PartyState
    BY ZeroTypes DEF Publishable
  <1>3. CASE Len(s.members) >= 2
    <2>1. Write(h, op, u, out, s)
      BY <1>3 DEF Shrink
    <2>2. Publishable(s)
      BY <1>3 DEF Publishable
    <2> QED
      BY <2>1, <2>2, WriteInv
  <1>4. CASE ~(Len(s.members) >= 2)
    <2>1. Write(h, op, u, out \o s.members, NoParty)
      BY <1>4 DEF Shrink
    <2>2. out \o s.members \in Seq(Users)
      BY <1>1
    <2> QED
      BY <1>2, <2>1, <2>2, WriteInv
  <1> QED
    BY <1>3, <1>4

\* Resetting one invitation, or both of a pair, keeps the invitations in order.
LEMMA ResetInvite ==
  ASSUME IInv, NEW u \in Users, NEW p \in Users,
         \/ invite' = [invite EXCEPT ![u] = NoInvite, ![p] = NoInvite]
         \/ invite' = [invite EXCEPT ![u] = NoInvite]
         \/ invite' = invite
  PROVE  invite' \in [Users -> InviteState] /\ InvitesOther'
  <1>1. NoInvite \in InviteState /\ NoInvite.status = "none"
    BY ZeroTypes
  <1>2. invite \in [Users -> InviteState] /\ InvitesOther
    BY DEF IInv, TypeOK
  <1>3. \A v \in Users : invite'[v] = invite[v] \/ invite'[v] = NoInvite
    BY <1>2
  <1>4. invite' \in [Users -> InviteState]
    BY <1>1, <1>2
  <1>5. InvitesOther'
    BY <1>1, <1>2, <1>3 DEF InvitesOther
  <1> QED
    BY <1>4, <1>5

\* A party written to one of its members, or the zero state to anybody.
LEMMA SetParty ==
  ASSUME IInv, NEW v \in Users, NEW s \in PartyState,
         s.id # 0 => WellFormed(s) /\ partyHasMember(s, v),
         party' = [party EXCEPT ![v] = s]
  PROVE  party' \in [Users -> PartyState] /\ ViewsWellFormed'
  <1>1. party' \in [Users -> PartyState]
    BY DEF IInv, TypeOK
  <1>2. ASSUME NEW u \in Users, party'[u].id # 0
        PROVE  WellFormed(party'[u]) /\ partyHasMember(party'[u], u)
    BY <1>2 DEF IInv, TypeOK, ViewsWellFormed
  <1> QED
    BY <1>1, <1>2 DEF ViewsWellFormed

\* The invariant from its parts, for a step that leaves the sessions alone.
LEMMA Assemble ==
  ASSUME IInv, UNCHANGED <<netVars, search>>, seq' \in Nat,
         party' \in [Users -> PartyState], ViewsWellFormed',
         invite' \in [Users -> InviteState], InvitesOther',
         call' \in [Handlers -> Call], CallOK'
  PROVE  IInv'
  BY DEF IInv, TypeOK, netVars

\* The parts that a step leaves unchanged.
LEMMA Kept ==
  ASSUME IInv
  PROVE  /\ party' = party => party' \in [Users -> PartyState] /\ ViewsWellFormed'
         /\ invite' = invite => invite' \in [Users -> InviteState] /\ InvitesOther'
         /\ seq' = seq => seq' \in Nat
  BY DEF IInv, TypeOK, ViewsWellFormed, InvitesOther

\* PartyInvite, PartyInviteResult and PartyInviteCancel up to the locks.
LEMMA StartInv ==
  ASSUME IInv, NEW h \in Handlers, NEW u \in Users, NEW t \in Users,
         PartyInvite(h, u, t) \/ PartyInviteResult(h, u) \/ PartyInviteCancel(h, u)
  PROVE  IInv'
  <1>1. UNCHANGED <<netVars, search>> /\ seq' = seq /\ party' = party /\ invite' = invite
    BY DEF PartyInvite, PartyInviteResult, PartyInviteCancel
  <1>2. call' \in [Handlers -> Call] /\ CallOK'
    <2>1. CASE PartyInvite(h, u, t)
      BY <2>1, BeginInv DEF PartyInvite
    <2>2. CASE PartyInviteResult(h, u)
      <3>1. invite[u].opp \in Users \ {u}
        BY <2>2 DEF PartyInviteResult, IInv, InvitesOther
      <3> QED
        BY <2>2, <3>1, BeginInv DEF PartyInviteResult
    <2>3. CASE PartyInviteCancel(h, u)
      <3>1. invite[u].opp \in Users \ {u}
        BY <2>3 DEF PartyInviteCancel, IInv, InvitesOther
      <3>2. \/ Begin(h, "cancelling", u, invite[u].opp, NoParty)
            \/ Begin(h, "forgetting", u, invite[u].opp, NoParty)
        BY <2>3 DEF PartyInviteCancel
      <3> QED
        BY <3>1, <3>2, BeginInv
    <2> QED
      BY <2>1, <2>2, <2>3
  <1> QED
    BY <1>1, <1>2, Kept, Assemble

\* Both sides are reserved for each other.
LEMMA PartyInviteLockedInv ==
  ASSUME IInv, NEW h \in Handlers, PartyInviteLocked(h)
  PROVE  IInv'
  <1> DEFINE u == call[h].me
             t == call[h].peer
  <1>1. HolderOK(call[h]) /\ call[h].pc = "inviting"
    BY DEF IInv, CallOK, PartyInviteLocked
  <1>2. u \in Users /\ t \in Users /\ u # t
    BY <1>1 DEF HolderOK
  <1>3. /\ UNCHANGED <<netVars, search>> /\ seq' = seq /\ party' = party
        /\ Return(h)
        /\ \/ invite' = invite
           \/ invite' = [invite EXCEPT ![u] = [status |-> "outgoing", opp |-> t],
                                       ![t] = [status |-> "incoming", opp |-> u]]
    BY DEF PartyInviteLocked
  <1> HIDE DEF u, t
  <1>4. invite' \in [Users -> InviteState] /\ InvitesOther'
    <2>1. CASE invite' = invite
      BY <2>1, Kept
    <2>2. CASE invite' = [invite EXCEPT ![u] = [status |-> "outgoing", opp |-> t],
                                        ![t] = [status |-> "incoming", opp |-> u]]
      <3>1. invite \in [Users -> InviteState] /\ InvitesOther
        BY DEF IInv, TypeOK
      <3>2. invite' \in [Users -> InviteState]
        BY <1>2, <2>2, <3>1 DEF InviteState
      <3>3. /\ invite'[u].opp = t /\ invite'[t].opp = u
            /\ \A v \in Users \ {u, t} : invite'[v] = invite[v]
        BY <1>2, <2>2, <3>1
      <3>4. InvitesOther'
        BY <1>2, <3>1, <3>3 DEF InvitesOther
      <3> QED
        BY <3>2, <3>4
    <2> QED
      BY <1>3, <2>1, <2>2
  <1>5. call' \in [Handlers -> Call] /\ CallOK'
    BY <1>3, ReturnInv
  <1> QED
    BY <1>3, <1>4, <1>5, Kept, Assemble

\* An answer to an invitation.
LEMMA PartyInviteResultLockedInv ==
  ASSUME IInv, NEW h \in Handlers, NEW accepted \in BOOLEAN,
         PartyInviteResultLocked(h, accepted)
  PROVE  IInv'
  <1> DEFINE u == call[h].me
             p == call[h].peer
             s == makePartyState(p, u)
  <1>1. HolderOK(call[h]) /\ call[h].pc = "answering"
    BY DEF IInv, CallOK, PartyInviteResultLocked
  <1>2. u \in Users /\ p \in Users /\ u # p
    BY <1>1 DEF HolderOK
  <1>3. s \in PartyState /\ (s.id # 0 => WellFormed(s)) /\ (s.id = 0 => s = NoParty)
    BY <1>2, makePartyStateOK
  <1>4. /\ UNCHANGED <<netVars, search>> /\ party' = party
        /\ \/ invite' = invite
           \/ invite' = [invite EXCEPT ![u] = NoInvite, ![p] = NoInvite]
        /\ \/ seq' = seq /\ Return(h)
           \/ /\ s.id # 0
              /\ seq' = IF s.id > seq THEN s.id ELSE seq
              /\ Write(h, "accept", u, <<>>, s)
    BY DEF PartyInviteResultLocked
  <1> HIDE DEF u, p, s
  <1>5. invite' \in [Users -> InviteState] /\ InvitesOther'
    BY <1>2, <1>4, ResetInvite
  <1>6. CASE seq' = seq /\ Return(h)
    BY <1>4, <1>5, <1>6, ReturnInv, Kept, Assemble
  <1>7. CASE /\ s.id # 0
             /\ seq' = IF s.id > seq THEN s.id ELSE seq
             /\ Write(h, "accept", u, <<>>, s)
    <2>1. seq' \in Nat
      <3>1. s.id \in Nat /\ seq \in Nat
        BY <1>3 DEF PartyState, IInv, TypeOK
      <3> QED
        BY <3>1, <1>7
    <2>2. Publishable(s)
      BY <1>3, <1>7 DEF Publishable
    <2>3. <<>> \in Seq(Users)
      OBVIOUS
    <2>4. call' \in [Handlers -> Call] /\ CallOK'
      BY <1>2, <1>3, <1>7, <2>2, <2>3, WriteInv
    <2> QED
      BY <1>4, <1>5, <2>1, <2>4, Kept, Assemble
  <1> QED
    BY <1>4, <1>6, <1>7

\* A cancelled invitation.
LEMMA PartyInviteCancelInv ==
  ASSUME IInv, NEW h \in Handlers,
         PartyInviteCancelLocked(h) \/ PartyInviteCancelOwn(h)
  PROVE  IInv'
  <1> DEFINE u == call[h].me
             p == call[h].peer
  <1>1. HolderOK(call[h]) /\ call[h].pc \in {"cancelling", "forgetting"}
    BY DEF IInv, CallOK, PartyInviteCancelLocked, PartyInviteCancelOwn
  <1>2. u \in Users /\ p \in Users
    BY <1>1 DEF HolderOK
  <1>3. /\ UNCHANGED <<netVars, search>> /\ seq' = seq /\ party' = party /\ Return(h)
        /\ \/ invite' = [invite EXCEPT ![u] = NoInvite, ![p] = NoInvite]
           \/ invite' = [invite EXCEPT ![u] = NoInvite]
           \/ invite' = invite
    BY DEF PartyInviteCancelLocked, PartyInviteCancelOwn
  <1> HIDE DEF u, p
  <1>4. invite' \in [Users -> InviteState] /\ InvitesOther'
    BY <1>2, <1>3, ResetInvite
  <1> QED
    BY <1>3, <1>4, ReturnInv, Kept, Assemble

\* LeaveParty copies a view that contains the leaver.
LEMMA LeavePartyInv ==
  ASSUME IInv, NEW h \in Handlers, NEW u \in Users, LeaveParty(h, u)
  PROVE  call' \in [Handlers -> Call] /\ CallOK'
  <1>1. CASE party[u].id = 0
    BY <1>1 DEF LeaveParty, IInv, TypeOK, CallOK
  <1>2. CASE party[u].id # 0
    <2> DEFINE c == [IdleCall EXCEPT !.pc = "leaving", !.me = u, !.peer = u,
                                     !.next = party[u]]
    <2>1. party[u] \in PartyState /\ WellFormed(party[u]) /\ partyHasMember(party[u], u)
      BY <1>2 DEF IInv, TypeOK, ViewsWellFormed
    <2>2. /\ c \in Call /\ c.pc = "leaving" /\ c.me = u /\ c.peer = u
          /\ c.next = party[u]
      BY <2>1, ZeroTypes DEF Call
    <2>3. call' = [call EXCEPT ![h] = c]
      BY <1>2 DEF LeaveParty, Begin
    <2> HIDE DEF c
    <2>4. HolderOK(c)
      BY <1>2, <2>1, <2>2 DEF HolderOK
    <2> QED
      BY <2>2, <2>3, <2>4, SetCall
  <1> QED
    BY <1>1, <1>2

\* The party that remains after the leaver is gone is well-formed, unless it
\* is a party of one.
LEMMA AfterLeavingOK ==
  ASSUME NEW s \in PartyState, s.id # 0, WellFormed(s), NEW u \in Users,
         partyHasMember(s, u)
  PROVE  LET r == AfterLeaving(s, u)
         IN /\ r \in PartyState /\ (Len(r.members) >= 2 => r.id # 0 /\ WellFormed(r))
            /\ r.members = Without(s, u).members
  <1> DEFINE w == Without(s, u)
  <1>1. /\ w \in PartyState /\ w.id = s.id /\ w.leader = s.leader
        /\ DistinctMembers(w.members)
        /\ Len(w.members) = Len(s.members) - 1
        /\ \A v : v # u /\ partyHasMember(s, v) => partyHasMember(w, v)
    BY WithoutOK
  <1>2. AfterLeaving(s, u) = IF s.leader = u /\ w.members # <<>>
                               THEN [w EXCEPT !.leader = w.members[1]] ELSE w
    BY DEF AfterLeaving
  <1> HIDE DEF w
  <1>3. w.members \in Seq(Users) /\ Len(w.members) \in Nat
    BY <1>1 DEF PartyState, BoundedMembers
  <1>4. CASE s.leader = u /\ w.members # <<>>
    <2> DEFINE r == [w EXCEPT !.leader = w.members[1]]
    <2>1. 1 \in DOMAIN w.members /\ w.members[1] \in Users
      BY <1>3, <1>4
    <2>2. r \in PartyState /\ r.id = w.id /\ r.members = w.members /\ r.leader = w.members[1]
      BY <1>1, <2>1 DEF PartyState
    <2>3. AfterLeaving(s, u) = r
      BY <1>2, <1>4
    <2> HIDE DEF r
    <2>4. Len(r.members) >= 2 => WellFormed(r)
      BY <1>1, <2>1, <2>2 DEF WellFormed, DistinctMembers, partyHasMember
    <2> QED
      BY <1>1, <2>2, <2>3, <2>4 DEF w
  <1>5. CASE ~(s.leader = u /\ w.members # <<>>)
    <2>1. AfterLeaving(s, u) = w
      BY <1>2, <1>5
    <2>2. ASSUME Len(w.members) >= 2 PROVE WellFormed(w)
      <3>1. w.members # <<>>
        BY <1>3, <2>2
      <3>2. partyHasMember(w, w.leader)
        BY <1>1, <1>5, <3>1 DEF WellFormed
      <3> QED
        BY <1>1, <2>2, <3>2 DEF WellFormed, DistinctMembers
    <2> QED
      BY <1>1, <2>1, <2>2 DEF w
  <1> QED
    BY <1>4, <1>5

\* The leaver's own context is reset.
LEMMA LeavePartyOwnInv ==
  ASSUME IInv, NEW h \in Handlers, LeavePartyOwn(h)
  PROVE  IInv'
  <1> DEFINE u == call[h].me
             s == call[h].next
             r == AfterLeaving(s, u)
  <1>1. HolderOK(call[h]) /\ call[h].pc = "leaving" /\ call[h] \in Call
    BY DEF IInv, TypeOK, CallOK, LeavePartyOwn
  <1>2. /\ u \in Users /\ s \in PartyState
        /\ s.id # 0 /\ WellFormed(s) /\ partyHasMember(s, u)
    BY <1>1 DEF HolderOK, Call
  <1>3. r \in PartyState /\ (Len(r.members) >= 2 => r.id # 0 /\ WellFormed(r))
    BY <1>2, AfterLeavingOK
  <1>4. /\ UNCHANGED <<netVars, search>> /\ seq' = seq
        /\ party' = [party EXCEPT ![u] = NoParty]
        /\ invite' = [invite EXCEPT ![u] = NoInvite]
        /\ Shrink(h, "leave", u, <<>>, r)
    BY DEF LeavePartyOwn
  <1> HIDE DEF u, s, r
  <1>5. party' \in [Users -> PartyState] /\ ViewsWellFormed'
    BY <1>2, <1>4, ZeroTypes, SetParty
  <1>6. invite' \in [Users -> InviteState] /\ InvitesOther'
    BY <1>2, <1>4, ResetInvite
  <1>7. <<>> \in Seq(Users)
    OBVIOUS
  <1>8. call' \in [Handlers -> Call] /\ CallOK'
    BY <1>2, <1>3, <1>4, <1>7, ShrinkInv
  <1> QED
    BY <1>4, <1>5, <1>6, <1>8, Kept, Assemble

\* The leader takes another member out.
LEMMA PartyKickoutInv ==
  ASSUME IInv, NEW h \in Handlers, NEW u \in Users, NEW k \in Users,
         PartyKickout(h, u, k)
  PROVE  IInv'
  <1> DEFINE s == party[u]
             w == Without(s, k)
  <1>1. /\ UNCHANGED <<netVars, search>> /\ seq' = seq /\ party' = party /\ invite' = invite
        /\ s.id # 0 /\ s.leader = u /\ k # u /\ partyHasMember(s, k)
        /\ Shrink(h, "kick", u, <<k>>, w)
    BY DEF PartyKickout, Leads
  <1>2. s \in PartyState /\ WellFormed(s)
    BY <1>1 DEF IInv, TypeOK, ViewsWellFormed
  <1> HIDE DEF s
  <1>3. /\ w \in PartyState /\ w.id = s.id /\ w.leader = s.leader
        /\ DistinctMembers(w.members)
        /\ \A v : v # k /\ partyHasMember(s, v) => partyHasMember(w, v)
    BY <1>1, <1>2, WithoutOK
  <1> HIDE DEF w
  <1>4. partyHasMember(w, w.leader)
    BY <1>1, <1>2, <1>3 DEF WellFormed
  <1>5. Len(w.members) >= 2 => w.id # 0 /\ WellFormed(w)
    BY <1>1, <1>3, <1>4 DEF WellFormed, DistinctMembers
  <1>6. <<k>> \in Seq(Users)
    OBVIOUS
  <1>7. call' \in [Handlers -> Call] /\ CallOK'
    BY <1>1, <1>3, <1>5, <1>6, ShrinkInv
  <1> QED
    BY <1>1, <1>7, Kept, Assemble

\* The leader changes a setting, or hands the party over to a member.
LEMMA PartyChangeInv ==
  ASSUME IInv, NEW h \in Handlers, NEW u \in Users,
         \/ \E k \in Users : PartyLeaderChange(h, u, k)
         \/ \E b \in Auths : PartyAuthChange(h, u, b)
         \/ \E l \in 1..LootTypes : PartyLootingType(h, u, l)
  PROVE  IInv'
  <1> DEFINE s == party[u]
  <1>1. /\ UNCHANGED <<netVars, search>> /\ seq' = seq /\ party' = party /\ invite' = invite
        /\ s.id # 0
    BY DEF PartyLeaderChange, PartyAuthChange, PartyLootingType, Leads
  <1>2. s \in PartyState /\ WellFormed(s)
    BY <1>1 DEF IInv, TypeOK, ViewsWellFormed
  <1>3. PICK r \in PartyState :
          /\ r.id = s.id /\ r.members = s.members /\ partyHasMember(s, r.leader)
          /\ Write(h, "change", u, <<>>, r)
    <2>1. ASSUME NEW k \in Users, PartyLeaderChange(h, u, k)
          PROVE  \E r \in PartyState :
                   /\ r.id = s.id /\ r.members = s.members /\ partyHasMember(s, r.leader)
                   /\ Write(h, "change", u, <<>>, r)
      <3> DEFINE r == [s EXCEPT !.leader = k]
      <3>1. partyHasMember(s, k) /\ Write(h, "change", u, <<>>, r)
        BY <2>1 DEF PartyLeaderChange
      <3> HIDE DEF s
      <3>2. r \in PartyState /\ r.id = s.id /\ r.members = s.members /\ r.leader = k
        BY <1>2 DEF PartyState
      <3> HIDE DEF r
      <3> QED
        BY <3>1, <3>2
    <2>2. ASSUME NEW b \in Auths, PartyAuthChange(h, u, b)
          PROVE  \E r \in PartyState :
                   /\ r.id = s.id /\ r.members = s.members /\ partyHasMember(s, r.leader)
                   /\ Write(h, "change", u, <<>>, r)
      <3> DEFINE r == [s EXCEPT !.auth = b]
      <3>1. Write(h, "change", u, <<>>, r)
        BY <2>2 DEF PartyAuthChange
      <3> HIDE DEF s
      <3>2. b \in BOOLEAN
        BY PartyAssumption
      <3>3. r \in PartyState /\ r.id = s.id /\ r.members = s.members /\ r.leader = s.leader
        BY <1>2, <3>2 DEF PartyState
      <3> HIDE DEF r
      <3> QED
        BY <1>2, <3>1, <3>3 DEF WellFormed
    <2>3. ASSUME NEW l \in 1..LootTypes, PartyLootingType(h, u, l)
          PROVE  \E r \in PartyState :
                   /\ r.id = s.id /\ r.members = s.members /\ partyHasMember(s, r.leader)
                   /\ Write(h, "change", u, <<>>, r)
      <3> DEFINE r == [s EXCEPT !.loot = l]
      <3>1. Write(h, "change", u, <<>>, r)
        BY <2>3 DEF PartyLootingType
      <3> HIDE DEF s
      <3>2. l \in 0..LootTypes
        BY PartyAssumption
      <3>3. r \in PartyState /\ r.id = s.id /\ r.members = s.members /\ r.leader = s.leader
        BY <1>2, <3>2 DEF PartyState
      <3> HIDE DEF r
      <3> QED
        BY <1>2, <3>1, <3>3 DEF WellFormed
    <2> QED
      BY <2>1, <2>2, <2>3
  <1> HIDE DEF s
  <1>4. WellFormed(r) /\ r.id # 0
    BY <1>1, <1>2, <1>3 DEF WellFormed, partyHasMember
  <1>5. Publishable(r) /\ <<>> \in Seq(Users)
    BY <1>4 DEF Publishable
  <1>6. call' \in [Handlers -> Call] /\ CallOK'
    BY <1>3, <1>5, WriteInv
  <1> QED
    BY <1>1, <1>6, Kept, Assemble

\* One context is cleared.
LEMMA clearPartyStateInv ==
  ASSUME IInv, NEW h \in Handlers, clearPartyState(h)
  PROVE  IInv'
  <1> DEFINE v == Head(call[h].clear)
             c == [call[h] EXCEPT !.clear = Tail(@)]
  <1>1. call[h] \in Call /\ HolderOK(call[h]) /\ call[h].pc = "writing"
    BY DEF IInv, TypeOK, CallOK, clearPartyState
  <1>2. call[h].clear \in Seq(Users) /\ call[h].clear # <<>>
    BY <1>1 DEF Call, clearPartyState
  <1>3. v \in Users /\ Tail(call[h].clear) \in Seq(Users)
    BY <1>2
  <1>4. c \in Call /\ c.pc = "writing" /\ c.next = call[h].next /\ c.apply = call[h].apply
    BY <1>1, <1>3 DEF Call
  <1>5. /\ UNCHANGED <<netVars, search>> /\ seq' = seq
        /\ party' = party \/ party' = [party EXCEPT ![v] = NoParty]
        /\ invite' = invite \/ invite' = [invite EXCEPT ![v] = NoInvite]
        /\ call' = [call EXCEPT ![h] = c]
    BY DEF clearPartyState
  <1> HIDE DEF v, c
  <1>6. HolderOK(c)
    BY <1>1, <1>4 DEF HolderOK
  <1>7. call' \in [Handlers -> Call] /\ CallOK'
    BY <1>4, <1>5, <1>6, SetCall
  <1>8. party' \in [Users -> PartyState] /\ ViewsWellFormed'
    BY <1>3, <1>5, ZeroTypes, SetParty, Kept
  <1>9. invite' \in [Users -> InviteState] /\ InvitesOther'
    BY <1>3, <1>5, ResetInvite
  <1> QED
    BY <1>5, <1>7, <1>8, <1>9, Kept, Assemble

\* One member gets the new state.
LEMMA applyPartyStateInv ==
  ASSUME IInv, NEW h \in Handlers, applyPartyState(h)
  PROVE  IInv'
  <1> DEFINE a == call[h].apply
             s == call[h].next
             v == Head(a)
             c == [call[h] EXCEPT !.apply = Tail(@)]
  <1>1. call[h] \in Call /\ HolderOK(call[h]) /\ call[h].pc = "writing"
    BY DEF IInv, TypeOK, CallOK, applyPartyState
  <1>2. a \in Seq(Users) /\ a # <<>> /\ s \in PartyState
    BY <1>1 DEF Call, applyPartyState
  <1>3. /\ v \in Users /\ Tail(a) \in Seq(Users)
        /\ 1 \in DOMAIN a /\ v = a[1]
        /\ \A k \in DOMAIN Tail(a) : k + 1 \in DOMAIN a /\ Tail(a)[k] = a[k + 1]
    BY <1>2
  <1>4. \A k \in DOMAIN a : s.id # 0 /\ WellFormed(s) /\ partyHasMember(s, a[k])
    BY <1>1 DEF HolderOK
  <1>5. c \in Call /\ c.pc = "writing" /\ c.next = s /\ c.apply = Tail(a)
    BY <1>1, <1>3 DEF Call
  <1>6. /\ UNCHANGED <<netVars, search>> /\ seq' = seq
        /\ party' = party \/ party' = [party EXCEPT ![v] = s]
        /\ invite' = invite \/ invite' = [invite EXCEPT ![v] = NoInvite]
        /\ call' = [call EXCEPT ![h] = c]
    BY DEF applyPartyState
  <1> HIDE DEF a, s, v, c
  <1>7. \A k \in DOMAIN Tail(a) :
          s.id # 0 /\ WellFormed(s) /\ partyHasMember(s, Tail(a)[k])
    BY <1>3, <1>4
  <1>8. HolderOK(c)
    BY <1>5, <1>7 DEF HolderOK
  <1>9. call' \in [Handlers -> Call] /\ CallOK'
    BY <1>5, <1>6, <1>8, SetCall
  <1>10. WellFormed(s) /\ partyHasMember(s, v)
    BY <1>3, <1>4
  <1>11. party' \in [Users -> PartyState] /\ ViewsWellFormed'
    BY <1>2, <1>3, <1>6, <1>10, SetParty, Kept
  <1>12. invite' \in [Users -> InviteState] /\ InvitesOther'
    BY <1>3, <1>6, ResetInvite
  <1> QED
    BY <1>6, <1>9, <1>11, <1>12, Kept, Assemble

\* The two ways to LeaveParty: on request, and when the session is gone.
LEMMA DepartureInv ==
  ASSUME IInv, NEW h \in Handlers, NEW u \in Users,
         PartyLeave(h, u) \/ OnClientDisconnect(h, u)
  PROVE  IInv'
  <1>1. call' \in [Handlers -> Call] /\ CallOK'
    BY LeavePartyInv DEF PartyLeave, OnClientDisconnect
  <1>2. /\ clients' = clients /\ closed' = closed /\ left' \subseteq Users
        /\ UNCHANGED <<party, invite, search, seq>>
    BY DEF PartyLeave, OnClientDisconnect, netVars, IInv, TypeOK
  <1> QED
    BY <1>1, <1>2 DEF IInv, TypeOK, ViewsWellFormed, InvitesOther

\* Every step preserves the invariant.
LEMMA NextInv == IInv /\ [Next]_vars => IInv'
  <1> SUFFICES ASSUME IInv, [Next]_vars PROVE IInv'
    OBVIOUS
  <1>1. ASSUME NEW h \in Handlers, NEW u \in Users, Request(h, u) PROVE IInv'
    <2>1. CASE \E t \in Users : PartyInvite(h, u, t)
      BY <2>1, StartInv
    <2>2. CASE PartyInviteResult(h, u) \/ PartyInviteCancel(h, u)
      BY <2>2, StartInv
    <2>3. CASE PartyLeave(h, u)
      BY <2>3, DepartureInv
    <2>4. CASE \E k \in Users : PartyKickout(h, u, k)
      BY <2>4, PartyKickoutInv
    <2>5. CASE \/ \E k \in Users : PartyLeaderChange(h, u, k)
               \/ \E b \in Auths : PartyAuthChange(h, u, b)
               \/ \E l \in 1..LootTypes : PartyLootingType(h, u, l)
      BY <2>5, PartyChangeInv
    <2> QED
      BY <1>1, <2>1, <2>2, <2>3, <2>4, <2>5 DEF Request
  <1>2. ASSUME NEW h \in Handlers, Continue(h) PROVE IInv'
    <2>1. CASE PartyInviteLocked(h)
      BY <2>1, PartyInviteLockedInv
    <2>2. CASE \E b \in BOOLEAN : PartyInviteResultLocked(h, b)
      BY <2>2, PartyInviteResultLockedInv
    <2>3. CASE PartyInviteCancelLocked(h) \/ PartyInviteCancelOwn(h)
      BY <2>3, PartyInviteCancelInv
    <2>4. CASE LeavePartyOwn(h)
      BY <2>4, LeavePartyOwnInv
    <2>5. CASE clearPartyState(h)
      BY <2>5, clearPartyStateInv
    <2>6. CASE applyPartyState(h)
      BY <2>6, applyPartyStateInv
    <2>7. CASE Written(h)
      BY <2>7, ReturnInv, Kept, Assemble DEF Written
    <2> QED
      BY <1>2, <2>1, <2>2, <2>3, <2>4, <2>5, <2>6, <2>7 DEF Continue
  <1>3. ASSUME NEW u \in Watchers, NEW n \in 0..(MaxMembers + 1), PartySearchRegist(u, n)
        PROVE  IInv'
    <2>1. u \in Users /\ n \in 0..MaxMembers
      <3>1. u \in Users /\ MaxMembers \in Nat
        BY PartyAssumption
      <3>2. n <= MaxMembers
        BY <1>3, <3>1 DEF PartySearchRegist
      <3> QED
        BY <3>1, <3>2
    <2>2. search' \in [Users -> 0..MaxMembers]
      BY <1>3, <2>1 DEF PartySearchRegist, IInv, TypeOK
    <2> QED
      BY <1>3, <2>2 DEF PartySearchRegist, IInv, TypeOK, ViewsWellFormed, InvitesOther,
                        CallOK, netVars
  <1>4. ASSUME NEW u \in Leavers, Close(u) \/ onClientDisconnect(u) PROVE IInv'
    <2>1. u \in Users
      BY PartyAssumption
    <2> QED
      BY <1>4, <2>1 DEF Close, onClientDisconnect, IInv, TypeOK, ViewsWellFormed,
                        InvitesOther, CallOK
  <1>5. ASSUME NEW u \in Leavers, NEW h \in Handlers, OnClientDisconnect(h, u)
        PROVE  IInv'
    <2>1. u \in Users
      BY PartyAssumption
    <2> QED
      BY <1>5, <2>1, DepartureInv
  <1>6. CASE UNCHANGED vars
    BY <1>6 DEF vars, IInv, TypeOK, ViewsWellFormed, InvitesOther, CallOK
  <1> QED
    BY <1>1, <1>2, <1>3, <1>4, <1>5, <1>6 DEF Next

\* The inductive invariant holds in every reachable state, for every number of
\* sessions and of packet handlers that run at the same time.
THEOREM PartyInvariant == Spec => []IInv
  BY InitInv, NextInv, PTL DEF Spec

\* No party state, in a context or in a handler, has more than PartyMaxMembers
\* members, whichever invitations are accepted at the same time.
THEOREM PartyTypeOK == Spec => []TypeOK
  <1>1. IInv => TypeOK
    BY DEF IInv
  <1> QED
    BY <1>1, PartyInvariant, PTL

\* The party a member sees always has two distinct members or more, the member
\* and the leader among them: no interleaving of leaving, kicking, joining and
\* changing the leader publishes a party of one or a leader from outside.
THEOREM PartyViewsWellFormed == Spec => []ViewsWellFormed
  <1>1. IInv => ViewsWellFormed
    BY DEF IInv
  <1> QED
    BY <1>1, PartyInvariant, PTL

-----------------------------------------------------------------------------
\* Agreement, for a server that runs one packet at a time and loses nobody.
\* Between two writes the copies differ, so the induction is about the copies
\* as they will be when the running handler has made its remaining writes.

\* The user v is in the list s.
Listed(s, v) == \E k \in DOMAIN s : s[k] = v

\* The parties, now F, once the goroutine c has made its remaining writes.
Final(c, F) ==
    [v \in Users |-> IF Listed(c.apply, v) THEN c.next
                     ELSE IF Listed(c.clear, v) THEN NoParty ELSE F[v]]

\* All members of a party have the same copy of it.
Agreed(F) == \A u, v \in Users : partyHasMember(F[u], v) => F[v] = F[u]

\* A context without a party lists nobody.
ZeroEmpty == \A u \in Users : party[u].id = 0 => party[u].members = <<>>

\* The goroutine c brings the parties F to an agreement.
Settles(c, F) ==
    /\ c.pc # "writing" => c.apply = <<>> /\ c.clear = <<>>
    /\ c.pc = "leaving" => c.next = F[c.me]
    /\ Agreed(Final(c, F))

\* The strengthening of Agreement for one handler at a time.
SoloInv ==
    /\ clients = Users
    /\ ZeroEmpty
    /\ \A h \in Handlers : Settles(call[h], party)

\* A goroutine with nothing left to write changes nothing.
LEMMA FinalQuiet ==
  ASSUME NEW c, c.apply = <<>>, c.clear = <<>>, NEW F \in [Users -> PartyState]
  PROVE  Final(c, F) = F
  BY DEF Final, Listed

\* A goroutine that has nothing to write before and after a step that leaves
\* the parties alone.
LEMMA QuietSettles ==
  ASSUME NEW c, c.apply = <<>>, c.clear = <<>>, NEW F \in [Users -> PartyState],
         Settles(c, F), NEW d, d.apply = <<>>, d.clear = <<>>, d.pc # "leaving"
  PROVE  Settles(d, F)
  BY FinalQuiet DEF Settles

\* Two parties with a common member are one, and contain both their holders.
LEMMA MembersShare ==
  ASSUME IInv, ZeroEmpty, Agreed(party), NEW u \in Users, NEW w \in Users,
         NEW v \in Users, partyHasMember(party[u], v), partyHasMember(party[w], v)
  PROVE  party[w] = party[u] /\ partyHasMember(party[u], w)
  <1>1. party[w] = party[u]
    BY DEF Agreed
  <1>2. party[w].id # 0
    BY DEF ZeroEmpty, partyHasMember
  <1>3. partyHasMember(party[w], w)
    BY <1>2 DEF IInv, ViewsWellFormed
  <1> QED
    BY <1>1, <1>3

\* Nobody has a member who is in no party.
LEMMA LonersUnlisted ==
  ASSUME IInv, ZeroEmpty, Agreed(party), NEW v \in Users, party[v].id = 0,
         NEW w \in Users
  PROVE  ~partyHasMember(party[w], v)
  BY DEF ZeroEmpty, Agreed, partyHasMember

\* Writes that reach every user of a set T, to whom nobody outside T is bound,
\* and give the members of the new party that party and the others none.
LEMMA WritesAgree ==
  ASSUME Agreed(party), NEW T, NEW F \in [Users -> PartyState], NEW c,
         \A w \in Users \ T : F[w] = party[w],
         \A w \in Users \ T : \A v \in T : ~partyHasMember(party[w], v),
         \A v \in Users : Listed(c.apply, v) \/ Listed(c.clear, v) => v \in T,
         \A v \in T : Listed(c.apply, v) \/ Listed(c.clear, v) \/ F[v] = NoParty,
         \A v \in Users : partyHasMember(c.next, v) => Listed(c.apply, v)
  PROVE  Agreed(Final(c, F))
  <1> DEFINE G == Final(c, F)
  <1>1. \A v \in Users : Listed(c.apply, v) => G[v] = c.next
    BY DEF Final
  <1>2. \A v \in Users : ~Listed(c.apply, v) /\ v \in T => G[v] = NoParty
    BY DEF Final
  <1>3. \A v \in Users \ T : G[v] = party[v]
    BY DEF Final
  <1>4. \A v : ~partyHasMember(NoParty, v)
    BY ZeroTypes DEF partyHasMember
  <1> HIDE DEF G
  <1>5. ASSUME NEW u \in Users, NEW v \in Users, partyHasMember(G[u], v)
        PROVE  G[v] = G[u]
    <2>1. CASE Listed(c.apply, u)
      BY <1>1, <1>5, <2>1
    <2>2. CASE u \notin T
      <3>1. G[u] = party[u] /\ partyHasMember(party[u], v)
        BY <1>3, <1>5, <2>2
      <3>2. v \notin T
        BY <2>2, <3>1
      <3> QED
        BY <1>3, <3>1, <3>2 DEF Agreed
    <2> QED
      BY <1>2, <1>4, <1>5, <2>1, <2>2
  <1> QED
    BY <1>5 DEF Agreed, G

\* The writes of s to its members, and of no party to `out', reach the users T,
\* and no party of the others has a member among them.
Around(T, out, s) ==
    /\ \A w \in Users \ T : party'[w] = party[w]
    /\ \A w \in Users \ T : \A v \in T : ~partyHasMember(party[w], v)
    /\ \A v \in Users : partyHasMember(s, v) \/ Listed(out, v) => v \in T
    /\ \A v \in T : partyHasMember(s, v) \/ Listed(out, v) \/ party'[v] = NoParty

\* A handler that starts to write s to its members, having cleared `out'.
LEMMA WriteSettles ==
  ASSUME IInv, Agreed(party), NEW h \in Handlers,
         NEW op, NEW u, NEW out, NEW s \in PartyState, Write(h, op, u, out, s),
         party' \in [Users -> PartyState], NEW T, Around(T, out, s)
  PROVE  Settles(call'[h], party')
  <1> PICK c : c = [IdleCall EXCEPT !.pc = "writing", !.op = op, !.me = u,
                                    !.next = s, !.clear = out, !.apply = s.members]
    OBVIOUS
  <1>1. c.pc = "writing" /\ c.next = s /\ c.clear = out /\ c.apply = s.members
    BY DEF IdleCall
  <1>2. call'[h] = c
    BY DEF Write, IInv, TypeOK
  <1>3. \A v : partyHasMember(s, v) <=> Listed(c.apply, v)
    BY <1>1 DEF partyHasMember, Listed
  <1>4. \A v \in Users : Listed(c.apply, v) \/ Listed(c.clear, v) => v \in T
    BY <1>1, <1>3 DEF Around
  <1>5. \A v \in T : Listed(c.apply, v) \/ Listed(c.clear, v) \/ party'[v] = NoParty
    BY <1>1, <1>3 DEF Around
  <1>6. \A v \in Users : partyHasMember(c.next, v) => Listed(c.apply, v)
    BY <1>1, <1>3
  <1>7. Agreed(Final(c, party'))
    BY <1>4, <1>5, <1>6, WritesAgree DEF Around
  <1> QED
    BY <1>1, <1>2, <1>7 DEF Settles

\* Shrinking the party of a: every member is cleared or keeps the rest.
LEMMA ShrinkSettles ==
  ASSUME IInv, ZeroEmpty, Agreed(party), NEW h \in Handlers, NEW a \in Users,
         NEW op, NEW u, NEW out \in Seq(Users), NEW r \in PartyState,
         Shrink(h, op, u, out, r),
         party' \in [Users -> PartyState],
         \A w \in Users : ~partyHasMember(party[a], w) => party'[w] = party[w],
         \A v \in Users : partyHasMember(r, v) \/ Listed(out, v) =>
                             partyHasMember(party[a], v),
         \A v \in Users : partyHasMember(party[a], v) =>
                             partyHasMember(r, v) \/ Listed(out, v) \/ party'[v] = NoParty
  PROVE  Settles(call'[h], party')
  <1>0. PICK T : T = {v \in Users : partyHasMember(party[a], v)}
    OBVIOUS
  <1>1. \A w \in Users \ T : \A v \in T : ~partyHasMember(party[w], v)
    BY <1>0, MembersShare
  <1>2. \A w \in Users \ T : party'[w] = party[w]
    BY <1>0
  <1>3. CASE Len(r.members) >= 2
    <2>1. Write(h, op, u, out, r)
      BY <1>3 DEF Shrink
    <2>2. \A v \in Users : partyHasMember(r, v) \/ Listed(out, v) => v \in T
      BY <1>0
    <2>3. \A v \in T : partyHasMember(r, v) \/ Listed(out, v) \/ party'[v] = NoParty
      BY <1>0
    <2>4. Around(T, out, r)
      BY <1>1, <1>2, <2>2, <2>3 DEF Around
    <2> QED
      BY <2>1, <2>4, WriteSettles
  <1>4. CASE ~(Len(r.members) >= 2)
    <2> DEFINE all == out \o r.members
    <2>1. Write(h, op, u, all, NoParty)
      BY <1>4 DEF Shrink
    <2>2. r.members \in Seq(Users)
      BY DEF PartyState, BoundedMembers
    <2>3. ASSUME NEW v
          PROVE  Listed(all, v) <=> Listed(out, v) \/ partyHasMember(r, v)
      <3> DEFINE m == r.members
      <3>1. m \in Seq(Users) /\ Len(m) \in Nat /\ Len(out) \in Nat
        BY <2>2
      <3> HIDE DEF m
      <3>2. /\ DOMAIN all = 1..(Len(out) + Len(m))
            /\ DOMAIN out = 1..Len(out) /\ DOMAIN m = 1..Len(m)
            /\ \A k \in 1..Len(out) : all[k] = out[k]
            /\ \A k \in 1..Len(m) : all[Len(out) + k] = m[k]
        BY <3>1 DEF m
      <3>3. \A k \in 1..(Len(out) + Len(m)) :
              k \in 1..Len(out) \/ \E j \in 1..Len(m) : k = Len(out) + j
        <4> SUFFICES ASSUME NEW k \in 1..(Len(out) + Len(m)), k \notin 1..Len(out)
                     PROVE  \E j \in 1..Len(m) : k = Len(out) + j
          OBVIOUS
        <4>1. k - Len(out) \in 1..Len(m) /\ k = Len(out) + (k - Len(out))
          BY <3>1
        <4> QED
          BY <4>1
      <3>4. \A k \in 1..Len(m) : Len(out) + k \in 1..(Len(out) + Len(m))
        BY <3>1
      <3>5. \A k \in 1..Len(out) : k \in 1..(Len(out) + Len(m))
        BY <3>1
      <3> HIDE DEF all
      <3>6. ASSUME Listed(all, v) PROVE Listed(out, v) \/ Listed(m, v)
        <4>1. PICK k \in 1..(Len(out) + Len(m)) : all[k] = v
          BY <3>2, <3>6 DEF Listed
        <4>2. CASE k \in 1..Len(out)
          BY <3>2, <4>1, <4>2 DEF Listed
        <4>3. CASE \E j \in 1..Len(m) : k = Len(out) + j
          BY <3>2, <4>1, <4>3 DEF Listed
        <4> QED
          BY <3>3, <4>1, <4>2, <4>3
      <3>7. ASSUME Listed(out, v) \/ Listed(m, v) PROVE Listed(all, v)
        BY <3>2, <3>4, <3>5, <3>7 DEF Listed
      <3> QED
        BY <3>6, <3>7 DEF Listed, partyHasMember, m
    <2>4. \A v : ~partyHasMember(NoParty, v)
      BY ZeroTypes DEF partyHasMember
    <2> HIDE DEF all
    <2>5. \A v \in Users : partyHasMember(NoParty, v) \/ Listed(all, v) => v \in T
      BY <1>0, <2>3, <2>4
    <2>6. \A v \in T : partyHasMember(NoParty, v) \/ Listed(all, v) \/ party'[v] = NoParty
      BY <1>0, <2>3
    <2>7. PICK z \in PartyState : z = NoParty
      BY ZeroTypes
    <2>8. /\ Write(h, op, u, all, z)
          /\ \A v \in Users : partyHasMember(z, v) \/ Listed(all, v) => v \in T
          /\ \A v \in T : partyHasMember(z, v) \/ Listed(all, v) \/ party'[v] = NoParty
      BY <2>1, <2>5, <2>6, <2>7
    <2>9. Around(T, all, z)
      BY <1>1, <1>2, <2>8 DEF Around
    <2> QED
      BY <2>8, <2>9, WriteSettles
  <1> QED
    BY <1>3, <1>4

\* The leaver is cleared first, and the rest are told.
LEMMA LeaveSettles ==
  ASSUME IInv, IInv', SoloInv, NEW h \in Handlers, LeavePartyOwn(h)
  PROVE  ZeroEmpty' /\ Settles(call'[h], party')
  <1> DEFINE u == call[h].me
             s == call[h].next
             r == AfterLeaving(s, u)
  <1>1. HolderOK(call[h]) /\ call[h].pc = "leaving" /\ call[h] \in Call
    BY DEF IInv, TypeOK, CallOK, LeavePartyOwn
  <1>2. /\ u \in Users /\ s \in PartyState
        /\ s.id # 0 /\ WellFormed(s) /\ partyHasMember(s, u)
    BY <1>1 DEF HolderOK, Call
  <1>3. party \in [Users -> PartyState] /\ party' \in [Users -> PartyState]
    BY DEF IInv, TypeOK
  <1>4. s = party[u] /\ Agreed(party) /\ ZeroEmpty
    BY <1>1, <1>3, FinalQuiet DEF SoloInv, Settles
  <1>5. party' = [party EXCEPT ![u] = NoParty] /\ Shrink(h, "leave", u, <<>>, r)
    BY DEF LeavePartyOwn
  <1>6. r \in PartyState /\ r.members = Without(s, u).members
    BY <1>2, AfterLeavingOK
  <1>7. /\ \A v : v # u /\ partyHasMember(s, v) => partyHasMember(Without(s, u), v)
        /\ \A v : partyHasMember(Without(s, u), v) => v # u /\ partyHasMember(s, v)
    BY <1>2, WithoutOK
  <1> HIDE DEF u, s, r
  <1>8. \A v : partyHasMember(r, v) <=> v # u /\ partyHasMember(s, v)
    BY <1>6, <1>7 DEF partyHasMember
  <1>9. <<>> \in Seq(Users) /\ \A v : ~Listed(<<>>, v)
    BY DEF Listed
  <1>10. \A w \in Users : ~partyHasMember(party[u], w) => party'[w] = party[w]
    BY <1>2, <1>3, <1>4, <1>5
  <1>11. \A v \in Users : partyHasMember(r, v) \/ Listed(<<>>, v) =>
                             partyHasMember(party[u], v)
    BY <1>4, <1>8, <1>9
  <1>12. \A v \in Users : partyHasMember(party[u], v) =>
             partyHasMember(r, v) \/ Listed(<<>>, v) \/ party'[v] = NoParty
    BY <1>3, <1>4, <1>5, <1>8
  <1>13. Settles(call'[h], party')
    BY <1>2, <1>3, <1>4, <1>5, <1>6, <1>9, <1>10, <1>11, <1>12, ShrinkSettles
  <1>14. ZeroEmpty'
    BY <1>2, <1>3, <1>4, <1>5, ZeroTypes DEF ZeroEmpty
  <1> QED
    BY <1>13, <1>14

\* The kicked member is cleared, and the rest are told.
LEMMA KickSettles ==
  ASSUME IInv, IInv', SoloInv, NEW h \in Handlers, NEW u \in Users, NEW k \in Users,
         PartyKickout(h, u, k)
  PROVE  Settles(call'[h], party')
  <1> DEFINE s == party[u]
             w == Without(s, k)
  <1>1. party \in [Users -> PartyState] /\ party' = party
    BY DEF IInv, TypeOK, PartyKickout
  <1>2. Agreed(party) /\ ZeroEmpty
    BY <1>1, FinalQuiet DEF SoloInv, Settles, PartyKickout, Idle
  <1>3. s \in PartyState /\ s.id # 0 /\ WellFormed(s) /\ partyHasMember(s, k)
    BY DEF IInv, TypeOK, ViewsWellFormed, PartyKickout, Leads
  <1>4. Shrink(h, "kick", u, <<k>>, w)
    BY DEF PartyKickout
  <1> HIDE DEF s
  <1>5. /\ w \in PartyState
        /\ \A v : v # k /\ partyHasMember(s, v) => partyHasMember(w, v)
        /\ \A v : partyHasMember(w, v) => v # k /\ partyHasMember(s, v)
    BY <1>3, WithoutOK
  <1> HIDE DEF w
  <1>6. <<k>> \in Seq(Users) /\ \A v : Listed(<<k>>, v) <=> v = k
    BY DEF Listed
  <1>7. \A v \in Users : partyHasMember(w, v) \/ Listed(<<k>>, v) =>
                            partyHasMember(party[u], v)
    BY <1>3, <1>5, <1>6 DEF s
  <1>8. \A v \in Users : partyHasMember(party[u], v) =>
            partyHasMember(w, v) \/ Listed(<<k>>, v) \/ party'[v] = NoParty
    BY <1>5, <1>6 DEF s
  <1> QED
    BY <1>1, <1>2, <1>4, <1>5, <1>6, <1>7, <1>8, ShrinkSettles

\* The leader's new setting, or the new leader, reaches every member.
LEMMA ChangeSettles ==
  ASSUME IInv, IInv', SoloInv, NEW h \in Handlers, NEW u \in Users,
         \/ \E k \in Users : PartyLeaderChange(h, u, k)
         \/ \E b \in Auths : PartyAuthChange(h, u, b)
         \/ \E l \in 1..LootTypes : PartyLootingType(h, u, l)
  PROVE  Settles(call'[h], party')
  <1>1. party \in [Users -> PartyState] /\ party' = party /\ Idle(h) /\ party[u].id # 0
    BY DEF IInv, TypeOK, PartyLeaderChange, PartyAuthChange, PartyLootingType, Leads
  <1>2. Agreed(party) /\ ZeroEmpty
    BY <1>1, FinalQuiet DEF SoloInv, Settles, Idle
  <1>3. party[u] \in PartyState
    BY <1>1
  <1>4. PICK r \in PartyState : r.members = party[u].members /\ Write(h, "change", u, <<>>, r)
    <2>1. ASSUME NEW k \in Users, PartyLeaderChange(h, u, k)
          PROVE  [party[u] EXCEPT !.leader = k] \in PartyState
      BY <1>3 DEF PartyState
    <2>2. ASSUME NEW b \in Auths, PartyAuthChange(h, u, b)
          PROVE  [party[u] EXCEPT !.auth = b] \in PartyState
      BY <1>3, PartyAssumption DEF PartyState
    <2>3. ASSUME NEW l \in 1..LootTypes, PartyLootingType(h, u, l)
          PROVE  [party[u] EXCEPT !.loot = l] \in PartyState
      <3>1. l \in 0..LootTypes
        BY PartyAssumption
      <3> QED
        BY <1>3, <3>1 DEF PartyState
    <2>4. \A x : /\ [party[u] EXCEPT !.leader = x].members = party[u].members
                 /\ [party[u] EXCEPT !.auth = x].members = party[u].members
                 /\ [party[u] EXCEPT !.loot = x].members = party[u].members
      BY <1>3 DEF PartyState
    <2> QED
      BY <2>1, <2>2, <2>3, <2>4 DEF PartyLeaderChange, PartyAuthChange, PartyLootingType
  <1>5. PICK T : T = {v \in Users : partyHasMember(party[u], v)}
    OBVIOUS
  <1>6. \A w \in Users \ T : \A v \in T : ~partyHasMember(party[w], v)
    BY <1>2, <1>5, MembersShare
  <1>7. \A v : partyHasMember(r, v) <=> partyHasMember(party[u], v)
    BY <1>4 DEF partyHasMember
  <1>8. \A v \in Users : partyHasMember(r, v) \/ Listed(<<>>, v) => v \in T
    BY <1>5, <1>7 DEF Listed
  <1>9. \A v \in T : partyHasMember(r, v) \/ Listed(<<>>, v) \/ party'[v] = NoParty
    BY <1>5, <1>7
  <1>10. party' \in [Users -> PartyState] /\ \A w \in Users \ T : party'[w] = party[w]
    BY <1>1
  <1>11. Write(h, "change", u, <<>>, r)
    BY <1>4
  <1>12. Around(T, <<>>, r)
    BY <1>6, <1>8, <1>9, <1>10 DEF Around
  <1> QED
    BY <1>2, <1>10, <1>11, <1>12, WriteSettles

\* The members of a new or extended party: those of the party it is made from,
\* the inviter i and the target t; and one of the two was in no party.
LEMMA makePartyStateMembers ==
  ASSUME IInv, NEW i \in Users, NEW t \in Users, i # t,
         makePartyState(i, t).id # 0
  PROVE  /\ \A v : partyHasMember(makePartyState(i, t), v) <=>
                      partyHasMember(BaseParty(i, t), v) \/ v = i \/ v = t
         /\ party[i].id = 0 \/ party[t].id = 0
  <1> DEFINE b == BaseParty(i, t)
             a == AddMember(b, i)
             r == AddMember(a, t)
  <1>1. b \in PartyState /\ DistinctMembers(b.members)
    BY BasePartyOK
  <1>2. b \in AnyParty
    BY <1>1, PartyStateSplit
  <1>3. /\ a \in AnyParty /\ DistinctMembers(a.members) /\ partyHasMember(a, i)
        /\ \A v : partyHasMember(b, v) => partyHasMember(a, v)
        /\ \A v : partyHasMember(a, v) => partyHasMember(b, v) \/ v = i
    BY <1>1, <1>2, AddMemberOK
  <1>4. makePartyState(i, t) = r /\ (party[i].id = 0 \/ party[t].id = 0)
    BY ZeroTypes DEF makePartyState
  <1> HIDE DEF b, a
  <1>5. /\ partyHasMember(r, t)
        /\ \A v : partyHasMember(a, v) => partyHasMember(r, v)
        /\ \A v : partyHasMember(r, v) => partyHasMember(a, v) \/ v = t
    BY <1>3, AddMemberOK
  <1> QED
    BY <1>3, <1>4, <1>5 DEF b

\* An accepted invitation reaches the old members and the two who joined.
LEMMA AcceptSettles ==
  ASSUME IInv, IInv', SoloInv, NEW h \in Handlers, NEW accepted \in BOOLEAN,
         PartyInviteResultLocked(h, accepted)
  PROVE  Settles(call'[h], party')
  <1> DEFINE u == call[h].me
             p == call[h].peer
             s == makePartyState(p, u)
             b == BaseParty(p, u)
  <1>1. call[h].pc = "answering" /\ HolderOK(call[h])
    BY DEF IInv, CallOK, PartyInviteResultLocked
  <1>2. u \in Users /\ p \in Users /\ p # u
    BY <1>1 DEF HolderOK
  <1>3. party \in [Users -> PartyState] /\ party' = party
    BY DEF IInv, TypeOK, PartyInviteResultLocked
  <1>4. Agreed(party) /\ ZeroEmpty /\ Settles(call[h], party)
    BY <1>1, <1>3, FinalQuiet DEF SoloInv, Settles
  <1>5. Return(h) \/ (s.id # 0 /\ Write(h, "accept", u, <<>>, s))
    BY DEF PartyInviteResultLocked
  <1>6. CASE Return(h)
    <2>1. call'[h] = IdleCall
      BY <1>6 DEF Return, IInv, TypeOK
    <2>2. IdleCall.apply = <<>> /\ IdleCall.clear = <<>> /\ IdleCall.pc = "idle"
      BY DEF IdleCall
    <2>3. call[h].apply = <<>> /\ call[h].clear = <<>>
      BY <1>1, <1>4 DEF Settles
    <2> QED
      BY <1>3, <1>4, <2>1, <2>2, <2>3, QuietSettles
  <1>7. CASE s.id # 0 /\ Write(h, "accept", u, <<>>, s)
    <2>1. /\ \A v : partyHasMember(s, v) <=> partyHasMember(b, v) \/ v = p \/ v = u
          /\ party[p].id = 0 \/ party[u].id = 0
      BY <1>2, <1>7, makePartyStateMembers
    <2>2. s \in PartyState
      BY <1>2, makePartyStateOK
    <2>3. \/ b = party[p] /\ party[p].id # 0
          \/ b = party[u] /\ party[u].id # 0
          \/ b.members = <<>> /\ party[p].id = 0 /\ party[u].id = 0
      BY DEF BaseParty
    <2> HIDE DEF u, p, s, b
    <2>4. PICK T : T = {v \in Users : partyHasMember(s, v)}
      OBVIOUS
    <2>5. ASSUME NEW w \in Users \ T, NEW v \in T, partyHasMember(party[w], v)
          PROVE  FALSE
      <3>1. v \in Users /\ w \in Users /\ ~partyHasMember(b, w)
        BY <2>1, <2>4, <2>5
      <3>2. partyHasMember(b, v) \/ v = p \/ v = u
        BY <2>1, <2>4
      <3>3. ~partyHasMember(b, v)
        <4>1. ASSUME NEW x \in Users, b = party[x], partyHasMember(b, v) PROVE FALSE
          BY <1>4, <2>5, <3>1, <4>1, MembersShare
        <4>2. ASSUME b.members = <<>> PROVE ~partyHasMember(b, v)
          BY <4>2 DEF partyHasMember
        <4> QED
          BY <1>2, <2>3, <4>1, <4>2
      <3>4. party[v].id # 0
        BY <1>4, <2>5, <3>1, LonersUnlisted
      <3>5. b = party[v]
        BY <2>1, <2>3, <3>2, <3>3, <3>4
      <3>6. partyHasMember(party[v], v)
        BY <3>1, <3>4 DEF IInv, ViewsWellFormed
      <3> QED
        BY <3>3, <3>5, <3>6
    <2>6. \A w \in Users \ T : \A v \in T : ~partyHasMember(party[w], v)
      BY <2>5
    <2>7. \A v \in Users : partyHasMember(s, v) \/ Listed(<<>>, v) => v \in T
      BY <2>4 DEF Listed
    <2>8. \A v \in T : partyHasMember(s, v) \/ Listed(<<>>, v) \/ party'[v] = NoParty
      BY <2>4
    <2>9. party' \in [Users -> PartyState] /\ \A w \in Users \ T : party'[w] = party[w]
      BY <1>3
    <2>10. Agreed(party) /\ Write(h, "accept", u, <<>>, s)
      BY <1>4, <1>7
    <2>11. Around(T, <<>>, s)
      BY <2>6, <2>7, <2>8, <2>9 DEF Around
    <2> QED
      BY <2>2, <2>9, <2>10, <2>11, WriteSettles
  <1> QED
    BY <1>5, <1>6, <1>7

\* The first of a list and the others.
LEMMA ListedSplit ==
  ASSUME NEW s \in Seq(Users), s # <<>>
  PROVE  /\ Head(s) \in Users /\ Tail(s) \in Seq(Users)
         /\ \A v : Listed(s, v) <=> v = Head(s) \/ Listed(Tail(s), v)
  <1>1. /\ Head(s) \in Users /\ Tail(s) \in Seq(Users) /\ Len(s) \in Nat \ {0}
        /\ Head(s) = s[1] /\ DOMAIN s = 1..Len(s) /\ DOMAIN Tail(s) = 1..(Len(s) - 1)
        /\ \A k \in 1..(Len(s) - 1) : Tail(s)[k] = s[k + 1]
    OBVIOUS
  <1>2. ASSUME NEW v, Listed(s, v) PROVE v = Head(s) \/ Listed(Tail(s), v)
    <2>1. PICK k \in 1..Len(s) : s[k] = v
      BY <1>1, <1>2 DEF Listed
    <2>2. CASE k = 1
      BY <1>1, <2>1, <2>2
    <2>3. CASE k # 1
      <3>1. k - 1 \in 1..(Len(s) - 1) /\ (k - 1) + 1 = k
        BY <1>1, <2>3
      <3>2. Tail(s)[k - 1] = v
        BY <1>1, <2>1, <3>1
      <3> QED
        BY <1>1, <3>1, <3>2 DEF Listed
    <2> QED
      BY <2>2, <2>3
  <1>3. ASSUME NEW v, Listed(Tail(s), v) PROVE Listed(s, v)
    <2>1. PICK k \in 1..(Len(s) - 1) : Tail(s)[k] = v
      BY <1>1, <1>3 DEF Listed
    <2>2. k + 1 \in 1..Len(s) /\ s[k + 1] = v
      BY <1>1, <2>1
    <2> QED
      BY <1>1, <2>2 DEF Listed
  <1>4. Listed(s, Head(s))
    BY <1>1 DEF Listed
  <1> QED
    BY <1>1, <1>2, <1>3, <1>4

\* Clearing one context does not change what the writes come to.
LEMMA ClearSettles ==
  ASSUME IInv, IInv', SoloInv, NEW h \in Handlers, clearPartyState(h)
  PROVE  ZeroEmpty' /\ Settles(call'[h], party')
  <1> PICK c : c = call[h]
    OBVIOUS
  <1>1. c \in Call /\ c.pc = "writing" /\ c.clear # <<>> /\ Settles(c, party)
    BY DEF IInv, TypeOK, SoloInv, clearPartyState
  <1>2. c.clear \in Seq(Users)
    BY <1>1 DEF Call
  <1>3. PICK v : v = Head(c.clear)
    OBVIOUS
  <1>4. PICK d : d = [c EXCEPT !.clear = Tail(c.clear)]
    OBVIOUS
  <1>5. d.pc = "writing" /\ d.next = c.next /\ d.apply = c.apply /\ d.clear = Tail(c.clear)
    BY <1>1, <1>4 DEF Call
  <1>6. v \in Users /\ \A w : Listed(c.clear, w) <=> w = v \/ Listed(d.clear, w)
    BY <1>1, <1>2, <1>3, <1>5, ListedSplit
  <1>7. party \in [Users -> PartyState]
    BY DEF IInv, TypeOK
  <1>8. party' = [party EXCEPT ![v] = NoParty] /\ call'[h] = d
    BY <1>3, <1>4, <1>6 DEF clearPartyState, SoloInv, IInv, TypeOK
  <1>9. Final(d, party') = Final(c, party)
    <2>1. ASSUME NEW w \in Users
          PROVE  (IF Listed(d.apply, w) THEN d.next
                  ELSE IF Listed(d.clear, w) THEN NoParty ELSE party'[w])
                 = (IF Listed(c.apply, w) THEN c.next
                    ELSE IF Listed(c.clear, w) THEN NoParty ELSE party[w])
      <3>1. CASE w = v
        <4>1. party'[w] = NoParty
          BY <1>7, <1>8, <3>1
        <4> QED
          BY <1>5, <1>6, <3>1, <4>1
      <3>2. CASE w # v
        <4>1. party'[w] = party[w]
          BY <1>7, <1>8, <3>2
        <4> QED
          BY <1>5, <1>6, <3>2, <4>1
      <3> QED
        BY <3>1, <3>2
    <2> QED
      BY <2>1 DEF Final
  <1>10. Settles(d, party')
    BY <1>1, <1>5, <1>9 DEF Settles
  <1>11. ZeroEmpty'
    BY <1>6, <1>7, <1>8, ZeroTypes DEF ZeroEmpty, SoloInv
  <1> QED
    BY <1>8, <1>10, <1>11

\* Writing the new state to one member does not either.
LEMMA ApplySettles ==
  ASSUME IInv, IInv', SoloInv, NEW h \in Handlers, applyPartyState(h)
  PROVE  ZeroEmpty' /\ Settles(call'[h], party')
  <1> PICK c : c = call[h]
    OBVIOUS
  <1>1. /\ c \in Call /\ c.pc = "writing" /\ c.clear = <<>> /\ c.apply # <<>>
        /\ Settles(c, party) /\ HolderOK(c)
    BY DEF IInv, TypeOK, CallOK, SoloInv, applyPartyState
  <1>2. c.apply \in Seq(Users)
    BY <1>1 DEF Call
  <1>3. PICK v : v = Head(c.apply)
    OBVIOUS
  <1>4. PICK d : d = [c EXCEPT !.apply = Tail(c.apply)]
    OBVIOUS
  <1>5. d.pc = "writing" /\ d.next = c.next /\ d.clear = c.clear /\ d.apply = Tail(c.apply)
    BY <1>1, <1>4 DEF Call
  <1>6. v \in Users /\ \A w : Listed(c.apply, w) <=> w = v \/ Listed(d.apply, w)
    BY <1>1, <1>2, <1>3, <1>5, ListedSplit
  <1>7. party \in [Users -> PartyState]
    BY DEF IInv, TypeOK
  <1>8. party' = [party EXCEPT ![v] = c.next] /\ call'[h] = d
    BY <1>3, <1>4, <1>6 DEF applyPartyState, SoloInv, IInv, TypeOK
  <1>9. Final(d, party') = Final(c, party)
    <2>1. \A w : ~Listed(c.clear, w)
      BY <1>1 DEF Listed
    <2>2. ASSUME NEW w \in Users
          PROVE  (IF Listed(d.apply, w) THEN d.next
                  ELSE IF Listed(d.clear, w) THEN NoParty ELSE party'[w])
                 = (IF Listed(c.apply, w) THEN c.next
                    ELSE IF Listed(c.clear, w) THEN NoParty ELSE party[w])
      <3>1. CASE w = v
        <4>1. party'[w] = c.next
          BY <1>7, <1>8, <3>1
        <4> QED
          BY <1>5, <1>6, <2>1, <3>1, <4>1
      <3>2. CASE w # v
        <4>1. party'[w] = party[w]
          BY <1>7, <1>8, <3>2
        <4> QED
          BY <1>5, <1>6, <3>2, <4>1
      <3> QED
        BY <3>1, <3>2
    <2> QED
      BY <2>2 DEF Final
  <1>10. Settles(d, party')
    BY <1>1, <1>5, <1>9 DEF Settles
  <1>11. c.next.id # 0
    <2>1. 1 \in DOMAIN c.apply
      BY <1>1, <1>2
    <2> QED
      BY <1>1, <2>1 DEF HolderOK
  <1>12. ZeroEmpty'
    BY <1>6, <1>7, <1>8, <1>11 DEF ZeroEmpty, SoloInv
  <1> QED
    BY <1>8, <1>10, <1>12

\* A step of the handler that neither writes nor starts to write.
LEMMA PlainSettles ==
  ASSUME IInv, SoloInv, NEW h \in Handlers, party' = party,
         call[h].pc # "writing" \/ (call[h].apply = <<>> /\ call[h].clear = <<>>),
         \/ call' = call
         \/ Return(h)
         \/ \E pc \in {"inviting", "answering", "cancelling", "forgetting", "leaving"},
               u \in Users, p \in Users :
              \E s : Begin(h, pc, u, p, s) /\ (pc = "leaving" => s = party[u])
  PROVE  Settles(call'[h], party')
  <1>1. Settles(call[h], party) /\ call[h].apply = <<>> /\ call[h].clear = <<>>
    BY DEF SoloInv, Settles
  <1>2. party \in [Users -> PartyState] /\ call \in [Handlers -> Call]
    BY DEF IInv, TypeOK
  <1>3. Agreed(party)
    BY <1>1, <1>2, FinalQuiet DEF Settles
  <1>4. CASE call' = call
    BY <1>1, <1>4
  <1>5. CASE Return(h)
    <2>1. call'[h] = IdleCall
      BY <1>2, <1>5 DEF Return
    <2>2. IdleCall.apply = <<>> /\ IdleCall.clear = <<>> /\ IdleCall.pc = "idle"
      BY DEF IdleCall
    <2> QED
      BY <1>1, <1>2, <2>1, <2>2, QuietSettles
  <1>6. ASSUME NEW pc \in {"inviting", "answering", "cancelling", "forgetting", "leaving"},
               NEW u \in Users, NEW p \in Users, NEW s,
               Begin(h, pc, u, p, s), pc = "leaving" => s = party[u]
        PROVE  Settles(call'[h], party')
    <2>1. PICK c : c = [IdleCall EXCEPT !.pc = pc, !.me = u, !.peer = p, !.next = s]
      OBVIOUS
    <2>2. /\ c.pc = pc /\ c.me = u /\ c.next = s
          /\ c.apply = <<>> /\ c.clear = <<>>
      BY <2>1 DEF IdleCall
    <2>3. call'[h] = c
      BY <1>2, <1>6, <2>1 DEF Begin
    <2>4. Final(c, party) = party
      BY <1>2, <2>2, FinalQuiet
    <2> QED
      BY <1>3, <1>6, <2>2, <2>3, <2>4 DEF Settles
  <1> QED
    BY <1>4, <1>5, <1>6

\* Every step of the only handler preserves the strengthening.
LEMMA SoloNext ==
  ASSUME NEW h, Handlers = {h}, Leavers = {}
  PROVE  IInv /\ IInv' /\ SoloInv /\ [Next]_vars => SoloInv'
  <1> SUFFICES ASSUME IInv, IInv', SoloInv, [Next]_vars PROVE SoloInv'
    OBVIOUS
  <1>1. h \in Handlers /\ Settles(call[h], party) /\ clients = Users /\ ZeroEmpty
    BY DEF SoloInv
  <1>2. SUFFICES clients' = clients /\ ZeroEmpty' /\ Settles(call'[h], party')
    BY <1>1 DEF SoloInv
  <1>3. ASSUME party' = party PROVE ZeroEmpty'
    BY <1>1, <1>3 DEF ZeroEmpty
  <1>4. Idle(h) => call[h].pc # "writing"
    BY DEF Idle
  <1>5. ASSUME NEW u \in Users, Request(h, u)
        PROVE  clients' = clients /\ ZeroEmpty' /\ Settles(call'[h], party')
    <2>1. clients' = clients /\ party' = party
      BY <1>5 DEF Request, PartyInvite, PartyInviteResult, PartyInviteCancel, PartyLeave,
                  PartyKickout, PartyLeaderChange, PartyAuthChange, PartyLootingType, netVars
    <2>2. CASE \/ \E t \in Users : PartyInvite(h, u, t)
               \/ PartyInviteResult(h, u) \/ PartyInviteCancel(h, u)
      <3>1. \E pc \in {"inviting", "answering", "cancelling", "forgetting", "leaving"},
               x \in Users, p \in Users :
              \E s : Begin(h, pc, x, p, s) /\ (pc = "leaving" => s = party[x])
        <4>1. CASE \E t \in Users : PartyInvite(h, u, t)
          BY <4>1 DEF PartyInvite
        <4>2. CASE PartyInviteResult(h, u)
          <5>1. invite[u].opp \in Users /\ Begin(h, "answering", u, invite[u].opp, NoParty)
            BY <4>2 DEF PartyInviteResult, IInv, InvitesOther
          <5> QED
            BY <5>1
        <4>3. CASE PartyInviteCancel(h, u)
          <5>1. PICK pc \in {"cancelling", "forgetting"} :
                   Begin(h, pc, u, invite[u].opp, NoParty)
            BY <4>3 DEF PartyInviteCancel
          <5>2. invite[u].opp \in Users
            BY <4>3 DEF PartyInviteCancel, IInv, InvitesOther
          <5> QED
            BY <5>1, <5>2
        <4> QED
          BY <2>2, <4>1, <4>2, <4>3
      <3>2. call[h].pc # "writing"
        BY <1>4, <2>2 DEF PartyInvite, PartyInviteResult, PartyInviteCancel
      <3> QED
        BY <1>1, <1>3, <2>1, <3>1, <3>2, PlainSettles
    <2>3. CASE PartyLeave(h, u)
      <3>1. Begin(h, "leaving", u, u, party[u])
        BY <2>3 DEF PartyLeave, LeaveParty
      <3>2. call[h].pc # "writing"
        BY <1>4, <2>3 DEF PartyLeave, LeaveParty
      <3> QED
        BY <1>1, <1>3, <2>1, <3>1, <3>2, PlainSettles
    <2>4. CASE \E k \in Users : PartyKickout(h, u, k)
      BY <1>1, <1>3, <2>1, <2>4, KickSettles
    <2>5. CASE \/ \E k \in Users : PartyLeaderChange(h, u, k)
               \/ \E b \in Auths : PartyAuthChange(h, u, b)
               \/ \E l \in 1..LootTypes : PartyLootingType(h, u, l)
      BY <1>1, <1>3, <2>1, <2>5, ChangeSettles
    <2> QED
      BY <1>5, <2>2, <2>3, <2>4, <2>5 DEF Request
  <1>6. ASSUME Continue(h)
        PROVE  clients' = clients /\ ZeroEmpty' /\ Settles(call'[h], party')
    <2>1. clients' = clients
      BY <1>6 DEF Continue, PartyInviteLocked, PartyInviteResultLocked,
                  PartyInviteCancelLocked, PartyInviteCancelOwn, LeavePartyOwn,
                  clearPartyState, applyPartyState, Written, netVars
    <2>2. CASE \/ PartyInviteLocked(h) \/ PartyInviteCancelLocked(h)
               \/ PartyInviteCancelOwn(h) \/ Written(h)
      <3>1. Return(h) /\ party' = party
        BY <2>2 DEF PartyInviteLocked, PartyInviteCancelLocked, PartyInviteCancelOwn, Written
      <3>2. call[h].pc # "writing" \/ (call[h].apply = <<>> /\ call[h].clear = <<>>)
        BY <2>2 DEF PartyInviteLocked, PartyInviteCancelLocked, PartyInviteCancelOwn, Written
      <3> QED
        BY <1>1, <1>3, <2>1, <3>1, <3>2, PlainSettles
    <2>3. CASE \E b \in BOOLEAN : PartyInviteResultLocked(h, b)
      <3>1. party' = party
        BY <2>3 DEF PartyInviteResultLocked
      <3> QED
        BY <1>1, <1>3, <2>1, <2>3, <3>1, AcceptSettles
    <2>4. CASE LeavePartyOwn(h)
      BY <1>1, <2>1, <2>4, LeaveSettles
    <2>5. CASE clearPartyState(h)
      BY <1>1, <2>1, <2>5, ClearSettles
    <2>6. CASE applyPartyState(h)
      BY <1>1, <2>1, <2>6, ApplySettles
    <2> QED
      BY <1>6, <2>2, <2>3, <2>4, <2>5, <2>6 DEF Continue
  <1>7. ASSUME clients' = clients /\ party' = party /\ call' = call
        PROVE  clients' = clients /\ ZeroEmpty' /\ Settles(call'[h], party')
    BY <1>1, <1>3, <1>7
  <1>8. CASE \E u \in Watchers, n \in 0..(MaxMembers + 1) : PartySearchRegist(u, n)
    BY <1>7, <1>8 DEF PartySearchRegist, netVars
  <1>9. CASE UNCHANGED vars
    BY <1>7, <1>9 DEF vars
  <1> QED
    BY <1>5, <1>6, <1>8, <1>9 DEF Next

\* When packets are handled one at a time and nobody disconnects, all members
\* of a party hold the same copy of it whenever no handler runs, whatever the
\* sequence of invitations, departures, kicks and changes of the leader and of
\* the settings: every handler writes to all who were and all who will be in
\* the party.  (With two handlers it is false: their writes interleave.)
THEOREM PartyAgreement ==
  ASSUME NEW h, Handlers = {h}, Leavers = {}
  PROVE  Spec => []Agreement
  <1>1. Init => SoloInv
    <2> SUFFICES ASSUME Init PROVE SoloInv
      OBVIOUS
    <2>1. party = [u \in Users |-> NoParty] /\ call = [g \in Handlers |-> IdleCall]
      BY DEF Init
    <2>2. party \in [Users -> PartyState]
      BY <2>1, ZeroTypes
    <2>3. clients = Users /\ ZeroEmpty
      BY <2>1, ZeroTypes DEF Init, ZeroEmpty
    <2>4. IdleCall.apply = <<>> /\ IdleCall.clear = <<>> /\ IdleCall.pc = "idle"
      BY DEF IdleCall
    <2>5. Agreed(party)
      BY <2>1, ZeroTypes DEF Agreed
    <2>6. Settles(IdleCall, party)
      BY <2>2, <2>4, <2>5, FinalQuiet DEF Settles
    <2> QED
      BY <2>1, <2>3, <2>6 DEF SoloInv
  <1>2. IInv /\ SoloInv => Agreement
    <2> SUFFICES ASSUME IInv, SoloInv, \A g \in Handlers : Idle(g)
                 PROVE  Agreed(party)
      BY DEF Agreement, Agreed
    <2>1. Settles(call[h], party) /\ call[h].pc = "idle"
      BY DEF SoloInv, Idle
    <2>2. party \in [Users -> PartyState]
      BY DEF IInv, TypeOK
    <2> QED
      BY <2>1, <2>2, FinalQuiet DEF Settles
  <1>3. IInv /\ IInv' /\ SoloInv /\ [Next]_vars => SoloInv'
    BY SoloNext
  <1> QED
    BY <1>1, <1>2, <1>3, PartyInvariant, PTL DEF Spec
=============================================================================

---------------------------- MODULE ServerProofs ----------------------------
(***************************************************************************)
(* Proofs about the servers around the game server.                        *)
(*                                                                         *)
(* RpcLink, for any number of calls, checks and connections: every step of *)
(* the two Clients is a step of RpcCall or changes nothing that its caller *)
(* sees, and a game server that was told that it is registered is in the   *)
(* master's list.                                                          *)
(*                                                                         *)
(* Chat, for any number of characters, sessions and goroutines: a          *)
(* friendship has two ends, and a note belongs to one, however the         *)
(* handlers of the chat server overlap and whichever of their calls fail.  *)
(* With one packet at a time, what the clients read of their friends and   *)
(* the requests to see an equipment follow who is there.                   *)
(***************************************************************************)
EXTENDS RpcLink, Chat, FiniteSetTheorems, TLAPS

----------------------------------------------------------------------------
(* The inductive invariant. *)

\* The calls and the numbers of the messages of one kind in a sequence, and that
\* no call has two of them.
Of(s, kind) == {s[i].of : i \in {j \in 1 .. Len(s) : s[j].kind = kind}}
Numbers(s, kind) == {<<s[i].seq, s[i].of>> : i \in {j \in 1 .. Len(s) : s[j].kind = kind}}
Once(s, kind) ==
    \A i, j \in 1 .. Len(s) : s[i].kind = kind /\ s[j].kind = kind /\ s[i].of = s[j].of => i = j

Messages == [kind : {"req", "resp"}, seq : Nat, of : Callers \cup Checks, via : Nat]
Goroutines == [side : {"game", "master"}, k : Conns, seq : Nat, of : Callers \cup Checks]
Clients ==
    [codec : 0 .. MaxConns, connected : BOOLEAN, shutdown : BOOLEAN, sending : Callers \cup {None},
     seq : Nat \ {0}, pending : [Seqs -> Callers \cup {None}]]
Peers ==
    [reading : BOOLEAN, shutdown : BOOLEAN, sending : Checks \cup {None}, seq : Nat \ {0},
     pending : [Seqs -> Checks \cup {None}]]

Outcomes == [at : {"new", "called", "wait", "ok", "err"}, got : Callers \cup Checks \cup {None}]
Asking ==
    [at : {"idle", "next", "send", "wait", "done"}, todo : SUBSET Conns, k : 0 .. MaxConns,
     got : SUBSET ((0 .. MaxConns) \X (Callers \cup Checks) \X Nat)]

\* The types of the parts.
Types ==
    /\ up \in [Conns -> {"none", "up", "down"}]
    /\ toMaster \in [Conns -> Seq(Messages)] /\ toGame \in [Conns -> Seq(Messages)]
    /\ client \in Clients /\ reading \in [Conns -> BOOLEAN] /\ peer \in [Conns -> Peers]
    /\ gcall \in [Callers -> Outcomes]
    /\ check \in [Checks -> Asking] /\ handlers \subseteq Goroutines /\ runs \in [Callers -> Nat]
    /\ servers \subseteq Conns /\ leaving \subseteq Conns

\* One connection at a time: the one the Client has.
OneLink ==
    /\ \A k \in Conns : up[k] = "up" \/ reading[k] => k = client.codec /\ client.connected
    /\ \A k \in Conns : up[k] = "none" <=> k > client.codec
    /\ \A k \in Conns : up[k] # "up" => toMaster[k] = <<>> /\ toGame[k] = <<>>
    /\ \A k \in Conns : up[k] = "none" => gcall[k].at = "new"
    /\ \A h \in handlers : up[h.k] # "none"
    /\ \A k \in leaving : up[k] = "down"

\* What is on its way for a call.
Asked(c) == \E k \in Conns : c \in Of(toMaster[k], "req")
Served(c) == \E h \in handlers : h.side = "master" /\ h.of = c
Answered(c) == \E k \in Conns : c \in Of(toGame[k], "resp")

\* A call is in one place: not sent, being written, asked, served, or done; and
\* who waits for an answer that can still come has not been told of an error.
Stage(c) ==
    /\ gcall[c].at \in {"new", "called"} => ~Served(c) /\ runs[c] = 0
    /\ client.sending = c => ~Asked(c) /\ ~Served(c) /\ runs[c] = 0
    /\ Asked(c) => ~Served(c) /\ runs[c] = 0
    /\ Served(c) => runs[c] = 0
    /\ runs[c] <= 1
    /\ Answered(c) => runs[c] = 1
    /\ client.sending = c \/ Asked(c) \/ Answered(c) => gcall[c].at = "wait"
    /\ gcall[c].at = "ok" => runs[c] = 1 /\ gcall[c].got = c

\* No message and no goroutine twice.
NoDuplicates ==
    /\ \A k \in Conns : Once(toMaster[k], "req") /\ Once(toGame[k], "resp")
    /\ \A g, h \in handlers : g.side = "master" /\ h.side = "master" /\ g.of = h.of => g = h
    /\ \A h \in handlers :
         h.side = "master" => h.of \in Callers /\ (up[h.k] = "up" => gcall[h.of].at = "wait")
    /\ \A k \in Conns : Of(toMaster[k], "req") \subseteq Callers /\ Of(toGame[k], "resp") \subseteq Callers

\* Number n is the one of call c.
Numbered(n, c) ==
    \/ n \in Seqs /\ client.pending[n] = c /\ c # None
    \/ client.sending = c /\ c # None /\ n = client.seq - 1
    \/ \E k \in Conns : <<n, c>> \in Numbers(toMaster[k], "req") \cup Numbers(toGame[k], "resp")
    \/ \E h \in handlers : h.side = "master" /\ h.seq = n /\ h.of = c

Started == {c \in Callers : gcall[c].at \notin {"new", "called"}}

\* A number is given to one call, and there are enough of them.
Numbering ==
    /\ \A n \in Nat : \A c, d \in Callers : Numbered(n, c) /\ Numbered(n, d) => c = d
    /\ \A n \in Nat : \A c \in Callers : Numbered(n, c) => n \in 1 .. (client.seq - 1) /\ c \in Started
    /\ client.seq - 1 <= Cardinality(Started)

\* A registration does not go over a connection that is older than its dial, and
\* one that was served over the present connection is in the list.
Lists ==
    /\ \A k, c \in Conns : c \in Of(toMaster[k], "req") => c <= k
    /\ \A h \in handlers : h.side = "master" /\ h.of \in Conns => h.of <= h.k
    /\ \A k \in Conns : k = client.codec /\ up[k] = "up" /\ runs[k] = 1 => k \in servers

RpcInv == Types /\ OneLink /\ (\A c \in Callers : Stage(c)) /\ NoDuplicates /\ Numbering /\ Lists

----------------------------------------------------------------------------
(* Messages of a connection. *)

\* Reading the first message.
LEMMA TailMessages ==
  ASSUME NEW s \in Seq(Messages), s # <<>>, NEW kind
  PROVE  /\ Head(s) \in Messages /\ Tail(s) \in Seq(Messages)
         /\ Of(Tail(s), kind) \subseteq Of(s, kind)
         /\ Numbers(Tail(s), kind) \subseteq Numbers(s, kind)
         /\ Head(s).kind = kind => /\ Head(s).of \in Of(s, kind)
                                   /\ <<Head(s).seq, Head(s).of>> \in Numbers(s, kind)
         /\ Once(s, kind) => Once(Tail(s), kind)
         /\ Once(s, kind) /\ Head(s).kind = kind => Head(s).of \notin Of(Tail(s), kind)
         /\ Head(s).kind # kind => /\ Of(Tail(s), kind) = Of(s, kind)
                                   /\ Numbers(Tail(s), kind) = Numbers(s, kind)
  <1>1. Len(s) \in Nat /\ Len(s) >= 1 /\ Head(s) = s[1] /\ s[1] \in Messages
    OBVIOUS
  <1>2. Tail(s) \in Seq(Messages) /\ Len(Tail(s)) = Len(s) - 1
    OBVIOUS
  <1>3. \A i \in 1 .. Len(Tail(s)) : i + 1 \in 1 .. Len(s) /\ Tail(s)[i] = s[i + 1]
    BY <1>1, <1>2
  <1>4. Of(Tail(s), kind) \subseteq Of(s, kind)
    BY <1>3 DEF Of
  <1>5. Numbers(Tail(s), kind) \subseteq Numbers(s, kind)
    BY <1>3 DEF Numbers
  <1>6. 1 \in 1 .. Len(s)
    BY <1>1
  <1>7. Head(s).kind = kind => /\ Head(s).of \in Of(s, kind)
                               /\ <<Head(s).seq, Head(s).of>> \in Numbers(s, kind)
    BY <1>1, <1>6 DEF Of, Numbers
  <1>8. Once(s, kind) => Once(Tail(s), kind)
    <2> SUFFICES ASSUME Once(s, kind), NEW i \in 1 .. Len(Tail(s)), NEW j \in 1 .. Len(Tail(s)),
                        Tail(s)[i].kind = kind, Tail(s)[j].kind = kind, Tail(s)[i].of = Tail(s)[j].of
                 PROVE  i = j
      BY DEF Once
    <2>1. i + 1 = j + 1
      BY <1>3 DEF Once
    <2> QED BY <1>1, <1>2, <2>1
  <1>9. Once(s, kind) /\ Head(s).kind = kind => Head(s).of \notin Of(Tail(s), kind)
    <2> SUFFICES ASSUME Once(s, kind), Head(s).kind = kind, Head(s).of \in Of(Tail(s), kind)
                 PROVE  FALSE
      OBVIOUS
    <2>1. PICK i \in 1 .. Len(Tail(s)) : Tail(s)[i].kind = kind /\ Tail(s)[i].of = Head(s).of
      BY DEF Of
    <2>2. i + 1 = 1
      BY <1>1, <1>3, <1>6, <2>1 DEF Once
    <2> QED BY <1>1, <1>2, <2>2
  <1>10. ASSUME Head(s).kind # kind
         PROVE  Of(s, kind) \subseteq Of(Tail(s), kind) /\ Numbers(s, kind) \subseteq Numbers(Tail(s), kind)
    <2>1. ASSUME NEW i \in 1 .. Len(s), s[i].kind = kind
          PROVE  i - 1 \in 1 .. Len(Tail(s)) /\ Tail(s)[i - 1] = s[i]
      <3>1. i - 1 \in 1 .. Len(Tail(s))
        BY <1>1, <1>2, <1>10, <2>1
      <3> QED BY <1>3, <3>1
    <2> QED BY <2>1 DEF Of, Numbers
  <1> QED BY <1>1, <1>2, <1>4, <1>5, <1>7, <1>8, <1>9, <1>10

\* Writing one more.
LEMMA AppendMessages ==
  ASSUME NEW s \in Seq(Messages), NEW m \in Messages, NEW kind
  PROVE  /\ Append(s, m) \in Seq(Messages)
         /\ Of(Append(s, m), kind) = Of(s, kind) \cup (IF m.kind = kind THEN {m.of} ELSE {})
         /\ Numbers(Append(s, m), kind)
              = Numbers(s, kind) \cup (IF m.kind = kind THEN {<<m.seq, m.of>>} ELSE {})
         /\ Once(s, kind) /\ (m.kind = kind => m.of \notin Of(s, kind)) => Once(Append(s, m), kind)
  <1> DEFINE t == Append(s, m)
  <1>1. Len(s) \in Nat /\ t \in Seq(Messages) /\ Len(t) = Len(s) + 1
    OBVIOUS
  <1>2. t[Len(s) + 1] = m /\ \A i \in 1 .. Len(s) : t[i] = s[i]
    OBVIOUS
  <1> HIDE DEF t
  <1>3. \A i : i \in 1 .. Len(t) <=> i \in 1 .. Len(s) \/ i = Len(s) + 1
    BY <1>1
  <1>4. Of(t, kind) = Of(s, kind) \cup (IF m.kind = kind THEN {m.of} ELSE {})
    BY <1>2, <1>3 DEF Of
  <1>5. Numbers(t, kind) = Numbers(s, kind) \cup (IF m.kind = kind THEN {<<m.seq, m.of>>} ELSE {})
    BY <1>2, <1>3 DEF Numbers
  <1>6. ASSUME Once(s, kind), m.kind = kind => m.of \notin Of(s, kind)
        PROVE  Once(t, kind)
    <2> SUFFICES ASSUME NEW i \in 1 .. Len(t), NEW j \in 1 .. Len(t),
                        t[i].kind = kind, t[j].kind = kind, t[i].of = t[j].of
                 PROVE  i = j
      BY DEF Once
    <2>1. ASSUME NEW l \in 1 .. Len(s), t[l].kind = kind PROVE t[l].of \in Of(s, kind)
      BY <1>2, <2>1 DEF Of
    <2>2. CASE i \in 1 .. Len(s) /\ j \in 1 .. Len(s)
      BY <1>2, <1>6, <2>2 DEF Once
    <2>3. CASE i = Len(s) + 1 /\ j \in 1 .. Len(s)
      BY <1>2, <1>6, <2>1, <2>3
    <2>4. CASE j = Len(s) + 1 /\ i \in 1 .. Len(s)
      BY <1>2, <1>6, <2>1, <2>4
    <2> QED BY <1>3, <2>2, <2>3, <2>4
  <1> QED BY <1>1, <1>4, <1>5, <1>6 DEF t

\* A new wire carries nothing.
LEMMA NoMessages ==
  ASSUME NEW kind
  PROVE  Of(<<>>, kind) = {} /\ Numbers(<<>>, kind) = {} /\ Once(<<>>, kind)
  BY DEF Of, Numbers, Once

----------------------------------------------------------------------------
(* Types. *)

\* There are finitely many callers and checks.
LEMMA CallersFinite ==
  /\ IsFiniteSet(Callers) /\ IsFiniteSet(Checks) /\ Conns \subseteq Callers /\ None \notin Callers \cup Checks
  /\ Cardinality(Callers) \in Nat /\ Cardinality(Checks) \in Nat /\ MaxConns \in Nat
  <1>1. MaxConns \in Nat /\ IsFiniteSet(Conns)
    BY ConnAssumption, FS_Interval DEF Conns
  <1>2. IsFiniteSet(Callers)
    BY <1>1, CallAssumption, FS_Union DEF Callers
  <1> QED BY <1>1, <1>2, CallAssumption, FS_CardinalityType DEF Callers

\* A message written to a connection.
LEMMA WrittenTypes ==
  ASSUME NEW wire \in [Conns -> Seq(Messages)], NEW k, NEW m \in Messages
  PROVE  Written(wire, k, m) \in [Conns -> Seq(Messages)]
  <1>1. CASE Up(k)
    <2>1. k \in Conns /\ Append(wire[k], m) \in Seq(Messages)
      BY <1>1 DEF Up
    <2> QED BY <1>1, <2>1 DEF Written
  <1> QED BY <1>1 DEF Written

\* A call that moves on.
LEMMA OutcomeTypes ==
  ASSUME NEW r \in Outcomes, NEW at \in {"new", "called", "wait", "ok", "err"}
  PROVE  [r EXCEPT !.at = at] \in Outcomes
  BY DEF Outcomes

\* Dial.
LEMMA DialTypes == ASSUME Types, Dial PROVE Types'
  <1>1. PICK k \in Conns :
          /\ up' = [up EXCEPT ![k] = "up"]
          /\ client' = [client EXCEPT !.codec = k, !.connected = TRUE, !.shutdown = FALSE]
          /\ reading' = [reading EXCEPT ![k] = TRUE]
          /\ peer' = [peer EXCEPT ![k].reading = TRUE]
          /\ gcall' = [gcall EXCEPT ![k].at = "called"]
          /\ UNCHANGED <<toMaster, toGame, check, handlers, runs, list>>
    BY DEF Dial
  <1>2. k \in 0 .. MaxConns /\ k \in Callers
    BY CallersFinite DEF Conns
  <1>3. client' \in Clients
    BY <1>1, <1>2 DEF Types, Clients
  <1>4. peer' \in [Conns -> Peers]
    <2>1. peer \in [Conns -> Peers] /\ peer[k] \in Peers
      BY DEF Types
    <2>2. PICK p : p = [peer[k] EXCEPT !.reading = TRUE]
      OBVIOUS
    <2>3. p \in Peers
      BY <2>1, <2>2 DEF Peers
    <2>4. peer' = [peer EXCEPT ![k] = p]
      BY <1>1, <2>2
    <2> QED BY <2>1, <2>3, <2>4
  <1>5. gcall' \in [Callers -> Outcomes]
    <2>1. gcall \in [Callers -> Outcomes] /\ gcall[k] \in Outcomes
      BY <1>2 DEF Types
    <2>2. [gcall[k] EXCEPT !.at = "called"] \in Outcomes
      BY <2>1, OutcomeTypes
    <2>3. PICK r : r = [gcall[k] EXCEPT !.at = "called"]
      OBVIOUS
    <2>4. gcall' = [gcall EXCEPT ![k] = r]
      BY <1>1, <2>3
    <2>5. r \in Outcomes
      BY <2>2, <2>3
    <2> QED BY <2>1, <2>4, <2>5
  <1> QED BY <1>1, <1>3, <1>4, <1>5 DEF Types, list

\* A connection breaks.
LEMMA BreakTypes == ASSUME Types, NEW k \in Conns, Break(k) PROVE Types'
  <1>1. /\ up' = [up EXCEPT ![k] = "down"]
        /\ toMaster' = [toMaster EXCEPT ![k] = <<>>] /\ toGame' = [toGame EXCEPT ![k] = <<>>]
        /\ UNCHANGED <<game, peer, check, handlers, runs, list>>
    BY DEF Break
  <1>2. <<>> \in Seq(Messages)
    OBVIOUS
  <1> QED BY <1>1, <1>2 DEF Types, game, list

\* A call is made.
LEMMA CallTypes == ASSUME Types, NEW c \in GCalls, Call(c) PROVE Types'
  <1>1. /\ gcall' = [gcall EXCEPT ![c].at = "called"] /\ c \in Callers
        /\ UNCHANGED <<wires, client, reading, peer, check, handlers, runs, list>>
    BY DEF Call, Callers
  <1>2. gcall' \in [Callers -> Outcomes]
    BY <1>1, OutcomeTypes DEF Types
  <1> QED BY <1>1, <1>2 DEF Types, wires, list

\* send takes the next number.
LEMMA SendTypes == ASSUME Types, NEW c \in Callers, Send(c) PROVE Types'
  <1>1. UNCHANGED <<wires, reading, peer, check, handlers, runs, list>>
    BY DEF Send
  <1>2. PICK at \in {"err", "wait"} : gcall' = [gcall EXCEPT ![c].at = at]
    BY DEF Send
  <1>3. gcall' \in [Callers -> Outcomes]
    <2>1. PICK r \in Outcomes : r = [gcall[c] EXCEPT !.at = at]
      BY OutcomeTypes DEF Types
    <2>2. gcall' = [gcall EXCEPT ![c] = r]
      BY <1>2, <2>1
    <2> QED BY <2>2 DEF Types
  <1>4. client' \in Clients
    <2>1. client \in Clients /\ client.seq + 1 \in Nat \ {0}
      BY DEF Types, Clients
    <2>2. CASE client' = client
      BY <2>1, <2>2
    <2>3. CASE client' = [client EXCEPT !.sending = c, !.seq = @ + 1, !.pending[client.seq] = c]
      BY <2>1, <2>3 DEF Clients
    <2> QED BY <2>2, <2>3 DEF Send
  <1> QED BY <1>1, <1>3, <1>4 DEF Types, wires, list

\* The request is written, or the write fails.
LEMMA WriteRequestTypes == ASSUME Types, NEW c \in Callers, WriteRequest(c) PROVE Types'
  <1> DEFINE n == client.seq - 1
             m == [kind |-> "req", seq |-> n, of |-> c, via |-> client.codec]
  <1>1. client \in Clients /\ n \in Nat /\ client.codec \in Nat
    BY CallersFinite DEF Types, Clients
  <1>2. m \in Messages
    BY <1>1 DEF Messages
  <1>3. UNCHANGED <<up, toGame, reading, peer, check, handlers, runs, list>>
    BY DEF WriteRequest
  <1>4. CASE /\ toMaster' = Written(toMaster, client.codec, m)
             /\ client' = [client EXCEPT !.sending = None] /\ UNCHANGED gcall
    <2>1. toMaster' \in [Conns -> Seq(Messages)]
      <3> HIDE DEF m
      <3> QED BY <1>2, <1>4, WrittenTypes DEF Types
    <2>2. client' \in Clients
      BY <1>1, <1>4 DEF Clients
    <2> QED BY <1>3, <1>4, <2>1, <2>2 DEF Types, list
  <1>5. CASE /\ gcall' = [gcall EXCEPT ![c].at = "err"]
             /\ client' = [client EXCEPT !.sending = None, !.pending[n] = None]
             /\ UNCHANGED toMaster
    <2>1. client' \in Clients
      BY <1>1, <1>5 DEF Clients
    <2>2. gcall' \in [Callers -> Outcomes]
      BY <1>5, OutcomeTypes DEF Types
    <2> QED BY <1>3, <1>5, <2>1, <2>2 DEF Types, list
  <1> QED BY <1>4, <1>5 DEF WriteRequest

\* The read loop of the game server takes a message.
LEMMA GameReadsTypes == ASSUME Types, NEW k \in Conns, GameReads(k) PROVE Types'
  <1> DEFINE msg == Head(toGame[k])
             c == client.pending[msg.seq]
             g == [side |-> "game", k |-> k, seq |-> msg.seq, of |-> msg.of]
  <1>1. msg \in Messages /\ Tail(toGame[k]) \in Seq(Messages)
    BY TailMessages DEF Types, GameReads
  <1>2. toGame' \in [Conns -> Seq(Messages)]
    BY <1>1 DEF Types, GameReads
  <1>3. UNCHANGED <<up, toMaster, reading, peer, check, runs, list>>
    BY DEF GameReads
  <1>4. CASE msg.kind = "req"
    <2>1. handlers' = handlers \cup {g} /\ UNCHANGED <<client, gcall>>
      BY <1>4 DEF GameReads
    <2>2. g \in Goroutines
      BY <1>1 DEF Messages, Goroutines
    <2> HIDE DEF g
    <2> QED BY <1>2, <1>3, <2>1, <2>2 DEF Types, list
  <1>5. CASE msg.kind # "req"
    <2>1. /\ client' = [client EXCEPT !.pending[msg.seq] = None]
          /\ gcall' = IF c = None THEN gcall ELSE [gcall EXCEPT ![c] = [at |-> "ok", got |-> msg.of]]
          /\ UNCHANGED handlers
      BY <1>5 DEF GameReads
    <2>2. client' \in Clients
      BY <2>1 DEF Types, Clients
    <2>3. msg.of \in Callers \cup Checks
      BY <1>1 DEF Messages
    <2>4. gcall' \in [Callers -> Outcomes]
      <3> HIDE DEF c, msg
      <3>1. [at |-> "ok", got |-> msg.of] \in Outcomes
        BY <2>3 DEF Outcomes
      <3> QED BY <2>1, <3>1 DEF Types
    <2> HIDE DEF c, msg
    <2> QED BY <1>2, <1>3, <2>1, <2>2, <2>4 DEF Types, list
  <1> QED BY <1>4, <1>5

\* The read loop of the game server ends.
LEMMA GameLoopEndsTypes == ASSUME Types, NEW k \in Conns, GameLoopEnds(k) PROVE Types'
  <1>1. /\ reading' = [reading EXCEPT ![k] = FALSE]
        /\ client' = [client EXCEPT !.shutdown = TRUE, !.connected = FALSE]
        /\ UNCHANGED <<wires, peer, check, handlers, runs, list>>
    BY DEF GameLoopEnds
  <1>2. client' \in Clients
    BY <1>1 DEF Types, Clients
  <1>3. gcall' \in [Callers -> Outcomes]
    BY OutcomeTypes DEF Types, GameLoopEnds
  <1> QED BY <1>1, <1>2, <1>3 DEF Types, wires, list

\* The game server answers a check.
LEMMA GameAnswersTypes == ASSUME Types, NEW h \in handlers, GameAnswers(h) PROVE Types'
  <1> DEFINE m == [kind |-> "resp", seq |-> h.seq, of |-> h.of, via |-> h.k]
  <1>1. m \in Messages
    BY CallersFinite DEF Types, Goroutines, Messages, Conns
  <1>2. toMaster' = Written(toMaster, client.codec, m)
    BY DEF GameAnswers
  <1>3. handlers' \subseteq handlers /\ UNCHANGED <<up, toGame, game, peer, check, runs, list>>
    BY DEF GameAnswers
  <1> HIDE DEF m
  <1>4. toMaster' \in [Conns -> Seq(Messages)]
    BY <1>1, <1>2, WrittenTypes DEF Types
  <1> QED BY <1>3, <1>4 DEF Types, game, list

\* The master answers a call.
LEMMA MasterAnswersTypes == ASSUME Types, NEW h \in handlers, MasterAnswers(h) PROVE Types'
  <1> DEFINE m == [kind |-> "resp", seq |-> h.seq, of |-> h.of, via |-> h.k]
  <1>1. m \in Messages /\ h.k \in Conns
    BY CallersFinite DEF Types, Goroutines, Messages, Conns
  <1>2. toGame' = Written(toGame, h.k, m)
    BY DEF MasterAnswers
  <1>3. handlers' \subseteq handlers /\ UNCHANGED <<up, toMaster, game, peer, check, leaving>>
    BY DEF MasterAnswers
  <1>4. servers' \subseteq Conns
    BY <1>1 DEF MasterAnswers, Types
  <1>5. runs' \in [Callers -> Nat]
    <2>1. runs \in [Callers -> Nat] /\ runs' = [runs EXCEPT ![h.of] = @ + 1]
      BY DEF MasterAnswers, Types
    <2>2. PICK c : c = h.of
      OBVIOUS
    <2>3. CASE c \in Callers
      <3>1. runs[c] + 1 \in Nat
        BY <2>1, <2>3
      <3> QED BY <2>1, <2>2, <2>3, <3>1
    <2>4. CASE c \notin Callers
      BY <2>1, <2>2, <2>4
    <2> QED BY <2>3, <2>4
  <1> HIDE DEF m
  <1>6. toGame' \in [Conns -> Seq(Messages)]
    BY <1>1, <1>2, WrittenTypes DEF Types
  <1> QED BY <1>3, <1>4, <1>5, <1>6 DEF Types, game

\* The read loop of the master takes a message.
LEMMA MasterReadsTypes == ASSUME Types, NEW k \in Conns, MasterReads(k) PROVE Types'
  <1> DEFINE msg == Head(toMaster[k])
             m == peer[k].pending[msg.seq]
             g == [side |-> "master", k |-> k, seq |-> msg.seq, of |-> msg.of]
  <1>1. msg \in Messages /\ Tail(toMaster[k]) \in Seq(Messages)
    BY TailMessages DEF Types, MasterReads
  <1>2. toMaster' \in [Conns -> Seq(Messages)]
    BY <1>1 DEF Types, MasterReads
  <1>3. UNCHANGED <<up, toGame, game, runs, list>>
    BY DEF MasterReads
  <1>4. CASE msg.kind = "req"
    <2>1. handlers' = handlers \cup {g} /\ UNCHANGED <<peer, check>>
      BY <1>4 DEF MasterReads
    <2>2. g \in Goroutines
      BY <1>1 DEF Messages, Goroutines
    <2> HIDE DEF g
    <2> QED BY <1>2, <1>3, <2>1, <2>2 DEF Types, game, list
  <1>5. CASE msg.kind # "req"
    <2>1. /\ peer' = [peer EXCEPT ![k].pending[msg.seq] = None] /\ UNCHANGED handlers
          /\ check' = check \/ Checked(m, msg)
      BY <1>5 DEF MasterReads
    <2>2. peer' \in [Conns -> Peers]
      <3>1. [peer[k] EXCEPT !.pending[msg.seq] = None] \in Peers
        BY DEF Types, Peers
      <3> QED BY <2>1, <3>1 DEF Types
    <2>3. check' \in [Checks -> Asking]
      <3>1. CASE check' = check
        BY <3>1 DEF Types
      <3>2. CASE Checked(m, msg) /\ m \in Checks
        <4>1. msg.of \in Callers \cup Checks /\ msg.via \in Nat
          BY <1>1 DEF Messages
        <4>2. check[m] \in Asking /\ check[m].k \in 0 .. MaxConns
          BY <3>2 DEF Types, Asking
        <4> HIDE DEF m, msg
        <4>3. PICK at \in {"next", "done"} :
                check' = [check EXCEPT ![m].at = at, ![m].got = @ \cup {<<check[m].k, msg.of, msg.via>>}]
          BY <3>2 DEF Checked
        <4>4. <<check[m].k, msg.of, msg.via>> \in (0 .. MaxConns) \X (Callers \cup Checks) \X Nat
          BY <4>1, <4>2
        <4> DEFINE r == [check[m] EXCEPT !.at = at, !.got = @ \cup {<<check[m].k, msg.of, msg.via>>}]
        <4>5. r \in Asking
          BY <4>2, <4>4 DEF Asking
        <4>6. check \in [Checks -> Asking]
          BY DEF Types
        <4>7. check' = [check EXCEPT ![m] = r]
          BY <3>2, <4>2, <4>3, <4>6
        <4> HIDE DEF r
        <4> QED BY <4>5, <4>6, <4>7
      <3>3. CASE Checked(m, msg) /\ m \notin Checks
        <4> HIDE DEF m, msg
        <4> QED BY <3>3 DEF Checked, Types
      <3> QED BY <2>1, <3>1, <3>2, <3>3
    <2> HIDE DEF m, msg
    <2> QED BY <1>2, <1>3, <2>1, <2>2, <2>3 DEF Types, game, list
  <1> QED BY <1>4, <1>5

\* The read loop of the master ends.
LEMMA MasterLoopEndsTypes == ASSUME Types, NEW k \in Conns, MasterLoopEnds(k) PROVE Types'
  <1>1. /\ peer' = [peer EXCEPT ![k].reading = FALSE, ![k].shutdown = TRUE]
        /\ leaving' = leaving \cup {k} /\ UNCHANGED <<wires, game, handlers, runs, servers>>
    BY DEF MasterLoopEnds
  <1>2. peer' \in [Conns -> Peers]
    <2>1. peer \in [Conns -> Peers] /\ peer[k] \in Peers
      BY DEF Types
    <2>2. PICK p : p = [peer[k] EXCEPT !.reading = FALSE, !.shutdown = TRUE]
      OBVIOUS
    <2>3. p \in Peers
      BY <2>1, <2>2 DEF Peers
    <2>4. peer' = [peer EXCEPT ![k] = p]
      BY <1>1, <2>1, <2>2
    <2> QED BY <2>1, <2>3, <2>4
  <1>3. check' \in [Checks -> Asking]
    <2>1. \A m \in Checks : check[m] \in Asking /\ [check[m] EXCEPT !.at = "next"] \in Asking
      BY DEF Types, Asking
    <2> QED BY <2>1 DEF MasterLoopEnds
  <1> QED BY <1>1, <1>2, <1>3 DEF Types, wires, game

\* A server is removed from the list.
LEMMA RemoveServerTypes == ASSUME Types, NEW k \in Conns, RemoveServer(k) PROVE Types'
  BY DEF RemoveServer, Types, wires, game

\* An online check starts, or goes on to the next server.
LEMMA CheckTypes ==
  ASSUME Types, NEW m \in Checks, IsOnline(m) \/ AskNext(m)
  PROVE  Types' /\ UNCHANGED <<wires, game, peer, handlers, runs, list>>
  <1>1. UNCHANGED <<wires, game, peer, handlers, runs, list>>
    BY DEF IsOnline, AskNext
  <1>2. check' \in [Checks -> Asking]
    <2>1. check[m] \in Asking /\ servers \in SUBSET Conns
      BY DEF Types
    <2>2. CASE IsOnline(m)
      <3>1. check' = [check EXCEPT ![m] = [check[m] EXCEPT !.at = "next", !.todo = servers]]
        BY <2>2 DEF IsOnline, Types
      <3>2. [check[m] EXCEPT !.at = "next", !.todo = servers] \in Asking
        BY <2>1 DEF Asking
      <3> QED BY <3>1, <3>2 DEF Types
    <2>3. CASE AskNext(m) /\ check' = [check EXCEPT ![m].at = "done"]
      <3>1. [check[m] EXCEPT !.at = "done"] \in Asking
        BY <2>1 DEF Asking
      <3> QED BY <2>3, <3>1 DEF Types
    <2>4. ASSUME NEW k \in check[m].todo,
                 check' = [check EXCEPT ![m].at = "send", ![m].k = k, ![m].todo = @ \ {k}]
          PROVE  check' \in [Checks -> Asking]
      <3>1. k \in 0 .. MaxConns
        BY <2>1, CallersFinite DEF Asking, Conns
      <3> DEFINE r == [check[m] EXCEPT !.at = "send", !.k = k, !.todo = @ \ {k}]
      <3>2. r \in Asking
        BY <2>1, <3>1 DEF Asking
      <3>3. check \in [Checks -> Asking] /\ check' = [check EXCEPT ![m] = r]
        BY <2>4 DEF Types
      <3> HIDE DEF r
      <3> QED BY <3>2, <3>3
    <2> QED BY <2>2, <2>3, <2>4 DEF AskNext
  <1> QED BY <1>1, <1>2 DEF Types, wires, game, list

\* A check takes a number of the master's client.
LEMMA AskTypes ==
  ASSUME Types, NEW m \in Checks, Ask(m)
  PROVE  Types' /\ UNCHANGED <<wires, game, handlers, runs, list>>
  <1> DEFINE k == check[m].k
  <1>1. UNCHANGED <<wires, game, handlers, runs, list>>
    BY DEF Ask
  <1>2. PICK at \in {"next", "wait"} : check' = [check EXCEPT ![m].at = at]
    BY DEF Ask
  <1>3. check' \in [Checks -> Asking]
    <2>1. [check[m] EXCEPT !.at = at] \in Asking
      BY DEF Types, Asking
    <2> QED BY <1>2, <2>1 DEF Types
  <1>4. peer' \in [Conns -> Peers]
    <2>1. peer \in [Conns -> Peers]
      BY DEF Types
    <2>2. CASE peer' = peer
      BY <2>1, <2>2
    <2>3. CASE peer' # peer
      <3>1. peer' = [peer EXCEPT ![k].sending = m, ![k].seq = @ + 1, ![k].pending[peer[k].seq] = m]
        BY <2>3 DEF Ask
      <3>2. CASE k \in Conns
        <4> DEFINE p == [peer[k] EXCEPT !.sending = m, !.seq = @ + 1, !.pending[peer[k].seq] = m]
        <4>1. peer[k] \in Peers /\ peer[k].seq + 1 \in Nat \ {0}
          BY <2>1, <3>2 DEF Peers
        <4>2. p \in Peers
          BY <4>1 DEF Peers
        <4>3. peer' = [peer EXCEPT ![k] = p]
          BY <2>1, <3>1, <3>2 DEF Peers
        <4> HIDE DEF p, k
        <4> QED BY <2>1, <4>2, <4>3
      <3>3. CASE k \notin Conns
        <4> HIDE DEF k
        <4> QED BY <2>1, <3>1, <3>3
      <3> QED BY <3>2, <3>3
    <2> QED BY <2>2, <2>3
  <1> QED BY <1>1, <1>3, <1>4 DEF Types, wires, game, list

\* A check writes its request.
LEMMA AskWritesTypes ==
  ASSUME Types, NEW m \in Checks, AskWrites(m)
  PROVE  Types' /\ UNCHANGED <<up, toMaster, game, handlers, runs, list>>
  <1> DEFINE k == check[m].k
             n == peer[k].seq - 1
             msg == [kind |-> "req", seq |-> n, of |-> m, via |-> k]
  <1>1. UNCHANGED <<up, toMaster, game, handlers, runs, list>> /\ k \in Conns
    BY DEF AskWrites
  <1>2. n \in Nat /\ peer[k] \in Peers
    BY <1>1 DEF Types, Peers
  <1>3. msg \in Messages
    BY <1>1, <1>2, CallersFinite DEF Messages, Conns
  <1>4. CASE /\ toGame' = Written(toGame, k, msg)
             /\ peer' = [peer EXCEPT ![k].sending = None] /\ UNCHANGED check
    <2>1. toGame' \in [Conns -> Seq(Messages)]
      <3> HIDE DEF msg
      <3> QED BY <1>3, <1>4, WrittenTypes DEF Types
    <2>2. [peer[k] EXCEPT !.sending = None] \in Peers
      BY <1>2 DEF Peers
    <2>3. peer' \in [Conns -> Peers]
      BY <1>1, <1>4, <2>2 DEF Types
    <2> QED BY <1>1, <1>4, <2>1, <2>3 DEF Types, game, list
  <1>5. CASE /\ check' = [check EXCEPT ![m].at = "next"]
             /\ peer' = [peer EXCEPT ![k].sending = None, ![k].pending[n] = None]
             /\ UNCHANGED toGame
    <2>1. [check[m] EXCEPT !.at = "next"] \in Asking
      BY DEF Types, Asking
    <2>2. [peer[k] EXCEPT !.sending = None, !.pending[n] = None] \in Peers
      BY <1>2 DEF Peers
    <2>3. peer' = [peer EXCEPT ![k] = [peer[k] EXCEPT !.sending = None, !.pending[n] = None]]
      BY <1>1, <1>5 DEF Types, Peers
    <2>4. peer' \in [Conns -> Peers]
      BY <1>1, <2>2, <2>3 DEF Types
    <2>5. check' \in [Checks -> Asking]
      BY <1>5, <2>1 DEF Types
    <2> QED BY <1>1, <1>5, <2>4, <2>5 DEF Types, game, list
  <1> QED BY <1>4, <1>5 DEF AskWrites


----------------------------------------------------------------------------
(* What the steps do to the wires. *)

Wire(w) == w \in [Conns -> Seq(Messages)]
Writes(w, k, m, w2) == w2 = Written(w, k, m)
Reads(w, k, w2) == w[k] # <<>> /\ w2 = [w EXCEPT ![k] = Tail(@)]

\* On connection j the messages of one kind are the same, or some of them, or
\* there may be m too.
Same(w, w2, kind, j) ==
    /\ Of(w2[j], kind) = Of(w[j], kind) /\ Numbers(w2[j], kind) = Numbers(w[j], kind)
    /\ Once(w[j], kind) => Once(w2[j], kind)
Less(w, w2, kind, j) ==
    /\ Of(w2[j], kind) \subseteq Of(w[j], kind) /\ Numbers(w2[j], kind) \subseteq Numbers(w[j], kind)
    /\ Once(w[j], kind) => Once(w2[j], kind)
Plus(w, w2, kind, j, m) ==
    /\ Of(w2[j], kind) \subseteq Of(w[j], kind) \cup {m.of}
    /\ Numbers(w2[j], kind) \subseteq Numbers(w[j], kind) \cup {<<m.seq, m.of>>}
    /\ Once(w[j], kind) /\ m.of \notin Of(w[j], kind) => Once(w2[j], kind)

\* A message written to connection k is one more on it if it is up.
LEMMA WrittenMessages ==
  ASSUME NEW w, Wire(w), NEW k, NEW m \in Messages, NEW w2, Writes(w, k, m, w2), NEW kind, NEW j \in Conns
  PROVE  /\ m.kind # kind => Same(w, w2, kind, j)
         /\ j # k => Same(w, w2, kind, j)
         /\ Plus(w, w2, kind, j, m)
         /\ ~Up(j) => w2[j] = w[j]
  <1>1. CASE Up(k) /\ j = k
    <2>1. PICK s \in Seq(Messages) : s = w[j] /\ w2[j] = Append(s, m)
      BY <1>1 DEF Written, Wire, Writes
    <2>2. /\ Of(Append(s, m), kind) = Of(s, kind) \cup (IF m.kind = kind THEN {m.of} ELSE {})
          /\ Numbers(Append(s, m), kind)
               = Numbers(s, kind) \cup (IF m.kind = kind THEN {<<m.seq, m.of>>} ELSE {})
          /\ Once(s, kind) /\ (m.kind = kind => m.of \notin Of(s, kind)) => Once(Append(s, m), kind)
      BY AppendMessages
    <2> QED BY <1>1, <2>1, <2>2 DEF Same, Plus
  <1>2. CASE ~(Up(k) /\ j = k)
    <2>1. w2[j] = w[j]
      BY <1>2 DEF Written, Wire, Writes
    <2> QED BY <1>2, <2>1 DEF Same, Plus
  <1> QED BY <1>1, <1>2

\* The first message of connection k is read.
LEMMA ReadMessages ==
  ASSUME NEW w, Wire(w), NEW k \in Conns, NEW w2, Reads(w, k, w2), NEW kind, NEW j \in Conns
  PROVE  /\ Less(w, w2, kind, j)
         /\ Head(w[k]).kind # kind => Same(w, w2, kind, j)
         /\ w[j] = <<>> => w2[j] = <<>>
  <1>1. CASE j = k
    <2>1. PICK s \in Seq(Messages) : s = w[k] /\ s # <<>> /\ w2[j] = Tail(s)
      BY <1>1 DEF Wire, Reads
    <2>2. /\ Of(Tail(s), kind) \subseteq Of(s, kind) /\ Numbers(Tail(s), kind) \subseteq Numbers(s, kind)
          /\ Once(s, kind) => Once(Tail(s), kind)
          /\ Head(s).kind # kind => /\ Of(Tail(s), kind) = Of(s, kind)
                                    /\ Numbers(Tail(s), kind) = Numbers(s, kind)
      BY <2>1, TailMessages
    <2> QED BY <1>1, <2>1, <2>2 DEF Less, Same
  <1>2. CASE j # k
    <2>1. w2[j] = w[j]
      BY <1>2 DEF Wire, Reads
    <2> QED BY <2>1 DEF Less, Same
  <1> QED BY <1>1, <1>2

\* That message was there, and its call has no other.
LEMMA HeadMessage ==
  ASSUME NEW w, Wire(w), NEW k \in Conns, NEW w2, Reads(w, k, w2), NEW kind, Head(w[k]).kind = kind
  PROVE  /\ Head(w[k]) \in Messages /\ Head(w[k]).of \in Of(w[k], kind)
         /\ <<Head(w[k]).seq, Head(w[k]).of>> \in Numbers(w[k], kind)
         /\ Once(w[k], kind) => Head(w[k]).of \notin Of(w2[k], kind)
  <1>1. w2[k] = Tail(w[k]) /\ w[k] \in Seq(Messages) /\ w[k] # <<>>
    BY DEF Wire, Reads
  <1> QED BY <1>1, TailMessages

----------------------------------------------------------------------------
(* Steps that no call of the game server sees. *)

Rest == OneLink /\ (\A c \in Callers : Stage(c)) /\ NoDuplicates /\ Numbering /\ Lists

\* The calls, their requests, their answers and who serves them stay.
Quiet ==
    /\ UNCHANGED <<up, client, reading, gcall, runs>>
    /\ \A k \in Conns :
         /\ Of(toMaster'[k], "req") = Of(toMaster[k], "req") /\ Of(toGame'[k], "resp") = Of(toGame[k], "resp")
         /\ Numbers(toMaster'[k], "req") = Numbers(toMaster[k], "req")
         /\ Numbers(toGame'[k], "resp") = Numbers(toGame[k], "resp")
         /\ Once(toMaster[k], "req") => Once(toMaster'[k], "req")
         /\ Once(toGame[k], "resp") => Once(toGame'[k], "resp")
         /\ up[k] # "up" => toMaster'[k] = toMaster[k] /\ toGame'[k] = toGame[k]
         /\ up[k] = "up" /\ k \in servers => k \in servers'
    /\ \A h : h.side = "master" => (h \in handlers' <=> h \in handlers)
    /\ \A h \in handlers' : up[h.k] # "none"
    /\ \A k \in leaving' : up[k] = "down"

\* A step that leaves alone what the invariant looks at.
LEMMA QuietKeeps == ASSUME Types, Rest, Quiet PROVE Rest'
  <1>1. /\ OneLink /\ (\A c \in Callers : Stage(c)) /\ NoDuplicates /\ Numbering /\ Lists
        /\ UNCHANGED <<up, client, reading, gcall, runs>>
    BY DEF Rest, Quiet
  <1>2. OneLink'
    <2>1. \A k \in Conns : up[k] # "up" => toMaster'[k] = toMaster[k] /\ toGame'[k] = toGame[k]
      BY DEF Quiet
    <2>2. (\A h \in handlers' : up[h.k] # "none") /\ (\A k \in leaving' : up[k] = "down")
      BY DEF Quiet
    <2> QED BY <1>1, <2>1, <2>2 DEF OneLink
  <1>3. ASSUME NEW c \in Callers PROVE (Asked(c)' <=> Asked(c)) /\ (Served(c)' <=> Served(c)) /\ (Answered(c)' <=> Answered(c))
    BY DEF Quiet, Asked, Served, Answered
  <1>4. ASSUME NEW c \in Callers PROVE Stage(c)'
    BY <1>1, <1>3 DEF Stage
  <1>5. NoDuplicates'
    BY <1>1 DEF NoDuplicates, Quiet
  <1>6. ASSUME NEW n, NEW c PROVE Numbered(n, c)' <=> Numbered(n, c)
    BY <1>1 DEF Numbered, Quiet
  <1>7. Numbering'
    BY <1>1, <1>6 DEF Numbering, Started
  <1>8. Lists'
    BY <1>1 DEF Lists, Quiet
  <1> QED BY <1>2, <1>4, <1>5, <1>7, <1>8 DEF Rest


\* A request of the master is read by the game server.
LEMMA GameReadsRequestQuiet ==
  ASSUME Types, Rest, NEW k \in Conns, GameReads(k), Head(toGame[k]).kind = "req"
  PROVE  Quiet
  <1>1. /\ toGame[k] # <<>> /\ toGame' = [toGame EXCEPT ![k] = Tail(@)]
        /\ handlers' = handlers \cup {[side |-> "game", k |-> k, seq |-> Head(toGame[k]).seq, of |-> Head(toGame[k]).of]}
        /\ UNCHANGED <<client, gcall>> /\ UNCHANGED <<up, toMaster, reading, peer, check, runs, list>>
    BY DEF GameReads
  <1>2. Wire(toGame) /\ Reads(toGame, k, toGame') /\ OneLink
    BY <1>1 DEF Types, Rest, Wire, Reads
  <1>3. ASSUME NEW j \in Conns
        PROVE  /\ Of(toGame'[j], "resp") = Of(toGame[j], "resp") /\ Numbers(toGame'[j], "resp") = Numbers(toGame[j], "resp")
               /\ Once(toGame[j], "resp") => Once(toGame'[j], "resp")
               /\ toGame[j] = <<>> => toGame'[j] = <<>>
    <2>1. Same(toGame, toGame', "resp", j) /\ (toGame[j] = <<>> => toGame'[j] = <<>>)
      BY <1>2, ReadMessages
    <2> QED BY <2>1 DEF Same
  <1>4. up[k] = "up"
    BY <1>1, <1>2 DEF OneLink
  <1>5. \A h \in handlers' : up[h.k] # "none"
    BY <1>1, <1>2, <1>4 DEF OneLink
  <1>6. \A h : h.side = "master" => (h \in handlers' <=> h \in handlers)
    BY <1>1
  <1> QED BY <1>1, <1>2, <1>3, <1>5, <1>6 DEF Quiet, OneLink, list

\* An answer to the master is read by it.
LEMMA MasterReadsResponseQuiet ==
  ASSUME Types, Rest, NEW k \in Conns, MasterReads(k), Head(toMaster[k]).kind # "req"
  PROVE  Quiet
  <1>1. /\ toMaster[k] # <<>> /\ toMaster' = [toMaster EXCEPT ![k] = Tail(@)]
        /\ UNCHANGED handlers /\ UNCHANGED <<up, toGame, game, runs, list>>
    BY DEF MasterReads
  <1>2. Wire(toMaster) /\ Reads(toMaster, k, toMaster') /\ OneLink
    BY <1>1 DEF Types, Rest, Wire, Reads
  <1>3. ASSUME NEW j \in Conns
        PROVE  /\ Of(toMaster'[j], "req") = Of(toMaster[j], "req") /\ Numbers(toMaster'[j], "req") = Numbers(toMaster[j], "req")
               /\ Once(toMaster[j], "req") => Once(toMaster'[j], "req")
               /\ toMaster[j] = <<>> => toMaster'[j] = <<>>
    <2>1. Same(toMaster, toMaster', "req", j) /\ (toMaster[j] = <<>> => toMaster'[j] = <<>>)
      BY <1>2, ReadMessages
    <2> QED BY <2>1 DEF Same
  <1> QED BY <1>1, <1>2, <1>3 DEF Quiet, OneLink, list, game

\* A goroutine of the game server answers the master.
LEMMA GameAnswersQuiet == ASSUME Types, Rest, NEW h \in handlers, GameAnswers(h) PROVE Quiet
  <1> DEFINE m == [kind |-> "resp", seq |-> h.seq, of |-> h.of, via |-> h.k]
  <1>1. /\ h.side = "game" /\ handlers' = handlers \ {h} /\ toMaster' = Written(toMaster, client.codec, m)
        /\ UNCHANGED <<up, toGame, game, peer, check, runs, list>>
    BY DEF GameAnswers
  <1>2. Wire(toMaster) /\ Writes(toMaster, client.codec, m, toMaster') /\ OneLink
    BY <1>1 DEF Types, Rest, Wire, Writes
  <1>3. m \in Messages /\ m.kind # "req"
    BY CallersFinite DEF Types, Goroutines, Messages, Conns
  <1> HIDE DEF m
  <1>4. ASSUME NEW j \in Conns
        PROVE  /\ Of(toMaster'[j], "req") = Of(toMaster[j], "req") /\ Numbers(toMaster'[j], "req") = Numbers(toMaster[j], "req")
               /\ Once(toMaster[j], "req") => Once(toMaster'[j], "req")
               /\ up[j] # "up" => toMaster'[j] = toMaster[j]
    <2>1. Same(toMaster, toMaster', "req", j) /\ (~Up(j) => toMaster'[j] = toMaster[j])
      BY <1>2, <1>3, WrittenMessages
    <2> QED BY <2>1 DEF Same, Up
  <1> QED BY <1>1, <1>2, <1>4 DEF Quiet, OneLink, list, game

\* A check writes its request.
LEMMA AskWritesQuiet == ASSUME Types, Rest, NEW c \in Checks, AskWrites(c) PROVE Quiet
  <1> DEFINE k == check[c].k
             m == [kind |-> "req", seq |-> peer[k].seq - 1, of |-> c, via |-> k]
  <1>1. UNCHANGED <<up, toMaster, game, handlers, runs, list>> /\ k \in Conns
    BY DEF AskWrites
  <1>2. toGame' = toGame \/ toGame' = Written(toGame, k, m)
    BY DEF AskWrites
  <1>3. Wire(toGame) /\ OneLink
    BY DEF Types, Rest, Wire
  <1>4. m \in Messages /\ m.kind # "resp"
    <2>1. peer[k] \in Peers
      BY <1>1 DEF Types
    <2>2. peer[k].seq - 1 \in Nat /\ k \in Nat
      BY <1>1, <2>1 DEF Peers, Conns
    <2>3. PICK n \in Nat, i \in Nat : n = peer[k].seq - 1 /\ i = k
      BY <2>2
    <2>4. [kind |-> "req", seq |-> n, of |-> c, via |-> i] \in Messages
      BY DEF Messages
    <2> QED BY <2>3, <2>4
  <1> HIDE DEF m, k
  <1>5. ASSUME NEW j \in Conns
        PROVE  /\ Of(toGame'[j], "resp") = Of(toGame[j], "resp") /\ Numbers(toGame'[j], "resp") = Numbers(toGame[j], "resp")
               /\ Once(toGame[j], "resp") => Once(toGame'[j], "resp")
               /\ up[j] # "up" => toGame'[j] = toGame[j]
    <2>1. CASE toGame' = toGame
      BY <2>1
    <2>2. CASE toGame' = Written(toGame, k, m)
      <3>1. Writes(toGame, k, m, toGame')
        BY <2>2 DEF Writes
      <3>2. Same(toGame, toGame', "resp", j) /\ (~Up(j) => toGame'[j] = toGame[j])
        BY <1>3, <1>4, <3>1, WrittenMessages
      <3> QED BY <3>2 DEF Same, Up
    <2> QED BY <1>2, <2>1, <2>2
  <1> QED BY <1>1, <1>3, <1>5 DEF Quiet, OneLink, list, game

\* The master notes the end of a connection, or removes its server.
LEMMA MasterLoopEndsQuiet == ASSUME Types, Rest, NEW k \in Conns, MasterLoopEnds(k) PROVE Quiet
  <1>1. /\ OneLink /\ up[k] = "down" /\ leaving' = leaving \cup {k}
        /\ UNCHANGED <<wires, game, handlers, runs, servers>>
    BY DEF MasterLoopEnds, Rest
  <1> QED BY <1>1 DEF Quiet, OneLink, wires, game

\* Only a server whose connection is gone is removed.
LEMMA RemoveServerQuiet == ASSUME Types, Rest, NEW k \in Conns, RemoveServer(k) PROVE Quiet
  <1>1. /\ OneLink /\ k \in leaving /\ leaving' = leaving \ {k} /\ servers' = servers \ {k}
        /\ UNCHANGED <<wires, game, peer, check, handlers, runs>>
    BY DEF RemoveServer, Rest
  <1> QED BY <1>1 DEF Quiet, OneLink, wires, game

\* The other steps of the checks.
LEMMA ChecksQuiet == ASSUME Types, Rest, UNCHANGED <<wires, game, handlers, runs, list>> PROVE Quiet
  BY DEF Quiet, Rest, OneLink, wires, game, list


----------------------------------------------------------------------------
(* Steps of the calls. *)

\* Only the connection of the Client carries messages.
LEMMA OneWire ==
  ASSUME Types, OneLink, NEW k \in Conns, toMaster[k] # <<>> \/ toGame[k] # <<>>
  PROVE  k = client.codec /\ up[k] = "up" /\ client.connected
  BY DEF OneLink

\* A call that a step does not touch.
LEMMA StageKeeps ==
  ASSUME NEW c \in Callers, Stage(c), Asked(c)' => Asked(c), Served(c)' => Served(c),
         Answered(c)' => Answered(c), client'.sending = c => client.sending = c,
         gcall'[c] = gcall[c], runs'[c] = runs[c]
  PROVE  Stage(c)'
  BY DEF Stage

\* A step that gives no number.
LEMMA NumberingKeeps ==
  ASSUME Numbering, Types', client'.seq = client.seq, Started \subseteq Started',
         \A n \in Nat : \A c \in Callers : Numbered(n, c)' => Numbered(n, c)
  PROVE  Numbering'
  <1>1. IsFiniteSet(Started) /\ IsFiniteSet(Started')
    BY CallersFinite, FS_Subset DEF Started
  <1>2. Cardinality(Started) <= Cardinality(Started') /\ Cardinality(Started) \in Nat /\ Cardinality(Started') \in Nat
    BY <1>1, FS_Subset, FS_CardinalityType
  <1>3. client'.seq \in Nat
    BY DEF Types, Clients
  <1>4. client'.seq - 1 <= Cardinality(Started')
    BY <1>2, <1>3 DEF Numbering
  <1> QED BY <1>4 DEF Numbering

\* A connection breaks.
LEMMA BreakKeeps == ASSUME Types, Rest, NEW k \in Conns, Break(k), Types' PROVE Rest'
  <1>1. /\ OneLink /\ (\A c \in Callers : Stage(c)) /\ NoDuplicates /\ Numbering /\ Lists
        /\ up[k] = "up" /\ up' = [up EXCEPT ![k] = "down"]
        /\ toMaster' = [toMaster EXCEPT ![k] = <<>>] /\ toGame' = [toGame EXCEPT ![k] = <<>>]
        /\ UNCHANGED <<client, reading, gcall>> /\ UNCHANGED <<handlers, runs>> /\ UNCHANGED <<servers, leaving>>
    BY DEF Rest, Break, game, list
  <1>2. ASSUME NEW j \in Conns
        PROVE  /\ Less(toMaster, toMaster', "req", j) /\ Less(toGame, toGame', "resp", j)
               /\ up'[j] = "up" => up[j] = "up"
               /\ up'[j] = "none" <=> up[j] = "none"
               /\ j # k => up'[j] = up[j] /\ toMaster'[j] = toMaster[j] /\ toGame'[j] = toGame[j]
    <2>1. CASE j = k
      BY <1>1, <2>1, NoMessages DEF Types, Less
    <2>2. CASE j # k
      BY <1>1, <2>2 DEF Types, Less
    <2> QED BY <2>1, <2>2
  <1>3. OneLink'
    <2>1. toMaster'[k] = <<>> /\ toGame'[k] = <<>> /\ up'[k] = "down"
      BY <1>1 DEF Types
    <2> QED BY <1>1, <1>2, <2>1 DEF OneLink, Types
  <1>4. ASSUME NEW c \in Callers PROVE Stage(c)'
    <2>1. (Asked(c)' => Asked(c)) /\ (Served(c)' => Served(c)) /\ (Answered(c)' => Answered(c))
      BY <1>1, <1>2 DEF Asked, Served, Answered, Less
    <2> QED BY <1>1, <2>1, StageKeeps
  <1>5. NoDuplicates'
    BY <1>1, <1>2 DEF NoDuplicates, Less, Types, Goroutines
  <1>6. Numbering'
    <2>1. ASSUME NEW n \in Nat, NEW c \in Callers PROVE Numbered(n, c)' => Numbered(n, c)
      BY <1>1, <1>2 DEF Numbered, Less
    <2> QED BY <1>1, <2>1, NumberingKeeps DEF Started
  <1>7. Lists'
    BY <1>1, <1>2 DEF Lists, Less
  <1> QED BY <1>3, <1>4, <1>5, <1>6, <1>7 DEF Rest


\* A new connection, with nothing on its wires and a registration to come.
LEMMA DialKeeps == ASSUME Types, Rest, Dial, Types' PROVE Rest'
  <1>1. /\ OneLink /\ (\A c \in Callers : Stage(c)) /\ NoDuplicates /\ Numbering /\ Lists /\ ~client.connected
    BY DEF Rest, Dial
  <1>2. PICK k \in Conns :
          /\ up[k] = "none" /\ (\A j \in 1 .. (k - 1) : up[j] # "none") /\ up' = [up EXCEPT ![k] = "up"]
          /\ client' = [client EXCEPT !.codec = k, !.connected = TRUE, !.shutdown = FALSE]
          /\ reading' = [reading EXCEPT ![k] = TRUE] /\ gcall' = [gcall EXCEPT ![k].at = "called"]
          /\ UNCHANGED <<toMaster, toGame>> /\ UNCHANGED <<handlers, runs>> /\ UNCHANGED <<servers, leaving>>
    BY DEF Dial, list
  <1>3. /\ client'.codec = k /\ client'.connected /\ client'.sending = client.sending
        /\ client'.seq = client.seq /\ client'.pending = client.pending
    BY <1>2 DEF Types, Clients
  <1>4. k \in Callers /\ gcall[k].at = "new" /\ gcall'[k].at = "called" /\ \A c \in Callers \ {k} : gcall'[c] = gcall[c]
    BY <1>1, <1>2, CallersFinite DEF OneLink, Types, Outcomes
  <1>5. up'[k] = "up" /\ \A j \in Conns \ {k} : up'[j] = up[j] /\ up[j] # "up" /\ reading'[j] = reading[j] /\ ~reading[j]
    BY <1>1, <1>2 DEF OneLink, Types
  <1>6. OneLink'
    <2>1. client.codec \in Nat /\ \A j \in Conns : j \in Nat
      BY CallersFinite DEF Types, Clients, Conns
    <2>2. \A j \in Conns : up'[j] = "none" <=> j > k
      <3>1. \A j \in Conns : up[j] = "none" <=> j > client.codec
        BY <1>1 DEF OneLink
      <3>2. \A j \in Conns : j < k => j \in 1 .. (k - 1)
        BY CallersFinite DEF Conns
      <3>3. \A j \in Conns : j > k => up[j] = "none"
        BY <1>2, <2>1, <3>1
      <3> QED BY <1>2, <1>5, <2>1, <3>2, <3>3
    <2>3. \A j \in Conns : up'[j] = "none" => gcall'[j].at = "new"
      BY <1>1, <1>4, <1>5, CallersFinite DEF OneLink
    <2>4. (\A h \in handlers : h.k # k) /\ k \notin leaving
      BY <1>1, <1>2 DEF OneLink
    <2>5. (\A h \in handlers : h.k \in Conns) /\ leaving \subseteq Conns
      BY DEF Types, Goroutines
    <2>6. \A j \in Conns : toMaster[j] = <<>> /\ toGame[j] = <<>>
      BY <1>1, <1>2, <1>5 DEF OneLink
    <2>7. (\A h \in handlers' : up'[h.k] # "none") /\ (\A j \in leaving' : up'[j] = "down")
      BY <1>1, <1>2, <1>5, <2>4, <2>5 DEF OneLink
    <2> QED BY <1>2, <1>3, <1>5, <2>2, <2>3, <2>6, <2>7 DEF OneLink
  <1>7. ASSUME NEW c \in Callers
        PROVE  /\ (Asked(c)' <=> Asked(c)) /\ (Served(c)' <=> Served(c)) /\ (Answered(c)' <=> Answered(c))
               /\ runs'[c] = runs[c]
    BY <1>2 DEF Asked, Served, Answered
  <1>8. ASSUME NEW c \in Callers PROVE Stage(c)'
    <2>1. CASE c = k
      BY <1>1, <1>3, <1>4, <1>7, <2>1 DEF Stage
    <2>2. CASE c # k
      BY <1>1, <1>3, <1>4, <1>7, <2>2, StageKeeps
    <2> QED BY <2>1, <2>2
  <1>9. NoDuplicates'
    <2>1. \A h \in handlers : h.k # k /\ h.k \in Conns
      BY <1>1, <1>2 DEF OneLink, Types, Goroutines
    <2> QED BY <1>1, <1>2, <1>5, <2>1 DEF NoDuplicates
  <1>10. Numbering'
    <2>1. ASSUME NEW n \in Nat, NEW c \in Callers PROVE Numbered(n, c)' => Numbered(n, c)
      BY <1>2, <1>3 DEF Numbered
    <2>2. Started \subseteq Started'
      BY <1>4 DEF Started
    <2> QED BY <1>1, <1>3, <2>1, <2>2, NumberingKeeps
  <1>11. Lists'
    <2>1. runs'[k] = 0
      BY <1>1, <1>2, <1>4 DEF Stage
    <2> QED BY <1>1, <1>2, <1>3, <1>5, <2>1 DEF Lists
  <1> QED BY <1>6, <1>8, <1>9, <1>10, <1>11 DEF Rest

\* A call is made and has no number yet.
LEMMA CallKeeps == ASSUME Types, Rest, NEW c \in GCalls, Call(c), Types' PROVE Rest'
  <1>1. /\ OneLink /\ (\A d \in Callers : Stage(d)) /\ NoDuplicates /\ Numbering /\ Lists
        /\ gcall[c].at = "new" /\ gcall' = [gcall EXCEPT ![c].at = "called"] /\ c \in Callers /\ c \notin Conns
        /\ UNCHANGED <<up, toMaster, toGame>> /\ UNCHANGED <<client, reading>>
        /\ UNCHANGED <<handlers, runs>> /\ UNCHANGED <<servers, leaving>>
    BY CallAssumption DEF Rest, Call, wires, list, Callers
  <1>2. gcall'[c].at = "called" /\ \A d \in Callers \ {c} : gcall'[d] = gcall[d]
    BY <1>1 DEF Types, Outcomes
  <1>3. OneLink'
    BY <1>1, <1>2, CallersFinite DEF OneLink
  <1>4. ASSUME NEW d \in Callers
        PROVE  (Asked(d)' <=> Asked(d)) /\ (Served(d)' <=> Served(d)) /\ (Answered(d)' <=> Answered(d))
    BY <1>1 DEF Asked, Served, Answered
  <1>5. ASSUME NEW d \in Callers PROVE Stage(d)'
    BY <1>1, <1>2, <1>4 DEF Stage
  <1>6. NoDuplicates'
    BY <1>1, <1>2 DEF NoDuplicates
  <1>7. Numbering'
    <2>1. ASSUME NEW n \in Nat, NEW d \in Callers PROVE Numbered(n, d)' => Numbered(n, d)
      BY <1>1 DEF Numbered
    <2>2. Started \subseteq Started'
      BY <1>1, <1>2 DEF Started
    <2> QED BY <1>1, <2>1, <2>2, NumberingKeeps
  <1>8. Lists'
    BY <1>1 DEF Lists
  <1> QED BY <1>3, <1>5, <1>6, <1>7, <1>8 DEF Rest

\* A new number is larger than all that are on their way.
LEMMA SendKeeps == ASSUME Types, Rest, NEW c \in Callers, Send(c), Types' PROVE Rest'
  <1>1. /\ OneLink /\ (\A d \in Callers : Stage(d)) /\ NoDuplicates /\ Numbering /\ Lists
        /\ gcall[c].at = "called" /\ client.sending = None /\ c # None
        /\ UNCHANGED <<up, toMaster, toGame>> /\ UNCHANGED reading
        /\ UNCHANGED <<handlers, runs>> /\ UNCHANGED <<servers, leaving>>
    BY CallersFinite DEF Rest, Send, wires, list
  <1>2. ASSUME NEW d \in Callers
        PROVE  (Asked(d)' <=> Asked(d)) /\ (Served(d)' <=> Served(d)) /\ (Answered(d)' <=> Answered(d))
    BY <1>1 DEF Asked, Served, Answered
  <1>3. ~Asked(c) /\ ~Served(c) /\ ~Answered(c) /\ runs[c] = 0
    BY <1>1 DEF Stage
  <1>4. ASSUME NEW at \in {"err", "wait"}, gcall' = [gcall EXCEPT ![c].at = at]
        PROVE  gcall'[c].at = at /\ \A d \in Callers \ {c} : gcall'[d] = gcall[d]
    BY <1>4 DEF Types, Outcomes
  <1>5. \A k \in Conns : up[k] = "none" => k # c
    BY <1>1 DEF OneLink
  <1>6. CASE gcall' = [gcall EXCEPT ![c].at = "err"] /\ UNCHANGED client
    <2>1. gcall'[c].at = "err" /\ \A d \in Callers \ {c} : gcall'[d] = gcall[d]
      BY <1>4, <1>6
    <2>2. OneLink'
      BY <1>1, <1>5, <1>6, <2>1, CallersFinite DEF OneLink
    <2>3. ASSUME NEW d \in Callers PROVE Stage(d)'
      <3>1. CASE d = c
        BY <1>1, <1>2, <1>3, <1>6, <2>1, <3>1 DEF Stage
      <3>2. CASE d # c
        BY <1>1, <1>2, <1>6, <2>1, <3>2, StageKeeps
      <3> QED BY <3>1, <3>2
    <2>4. NoDuplicates'
      BY <1>1, <1>6, <2>1 DEF NoDuplicates
    <2>5. Numbering'
      <3>1. ASSUME NEW n \in Nat, NEW d \in Callers PROVE Numbered(n, d)' => Numbered(n, d)
        BY <1>1, <1>6 DEF Numbered
      <3>2. Started \subseteq Started'
        BY <1>1, <2>1 DEF Started
      <3> QED BY <1>1, <1>6, <3>1, <3>2, NumberingKeeps
    <2>6. Lists'
      BY <1>1, <1>6 DEF Lists
    <2> QED BY <2>2, <2>3, <2>4, <2>5, <2>6 DEF Rest
  <1>7. CASE /\ gcall' = [gcall EXCEPT ![c].at = "wait"]
             /\ client' = [client EXCEPT !.sending = c, !.seq = @ + 1, !.pending[client.seq] = c]
    <2>1. gcall'[c].at = "wait" /\ \A d \in Callers \ {c} : gcall'[d] = gcall[d]
      BY <1>4, <1>7
    <2>2. /\ client'.codec = client.codec /\ client'.connected = client.connected
          /\ client'.sending = c /\ client'.seq = client.seq + 1
          /\ client'.pending = [client.pending EXCEPT ![client.seq] = c]
      BY <1>7 DEF Types, Clients
    <2>3. client.seq \in Nat \ {0} /\ client.pending \in [Seqs -> Callers \cup {None}]
      BY DEF Types, Clients
    <2>4. OneLink'
      BY <1>1, <1>5, <2>1, <2>2, CallersFinite DEF OneLink
    <2>5. ASSUME NEW d \in Callers PROVE Stage(d)'
      <3>1. CASE d = c
        BY <1>1, <1>2, <1>3, <2>1, <2>2, <3>1 DEF Stage
      <3>2. CASE d # c
        BY <1>1, <1>2, <2>1, <2>2, <3>2, StageKeeps
      <3> QED BY <3>1, <3>2
    <2>6. NoDuplicates'
      BY <1>1, <2>1 DEF NoDuplicates
    <2>7. Numbering'
      <3>1. ASSUME NEW n \in Nat, NEW d \in Callers, Numbered(n, d)'
            PROVE  Numbered(n, d) \/ (n = client.seq /\ d = c)
        <4>1. CASE n \in Seqs /\ client'.pending[n] = d /\ d # None
          BY <2>2, <2>3, <4>1 DEF Numbered
        <4>2. CASE client'.sending = d /\ d # None /\ n = client'.seq - 1
          BY <2>2, <2>3, <4>2
        <4>3. CASE \E k \in Conns : <<n, d>> \in Numbers(toMaster'[k], "req") \cup Numbers(toGame'[k], "resp")
          BY <1>1, <4>3 DEF Numbered
        <4>4. CASE \E h \in handlers' : h.side = "master" /\ h.seq = n /\ h.of = d
          BY <1>1, <4>4 DEF Numbered
        <4> QED BY <3>1, <4>1, <4>2, <4>3, <4>4 DEF Numbered
      <3>2. ASSUME NEW d \in Callers PROVE ~Numbered(client.seq, d)
        BY <1>1, <2>3 DEF Numbering
      <3>3. Started' = Started \cup {c} /\ c \notin Started
        BY <1>1, <2>1 DEF Started
      <3>4. Cardinality(Started') = Cardinality(Started) + 1 /\ Cardinality(Started) \in Nat
        <4>1. IsFiniteSet(Started)
          BY CallersFinite, FS_Subset DEF Started
        <4> QED BY <3>3, <4>1, FS_AddElement, FS_CardinalityType
      <3>5. \A n \in Nat : \A d, e \in Callers : Numbered(n, d)' /\ Numbered(n, e)' => d = e
        BY <1>1, <3>1, <3>2 DEF Numbering
      <3>6. \A n \in Nat : \A d \in Callers : Numbered(n, d)' => n \in 1 .. (client'.seq - 1) /\ d \in Started'
        <4> SUFFICES ASSUME NEW n \in Nat, NEW d \in Callers, Numbered(n, d)'
                     PROVE  n \in 1 .. (client'.seq - 1) /\ d \in Started'
          OBVIOUS
        <4>1. CASE Numbered(n, d)
          <5>1. n \in 1 .. (client.seq - 1) /\ d \in Started
            BY <1>1, <4>1 DEF Numbering
          <5> QED BY <2>2, <2>3, <3>3, <5>1
        <4>2. CASE n = client.seq /\ d = c
          BY <2>2, <2>3, <3>3, <4>2
        <4> QED BY <3>1, <4>1, <4>2
      <3>7. client'.seq - 1 <= Cardinality(Started')
        BY <1>1, <2>2, <2>3, <3>4 DEF Numbering
      <3> QED BY <3>5, <3>6, <3>7 DEF Numbering
    <2>8. Lists'
      BY <1>1, <2>2 DEF Lists
    <2> QED BY <2>4, <2>5, <2>6, <2>7, <2>8 DEF Rest
  <1> QED BY <1>6, <1>7 DEF Send


\* A request goes on the wire once, or comes back with an error.
LEMMA WriteRequestKeeps == ASSUME Types, Rest, NEW c \in Callers, WriteRequest(c), Types' PROVE Rest'
  <1> DEFINE n == client.seq - 1
             m == [kind |-> "req", seq |-> n, of |-> c, via |-> client.codec]
  <1>1. /\ OneLink /\ (\A d \in Callers : Stage(d)) /\ NoDuplicates /\ Numbering /\ Lists
        /\ client.sending = c /\ c # None
        /\ UNCHANGED up /\ UNCHANGED toGame /\ UNCHANGED reading
        /\ UNCHANGED <<handlers, runs>> /\ UNCHANGED <<servers, leaving>>
    BY CallersFinite DEF Rest, WriteRequest, list
  <1>2. ~Asked(c) /\ ~Served(c) /\ ~Answered(c) /\ runs[c] = 0 /\ gcall[c].at = "wait"
    BY <1>1 DEF Stage
  <1>3. client.seq \in Nat \ {0} /\ n \in Nat /\ client.codec \in Nat /\ client.pending \in [Seqs -> Callers \cup {None}]
    BY CallersFinite DEF Types, Clients
  <1>4. m \in Messages /\ m.kind = "req" /\ m.seq = n /\ m.of = c
    BY <1>3 DEF Messages
  <1>5. ASSUME NEW d \in Callers
        PROVE  (Served(d)' <=> Served(d)) /\ (Answered(d)' <=> Answered(d))
    BY <1>1 DEF Served, Answered
  <1>6. CASE /\ toMaster' = Written(toMaster, client.codec, m)
             /\ client' = [client EXCEPT !.sending = None] /\ UNCHANGED gcall
    <2>1. Wire(toMaster) /\ Writes(toMaster, client.codec, m, toMaster')
      BY <1>6 DEF Types, Wire, Writes
    <2>2. /\ client'.codec = client.codec /\ client'.connected = client.connected
          /\ client'.sending = None /\ client'.seq = client.seq /\ client'.pending = client.pending
      BY <1>6 DEF Types, Clients
    <2> HIDE DEF m, n
    <2>3. ASSUME NEW j \in Conns
          PROVE  /\ Plus(toMaster, toMaster', "req", j, m) /\ (j # client.codec => Same(toMaster, toMaster', "req", j))
                 /\ up[j] # "up" => toMaster'[j] = toMaster[j]
      BY <1>4, <2>1, WrittenMessages DEF Up
    <2>4. OneLink'
      BY <1>1, <1>6, <2>2, <2>3 DEF OneLink
    <2>5. ASSUME NEW d \in Callers PROVE Stage(d)'
      <3>1. CASE d = c
        BY <1>1, <1>2, <1>5, <1>6, <2>2, <3>1 DEF Stage
      <3>2. CASE d # c
        <4>1. Asked(d)' => Asked(d)
          BY <1>4, <2>3, <3>2 DEF Asked, Plus
        <4>2. client'.sending = d => client.sending = d
          BY <2>2, CallersFinite
        <4> QED BY <1>1, <1>5, <1>6, <4>1, <4>2, StageKeeps
      <3> QED BY <3>1, <3>2
    <2>6. NoDuplicates'
      <3>1. ASSUME NEW j \in Conns PROVE Once(toMaster'[j], "req") /\ Of(toMaster'[j], "req") \subseteq Callers
        <4>1. c \notin Of(toMaster[j], "req")
          BY <1>2 DEF Asked
        <4> QED BY <1>1, <1>4, <2>3, <4>1 DEF NoDuplicates, Plus
      <3> QED BY <1>1, <1>6, <3>1 DEF NoDuplicates
    <2>7. Numbering'
      <3>1. Numbered(n, c)
        BY <1>1 DEF Numbered, n
      <3>2. ASSUME NEW i \in Nat, NEW d \in Callers, Numbered(i, d)' PROVE Numbered(i, d)
        <4>1. CASE i \in Seqs /\ client'.pending[i] = d /\ d # None
          BY <2>2, <4>1 DEF Numbered
        <4>2. CASE client'.sending = d /\ d # None /\ i = client'.seq - 1
          BY <2>2, <4>2
        <4>3. ASSUME NEW k \in Conns, <<i, d>> \in Numbers(toMaster'[k], "req") PROVE Numbered(i, d)
          <5>1. <<i, d>> \in Numbers(toMaster[k], "req") \/ (i = n /\ d = c)
            BY <1>4, <2>3, <4>3 DEF Plus
          <5> QED BY <3>1, <5>1 DEF Numbered
        <4>4. CASE \E k \in Conns : <<i, d>> \in Numbers(toGame'[k], "resp")
          BY <1>1, <4>4 DEF Numbered
        <4>5. CASE \E h \in handlers' : h.side = "master" /\ h.seq = i /\ h.of = d
          BY <1>1, <4>5 DEF Numbered
        <4> QED BY <3>2, <4>1, <4>2, <4>3, <4>4, <4>5 DEF Numbered
      <3>3. Started = Started'
        BY <1>6 DEF Started
      <3> QED BY <1>1, <2>2, <3>2, <3>3, NumberingKeeps
    <2>8. Lists'
      <3>1. ASSUME NEW k \in Conns, NEW d \in Conns, d \in Of(toMaster'[k], "req") PROVE d <= k
        <4>1. CASE d \in Of(toMaster[k], "req")
          BY <1>1, <4>1 DEF Lists
        <4>2. CASE d \notin Of(toMaster[k], "req")
          <5>1. d = c /\ k = client.codec
            BY <1>4, <2>3, <3>1, <4>2 DEF Plus, Same
          <5>2. up[d] # "none" /\ d \in Nat
            BY <1>1, <1>2, <5>1, CallersFinite DEF OneLink, Conns
          <5> QED BY <1>1, <1>3, <5>1, <5>2 DEF OneLink
        <4> QED BY <4>1, <4>2
      <3> QED BY <1>1, <2>2, <3>1 DEF Lists
    <2> QED BY <2>4, <2>5, <2>6, <2>7, <2>8 DEF Rest
  <1>7. CASE /\ gcall' = [gcall EXCEPT ![c].at = "err"]
             /\ client' = [client EXCEPT !.sending = None, !.pending[n] = None] /\ UNCHANGED toMaster
    <2>1. /\ client'.codec = client.codec /\ client'.connected = client.connected
          /\ client'.sending = None /\ client'.seq = client.seq
          /\ client'.pending = [client.pending EXCEPT ![n] = None]
      BY <1>7 DEF Types, Clients
    <2>2. gcall'[c].at = "err" /\ \A d \in Callers \ {c} : gcall'[d] = gcall[d]
      BY <1>7 DEF Types, Outcomes
    <2> HIDE DEF m, n
    <2>3. OneLink'
      <3>1. \A k \in Conns : up[k] = "none" => k # c
        BY <1>1, <1>2 DEF OneLink
      <3> QED BY <1>1, <1>7, <2>1, <2>2, <3>1, CallersFinite DEF OneLink
    <2>4. ASSUME NEW d \in Callers PROVE Stage(d)'
      <3>1. Asked(d)' <=> Asked(d)
        BY <1>7 DEF Asked
      <3>2. client'.sending # d
        BY <2>1, CallersFinite
      <3>3. CASE d = c
        BY <1>1, <1>2, <1>5, <2>2, <3>1, <3>2, <3>3 DEF Stage
      <3>4. CASE d # c
        BY <1>1, <1>5, <2>2, <3>1, <3>2, <3>4, StageKeeps
      <3> QED BY <3>3, <3>4
    <2>5. NoDuplicates'
      <3>1. \A h \in handlers : h.side = "master" => h.of # c
        BY <1>2 DEF Served
      <3> QED BY <1>1, <1>7, <2>2, <3>1 DEF NoDuplicates
    <2>6. Numbering'
      <3>1. ASSUME NEW i \in Nat, NEW d \in Callers, Numbered(i, d)' PROVE Numbered(i, d)
        <4>1. i \in Seqs /\ client'.pending[i] = d /\ d # None => client.pending[i] = d
          BY <1>3, <2>1
        <4> QED BY <1>1, <1>7, <2>1, <3>1, <4>1 DEF Numbered
      <3>2. Started \subseteq Started'
        BY <2>2 DEF Started
      <3> QED BY <1>1, <2>1, <3>1, <3>2, NumberingKeeps
    <2>7. Lists'
      BY <1>1, <1>7, <2>1 DEF Lists
    <2> QED BY <2>3, <2>4, <2>5, <2>6, <2>7 DEF Rest
  <1> QED BY <1>6, <1>7 DEF WriteRequest

\* The end of a read loop fails the calls that wait.
LEMMA GameLoopEndsKeeps == ASSUME Types, Rest, NEW k \in Conns, GameLoopEnds(k), Types' PROVE Rest'
  <1>1. /\ OneLink /\ (\A c \in Callers : Stage(c)) /\ NoDuplicates /\ Numbering /\ Lists
        /\ reading[k] /\ up[k] = "down" /\ client.sending = None
        /\ reading' = [reading EXCEPT ![k] = FALSE]
        /\ client' = [client EXCEPT !.shutdown = TRUE, !.connected = FALSE]
        /\ UNCHANGED <<up, toMaster, toGame>> /\ UNCHANGED <<handlers, runs>> /\ UNCHANGED <<servers, leaving>>
    BY DEF Rest, GameLoopEnds, wires, list
  <1>2. /\ client'.codec = client.codec /\ client'.sending = None /\ client'.seq = client.seq
        /\ client'.pending = client.pending
    BY <1>1 DEF Types, Clients
  <1>3. k = client.codec /\ \A j \in Conns : up[j] # "up" /\ toMaster[j] = <<>> /\ toGame[j] = <<>> /\ ~reading'[j]
    BY <1>1 DEF OneLink, Types
  <1>4. ASSUME NEW c \in Callers
        PROVE  \/ gcall'[c] = gcall[c]
               \/ gcall[c].at = "wait" /\ gcall'[c].at = "err"
    BY DEF GameLoopEnds, Types, Outcomes
  <1>5. OneLink'
    <2>1. \A j \in Conns : up[j] = "none" => gcall'[j].at = "new"
      BY <1>1, <1>4, CallersFinite DEF OneLink
    <2> QED BY <1>1, <1>2, <1>3, <2>1 DEF OneLink
  <1>6. ASSUME NEW c \in Callers PROVE Stage(c)'
    <2>1. ~Asked(c)' /\ (Served(c)' <=> Served(c)) /\ ~Answered(c)'
      BY <1>1, <1>3, NoMessages DEF Asked, Served, Answered
    <2> QED BY <1>1, <1>2, <1>4, <2>1, CallersFinite DEF Stage
  <1>7. NoDuplicates'
    BY <1>1, <1>3 DEF NoDuplicates, Types, Goroutines
  <1>8. Numbering'
    <2>1. ASSUME NEW n \in Nat, NEW c \in Callers PROVE Numbered(n, c)' => Numbered(n, c)
      BY <1>1, <1>2 DEF Numbered
    <2>2. Started \subseteq Started'
      BY <1>4 DEF Started
    <2> QED BY <1>1, <1>2, <2>1, <2>2, NumberingKeeps
  <1>9. Lists'
    BY <1>1, <1>2, <1>3 DEF Lists
  <1> QED BY <1>5, <1>6, <1>7, <1>8, <1>9 DEF Rest


\* The call that waits under the number of an answer is the one that was served.
LEMMA OwnAnswer ==
  ASSUME Types, Rest, NEW k \in Conns, GameReads(k), Head(toGame[k]).kind # "req"
  PROVE  LET msg == Head(toGame[k]) IN
         /\ msg.kind = "resp" /\ msg.of \in Callers /\ msg.seq \in Seqs
         /\ msg.of \in Of(toGame[k], "resp") /\ msg.of \notin Of(toGame'[k], "resp")
         /\ client.pending[msg.seq] \in {None, msg.of}
         /\ gcall[msg.of].at = "wait" /\ runs[msg.of] = 1
  <1>1. /\ (\A d \in Callers : Stage(d)) /\ NoDuplicates /\ Numbering
        /\ toGame[k] # <<>> /\ toGame' = [toGame EXCEPT ![k] = Tail(@)]
    BY DEF Rest, GameReads
  <1>2. Wire(toGame) /\ Reads(toGame, k, toGame')
    BY <1>1 DEF Types, Wire, Reads
  <1>3. PICK msg : msg = Head(toGame[k])
    OBVIOUS
  <1>4. toGame[k] \in Seq(Messages) /\ Head(toGame[k]) \in Messages
    BY <1>1 DEF Types
  <1>5. msg \in Messages /\ msg.kind = "resp" /\ msg.seq \in Nat
    BY <1>3, <1>4 DEF Messages
  <1>6. /\ msg.of \in Of(toGame[k], "resp") /\ <<msg.seq, msg.of>> \in Numbers(toGame[k], "resp")
        /\ Once(toGame[k], "resp") => msg.of \notin Of(toGame'[k], "resp")
    BY <1>2, <1>3, <1>5, HeadMessage
  <1>7. msg.of \in Callers /\ msg.of \notin Of(toGame'[k], "resp")
    BY <1>1, <1>6 DEF NoDuplicates
  <1>8. gcall[msg.of].at = "wait" /\ runs[msg.of] = 1
    BY <1>1, <1>6, <1>7 DEF Stage, Answered
  <1>9. Numbered(msg.seq, msg.of)
    BY <1>6 DEF Numbered
  <1>10. msg.seq \in 1 .. (client.seq - 1)
    BY <1>1, <1>5, <1>7, <1>9 DEF Numbering
  <1>11. msg.seq \in Seqs
    <2>1. Cardinality(Started) <= Cardinality(Callers) /\ Cardinality(Started) \in Nat
      BY CallersFinite, FS_Subset, FS_CardinalityType DEF Started
    <2>2. client.seq \in Nat /\ client.seq - 1 <= Cardinality(Started)
      BY <1>1 DEF Numbering, Types, Clients
    <2> QED BY <1>5, <1>10, <2>1, <2>2, CallersFinite DEF Seqs
  <1>12. client.pending[msg.seq] \in {None, msg.of}
    <2>1. client.pending[msg.seq] \in Callers \cup {None}
      BY <1>11 DEF Types, Clients
    <2>2. CASE client.pending[msg.seq] # None
      <3>1. Numbered(msg.seq, client.pending[msg.seq])
        BY <1>11, <2>2 DEF Numbered
      <3> QED BY <1>1, <1>5, <1>7, <1>9, <2>1, <2>2, <3>1 DEF Numbering
    <2> QED BY <2>2
  <1> QED BY <1>3, <1>5, <1>6, <1>7, <1>8, <1>11, <1>12

\* An answer finds the call that has its number.
LEMMA GameReadsKeeps ==
  ASSUME Types, Rest, NEW k \in Conns, GameReads(k), Head(toGame[k]).kind # "req", Types'
  PROVE  Rest'
  <1>1. PICK msg : msg = Head(toGame[k])
    OBVIOUS
  <1>2. /\ OneLink /\ (\A d \in Callers : Stage(d)) /\ NoDuplicates /\ Numbering /\ Lists
        /\ toGame[k] # <<>> /\ toGame' = [toGame EXCEPT ![k] = Tail(@)]
        /\ UNCHANGED up /\ UNCHANGED toMaster /\ UNCHANGED reading /\ UNCHANGED <<handlers, runs>>
        /\ UNCHANGED <<servers, leaving>>
    BY DEF Rest, GameReads, list
  <1>3. PICK c : c = client.pending[msg.seq]
    OBVIOUS
  <1>4. /\ client' = [client EXCEPT !.pending[msg.seq] = None]
        /\ gcall' = IF c = None THEN gcall ELSE [gcall EXCEPT ![c] = [at |-> "ok", got |-> msg.of]]
    BY <1>1, <1>3 DEF GameReads
  <1>5. /\ msg.of \in Callers /\ msg.of \in Of(toGame[k], "resp") /\ msg.of \notin Of(toGame'[k], "resp")
        /\ c \in {None, msg.of} /\ gcall[msg.of].at = "wait" /\ runs[msg.of] = 1
    BY <1>1, <1>3, OwnAnswer
  <1>6. /\ client'.codec = client.codec /\ client'.connected = client.connected
        /\ client'.sending = client.sending /\ client'.seq = client.seq
        /\ client'.pending = [client.pending EXCEPT ![msg.seq] = None]
        /\ client.pending \in [Seqs -> Callers \cup {None}]
    BY <1>4 DEF Types, Clients
  <1>7. Wire(toGame) /\ Reads(toGame, k, toGame')
    BY <1>2 DEF Types, Wire, Reads
  <1>8. ASSUME NEW j \in Conns
        PROVE  Less(toGame, toGame', "resp", j) /\ (toGame[j] = <<>> => toGame'[j] = <<>>)
    BY <1>7, ReadMessages
  <1>9. ASSUME NEW d \in Callers
        PROVE  (Asked(d)' <=> Asked(d)) /\ (Served(d)' <=> Served(d)) /\ (Answered(d)' => Answered(d))
    BY <1>2, <1>8 DEF Asked, Served, Answered, Less
  <1>10. ASSUME NEW d \in Callers
         PROVE  \/ gcall'[d] = gcall[d]
                \/ d = msg.of /\ gcall'[d].at = "ok" /\ gcall'[d].got = d
    BY <1>4, <1>5 DEF Types
  <1>11. OneLink'
    <2>1. \A j \in Conns : up[j] = "none" => j # msg.of
      BY <1>2, <1>5 DEF OneLink
    <2> QED BY <1>2, <1>6, <1>8, <1>10, <2>1, CallersFinite DEF OneLink
  <1>12. ASSUME NEW d \in Callers PROVE Stage(d)'
    <2>1. CASE gcall'[d] = gcall[d]
      BY <1>2, <1>6, <1>9, <2>1, StageKeeps
    <2>2. CASE d = msg.of /\ gcall'[d].at = "ok" /\ gcall'[d].got = d
      <3>1. ~Answered(d)'
        <4>1. ASSUME NEW j \in Conns, d \in Of(toGame'[j], "resp") PROVE FALSE
          <5>1. d \in Of(toGame[j], "resp")
            BY <1>8, <4>1 DEF Less
          <5>2. toGame[j] # <<>>
            BY <5>1, NoMessages
          <5>3. j = k
            BY <1>2, <5>2, OneWire
          <5> QED BY <1>5, <2>2, <4>1, <5>3
        <4> QED BY <4>1 DEF Answered
      <3>2. ~Asked(d) /\ ~Served(d) /\ client.sending # d /\ runs[d] = 1
        BY <1>2, <1>5, <2>2 DEF Stage
      <3> QED BY <1>2, <1>6, <1>9, <2>2, <3>1, <3>2 DEF Stage
    <2> QED BY <1>10, <2>1, <2>2
  <1>13. NoDuplicates'
    <2>1. \A h \in handlers : h.side = "master" => h.of # msg.of
      BY <1>2, <1>5 DEF Stage, Served
    <2>2. \A h \in handlers : h.side = "master" /\ h.of \in Callers => gcall'[h.of] = gcall[h.of]
      BY <1>10, <2>1
    <2> QED BY <1>2, <1>8, <2>2 DEF NoDuplicates, Less
  <1>14. Numbering'
    <2>1. ASSUME NEW i \in Nat, NEW d \in Callers, Numbered(i, d)' PROVE Numbered(i, d)
      <3>1. i \in Seqs /\ client'.pending[i] = d /\ d # None => client.pending[i] = d
        BY <1>6
      <3>2. \A j \in Conns : Numbers(toGame'[j], "resp") \subseteq Numbers(toGame[j], "resp")
        BY <1>8 DEF Less
      <3> QED BY <1>2, <1>6, <2>1, <3>1, <3>2 DEF Numbered
    <2>2. Started \subseteq Started'
      BY <1>10 DEF Started
    <2> QED BY <1>2, <1>6, <2>1, <2>2, NumberingKeeps
  <1>15. Lists'
    BY <1>2, <1>6 DEF Lists
  <1> QED BY <1>11, <1>12, <1>13, <1>14, <1>15 DEF Rest


\* A request becomes a goroutine that serves it.
LEMMA MasterReadsKeeps ==
  ASSUME Types, Rest, NEW k \in Conns, MasterReads(k), Head(toMaster[k]).kind = "req", Types'
  PROVE  Rest'
  <1>1. PICK msg : msg = Head(toMaster[k])
    OBVIOUS
  <1>2. PICK g : g = [side |-> "master", k |-> k, seq |-> msg.seq, of |-> msg.of]
    OBVIOUS
  <1>3. /\ OneLink /\ (\A d \in Callers : Stage(d)) /\ NoDuplicates /\ Numbering /\ Lists
        /\ toMaster[k] # <<>> /\ toMaster' = [toMaster EXCEPT ![k] = Tail(@)]
        /\ handlers' = handlers \cup {g}
        /\ UNCHANGED up /\ UNCHANGED toGame /\ UNCHANGED <<client, reading, gcall>> /\ UNCHANGED runs
        /\ UNCHANGED <<servers, leaving>>
    BY <1>1, <1>2 DEF Rest, MasterReads, game, list
  <1>4. Wire(toMaster) /\ Reads(toMaster, k, toMaster')
    BY <1>3 DEF Types, Wire, Reads
  <1>5. /\ msg.of \in Of(toMaster[k], "req") /\ <<msg.seq, msg.of>> \in Numbers(toMaster[k], "req")
        /\ Once(toMaster[k], "req") => msg.of \notin Of(toMaster'[k], "req")
    BY <1>1, <1>4, HeadMessage
  <1>6. g.side = "master" /\ g.k = k /\ g.seq = msg.seq /\ g.of = msg.of
    BY <1>2
  <1>7. msg.of \in Callers /\ msg.of \notin Of(toMaster'[k], "req")
    BY <1>3, <1>5 DEF NoDuplicates
  <1>8. ~Served(msg.of) /\ ~Answered(msg.of) /\ client.sending # msg.of /\ runs[msg.of] = 0 /\ gcall[msg.of].at = "wait"
    BY <1>3, <1>5, <1>7 DEF Stage, Asked
  <1>9. ASSUME NEW j \in Conns
        PROVE  Less(toMaster, toMaster', "req", j) /\ (toMaster[j] = <<>> => toMaster'[j] = <<>>)
    BY <1>4, ReadMessages
  <1>10. up[k] = "up"
    BY <1>3, OneWire
  <1>11. OneLink'
    <2>1. \A h \in handlers' : up[h.k] # "none"
      BY <1>3, <1>6, <1>10 DEF OneLink
    <2> QED BY <1>3, <1>9, <2>1 DEF OneLink
  <1>12. ASSUME NEW d \in Callers PROVE Stage(d)'
    <2>1. (Asked(d)' => Asked(d)) /\ (Answered(d)' <=> Answered(d))
      BY <1>3, <1>9 DEF Asked, Answered, Less
    <2>2. CASE d = msg.of
      <3>1. ~Asked(d)'
        <4>1. ASSUME NEW j \in Conns, d \in Of(toMaster'[j], "req") PROVE FALSE
          <5>1. d \in Of(toMaster[j], "req")
            BY <1>9, <4>1 DEF Less
          <5>2. toMaster[j] # <<>>
            BY <5>1, NoMessages
          <5>3. j = k
            BY <1>3, <5>2, OneWire
          <5> QED BY <1>7, <2>2, <4>1, <5>3
        <4> QED BY <4>1 DEF Asked
      <3> QED BY <1>3, <1>8, <2>1, <2>2, <3>1 DEF Stage
    <2>3. CASE d # msg.of
      <3>1. Served(d)' => Served(d)
        BY <1>3, <1>6, <2>3 DEF Served
      <3> QED BY <1>3, <2>1, <3>1, StageKeeps
    <2> QED BY <2>2, <2>3
  <1>13. NoDuplicates'
    <2>1. \A h \in handlers : h.side = "master" => h.of # g.of
      BY <1>6, <1>8 DEF Served
    <2>2. \A h, f \in handlers' : h.side = "master" /\ f.side = "master" /\ h.of = f.of => h = f
      BY <1>3, <2>1 DEF NoDuplicates
    <2>3. \A h \in handlers' :
            h.side = "master" => h.of \in Callers /\ (up'[h.k] = "up" => gcall'[h.of].at = "wait")
      BY <1>3, <1>6, <1>7, <1>8 DEF NoDuplicates
    <2>4. \A j \in Conns : Once(toMaster'[j], "req") /\ Of(toMaster'[j], "req") \subseteq Callers
      BY <1>3, <1>9 DEF NoDuplicates, Less
    <2> QED BY <1>3, <2>2, <2>3, <2>4 DEF NoDuplicates
  <1>14. Numbering'
    <2>1. Numbered(msg.seq, msg.of)
      BY <1>5 DEF Numbered
    <2>2. ASSUME NEW i \in Nat, NEW d \in Callers, Numbered(i, d)' PROVE Numbered(i, d)
      <3>1. CASE \E j \in Conns : <<i, d>> \in Numbers(toMaster'[j], "req")
        BY <1>9, <3>1 DEF Numbered, Less
      <3>2. ASSUME NEW h \in handlers', h.side = "master", h.seq = i, h.of = d PROVE Numbered(i, d)
        <4>1. CASE h = g
          BY <1>6, <2>1, <3>2, <4>1
        <4>2. CASE h # g
          BY <1>3, <3>2, <4>2 DEF Numbered
        <4> QED BY <4>1, <4>2
      <3> QED BY <1>3, <2>2, <3>1, <3>2 DEF Numbered
    <2>3. Started = Started'
      BY <1>3 DEF Started
    <2> QED BY <1>3, <2>2, <2>3, NumberingKeeps
  <1>15. Lists'
    <2>1. \A h \in handlers' : h.side = "master" /\ h.of \in Conns => h.of <= h.k
      BY <1>3, <1>5, <1>6 DEF Lists
    <2> QED BY <1>3, <1>9, <2>1 DEF Lists, Less
  <1> QED BY <1>11, <1>12, <1>13, <1>14, <1>15 DEF Rest

\* A request is served, once, and its answer goes on the wire of its connection.
LEMMA MasterAnswersKeeps == ASSUME Types, Rest, NEW h \in handlers, MasterAnswers(h), Types' PROVE Rest'
  <1> DEFINE m == [kind |-> "resp", seq |-> h.seq, of |-> h.of, via |-> h.k]
  <1>1. /\ OneLink /\ (\A d \in Callers : Stage(d)) /\ NoDuplicates /\ Numbering /\ Lists
        /\ h.side = "master" /\ handlers' = handlers \ {h} /\ toGame' = Written(toGame, h.k, m)
        /\ servers' = (IF h.of \in Conns THEN servers \cup {h.k} ELSE servers)
        /\ runs' = [runs EXCEPT ![h.of] = @ + 1]
        /\ UNCHANGED up /\ UNCHANGED toMaster /\ UNCHANGED <<client, reading, gcall>> /\ UNCHANGED leaving
    BY DEF Rest, MasterAnswers, game
  <1>2. PICK c : c = h.of
    OBVIOUS
  <1>3. h.k \in Conns /\ m \in Messages /\ m.kind = "resp" /\ m.seq = h.seq /\ m.of = c
    <2>1. h \in Goroutines /\ h.k \in Conns /\ h.k \in Nat
      BY CallersFinite DEF Types, Goroutines, Conns
    <2>2. m \in Messages
      BY <2>1 DEF Messages, Goroutines
    <2>3. m.kind = "resp" /\ m.seq = h.seq /\ m.of = c
      BY <1>2
    <2> QED BY <2>1, <2>2, <2>3
  <1>4. Wire(toGame) /\ Writes(toGame, h.k, m, toGame')
    BY <1>1 DEF Types, Wire, Writes
  <1> HIDE DEF m
  <1>5. c \in Callers /\ (up[h.k] = "up" => gcall[c].at = "wait")
    BY <1>1, <1>2 DEF NoDuplicates
  <1>6. Served(c) /\ ~Asked(c) /\ ~Answered(c) /\ client.sending # c /\ runs[c] = 0 /\ gcall[c].at \notin {"new", "called", "ok"}
    <2>1. Served(c)
      BY <1>1, <1>2 DEF Served
    <2> QED BY <1>1, <1>5, <2>1 DEF Stage
  <1>7. runs'[c] = 1 /\ \A d \in Callers \ {c} : runs'[d] = runs[d]
    BY <1>1, <1>2, <1>5, <1>6 DEF Types
  <1>8. ASSUME NEW j \in Conns
        PROVE  /\ Plus(toGame, toGame', "resp", j, m) /\ (j # h.k => Same(toGame, toGame', "resp", j))
               /\ up[j] # "up" => toGame'[j] = toGame[j]
    BY <1>3, <1>4, WrittenMessages DEF Up
  <1>9. OneLink'
    BY <1>1, <1>8 DEF OneLink
  <1>10. ASSUME NEW d \in Callers PROVE Stage(d)'
    <2>1. Asked(d)' <=> Asked(d)
      BY <1>1 DEF Asked
    <2>2. CASE d = c
      <3>1. ~Served(d)'
        BY <1>1, <1>2, <2>2 DEF Served, NoDuplicates
      <3>2. Answered(d)' => gcall[d].at = "wait"
        <4>1. ASSUME NEW j \in Conns, d \in Of(toGame'[j], "resp") PROVE gcall[d].at = "wait"
          <5>1. d \notin Of(toGame[j], "resp")
            BY <1>6, <2>2 DEF Answered
          <5>2. j = h.k /\ up[j] = "up"
            BY <1>8, <4>1, <5>1 DEF Same
          <5> QED BY <1>5, <2>2, <5>2
        <4> QED BY <4>1 DEF Answered
      <3> QED BY <1>1, <1>6, <1>7, <2>1, <2>2, <3>1, <3>2 DEF Stage
    <2>3. CASE d # c
      <3>1. (Served(d)' => Served(d)) /\ (Answered(d)' => Answered(d))
        BY <1>1, <1>3, <1>8, <2>3 DEF Served, Answered, Plus
      <3> QED BY <1>1, <1>7, <2>1, <2>3, <3>1, StageKeeps
    <2> QED BY <2>2, <2>3
  <1>11. NoDuplicates'
    <2>1. ASSUME NEW j \in Conns PROVE Once(toGame'[j], "resp") /\ Of(toGame'[j], "resp") \subseteq Callers
      <3>1. c \notin Of(toGame[j], "resp")
        BY <1>6 DEF Answered
      <3> QED BY <1>1, <1>3, <1>5, <1>8, <3>1 DEF NoDuplicates, Plus
    <2> QED BY <1>1, <2>1 DEF NoDuplicates
  <1>12. Numbering'
    <2>1. Numbered(h.seq, c)
      BY <1>1, <1>2 DEF Numbered
    <2>2. ASSUME NEW i \in Nat, NEW d \in Callers, Numbered(i, d)' PROVE Numbered(i, d)
      <3>1. ASSUME NEW j \in Conns, <<i, d>> \in Numbers(toGame'[j], "resp") PROVE Numbered(i, d)
        <4>1. <<i, d>> \in Numbers(toGame[j], "resp") \/ (i = h.seq /\ d = c)
          BY <1>3, <1>8, <3>1 DEF Plus
        <4> QED BY <2>1, <4>1 DEF Numbered
      <3> QED BY <1>1, <2>2, <3>1 DEF Numbered
    <2>3. Started = Started'
      BY <1>1 DEF Started
    <2> QED BY <1>1, <2>2, <2>3, NumberingKeeps
  <1>13. Lists'
    <2>1. ASSUME NEW k \in Conns, k = client.codec, up[k] = "up", runs'[k] = 1 PROVE k \in servers'
      <3>1. CASE k = c
        <4>1. c <= h.k /\ up[h.k] # "none" /\ h.k \in Nat /\ k \in Nat
          BY <1>1, <1>2, <1>3, <3>1, CallersFinite DEF Lists, OneLink, Conns
        <4>2. h.k = k
          BY <1>1, <1>3, <2>1, <3>1, <4>1 DEF OneLink
        <4> QED BY <1>1, <1>2, <3>1, <4>2
      <3>2. CASE k # c
        <4>1. runs[k] = 1
          BY <1>7, <2>1, <3>2, CallersFinite
        <4> QED BY <1>1, <2>1, <4>1 DEF Lists
      <3> QED BY <3>1, <3>2
    <2> QED BY <1>1, <2>1 DEF Lists
  <1> QED BY <1>9, <1>10, <1>11, <1>12, <1>13 DEF Rest


----------------------------------------------------------------------------
(* The invariant. *)

\* The invariant holds at first.
LEMMA RpcInit == Init => RpcInv
  <1> SUFFICES ASSUME Init PROVE RpcInv
    OBVIOUS
  <1>1. /\ up = [k \in Conns |-> "none"] /\ toMaster = [k \in Conns |-> <<>>] /\ toGame = [k \in Conns |-> <<>>]
        /\ client = [codec |-> 0, connected |-> FALSE, shutdown |-> FALSE, sending |-> None, seq |-> 1, pending |-> NoCalls]
        /\ reading = [k \in Conns |-> FALSE]
        /\ peer = [k \in Conns |-> [reading |-> FALSE, shutdown |-> FALSE, sending |-> None, seq |-> 1, pending |-> NoCalls]]
        /\ gcall = [c \in Callers |-> [at |-> "new", got |-> None]]
        /\ check = [m \in Checks |-> [at |-> "idle", todo |-> {}, k |-> 0, got |-> {}]]
        /\ handlers = {} /\ runs = [c \in Callers |-> 0] /\ servers = {} /\ leaving = {}
    BY DEF Init
  <1>2. Types
    <2>1. client \in Clients
      BY <1>1, CallersFinite DEF Clients, NoCalls
    <2>2. peer \in [Conns -> Peers]
      BY <1>1 DEF Peers, NoCalls
    <2>3. gcall \in [Callers -> Outcomes] /\ check \in [Checks -> Asking]
      BY <1>1, CallersFinite DEF Outcomes, Asking
    <2>4. <<>> \in Seq(Messages)
      OBVIOUS
    <2> QED BY <1>1, <2>1, <2>2, <2>3, <2>4 DEF Types
  <1>3. client.codec = 0 /\ client.sending = None /\ client.seq = 1 /\ client.pending = NoCalls
    BY <1>1
  <1>4. OneLink
    BY <1>1, <1>3, CallersFinite DEF OneLink, Conns
  <1>5. \A k \in Conns : toMaster[k] = <<>> /\ toGame[k] = <<>>
    BY <1>1
  <1>6. ASSUME NEW c \in Callers PROVE Stage(c)
    <2>1. ~Asked(c) /\ ~Served(c) /\ ~Answered(c) /\ client.sending # c /\ runs[c] = 0 /\ gcall[c].at = "new"
      BY <1>1, <1>3, <1>5, NoMessages, CallersFinite DEF Asked, Served, Answered
    <2> QED BY <2>1 DEF Stage
  <1>7. NoDuplicates
    BY <1>1, <1>5, NoMessages DEF NoDuplicates
  <1>8. Numbering
    <2>1. ASSUME NEW n \in Nat, NEW c \in Callers PROVE ~Numbered(n, c)
      BY <1>1, <1>3, <1>5, NoMessages, CallersFinite DEF Numbered, NoCalls
    <2>2. Started = {}
      BY <1>1 DEF Started
    <2> QED BY <1>3, <2>1, <2>2, FS_EmptySet DEF Numbering
  <1>9. Lists
    BY <1>1, <1>5, NoMessages DEF Lists
  <1> QED BY <1>2, <1>4, <1>6, <1>7, <1>8, <1>9 DEF RpcInv

\* One step, sorted by what it does to the calls of the game server.
LEMMA RpcStep == ASSUME RpcInv, [Next]_vars PROVE RpcInv'
  <1>1. Types /\ Rest
    BY DEF RpcInv, Rest
  <1>2. ASSUME Types', Rest' PROVE RpcInv'
    BY <1>2 DEF RpcInv, Rest
  <1>3. ASSUME Types', Quiet PROVE RpcInv'
    BY <1>1, <1>2, <1>3, QuietKeeps
  <1>4. CASE UNCHANGED vars
    <2>1. Types'
      BY <1>1, <1>4 DEF Types, vars, wires, game, list
    <2> QED BY <1>1, <1>3, <1>4, <2>1, ChecksQuiet DEF vars
  <1>5. CASE Dial
    BY <1>1, <1>2, <1>5, DialTypes, DialKeeps
  <1>6. ASSUME NEW k \in Conns, Break(k) PROVE RpcInv'
    BY <1>1, <1>2, <1>6, BreakTypes, BreakKeeps
  <1>7. ASSUME NEW c \in GCalls, Call(c) PROVE RpcInv'
    BY <1>1, <1>2, <1>7, CallTypes, CallKeeps
  <1>8. ASSUME NEW m \in Checks, IsOnline(m) \/ AskNext(m) PROVE RpcInv'
    BY <1>1, <1>3, <1>8, CheckTypes, ChecksQuiet
  <1>9. ASSUME NEW c \in Callers, Send(c) PROVE RpcInv'
    BY <1>1, <1>2, <1>9, SendTypes, SendKeeps
  <1>10. ASSUME NEW c \in Callers, WriteRequest(c) PROVE RpcInv'
    BY <1>1, <1>2, <1>10, WriteRequestTypes, WriteRequestKeeps
  <1>11. ASSUME NEW k \in Conns, GameReads(k) PROVE RpcInv'
    <2>1. Types'
      BY <1>1, <1>11, GameReadsTypes
    <2>2. CASE Head(toGame[k]).kind = "req"
      BY <1>1, <1>3, <1>11, <2>1, <2>2, GameReadsRequestQuiet
    <2>3. CASE Head(toGame[k]).kind # "req"
      BY <1>1, <1>2, <1>11, <2>1, <2>3, GameReadsKeeps
    <2> QED BY <2>2, <2>3
  <1>12. ASSUME NEW k \in Conns, GameLoopEnds(k) PROVE RpcInv'
    BY <1>1, <1>2, <1>12, GameLoopEndsTypes, GameLoopEndsKeeps
  <1>13. ASSUME NEW h \in handlers, GameAnswers(h) PROVE RpcInv'
    BY <1>1, <1>3, <1>13, GameAnswersTypes, GameAnswersQuiet
  <1>14. ASSUME NEW k \in Conns, MasterReads(k) PROVE RpcInv'
    <2>1. Types'
      BY <1>1, <1>14, MasterReadsTypes
    <2>2. CASE Head(toMaster[k]).kind = "req"
      BY <1>1, <1>2, <1>14, <2>1, <2>2, MasterReadsKeeps
    <2>3. CASE Head(toMaster[k]).kind # "req"
      BY <1>1, <1>3, <1>14, <2>1, <2>3, MasterReadsResponseQuiet
    <2> QED BY <2>2, <2>3
  <1>15. ASSUME NEW k \in Conns, MasterLoopEnds(k) PROVE RpcInv'
    BY <1>1, <1>3, <1>15, MasterLoopEndsTypes, MasterLoopEndsQuiet
  <1>16. ASSUME NEW k \in Conns, RemoveServer(k) PROVE RpcInv'
    BY <1>1, <1>3, <1>16, RemoveServerTypes, RemoveServerQuiet
  <1>17. ASSUME NEW h \in handlers, MasterAnswers(h) PROVE RpcInv'
    BY <1>1, <1>2, <1>17, MasterAnswersTypes, MasterAnswersKeeps
  <1>18. ASSUME NEW m \in Checks, Ask(m) PROVE RpcInv'
    BY <1>1, <1>3, <1>18, AskTypes, ChecksQuiet
  <1>19. ASSUME NEW m \in Checks, AskWrites(m) PROVE RpcInv'
    BY <1>1, <1>3, <1>19, AskWritesTypes, AskWritesQuiet
  <1> QED BY <1>4, <1>5, <1>6, <1>7, <1>8, <1>9, <1>10, <1>11, <1>12, <1>13, <1>14, <1>15, <1>16, <1>17, <1>18, <1>19
        DEF Next, GameStep, MasterStep

\* The inductive invariant of the connection holds of every behaviour of the two
\* Clients, their goroutines and a connection that may break.
THEOREM RpcInvariant == Spec => []RpcInv
  <1>1. RpcInv /\ [Next]_vars => RpcInv'
    BY RpcStep
  <1> QED BY <1>1, RpcInit, PTL DEF Spec


\* The types, among them that no call is served twice, although a broken
\* connection leaves requests and goroutines behind (readLoop, Server.call).
THEOREM RpcTypes == Spec => []TypeOK
  <1>1. RpcInv => TypeOK
    <2> SUFFICES ASSUME RpcInv PROVE TypeOK
      OBVIOUS
    <2>1. Types /\ \A c \in Callers : runs[c] <= 1
      BY DEF RpcInv, Stage
    <2>2. runs \in [Callers -> 0 .. 1]
      BY <2>1 DEF Types
    <2>3. client.codec \in 0 .. MaxConns /\ client.sending \in Callers \cup {None} /\ client.pending \in [Seqs -> Callers \cup {None}]
      BY <2>1 DEF Types, Clients
    <2>4. \A c \in Callers : gcall[c].at \in {"new", "called", "wait", "ok", "err"}
      BY <2>1 DEF Types, Outcomes
    <2>5. \A m \in Checks : check[m].at \in {"idle", "next", "send", "wait", "done"} /\ check[m].todo \subseteq Conns
      BY <2>1 DEF Types, Asking
    <2> QED BY <2>1, <2>2, <2>3, <2>4, <2>5 DEF TypeOK, Types
  <1> QED BY <1>1, RpcInvariant, PTL

\* A game server that is connected and was told that it is registered is in the
\* master's list (ServerRegister, OnSyncDisconnect): the removal of an earlier
\* connection names that connection, and no registration is served over a
\* connection that is older than the dial that made it.
THEOREM RpcRegistered == Spec => []Registered
  <1>1. RpcInv => Registered
    <2> SUFFICES ASSUME RpcInv, Up(client.codec), gcall[client.codec].at = "ok" PROVE client.codec \in servers
      BY DEF Registered
    <2>1. client.codec \in Conns /\ up[client.codec] = "up" /\ client.codec \in Callers
      BY CallersFinite DEF Up
    <2>2. runs[client.codec] = 1
      BY <2>1 DEF RpcInv, Stage
    <2> QED BY <2>1, <2>2 DEF RpcInv, Lists
  <1> QED BY <1>1, RpcInvariant, PTL

----------------------------------------------------------------------------
(* The calls keep what RpcCall promises. *)

\* What the caller sees: an answer is always the one of the call itself.
Seen == [c \in Callers |-> IF gcall[c].at = "wait" THEN "called" ELSE gcall[c].at]

\* A call never has the answer of another one.
LEMMA PhaseIsSeen == RpcInv => Phase = Seen
  BY DEF RpcInv, Stage, Phase, Seen

\* An initial state is one of RpcCall.
LEMMA PromiseInit == Init => Promise!Init
  BY DEF Init, Promise!Init, Phase

\* A step that touches no call of the game server.
LEMMA PromiseStutter ==
  ASSUME gcall' = gcall, runs' = runs
  PROVE  UNCHANGED Promise!vars
  BY DEF Promise!vars, Phase

\* A call is made.
LEMMA PromiseInvoke ==
  ASSUME Types, Phase = Seen, Phase' = Seen', NEW c \in Callers, gcall[c].at = "new",
         gcall' = [gcall EXCEPT ![c].at = "called"], runs' = runs
  PROVE  Promise!Next
  <1>1. gcall'[c].at = "called" /\ \A d \in Callers \ {c} : gcall'[d] = gcall[d]
    BY DEF Types, Outcomes
  <1>2. Seen[c] = "new" /\ Seen' = [Seen EXCEPT ![c] = "called"]
    BY <1>1 DEF Seen
  <1>3. Promise!Invoke(c)
    BY <1>2 DEF Promise!Invoke
  <1> QED BY <1>3 DEF Promise!Next

\* Calls that wait are told of an error.
LEMMA PromiseFail ==
  ASSUME Phase = Seen, Phase' = Seen', NEW C \in SUBSET Callers, runs' = runs,
         \A c \in C : gcall[c].at \in {"called", "wait"} /\ gcall'[c].at = "err",
         \A c \in Callers \ C : gcall'[c] = gcall[c]
  PROVE  [Promise!Next]_(Promise!vars)
  <1>1. \A c \in C : Seen[c] = "called"
    BY DEF Seen
  <1>2. Seen' = [c \in Callers |-> IF c \in C THEN "err" ELSE Seen[c]]
    BY DEF Seen
  <1>3. CASE C = {}
    <2>1. Seen' = Seen
      BY <1>2, <1>3 DEF Seen
    <2> QED BY <2>1 DEF Promise!vars
  <1>4. CASE C # {}
    <2>1. Promise!Fail(C)
      BY <1>1, <1>2, <1>4 DEF Promise!Fail
    <2> QED BY <2>1 DEF Promise!Next
  <1> QED BY <1>3, <1>4

\* Each step is a step of RpcCall or none.
LEMMA PromiseStep ==
  ASSUME RpcInv, RpcInv', [Next]_vars
  PROVE  [Promise!Next]_(Promise!vars)
  <1>1. /\ Types /\ Rest /\ OneLink /\ (\A c \in Callers : Stage(c)) /\ NoDuplicates
        /\ Phase = Seen
    BY PhaseIsSeen DEF RpcInv, Rest
  <1>2. Phase' = Seen'
    BY DEF RpcInv, Stage, Phase, Seen
  <1>3. ASSUME gcall' = gcall, runs' = runs PROVE [Promise!Next]_(Promise!vars)
    BY <1>3, PromiseStutter
  <1>4. CASE UNCHANGED vars
    BY <1>3, <1>4 DEF vars, game
  <1>5. CASE Dial
    <2>1. PICK k \in Conns : up[k] = "none" /\ gcall' = [gcall EXCEPT ![k].at = "called"] /\ runs' = runs
      BY <1>5 DEF Dial
    <2>2. k \in Callers /\ gcall[k].at = "new"
      BY <1>1, <2>1, CallersFinite DEF OneLink
    <2> QED BY <1>1, <1>2, <2>1, <2>2, PromiseInvoke
  <1>6. ASSUME NEW k \in Conns, Break(k) PROVE [Promise!Next]_(Promise!vars)
    BY <1>3, <1>6 DEF Break, game
  <1>7. ASSUME NEW c \in GCalls, Call(c) PROVE [Promise!Next]_(Promise!vars)
    <2>1. c \in Callers /\ gcall[c].at = "new" /\ gcall' = [gcall EXCEPT ![c].at = "called"] /\ runs' = runs
      BY <1>7 DEF Call, Callers
    <2> QED BY <1>1, <1>2, <2>1, PromiseInvoke
  <1>8. ASSUME NEW m \in Checks, IsOnline(m) \/ AskNext(m) \/ Ask(m) \/ AskWrites(m)
        PROVE  [Promise!Next]_(Promise!vars)
    BY <1>3, <1>8 DEF IsOnline, AskNext, Ask, AskWrites, game
  <1>9. ASSUME NEW c \in Callers, gcall[c].at \in {"called", "wait"},
               gcall' = [gcall EXCEPT ![c].at = "err"], runs' = runs
        PROVE  [Promise!Next]_(Promise!vars)
    <2>1. gcall'[c].at = "err" /\ \A d \in Callers \ {c} : gcall'[d] = gcall[d]
      BY <1>1, <1>9 DEF Types, Outcomes
    <2>2. PICK C \in SUBSET Callers : C = {c}
      OBVIOUS
    <2> QED BY <1>1, <1>2, <1>9, <2>1, <2>2, PromiseFail
  <1>10. ASSUME NEW c \in Callers, Send(c) PROVE [Promise!Next]_(Promise!vars)
    <2>1. gcall[c].at = "called" /\ runs' = runs
      BY <1>10 DEF Send
    <2>2. CASE gcall' = [gcall EXCEPT ![c].at = "err"]
      BY <1>9, <2>1, <2>2
    <2>3. CASE gcall' = [gcall EXCEPT ![c].at = "wait"]
      <3>1. gcall'[c].at = "wait" /\ \A d \in Callers \ {c} : gcall'[d] = gcall[d]
        BY <1>1, <2>3 DEF Types, Outcomes
      <3>2. Seen' = Seen
        BY <2>1, <3>1 DEF Seen
      <3> QED BY <1>1, <1>2, <2>1, <3>2 DEF Promise!vars
    <2> QED BY <1>10, <2>2, <2>3 DEF Send
  <1>11. ASSUME NEW c \in Callers, WriteRequest(c) PROVE [Promise!Next]_(Promise!vars)
    <2>1. runs' = runs /\ gcall[c].at = "wait"
      BY <1>1, <1>11 DEF WriteRequest, Stage
    <2>2. gcall' = gcall \/ gcall' = [gcall EXCEPT ![c].at = "err"]
      BY <1>11 DEF WriteRequest
    <2> QED BY <1>3, <1>9, <2>1, <2>2
  <1>12. ASSUME NEW k \in Conns, GameReads(k) PROVE [Promise!Next]_(Promise!vars)
    <2>1. runs' = runs
      BY <1>12 DEF GameReads
    <2>2. CASE Head(toGame[k]).kind = "req"
      BY <1>3, <1>12, <2>1, <2>2 DEF GameReads
    <2>3. CASE Head(toGame[k]).kind # "req"
      <3>1. PICK msg : msg = Head(toGame[k])
        OBVIOUS
      <3>2. PICK c : c = client.pending[msg.seq]
        OBVIOUS
      <3>3. gcall' = IF c = None THEN gcall ELSE [gcall EXCEPT ![c] = [at |-> "ok", got |-> msg.of]]
        BY <1>12, <2>3, <3>1, <3>2 DEF GameReads
      <3>4. msg.of \in Callers /\ c \in {None, msg.of} /\ gcall[msg.of].at = "wait" /\ runs[msg.of] = 1
        BY <1>1, <1>12, <2>3, <3>1, <3>2, OwnAnswer
      <3>5. CASE c = None
        BY <1>3, <2>1, <3>3, <3>5
      <3>6. CASE c # None
        <4>1. c \in Callers /\ gcall[c].at = "wait" /\ runs[c] = 1
          BY <3>4, <3>6
        <4>2. gcall'[c].at = "ok" /\ \A d \in Callers \ {c} : gcall'[d] = gcall[d]
          BY <1>1, <3>3, <3>6, <4>1 DEF Types
        <4>3. Seen[c] = "called" /\ Seen' = [Seen EXCEPT ![c] = "ok"]
          BY <4>1, <4>2 DEF Seen
        <4>4. Promise!Answer(c)
          BY <1>1, <1>2, <2>1, <4>1, <4>3 DEF Promise!Answer
        <4> QED BY <4>1, <4>4 DEF Promise!Next
      <3> QED BY <3>5, <3>6
    <2> QED BY <2>2, <2>3
  <1>13. ASSUME NEW k \in Conns, GameLoopEnds(k) PROVE [Promise!Next]_(Promise!vars)
    <2>1. PICK F : F = {client.pending[n] : n \in Seqs} \ {None}
      OBVIOUS
    <2>2. /\ runs' = runs
          /\ gcall' = [c \in Callers |-> IF c \in F /\ gcall[c].at = "wait" THEN [gcall[c] EXCEPT !.at = "err"] ELSE gcall[c]]
      BY <1>13, <2>1 DEF GameLoopEnds
    <2>3. PICK C \in SUBSET Callers : C = {c \in Callers : c \in F /\ gcall[c].at = "wait"}
      OBVIOUS
    <2>4. \A c \in C : gcall[c].at \in {"called", "wait"} /\ gcall'[c].at = "err"
      BY <1>1, <2>2, <2>3 DEF Types, Outcomes
    <2>5. \A c \in Callers \ C : gcall'[c] = gcall[c]
      BY <2>2, <2>3
    <2> QED BY <1>1, <1>2, <2>2, <2>4, <2>5, PromiseFail
  <1>14. ASSUME NEW h \in handlers, GameAnswers(h) PROVE [Promise!Next]_(Promise!vars)
    BY <1>3, <1>14 DEF GameAnswers, game
  <1>15. ASSUME NEW k \in Conns, MasterReads(k) \/ MasterLoopEnds(k) \/ RemoveServer(k)
         PROVE  [Promise!Next]_(Promise!vars)
    BY <1>3, <1>15 DEF MasterReads, MasterLoopEnds, RemoveServer, game
  <1>16. ASSUME NEW h \in handlers, MasterAnswers(h) PROVE [Promise!Next]_(Promise!vars)
    <2>1. PICK c : c = h.of
      OBVIOUS
    <2>2. h.side = "master" /\ runs' = [runs EXCEPT ![c] = @ + 1] /\ gcall' = gcall
      BY <1>16, <2>1 DEF MasterAnswers, game
    <2>3. c \in Callers /\ Served(c)
      BY <1>1, <2>1, <2>2 DEF NoDuplicates, Served
    <2>4. runs[c] = 0 /\ gcall[c].at \in {"wait", "err"}
      BY <1>1, <2>3 DEF Stage, Types, Outcomes
    <2>5. Seen[c] \in {"called", "err"} /\ Seen' = Seen
      BY <2>2, <2>3, <2>4 DEF Seen
    <2>6. runs' = [runs EXCEPT ![c] = 1]
      BY <1>1, <2>2, <2>3, <2>4 DEF Types
    <2>7. Promise!Run(c)
      BY <1>1, <1>2, <2>4, <2>5, <2>6 DEF Promise!Run
    <2> QED BY <2>3, <2>7 DEF Promise!Next
  <1> QED BY <1>4, <1>5, <1>6, <1>7, <1>8, <1>10, <1>11, <1>12, <1>13, <1>14, <1>15, <1>16
        DEF Next, GameStep, MasterStep

\* Over any number of breaks and dials a call of the game server goes through
\* the steps of RpcCall: it is served at most once, an answer is its own and
\* comes after it was served, an error comes only to who has no answer (Call,
\* send, readLoop).  That each call comes back is left to the run.
THEOREM RpcKeepsPromise == Spec => Promise!Init /\ [][Promise!Next]_(Promise!vars)
  <1>1. RpcInv /\ RpcInv' /\ [Next]_vars => [Promise!Next]_(Promise!vars)
    BY PromiseStep
  <1> QED BY <1>1, PromiseInit, RpcInvariant, PTL DEF Spec

----------------------------------------------------------------------------
(* The chat server: the inductive invariant. *)

Presence == [Chars -> Statuses \cup {"offline", Nil}]

\* Where a goroutine that deals with two different characters can be.
Pairing == {"check", "invite", "add", "insert", "delete", "memo", "note"}
Places ==
    Pairing \cup {"idle", "notify", "lists", "load", "build", "send", "views", "invites", "remember"}

Calls ==
    [at : Places,
     op : {"none", "login", "logout", "state", "disconnect", "list", "add", "accept", "delete", "memo", "view"},
     s : Sessions \cup {Nil}, who : Chars \cup {Nil}, peer : Chars \cup {Nil}, own : BOOLEAN,
     todo : SUBSET Chars, to : Sessions \cup {Nil}, rows : SUBSET Chars, list : Presence]

\* The two characters of a goroutine are known, and of a pair different.
PairOK(c) ==
    /\ c.at \in Pairing \cup {"remember"} => c.who \in Chars /\ c.peer \in Chars
    /\ c.at \in Pairing => c.who # c.peer

CallsOK == call \in [Handlers -> Calls] /\ \A h \in Handlers : PairOK(call[h])

\* Nobody invites himself.
Invited == \A c \in Chars : invites[c] # c

ChatInv == ChatTypeOK /\ CallsOK /\ Invited /\ Mutual

Sess == [open : {"new", "open", "closed", "left"}, char : Chars \cup {Nil}, login : BOOLEAN,
         status : Statuses \cup {"offline"}]

----------------------------------------------------------------------------
(* What a goroutine becomes. *)

\* A goroutine that is done is in order.
LEMMA IdleOK == Idle \in Calls /\ PairOK(Idle) /\ NoList \in Presence
  <1>1. NoList \in Presence
    BY DEF NoList, Presence
  <1>2. Idle \in Calls
    BY <1>1 DEF Idle, Calls, Places
  <1>3. PairOK(Idle)
    BY DEF PairOK, Idle, Pairing
  <1> QED BY <1>1, <1>2, <1>3

\* A goroutine that takes up a packet.
LEMMA StartedOK ==
  ASSUME ChatInv, NEW s \in Sessions, NEW op \in {"login", "logout", "state", "disconnect", "list", "add", "accept", "delete", "memo", "view"}
  PROVE  /\ Taking(op, s) \in Calls /\ sess[s].char \in Chars \cup {Nil}
         /\ Taking(op, s).who = sess[s].char /\ Taking(op, s).peer = Nil
  <1>1. sess[s].char \in Chars \cup {Nil}
    BY DEF ChatInv, ChatTypeOK
  <1> QED BY <1>1, IdleOK DEF Taking, Idle, Calls

\* A step that changes only what one goroutine does.
LEMMA CallBecomes ==
  ASSUME CallsOK, NEW h \in Handlers, NEW c \in Calls, PairOK(c), Becomes(h, c)
  PROVE  CallsOK'
  <1>1. call' = [call EXCEPT ![h] = c] /\ call \in [Handlers -> Calls]
    BY DEF Becomes, CallsOK
  <1>2. call' \in [Handlers -> Calls]
    BY <1>1
  <1>3. \A g \in Handlers : call'[g] = c \/ call'[g] = call[g]
    BY <1>1
  <1>4. \A g \in Handlers : PairOK(call'[g])
    BY <1>3 DEF CallsOK
  <1> QED BY <1>2, <1>4 DEF CallsOK

\* A step that changes one goroutine only.
LEMMA CallOnly ==
  ASSUME ChatInv, NEW h \in Handlers, NEW c \in Calls, PairOK(c), Becomes(h, c), UNCHANGED <<server, db, told>>
  PROVE  ChatInv'
  <1>1. CallsOK'
    BY CallBecomes DEF ChatInv
  <1> QED BY <1>1 DEF ChatInv, ChatTypeOK, Invited, Mutual, server, db

\* A goroutine of which the rest stays types.
LEMMA HandlerOK ==
  ASSUME ChatInv, NEW h \in Handlers
  PROVE  call[h] \in Calls /\ PairOK(call[h])
  BY DEF ChatInv, CallsOK

\* A new stage of a goroutine.
LEMMA AtOK ==
  ASSUME NEW c \in Calls, NEW at \in Places,
         at \in Pairing \cup {"remember"} => c.who \in Chars /\ c.peer \in Chars,
         at \in Pairing => c.who # c.peer
  PROVE  [c EXCEPT !.at = at] \in Calls /\ PairOK([c EXCEPT !.at = at])
  <1>1. [c EXCEPT !.at = at] \in Calls
    BY DEF Calls
  <1>2. [c EXCEPT !.at = at].at = at /\ [c EXCEPT !.at = at].who = c.who /\ [c EXCEPT !.at = at].peer = c.peer
    BY DEF Calls
  <1> QED BY <1>1, <1>2 DEF PairOK

\* What a goroutine goes on with once the friends have their lists.
LEMMA NotifiedOK ==
  ASSUME NEW c \in Calls
  PROVE  Notified(c) \in Calls /\ PairOK(Notified(c))
  <1>1. CASE Notified(c) = Idle
    BY <1>1, IdleOK
  <1>2. CASE Notified(c) = [c EXCEPT !.at = "views", !.list = NoList]
    <2>1. PICK n : n = [c EXCEPT !.at = "views", !.list = NoList]
      OBVIOUS
    <2>2. n \in Calls
      BY <2>1, IdleOK DEF Calls, Places
    <2>3. n.at = "views"
      BY <2>1 DEF Calls
    <2> QED BY <1>2, <2>1, <2>2, <2>3 DEF PairOK, Pairing
  <1> QED BY <1>1, <1>2 DEF Notified


----------------------------------------------------------------------------
(* Steps that change only what a goroutine does. *)

\* notifyBuddyPresence looks up whom to tell.
LEMMA NotifyKeeps == ASSUME ChatInv, NEW h \in Handlers, notifyBuddyPresence(h) PROVE ChatInv'
  <1>1. PICK c \in Calls : c = call[h]
    BY HandlerOK
  <1>2. PICK n : n = [c EXCEPT !.at = "lists", !.todo = Friends(c.who)]
    OBVIOUS
  <1>3. n \in Calls /\ n.at = "lists"
    BY <1>2 DEF Calls, Places, Friends
  <1>4. PairOK(n)
    BY <1>3 DEF PairOK, Pairing
  <1>5. (Becomes(h, n) \/ Becomes(h, Notified(c))) /\ UNCHANGED <<server, db, told>>
    BY <1>1, <1>2 DEF notifyBuddyPresence
  <1> QED BY <1>3, <1>4, <1>5, NotifiedOK, CallOnly

\* The loop takes the next friend with a session, or ends.
LEMMA NextListKeeps == ASSUME ChatInv, NEW h \in Handlers, NextList(h) PROVE ChatInv'
  <1>1. PICK c \in Calls : c = call[h]
    BY HandlerOK
  <1>2. c.at = "lists" /\ UNCHANGED <<server, db, told>>
    BY <1>1 DEF NextList
  <1>3. CASE Becomes(h, Notified(c))
    BY <1>2, <1>3, NotifiedOK, CallOnly
  <1>4. CASE Becomes(h, [c EXCEPT !.own = FALSE, !.at = "load", !.to = c.s])
    <2>1. PICK n : n = [c EXCEPT !.own = FALSE, !.at = "load", !.to = c.s]
      OBVIOUS
    <2>2. n \in Calls /\ n.at = "load"
      BY <2>1 DEF Calls, Places
    <2>3. PairOK(n)
      BY <2>2 DEF PairOK, Pairing
    <2> QED BY <1>2, <1>4, <2>1, <2>2, <2>3, CallOnly
  <1>5. ASSUME NEW f \in c.todo, Becomes(h, [c EXCEPT !.todo = @ \ {f}]) PROVE ChatInv'
    <2>1. PICK n : n = [c EXCEPT !.todo = @ \ {f}]
      OBVIOUS
    <2>2. n \in Calls /\ n.at = "lists"
      BY <1>2, <2>1 DEF Calls
    <2>3. PairOK(n)
      BY <2>2 DEF PairOK, Pairing
    <2> QED BY <1>2, <1>5, <2>1, <2>2, <2>3, CallOnly
  <1>6. ASSUME NEW f \in c.todo, NEW t \in Sessions, Becomes(h, [c EXCEPT !.todo = @ \ {f}, !.at = "load", !.to = t])
        PROVE  ChatInv'
    <2>1. PICK n : n = [c EXCEPT !.todo = @ \ {f}, !.at = "load", !.to = t]
      OBVIOUS
    <2>2. n \in Calls /\ n.at = "load"
      BY <2>1 DEF Calls, Places
    <2>3. PairOK(n)
      BY <2>2 DEF PairOK, Pairing
    <2> QED BY <1>2, <1>6, <2>1, <2>2, <2>3, CallOnly
  <1> QED BY <1>1, <1>3, <1>4, <1>5, <1>6 DEF NextList, buddySessions

\* LoadBuddyList reads the rows of one friend.
LEMMA LoadKeeps == ASSUME ChatInv, NEW h \in Handlers, LoadBuddyList(h) PROVE ChatInv'
  <1>1. PICK c \in Calls : c = call[h]
    BY HandlerOK
  <1>2. PICK R \in SUBSET Chars : R = Friends(sess[c.to].char)
    BY DEF Friends
  <1>3. PICK n : n = [c EXCEPT !.at = "build", !.rows = R]
    OBVIOUS
  <1>4. Becomes(h, n) /\ UNCHANGED <<server, db, told>>
    BY <1>1, <1>2, <1>3 DEF LoadBuddyList
  <1>5. n \in Calls /\ n.at = "build"
    BY <1>3 DEF Calls, Places
  <1>6. PairOK(n)
    BY <1>5 DEF PairOK, Pairing
  <1> QED BY <1>4, <1>5, <1>6, CallOnly

\* The list is put together from the sessions there are by then.
LEMMA BuildKeeps == ASSUME ChatInv, NEW h \in Handlers, BuildList(h) PROVE ChatInv'
  <1>1. PICK c \in Calls : c = call[h]
    BY HandlerOK
  <1>2. PICK shown \in Presence : Becomes(h, [c EXCEPT !.at = "send", !.rows = {}, !.list = shown])
    BY <1>1 DEF BuildList, Presence
  <1>3. UNCHANGED <<server, db, told>>
    BY DEF BuildList
  <1>4. PICK n : n = [c EXCEPT !.at = "send", !.rows = {}, !.list = shown]
    OBVIOUS
  <1>5. n \in Calls /\ n.at = "send"
    BY <1>4 DEF Calls, Places
  <1>6. PairOK(n)
    BY <1>5 DEF PairOK, Pairing
  <1> QED BY <1>2, <1>3, <1>4, <1>5, <1>6, CallOnly

\* The goroutine goes on with the same two characters, or is done.
LEMMA AtKeeps ==
  ASSUME ChatInv, NEW h \in Handlers, NEW at \in Places,
         at \in Pairing \cup {"remember"} => call[h].at \in Pairing,
         Becomes(h, [call[h] EXCEPT !.at = at]) \/ Becomes(h, Idle), UNCHANGED <<server, db, told>>
  PROVE  ChatInv'
  <1>1. PICK c \in Calls : c = call[h] /\ PairOK(c)
    BY HandlerOK
  <1>2. at \in Pairing \cup {"remember"} => c.who \in Chars /\ c.peer \in Chars /\ c.who # c.peer
    BY <1>1 DEF PairOK
  <1>3. [c EXCEPT !.at = at] \in Calls /\ PairOK([c EXCEPT !.at = at])
    BY <1>2, AtOK
  <1>4. CASE Becomes(h, Idle)
    BY <1>4, IdleOK, CallOnly
  <1>5. CASE Becomes(h, [c EXCEPT !.at = at])
    BY <1>3, <1>5, CallOnly
  <1> QED BY <1>1, <1>4, <1>5

\* The reads before an invitation and before an addition.
LEMMA ChecksKeep == ASSUME ChatInv, NEW h \in Handlers, BuddyAddCheck(h) \/ AddBuddyRead(h) PROVE ChatInv'
  <1>1. CASE BuddyAddCheck(h)
    <2>1. call[h].at = "check" /\ UNCHANGED <<server, db, told>>
          /\ (Becomes(h, [call[h] EXCEPT !.at = "invite"]) \/ Becomes(h, Idle))
      BY <1>1 DEF BuddyAddCheck
    <2> QED BY <2>1, AtKeeps DEF Places, Pairing
  <1>2. CASE AddBuddyRead(h)
    <2>1. call[h].at = "add" /\ UNCHANGED <<server, db, told>>
          /\ (Becomes(h, [call[h] EXCEPT !.at = "insert"]) \/ Becomes(h, Idle))
      BY <1>2 DEF AddBuddyRead
    <2> QED BY <2>1, AtKeeps DEF Places, Pairing
  <1> QED BY <1>1, <1>2

\* A call to the master fails.
LEMMA CallFailsKeeps == ASSUME ChatInv, NEW h \in Handlers, CallFails(h) PROVE ChatInv'
  <1>1. PICK c \in Calls : c = call[h]
    BY HandlerOK
  <1>2. UNCHANGED <<server, db, told>>
    BY DEF CallFails
  <1>3. CASE Becomes(h, Idle)
    BY <1>2, <1>3, IdleOK, CallOnly
  <1>4. CASE Becomes(h, Notified(c))
    BY <1>2, <1>4, NotifiedOK, CallOnly
  <1>5. CASE Becomes(h, [c EXCEPT !.at = "build", !.rows = {}])
    <2>1. PICK n : n = [c EXCEPT !.at = "build", !.rows = {}]
      OBVIOUS
    <2>2. n \in Calls /\ n.at = "build"
      BY <2>1 DEF Calls, Places
    <2>3. PairOK(n)
      BY <2>2 DEF PairOK, Pairing
    <2> QED BY <1>2, <1>5, <2>1, <2>2, <2>3, CallOnly
  <1>6. CASE c.at = "check" /\ Becomes(h, [c EXCEPT !.at = "invite"])
    BY <1>1, <1>2, <1>6, AtKeeps DEF Places, Pairing
  <1> QED BY <1>1, <1>3, <1>4, <1>5, <1>6 DEF CallFails

\* A packet about another character: the goroutine gets the two of them.
LEMMA PairStarts ==
  ASSUME ChatInv, NEW s \in Sessions, sess[s].char # Nil, NEW target \in Chars,
         NEW op \in {"add", "delete", "memo", "view"},
         NEW at \in {"check", "delete", "memo", "remember"}, at # "remember" => target # sess[s].char
  PROVE  [Taking(op, s) EXCEPT !.at = at, !.peer = target] \in Calls
         /\ PairOK([Taking(op, s) EXCEPT !.at = at, !.peer = target])
  <1>1. PICK c \in Calls : c = Taking(op, s) /\ c.who = sess[s].char /\ c.who \in Chars
    BY StartedOK
  <1>2. PICK n : n = [c EXCEPT !.at = at, !.peer = target]
    OBVIOUS
  <1>3. n \in Calls /\ n.at = at /\ n.peer = target /\ n.who = c.who
    BY <1>2 DEF Calls, Places, Pairing
  <1>4. PairOK(n)
    BY <1>1, <1>3 DEF PairOK, Pairing
  <1> QED BY <1>1, <1>2, <1>3, <1>4

\* The packets that name another character start with two different ones.
LEMMA PairPacketsKeep ==
  ASSUME ChatInv, NEW h \in Handlers, NEW s \in Sessions, NEW target \in Chars,
         \/ handleBuddyMemberAdd(h, s, target) \/ handleBuddyMemberDelete(h, s, target)
         \/ handleBuddyMemberMemoModify(h, s, target) \/ handleEquipmentViewRequest(h, s, target)
  PROVE  ChatInv'
  <1>1. sess[s].char # Nil /\ UNCHANGED <<server, db, told>>
    BY DEF handleBuddyMemberAdd, handleBuddyMemberDelete, handleBuddyMemberMemoModify,
           handleEquipmentViewRequest, ReceivesFrom
  <1>2. PICK op \in {"add", "delete", "memo", "view"}, at \in {"check", "delete", "memo", "remember"} :
          /\ at # "remember" => target # sess[s].char
          /\ Becomes(h, [Taking(op, s) EXCEPT !.at = at, !.peer = target])
    BY DEF handleBuddyMemberAdd, handleBuddyMemberDelete, handleBuddyMemberMemoModify, handleEquipmentViewRequest
  <1>3. PICK n : n = [Taking(op, s) EXCEPT !.at = at, !.peer = target]
    OBVIOUS
  <1>4. n \in Calls /\ PairOK(n)
    BY <1>1, <1>2, <1>3, PairStarts
  <1> QED BY <1>1, <1>2, <1>3, <1>4, CallOnly

\* A client asks for its list.
LEMMA MemberListKeeps ==
  ASSUME ChatInv, NEW h \in Handlers, NEW s \in Sessions, handleBuddyMemberList(h, s)
  PROVE  ChatInv'
  <1>1. PICK c \in Calls : c = Taking("list", s)
    BY StartedOK
  <1>2. PICK n : n = [c EXCEPT !.at = "lists", !.own = TRUE]
    OBVIOUS
  <1>3. Becomes(h, n) /\ UNCHANGED <<server, db, told>>
    BY <1>1, <1>2 DEF handleBuddyMemberList
  <1>4. n \in Calls /\ n.at = "lists"
    BY <1>2 DEF Calls, Places
  <1>5. PairOK(n)
    BY <1>4 DEF PairOK, Pairing
  <1> QED BY <1>3, <1>4, <1>5, CallOnly


----------------------------------------------------------------------------
(* Steps that change a session. *)

\* The rows, the invitations and the requests stay.
LEMMA SessionOnly ==
  ASSUME ChatInv, sess' \in [Sessions -> Sess], told' \in [Sessions -> Presence], CallsOK',
         UNCHANGED <<invites, views, db>>
  PROVE  ChatInv'
  BY DEF ChatInv, ChatTypeOK, Invited, Mutual, db, Sess, Presence

\* The types of the sessions and of what they were told.
LEMMA SessionTypes ==
  ASSUME ChatInv
  PROVE  sess \in [Sessions -> Sess] /\ told \in [Sessions -> Presence] /\ CallsOK /\ NoList \in Presence
  BY IdleOK DEF ChatInv, ChatTypeOK, Sess, Presence

\* A step that changes one session.
LEMMA SessionEdit ==
  ASSUME ChatInv, NEW s \in Sessions, NEW r \in Sess, sess' = [sess EXCEPT ![s] = r],
         told' = told \/ told' = [told EXCEPT ![s] = NoList], CallsOK', UNCHANGED <<invites, views, db>>
  PROVE  ChatInv'
  <1>1. sess' \in [Sessions -> Sess] /\ told' \in [Sessions -> Presence]
    BY SessionTypes
  <1> QED BY <1>1, SessionOnly

\* A new connection.
LEMMA ConnectKeeps == ASSUME ChatInv, NEW s \in Sessions, onClientConnect(s) \/ Close(s) PROVE ChatInv'
  <1>1. PICK o \in {"open", "closed"} : sess' = [sess EXCEPT ![s].open = o]
    BY DEF onClientConnect, Close
  <1>2. (told' = told \/ told' = [told EXCEPT ![s] = NoList]) /\ UNCHANGED <<invites, views, db>> /\ call' = call
    BY DEF onClientConnect, Close
  <1>3. PICK r \in Sess : r = [sess[s] EXCEPT !.open = o]
    BY SessionTypes DEF Sess
  <1>4. sess' = [sess EXCEPT ![s] = r]
    BY <1>1, <1>3
  <1>5. CallsOK'
    BY <1>2, SessionTypes DEF CallsOK
  <1> QED BY <1>2, <1>4, <1>5, SessionEdit

\* Authentication gives the session its character.
LEMMA AuthKeeps == ASSUME ChatInv, NEW h \in Handlers, NEW s \in Sessions, handleAuth(h, s) PROVE ChatInv'
  <1>1. sess' = [sess EXCEPT ![s].char = Owner[s]] /\ UNCHANGED <<invites, views, db>> /\ told' = told /\ call' = call
    BY DEF handleAuth
  <1>2. PICK r \in Sess : r = [sess[s] EXCEPT !.char = Owner[s]]
    BY SessionTypes, OwnerAssumption DEF Sess
  <1>3. sess' = [sess EXCEPT ![s] = r]
    BY <1>1, <1>2
  <1>4. CallsOK'
    BY <1>1, SessionTypes DEF CallsOK
  <1> QED BY <1>1, <1>3, <1>4, SessionEdit

\* The goroutine of a presence packet starts to notify the friends.
LEMMA NotifyStarts ==
  ASSUME ChatInv, NEW s \in Sessions, NEW op \in {"login", "logout", "state", "disconnect"}, NEW c \in Chars \cup {Nil},
         NEW at \in {"notify", "invites"}
  PROVE  /\ [Taking(op, s) EXCEPT !.at = at] \in Calls /\ PairOK([Taking(op, s) EXCEPT !.at = at])
         /\ [Taking(op, s) EXCEPT !.at = at, !.who = c] \in Calls /\ PairOK([Taking(op, s) EXCEPT !.at = at, !.who = c])
  <1>1. PICK d \in Calls : d = Taking(op, s)
    BY StartedOK
  <1>2. PICK n : n = [d EXCEPT !.at = at, !.who = c]
    OBVIOUS
  <1>3. n \in Calls /\ n.at = at
    BY <1>2 DEF Calls, Places
  <1>4. PairOK(n)
    BY <1>3 DEF PairOK, Pairing
  <1>5. PICK m : m = [d EXCEPT !.at = at]
    OBVIOUS
  <1>6. m \in Calls /\ m.at = at
    BY <1>5 DEF Calls, Places
  <1>7. PairOK(m)
    BY <1>6 DEF PairOK, Pairing
  <1> QED BY <1>1, <1>2, <1>3, <1>4, <1>5, <1>6, <1>7

\* A login gives its session a character and starts to tell its friends.
LEMMA LoginKeeps == ASSUME ChatInv, NEW h \in Handlers, NEW s \in Sessions, handleLogin(h, s) PROVE ChatInv'
  <1>1. PICK c \in {sess[s].char, Owner[s]} \ {Nil} :
          /\ sess' = [sess EXCEPT ![s].char = c, ![s].login = TRUE, ![s].status = "online"]
          /\ Becomes(h, [Taking("login", s) EXCEPT !.at = "notify", !.who = c])
    BY DEF handleLogin
  <1>2. told' = [told EXCEPT ![s] = NoList] /\ UNCHANGED <<invites, views, db>>
    BY DEF handleLogin
  <1>3. c \in Chars
    BY OwnerAssumption, SessionTypes DEF Sess
  <1>4. PICK r \in Sess : r = [sess[s] EXCEPT !.char = c, !.login = TRUE, !.status = "online"]
    BY <1>3, SessionTypes, StatusAssumption DEF Sess
  <1>5. sess' = [sess EXCEPT ![s] = r]
    BY <1>1, <1>4, SessionTypes
  <1>6. PICK n : n = [Taking("login", s) EXCEPT !.at = "notify", !.who = c]
    OBVIOUS
  <1>7. n \in Calls /\ PairOK(n)
    BY <1>3, <1>6, NotifyStarts
  <1>8. CallsOK'
    BY <1>1, <1>6, <1>7, CallBecomes, SessionTypes
  <1> QED BY <1>2, <1>5, <1>8, SessionEdit

\* A logout starts to tell the friends.
LEMMA LogoutKeeps == ASSUME ChatInv, NEW h \in Handlers, NEW s \in Sessions, handleLogout(h, s) PROVE ChatInv'
  <1>1. /\ sess' = [sess EXCEPT ![s].status = "offline", ![s].login = FALSE]
        /\ Becomes(h, [Taking("logout", s) EXCEPT !.at = "notify"])
        /\ UNCHANGED <<invites, views, db>> /\ told' = told
    BY DEF handleLogout
  <1>2. PICK r \in Sess : r = [sess[s] EXCEPT !.status = "offline", !.login = FALSE]
    BY SessionTypes DEF Sess
  <1>3. sess' = [sess EXCEPT ![s] = r]
    BY <1>1, <1>2, SessionTypes
  <1>4. PICK n : n = [Taking("logout", s) EXCEPT !.at = "notify"]
    OBVIOUS
  <1>5. n \in Calls /\ PairOK(n)
    BY <1>4, NotifyStarts
  <1>6. CallsOK'
    BY <1>1, <1>4, <1>5, CallBecomes, SessionTypes
  <1> QED BY <1>1, <1>3, <1>6, SessionEdit

\* A new status of the session.
LEMMA StateKeeps ==
  ASSUME ChatInv, NEW h \in Handlers, NEW s \in Sessions, NEW status \in Statuses, handleCharGameStateChange(h, s, status)
  PROVE  ChatInv'
  <1>1. /\ sess' = [sess EXCEPT ![s].status = status]
        /\ Becomes(h, [Taking("state", s) EXCEPT !.at = "notify"])
        /\ UNCHANGED <<invites, views, db>> /\ told' = told
    BY DEF handleCharGameStateChange
  <1>2. PICK r \in Sess : r = [sess[s] EXCEPT !.status = status]
    BY SessionTypes DEF Sess
  <1>3. sess' = [sess EXCEPT ![s] = r]
    BY <1>1, <1>2
  <1>4. PICK n : n = [Taking("state", s) EXCEPT !.at = "notify"]
    OBVIOUS
  <1>5. n \in Calls /\ PairOK(n)
    BY <1>4, NotifyStarts
  <1>6. CallsOK'
    BY <1>1, <1>4, <1>5, CallBecomes, SessionTypes
  <1> QED BY <1>1, <1>3, <1>6, SessionEdit

\* A disconnect starts to clear up after its session.
LEMMA DisconnectKeeps == ASSUME ChatInv, NEW h \in Handlers, NEW s \in Sessions, onClientDisconnect(h, s) PROVE ChatInv'
  <1>1. PICK there \in BOOLEAN :
          /\ sess' = [sess EXCEPT ![s].open = "left", ![s].login = @ /\ ~there]
          /\ Becomes(h, [Taking("disconnect", s) EXCEPT !.at = IF there THEN "notify" ELSE "invites"])
    BY DEF onClientDisconnect
  <1>2. UNCHANGED <<invites, views, db>> /\ told' = told
    BY DEF onClientDisconnect
  <1>3. PICK at \in {"notify", "invites"} : at = IF there THEN "notify" ELSE "invites"
    OBVIOUS
  <1>4. PICK r \in Sess : r = [sess[s] EXCEPT !.open = "left", !.login = @ /\ ~there]
    BY SessionTypes DEF Sess
  <1>5. sess' = [sess EXCEPT ![s] = r]
    BY <1>1, <1>4, SessionTypes
  <1>6. PICK n : n = [Taking("disconnect", s) EXCEPT !.at = at]
    OBVIOUS
  <1>7. n \in Calls /\ PairOK(n)
    BY <1>6, NotifyStarts
  <1>8. CallsOK'
    BY <1>1, <1>3, <1>6, <1>7, CallBecomes, SessionTypes
  <1> QED BY <1>2, <1>5, <1>8, SessionEdit

\* A list reaches a client.
LEMMA SendListKeeps == ASSUME ChatInv, NEW h \in Handlers, SendList(h) PROVE ChatInv'
  <1>1. PICK c \in Calls : c = call[h]
    BY HandlerOK
  <1>2. (told' = told \/ told' = [told EXCEPT ![c.to] = c.list]) /\ UNCHANGED <<server, db>>
    BY <1>1 DEF SendList
  <1>3. PICK n : n = [c EXCEPT !.at = "lists", !.to = Nil, !.list = NoList]
    OBVIOUS
  <1>4. Becomes(h, n)
    BY <1>1, <1>3 DEF SendList
  <1>5. n \in Calls /\ n.at = "lists"
    BY <1>3, IdleOK DEF Calls, Places
  <1>6. PairOK(n)
    BY <1>5 DEF PairOK, Pairing
  <1>7. CallsOK'
    BY <1>4, <1>5, <1>6, CallBecomes, SessionTypes
  <1>8. c.list \in Presence
    BY DEF Calls
  <1>9. told' \in [Sessions -> Presence]
    BY <1>2, <1>8, SessionTypes
  <1> QED BY <1>2, <1>7, <1>9, SessionOnly, SessionTypes DEF server


----------------------------------------------------------------------------
(* Invitations and requests. *)

\* What touches the equipment views only.
LEMMA ViewsKeep ==
  ASSUME ChatInv, NEW h \in Handlers,
         \/ rememberEquipmentViewRequest(h) \/ ClearEquipmentViewRequests(h)
         \/ \E s \in Sessions, c \in Chars : handleEquipmentViewResponse(h, s, c)
  PROVE  ChatInv'
  <1>1. PICK c \in Calls : c = call[h] /\ PairOK(c)
    BY HandlerOK
  <1>2. UNCHANGED <<invites, db, told>>
    BY DEF rememberEquipmentViewRequest, ClearEquipmentViewRequests, handleEquipmentViewResponse
  <1>3. views' \subseteq Chars \X Chars
    <2>1. views \subseteq Chars \X Chars
      BY DEF ChatInv, ChatTypeOK
    <2>2. CASE rememberEquipmentViewRequest(h)
      <3>1. views' = views \cup {<<c.peer, c.who>>} /\ c.at = "remember"
        BY <1>1, <2>2 DEF rememberEquipmentViewRequest
      <3>2. c.peer \in Chars /\ c.who \in Chars
        BY <1>1, <3>1 DEF PairOK
      <3> QED BY <2>1, <3>1, <3>2
    <2>3. CASE views' \subseteq views
      BY <2>1, <2>3
    <2> QED BY <2>2, <2>3 DEF ClearEquipmentViewRequests, handleEquipmentViewResponse
  <1>4. sess' \in [Sessions -> Sess]
    <2>1. sess' = sess \/ sess' = [sess EXCEPT ![c.s].char = Nil]
      BY <1>1 DEF rememberEquipmentViewRequest, ClearEquipmentViewRequests, handleEquipmentViewResponse
    <2>2. CASE sess' = sess
      BY <2>2, SessionTypes
    <2>3. CASE sess' = [sess EXCEPT ![c.s].char = Nil] /\ c.s \in Sessions
      <3>1. PICK r \in Sess : r = [sess[c.s] EXCEPT !.char = Nil]
        BY <2>3, SessionTypes DEF Sess
      <3>2. sess' = [sess EXCEPT ![c.s] = r]
        BY <2>3, <3>1
      <3> QED BY <2>3, <3>2, SessionTypes
    <2>4. CASE sess' = [sess EXCEPT ![c.s].char = Nil] /\ c.s \notin Sessions
      BY <2>4, SessionTypes
    <2> QED BY <2>1, <2>2, <2>3, <2>4
  <1>5. CallsOK'
    <2>1. CASE call' = call
      BY <2>1, SessionTypes DEF CallsOK
    <2>2. CASE Becomes(h, Idle)
      BY <2>2, IdleOK, CallBecomes, SessionTypes
    <2>3. CASE Becomes(h, [c EXCEPT !.at = "invites"])
      <3>1. [c EXCEPT !.at = "invites"] \in Calls /\ PairOK([c EXCEPT !.at = "invites"])
        BY AtOK DEF Places, Pairing
      <3> QED BY <2>3, <3>1, CallBecomes, SessionTypes
    <2> QED BY <1>1, <2>1, <2>2, <2>3
          DEF rememberEquipmentViewRequest, ClearEquipmentViewRequests, handleEquipmentViewResponse
  <1> QED BY <1>2, <1>3, <1>4, <1>5, SessionTypes DEF ChatInv, ChatTypeOK, Invited, Mutual, db, Sess, Presence

\* The invitations change, to others that nobody makes to himself.
LEMMA InvitesOnly ==
  ASSUME ChatInv, CallsOK', UNCHANGED <<sess, views, db, told>>, invites' \in [Chars -> Chars \cup {Nil}],
         \A c \in Chars : invites'[c] # c
  PROVE  ChatInv'
  BY DEF ChatInv, ChatTypeOK, Invited, Mutual, db

\* ClearBuddyInvites takes invitations away and adds none.
LEMMA ClearInvitesKeeps == ASSUME ChatInv, NEW h \in Handlers, ClearBuddyInvites(h) PROVE ChatInv'
  <1>1. PICK who : invites' = [c \in Chars |-> IF who \in {c, invites[c]} THEN Nil ELSE invites[c]]
    BY DEF ClearBuddyInvites
  <1>2. Becomes(h, Idle) /\ UNCHANGED <<sess, views, db, told>>
    BY DEF ClearBuddyInvites
  <1>3. CallsOK'
    BY <1>2, IdleOK, CallBecomes, SessionTypes
  <1>4. invites' \in [Chars -> Chars \cup {Nil}] /\ \A c \in Chars : invites'[c] # c
    BY <1>1, NilAssumption DEF ChatInv, ChatTypeOK, Invited
  <1> QED BY <1>2, <1>3, <1>4, InvitesOnly

\* An invitation is between two different characters.
LEMMA InviteKeeps == ASSUME ChatInv, NEW h \in Handlers, BuddyAddInvite(h) PROVE ChatInv'
  <1>1. PICK c \in Calls : c = call[h] /\ PairOK(c)
    BY HandlerOK
  <1>2. c.who \in Chars /\ c.peer \in Chars /\ c.who # c.peer
    BY <1>1 DEF BuddyAddInvite, PairOK, Pairing
  <1>3. invites' = invites \/ invites' = [invites EXCEPT ![c.peer] = c.who]
    BY <1>1 DEF BuddyAddInvite
  <1>4. Becomes(h, Idle) /\ UNCHANGED <<sess, views, db, told>>
    BY DEF BuddyAddInvite
  <1>5. CallsOK'
    BY <1>4, IdleOK, CallBecomes, SessionTypes
  <1>6. invites' \in [Chars -> Chars \cup {Nil}] /\ \A d \in Chars : invites'[d] # d
    BY <1>2, <1>3 DEF ChatInv, ChatTypeOK, Invited
  <1> QED BY <1>4, <1>5, <1>6, InvitesOnly

\* An answer takes up the invitation it found.
LEMMA ResponseKeeps ==
  ASSUME ChatInv, NEW h \in Handlers, NEW s \in Sessions, NEW requester \in Chars, NEW accepted \in BOOLEAN,
         handleBuddyMemberResponse(h, s, requester, accepted)
  PROVE  ChatInv'
  <1>1. PICK me : me = sess[s].char
    OBVIOUS
  <1>2. /\ me # Nil /\ invites[me] = requester /\ invites' = [invites EXCEPT ![me] = Nil]
        /\ UNCHANGED <<sess, views, db, told>>
    BY <1>1 DEF handleBuddyMemberResponse, ReceivesFrom
  <1>3. me \in Chars
    BY <1>1, <1>2, StartedOK
  <1>4. requester # me
    BY <1>2, <1>3 DEF ChatInv, Invited
  <1>5. invites' \in [Chars -> Chars \cup {Nil}] /\ \A d \in Chars : invites'[d] # d
    BY <1>2, <1>3, NilAssumption DEF ChatInv, ChatTypeOK, Invited
  <1>6. CallsOK'
    <2>1. CASE call' = call
      BY <2>1, SessionTypes DEF CallsOK
    <2>2. ASSUME NEW T \in SUBSET Chars,
                 Becomes(h, [Taking("accept", s) EXCEPT !.at = "add", !.peer = requester, !.todo = T])
          PROVE  CallsOK'
      <3>1. PICK c \in Calls : c = Taking("accept", s) /\ c.who = me
        BY <1>1, StartedOK
      <3>2. PICK n : n = [c EXCEPT !.at = "add", !.peer = requester, !.todo = T]
        OBVIOUS
      <3>3. n \in Calls /\ n.who = me /\ n.peer = requester
        <4>1. "add" \in Places
          BY DEF Places, Pairing
        <4>2. n \in Calls
          BY <3>2, <4>1 DEF Calls
        <4>3. n.who = c.who /\ n.peer = requester
          BY <3>2 DEF Calls
        <4> QED BY <3>1, <4>2, <4>3
      <3>4. PairOK(n)
        BY <1>3, <1>4, <3>3 DEF PairOK
      <3> QED BY <2>2, <3>1, <3>2, <3>3, <3>4, CallBecomes, SessionTypes
    <2>3. (IF Online(requester) THEN {requester} ELSE {}) \in SUBSET Chars
      OBVIOUS
    <2> QED BY <2>1, <2>2, <2>3 DEF handleBuddyMemberResponse
  <1> QED BY <1>2, <1>5, <1>6, InvitesOnly

----------------------------------------------------------------------------
(* Rows. *)

\* Both rows of a pair come, or both go, and the notes with them.
LEMMA RowsOnly ==
  ASSUME ChatInv, CallsOK', UNCHANGED <<server, told>>, NEW c \in Chars, NEW d \in Chars, c # d,
         \/ buddies' = buddies \cup {<<c, d>>, <<d, c>>} /\ memo' = memo
         \/ buddies' = buddies \ {<<c, d>>, <<d, c>>} /\ memo' = memo \ {<<c, d>>, <<d, c>>}
         \/ buddies' = buddies /\ memo' \subseteq buddies
  PROVE  ChatInv'
  <1>1. buddies \subseteq Chars \X Chars /\ memo \subseteq buddies /\ Mutual
    BY DEF ChatInv, ChatTypeOK
  <1>2. buddies' \subseteq Chars \X Chars /\ memo' \subseteq buddies'
    BY <1>1
  <1>3. Mutual'
    <2> SUFFICES ASSUME NEW x \in Chars, NEW y \in Chars, <<x, y>> \in buddies'
                 PROVE  <<y, x>> \in buddies' /\ x # y
      BY DEF Mutual
    <2>1. CASE buddies' = buddies \cup {<<c, d>>, <<d, c>>}
      BY <1>1, <2>1 DEF Mutual
    <2>2. CASE buddies' = buddies \ {<<c, d>>, <<d, c>>}
      BY <1>1, <2>2 DEF Mutual
    <2>3. CASE buddies' = buddies
      BY <1>1, <2>3 DEF Mutual
    <2> QED BY <2>1, <2>2, <2>3
  <1> QED BY <1>2, <1>3 DEF ChatInv, ChatTypeOK, Invited, server

\* AddBuddy inserts both rows or none.
LEMMA InsertKeeps == ASSUME ChatInv, NEW h \in Handlers, AddBuddyInsert(h) PROVE ChatInv'
  <1>1. PICK c \in Calls : c = call[h] /\ PairOK(c)
    BY HandlerOK
  <1>2. c.who \in Chars /\ c.peer \in Chars /\ c.who # c.peer
    BY <1>1 DEF AddBuddyInsert, PairOK, Pairing
  <1>3. /\ buddies' = buddies \/ buddies' = buddies \cup {<<c.who, c.peer>>, <<c.peer, c.who>>}
        /\ UNCHANGED <<server, told>> /\ memo' = memo
    BY <1>1 DEF AddBuddyInsert
  <1>4. PICK n : n = [c EXCEPT !.at = "lists", !.own = TRUE]
    OBVIOUS
  <1>5. Becomes(h, n) \/ Becomes(h, Idle)
    BY <1>1, <1>4 DEF AddBuddyInsert
  <1>6. n \in Calls /\ n.at = "lists"
    BY <1>4 DEF Calls, Places
  <1>7. PairOK(n)
    BY <1>6 DEF PairOK, Pairing
  <1>8. CallsOK'
    BY <1>5, <1>6, <1>7, IdleOK, CallBecomes, SessionTypes
  <1>9. memo \subseteq buddies
    BY DEF ChatInv, ChatTypeOK
  <1> QED BY <1>2, <1>3, <1>8, <1>9, RowsOnly

\* DeleteBuddy deletes both rows, with their notes, or none.
LEMMA DeleteKeeps == ASSUME ChatInv, NEW h \in Handlers, DeleteBuddy(h) PROVE ChatInv'
  <1>1. PICK c \in Calls : c = call[h] /\ PairOK(c)
    BY HandlerOK
  <1>2. c.who \in Chars /\ c.peer \in Chars /\ c.who # c.peer
    BY <1>1 DEF DeleteBuddy, PairOK, Pairing
  <1>3. /\ \/ buddies' = buddies /\ memo' = memo
           \/ /\ buddies' = buddies \ {<<c.who, c.peer>>, <<c.peer, c.who>>}
              /\ memo' = memo \ {<<c.who, c.peer>>, <<c.peer, c.who>>}
        /\ UNCHANGED <<server, told>>
    BY <1>1 DEF DeleteBuddy, db
  <1>4. PICK n : n = [c EXCEPT !.at = "lists", !.own = TRUE, !.todo = {c.peer}]
    OBVIOUS
  <1>5. Becomes(h, n) \/ Becomes(h, Idle)
    BY <1>1, <1>4 DEF DeleteBuddy
  <1>6. n \in Calls /\ n.at = "lists"
    BY <1>2, <1>4 DEF Calls, Places
  <1>7. PairOK(n)
    BY <1>6 DEF PairOK, Pairing
  <1>8. CallsOK'
    BY <1>5, <1>6, <1>7, IdleOK, CallBecomes, SessionTypes
  <1>9. memo \subseteq buddies
    BY DEF ChatInv, ChatTypeOK
  <1> QED BY <1>2, <1>3, <1>8, <1>9, RowsOnly

\* UpdateBuddyMemo writes to a row that is there.
LEMMA MemoKeeps == ASSUME ChatInv, NEW h \in Handlers, UpdateBuddyMemo(h) PROVE ChatInv'
  <1>1. PICK c \in Calls : c = call[h] /\ PairOK(c)
    BY HandlerOK
  <1>2. c.who \in Chars /\ c.peer \in Chars /\ c.who # c.peer
    BY <1>1 DEF UpdateBuddyMemo, PairOK, Pairing
  <1>3. UNCHANGED <<server, told>> /\ buddies' = buddies
    BY DEF UpdateBuddyMemo
  <1>4. memo' \subseteq buddies
    <2>1. memo \subseteq buddies
      BY DEF ChatInv, ChatTypeOK
    <2>2. memo' = memo \/ memo' = memo \cup ({<<c.who, c.peer>>} \cap buddies)
      BY <1>1 DEF UpdateBuddyMemo
    <2> QED BY <2>1, <2>2
  <1>5. CallsOK'
    <2>1. CASE Becomes(h, Idle)
      BY <2>1, IdleOK, CallBecomes, SessionTypes
    <2>2. CASE Becomes(h, [c EXCEPT !.at = "note"])
      <3>1. [c EXCEPT !.at = "note"] \in Calls /\ PairOK([c EXCEPT !.at = "note"])
        BY <1>2, AtOK DEF Places, Pairing
      <3> QED BY <2>2, <3>1, CallBecomes, SessionTypes
    <2> QED BY <1>1, <2>1, <2>2 DEF UpdateBuddyMemo
  <1> QED BY <1>2, <1>3, <1>4, <1>5, RowsOnly

----------------------------------------------------------------------------
(* The invariant. *)

\* The invariant holds at first.
LEMMA InitChatInv == ChatInit => ChatInv
  <1> SUFFICES ASSUME ChatInit PROVE ChatInv
    OBVIOUS
  <1>1. CallsOK
    BY IdleOK DEF ChatInit, CallsOK
  <1>2. told \in [Sessions -> Presence]
    BY IdleOK DEF ChatInit
  <1>3. ChatTypeOK
    BY <1>2 DEF ChatInit, ChatTypeOK, Presence
  <1>4. Invited /\ Mutual
    BY NilAssumption DEF ChatInit, Invited, Mutual
  <1> QED BY <1>1, <1>3, <1>4 DEF ChatInv

\* Every step keeps the invariant.
LEMMA NextChatInv == ASSUME ChatInv, [ChatNext]_chatVars PROVE ChatInv'
  <1>1. CASE UNCHANGED chatVars
    BY <1>1 DEF ChatInv, ChatTypeOK, CallsOK, PairOK, Invited, Mutual, chatVars
  <1>2. CASE Connection
    BY <1>2, ConnectKeeps, DisconnectKeeps DEF Connection
  <1>3. ASSUME NEW h \in Handlers, Step(h) PROVE ChatInv'
    BY <1>3, NotifyKeeps, NextListKeeps, LoadKeeps, BuildKeeps, SendListKeeps, ViewsKeep, ClearInvitesKeeps,
       ChecksKeep, InviteKeeps, InsertKeeps, DeleteKeeps, MemoKeeps DEF Step
  <1>4. ASSUME NEW h \in Handlers, NEW s \in Sessions, Packet(h, s) PROVE ChatInv'
    <2>1. CASE PresencePacket(h, s)
      BY <2>1, AuthKeeps, LoginKeeps, LogoutKeeps, StateKeeps DEF PresencePacket
    <2>2. CASE BuddyPacket(h, s)
      BY <2>2, MemberListKeeps, PairPacketsKeep, ResponseKeeps DEF BuddyPacket
    <2>3. CASE MemoPacket(h, s)
      BY <2>3, PairPacketsKeep DEF MemoPacket
    <2>4. CASE ViewPacket(h, s)
      BY <2>4, PairPacketsKeep, ViewsKeep DEF ViewPacket
    <2> QED BY <1>4, <2>1, <2>2, <2>3, <2>4 DEF Packet
  <1> QED BY <1>1, <1>2, <1>3, <1>4, CallFailsKeeps DEF ChatNext

\* The inductive invariant holds of every interleaving of the handlers.
THEOREM ChatInvariant == ChatSpec => []ChatInv
  <1>1. ChatInv /\ [ChatNext]_chatVars => ChatInv'
    BY NextChatInv
  <1> QED BY <1>1, InitChatInv, PTL DEF ChatSpec

\* The types, among them that a note is never left without its friendship,
\* although UpdateBuddyMemo looks for the row before it writes.
THEOREM ChatTyped == ChatSpec => []ChatTypeOK
  <1>1. ChatInv => ChatTypeOK
    BY DEF ChatInv
  <1> QED BY <1>1, ChatInvariant, PTL

\* A friendship has two ends and nobody is his own friend, whichever additions,
\* removals and answers overlap or fail (AddBuddy, DeleteBuddy).
THEOREM ChatMutual == ChatSpec => []Mutual
  <1>1. ChatInv => Mutual
    BY DEF ChatInv
  <1> QED BY <1>1, ChatInvariant, PTL
----------------------------------------------------------------------------
(* One packet at a time. *)

Unoccupied == \A h \in Handlers : call[h].at = "idle"

\* A packet or a connection is handled when nothing else is, and the master
\* answers; while a client uses a session, its older session is logged out.
AloneNext ==
    \/ Unoccupied /\ Connection
    \/ \E h \in Handlers : Step(h)
    \/ /\ Unoccupied
       /\ \E h \in Handlers, s \in Sessions :
            /\ sess[s].open = "open" /\ Packet(h, s)
            /\ \A t \in Sessions \ {s} : Owner[t] = Owner[s] => ~sess[t].login

\* The points of a handler that sends lists; with the last three it is at one.
Listing == {"lists", "load", "build", "send"}
Sending == {"load", "build", "send"}

\* r will yet send the session s its list.
Sends(r, s) ==
    /\ r.at \in Listing
    /\ Owner[s] \in r.todo \/ (r.own /\ r.s = s) \/ (r.at \in Sending /\ r.to = s)

\* r has to take away the requests of its character.
Leaving(r) == r.op \in {"logout", "disconnect"} /\ r.at \in Listing \cup {"notify", "views"}

Lone == \A g, h \in Handlers : g # h => call[g].at = "idle" \/ call[h].at = "idle"

\* A session has its own character, and nobody is logged in twice.
SessionOK(s) ==
    /\ sess[s].char \in {Nil, Owner[s]}
    /\ sess[s].login => sess[s].char = Owner[s] /\ sess[s].open # "new"
LoggedInOnce ==
    \A s, t \in Sessions : sess[s].login /\ sess[t].login /\ Owner[s] = Owner[t] => s = t

\* What a handler has found out is still so.
DoingOK(r) ==
    /\ r.at # "idle" => r.s \in Sessions
    /\ r.op = "logout" /\ r.at # "idle" => ~sess[r.s].login
    /\ r.at = "delete" => \A t \in Sessions : sess[t].login /\ Owner[t] = r.who => t = r.s
    /\ r.at = "remember" => Online(r.peer)
    /\ r.at \in Sending => r.to \in Sessions
    /\ r.at = "build" => r.rows \subseteq Friends(sess[r.to].char)
    /\ r.at = "send" => \A f \in Chars : r.list[f] # Nil =>
                          f \in Friends(sess[r.to].char) /\ r.list[f] \in buddyPresence(f)

\* The connection of c is closed, which has yet to be handled.
Parted(c) == \E s \in Sessions : sess[s].open = "closed" /\ sess[s].login /\ sess[s].char = c

\* A request addressed to c is of use or will be taken away.
Waits(c) == Online(c) \/ Parted(c) \/ \E h \in Handlers : Leaving(call[h]) /\ call[h].who = c

\* The friends of c have yet to be told of it.
Unheard(c) == Parted(c) \/ \E h \in Handlers : call[h].at = "notify" /\ call[h].who = c

\* What s has read about c is so, or will be put right.
ToldOK(s, c) ==
    sess[s].open = "open" /\ sess[s].login /\ told[s][c] # Nil =>
      \/ c \in Friends(Owner[s]) /\ (told[s][c] \in buddyPresence(c) \/ Unheard(c))
      \/ \E h \in Handlers : Sends(call[h], s)

AloneInv ==
    /\ Lone /\ LoggedInOnce
    /\ \A s \in Sessions : SessionOK(s)
    /\ \A h \in Handlers : DoingOK(call[h])
    /\ \A v \in views : Waits(v[1])
    /\ \A s \in Sessions, c \in Chars : ToldOK(s, c)

\* Only h is at work.
Beside(h) == \A g \in Handlers : g # h => call[g].at = "idle"

\* While one goroutine is at work the others are idle.
LEMMA BesideOne ==
  ASSUME Lone, NEW h \in Handlers, call[h].at # "idle" \/ Unoccupied
  PROVE  Beside(h)
  BY DEF Lone, Beside, Unoccupied

\* A goroutine that is idle does nothing.
LEMMA IdleDoes ==
  ASSUME NEW r, r.at = "idle"
  PROVE  DoingOK(r) /\ ~Leaving(r) /\ \A s \in Sessions : ~Sends(r, s)
  BY DEF DoingOK, Leaving, Sends, Listing, Sending

\* The sessions of c are those they were.
SameFor(c) ==
    buddyPresence(c)' = buddyPresence(c) /\ (Online(c)' <=> Online(c)) /\ (Parted(c)' <=> Parted(c))

\* A session shows its own character only.
LEMMA SameOthers ==
  ASSUME NEW s \in Sessions, \A t \in Sessions : t # s => sess'[t] = sess[t],
         \A t \in Sessions : SessionOK(t), \A t \in Sessions : SessionOK(t)',
         NEW c \in Chars, c # Owner[s]
  PROVE  SameFor(c)
  <1>1. sess[s].login => sess[s].char # c
    BY DEF SessionOK
  <1>2. sess'[s].login => sess'[s].char # c
    BY DEF SessionOK
  <1>3. \A t \in Sessions : \/ t # s /\ sess'[t] = sess[t]
                            \/ ~(sess[t].login /\ sess[t].char = c) /\ ~(sess'[t].login /\ sess'[t].char = c)
    BY <1>1, <1>2
  <1>4. buddySessions(c)' = buddySessions(c)
    BY <1>3 DEF buddySessions
  <1>5. \A t \in buddySessions(c) : sess'[t] = sess[t]
    BY <1>3 DEF buddySessions
  <1>6. {sess'[t].status : t \in buddySessions(c)} = {sess[t].status : t \in buddySessions(c)}
    BY <1>5
  <1>7. Parted(c)' <=> Parted(c)
    BY <1>3 DEF Parted
  <1> QED BY <1>4, <1>6, <1>7 DEF SameFor, buddyPresence, Online

\* What is not shown of a session may change.
LEMMA SameShown ==
  ASSUME \A t \in Sessions : /\ sess'[t].open = sess[t].open /\ sess'[t].status = sess[t].status
                             /\ sess'[t].login = sess[t].login
                             /\ sess[t].login => sess'[t].char = sess[t].char,
         NEW c
  PROVE  SameFor(c)
  <1>1. buddySessions(c)' = buddySessions(c)
    BY DEF buddySessions
  <1>2. \A t \in buddySessions(c) : sess'[t].status = sess[t].status
    BY DEF buddySessions
  <1>3. {sess'[t].status : t \in buddySessions(c)} = {sess[t].status : t \in buddySessions(c)}
    BY <1>2
  <1>4. Parted(c)' <=> Parted(c)
    BY DEF Parted
  <1> QED BY <1>1, <1>3, <1>4 DEF SameFor, buddyPresence, Online

\* What a goroutine has found out depends on sessions and rows only.
LEMMA DoingSame ==
  ASSUME UNCHANGED <<sess, buddies>>, NEW r
  PROVE  DoingOK(r)' <=> DoingOK(r)
  BY DEF DoingOK, Online, buddySessions, buddyPresence, Friends

\* A step of one goroutine that changes no session, no row and no client.
LEMMA AloneOnward ==
  ASSUME CallsOK, AloneInv, NEW h \in Handlers, NEW r, Becomes(h, r), Beside(h),
         UNCHANGED <<sess, buddies, told>>, DoingOK(r),
         \A v \in views' : v \in views \/ Online(v[1]),
         \A v \in views' : Leaving(call[h]) /\ call[h].who = v[1] => Leaving(r) /\ r.who = v[1],
         \A s \in Sessions : Sends(call[h], s) /\ sess[s].open = "open" /\ sess[s].login => Sends(r, s),
         \A s \in Sessions : call[h].at = "notify" /\ call[h].who \in Friends(Owner[s]) => Sends(r, s)
  PROVE  AloneInv'
  <1>1. call'[h] = r /\ \A g \in Handlers : g # h => call'[g] = call[g] /\ call[g].at = "idle"
    BY DEF Becomes, CallsOK, Beside
  <1>2. Lone'
    BY <1>1 DEF Lone
  <1>3. \A g \in Handlers : DoingOK(call[g])'
    <2> SUFFICES ASSUME NEW g \in Handlers PROVE DoingOK(call[g])'
      OBVIOUS
    <2>1. PICK x : x = call'[g]
      OBVIOUS
    <2>2. DoingOK(x)
      BY <1>1, <2>1, IdleDoes
    <2>3. DoingOK(x)'
      BY <2>2, DoingSame
    <2> QED BY <2>1, <2>3 DEF DoingOK
  <1>4. \A c : SameFor(c)
    BY SameShown
  <1>5. \A v \in views' : Waits(v[1])'
    <2> SUFFICES ASSUME NEW v \in views' PROVE Waits(v[1])'
      OBVIOUS
    <2>1. CASE Online(v[1]) \/ Parted(v[1])
      BY <1>4, <2>1 DEF Waits, SameFor
    <2>2. CASE \E g \in Handlers : Leaving(call[g]) /\ call[g].who = v[1]
      <3>1. Leaving(call[h]) /\ call[h].who = v[1]
        BY <1>1, <2>2, IdleDoes
      <3>2. Leaving(call'[h]) /\ call'[h].who = v[1]
        BY <1>1, <3>1
      <3> QED BY <3>2 DEF Waits, Leaving
    <2> QED BY <2>1, <2>2 DEF AloneInv, Waits
  <1>6. \A s \in Sessions, c \in Chars : ToldOK(s, c)'
    <2> SUFFICES ASSUME NEW s \in Sessions, NEW c \in Chars, sess[s].open = "open", sess[s].login, told[s][c] # Nil
                 PROVE  \/ c \in Friends(Owner[s])' /\ (told[s][c] \in buddyPresence(c)' \/ Unheard(c)')
                        \/ \E g \in Handlers : Sends(call'[g], s)
      BY DEF ToldOK, Sends
    <2>1. Friends(Owner[s])' = Friends(Owner[s]) /\ buddyPresence(c)' = buddyPresence(c) /\ (Parted(c) => Unheard(c)')
      BY <1>4 DEF Friends, SameFor, Unheard
    <2>2. CASE \E g \in Handlers : Sends(call[g], s)
      <3>1. Sends(call[h], s)
        BY <1>1, <2>2, IdleDoes
      <3> QED BY <1>1, <3>1
    <2>3. CASE c \in Friends(Owner[s]) /\ \E g \in Handlers : call[g].at = "notify" /\ call[g].who = c
      <3>1. call[h].at = "notify" /\ call[h].who = c
        BY <1>1, <2>3
      <3> QED BY <1>1, <2>3, <3>1
    <2>4. \/ c \in Friends(Owner[s]) /\ (told[s][c] \in buddyPresence(c) \/ Unheard(c))
          \/ \E g \in Handlers : Sends(call[g], s)
      BY DEF AloneInv, ToldOK
    <2> QED BY <2>1, <2>2, <2>3, <2>4 DEF Unheard
  <1>7. LoggedInOnce' /\ \A s \in Sessions : SessionOK(s)'
    BY DEF AloneInv, LoggedInOnce, SessionOK
  <1> QED BY <1>2, <1>3, <1>5, <1>6, <1>7 DEF AloneInv

\* One session changes while nothing else is handled.
LEMMA AloneMoves ==
  ASSUME CallsOK, AloneInv, Unoccupied, NEW s \in Sessions, told \in [Sessions -> Presence], Owner[s] \in Chars,
         \A t \in Sessions : t # s => sess'[t] = sess[t] /\ told'[t] = told[t],
         SessionOK(s)', LoggedInOnce', UNCHANGED <<views, buddies>>,
         \/ call' = call
         \/ \E h \in Handlers, r \in Calls : Becomes(h, r) /\ r.at \in {"notify", "invites"} /\ DoingOK(r)',
         Waits(Owner[s]) => Waits(Owner[s])',
         SameFor(Owner[s]) \/ Unheard(Owner[s])',
         \/ told'[s] = NoList
         \/ /\ told'[s] = told[s]
            /\ sess'[s].open = "open" /\ sess'[s].login => sess[s].open = "open" /\ sess[s].login,
         ChatTypeOK
  PROVE  AloneInv'
  <1>1. \A t \in Sessions : SessionOK(t)'
    BY DEF AloneInv, SessionOK
  <1>2. \A c \in Chars : c # Owner[s] => SameFor(c)
    BY <1>1, SameOthers DEF AloneInv
  <1>3. Lone' /\ \A g \in Handlers : DoingOK(call[g])'
    <2>1. CASE call' = call
      <3>1. \A g \in Handlers : call'[g].at = "idle"
        BY <2>1 DEF Unoccupied
      <3>2. Lone'
        BY <3>1 DEF Lone
      <3> QED BY <3>1, <3>2 DEF DoingOK, Sending
    <2>2. CASE \E h \in Handlers, r \in Calls : Becomes(h, r) /\ r.at \in {"notify", "invites"} /\ DoingOK(r)'
      <3>1. PICK h \in Handlers, r \in Calls : Becomes(h, r) /\ r.at \in {"notify", "invites"} /\ DoingOK(r)'
        BY <2>2
      <3>2. call'[h] = r /\ \A g \in Handlers : g # h => call'[g].at = "idle"
        BY <3>1 DEF Becomes, CallsOK, Unoccupied
      <3>3. Lone'
        BY <3>2 DEF Lone
      <3>4. DoingOK(call[h])'
        BY <3>1, <3>2 DEF DoingOK
      <3>5. \A g \in Handlers : g # h => DoingOK(call[g])'
        BY <3>2 DEF DoingOK, Sending
      <3> QED BY <3>3, <3>4, <3>5
    <2> QED BY <2>1, <2>2
  <1>4. \A c : Waits(c) => Online(c) \/ Parted(c)
    BY IdleDoes DEF Waits, Unoccupied
  <1>5. \A v \in views' : Waits(v[1])'
    <2> SUFFICES ASSUME NEW v \in views PROVE Waits(v[1])'
      OBVIOUS
    <2>1. v[1] \in Chars /\ Waits(v[1])
      BY DEF ChatTypeOK, AloneInv
    <2>2. CASE v[1] = Owner[s]
      BY <2>1, <2>2
    <2>3. CASE v[1] # Owner[s]
      BY <1>2, <1>4, <2>1, <2>3 DEF SameFor, Waits
    <2> QED BY <2>2, <2>3
  <1>6. \A t \in Sessions, c \in Chars : ToldOK(t, c)'
    <2> SUFFICES ASSUME NEW t \in Sessions, NEW c \in Chars, sess'[t].open = "open", sess'[t].login, told'[t][c] # Nil
                 PROVE  c \in Friends(Owner[t])' /\ (told'[t][c] \in buddyPresence(c)' \/ Unheard(c)')
      BY DEF ToldOK
    <2>1. told'[t] = told[t] /\ sess[t].open = "open" /\ sess[t].login
      <3>1. told'[t] # NoList
        BY DEF NoList
      <3> QED BY <3>1
    <2>2. c \in Friends(Owner[t]) /\ (told[t][c] \in buddyPresence(c) \/ Parted(c))
      BY <2>1, IdleDoes DEF AloneInv, ToldOK, Unheard, Unoccupied
    <2>3. Friends(Owner[t])' = Friends(Owner[t])
      BY DEF Friends
    <2>4. SameFor(c) \/ Unheard(c)'
      BY <1>2
    <2> QED BY <2>1, <2>2, <2>3, <2>4 DEF SameFor, Unheard
  <1> QED BY <1>1, <1>3, <1>5, <1>6 DEF AloneInv

\* What is known of a goroutine that goes on.
LEMMA AtWork ==
  ASSUME ChatInv, AloneInv, NEW h \in Handlers, call[h].at # "idle"
  PROVE  CallsOK /\ call[h] \in Calls /\ PairOK(call[h]) /\ DoingOK(call[h]) /\ Beside(h)
  BY HandlerOK, BesideOne DEF ChatInv, AloneInv

\* A client that is there finds its friends under its own character.
LEMMA ThereOnline ==
  ASSUME ChatTypeOK, AloneInv, NEW s \in Sessions, sess[s].open = "open", sess[s].login
  PROVE  sess[s].char = Owner[s] /\ Online(Owner[s]) /\ \A t \in buddySessions(Owner[s]) : t = s
  BY DEF AloneInv, SessionOK, LoggedInOnce, Online, buddySessions

\* Going on after the friends have been told.
LEMMA NotifiedDoes ==
  ASSUME NEW c \in Calls, DoingOK(c), c.at \in {"notify", "lists"}
  PROVE  /\ DoingOK(Notified(c))
         /\ Leaving(c) => Leaving(Notified(c)) /\ Notified(c).who = c.who
  <1>1. CASE Notified(c) = Idle /\ c.op \notin {"logout", "disconnect"}
    <2>1. DoingOK(Idle)
      BY DEF Idle, DoingOK, Sending
    <2> QED BY <1>1, <2>1 DEF Leaving
  <1>2. CASE Notified(c) = [c EXCEPT !.at = "views", !.list = NoList] /\ c.op \in {"logout", "disconnect"}
    <2>1. PICK n : n = [c EXCEPT !.at = "views", !.list = NoList]
      OBVIOUS
    <2>2. n.at = "views" /\ n.op = c.op /\ n.who = c.who /\ n.s = c.s
      BY <2>1 DEF Calls
    <2>3. DoingOK(n) /\ Leaving(n)
      BY <1>2, <2>2 DEF DoingOK, Sending, Leaving
    <2> QED BY <1>2, <2>1, <2>2, <2>3
  <1> QED BY <1>1, <1>2 DEF Notified

\* notifyBuddyPresence takes up all friends: who has read about the character is one.
LEMMA NotifyAlone == ASSUME ChatInv, AloneInv, NEW h \in Handlers, notifyBuddyPresence(h) PROVE AloneInv'
  <1>1. PICK c \in Calls : c = call[h] /\ c.at = "notify"
    BY HandlerOK DEF notifyBuddyPresence
  <1>2. CallsOK /\ DoingOK(c) /\ Beside(h) /\ UNCHANGED <<sess, buddies, told, views>>
    BY <1>1, AtWork DEF notifyBuddyPresence, server, db
  <1>3. \A s \in Sessions : ~Sends(c, s)
    BY <1>1 DEF Sends, Listing
  <1>4. CASE c.who = Nil
    <2>1. PICK n : n = Notified(c)
      OBVIOUS
    <2>2. Becomes(h, n)
      BY <1>1, <1>4, <2>1 DEF notifyBuddyPresence
    <2>3. \A s \in Sessions : c.who \notin Friends(Owner[s])
      BY <1>4, NilAssumption DEF Friends
    <2> QED BY <1>1, <1>2, <1>3, <2>1, <2>2, <2>3, NotifiedDoes, AloneOnward
  <1>5. CASE c.who # Nil
    <2>1. PICK n : n = [c EXCEPT !.at = "lists", !.todo = Friends(c.who)]
      OBVIOUS
    <2>2. n.at = "lists" /\ n.todo = Friends(c.who) /\ n.op = c.op /\ n.who = c.who /\ n.s = c.s
      BY <2>1 DEF Calls
    <2>3. Becomes(h, n)
      BY <1>1, <1>5, <2>1 DEF notifyBuddyPresence
    <2>4. DoingOK(n)
      BY <1>1, <1>2, <2>2 DEF DoingOK, Sending
    <2>5. Leaving(c) => Leaving(n)
      BY <2>2 DEF Leaving, Listing
    <2>6. \A s \in Sessions : c.who \in Friends(Owner[s]) => Sends(n, s)
      BY <2>2, OwnerAssumption DEF Sends, Listing, Friends, ChatInv, Mutual
    <2> QED BY <1>1, <1>2, <1>3, <2>2, <2>3, <2>4, <2>5, <2>6, AloneOnward
  <1> QED BY <1>4, <1>5

\* A friend that is passed over is not there; its session is the only one of it.
LEMMA NextListAlone == ASSUME ChatInv, AloneInv, NEW h \in Handlers, NextList(h) PROVE AloneInv'
  <1>1. PICK c \in Calls : c = call[h] /\ c.at = "lists"
    BY HandlerOK DEF NextList
  <1>2. CallsOK /\ DoingOK(c) /\ Beside(h) /\ UNCHANGED <<sess, buddies, told, views>>
    BY <1>1, AtWork DEF NextList, server, db
  <1>3. CASE ~c.own /\ c.todo = {} /\ Becomes(h, Notified(c))
    <2>1. PICK n : n = Notified(c)
      OBVIOUS
    <2>2. \A s \in Sessions : ~Sends(c, s)
      BY <1>1, <1>3 DEF Sends, Sending
    <2> QED BY <1>1, <1>2, <1>3, <2>1, <2>2, NotifiedDoes, AloneOnward
  <1>4. CASE c.own /\ Becomes(h, [c EXCEPT !.own = FALSE, !.at = "load", !.to = c.s])
    <2>1. PICK n : n = [c EXCEPT !.own = FALSE, !.at = "load", !.to = c.s]
      OBVIOUS
    <2>2. n.at = "load" /\ n.to = c.s /\ n.todo = c.todo /\ n.op = c.op /\ n.who = c.who /\ n.s = c.s
      BY <2>1 DEF Calls
    <2>3. DoingOK(n)
      BY <1>1, <1>2, <2>2 DEF DoingOK
    <2>4. Leaving(c) => Leaving(n)
      BY <2>2 DEF Leaving, Listing
    <2>5. \A s \in Sessions : Sends(c, s) => Sends(n, s)
      BY <1>1, <2>2 DEF Sends, Listing, Sending
    <2>6. Becomes(h, n)
      BY <1>4, <2>1
    <2> QED BY <1>1, <1>2, <2>2, <2>3, <2>4, <2>5, <2>6, AloneOnward
  <1>5. ASSUME NEW f \in c.todo, ~Online(f), Becomes(h, [c EXCEPT !.todo = @ \ {f}]) PROVE AloneInv'
    <2>1. PICK n : n = [c EXCEPT !.todo = @ \ {f}]
      OBVIOUS
    <2>2. n.at = "lists" /\ n.own = c.own /\ n.todo = c.todo \ {f} /\ n.op = c.op /\ n.who = c.who /\ n.s = c.s
      BY <1>1, <2>1 DEF Calls
    <2>3. DoingOK(n)
      BY <1>1, <1>2, <2>2 DEF DoingOK, Sending
    <2>4. Leaving(c) => Leaving(n)
      BY <2>2 DEF Leaving, Listing
    <2>5. \A s \in Sessions : Sends(c, s) /\ sess[s].open = "open" /\ sess[s].login => Sends(n, s)
      BY <1>1, <1>5, <2>2, ThereOnline DEF Sends, Listing, Sending, ChatInv
    <2>6. Becomes(h, n)
      BY <1>5, <2>1
    <2> QED BY <1>1, <1>2, <2>2, <2>3, <2>4, <2>5, <2>6, AloneOnward
  <1>6. ASSUME NEW f \in c.todo, NEW t \in buddySessions(f),
               Becomes(h, [c EXCEPT !.todo = @ \ {f}, !.at = "load", !.to = t])
        PROVE  AloneInv'
    <2>1. PICK n : n = [c EXCEPT !.todo = @ \ {f}, !.at = "load", !.to = t]
      OBVIOUS
    <2>2. /\ n.at = "load" /\ n.own = c.own /\ n.todo = c.todo \ {f} /\ n.to = t /\ n.op = c.op /\ n.who = c.who
          /\ n.s = c.s
      BY <1>1, <2>1 DEF Calls
    <2>3. DoingOK(n)
      BY <1>1, <1>2, <2>2 DEF DoingOK, buddySessions
    <2>4. Leaving(c) => Leaving(n)
      BY <2>2 DEF Leaving, Listing
    <2>5. \A s \in Sessions : Sends(c, s) /\ sess[s].open = "open" /\ sess[s].login => Sends(n, s)
      BY <1>1, <2>2, ThereOnline DEF Sends, Listing, Sending, ChatInv
    <2>6. Becomes(h, n)
      BY <1>6, <2>1
    <2> QED BY <1>1, <1>2, <2>2, <2>3, <2>4, <2>5, <2>6, AloneOnward
  <1> QED BY <1>1, <1>3, <1>4, <1>5, <1>6 DEF NextList

\* The rows are those of the session that is sent the list ...
LEMMA LoadAlone == ASSUME ChatInv, AloneInv, NEW h \in Handlers, LoadBuddyList(h) PROVE AloneInv'
  <1>1. PICK c \in Calls : c = call[h] /\ c.at = "load"
    BY HandlerOK DEF LoadBuddyList
  <1>2. CallsOK /\ DoingOK(c) /\ Beside(h) /\ UNCHANGED <<sess, buddies, told, views>>
    BY <1>1, AtWork DEF LoadBuddyList, server, db
  <1>3. PICK n : n = [c EXCEPT !.at = "build", !.rows = Friends(sess[c.to].char)]
    OBVIOUS
  <1>4. /\ n.at = "build" /\ n.rows = Friends(sess[c.to].char) /\ n.own = c.own /\ n.todo = c.todo /\ n.to = c.to
        /\ n.op = c.op /\ n.who = c.who /\ n.s = c.s
    BY <1>3 DEF Calls
  <1>5. DoingOK(n)
    BY <1>1, <1>2, <1>4 DEF DoingOK, Sending
  <1>6. (Leaving(c) => Leaving(n)) /\ \A s \in Sessions : Sends(c, s) => Sends(n, s)
    BY <1>1, <1>4 DEF Leaving, Sends, Listing, Sending
  <1>7. Becomes(h, n)
    BY <1>1, <1>3 DEF LoadBuddyList
  <1> QED BY <1>1, <1>2, <1>4, <1>5, <1>6, <1>7, AloneOnward

\* ... and the presence of each member is the one of the moment.
LEMMA BuildAlone == ASSUME ChatInv, AloneInv, NEW h \in Handlers, BuildList(h) PROVE AloneInv'
  <1>1. PICK c \in Calls : c = call[h] /\ c.at = "build"
    BY HandlerOK DEF BuildList
  <1>2. CallsOK /\ DoingOK(c) /\ Beside(h) /\ UNCHANGED <<sess, buddies, told, views>>
    BY <1>1, AtWork DEF BuildList, server, db
  <1>3. PICK l : /\ \A f \in Chars : l[f] \in IF f \in c.rows THEN buddyPresence(f) ELSE {Nil}
                 /\ Becomes(h, [c EXCEPT !.at = "send", !.rows = {}, !.list = l])
    BY <1>1 DEF BuildList
  <1>4. PICK n : n = [c EXCEPT !.at = "send", !.rows = {}, !.list = l]
    OBVIOUS
  <1>5. /\ n.at = "send" /\ n.list = l /\ n.own = c.own /\ n.todo = c.todo /\ n.to = c.to
        /\ n.op = c.op /\ n.who = c.who /\ n.s = c.s
    BY <1>4 DEF Calls
  <1>6. \A f \in Chars : l[f] # Nil => f \in Friends(sess[c.to].char) /\ l[f] \in buddyPresence(f)
    BY <1>1, <1>2, <1>3 DEF DoingOK
  <1>7. DoingOK(n)
    BY <1>1, <1>2, <1>5, <1>6 DEF DoingOK, Sending
  <1>8. (Leaving(c) => Leaving(n)) /\ \A s \in Sessions : Sends(c, s) => Sends(n, s)
    BY <1>1, <1>5 DEF Leaving, Sends, Listing, Sending
  <1>9. Becomes(h, n)
    BY <1>3, <1>4
  <1> QED BY <1>1, <1>2, <1>5, <1>7, <1>8, <1>9, AloneOnward

\* A list reaches its client.
LEMMA SendAlone == ASSUME ChatInv, AloneInv, NEW h \in Handlers, SendList(h) PROVE AloneInv'
  <1>1. PICK c \in Calls : c = call[h] /\ c.at = "send"
    BY HandlerOK DEF SendList
  <1>2. CallsOK /\ DoingOK(c) /\ Beside(h) /\ UNCHANGED <<sess, buddies, views>> /\ c.to \in Sessions
    BY <1>1, AtWork DEF SendList, server, db, DoingOK, Sending
  <1>3. PICK n : n = [c EXCEPT !.at = "lists", !.to = Nil, !.list = NoList]
    OBVIOUS
  <1>4. n.at = "lists" /\ n.own = c.own /\ n.todo = c.todo /\ n.op = c.op /\ n.who = c.who /\ n.s = c.s
    BY <1>3 DEF Calls
  <1>5. call'[h] = n /\ \A g \in Handlers : g # h => call'[g] = call[g] /\ call[g].at = "idle"
    BY <1>1, <1>2, <1>3 DEF SendList, Becomes, CallsOK, Beside
  <1>6. told \in [Sessions -> Presence]
    BY SessionTypes
  <1>7. told' = (IF sess[c.to].open = "open" THEN [told EXCEPT ![c.to] = c.list] ELSE told)
    BY <1>1 DEF SendList
  <1>8. /\ \A s \in Sessions : s # c.to => told'[s] = told[s]
        /\ sess[c.to].open = "open" => told'[c.to] = c.list
    BY <1>2, <1>6, <1>7
  <1>9. Lone'
    BY <1>5 DEF Lone
  <1>10. DoingOK(n)
    BY <1>1, <1>2, <1>4 DEF DoingOK, Sending
  <1>11. \A g \in Handlers : DoingOK(call[g])'
    <2> SUFFICES ASSUME NEW g \in Handlers PROVE DoingOK(call[g])'
      OBVIOUS
    <2>1. PICK x : x = call'[g]
      OBVIOUS
    <2>2. DoingOK(x)'
      BY <1>2, <1>5, <1>10, <2>1, IdleDoes, DoingSame
    <2> QED BY <2>1, <2>2 DEF DoingOK
  <1>12. \A d : SameFor(d)
    BY <1>2, SameShown
  <1>13. \A v \in views' : Waits(v[1])'
    <2> SUFFICES ASSUME NEW v \in views PROVE Waits(v[1])'
      BY <1>2
    <2>1. \A g \in Handlers : Leaving(call[g]) => g = h /\ Leaving(n) /\ n.who = call[g].who
      BY <1>1, <1>4, <1>5, IdleDoes DEF Leaving, Listing
    <2>2. \A g \in Handlers : Leaving(call[g]) => Leaving(call'[g]) /\ call'[g].who = call[g].who
      BY <1>5, <2>1
    <2> QED BY <1>12, <2>2 DEF AloneInv, Waits, SameFor, Leaving
  <1>14. \A s \in Sessions, f \in Chars : ToldOK(s, f)'
    <2> SUFFICES ASSUME NEW s \in Sessions, NEW f \in Chars, sess[s].open = "open", sess[s].login, told'[s][f] # Nil
                 PROVE  \/ f \in Friends(Owner[s])' /\ told'[s][f] \in buddyPresence(f)'
                        \/ f \in Friends(Owner[s])' /\ Parted(f)'
                        \/ \E g \in Handlers : Sends(call'[g], s)
      BY <1>2 DEF ToldOK, Sends, Unheard
    <2>1. Friends(Owner[s])' = Friends(Owner[s]) /\ buddyPresence(f)' = buddyPresence(f) /\ (Parted(f)' <=> Parted(f))
      BY <1>2, <1>12 DEF Friends, SameFor
    <2>2. CASE s = c.to
      <3>1. c.list[f] # Nil
        BY <1>8, <2>2
      <3>2. f \in Friends(sess[s].char) /\ c.list[f] \in buddyPresence(f)
        BY <1>1, <1>2, <2>2, <3>1 DEF DoingOK
      <3>3. sess[s].char = Owner[s]
        BY DEF AloneInv, SessionOK
      <3> QED BY <1>8, <2>1, <2>2, <3>2, <3>3
    <2>3. CASE s # c.to
      <3>1. told[s][f] # Nil
        BY <1>8, <2>3
      <3>2. ASSUME NEW g \in Handlers, Sends(call[g], s) PROVE Sends(n, s)
        <4>1. Sends(c, s)
          BY <1>1, <1>5, <3>2, IdleDoes
        <4> QED BY <1>4, <2>3, <4>1 DEF Sends, Listing
      <3>3. \A g \in Handlers : call[g].at # "notify"
        BY <1>1, <1>5
      <3>4. \/ f \in Friends(Owner[s]) /\ (told[s][f] \in buddyPresence(f) \/ Parted(f))
            \/ \E g \in Handlers : Sends(call[g], s)
        BY <3>1, <3>3 DEF AloneInv, ToldOK, Unheard
      <3> QED BY <1>5, <1>8, <2>1, <2>3, <3>2, <3>4
    <2> QED BY <2>2, <2>3
  <1>15. LoggedInOnce' /\ \A s \in Sessions : SessionOK(s)'
    BY <1>2 DEF AloneInv, LoggedInOnce, SessionOK
  <1> QED BY <1>9, <1>11, <1>13, <1>14, <1>15 DEF AloneInv

\* Rows come or go.
LEMMA AloneRows ==
  ASSUME CallsOK, AloneInv, NEW h \in Handlers, NEW r, Becomes(h, r), Beside(h),
         UNCHANGED <<sess, told, views>>, call[h].at \in {"insert", "delete"}, r.at \in {"idle", "lists"},
         r.at # "idle" => r.s \in Sessions /\ (r.op = "logout" => ~sess[r.s].login),
         \A s \in Sessions, c \in Chars :
            c \in Friends(Owner[s]) /\ sess[s].login => c \in Friends(Owner[s])' \/ Sends(r, s)
  PROVE  AloneInv'
  <1>1. call'[h] = r /\ \A g \in Handlers : g # h => call'[g] = call[g] /\ call[g].at = "idle"
    BY DEF Becomes, CallsOK, Beside
  <1>2. Lone'
    BY <1>1 DEF Lone
  <1>3. \A g \in Handlers : DoingOK(call[g])'
    <2>1. DoingOK(call[h])'
      BY <1>1 DEF DoingOK, Sending
    <2>2. \A g \in Handlers : g # h => DoingOK(call[g])'
      BY <1>1 DEF DoingOK, Sending
    <2> QED BY <2>1, <2>2
  <1>4. \A d : SameFor(d)
    BY SameShown
  <1>5. \A g \in Handlers : ~Leaving(call[g]) /\ call[g].at # "notify" /\ \A s \in Sessions : ~Sends(call[g], s)
    BY <1>1, IdleDoes DEF Leaving, Sends, Listing
  <1>6. \A v \in views' : Waits(v[1])'
    BY <1>4, <1>5 DEF AloneInv, Waits, SameFor
  <1>7. \A s \in Sessions, c \in Chars : ToldOK(s, c)'
    <2> SUFFICES ASSUME NEW s \in Sessions, NEW c \in Chars, sess[s].open = "open", sess[s].login, told[s][c] # Nil
                 PROVE  \/ c \in Friends(Owner[s])' /\ (told[s][c] \in buddyPresence(c)' \/ Parted(c)')
                        \/ \E g \in Handlers : Sends(call'[g], s)
      BY DEF ToldOK, Sends, Unheard
    <2>1. c \in Friends(Owner[s]) /\ (told[s][c] \in buddyPresence(c) \/ Parted(c))
      BY <1>5 DEF AloneInv, ToldOK, Unheard
    <2> QED BY <1>1, <1>4, <2>1 DEF SameFor
  <1>8. LoggedInOnce' /\ \A s \in Sessions : SessionOK(s)'
    BY DEF AloneInv, LoggedInOnce, SessionOK
  <1> QED BY <1>2, <1>3, <1>6, <1>7, <1>8 DEF AloneInv

\* An addition puts no list in the wrong: a friend that is new is in none.
LEMMA InsertAlone == ASSUME ChatInv, AloneInv, NEW h \in Handlers, AddBuddyInsert(h) PROVE AloneInv'
  <1>1. PICK c \in Calls : c = call[h] /\ c.at = "insert"
    BY HandlerOK DEF AddBuddyInsert
  <1>2. CallsOK /\ DoingOK(c) /\ Beside(h) /\ UNCHANGED <<sess, told, views>> /\ buddies \subseteq buddies'
    BY <1>1, AtWork DEF AddBuddyInsert, server
  <1>3. \A s \in Sessions : Friends(Owner[s]) \subseteq Friends(Owner[s])'
    BY <1>2 DEF Friends
  <1>4. PICK n : n = [c EXCEPT !.at = "lists", !.own = TRUE]
    OBVIOUS
  <1>5. n.at = "lists" /\ n.s = c.s /\ n.op = c.op
    BY <1>4 DEF Calls
  <1>6. CASE Becomes(h, n)
    BY <1>1, <1>2, <1>3, <1>5, <1>6, AloneRows DEF DoingOK
  <1>7. CASE Becomes(h, Idle)
    <2>1. Idle.at = "idle"
      BY DEF Idle
    <2> QED BY <1>1, <1>2, <1>3, <1>7, <2>1, AloneRows
  <1> QED BY <1>1, <1>4, <1>6, <1>7 DEF AddBuddyInsert

\* After a removal both clients are sent their lists.
LEMMA DeleteAlone == ASSUME ChatInv, AloneInv, NEW h \in Handlers, DeleteBuddy(h) PROVE AloneInv'
  <1>1. PICK c \in Calls : c = call[h] /\ c.at = "delete"
    BY HandlerOK DEF DeleteBuddy
  <1>2. CallsOK /\ DoingOK(c) /\ Beside(h) /\ UNCHANGED <<sess, told, views>>
    BY <1>1, AtWork DEF DeleteBuddy, server
  <1>3. CASE Becomes(h, Idle) /\ buddies' = buddies
    <2>1. Idle.at = "idle"
      BY DEF Idle
    <2>2. \A s \in Sessions : Friends(Owner[s])' = Friends(Owner[s])
      BY <1>3 DEF Friends
    <2> QED BY <1>1, <1>2, <1>3, <2>1, <2>2, AloneRows
  <1>4. CASE /\ buddies' = buddies \ {<<c.who, c.peer>>, <<c.peer, c.who>>}
             /\ Becomes(h, [c EXCEPT !.at = "lists", !.own = TRUE, !.todo = {c.peer}])
    <2>1. PICK n : n = [c EXCEPT !.at = "lists", !.own = TRUE, !.todo = {c.peer}]
      OBVIOUS
    <2>2. n.at = "lists" /\ n.own = TRUE /\ n.todo = {c.peer} /\ n.s = c.s /\ n.op = c.op
      BY <2>1 DEF Calls
    <2>3. \A s \in Sessions, f \in Chars :
            f \in Friends(Owner[s]) /\ sess[s].login => f \in Friends(Owner[s])' \/ Sends(n, s)
      <3> SUFFICES ASSUME NEW s \in Sessions, NEW f \in Chars, <<Owner[s], f>> \in buddies, sess[s].login,
                          <<Owner[s], f>> \notin buddies'
                   PROVE  Sends(n, s)
        BY DEF Friends
      <3>1. Owner[s] = c.who \/ Owner[s] = c.peer
        BY <1>4
      <3>2. Owner[s] = c.who => s = c.s
        BY <1>1, <1>2 DEF DoingOK
      <3> QED BY <2>2, <3>1, <3>2 DEF Sends, Listing
    <2>4. Becomes(h, n)
      BY <1>4, <2>1
    <2> QED BY <1>1, <1>2, <2>2, <2>3, <2>4, AloneRows DEF DoingOK
  <1> QED BY <1>1, <1>3, <1>4 DEF DeleteBuddy, db

\* A goroutine that neither tells the friends nor leaves.
LEMMA AloneElse ==
  ASSUME CallsOK, AloneInv, NEW h \in Handlers, NEW r, Becomes(h, r), Beside(h),
         UNCHANGED <<sess, buddies, told>>, DoingOK(r),
         call[h].at \notin Listing \cup {"notify", "views"}, \A v \in views' : v \in views \/ Online(v[1])
  PROVE  AloneInv'
  <1>1. ~Leaving(call[h]) /\ \A s \in Sessions : ~Sends(call[h], s)
    BY DEF Leaving, Sends
  <1> QED BY <1>1, AloneOnward

\* The steps of the requests to the master, of invitations and of notes.
LEMMA OtherAlone ==
  ASSUME ChatInv, AloneInv, NEW h \in Handlers,
         \/ BuddyAddCheck(h) \/ BuddyAddInvite(h) \/ AddBuddyRead(h) \/ UpdateBuddyMemo(h)
         \/ rememberEquipmentViewRequest(h) \/ ClearBuddyInvites(h)
  PROVE  AloneInv'
  <1>1. PICK c \in Calls : c = call[h] /\ c.at \in {"check", "invite", "add", "memo", "note", "remember", "invites"}
    BY HandlerOK DEF BuddyAddCheck, BuddyAddInvite, AddBuddyRead, UpdateBuddyMemo, rememberEquipmentViewRequest,
                     ClearBuddyInvites
  <1>2. CallsOK /\ DoingOK(c) /\ Beside(h) /\ UNCHANGED <<sess, buddies, told>>
    BY <1>1, AtWork DEF BuddyAddCheck, BuddyAddInvite, AddBuddyRead, UpdateBuddyMemo, rememberEquipmentViewRequest,
                        ClearBuddyInvites, server, db
  <1>3. \A v \in views' : v \in views \/ Online(v[1])
    <2>1. CASE views' = views
      BY <2>1
    <2>2. CASE views' = views \cup {<<c.peer, c.who>>} /\ c.at = "remember"
      BY <1>2, <2>2 DEF DoingOK
    <2> QED BY <1>1, <2>1, <2>2 DEF BuddyAddCheck, BuddyAddInvite, AddBuddyRead, UpdateBuddyMemo,
                                    rememberEquipmentViewRequest, ClearBuddyInvites, server
  <1>4. PICK at \in {"idle", "invite", "insert", "note"} :
          Becomes(h, IF at = "idle" THEN Idle ELSE [c EXCEPT !.at = at])
    BY <1>1 DEF BuddyAddCheck, BuddyAddInvite, AddBuddyRead, UpdateBuddyMemo, rememberEquipmentViewRequest,
                ClearBuddyInvites
  <1>5. PICK n : n = IF at = "idle" THEN Idle ELSE [c EXCEPT !.at = at]
    OBVIOUS
  <1>6. DoingOK(n)
    <2>1. CASE at = "idle"
      BY <1>5, <2>1 DEF Idle, DoingOK, Sending
    <2>2. CASE at # "idle"
      <3>1. n.at = at /\ n.s = c.s /\ n.op = c.op
        BY <1>5, <2>2 DEF Calls
      <3> QED BY <1>1, <1>2, <3>1 DEF DoingOK, Sending
    <2> QED BY <2>1, <2>2
  <1>7. c.at \notin Listing \cup {"notify", "views"}
    BY <1>1 DEF Listing
  <1> QED BY <1>1, <1>2, <1>3, <1>4, <1>5, <1>6, <1>7, AloneElse

\* The requests of the character that leaves go; its session is logged out.
LEMMA ClearViewsAlone == ASSUME ChatInv, AloneInv, NEW h \in Handlers, ClearEquipmentViewRequests(h) PROVE AloneInv'
  <1>1. PICK c \in Calls : c = call[h] /\ c.at = "views"
    BY HandlerOK DEF ClearEquipmentViewRequests
  <1>2. CallsOK /\ DoingOK(c) /\ Beside(h) /\ UNCHANGED <<buddies, told>> /\ c.s \in Sessions
    BY <1>1, AtWork DEF ClearEquipmentViewRequests, db, DoingOK
  <1>3. views' = {v \in views : v[1] # c.who /\ v[2] # c.who}
    BY <1>1 DEF ClearEquipmentViewRequests
  <1>4. PICK n : n = (IF c.op = "logout" THEN Idle ELSE [c EXCEPT !.at = "invites"])
    OBVIOUS
  <1>5. n.at \in {"idle", "invites"} /\ (n.at # "idle" => n.s = c.s /\ n.op # "logout")
    BY <1>4 DEF Calls, Idle
  <1>6. Becomes(h, n)
    BY <1>1, <1>4 DEF ClearEquipmentViewRequests
  <1>7. call'[h] = n /\ \A g \in Handlers : g # h => call'[g] = call[g] /\ call[g].at = "idle"
    BY <1>2, <1>6 DEF Becomes, CallsOK, Beside
  <1>8. sess' = sess \/ (sess' = [sess EXCEPT ![c.s].char = Nil] /\ ~sess[c.s].login)
    BY <1>1, <1>2 DEF ClearEquipmentViewRequests, DoingOK
  <1>9. \A t \in Sessions : /\ sess'[t].open = sess[t].open /\ sess'[t].status = sess[t].status
                            /\ sess'[t].login = sess[t].login
                            /\ sess'[t].char = sess[t].char \/ (~sess[t].login /\ sess'[t].char = Nil)
    <2>1. CASE sess' = sess
      BY <2>1
    <2>2. CASE sess' = [sess EXCEPT ![c.s].char = Nil] /\ ~sess[c.s].login
      <3>1. PICK q : q = [sess[c.s] EXCEPT !.char = Nil]
        OBVIOUS
      <3>2. q.open = sess[c.s].open /\ q.status = sess[c.s].status /\ q.login = sess[c.s].login /\ q.char = Nil
        BY <1>2, <3>1, SessionTypes DEF Sess
      <3>3. sess'[c.s] = q /\ \A t \in Sessions : t # c.s => sess'[t] = sess[t]
        BY <1>2, <2>2, <3>1, SessionTypes
      <3> QED BY <2>2, <3>2, <3>3
    <2> QED BY <1>8, <2>1, <2>2
  <1>10. \A d : SameFor(d)
    BY <1>9, SameShown
  <1>11. Lone'
    BY <1>7 DEF Lone
  <1>12. \A g \in Handlers : DoingOK(call[g])'
    <2>1. \A g \in Handlers : g # h => DoingOK(call[g])'
      BY <1>7 DEF DoingOK, Sending
    <2>2. DoingOK(call[h])'
      BY <1>2, <1>5, <1>7 DEF DoingOK, Sending
    <2> QED BY <2>1, <2>2
  <1>13. \A v \in views' : Waits(v[1])'
    <2> SUFFICES ASSUME NEW v \in views, v[1] # c.who PROVE Waits(v[1])'
      BY <1>3
    <2>1. \A g \in Handlers : ~(Leaving(call[g]) /\ call[g].who = v[1])
      BY <1>1, <1>7, IdleDoes
    <2> QED BY <1>10, <2>1 DEF AloneInv, Waits, SameFor
  <1>14. \A s \in Sessions, f \in Chars : ToldOK(s, f)'
    <2> SUFFICES ASSUME NEW s \in Sessions, NEW f \in Chars, sess[s].open = "open", sess[s].login, told[s][f] # Nil
                 PROVE  f \in Friends(Owner[s])' /\ (told[s][f] \in buddyPresence(f)' \/ Parted(f)')
      BY <1>2, <1>9 DEF ToldOK, Unheard
    <2>1. \A g \in Handlers : ~Sends(call[g], s) /\ call[g].at # "notify"
      BY <1>1, <1>7, IdleDoes DEF Sends, Listing
    <2>2. Friends(Owner[s])' = Friends(Owner[s])
      BY <1>2 DEF Friends
    <2> QED BY <1>10, <2>1, <2>2 DEF AloneInv, ToldOK, Unheard, SameFor
  <1>15. LoggedInOnce' /\ \A s \in Sessions : SessionOK(s)'
    BY <1>9 DEF AloneInv, LoggedInOnce, SessionOK
  <1> QED BY <1>11, <1>12, <1>13, <1>14, <1>15 DEF AloneInv

\* Every step of a goroutine.
LEMMA StepAlone == ASSUME ChatInv, AloneInv, NEW h \in Handlers, Step(h) PROVE AloneInv'
  BY NotifyAlone, NextListAlone, LoadAlone, BuildAlone, SendAlone, InsertAlone, DeleteAlone, OtherAlone,
     ClearViewsAlone DEF Step

\* The packets that change no session.
LEMMA RequestAlone ==
  ASSUME ChatInv, AloneInv, Unoccupied, NEW h \in Handlers, NEW s \in Sessions,
         \A t \in Sessions \ {s} : Owner[t] = Owner[s] => ~sess[t].login,
         BuddyPacket(h, s) \/ MemoPacket(h, s) \/ ViewPacket(h, s)
  PROVE  AloneInv'
  <1>1. CallsOK /\ Beside(h) /\ call[h].at = "idle" /\ sess[s].char \in {Nil, Owner[s]}
    BY BesideOne DEF ChatInv, AloneInv, Unoccupied, SessionOK
  <1>2. call[h].at \notin Listing \cup {"notify", "views"}
    BY <1>1 DEF Listing
  <1>3. ASSUME Becomes(h, call[h]), UNCHANGED <<sess, buddies, told>>, views' \subseteq views PROVE AloneInv'
    BY <1>1, <1>2, <1>3, IdleDoes, AloneElse
  <1>4. Becomes(h, call[h]) <=> call' = call
    BY <1>1 DEF Becomes, CallsOK
  <1>5. ASSUME NEW n, Becomes(h, n), DoingOK(n), UNCHANGED <<sess, buddies, told, views>> PROVE AloneInv'
    BY <1>1, <1>2, <1>5, AloneElse
  <1>6. CASE handleBuddyMemberList(h, s)
    <2>1. PICK c \in Calls : c = Taking("list", s)
      BY StartedOK
    <2>2. PICK n : n = [c EXCEPT !.at = "lists", !.own = TRUE]
      OBVIOUS
    <2>3. c.s = s /\ c.op = "list"
      BY <2>1 DEF Taking, Idle
    <2>4. DoingOK(n)
      BY <2>2, <2>3 DEF Calls, DoingOK, Sending
    <2> QED BY <1>5, <1>6, <2>1, <2>2, <2>4 DEF handleBuddyMemberList, server, db
  <1>7. ASSUME NEW target \in Chars, NEW op \in {"add", "delete", "memo", "view"},
               NEW at \in {"check", "delete", "memo", "remember"}, at = "remember" => Online(target),
               at = "delete" => sess[s].char # Nil,
               Becomes(h, [Taking(op, s) EXCEPT !.at = at, !.peer = target]), UNCHANGED <<server, db, told>>
        PROVE  AloneInv'
    <2>1. PICK c \in Calls : c = Taking(op, s) /\ c.who = sess[s].char
      BY StartedOK
    <2>2. PICK n : n = [c EXCEPT !.at = at, !.peer = target]
      OBVIOUS
    <2>3. c.s = s /\ c.op = op
      BY <2>1 DEF Taking, Idle
    <2>4. n.at = at /\ n.peer = target /\ n.s = s /\ n.who = sess[s].char /\ n.op = op
      BY <2>1, <2>2, <2>3 DEF Calls
    <2>5. DoingOK(n)
      BY <1>1, <1>7, <2>4 DEF DoingOK, Sending
    <2> QED BY <1>5, <1>7, <2>1, <2>2, <2>5 DEF server, db
  <1>8. ASSUME NEW target \in Chars, handleBuddyMemberAdd(h, s, target) PROVE AloneInv'
    BY <1>7, <1>8 DEF handleBuddyMemberAdd
  <1>9. ASSUME NEW target \in Chars, handleBuddyMemberDelete(h, s, target) PROVE AloneInv'
    BY <1>7, <1>9 DEF handleBuddyMemberDelete, ReceivesFrom
  <1>10. ASSUME NEW target \in Chars, handleBuddyMemberMemoModify(h, s, target) PROVE AloneInv'
    BY <1>7, <1>10 DEF handleBuddyMemberMemoModify
  <1>11. ASSUME NEW target \in Chars, handleEquipmentViewRequest(h, s, target) PROVE AloneInv'
    BY <1>7, <1>11 DEF handleEquipmentViewRequest
  <1>12. ASSUME NEW requester \in Chars, handleEquipmentViewResponse(h, s, requester) PROVE AloneInv'
    BY <1>3, <1>4, <1>12 DEF handleEquipmentViewResponse, db
  <1>13. ASSUME NEW requester \in Chars, NEW accepted \in BOOLEAN, handleBuddyMemberResponse(h, s, requester, accepted)
         PROVE  AloneInv'
    <2>1. UNCHANGED <<sess, buddies, told, views>>
      BY <1>13 DEF handleBuddyMemberResponse, db
    <2>2. CASE call' = call
      BY <1>3, <1>4, <2>1, <2>2
    <2>3. ASSUME NEW T, Becomes(h, [Taking("accept", s) EXCEPT !.at = "add", !.peer = requester, !.todo = T])
          PROVE  AloneInv'
      <3>1. PICK c \in Calls : c = Taking("accept", s)
        BY StartedOK
      <3>2. PICK n : n = [c EXCEPT !.at = "add", !.peer = requester, !.todo = T]
        OBVIOUS
      <3>3. c.s = s /\ c.op = "accept"
        BY <3>1 DEF Taking, Idle
      <3>4. DoingOK(n)
        BY <3>2, <3>3 DEF Calls, DoingOK, Sending
      <3> QED BY <1>5, <2>1, <2>3, <3>1, <3>2, <3>4
    <2> QED BY <1>13, <2>2, <2>3 DEF handleBuddyMemberResponse
  <1> QED BY <1>6, <1>8, <1>9, <1>10, <1>11, <1>12, <1>13 DEF BuddyPacket, MemoPacket, ViewPacket

\* A new connection shows nobody; one that is closed is handled next.
LEMMA ConnectAlone ==
  ASSUME ChatInv, AloneInv, Unoccupied, NEW s \in Sessions, onClientConnect(s) \/ Close(s)
  PROVE  AloneInv'
  <1>1. /\ CallsOK /\ told \in [Sessions -> Presence] /\ Owner[s] \in Chars /\ ChatTypeOK /\ SessionOK(s)
        /\ sess[s] \in Sess /\ sess \in [Sessions -> Sess]
    BY SessionTypes, OwnerAssumption DEF ChatInv, AloneInv
  <1>2. PICK o \in {"open", "closed"} : sess' = [sess EXCEPT ![s].open = o]
    BY DEF onClientConnect, Close
  <1>3. /\ sess'[s].open = o /\ sess'[s].login = sess[s].login /\ sess'[s].char = sess[s].char
        /\ sess'[s].status = sess[s].status /\ \A t \in Sessions : t # s => sess'[t] = sess[t]
    BY <1>1, <1>2 DEF Sess
  <1>4. SessionOK(s)' /\ LoggedInOnce'
    BY <1>1, <1>3 DEF SessionOK, LoggedInOnce, AloneInv
  <1>5. UNCHANGED <<views, buddies, call>>
    BY DEF onClientConnect, Close, db
  <1>6. CASE ~sess[s].login
    <2>1. buddySessions(Owner[s])' = buddySessions(Owner[s]) /\ (Parted(Owner[s])' <=> Parted(Owner[s]))
      BY <1>3, <1>6 DEF buddySessions, Parted
    <2>2. \A t \in buddySessions(Owner[s]) : sess'[t].status = sess[t].status
      BY <1>3 DEF buddySessions
    <2>3. {sess'[t].status : t \in buddySessions(Owner[s])} = {sess[t].status : t \in buddySessions(Owner[s])}
      BY <2>2
    <2>4. SameFor(Owner[s])
      BY <2>1, <2>3 DEF SameFor, buddyPresence, Online
    <2>5. Waits(Owner[s]) => Waits(Owner[s])'
      BY <1>5, <2>4 DEF Waits, SameFor, Leaving
    <2>6. /\ \A t \in Sessions : t # s => told'[t] = told[t]
          /\ told'[s] = NoList \/ told'[s] = told[s]
      BY <1>1 DEF onClientConnect, Close
    <2> QED BY <1>1, <1>3, <1>4, <1>5, <1>6, <2>4, <2>5, <2>6, AloneMoves
  <1>7. CASE sess[s].login
    <2>1. sess[s].open # "new" /\ sess[s].char = Owner[s]
      BY <1>1, <1>7 DEF SessionOK
    <2>2. Close(s)
      BY <2>1 DEF onClientConnect
    <2>3. sess'[s].open = "closed" /\ told' = [told EXCEPT ![s] = NoList]
      BY <1>1, <2>2 DEF Close, Sess
    <2>4. Parted(Owner[s])'
      BY <1>3, <1>7, <2>1, <2>3 DEF Parted
    <2>5. told'[s] = NoList /\ \A t \in Sessions : t # s => told'[t] = told[t]
      BY <1>1, <2>3
    <2>6. Waits(Owner[s])' /\ Unheard(Owner[s])'
      BY <2>4 DEF Waits, Unheard
    <2> QED BY <1>1, <1>3, <1>4, <1>5, <2>5, <2>6, AloneMoves
  <1> QED BY <1>6, <1>7

\* Authentication names the session, but shows nobody.
LEMMA AuthAlone ==
  ASSUME ChatInv, AloneInv, Unoccupied, NEW h \in Handlers, NEW s \in Sessions, handleAuth(h, s)
  PROVE  AloneInv'
  <1>1. /\ CallsOK /\ told \in [Sessions -> Presence] /\ Owner[s] \in Chars /\ ChatTypeOK /\ SessionOK(s)
        /\ sess[s] \in Sess /\ sess \in [Sessions -> Sess]
    BY SessionTypes, OwnerAssumption DEF ChatInv, AloneInv
  <1>2. sess' = [sess EXCEPT ![s].char = Owner[s]] /\ UNCHANGED <<views, buddies, told, call>>
    BY DEF handleAuth, db
  <1>3. /\ sess'[s].open = sess[s].open /\ sess'[s].login = sess[s].login /\ sess'[s].char = Owner[s]
        /\ sess'[s].status = sess[s].status /\ \A t \in Sessions : t # s => sess'[t] = sess[t]
    BY <1>1, <1>2 DEF Sess
  <1>4. SessionOK(s)' /\ LoggedInOnce'
    BY <1>1, <1>3 DEF SessionOK, LoggedInOnce, AloneInv
  <1>5. SameFor(Owner[s])
    BY <1>1, <1>3, SameShown DEF SessionOK
  <1>6. Waits(Owner[s]) => Waits(Owner[s])'
    BY <1>2, <1>5 DEF Waits, SameFor, Leaving
  <1> QED BY <1>1, <1>2, <1>3, <1>4, <1>5, <1>6, AloneMoves

\* What s has read stays, or goes.
Remembers(s) ==
    \/ told'[s] = NoList
    \/ /\ told'[s] = told[s]
       /\ sess'[s].open = "open" /\ sess'[s].login => sess[s].open = "open" /\ sess[s].login

\* r tells the friends of a change of s, if there is one to see.
Tells(s, r) ==
    \/ ~sess[s].login /\ ~sess'[s].login
    \/ /\ r.at = "notify" /\ r.who = Owner[s]
       /\ \/ r.op \in {"logout", "disconnect"}
          \/ sess'[s].open = "open" /\ sess[s].open = "open" /\ (Online(Owner[s]) => Online(Owner[s])')

\* A session changes and the friends of its character are told.
LEMMA TellsAlone ==
  ASSUME ChatInv, AloneInv, Unoccupied, NEW h \in Handlers, NEW s \in Sessions, NEW n \in Calls, Becomes(h, n),
         n.at \in {"notify", "invites"}, n.s = s, n.op = "logout" => ~sess'[s].login,
         \A t \in Sessions : t # s => sess'[t] = sess[t] /\ told'[t] = told[t],
         SessionOK(s)', LoggedInOnce', UNCHANGED <<views, buddies>>,
         Remembers(s), Tells(s, n)
  PROVE  AloneInv'
  <1>1. /\ CallsOK /\ told \in [Sessions -> Presence] /\ Owner[s] \in Chars /\ ChatTypeOK
    BY SessionTypes, OwnerAssumption DEF ChatInv, AloneInv
  <1>2. DoingOK(n)'
    BY DEF DoingOK, Sending
  <1>3. call'[h] = n
    BY <1>1 DEF Becomes, CallsOK
  <1>4. CASE ~sess[s].login /\ ~sess'[s].login
    <2>1. buddySessions(Owner[s])' = buddySessions(Owner[s]) /\ (Parted(Owner[s])' <=> Parted(Owner[s]))
          /\ \A t \in buddySessions(Owner[s]) : sess'[t].status = sess[t].status
      BY <1>4 DEF buddySessions, Parted
    <2>2. {sess'[t].status : t \in buddySessions(Owner[s])} = {sess[t].status : t \in buddySessions(Owner[s])}
      BY <2>1
    <2>3. SameFor(Owner[s])
      BY <2>1, <2>2 DEF SameFor, buddyPresence, Online
    <2>4. Waits(Owner[s]) => Waits(Owner[s])'
      BY <2>3, IdleDoes DEF Waits, SameFor, Unoccupied
    <2> QED BY <1>1, <1>2, <2>3, <2>4, AloneMoves DEF Remembers
  <1>5. CASE /\ n.at = "notify" /\ n.who = Owner[s]
             /\ \/ n.op \in {"logout", "disconnect"}
                \/ sess'[s].open = "open" /\ sess[s].open = "open" /\ (Online(Owner[s]) => Online(Owner[s])')
    <2>1. Unheard(Owner[s])'
      BY <1>3, <1>5 DEF Unheard
    <2>2. Waits(Owner[s]) => Waits(Owner[s])'
      <3>1. CASE n.op \in {"logout", "disconnect"}
        BY <1>3, <1>5, <3>1 DEF Waits, Leaving
      <3>2. CASE sess'[s].open = "open" /\ sess[s].open = "open" /\ (Online(Owner[s]) => Online(Owner[s])')
        <4>1. Parted(Owner[s]) => Parted(Owner[s])'
          BY <3>2 DEF Parted
        <4> QED BY <3>2, <4>1, IdleDoes DEF Waits, Unoccupied
      <3> QED BY <1>5, <3>1, <3>2
    <2> QED BY <1>1, <1>2, <2>1, <2>2, AloneMoves DEF Remembers
  <1> QED BY <1>4, <1>5 DEF Tells

\* A login shows its session as online.
LEMMA LoginAlone ==
  ASSUME ChatInv, AloneInv, Unoccupied, NEW h \in Handlers, NEW s \in Sessions, handleLogin(h, s), sess[s].open = "open",
         \A t \in Sessions \ {s} : Owner[t] = Owner[s] => ~sess[t].login
  PROVE  AloneInv'
  <1>1. told \in [Sessions -> Presence] /\ sess \in [Sessions -> Sess] /\ SessionOK(s) /\ Owner[s] \in Chars
    BY SessionTypes, OwnerAssumption DEF AloneInv
  <1>2. PICK c \in {sess[s].char, Owner[s]} \ {Nil} :
          /\ sess' = [sess EXCEPT ![s].char = c, ![s].login = TRUE, ![s].status = "online"]
          /\ Becomes(h, [Taking("login", s) EXCEPT !.at = "notify", !.who = c])
    BY DEF handleLogin
  <1>3. c = Owner[s]
    BY <1>1 DEF SessionOK
  <1>4. PICK n : n = [Taking("login", s) EXCEPT !.at = "notify", !.who = c]
    OBVIOUS
  <1>5. n \in Calls /\ n.at = "notify" /\ n.op = "login" /\ n.s = s /\ n.who = Owner[s]
    <2>1. PICK d \in Calls : d = Taking("login", s) /\ d.s = s /\ d.op = "login"
      BY StartedOK DEF Taking, Idle
    <2>2. n = [d EXCEPT !.at = "notify", !.who = c]
      BY <1>4, <2>1
    <2> QED BY <1>1, <1>3, <2>1, <2>2 DEF Calls, Places
  <1>6. /\ sess'[s].open = "open" /\ sess'[s].char = Owner[s] /\ sess'[s].login
        /\ \A t \in Sessions : t # s => sess'[t] = sess[t]
    BY <1>1, <1>2, <1>3 DEF Sess
  <1>7. SessionOK(s)' /\ LoggedInOnce'
    BY <1>6 DEF SessionOK, LoggedInOnce, AloneInv
  <1>8. told'[s] = NoList /\ (\A t \in Sessions : t # s => told'[t] = told[t]) /\ UNCHANGED <<views, buddies>>
    BY <1>1 DEF handleLogin, db
  <1>9. Online(Owner[s])'
    BY <1>6 DEF Online, buddySessions
  <1>10. Remembers(s) /\ Tells(s, n)
    BY <1>5, <1>6, <1>8, <1>9 DEF Remembers, Tells
  <1>11. Becomes(h, n)
    BY <1>2, <1>4
  <1> QED BY <1>5, <1>6, <1>7, <1>8, <1>10, <1>11, TellsAlone

\* A logout takes its character away from the lists of its friends.
LEMMA LogoutAlone ==
  ASSUME ChatInv, AloneInv, Unoccupied, NEW h \in Handlers, NEW s \in Sessions, handleLogout(h, s), sess[s].open = "open"
  PROVE  AloneInv'
  <1>1. /\ told \in [Sessions -> Presence] /\ sess \in [Sessions -> Sess] /\ SessionOK(s) /\ Owner[s] \in Chars
        /\ sess[s].char \in Chars \cup {Nil}
    BY SessionTypes, OwnerAssumption DEF AloneInv, SessionOK
  <1>2. /\ sess' = [sess EXCEPT ![s].status = "offline", ![s].login = FALSE]
        /\ Becomes(h, [Taking("logout", s) EXCEPT !.at = "notify"])
        /\ UNCHANGED <<views, buddies, told>>
    BY DEF handleLogout, db
  <1>3. PICK n : n = [Taking("logout", s) EXCEPT !.at = "notify"]
    OBVIOUS
  <1>4. n \in Calls /\ n.at = "notify" /\ n.op = "logout" /\ n.s = s /\ n.who = sess[s].char
    <2>1. PICK d \in Calls : d = Taking("logout", s) /\ d.who = sess[s].char
      BY StartedOK
    <2>2. d.s = s /\ d.op = "logout"
      BY <2>1 DEF Taking, Idle
    <2>3. n = [d EXCEPT !.at = "notify"]
      BY <1>3, <2>1
    <2> QED BY <1>1, <2>1, <2>2, <2>3 DEF Calls, Places
  <1>5. /\ sess'[s].open = "open" /\ sess'[s].char = sess[s].char /\ ~sess'[s].login
        /\ \A t \in Sessions : t # s => sess'[t] = sess[t]
    BY <1>1, <1>2 DEF Sess
  <1>6. SessionOK(s)' /\ LoggedInOnce'
    BY <1>1, <1>5 DEF SessionOK, LoggedInOnce, AloneInv
  <1>7. sess[s].login => n.who = Owner[s]
    BY <1>1, <1>4 DEF SessionOK
  <1>8. Remembers(s) /\ Tells(s, n)
    BY <1>2, <1>4, <1>5, <1>7 DEF Remembers, Tells
  <1>9. Becomes(h, n)
    BY <1>2, <1>3
  <1> QED BY <1>2, <1>4, <1>5, <1>6, <1>8, <1>9, TellsAlone

\* A new status is told to the friends.
LEMMA StateAlone ==
  ASSUME ChatInv, AloneInv, Unoccupied, NEW h \in Handlers, NEW s \in Sessions, NEW status \in Statuses,
         handleCharGameStateChange(h, s, status), sess[s].open = "open"
  PROVE  AloneInv'
  <1>1. /\ told \in [Sessions -> Presence] /\ sess \in [Sessions -> Sess] /\ SessionOK(s) /\ Owner[s] \in Chars
        /\ sess[s].char = Owner[s]
    BY SessionTypes, OwnerAssumption DEF AloneInv, SessionOK, handleCharGameStateChange, ReceivesFrom
  <1>2. /\ sess' = [sess EXCEPT ![s].status = status]
        /\ Becomes(h, [Taking("state", s) EXCEPT !.at = "notify"])
        /\ UNCHANGED <<views, buddies, told>>
    BY DEF handleCharGameStateChange, db
  <1>3. PICK n : n = [Taking("state", s) EXCEPT !.at = "notify"]
    OBVIOUS
  <1>4. n \in Calls /\ n.at = "notify" /\ n.op = "state" /\ n.s = s /\ n.who = Owner[s]
    <2>1. PICK d \in Calls : d = Taking("state", s) /\ d.who = sess[s].char
      BY StartedOK
    <2>2. d.s = s /\ d.op = "state"
      BY <2>1 DEF Taking, Idle
    <2>3. n = [d EXCEPT !.at = "notify"]
      BY <1>3, <2>1
    <2> QED BY <1>1, <2>1, <2>2, <2>3 DEF Calls, Places
  <1>5. /\ sess'[s].open = "open" /\ sess'[s].char = sess[s].char /\ sess'[s].login = sess[s].login
        /\ \A t \in Sessions : t # s => sess'[t] = sess[t]
    BY <1>1, <1>2 DEF Sess
  <1>6. SessionOK(s)' /\ LoggedInOnce'
    BY <1>1, <1>5 DEF SessionOK, LoggedInOnce, AloneInv
  <1>7. buddySessions(Owner[s])' = buddySessions(Owner[s])
    BY <1>5 DEF buddySessions
  <1>8. Remembers(s) /\ Tells(s, n)
    BY <1>2, <1>4, <1>5, <1>7 DEF Remembers, Tells, Online
  <1>9. Becomes(h, n)
    BY <1>2, <1>3
  <1> QED BY <1>2, <1>4, <1>5, <1>6, <1>8, <1>9, TellsAlone

\* The friends of a character whose connection is closed are told.
LEMMA DisconnectAlone ==
  ASSUME ChatInv, AloneInv, Unoccupied, NEW h \in Handlers, NEW s \in Sessions, onClientDisconnect(h, s)
  PROVE  AloneInv'
  <1>1. /\ told \in [Sessions -> Presence] /\ sess \in [Sessions -> Sess] /\ SessionOK(s) /\ Owner[s] \in Chars
        /\ sess[s].char \in Chars \cup {Nil} /\ Owner[s] # Nil
    BY SessionTypes, OwnerAssumption, NilAssumption DEF AloneInv, SessionOK
  <1>2. /\ sess' = [sess EXCEPT ![s].open = "left",
                                ![s].login = @ /\ ~(sess[s].login /\ sess[s].char # Nil)]
        /\ Becomes(h, [Taking("disconnect", s) EXCEPT
                         !.at = IF sess[s].login /\ sess[s].char # Nil THEN "notify" ELSE "invites"])
        /\ UNCHANGED <<views, buddies, told>>
    BY DEF onClientDisconnect, db
  <1>3. PICK at \in {"notify", "invites"} : at = IF sess[s].login /\ sess[s].char # Nil THEN "notify" ELSE "invites"
    OBVIOUS
  <1>4. PICK n : n = [Taking("disconnect", s) EXCEPT !.at = at]
    OBVIOUS
  <1>5. n \in Calls /\ n.at = at /\ n.op = "disconnect" /\ n.s = s /\ n.who = sess[s].char
    <2>1. PICK d \in Calls : d = Taking("disconnect", s) /\ d.who = sess[s].char
      BY StartedOK
    <2>2. d.s = s /\ d.op = "disconnect"
      BY <2>1 DEF Taking, Idle
    <2>3. n = [d EXCEPT !.at = at]
      BY <1>4, <2>1
    <2> QED BY <1>1, <2>1, <2>2, <2>3 DEF Calls, Places
  <1>6. /\ sess'[s].open = "left" /\ sess'[s].char = sess[s].char
        /\ sess'[s].login = (sess[s].login /\ ~(sess[s].login /\ sess[s].char # Nil))
        /\ \A t \in Sessions : t # s => sess'[t] = sess[t]
    BY <1>1, <1>2 DEF Sess
  <1>7. ~sess'[s].login
    BY <1>1, <1>6 DEF SessionOK
  <1>8. SessionOK(s)' /\ LoggedInOnce'
    BY <1>1, <1>6, <1>7 DEF SessionOK, LoggedInOnce, AloneInv
  <1>9. sess[s].login => n.at = "notify" /\ n.who = Owner[s]
    BY <1>1, <1>3, <1>5 DEF SessionOK
  <1>10. Becomes(h, n)
    BY <1>2, <1>3, <1>4
  <1>11. Remembers(s) /\ Tells(s, n)
    BY <1>2, <1>5, <1>7, <1>9 DEF Remembers, Tells
  <1> QED BY <1>2, <1>5, <1>6, <1>7, <1>8, <1>10, <1>11, TellsAlone

\* At first nobody is there and no list has been sent.
LEMMA InitAlone == ChatInit => AloneInv
  <1> SUFFICES ASSUME ChatInit PROVE AloneInv
    OBVIOUS
  <1>1. \A h \in Handlers : call[h].at = "idle"
    BY DEF ChatInit, Idle
  <1>2. \A h \in Handlers : DoingOK(call[h])
    BY <1>1 DEF ChatInit, DoingOK, Sending
  <1>3. \A s \in Sessions : SessionOK(s) /\ ~sess[s].login
    BY DEF ChatInit, SessionOK
  <1> QED BY <1>1, <1>2, <1>3 DEF ChatInit, AloneInv, Lone, LoggedInOnce, ToldOK

\* One packet at a time keeps what the lists and the requests say.
LEMMA NextAlone == ASSUME ChatInv, AloneInv, [AloneNext]_chatVars PROVE AloneInv'
  <1>1. CASE UNCHANGED chatVars
    <2>1. UNCHANGED <<sess, views, buddies, told, call>>
      BY <1>1 DEF chatVars, db
    <2>2. \A c : SameFor(c)
      BY <2>1, SameShown
    <2>3. \A v \in views' : Waits(v[1])'
      BY <2>1, <2>2 DEF AloneInv, Waits, SameFor, Leaving
    <2>4. \A h \in Handlers : DoingOK(call[h])'
      <3> SUFFICES ASSUME NEW h \in Handlers PROVE DoingOK(call[h])'
        OBVIOUS
      <3>1. PICK x : x = call[h]
        OBVIOUS
      <3> QED BY <2>1, <3>1, DoingSame DEF AloneInv, DoingOK
    <2>5. \A s \in Sessions, c \in Chars : ToldOK(s, c)'
      BY <2>1, <2>2 DEF AloneInv, ToldOK, SameFor, Unheard, Sends, Friends
    <2>6. Lone' /\ LoggedInOnce' /\ \A s \in Sessions : SessionOK(s)'
      BY <2>1 DEF AloneInv, Lone, LoggedInOnce, SessionOK
    <2> QED BY <2>3, <2>4, <2>5, <2>6 DEF AloneInv
  <1>2. CASE Unoccupied /\ Connection
    BY <1>2, ConnectAlone, DisconnectAlone DEF Connection
  <1>3. ASSUME NEW h \in Handlers, NEW s \in Sessions, Unoccupied, sess[s].open = "open", Packet(h, s),
               \A t \in Sessions \ {s} : Owner[t] = Owner[s] => ~sess[t].login
        PROVE  AloneInv'
    <2>1. CASE PresencePacket(h, s)
      BY <1>3, <2>1, AuthAlone, LoginAlone, LogoutAlone, StateAlone DEF PresencePacket
    <2>2. CASE BuddyPacket(h, s) \/ MemoPacket(h, s) \/ ViewPacket(h, s)
      BY <1>3, <2>2, RequestAlone
    <2> QED BY <1>3, <2>1, <2>2 DEF Packet
  <1> QED BY <1>1, <1>2, <1>3, StepAlone DEF AloneNext

\* One packet at a time holds of the invariant at every moment.
LEMMA AloneInvariant == ChatSpec /\ [][AloneNext]_chatVars => []AloneInv
  <1>1. ChatInv /\ AloneInv /\ [AloneNext]_chatVars => AloneInv'
    BY NextAlone
  <1> QED BY <1>1, InitAlone, ChatInvariant, PTL DEF ChatSpec

\* With one packet handled at a time, a master that answers and no client that
\* is logged in twice, everybody who is there sees its friends as they are, for
\* any number of characters and sessions (NotifyBuddyPresence "refreshes the
\* member list of every online friend when a character enters or leaves
\* ChatNode").
THEOREM ChatPresenceSettles == ChatSpec /\ [][AloneNext]_chatVars => []PresenceSettles
  <1>1. AloneInv => PresenceSettles
    BY DEF AloneInv, PresenceSettles, Settled, ToldOK, Unheard, Parted, Sends, Listing
  <1> QED BY <1>1, AloneInvariant, PTL

\* In the same behaviours no request to see an equipment waits for a character
\* that is gone (ClearEquipmentViewRequests after a logout and a disconnect).
THEOREM ChatViewsLive == ChatSpec /\ [][AloneNext]_chatVars => []ViewsLive
  <1>1. AloneInv => ViewsLive
    BY DEF AloneInv, ViewsLive, Settled, Waits, Parted, Leaving, Listing
  <1> QED BY <1>1, AloneInvariant, PTL
=============================================================================

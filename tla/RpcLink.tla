------------------------------ MODULE RpcLink -------------------------------
(***************************************************************************)
(* The connection between a game server and the master server: Client and  *)
(* Server of share/rpc, and the list of servers the master keeps           *)
(* (cmd/masterserver/server).                                              *)
(*                                                                         *)
(* Both ends call each other over one connection.  The game server has one *)
(* Client for its life, which dials again after a break; the master makes  *)
(* a Client for each connection.  The k-th connection is k.  A message     *)
(* carries in of the call it belongs to and in via the connection it was   *)
(* asked over: the code only compares seq.  Arguments, replies and methods *)
(* are left out but for ServerRegister, which the game server calls after  *)
(* every dial.                                                             *)
(***************************************************************************)
EXTENDS Integers, Sequences, FiniteSets

CONSTANTS
    GCalls,         \* calls of the game server
    Checks,         \* online checks of the master
    MaxConns,       \* bound: connections
    None

Conns == 1 .. MaxConns

\* A registration is named by the connection whose dial made it.
Callers == GCalls \cup Conns
Seqs == 1 .. (Cardinality(Callers) + Cardinality(Checks))

ASSUME ConnAssumption == MaxConns \in Nat \ {0}
ASSUME CallAssumption ==
    IsFiniteSet(GCalls) /\ IsFiniteSet(Checks) /\ GCalls \cap Conns = {} /\ None \notin Callers \cup Checks

VARIABLES
    up,             \* the state of each connection
    toMaster,       \* requests and responses on their way, by connection
    toGame,
    client,         \* the Client of the game server
    reading,        \* the read loops of the game server, by connection
    peer,           \* the Clients of the master, by connection
    gcall,          \* the calls of the game server
    check,          \* the online checks of the master
    handlers,       \* goroutines that serve a request
    runs,           \* how often each call of the game server was served
    servers,        \* ServerManager.servers, by connection
    leaving         \* connections OnSyncDisconnect is about to remove

wires == <<up, toMaster, toGame>>
game == <<client, reading, gcall>>
list == <<servers, leaving>>
vars == <<wires, game, peer, check, handlers, runs, list>>

NoCalls == [n \in Seqs |-> None]

Init ==
    /\ up = [k \in Conns |-> "none"]
    /\ toMaster = [k \in Conns |-> <<>>] /\ toGame = [k \in Conns |-> <<>>]
    /\ client = [codec |-> 0, connected |-> FALSE, shutdown |-> FALSE, sending |-> None,
                 seq |-> 1, pending |-> NoCalls]
    /\ reading = [k \in Conns |-> FALSE]
    /\ peer = [k \in Conns |-> [reading |-> FALSE, shutdown |-> FALSE, sending |-> None,
                                seq |-> 1, pending |-> NoCalls]]
    /\ gcall = [c \in Callers |-> [at |-> "new", got |-> None]]
    /\ check = [m \in Checks |-> [at |-> "idle", todo |-> {}, k |-> 0, got |-> {}]]
    /\ handlers = {} /\ runs = [c \in Callers |-> 0]
    /\ servers = {} /\ leaving = {}

Up(k) == k \in Conns /\ up[k] = "up"

----------------------------------------------------------------------------
(* The connection. *)

\* Client.run connects, Server.serveConn accepts; OnSyncConnect registers.
Dial ==
    \E k \in Conns :
      /\ ~client.connected
      /\ up[k] = "none" /\ \A j \in 1 .. (k - 1) : up[j] # "none"
      /\ up' = [up EXCEPT ![k] = "up"]
      /\ client' = [client EXCEPT !.codec = k, !.connected = TRUE, !.shutdown = FALSE]
      /\ reading' = [reading EXCEPT ![k] = TRUE]
      /\ peer' = [peer EXCEPT ![k].reading = TRUE]
      /\ gcall' = [gcall EXCEPT ![k].at = "called"]
      /\ UNCHANGED <<toMaster, toGame, check, handlers, runs, list>>

\* The connection breaks; what is on its way is lost.
Break(k) ==
    /\ up[k] = "up"
    /\ up' = [up EXCEPT ![k] = "down"]
    /\ toMaster' = [toMaster EXCEPT ![k] = <<>>] /\ toGame' = [toGame EXCEPT ![k] = <<>>]
    /\ UNCHANGED <<game, peer, check, handlers, runs, list>>

\* A message written to the codec of a connection; a broken one swallows it.
Written(wire, k, msg) == IF Up(k) THEN [wire EXCEPT ![k] = Append(@, msg)] ELSE wire

----------------------------------------------------------------------------
(* Calls of the game server. *)

Call(c) ==
    /\ gcall[c].at = "new" /\ c \in GCalls
    /\ gcall' = [gcall EXCEPT ![c].at = "called"]
    /\ UNCHANGED <<wires, client, reading, peer, check, handlers, runs, list>>

\* send: under the mutex sending the call is registered as pending ...
Send(c) ==
    /\ gcall[c].at = "called" /\ client.sending = None
    /\ IF client.shutdown \/ ~client.connected
       THEN gcall' = [gcall EXCEPT ![c].at = "err"] /\ UNCHANGED client
       ELSE /\ gcall' = [gcall EXCEPT ![c].at = "wait"]
            /\ client' = [client EXCEPT !.sending = c, !.seq = @ + 1, !.pending[client.seq] = c]
    /\ UNCHANGED <<wires, reading, peer, check, handlers, runs, list>>

\* ... and written to the connection, which may notice that it is broken.
WriteRequest(c) ==
    LET n == client.seq - 1 IN
    /\ client.sending = c
    /\ \/ /\ toMaster' = Written(toMaster, client.codec, [kind |-> "req", seq |-> n, of |-> c, via |-> client.codec])
          /\ client' = [client EXCEPT !.sending = None]
          /\ UNCHANGED gcall
       \/ /\ ~Up(client.codec)
          /\ gcall' = [gcall EXCEPT ![c].at = "err"]
          /\ client' = [client EXCEPT !.sending = None, !.pending[n] = None]
          /\ UNCHANGED toMaster
    /\ UNCHANGED <<up, toGame, reading, peer, check, handlers, runs, list>>

\* readLoop of the game server: a response goes to the pending call with its
\* seq, a request gets a goroutine.
GameReads(k) ==
    LET msg == Head(toGame[k])
        c == client.pending[msg.seq] IN
    /\ reading[k] /\ toGame[k] # <<>>
    /\ toGame' = [toGame EXCEPT ![k] = Tail(@)]
    /\ IF msg.kind = "req"
       THEN /\ handlers' = handlers \cup {[side |-> "game", k |-> k, seq |-> msg.seq, of |-> msg.of]}
            /\ UNCHANGED <<client, gcall>>
       ELSE /\ client' = [client EXCEPT !.pending[msg.seq] = None]
            /\ gcall' = IF c = None THEN gcall
                        ELSE [gcall EXCEPT ![c] = [at |-> "ok", got |-> msg.of]]
            /\ UNCHANGED handlers
    /\ UNCHANGED <<up, toMaster, reading, peer, check, runs, list>>

\* A mutant: the calls that wait are not told of the break.
GameLoopEndsSilently(k) ==
    /\ reading[k] /\ up[k] = "down" /\ client.sending = None
    /\ reading' = [reading EXCEPT ![k] = FALSE]
    /\ client' = [client EXCEPT !.shutdown = TRUE, !.connected = FALSE]
    /\ UNCHANGED <<wires, gcall, peer, check, handlers, runs, list>>

\* The loop ends at a break: with sending held, every pending call fails.  The
\* calls stay in the map.
GameLoopEnds(k) ==
    LET failed == {client.pending[n] : n \in Seqs} \ {None} IN
    /\ reading[k] /\ up[k] = "down" /\ client.sending = None
    /\ reading' = [reading EXCEPT ![k] = FALSE]
    /\ client' = [client EXCEPT !.shutdown = TRUE, !.connected = FALSE]
    /\ gcall' = [c \in Callers |->
                   IF c \in failed /\ gcall[c].at = "wait" THEN [gcall[c] EXCEPT !.at = "err"]
                   ELSE gcall[c]]
    /\ UNCHANGED <<wires, peer, check, handlers, runs, list>>

\* A handler of the game server is done.  It answers over the codec its Client
\* has by now.
GameAnswers(h) ==
    /\ h \in handlers /\ h.side = "game"
    /\ handlers' = handlers \ {h}
    /\ toMaster' = Written(toMaster, client.codec, [kind |-> "resp", seq |-> h.seq, of |-> h.of, via |-> h.k])
    /\ UNCHANGED <<up, toGame, game, peer, check, runs, list>>

----------------------------------------------------------------------------
(* The master. *)

\* IsOnline and KickAccount hold the list's lock for reading until they are done.
Busy == {m \in Checks : check[m].at \notin {"idle", "done"}}

\* A handler of the master is done; ServerRegister calls NewServer, which takes
\* the list's lock.  The answer goes over the connection of the request.
MasterAnswers(h) ==
    /\ h \in handlers /\ h.side = "master"
    /\ h.of \in Conns => Busy = {}
    /\ servers' = IF h.of \in Conns THEN servers \cup {h.k} ELSE servers
    /\ runs' = [runs EXCEPT ![h.of] = @ + 1]
    /\ handlers' = handlers \ {h}
    /\ toGame' = Written(toGame, h.k, [kind |-> "resp", seq |-> h.seq, of |-> h.of, via |-> h.k])
    /\ UNCHANGED <<up, toMaster, game, peer, check, leaving>>

\* The answer to an online check: yes ends it, no goes on with the next server.
Checked(m, msg) ==
    \E at \in {"next", "done"} :
      check' = [check EXCEPT ![m].at = at, ![m].got = @ \cup {<<check[m].k, msg.of, msg.via>>}]

\* readLoop of the master's Client.
MasterReads(k) ==
    LET msg == Head(toMaster[k])
        m == peer[k].pending[msg.seq] IN
    /\ peer[k].reading /\ toMaster[k] # <<>>
    /\ toMaster' = [toMaster EXCEPT ![k] = Tail(@)]
    /\ IF msg.kind = "req"
       THEN /\ handlers' = handlers \cup {[side |-> "master", k |-> k, seq |-> msg.seq, of |-> msg.of]}
            /\ UNCHANGED <<peer, check>>
       ELSE /\ peer' = [peer EXCEPT ![k].pending[msg.seq] = None]
            /\ IF m = None THEN UNCHANGED check ELSE Checked(m, msg)
            /\ UNCHANGED handlers
    /\ UNCHANGED <<up, toGame, game, runs, list>>

\* A mutant: the checks that wait are not told of the break.
MasterLoopEndsSilently(k) ==
    /\ peer[k].reading /\ up[k] = "down" /\ peer[k].sending = None
    /\ peer' = [peer EXCEPT ![k].reading = FALSE, ![k].shutdown = TRUE]
    /\ leaving' = leaving \cup {k}
    /\ UNCHANGED <<wires, game, check, handlers, runs, servers>>

\* The loop ends: pending calls fail, and OnSyncDisconnect gets a goroutine.
MasterLoopEnds(k) ==
    LET failed == {peer[k].pending[n] : n \in Seqs} \ {None} IN
    /\ peer[k].reading /\ up[k] = "down" /\ peer[k].sending = None
    /\ peer' = [peer EXCEPT ![k].reading = FALSE, ![k].shutdown = TRUE]
    /\ check' = [m \in Checks |->
                   IF m \in failed /\ check[m].at = "wait" /\ check[m].k = k
                   THEN [check[m] EXCEPT !.at = "next"] ELSE check[m]]
    /\ leaving' = leaving \cup {k}
    /\ UNCHANGED <<wires, game, handlers, runs, servers>>

\* A mutant: the server is removed by what it is, not by its connection.
RemoveServerById(k) ==
    /\ k \in leaving /\ Busy = {}
    /\ leaving' = leaving \ {k} /\ servers' = {}
    /\ UNCHANGED <<wires, game, peer, check, handlers, runs>>

RemoveServer(k) ==
    /\ k \in leaving /\ Busy = {}
    /\ leaving' = leaving \ {k} /\ servers' = servers \ {k}
    /\ UNCHANGED <<wires, game, peer, check, handlers, runs>>

\* A check asks the game servers of the list, one after the other ...
IsOnline(m) ==
    /\ check[m].at = "idle"
    /\ check' = [check EXCEPT ![m].at = "next", ![m].todo = servers]
    /\ UNCHANGED <<wires, game, peer, handlers, runs, list>>

AskNext(m) ==
    /\ check[m].at = "next"
    /\ \/ check[m].todo = {} /\ check' = [check EXCEPT ![m].at = "done"]
       \/ \E k \in check[m].todo :
            check' = [check EXCEPT ![m].at = "send", ![m].k = k, ![m].todo = @ \ {k}]
    /\ UNCHANGED <<wires, game, peer, handlers, runs, list>>

\* ... with send of the master's Client.
Ask(m) ==
    LET k == check[m].k IN
    /\ check[m].at = "send" /\ peer[k].sending = None
    /\ IF peer[k].shutdown
       THEN check' = [check EXCEPT ![m].at = "next"] /\ UNCHANGED peer
       ELSE /\ check' = [check EXCEPT ![m].at = "wait"]
            /\ peer' = [peer EXCEPT ![k].sending = m, ![k].seq = @ + 1,
                                    ![k].pending[peer[k].seq] = m]
    /\ UNCHANGED <<wires, game, handlers, runs, list>>

AskWrites(m) ==
    LET k == check[m].k
        n == peer[k].seq - 1 IN
    /\ k \in Conns /\ peer[k].sending = m
    /\ \/ /\ toGame' = Written(toGame, k, [kind |-> "req", seq |-> n, of |-> m, via |-> k])
          /\ peer' = [peer EXCEPT ![k].sending = None]
          /\ UNCHANGED check
       \/ /\ ~Up(k)
          /\ check' = [check EXCEPT ![m].at = "next"]
          /\ peer' = [peer EXCEPT ![k].sending = None, ![k].pending[n] = None]
          /\ UNCHANGED toGame
    /\ UNCHANGED <<up, toMaster, game, handlers, runs, list>>

----------------------------------------------------------------------------

GameStep ==
    \/ \E c \in Callers : Send(c) \/ WriteRequest(c)
    \/ \E k \in Conns : GameReads(k) \/ GameLoopEnds(k)
    \/ \E h \in handlers : GameAnswers(h)

MasterStep ==
    \/ \E k \in Conns : MasterReads(k) \/ MasterLoopEnds(k) \/ RemoveServer(k)
    \/ \E h \in handlers : MasterAnswers(h)
    \/ \E m \in Checks : AskNext(m) \/ Ask(m) \/ AskWrites(m)

Next ==
    \/ Dial \/ \E k \in Conns : Break(k)
    \/ \E c \in GCalls : Call(c)
    \/ \E m \in Checks : IsOnline(m)
    \/ GameStep \/ MasterStep

\* Goroutines go on: the read loops, the senders and the handlers.  Nobody has
\* to call, to dial or to break the connection.
Fairness ==
    /\ \A c \in Callers : WF_vars(Send(c)) /\ WF_vars(WriteRequest(c))
    /\ \A k \in Conns :
         /\ WF_vars(GameReads(k)) /\ WF_vars(GameLoopEnds(k))
         /\ WF_vars(MasterReads(k)) /\ WF_vars(MasterLoopEnds(k)) /\ WF_vars(RemoveServer(k))
    /\ WF_vars(\E h \in handlers : GameAnswers(h))
    /\ WF_vars(\E h \in handlers : MasterAnswers(h))
    /\ \A m \in Checks : WF_vars(AskNext(m)) /\ WF_vars(Ask(m)) /\ WF_vars(AskWrites(m))

Spec == Init /\ [][Next]_vars /\ Fairness

----------------------------------------------------------------------------
(* Properties. *)

TypeOK ==
    /\ up \in [Conns -> {"none", "up", "down"}]
    /\ client.codec \in 0 .. MaxConns /\ client.sending \in Callers \cup {None}
    /\ client.pending \in [Seqs -> Callers \cup {None}]
    /\ \A c \in Callers : gcall[c].at \in {"new", "called", "wait", "ok", "err"}
    /\ \A m \in Checks :
         /\ check[m].at \in {"idle", "next", "send", "wait", "done"}
         /\ check[m].todo \subseteq Conns
    /\ runs \in [Callers -> 0 .. 1]
    /\ servers \subseteq Conns /\ leaving \subseteq Conns

Phase ==
    [c \in Callers |-> IF gcall[c].at = "wait" \/ (gcall[c].at = "ok" /\ gcall[c].got # c)
                       THEN "called" ELSE gcall[c].at]

Promise == INSTANCE RpcCall WITH Calls <- Callers, phase <- Phase, runs <- runs

\* For the game server the calls of share/rpc are the calls of RpcCall, over
\* any number of breaks and dials: each is served at most once, an answer is
\* that of the call itself, every call comes back.
CallsKeepPromise == Promise!Spec

\* The master's checks come back too, although they hold the lock of the list
\* of servers and the game server may be gone (IsOnline, KickAccount).
ChecksReturn == \A m \in Checks : (check[m].at = "next") ~> (check[m].at = "done")

\* A game server that is connected and was told that it is registered is in
\* the master's list, although the removal of its earlier connection may come
\* late (ServerRegister, OnSyncDisconnect).
Registered ==
    LET k == client.codec IN
    Up(k) /\ gcall[k].at = "ok" => k \in servers

\* readLoop: "If the message is response, sends the reply to the associated
\* call", here for the calls of the master.
ChecksOwnAnswer == \A m \in Checks : \A g \in check[m].got : g[2] = m /\ g[3] = g[1]
=============================================================================

------------------------------ MODULE RpcCall -------------------------------
(***************************************************************************)
(* What a remote call promises its caller: the other side runs the handler *)
(* at most once, an answer is the one of that run, and an error says       *)
(* nothing: the handler may have run, may still run or may never run.      *)
(***************************************************************************)
EXTENDS Naturals

CONSTANT Calls

VARIABLES
    phase,          \* "new", "called", "ok" or "err"
    runs            \* how often the other side has run the handler

vars == <<phase, runs>>

Init ==
    /\ phase = [c \in Calls |-> "new"]
    /\ runs = [c \in Calls |-> 0]

Invoke(c) ==
    /\ phase[c] = "new"
    /\ phase' = [phase EXCEPT ![c] = "called"]
    /\ UNCHANGED runs

\* The handler runs while the caller waits, or after it was told of an error.
Run(c) ==
    /\ phase[c] \in {"called", "err"} /\ runs[c] = 0
    /\ runs' = [runs EXCEPT ![c] = 1]
    /\ UNCHANGED phase

Answer(c) ==
    /\ phase[c] = "called" /\ runs[c] = 1
    /\ phase' = [phase EXCEPT ![c] = "ok"]
    /\ UNCHANGED runs

Fail(C) ==
    /\ C # {} /\ \A c \in C : phase[c] = "called"
    /\ phase' = [c \in Calls |-> IF c \in C THEN "err" ELSE phase[c]]
    /\ UNCHANGED runs

Next ==
    \/ \E c \in Calls : Invoke(c) \/ Run(c) \/ Answer(c)
    \/ \E C \in SUBSET Calls : Fail(C)

\* Every call comes back.
Spec == Init /\ [][Next]_vars /\ \A c \in Calls : (phase[c] = "called") ~> (phase[c] \in {"ok", "err"})
=============================================================================

------------------------------- MODULE MCMail -------------------------------
(***************************************************************************)
(* Two characters who send each other Alz and one item.  In the mode       *)
(* overlap two handlers overlap, calls fail and only the first sends; in   *)
(* the modes solo and lists one packet is handled at a time and every call *)
(* is answered, and in the mode lists every notification arrives and the   *)
(* clients ask the chat server for lists.                                  *)
(***************************************************************************)
EXTENDS Mail, TLC

CONSTANTS a, b, x

VARIABLE mode

MCStartAlz == (a :> 4) @@ (b :> 4)
MCStartItems == (a :> (0 :> x)) @@ (b :> (0 :> None))

mcvars == <<vars, mode>>

MCInit == Init /\ mode \in {"overlap", "solo", "lists"}

\* The clients' lists do not depend on what is attached.
SoloNext ==
    \/ \E h \in Handlers : Step(h)
    \/ /\ Quiet
       /\ \E h \in Handlers :
            \/ mode = "solo" /\ Packet(h)
            \/ mode = "lists" /\ (SendPacket(h, Chars, {0}, {NoSlot}) \/ MailboxPacket(h, {NoSlot}))
    \/ mode = "solo" /\ \E c \in Chars : NotifyMailLost(c)
    \/ mode = "lists" /\ ChatStep

OverlapNext ==
    \/ \E h \in Handlers :
         \/ SendPacket(h, {a}, Amounts \ {0}, Slots \cup {NoSlot}) \/ MailboxPacket(h, {NoSlot})
         \/ Step(h) \/ CallFails(h)
    \/ \E c \in Chars : NotifyMailLost(c)

MCNext == UNCHANGED mode /\ IF mode = "overlap" THEN OverlapNext ELSE SoloNext

MCSpec == MCInit /\ [][MCNext]_mcvars

\* What no step of the mode overlap reads is not told apart there.
View ==
    <<mode, master, charItems, call, IF mode = "overlap" THEN None ELSE <<charAlz, chat>>>>

Symmetry == Permutations(Handlers)

SoloCopies == mode # "overlap" => CopiesFollow
ListsKnowNew == mode = "lists" => KnowsNew
ListsKnowAll == mode = "lists" => KnowsAll
=============================================================================

----------------------------- MODULE MailProofs -----------------------------
(***************************************************************************)
(* Proofs about Mail, for any number of characters, items, slots, mails    *)
(* and goroutines: Alz is neither made nor lost, and an item is in one     *)
(* place, whatever packets overlap and whichever calls fail; and, when one *)
(* packet is handled at a time, the copies of the game server follow, a    *)
(* mailbox keeps its bound and the clients hear of their mails.            *)
(*                                                                         *)
(* The first part is about sums over finite sets, which are defined by     *)
(* recursion over a set.  What would be an induction is an argument about  *)
(* a smallest counterexample: the subsets of a finite set are well-founded *)
(* under inclusion.                                                        *)
(***************************************************************************)
EXTENDS Mail, FiniteSetTheorems, TLAPS

----------------------------------------------------------------------------
(* Sums. *)

pick(s) == CHOOSE x \in s : TRUE

\* g adds up f along the elements that are picked, on the sets of D.
Adds(g, f, D) ==
    \A s \in D :
        IF s = {} THEN g[s] = 0
        ELSE s \ {pick(s)} \in D /\ g[s] = f[pick(s)] + g[s \ {pick(s)}]

\* A member picked from a set is one.
LEMMA PickIn == ASSUME NEW s, s # {} PROVE pick(s) \in s
  BY DEF pick

\* Among some subsets of a finite set one has no smaller one among them.
LEMMA SmallestSubset ==
  ASSUME NEW S, IsFiniteSet(S), NEW B, B \subseteq SUBSET S, B # {}
  PROVE  \E T \in B : \A U \in B : U \subseteq T => U = T
  <1> DEFINE R == StrictSubsetOrdering(S)
  <1>1. IsWellFoundedOn(R, SUBSET S)
    BY FS_StrictSubsetOrderingWellFounded, FS_FiniteSubsetsOfFinite
  <1>2. PICK T \in B : \A U \in B : ~ (<<U, T>> \in R)
    <2> HIDE DEF R
    <2> QED BY <1>1, WFMin
  <1> QED
    BY <1>2 DEF StrictSubsetOrdering

\* T has a set of subsets of S to add f up along.
Summed(T, f, S) == \E D \in SUBSET SUBSET S : \E g \in [D -> Int] : T \in D /\ Adds(g, f, D)

\* Every subset has a set of subsets to add up along.
LEMMA AddsSomewhere ==
  ASSUME NEW S, IsFiniteSet(S), NEW f \in [S -> Int]
  PROVE  \A T \in SUBSET S : Summed(T, f, S)
  <1> DEFINE Ok(T) == \E D \in SUBSET SUBSET S : \E g \in [D -> Int] : T \in D /\ Adds(g, f, D)
             B == {T \in SUBSET S : ~ Ok(T)}
  <1> SUFFICES ASSUME B # {} PROVE FALSE
    BY DEF Summed
  <1>1. PICK T \in B : \A U \in B : U \subseteq T => U = T
    <2>1. B \subseteq SUBSET S
      OBVIOUS
    <2> HIDE DEF B
    <2> QED BY <2>1, SmallestSubset
  <1>2. CASE T = {}
    <2> DEFINE g == [s \in {{}} |-> 0]
    <2>1. {{}} \in SUBSET SUBSET S /\ g \in [{{}} -> Int]
      OBVIOUS
    <2>2. Adds(g, f, {{}})
      BY DEF Adds
    <2> QED
      BY <1>1, <1>2, <2>1, <2>2
  <1>3. CASE T # {}
    <2> DEFINE x == pick(T)
               U == T \ {x}
    <2>1. x \in T /\ x \in S
      BY <1>1, <1>3, PickIn
    <2>2. Ok(U)
      <3>1. U \in SUBSET S /\ U \subseteq T /\ U # T
        BY <1>1, <2>1
      <3> HIDE DEF U, Ok
      <3> QED BY <1>1, <3>1
    <2>3. PICK D \in SUBSET SUBSET S : \E g \in [D -> Int] : U \in D /\ Adds(g, f, D)
      BY <2>2
    <2>4. PICK g \in [D -> Int] : U \in D /\ Adds(g, f, D)
      BY <2>3
    <2>5. T \notin D
      BY <1>1, <2>4
    <2> DEFINE E == D \cup {T}
               e == [s \in E |-> IF s = T THEN f[x] + g[U] ELSE g[s]]
    <2>6. E \in SUBSET SUBSET S /\ e \in [E -> Int]
      BY <1>1, <2>1, <2>4
    <2>7. Adds(e, f, E)
      <3> SUFFICES ASSUME NEW s \in E
                   PROVE  IF s = {} THEN e[s] = 0
                          ELSE s \ {pick(s)} \in E /\ e[s] = f[pick(s)] + e[s \ {pick(s)}]
        BY DEF Adds
      <3>1. CASE s = T
        <4>1. U # T
          BY <2>1
        <4>2. e[s] = f[x] + g[U] /\ e[U] = g[U] /\ U \in E
          BY <2>4, <3>1, <4>1
        <4> QED BY <1>3, <3>1, <4>2
      <3>2. CASE s # T
        <4>1. s \in D /\ e[s] = g[s]
          BY <3>2
        <4>2. IF s = {} THEN g[s] = 0
              ELSE s \ {pick(s)} \in D /\ g[s] = f[pick(s)] + g[s \ {pick(s)}]
          BY <2>4, <4>1 DEF Adds
        <4>3. \A t \in D : e[t] = g[t] /\ t \in E
          BY <2>5
        <4> HIDE DEF E, e
        <4> QED BY <4>1, <4>2, <4>3
      <3> QED BY <3>1, <3>2
    <2> QED
      <3> HIDE DEF E, e
      <3>1. T \in E
        BY DEF E
      <3> QED BY <1>1, <2>6, <2>7, <3>1
  <1> QED BY <1>2, <1>3

\* What is added up for a set does not depend on the way.
LEMMA AddsAgree ==
  ASSUME NEW S, IsFiniteSet(S), NEW f, NEW D \in SUBSET SUBSET S, NEW E \in SUBSET SUBSET S,
         NEW g, NEW h, Adds(g, f, D), Adds(h, f, E)
  PROVE  \A s \in D \cap E : g[s] = h[s]
  <1> DEFINE B == {s \in D \cap E : g[s] # h[s]}
  <1> SUFFICES ASSUME B # {} PROVE FALSE
    OBVIOUS
  <1>1. PICK T \in B : \A U \in B : U \subseteq T => U = T
    <2>1. B \subseteq SUBSET S
      OBVIOUS
    <2> HIDE DEF B
    <2> QED BY <2>1, SmallestSubset
  <1>2. T # {}
    BY <1>1 DEF Adds
  <1>3. pick(T) \in T
    BY <1>2, PickIn
  <1>4. /\ T \ {pick(T)} \in D \cap E
        /\ g[T] = f[pick(T)] + g[T \ {pick(T)}]
        /\ h[T] = f[pick(T)] + h[T \ {pick(T)}]
    BY <1>1, <1>2 DEF Adds
  <1>5. g[T \ {pick(T)}] = h[T \ {pick(T)}]
    BY <1>1, <1>3, <1>4
  <1> QED BY <1>1, <1>4, <1>5

\* g holds the sums of f over all subsets of S.
SumsOf(g, f, S) == g \in [SUBSET S -> Int] /\ Adds(g, f, SUBSET S)

\* The sums of all subsets.
Sums(f, S) ==
    CHOOSE g : g = [s \in SUBSET S |-> IF s = {} THEN 0 ELSE f[pick(s)] + g[s \ {pick(s)}]]

\* The sums over the subsets of a finite set add one member at a time.
LEMMA SumsAdd ==
  ASSUME NEW S, IsFiniteSet(S), NEW f \in [S -> Int]
  PROVE  SumsOf(Sums(f, S), f, S)
  <1>0. \A T \in SUBSET S : Summed(T, f, S)
    BY AddsSomewhere
  <1> DEFINE Way(T, v) == \E D \in SUBSET SUBSET S : \E g \in [D -> Int] :
                              T \in D /\ Adds(g, f, D) /\ v = g[T]
             val(T) == CHOOSE v \in Int : Way(T, v)
             G == [s \in SUBSET S |-> val(s)]
  <1>1. ASSUME NEW T \in SUBSET S
        PROVE  val(T) \in Int /\ Way(T, val(T))
    <2>1. \E v \in Int : Way(T, v)
      <3>1. PICK D \in SUBSET SUBSET S : \E g \in [D -> Int] : T \in D /\ Adds(g, f, D)
        BY <1>0 DEF Summed
      <3>2. PICK g \in [D -> Int] : T \in D /\ Adds(g, f, D)
        BY <3>1
      <3>3. g[T] \in Int /\ Way(T, g[T])
        BY <3>2
      <3> QED BY <3>3
    <2> HIDE DEF Way
    <2> QED BY <2>1
  <1>2. ASSUME NEW T \in SUBSET S, NEW v, NEW w, Way(T, v), Way(T, w)
        PROVE  v = w
    BY <1>2, AddsAgree
  <1>3. ASSUME NEW T \in SUBSET S
        PROVE  /\ T = {} => val(T) = 0
               /\ T # {} => T \ {pick(T)} \in SUBSET S /\ val(T) = f[pick(T)] + val(T \ {pick(T)})
    <2>1. PICK D \in SUBSET SUBSET S : \E g \in [D -> Int] : T \in D /\ Adds(g, f, D) /\ val(T) = g[T]
      BY <1>1
    <2>2. PICK g \in [D -> Int] : T \in D /\ Adds(g, f, D) /\ val(T) = g[T]
      BY <2>1
    <2>3. IF T = {} THEN g[T] = 0
          ELSE T \ {pick(T)} \in D /\ g[T] = f[pick(T)] + g[T \ {pick(T)}]
      BY <2>2 DEF Adds
    <2>4. ASSUME T # {}
          PROVE  T \ {pick(T)} \in SUBSET S /\ val(T) = f[pick(T)] + val(T \ {pick(T)})
      <3>1. Way(T \ {pick(T)}, g[T \ {pick(T)}])
        BY <2>2, <2>3, <2>4
      <3>2. T \ {pick(T)} \in SUBSET S
        OBVIOUS
      <3>3. Way(T \ {pick(T)}, val(T \ {pick(T)}))
        BY <1>1, <3>2
      <3> HIDE DEF Way, val
      <3>4. val(T \ {pick(T)}) = g[T \ {pick(T)}]
        BY <1>2, <3>1, <3>2, <3>3
      <3> QED BY <2>2, <2>3, <2>4, <3>2, <3>4
    <2> QED
      <3> HIDE DEF val
      <3> QED BY <2>2, <2>3, <2>4
  <1>4. G = [s \in SUBSET S |-> IF s = {} THEN 0 ELSE f[pick(s)] + G[s \ {pick(s)}]]
    <2> HIDE DEF val
    <2> QED BY <1>3
  <1>5. Sums(f, S) = [s \in SUBSET S |-> IF s = {} THEN 0
                                         ELSE f[pick(s)] + Sums(f, S)[s \ {pick(s)}]]
    <2> HIDE DEF G
    <2> QED BY <1>4 DEF Sums
  <1>6. Adds(Sums(f, S), f, SUBSET S)
    <2> SUFFICES ASSUME NEW s \in SUBSET S
                 PROVE  IF s = {} THEN Sums(f, S)[s] = 0
                        ELSE /\ s \ {pick(s)} \in SUBSET S
                             /\ Sums(f, S)[s] = f[pick(s)] + Sums(f, S)[s \ {pick(s)}]
      BY DEF Adds
    <2> QED BY <1>5
  <1>7. \A s \in SUBSET S : Sums(f, S)[s] = val(s)
    <2>1. Adds(G, f, SUBSET S)
      <3> HIDE DEF val
      <3> QED BY <1>3 DEF Adds
    <2>2. \A s \in SUBSET S : G[s] = val(s)
      <3> HIDE DEF val
      <3> QED OBVIOUS
    <2> HIDE DEF G, val
    <2>3. SUBSET S \in SUBSET SUBSET S /\ (SUBSET S) \cap (SUBSET S) = SUBSET S
      OBVIOUS
    <2>4. \A s \in (SUBSET S) \cap (SUBSET S) : Sums(f, S)[s] = G[s]
      BY <1>6, <2>1, <2>3, AddsAgree
    <2> QED BY <2>2, <2>3, <2>4
  <1>8. Sums(f, S) \in [SUBSET S -> Int]
    <2>1. \A s \in SUBSET S : val(s) \in Int
      <3> HIDE DEF val, Way
      <3> QED BY <1>1
    <2> HIDE DEF val
    <2>2. \A s \in SUBSET S : Sums(f, S)[s] \in Int
      BY <1>7, <2>1
    <2> QED BY <1>5, <2>2
  <1> QED BY <1>6, <1>8 DEF SumsOf

\* The total of a function is the sum of its whole domain.
LEMMA TotalIsSum ==
  ASSUME NEW f PROVE Total(f) = Sums(f, DOMAIN f)[DOMAIN f]
  BY DEF Total, MapThenSumSet, MapThenFoldSet, Sums, pick

\* Any element may be taken out first.
LEMMA SumRemove ==
  ASSUME NEW S, IsFiniteSet(S), NEW f \in [S -> Int], NEW g, SumsOf(g, f, S),
         NEW r \in SUBSET S, NEW q \in r
  PROVE  g[r] = f[q] + g[r \ {q}]
  <1> DEFINE B == {s \in SUBSET S : \E y \in s : g[s] # f[y] + g[s \ {y}]}
  <1> SUFFICES ASSUME B # {} PROVE FALSE
    OBVIOUS
  <1>1. PICK T \in B : \A U \in B : U \subseteq T => U = T
    <2>1. B \subseteq SUBSET S
      OBVIOUS
    <2> HIDE DEF B
    <2> QED BY <2>1, SmallestSubset
  <1>2. PICK y \in T : g[T] # f[y] + g[T \ {y}]
    BY <1>1
  <1> DEFINE x == pick(T)
             U == T \ {x}
             V == T \ {y}
             W == (T \ {y}) \ {x}
  <1>3. T \in SUBSET S /\ x \in T /\ y \in T
    BY <1>1, <1>2, PickIn
  <1>4. g[T] = f[x] + g[U]
    BY <1>3 DEF Adds, SumsOf
  <1>5. x # y
    BY <1>2, <1>4
  <1>6. /\ U \in SUBSET S /\ U # T /\ U \subseteq T /\ y \in U /\ U \ {y} = W
        /\ V \in SUBSET S /\ V # T /\ V \subseteq T /\ x \in V /\ V \ {x} = W
        /\ W \in SUBSET S
    BY <1>3, <1>5
  <1>7. ASSUME NEW s \in SUBSET S, s # T, s \subseteq T, NEW z \in s
        PROVE  g[s] = f[z] + g[s \ {z}]
    BY <1>1, <1>7
  <1>8. g[U] = f[y] + g[W]
    <2> HIDE DEF x, U, V, W
    <2> QED BY <1>6, <1>7
  <1>9. g[V] = f[x] + g[W]
    <2> HIDE DEF x, U, V, W
    <2> QED BY <1>6, <1>7
  <1>10. f[x] \in Int /\ f[y] \in Int /\ g[W] \in Int
    BY <1>3, <1>6 DEF SumsOf
  <1> HIDE DEF x, U, V, W
  <1>11. g[T] = f[y] + g[V]
    BY <1>4, <1>8, <1>9, <1>10
  <1> QED
    BY <1>2, <1>11 DEF V

\* Sums over sets on which two functions agree.
LEMMA SumAgree ==
  ASSUME NEW S, IsFiniteSet(S), NEW e, NEW f, NEW g, NEW h, 
SumsOf(g, e, S), SumsOf(h, f, S), NEW R \in SUBSET S, \A x \in R : e[x] = f[x]
  PROVE  g[R] = h[R]
  <1> DEFINE B == {s \in SUBSET R : g[s] # h[s]}
  <1> SUFFICES ASSUME B # {} PROVE FALSE
    OBVIOUS
  <1>1. PICK T \in B : \A U \in B : U \subseteq T => U = T
    <2>1. B \subseteq SUBSET S
      OBVIOUS
    <2> HIDE DEF B
    <2> QED BY <2>1, SmallestSubset
  <1>2. T # {}
    BY <1>1 DEF Adds, SumsOf
  <1>3. pick(T) \in T
    BY <1>2, PickIn
  <1>4. /\ T \ {pick(T)} \in SUBSET R
        /\ g[T] = e[pick(T)] + g[T \ {pick(T)}]
        /\ h[T] = f[pick(T)] + h[T \ {pick(T)}]
    BY <1>1, <1>2 DEF Adds, SumsOf
  <1>5. g[T \ {pick(T)}] = h[T \ {pick(T)}]
    BY <1>1, <1>3, <1>4
  <1> QED BY <1>1, <1>3, <1>4, <1>5

\* A total is a number.
LEMMA TotalInt ==
  ASSUME NEW S, IsFiniteSet(S), NEW f \in [S -> Int]
  PROVE  Total(f) \in Int
  <1>1. Sums(f, S) \in [SUBSET S -> Int]
    BY SumsAdd DEF SumsOf
  <1>2. Total(f) = Sums(f, S)[S]
    BY TotalIsSum
  <1> QED BY <1>1, <1>2

\* The total is what one element has and the sum of the others.
LEMMA TotalSplit ==
  ASSUME NEW S, IsFiniteSet(S), NEW f \in [S -> Int], NEW y \in S
  PROVE  Total(f) = f[y] + Sums(f, S)[S \ {y}] /\ Sums(f, S)[S \ {y}] \in Int
  <1>1. SumsOf(Sums(f, S), f, S)
    BY SumsAdd
  <1>2. Total(f) = Sums(f, S)[S]
    BY TotalIsSum
  <1>3. S \in SUBSET S /\ S \ {y} \in SUBSET S
    OBVIOUS
  <1>4. Sums(f, S)[S] = f[y] + Sums(f, S)[S \ {y}]
    BY <1>1, <1>3, SumRemove
  <1>5. Sums(f, S)[S \ {y}] \in Int
    BY <1>1, <1>3 DEF SumsOf
  <1> QED BY <1>2, <1>4, <1>5

\* One value changes: the total changes by as much.
LEMMA TotalChange ==
  ASSUME NEW S, IsFiniteSet(S), NEW e \in [S -> Int], NEW f \in [S -> Int], NEW y \in S,
         \A x \in S \ {y} : f[x] = e[x]
  PROVE  Total(f) = Total(e) - e[y] + f[y]
  <1>1. Total(e) = e[y] + Sums(e, S)[S \ {y}] /\ Sums(e, S)[S \ {y}] \in Int
    BY TotalSplit
  <1>2. Total(f) = f[y] + Sums(f, S)[S \ {y}]
    BY TotalSplit
  <1>3. SumsOf(Sums(e, S), e, S) /\ SumsOf(Sums(f, S), f, S)
    BY SumsAdd
  <1>4. Sums(f, S)[S \ {y}] = Sums(e, S)[S \ {y}]
    BY <1>3, SumAgree
  <1>5. e[y] \in Int /\ f[y] \in Int
    OBVIOUS
  <1> QED BY <1>1, <1>2, <1>4, <1>5
----------------------------------------------------------------------------
(* The inductive invariant. *)

Ats == {"idle", "send", "post", "alz", "remove", "takeAlz", "takeItem", "set", "return", "turn",
        "erase", "mark", "cleanup"}

Calls ==
    [at : Ats, c : Chars \cup {None}, id : Nat, peer : Chars \cup {None}, alz : 0 .. MaxAlz,
     item : Items \cup {None}, slot : Slots \cup {NoSlot}]

\* What a goroutine has read by the time it uses it.
CallOK(r) ==
    /\ r \in Calls
    /\ r.at # "idle" => r.c \in Chars
    /\ r.at \in {"send", "post", "turn"} => r.peer \in Chars
    /\ r.at \in {"send", "post", "alz"} /\ r.item # None => r.slot \in Slots
    /\ r.at \in {"remove", "set"} => r.slot \in Slots
    /\ r.at = "takeAlz" => r.item = None
    /\ r.at \in {"takeAlz", "takeItem", "return", "turn", "erase", "mark", "cleanup"} => r.id \in Ids

CallsOK == call \in [Handlers -> Calls] /\ \A h \in Handlers : CallOK(call[h])

\* Nothing is attached to a mail, or any more.
Bare(i) == mails[i] # Unused /\ (There(i) => mails[i].alz = 0 /\ mails[i].item = None)

\* DeleteReceivedMail found the mail empty when it read it, without a lock: it
\* is still empty when the row is marked.
MarksEmpty == \A h \in Handlers : call[h].at = "mark" => Bare(call[h].id)

\* An item is in one slot and no mail, or in no slot and one mail.
Place(x) ==
    \/ MailsOf(x) = {} /\ \E p \in Chars \X Slots : SlotsOf(x) = {p}
    \/ SlotsOf(x) = {} /\ \E i \in Ids : MailsOf(x) = {i}

Placed == \A x \in Goods : Place(x)

MailInv == TypeOK /\ CallsOK /\ MarksEmpty /\ AlzKept /\ Placed

----------------------------------------------------------------------------
(* Types. *)

\* A goroutine that ends, or goes on with what it has read, is in order.
LEMMA IdleOK == CallOK(Idle)
  <1>1. "idle" \in Ats
    BY DEF Ats
  <1>2. MaxAlz \in Nat
    BY AlzAssumption
  <1>3. Idle \in Calls
    BY <1>1, <1>2 DEF Calls, Idle
  <1> QED BY <1>3 DEF CallOK, Idle

\* A goroutine whose record is in order leaves all in order.
LEMMA BecomesOK ==
  ASSUME CallsOK, NEW h \in Handlers, NEW r, CallOK(r), Becomes(h, r)
  PROVE  CallsOK'
  BY DEF CallsOK, CallOK, Becomes

\* A request that fails changes its goroutine only.
LEMMA FailsOK ==
  ASSUME TypeOK, CallsOK, NEW h \in Handlers, Fails(h)
  PROVE  UNCHANGED <<master, game, chat>> /\ TypeOK' /\ CallsOK'
  <1>1. CallsOK'
    BY IdleOK, BecomesOK DEF Fails
  <1>2. UNCHANGED <<master, game, chat>>
    BY DEF Fails
  <1> QED BY <1>1, <1>2 DEF TypeOK, master, game, chat

\* A packet that only starts a request.
LEMMA RequestOK ==
  ASSUME TypeOK, CallsOK, NEW h \in Handlers, NEW r, CallOK(r), Request(h, r)
  PROVE  UNCHANGED <<master, game, chat>> /\ TypeOK' /\ CallsOK'
  <1>1. CallsOK'
    BY BecomesOK DEF Request
  <1>2. UNCHANGED <<master, game, chat>>
    BY DEF Request
  <1> QED BY <1>1, <1>2 DEF TypeOK, master, game, chat

\* A mail that can be opened by its receiver is a row.
LEMMA ReceivedRow ==
  ASSUME TypeOK, NEW i \in Ids, NEW c, Received(i, c)
  PROVE  /\ mails[i] \in Rows /\ mails[i].is = "row" /\ mails[i].to = c
         /\ mails[i].delReceiver = FALSE /\ i \in Open
  BY DEF TypeOK, Received, There, Open, Unused, Removed, Rows

\* A mail that is there has a row.
LEMMA ThereRow ==
  ASSUME TypeOK, NEW i \in Ids, There(i)
  PROVE  mails[i] \in Rows
  BY DEF TypeOK, There, Unused, Removed

\* A packet's request is in order.
LEMMA PacketTypes ==
  ASSUME TypeOK, CallsOK, NEW h \in Handlers, Packet(h)
  PROVE  TypeOK' /\ CallsOK'
  <1>1. MaxAlz \in Nat /\ Amounts \subseteq 0 .. MaxAlz
    BY AlzAssumption
  <1>2. ASSUME NEW c \in Chars, NEW to \in Chars, NEW amount \in Amounts,
               NEW slot \in Slots \cup {NoSlot}, MailSend(h, c, to, amount, slot)
        PROVE  TypeOK' /\ CallsOK'
    <2> DEFINE r == [at |-> "send", c |-> c, id |-> 0, peer |-> to, alz |-> amount,
                     item |-> IF slot = NoSlot THEN None ELSE charItems[c][slot], slot |-> slot]
    <2>1. "send" \in Ats
      BY DEF Ats
    <2>2. r.item \in Items \cup {None}
      BY DEF TypeOK
    <2>3. r \in Calls
      <3>1. amount \in 0 .. MaxAlz
        BY <1>1
      <3> QED BY <1>1, <2>1, <2>2, <3>1 DEF Calls
    <2>4. CallOK(r)
      BY <2>3 DEF CallOK
    <2>5. Request(h, r)
      BY <1>2 DEF MailSend
    <2> HIDE DEF r
    <2> QED BY <2>4, <2>5, RequestOK
  <1>3. ASSUME NEW r \in Calls, r.at \in {"takeAlz", "takeItem", "return", "erase", "cleanup"},
               r.c \in Chars, r.id \in Ids, r.item = None
        PROVE  CallOK(r)
    BY <1>3 DEF CallOK
  <1>4. Idle \in Calls /\ Idle.item = None
    BY IdleOK DEF CallOK, Idle
  <1>5. {"takeAlz", "takeItem", "return", "erase", "cleanup"} \subseteq Ats
    BY DEF Ats
  <1>6. ASSUME NEW c \in Chars, NEW i \in Ids,
               NEW at \in {"takeAlz", "takeItem", "return", "erase", "cleanup"}
        PROVE  CallOK([Idle EXCEPT !.at = at, !.c = c, !.id = i])
    <2> DEFINE r == [Idle EXCEPT !.at = at, !.c = c, !.id = i]
    <2>1. i \in Nat /\ at \in Ats
      BY <1>5, BoundAssumption DEF Ids
    <2>2. r \in Calls /\ r.at = at /\ r.c = c /\ r.id = i /\ r.item = None
      BY <1>4, <2>1 DEF Calls
    <2> HIDE DEF r
    <2>3. CallOK(r)
      BY <1>3, <2>2
    <2> QED BY <2>3 DEF r
  <1>7. ASSUME NEW c \in Chars, NEW i \in Ids, NEW slot \in Slots \cup {NoSlot}
        PROVE  CallOK([Idle EXCEPT !.at = "takeItem", !.c = c, !.id = i, !.slot = slot])
    <2> DEFINE r == [Idle EXCEPT !.at = "takeItem", !.c = c, !.id = i, !.slot = slot]
    <2>1. i \in Nat /\ "takeItem" \in Ats
      BY <1>5, BoundAssumption DEF Ids
    <2>2. r \in Calls /\ r.at = "takeItem" /\ r.c = c /\ r.id = i /\ r.item = None
      BY <1>4, <2>1 DEF Calls
    <2> HIDE DEF r
    <2>3. CallOK(r)
      BY <1>3, <2>2
    <2> QED BY <2>3 DEF r
  <1>8. ASSUME NEW c \in Chars, NEW i \in Ids, DeleteSentMail(h, c, i)
        PROVE  TypeOK' /\ CallsOK'
    <2>1. CallsOK'
      BY <1>6, <1>8, BecomesOK DEF DeleteSentMail
    <2>2. mails[i] \in Rows
      BY <1>8, ThereRow DEF DeleteSentMail
    <2>3. mails' = [mails EXCEPT ![i].delSender = TRUE] /\ UNCHANGED <<alz, items, fees, game, chat>>
      BY <1>8 DEF DeleteSentMail
    <2>4. mails' \in [Ids -> {Unused, Removed} \cup Rows]
      <3>1. [mails[i] EXCEPT !.delSender = TRUE] \in Rows
        BY <2>2 DEF Rows
      <3> QED BY <2>3, <3>1 DEF TypeOK
    <2> QED BY <2>1, <2>3, <2>4 DEF TypeOK, game, chat
  <1> QED
    <2>1. CASE SendPacket(h, Chars, Amounts, Slots \cup {NoSlot})
      BY <1>2, <2>1 DEF SendPacket
    <2>2. CASE MailboxPacket(h, Slots \cup {NoSlot})
      <3>1. PICK c \in Chars, i \in Ids :
              \/ MailReceiveAlz(h, c, i) \/ MailReturn(h, c, i)
              \/ MailDeleteReceived(h, c, i) \/ DeleteSentMail(h, c, i)
              \/ \E slot \in Slots \cup {NoSlot} : MailReceiveItem(h, c, i, slot)
        BY <2>2 DEF MailboxPacket
      <3>2. CASE MailReceiveAlz(h, c, i)
        BY <1>6, <3>2, RequestOK DEF MailReceiveAlz
      <3>3. CASE MailReturn(h, c, i)
        BY <1>6, <3>3, RequestOK DEF MailReturn
      <3>4. CASE MailDeleteReceived(h, c, i)
        BY <1>6, <3>4, RequestOK DEF MailDeleteReceived
      <3>5. CASE \E slot \in Slots \cup {NoSlot} : MailReceiveItem(h, c, i, slot)
        BY <1>7, <3>5, RequestOK DEF MailReceiveItem
      <3> QED BY <1>8, <3>1, <3>2, <3>3, <3>4, <3>5
    <2> QED BY <2>1, <2>2 DEF Packet

\* What SendMail does when it does not fail: the row of mail i is new, and the
\* sender loses the attachment and the fee.
Posted(h, i) ==
    LET r == call[h] IN
    /\ r.at = "post" /\ r.alz + Fee(r) <= alz[r.c]
    /\ r.item # None => items[r.c][r.slot] = r.item
    /\ mails[i] = Unused
    /\ mails' = [mails EXCEPT ![i] =
           [is |-> "row", from |-> r.c, to |-> r.peer, type |-> "user", state |-> {},
            alz |-> r.alz, item |-> r.item, delSender |-> FALSE, delReceiver |-> FALSE]]
    /\ items' = IF r.item = None THEN items ELSE [items EXCEPT ![r.c][r.slot] = None]
    /\ alz' = [alz EXCEPT ![r.c] = @ - r.alz - Fee(r)]
    /\ fees' = fees + Fee(r)

\* A fee is a natural number.
LEMMA FeeNat == ASSUME NEW r PROVE Fee(r) \in Nat
  BY AlzAssumption DEF Fee

\* SendMail fails, or inserts one new mail and takes what it carries.
LEMMA SendMailPosts ==
  ASSUME TypeOK, CallsOK, NEW h \in Handlers, SendMail(h)
  PROVE  \/ Fails(h)
         \/ \E i \in Ids : /\ Posted(h, i)
                           /\ Becomes(h, [call[h] EXCEPT !.at = "alz", !.alz = alz'[call[h].c]])
                           /\ notices' = notices \cup {call[h].peer}
                           /\ UNCHANGED <<game, rung, known>>
  <1> DEFINE r == call[h]
  <1>1. r \in Calls /\ r.at = "post" /\ CallOK(r)
    BY DEF SendMail, CallsOK
  <1>2. r.c \in Chars /\ r.alz \in 0 .. MaxAlz /\ MaxAlz \in Nat
    BY <1>1, AlzAssumption DEF CallOK, Calls
  <1>3. alz[r.c] \in 0 .. MaxAlz
    BY <1>2 DEF TypeOK
  <1>4. SUFFICES ASSUME ~ Fails(h)
        PROVE  \E i \in Ids : /\ Posted(h, i)
                              /\ Becomes(h, [call[h] EXCEPT !.at = "alz", !.alz = alz'[call[h].c]])
                              /\ notices' = notices \cup {call[h].peer}
                              /\ UNCHANGED <<game, rung, known>>
    OBVIOUS
  <1>5. ~ (alz[r.c] < r.alz + Fee(r)) /\ ~ (r.item # None /\ items[r.c][r.slot] # r.item)
    BY <1>4, Zenon DEF SendMail
  <1>6. r.alz + Fee(r) <= alz[r.c]
    BY <1>2, <1>3, <1>5, FeeNat
  <1>7. PICK i \in Ids :
              /\ mails[i] = Unused
              /\ mails' = [mails EXCEPT ![i] =
                     [is |-> "row", from |-> r.c, to |-> r.peer, type |-> "user", state |-> {},
                      alz |-> r.alz, item |-> r.item, delSender |-> FALSE, delReceiver |-> FALSE]]
              /\ items' = IF r.item = None THEN items ELSE [items EXCEPT ![r.c][r.slot] = None]
              /\ alz' = [alz EXCEPT ![r.c] = @ - r.alz - Fee(r)]
              /\ fees' = fees + Fee(r)
              /\ notices' = notices \cup {r.peer}
              /\ Becomes(h, [r EXCEPT !.at = "alz", !.alz = alz'[r.c]])
              /\ UNCHANGED <<game, rung, known>>
    BY <1>4, Zenon DEF SendMail
  <1> HIDE DEF r
  <1>8. Posted(h, i)
    BY <1>1, <1>5, <1>6, <1>7 DEF Posted, r
  <1> QED BY <1>7, <1>8 DEF r

\* SendMail.
LEMMA SendMailTypes ==
  ASSUME TypeOK, CallsOK, NEW h \in Handlers, SendMail(h)
  PROVE  TypeOK' /\ CallsOK'
  <1> DEFINE r == call[h]
  <1>1. CASE Fails(h)
    BY <1>1, FailsOK
  <1>2. ASSUME NEW i \in Ids, Posted(h, i),
               Becomes(h, [r EXCEPT !.at = "alz", !.alz = alz'[r.c]]),
               notices' = notices \cup {r.peer}, UNCHANGED <<game, rung, known>>
        PROVE  TypeOK' /\ CallsOK'
    <2>1. r \in Calls /\ r.at = "post" /\ CallOK(r)
      BY <1>2 DEF Posted, CallsOK
    <2>2. /\ r.c \in Chars /\ r.peer \in Chars /\ r.item \in Items \cup {None}
          /\ r.alz \in 0 .. MaxAlz /\ MaxAlz \in Nat /\ r.slot \in Slots \cup {NoSlot}
          /\ r.item # None => r.slot \in Slots
      BY <2>1, AlzAssumption DEF CallOK, Calls
    <2>3. alz' \in [Chars -> 0 .. MaxAlz]
      <3>1. alz[r.c] \in 0 .. MaxAlz /\ r.alz + Fee(r) <= alz[r.c] /\ Fee(r) \in Nat
        BY <1>2, <2>2, FeeNat DEF Posted, TypeOK
      <3>2. alz[r.c] - r.alz - Fee(r) \in 0 .. MaxAlz
        BY <2>2, <3>1
      <3>3. alz' = [alz EXCEPT ![r.c] = alz[r.c] - r.alz - Fee(r)]
        BY <1>2 DEF Posted
      <3> QED BY <2>2, <3>2, <3>3 DEF TypeOK
    <2>4. items' \in [Chars -> [Slots -> Items \cup {None}]]
      <3>1. items' = items \/ (r.slot \in Slots /\ items' = [items EXCEPT ![r.c][r.slot] = None])
        BY <1>2, <2>2 DEF Posted
      <3>2. ASSUME r.slot \in Slots
            PROVE  [items EXCEPT ![r.c][r.slot] = None] \in [Chars -> [Slots -> Items \cup {None}]]
        BY <2>2, <3>2 DEF TypeOK
      <3> QED BY <3>1, <3>2 DEF TypeOK
    <2>5. mails' \in [Ids -> {Unused, Removed} \cup Rows]
      <3> DEFINE m == [is |-> "row", from |-> r.c, to |-> r.peer, type |-> "user", state |-> {},
                       alz |-> r.alz, item |-> r.item, delSender |-> FALSE, delReceiver |-> FALSE]
      <3>1. m \in Rows
        BY <2>2 DEF Rows
      <3>2. mails' = [mails EXCEPT ![i] = m]
        BY <1>2 DEF Posted
      <3> HIDE DEF m
      <3> QED BY <3>1, <3>2 DEF TypeOK
    <2>6. fees' \in Nat
      <3>1. fees' = fees + Fee(r)
        BY <1>2 DEF Posted
      <3> QED BY <3>1, FeeNat DEF TypeOK
    <2>7. TypeOK'
      BY <1>2, <2>2, <2>3, <2>4, <2>5, <2>6 DEF TypeOK, game
    <2>8. CallsOK'
      <3> DEFINE q == [r EXCEPT !.at = "alz", !.alz = alz'[r.c]]
      <3>1. "alz" \in Ats /\ alz'[r.c] \in 0 .. MaxAlz
        BY <2>2, <2>3 DEF Ats
      <3>2. q \in Calls /\ q.at = "alz" /\ q.c = r.c /\ q.item = r.item /\ q.slot = r.slot
        BY <2>1, <3>1 DEF Calls
      <3> HIDE DEF q
      <3>3. CallOK(q)
        BY <2>2, <3>2 DEF CallOK
      <3>4. Becomes(h, q)
        BY <1>2 DEF q
      <3> QED BY <3>3, <3>4, BecomesOK
    <2> QED BY <2>7, <2>8
  <1> QED BY <1>1, <1>2, SendMailPosts

\* A step that only goes on with the call's next part.
LEMMA GoesOn ==
  ASSUME CallsOK, NEW h \in Handlers, NEW at \in Ats, call[h].at # "idle",
         NEW r, r = [call[h] EXCEPT !.at = at]
  PROVE  /\ r \in Calls /\ r.at = at /\ r.c = call[h].c /\ r.c \in Chars /\ r.id = call[h].id
         /\ r.peer = call[h].peer /\ r.item = call[h].item /\ r.slot = call[h].slot
  <1>1. call[h] \in Calls /\ call[h].c \in Chars
    BY DEF CallsOK, CallOK
  <1> QED BY <1>1 DEF Calls

\* The steps of the game server touch its copies only.
LEMMA SendStepTypes ==
  ASSUME TypeOK, CallsOK, NEW h \in Handlers,
         SendMailCheck(h) \/ setCharacterAlz(h) \/ MailSendRemove(h) \/ MailReceiveItemSet(h)
  PROVE  TypeOK' /\ CallsOK' /\ UNCHANGED <<master, chat>>
  <1> DEFINE r == call[h]
  <1>1. CallOK(r) /\ r \in Calls
    BY DEF CallsOK
  <1>2. {"post", "remove"} \subseteq Ats
    BY DEF Ats
  <1>3. CASE SendMailCheck(h)
    <2>1. CASE Fails(h)
      BY <2>1, FailsOK
    <2>2. CASE ~ Fails(h)
      <3>1. /\ r.at = "send" /\ Becomes(h, [r EXCEPT !.at = "post"])
            /\ UNCHANGED <<master, game, chat>>
        BY <1>3, <2>2 DEF SendMailCheck
      <3>2. PICK q : q = [r EXCEPT !.at = "post"]
        OBVIOUS
      <3>3. CallOK(q)
        <4>1. /\ q \in Calls /\ q.at = "post" /\ q.c \in Chars /\ q.peer = r.peer
              /\ q.item = r.item /\ q.slot = r.slot
          BY <1>2, <3>1, <3>2, GoesOn
        <4> QED BY <1>1, <3>1, <4>1 DEF CallOK
      <3>4. CallsOK'
        BY <3>1, <3>2, <3>3, BecomesOK
      <3> QED BY <3>1, <3>4 DEF TypeOK, master, game, chat
    <2> QED BY <2>1, <2>2
  <1>4. CASE setCharacterAlz(h)
    <2>1. /\ r.at = "alz" /\ charAlz' = [charAlz EXCEPT ![r.c] = r.alz]
          /\ Becomes(h, IF r.item = None THEN Idle ELSE [r EXCEPT !.at = "remove"])
          /\ UNCHANGED <<master, charItems, chat>>
      BY <1>4 DEF setCharacterAlz
    <2>2. CallsOK'
      <3>1. CASE r.item = None
        BY <2>1, <3>1, IdleOK, BecomesOK
      <3>2. CASE r.item # None
        <4>1. PICK q : q = [r EXCEPT !.at = "remove"]
          OBVIOUS
        <4>2. q \in Calls /\ q.at = "remove" /\ q.c \in Chars /\ q.slot = r.slot
          BY <1>2, <2>1, <4>1, GoesOn
        <4>3. CallOK(q)
          BY <1>1, <2>1, <3>2, <4>2 DEF CallOK
        <4> QED BY <2>1, <3>2, <4>1, <4>3, BecomesOK
      <3> QED BY <3>1, <3>2
    <2>3. r.c \in Chars /\ r.alz \in 0 .. MaxAlz
      BY <1>1, <2>1 DEF CallOK, Calls
    <2> QED BY <2>1, <2>2, <2>3 DEF TypeOK, master, chat
  <1>5. CASE MailSendRemove(h)
    <2>1. /\ r.at = "remove" /\ charItems' = [charItems EXCEPT ![r.c][r.slot] = None]
          /\ Becomes(h, Idle) /\ UNCHANGED <<master, charAlz, chat>>
      BY <1>5 DEF MailSendRemove
    <2>2. CallsOK'
      BY <2>1, IdleOK, BecomesOK
    <2>3. r.c \in Chars /\ r.slot \in Slots
      BY <1>1, <2>1 DEF CallOK
    <2> QED BY <2>1, <2>2, <2>3 DEF TypeOK, master, chat
  <1>6. CASE MailReceiveItemSet(h)
    <2>1. /\ r.at = "set" /\ charItems' = [charItems EXCEPT ![r.c][r.slot] = r.item]
          /\ Becomes(h, Idle) /\ UNCHANGED <<master, charAlz, chat>>
      BY <1>6 DEF MailReceiveItemSet
    <2>2. CallsOK'
      BY <2>1, IdleOK, BecomesOK
    <2>3. r.c \in Chars /\ r.slot \in Slots /\ r.item \in Items \cup {None}
      BY <1>1, <2>1 DEF CallOK, Calls
    <2> QED BY <2>1, <2>2, <2>3 DEF TypeOK, master, chat
  <1> QED BY <1>3, <1>4, <1>5, <1>6

\* What ReceiveMailAlz does when it does not fail.
TookAlz(h) ==
    LET r == call[h] IN
    /\ r.at = "takeAlz" /\ Received(r.id, r.c) /\ mails[r.id].alz <= MaxAlz - alz[r.c]
    /\ alz' = [alz EXCEPT ![r.c] = @ + mails[r.id].alz]
    /\ mails' = [mails EXCEPT ![r.id] = [mails[r.id] EXCEPT !.alz = 0, !.state = @ \cup {"alz"}]]
    /\ UNCHANGED <<items, fees>>

\* ReceiveMailAlz fails, or moves the Alz of one mail.
LEMMA ReceiveMailAlzTypes ==
  ASSUME TypeOK, CallsOK, NEW h \in Handlers, ReceiveMailAlz(h)
  PROVE  TypeOK' /\ CallsOK' /\ (Fails(h) \/ TookAlz(h))
  <1> DEFINE r == call[h]
             m == mails[r.id]
             n == [m EXCEPT !.alz = 0, !.state = @ \cup {"alz"}]
  <1>1. CASE Fails(h)
    BY <1>1, FailsOK
  <1>2. CASE ~ Fails(h)
    <2>1. /\ r.at = "takeAlz" /\ Received(r.id, r.c) /\ ~ (MaxAlz - alz[r.c] < m.alz)
          /\ alz' = [alz EXCEPT ![r.c] = @ + m.alz]
          /\ mails' = [mails EXCEPT ![r.id].alz = 0, ![r.id].state = @ \cup {"alz"}]
          /\ Becomes(h, [r EXCEPT !.at = "alz", !.alz = alz'[r.c]])
          /\ UNCHANGED <<items, fees, game, chat>>
      BY <1>2, Zenon DEF ReceiveMailAlz
    <2>2. r \in Calls /\ r.c \in Chars /\ r.id \in Ids /\ MaxAlz \in Nat
      BY <2>1, AlzAssumption DEF CallsOK, CallOK
    <2>3. m \in Rows
      BY <2>1, <2>2, ReceivedRow
    <2>4. m.alz \in 0 .. MaxAlz /\ alz[r.c] \in 0 .. MaxAlz
      BY <2>2, <2>3 DEF Rows, TypeOK
    <2>5. m.alz <= MaxAlz - alz[r.c] /\ alz[r.c] + m.alz \in 0 .. MaxAlz
      BY <2>1, <2>2, <2>4
    <2>6. alz' \in [Chars -> 0 .. MaxAlz] /\ alz'[r.c] \in 0 .. MaxAlz
      BY <2>1, <2>2, <2>5 DEF TypeOK
    <2>7. mails' = [mails EXCEPT ![r.id] = n]
      BY <2>1, <2>2, <2>3 DEF TypeOK, Rows
    <2>8. n \in Rows
      <3>1. 0 \in 0 .. MaxAlz
        BY <2>2
      <3> QED BY <2>2, <2>3, <3>1 DEF Rows
    <2>9. mails' \in [Ids -> {Unused, Removed} \cup Rows]
      <3> HIDE DEF n
      <3> QED BY <2>7, <2>8 DEF TypeOK
    <2>10. CallsOK'
      <3> DEFINE q == [r EXCEPT !.at = "alz", !.alz = alz'[r.c]]
      <3>1. "alz" \in Ats
        BY DEF Ats
      <3>2. q \in Calls /\ q.at = "alz" /\ q.c = r.c /\ q.item = r.item
        BY <2>2, <2>6, <3>1 DEF Calls
      <3>3. r.item = None
        BY <2>1 DEF CallsOK, CallOK
      <3> HIDE DEF q
      <3>4. CallOK(q)
        BY <2>2, <3>2, <3>3 DEF CallOK
      <3>5. Becomes(h, q)
        BY <2>1 DEF q
      <3> QED BY <3>4, <3>5, BecomesOK
    <2>11. TookAlz(h)
      <3> HIDE DEF n
      <3> QED BY <2>1, <2>5, <2>7 DEF TookAlz, n
    <2>12. TypeOK'
      BY <2>1, <2>6, <2>9 DEF TypeOK, game, chat
    <2> QED BY <2>10, <2>11, <2>12
  <1> QED BY <1>1, <1>2

\* What ReceiveMailItem does when it does not fail.
TookItem(h, s) ==
    LET r == call[h] IN
    /\ r.at = "takeItem" /\ Received(r.id, r.c) /\ mails[r.id].item # None /\ items[r.c][s] = None
    /\ items' = [items EXCEPT ![r.c][s] = mails[r.id].item]
    /\ mails' = [mails EXCEPT ![r.id] = [mails[r.id] EXCEPT !.item = None, !.state = @ \cup {"item"}]]
    /\ UNCHANGED <<alz, fees>>

\* ReceiveMailItem fails, or moves the item of one mail to one slot.
LEMMA ReceiveMailItemTypes ==
  ASSUME TypeOK, CallsOK, NEW h \in Handlers, ReceiveMailItem(h)
  PROVE  TypeOK' /\ CallsOK' /\ (Fails(h) \/ \E s \in Slots : TookItem(h, s))
  <1> DEFINE r == call[h]
             m == mails[r.id]
             n == [m EXCEPT !.item = None, !.state = @ \cup {"item"}]
  <1>1. CASE Fails(h)
    BY <1>1, FailsOK
  <1>2. CASE ~ Fails(h)
    <2>1. r.at = "takeItem" /\ Received(r.id, r.c) /\ m.item # None
      BY <1>2, Zenon DEF ReceiveMailItem
    <2>2. PICK s \in FreeSlots(r.c) :
            /\ items' = [items EXCEPT ![r.c][s] = m.item]
            /\ mails' = [mails EXCEPT ![r.id].item = None, ![r.id].state = @ \cup {"item"}]
            /\ Becomes(h, [r EXCEPT !.at = "set", !.item = m.item, !.slot = s])
            /\ UNCHANGED <<alz, fees, game, chat>>
      BY <1>2 DEF ReceiveMailItem
    <2>3. r \in Calls /\ r.c \in Chars /\ r.id \in Ids
      BY <2>1 DEF CallsOK, CallOK
    <2>4. m \in Rows
      BY <2>1, <2>3, ReceivedRow
    <2>5. m.item \in Items \cup {None} /\ s \in Slots /\ items[r.c][s] = None
      BY <2>4 DEF Rows, FreeSlots
    <2>6. items' \in [Chars -> [Slots -> Items \cup {None}]]
      BY <2>2, <2>3, <2>5 DEF TypeOK
    <2>7. mails' = [mails EXCEPT ![r.id] = n]
      BY <2>2, <2>3, <2>4 DEF TypeOK, Rows
    <2>8. n \in Rows
      BY <2>4 DEF Rows
    <2>9. mails' \in [Ids -> {Unused, Removed} \cup Rows]
      <3> HIDE DEF n
      <3> QED BY <2>7, <2>8 DEF TypeOK
    <2>10. CallsOK'
      <3> DEFINE q == [r EXCEPT !.at = "set", !.item = m.item, !.slot = s]
      <3>1. "set" \in Ats
        BY DEF Ats
      <3>2. q \in Calls /\ q.at = "set" /\ q.c = r.c /\ q.slot = s
        BY <2>3, <2>5, <3>1 DEF Calls
      <3> HIDE DEF q
      <3>3. CallOK(q)
        BY <2>3, <2>5, <3>2 DEF CallOK
      <3>4. Becomes(h, q)
        BY <2>2 DEF q
      <3> QED BY <3>3, <3>4, BecomesOK
    <2>11. TookItem(h, s)
      <3> HIDE DEF n
      <3> QED BY <2>1, <2>2, <2>5, <2>7 DEF TookItem, n
    <2>12. TypeOK'
      BY <2>2, <2>6, <2>9 DEF TypeOK, game, chat
    <2> QED BY <2>5, <2>10, <2>11, <2>12
  <1> QED BY <1>1, <1>2

\* What ReturnMail does when it does not fail: the attachments stay.
Turned(h) ==
    LET r == call[h] IN
    /\ r.at = "turn" /\ Received(r.id, r.c)
    /\ mails' = [mails EXCEPT ![r.id] =
           [mails[r.id] EXCEPT !.from = r.c, !.to = r.peer, !.type = "returned", !.state = {},
                               !.delSender = FALSE, !.delReceiver = FALSE]]
    /\ UNCHANGED <<alz, items, fees>>

\* ReturnMail fails, or turns one mail.
LEMMA ReturnMailTypes ==
  ASSUME TypeOK, CallsOK, NEW h \in Handlers, ReturnMail(h)
  PROVE  TypeOK' /\ CallsOK' /\ (Fails(h) \/ Turned(h))
  <1> DEFINE r == call[h]
             n == [mails[r.id] EXCEPT !.from = r.c, !.to = r.peer, !.type = "returned", !.state = {},
                                      !.delSender = FALSE, !.delReceiver = FALSE]
  <1>1. CASE Fails(h)
    BY <1>1, FailsOK
  <1>2. CASE ~ Fails(h)
    <2>1. /\ r.at = "turn" /\ Received(r.id, r.c)
          /\ mails' = [mails EXCEPT ![r.id] = n]
          /\ notices' = notices \cup {r.peer} /\ Becomes(h, Idle)
          /\ UNCHANGED <<alz, items, fees, game, rung, known>>
      BY <1>2 DEF ReturnMail
    <2>2. r.c \in Chars /\ r.id \in Ids /\ r.peer \in Chars
      BY <2>1 DEF CallsOK, CallOK
    <2>3. mails[r.id] \in Rows
      BY <2>1, <2>2, ReceivedRow
    <2>4. n \in Rows
      BY <2>2, <2>3 DEF Rows
    <2>5. Turned(h)
      BY <2>1 DEF Turned
    <2>6. mails' \in [Ids -> {Unused, Removed} \cup Rows]
      <3> HIDE DEF n
      <3> QED BY <2>1, <2>4 DEF TypeOK
    <2>7. TypeOK'
      <3> HIDE DEF n
      <3> QED BY <2>1, <2>2, <2>6 DEF TypeOK, game
    <2>8. CallsOK'
      BY <2>1, IdleOK, BecomesOK
    <2> QED BY <2>5, <2>7, <2>8
  <1> QED BY <1>1, <1>2

\* The two checks that go on with the next part of the call.
LEMMA CheckTypes ==
  ASSUME TypeOK, CallsOK, NEW h \in Handlers, ReturnMailCheck(h) \/ DeleteReceivedCheck(h)
  PROVE  TypeOK' /\ CallsOK' /\ UNCHANGED <<master, chat>>
  <1> DEFINE r == call[h]
  <1>1. CallOK(r) /\ r \in Calls
    BY DEF CallsOK
  <1>2. {"turn", "mark"} \subseteq Ats
    BY DEF Ats
  <1>3. CASE Fails(h)
    BY <1>3, FailsOK
  <1>4. CASE ReturnMailCheck(h) /\ ~ Fails(h)
    <2>1. /\ r.at = "return" /\ Received(r.id, r.c) /\ UNCHANGED <<master, game, chat>>
          /\ Becomes(h, [r EXCEPT !.at = "turn", !.peer = mails[r.id].from])
      BY <1>4 DEF ReturnMailCheck
    <2>2. r.c \in Chars /\ r.id \in Ids
      BY <1>1, <2>1 DEF CallOK
    <2>3. mails[r.id].from \in Chars
      <3>1. mails[r.id] \in Rows
        BY <2>1, <2>2, ReceivedRow
      <3> QED BY <3>1 DEF Rows
    <2> DEFINE q == [r EXCEPT !.at = "turn", !.peer = mails[r.id].from]
    <2>4. q \in Calls /\ q.at = "turn" /\ q.c = r.c /\ q.id = r.id /\ q.peer \in Chars
      BY <1>1, <1>2, <2>3 DEF Calls
    <2>5. Becomes(h, q)
      BY <2>1
    <2> HIDE DEF q
    <2>6. CallOK(q)
      BY <2>2, <2>4 DEF CallOK
    <2>7. CallsOK'
      BY <2>5, <2>6, BecomesOK
    <2> QED BY <2>1, <2>7 DEF TypeOK, master, game, chat
  <1>5. CASE DeleteReceivedCheck(h) /\ ~ Fails(h)
    <2>1. /\ r.at = "erase" /\ UNCHANGED <<master, game, chat>>
          /\ Becomes(h, [r EXCEPT !.at = "mark"])
      BY <1>5 DEF DeleteReceivedCheck
    <2>2. PICK q : q = [r EXCEPT !.at = "mark"]
      OBVIOUS
    <2>3. q \in Calls /\ q.at = "mark" /\ q.c \in Chars /\ q.id = r.id
      BY <1>2, <2>1, <2>2, GoesOn
    <2>4. CallOK(q)
      BY <1>1, <2>1, <2>3 DEF CallOK
    <2>5. CallsOK'
      BY <2>1, <2>2, <2>4, BecomesOK
    <2> QED BY <2>1, <2>5 DEF TypeOK, master, game, chat
  <1> QED BY <1>3, <1>4, <1>5

\* What DeleteReceivedMail does when it does not fail.
Marked(h) ==
    LET r == call[h] IN
    /\ r.at = "mark" /\ Received(r.id, r.c)
    /\ mails' = [mails EXCEPT ![r.id] = [mails[r.id] EXCEPT !.delReceiver = TRUE]]
    /\ UNCHANGED <<alz, items, fees>>

\* DeleteReceivedMail fails, or marks one mail.
LEMMA DeleteReceivedTypes ==
  ASSUME TypeOK, CallsOK, NEW h \in Handlers, DeleteReceivedMail(h)
  PROVE  TypeOK' /\ CallsOK' /\ (Fails(h) \/ Marked(h))
  <1> DEFINE r == call[h]
             n == [mails[r.id] EXCEPT !.delReceiver = TRUE]
  <1>1. CASE Fails(h)
    BY <1>1, FailsOK
  <1>2. CASE ~ Fails(h)
    <2>1. /\ r.at = "mark" /\ Received(r.id, r.c)
          /\ mails' = [mails EXCEPT ![r.id].delReceiver = TRUE]
          /\ Becomes(h, [r EXCEPT !.at = "cleanup"])
          /\ UNCHANGED <<alz, items, fees, game, chat>>
      BY <1>2 DEF DeleteReceivedMail
    <2>2. CallOK(r) /\ r.c \in Chars /\ r.id \in Ids
      BY <2>1 DEF CallsOK, CallOK
    <2>3. mails[r.id] \in Rows
      BY <2>1, <2>2, ReceivedRow
    <2>4. n \in Rows
      BY <2>3 DEF Rows
    <2>5. mails' = [mails EXCEPT ![r.id] = n]
      BY <2>1
    <2>6. Marked(h)
      BY <2>1, <2>5 DEF Marked
    <2>7. mails' \in [Ids -> {Unused, Removed} \cup Rows]
      <3> HIDE DEF n
      <3> QED BY <2>4, <2>5 DEF TypeOK
    <2>8. TypeOK'
      BY <2>1, <2>7 DEF TypeOK, game, chat
    <2>9. CallsOK'
      <3>1. PICK q : q = [r EXCEPT !.at = "cleanup"]
        OBVIOUS
      <3>2. "cleanup" \in Ats
        BY DEF Ats
      <3>3. q \in Calls /\ q.at = "cleanup" /\ q.c \in Chars /\ q.id = r.id
        BY <2>1, <3>1, <3>2, GoesOn
      <3>4. CallOK(q)
        BY <2>2, <3>3 DEF CallOK
      <3> QED BY <2>1, <3>1, <3>4, BecomesOK
    <2> QED BY <2>6, <2>8, <2>9
  <1> QED BY <1>1, <1>2

\* What cleanupDeletedMail does: a row that both sides have marked goes.
Cleaned(i) ==
    /\ \/ mails' = mails
       \/ There(i) /\ mails[i].delReceiver /\ mails' = [mails EXCEPT ![i] = Removed]
    /\ UNCHANGED <<alz, items, fees>>

\* cleanupDeletedMail removes at most one mail.
LEMMA CleanupTypes ==
  ASSUME TypeOK, CallsOK, NEW h \in Handlers, cleanupDeletedMail(h)
  PROVE  TypeOK' /\ CallsOK' /\ \E i \in Ids : Cleaned(i)
  <1> DEFINE i == call[h].id
  <1>1. i \in Ids
    BY DEF cleanupDeletedMail, CallsOK, CallOK
  <1>2. Cleaned(i)
    BY DEF cleanupDeletedMail, Cleaned
  <1>3. mails' \in [Ids -> {Unused, Removed} \cup Rows]
    BY <1>1, <1>2 DEF Cleaned, TypeOK
  <1>4. Becomes(h, Idle) /\ UNCHANGED <<alz, items, fees, game, chat>>
    BY DEF cleanupDeletedMail
  <1>5. CallsOK'
    BY <1>4, IdleOK, BecomesOK
  <1>6. TypeOK'
    BY <1>3, <1>4 DEF TypeOK, game, chat
  <1> QED BY <1>1, <1>2, <1>5, <1>6

\* The chat server changes what the clients know, and nothing else.
LEMMA ChatTypes ==
  ASSUME TypeOK, CallsOK, NEW c \in Chars,
         NotifyMailReceived(c) \/ sendMailList(c) \/ sendMailUpdate(c) \/ NotifyMailLost(c)
  PROVE  TypeOK' /\ CallsOK' /\ UNCHANGED <<master, call>>
  <1>1. UNCHANGED <<master, game, call>>
    BY DEF NotifyMailReceived, sendMailList, sendMailUpdate, NotifyMailLost
  <1>2. CallsOK'
    BY <1>1 DEF CallsOK
  <1>3. ASSUME NEW n, NEW ids \in SUBSET Ids PROVE Newest(n, ids) \in SUBSET Ids
    BY DEF Newest
  <1>4. Box(c) \in SUBSET Ids
    BY DEF Box
  <1>5. notices' \subseteq Chars /\ rung' \subseteq Chars
    BY DEF TypeOK, NotifyMailReceived, sendMailList, sendMailUpdate, NotifyMailLost
  <1>6. known' \in [Chars -> SUBSET Ids]
    <2>1. CASE sendMailList(c)
      <3>1. Newest(MaxMailbox, Box(c)) \in SUBSET Ids
        BY <1>3, <1>4
      <3> QED BY <2>1, <3>1 DEF sendMailList, TypeOK
    <2>2. CASE sendMailUpdate(c)
      <3> DEFINE last == IF known[c] = {} THEN 0 ELSE Max(known[c])
                 new == Newest(UpdateCount, Newest(MaxMailbox, {i \in Box(c) : i > last}))
      <3>1. {i \in Box(c) : i > last} \in SUBSET Ids
        BY <1>4
      <3>2. Newest(MaxMailbox, {i \in Box(c) : i > last}) \in SUBSET Ids
        BY <1>3, <3>1
      <3>3. new \in SUBSET Ids
        BY <1>3, <3>2
      <3>4. known' = [known EXCEPT ![c] = known[c] \cup new]
        BY <2>2 DEF sendMailUpdate
      <3> HIDE DEF new
      <3> QED BY <3>3, <3>4 DEF TypeOK
    <2>3. CASE NotifyMailReceived(c) \/ NotifyMailLost(c)
      BY <2>3 DEF NotifyMailReceived, NotifyMailLost, TypeOK
    <2> QED BY <2>1, <2>2, <2>3
  <1> QED BY <1>1, <1>2, <1>5, <1>6 DEF TypeOK, master, game

----------------------------------------------------------------------------
(* Alz. *)

\* There are finitely many ids.
LEMMA IdsFinite == IsFiniteSet(Ids)
  BY BoundAssumption, FS_Interval DEF Ids

\* What waits in the mails are numbers.
LEMMA WaitingInt == TypeOK => Waiting \in [Ids -> Int]
  <1> SUFFICES ASSUME TypeOK PROVE Waiting \in [Ids -> Int]
    OBVIOUS
  <1>1. \A i \in Open : mails[i].alz \in Int
    <2> SUFFICES ASSUME NEW i \in Open PROVE mails[i].alz \in Int
      OBVIOUS
    <2>1. mails[i] \in Rows
      BY ThereRow DEF Open
    <2> QED BY <2>1, AlzAssumption DEF Rows
  <1> QED BY <1>1 DEF Waiting

\* A row changes: the others stay what they are.
LEMMA OneMail ==
  ASSUME TypeOK, NEW i \in Ids, NEW n, mails' = [mails EXCEPT ![i] = n]
  PROVE  /\ mails'[i] = n
         /\ (i \in Open') <=> (n.is = "row" /\ ~ n.delReceiver)
         /\ \A j \in Ids \ {i} : /\ mails'[j] = mails[j] /\ Waiting'[j] = Waiting[j]
                                 /\ (j \in Open') <=> (j \in Open)
  <1>1. mails'[i] = n /\ \A j \in Ids \ {i} : mails'[j] = mails[j]
    BY DEF TypeOK
  <1>2. \A j \in Ids \ {i} : (j \in Open') <=> (j \in Open)
    BY <1>1 DEF Open, There
  <1>3. \A j \in Ids \ {i} : Waiting'[j] = Waiting[j]
    BY <1>1, <1>2 DEF Waiting
  <1>4. (i \in Open') <=> (n.is = "row" /\ ~ n.delReceiver)
    BY <1>1 DEF Open, There
  <1> QED BY <1>1, <1>2, <1>3, <1>4

\* Alz moves between one character, one mail and the fees.
LEMMA AlzMoves ==
  ASSUME TypeOK, TypeOK', AlzKept, NEW c \in Chars, NEW i \in Ids,
         \A d \in Chars \ {c} : alz'[d] = alz[d],
         \A j \in Ids \ {i} : Waiting'[j] = Waiting[j],
         alz'[c] + Waiting'[i] + fees' = alz[c] + Waiting[i] + fees
  PROVE  AlzKept'
  <1>1. alz \in [Chars -> Int] /\ alz' \in [Chars -> Int] /\ fees \in Int /\ fees' \in Int
    BY AlzAssumption DEF TypeOK
  <1>2. Waiting \in [Ids -> Int] /\ Waiting' \in [Ids -> Int]
    <2>1. TypeOK' => (Waiting \in [Ids -> Int])'
      BY WaitingInt, PTL
    <2> QED BY <2>1, WaitingInt
  <1>3. IsFiniteSet(Chars)
    BY FiniteAssumption
  <1>4. Total(alz') = Total(alz) - alz[c] + alz'[c]
    BY <1>1, <1>3, TotalChange
  <1>5. Total(Waiting') = Total(Waiting) - Waiting[i] + Waiting'[i]
    BY <1>2, IdsFinite, TotalChange
  <1>6. Total(alz) \in Int /\ Total(Waiting) \in Int
    BY <1>1, <1>2, <1>3, IdsFinite, TotalInt
  <1>7. Total(alz) + Total(Waiting) + fees = Total(StartAlz)
    BY DEF AlzKept
  <1>8. alz[c] \in Int /\ alz'[c] \in Int /\ Waiting[i] \in Int /\ Waiting'[i] \in Int
    BY <1>1, <1>2
  <1>9. Total(alz') + Total(Waiting') + fees' = Total(StartAlz)
    BY <1>1, <1>4, <1>5, <1>6, <1>7, <1>8
  <1> QED BY <1>9 DEF AlzKept

\* Where neither the characters nor the open mails change, nothing moves.
LEMMA AlzStays ==
  ASSUME AlzKept, UNCHANGED <<alz, fees>>, Waiting' = Waiting
  PROVE  AlzKept'
  BY DEF AlzKept

----------------------------------------------------------------------------
(* Items. *)

\* No item is the absence of one.
LEMMA GoodsReal == None \notin Goods
  BY DEF Goods

\* An item whose slots and mails stay what they are keeps its place.
LEMMA PlaceStays ==
  ASSUME NEW x, Place(x), SlotsOf(x)' = SlotsOf(x), MailsOf(x)' = MailsOf(x)
  PROVE  Place(x)'
  BY DEF Place

\* Where the inventories stay and no open mail gets or loses an item.
LEMMA PlacedStays ==
  ASSUME Placed, items' = items, Open' = Open, \A i \in Open : mails'[i].item = mails[i].item
  PROVE  Placed'
  <1> SUFFICES ASSUME NEW x \in Goods PROVE Place(x)'
    BY DEF Placed, Goods
  <1>1. SlotsOf(x)' = SlotsOf(x)
    BY DEF SlotsOf
  <1>2. MailsOf(x)' = MailsOf(x)
    BY DEF MailsOf
  <1>3. Place(x)
    BY DEF Placed
  <1> QED BY <1>1, <1>2, <1>3, PlaceStays

\* The two ways to say it: one place, and the sizes of the two sets.
LEMMA PlaceCounts ==
  ASSUME NEW x
  PROVE  Place(x) <=> Cardinality(SlotsOf(x)) + Cardinality(MailsOf(x)) = 1
  <1>1. IsFiniteSet(SlotsOf(x))
    <2>1. IsFiniteSet(Chars \X Slots)
      BY FiniteAssumption, FS_Product
    <2>2. SlotsOf(x) \subseteq Chars \X Slots
      BY DEF SlotsOf
    <2> QED BY <2>1, <2>2, FS_Subset
  <1>2. IsFiniteSet(MailsOf(x)) /\ MailsOf(x) \subseteq Ids
    <2>1. MailsOf(x) \subseteq Ids
      BY DEF MailsOf, Open
    <2> QED BY <2>1, IdsFinite, FS_Subset
  <1>3. Cardinality(SlotsOf(x)) \in Nat /\ Cardinality(MailsOf(x)) \in Nat
    BY <1>1, <1>2, FS_CardinalityType
  <1>4. /\ Cardinality(SlotsOf(x)) = 0 <=> SlotsOf(x) = {}
        /\ Cardinality(MailsOf(x)) = 0 <=> MailsOf(x) = {}
    BY <1>1, <1>2, FS_EmptySet
  <1>5. Cardinality(SlotsOf(x)) = 1 <=> \E p : SlotsOf(x) = {p}
    BY <1>1, FS_Singleton
  <1>6. Cardinality(MailsOf(x)) = 1 <=> \E p : MailsOf(x) = {p}
    BY <1>2, FS_Singleton
  <1>7. (\E p : SlotsOf(x) = {p}) <=> \E p \in Chars \X Slots : SlotsOf(x) = {p}
    BY DEF SlotsOf
  <1>8. (\E p : MailsOf(x) = {p}) <=> \E p \in Ids : MailsOf(x) = {p}
    BY <1>2
  <1>9. Place(x) <=> \/ Cardinality(MailsOf(x)) = 0 /\ Cardinality(SlotsOf(x)) = 1
                     \/ Cardinality(SlotsOf(x)) = 0 /\ Cardinality(MailsOf(x)) = 1
    BY <1>4, <1>5, <1>6, <1>7, <1>8 DEF Place
  <1> QED BY <1>3, <1>9

\* To have one place and to be counted once is the same.
LEMMA PlacedOnce == Placed <=> ItemOnce
  BY PlaceCounts DEF Placed, ItemOnce

----------------------------------------------------------------------------
(* What the steps that change the database do to the invariant. *)

\* SendMail: Alz goes from the sender to the new mail and the fees, the item from
\* its slot to the new mail.
LEMMA PostedKeeps ==
  ASSUME MailInv, TypeOK', NEW h \in Handlers, NEW i \in Ids, Posted(h, i)
  PROVE  AlzKept' /\ Placed' /\ \A j \in Ids : Bare(j) => Bare(j)'
  <1> DEFINE r == call[h]
             n == [is |-> "row", from |-> r.c, to |-> r.peer, type |-> "user", state |-> {},
                   alz |-> r.alz, item |-> r.item, delSender |-> FALSE, delReceiver |-> FALSE]
  <1>1. TypeOK /\ CallsOK /\ AlzKept /\ Placed
    BY DEF MailInv
  <1>2. /\ r.at = "post"
        /\ r.item # None => items[r.c][r.slot] = r.item
        /\ mails[i] = Unused /\ mails' = [mails EXCEPT ![i] = n]
        /\ items' = IF r.item = None THEN items ELSE [items EXCEPT ![r.c][r.slot] = None]
        /\ alz' = [alz EXCEPT ![r.c] = @ - r.alz - Fee(r)] /\ fees' = fees + Fee(r)
    BY DEF Posted
  <1>3. /\ r \in Calls /\ r.c \in Chars /\ r.item \in Items \cup {None} /\ r.alz \in Nat
        /\ r.item # None => r.slot \in Slots
    <2>1. CallOK(r) /\ r \in Calls
      BY <1>1 DEF CallsOK
    <2>2. r.alz \in 0 .. MaxAlz /\ r.item \in Items \cup {None}
      BY <2>1 DEF Calls
    <2> QED BY <1>2, <2>1, <2>2, AlzAssumption DEF CallOK
  <1>4. /\ n.is = "row" /\ n.alz = r.alz /\ n.item = r.item /\ n.delReceiver = FALSE
    OBVIOUS
  <1> HIDE DEF n
  <1>5. /\ mails'[i] = n /\ i \in Open'
        /\ \A j \in Ids \ {i} : /\ mails'[j] = mails[j] /\ Waiting'[j] = Waiting[j]
                                /\ (j \in Open') <=> (j \in Open)
    BY <1>1, <1>2, <1>4, OneMail
  <1>6. i \notin Open
    BY <1>2 DEF Open, There, Unused
  <1>7. AlzKept'
    <2>1. Waiting[i] = 0 /\ Waiting'[i] = r.alz
      BY <1>4, <1>5, <1>6 DEF Waiting
    <2>2. alz[r.c] \in Int /\ fees \in Int /\ Fee(r) \in Nat
      BY <1>1, <1>3, AlzAssumption, FeeNat DEF TypeOK
    <2>3. alz'[r.c] = alz[r.c] - r.alz - Fee(r) /\ \A d \in Chars \ {r.c} : alz'[d] = alz[d]
      BY <1>1, <1>2, <1>3 DEF TypeOK
    <2>4. alz'[r.c] + Waiting'[i] + fees' = alz[r.c] + Waiting[i] + fees
      BY <1>2, <1>3, <2>1, <2>2, <2>3
    <2> QED BY <1>1, <1>3, <1>5, <2>3, <2>4, AlzMoves
  <1>8. \A j \in Ids : Bare(j) => Bare(j)'
    BY <1>2, <1>5 DEF Bare, There
  <1>9. Placed'
    <2> SUFFICES ASSUME NEW x \in Goods PROVE Place(x)'
      BY DEF Placed, Goods
    <2>1. Place(x) /\ x # None
      BY <1>1, GoodsReal DEF Placed
    <2>2. i \notin MailsOf(x)
      BY <1>6 DEF MailsOf
    <2>3. CASE r.item # x
      <3>1. SlotsOf(x)' = SlotsOf(x)
        <4>1. CASE r.item = None
          BY <1>2, <4>1 DEF SlotsOf
        <4>2. CASE r.item # None
          <5>1. \A c \in Chars, s \in Slots :
                   items'[c][s] = IF c = r.c /\ s = r.slot THEN None ELSE items[c][s]
            BY <1>1, <1>2, <1>3, <4>2 DEF TypeOK
          <5>2. items[r.c][r.slot] # x
            BY <1>2, <2>3, <4>2
          <5>3. \A c \in Chars, s \in Slots : items'[c][s] = x <=> items[c][s] = x
            BY <2>1, <5>1, <5>2
          <5> QED BY <5>3 DEF SlotsOf
        <4> QED BY <4>1, <4>2
      <3>2. MailsOf(x)' = MailsOf(x)
        BY <1>4, <1>5, <1>6, <2>3 DEF MailsOf, Open
      <3> QED BY <2>1, <3>1, <3>2, PlaceStays
    <2>4. CASE r.item = x
      <3>1. r.slot \in Slots /\ items[r.c][r.slot] = x
        BY <1>2, <1>3, <2>1, <2>4
      <3>2. <<r.c, r.slot>> \in SlotsOf(x)
        BY <1>3, <3>1 DEF SlotsOf
      <3>3. SlotsOf(x) = {<<r.c, r.slot>>} /\ MailsOf(x) = {}
        BY <2>1, <3>2 DEF Place
      <3>4. \A c \in Chars, s \in Slots :
               items'[c][s] = IF c = r.c /\ s = r.slot THEN None ELSE items[c][s]
        BY <1>1, <1>2, <1>3, <2>1, <2>4 DEF TypeOK
      <3>5. \A c \in Chars, s \in Slots : items[c][s] = x => c = r.c /\ s = r.slot
        <4> SUFFICES ASSUME NEW c \in Chars, NEW s \in Slots, items[c][s] = x
                     PROVE  c = r.c /\ s = r.slot
          OBVIOUS
        <4>1. <<c, s>> \in SlotsOf(x)
          BY DEF SlotsOf
        <4> QED BY <3>3, <4>1
      <3>6. SlotsOf(x)' = {}
        BY <2>1, <3>4, <3>5 DEF SlotsOf
      <3>7. MailsOf(x)' = {i}
        <4>1. \A j \in Open : mails[j].item # x
          BY <3>3 DEF MailsOf
        <4> QED BY <1>4, <1>5, <1>6, <2>4, <4>1 DEF MailsOf, Open
      <3> QED BY <3>6, <3>7 DEF Place
    <2> QED BY <2>3, <2>4
  <1> QED BY <1>7, <1>8, <1>9

\* ReceiveMailAlz: Alz goes from the mail to the receiver.
LEMMA TookAlzKeeps ==
  ASSUME MailInv, TypeOK', NEW h \in Handlers, TookAlz(h)
  PROVE  AlzKept' /\ Placed' /\ \A j \in Ids : Bare(j) => Bare(j)'
  <1> DEFINE r == call[h]
             i == r.id
             n == [mails[i] EXCEPT !.alz = 0, !.state = @ \cup {"alz"}]
  <1>1. TypeOK /\ CallsOK /\ AlzKept /\ Placed
    BY DEF MailInv
  <1>2. /\ r.at = "takeAlz" /\ Received(i, r.c)
        /\ alz' = [alz EXCEPT ![r.c] = @ + mails[i].alz]
        /\ mails' = [mails EXCEPT ![i] = n] /\ UNCHANGED <<items, fees>>
    BY DEF TookAlz
  <1>3. r.c \in Chars /\ i \in Ids
    BY <1>1, <1>2 DEF CallsOK, CallOK
  <1>4. mails[i] \in Rows /\ mails[i].delReceiver = FALSE /\ i \in Open
    BY <1>1, <1>2, <1>3, ReceivedRow
  <1>5. n.is = "row" /\ n.alz = 0 /\ n.item = mails[i].item /\ n.delReceiver = FALSE
    BY <1>4 DEF Rows
  <1> HIDE DEF n
  <1>6. /\ mails'[i] = n /\ i \in Open'
        /\ \A j \in Ids \ {i} : /\ mails'[j] = mails[j] /\ Waiting'[j] = Waiting[j]
                                /\ (j \in Open') <=> (j \in Open)
    BY <1>1, <1>2, <1>3, <1>5, OneMail
  <1>7. AlzKept'
    <2>1. Waiting[i] = mails[i].alz /\ Waiting'[i] = 0
      BY <1>3, <1>4, <1>5, <1>6 DEF Waiting
    <2>2. alz[r.c] \in Int /\ fees \in Int /\ mails[i].alz \in Int
      BY <1>1, <1>3, <1>4, AlzAssumption DEF TypeOK, Rows
    <2>3. alz'[r.c] = alz[r.c] + mails[i].alz /\ \A d \in Chars \ {r.c} : alz'[d] = alz[d]
      BY <1>1, <1>2, <1>3 DEF TypeOK
    <2>4. alz'[r.c] + Waiting'[i] + fees' = alz[r.c] + Waiting[i] + fees
      BY <1>2, <2>1, <2>2, <2>3
    <2> QED BY <1>1, <1>3, <1>6, <2>3, <2>4, AlzMoves
  <1>8. Placed'
    <2>1. Open' = Open
      BY <1>3, <1>4, <1>6 DEF Open
    <2>2. \A j \in Open : mails'[j].item = mails[j].item
      BY <1>5, <1>6 DEF Open
    <2> QED BY <1>1, <1>2, <2>1, <2>2, PlacedStays
  <1>9. \A j \in Ids : Bare(j) => Bare(j)'
    <2>1. mails[i].is = "row" /\ n # Unused
      BY <1>4, <1>5 DEF Rows, Unused
    <2> QED BY <1>5, <1>6, <2>1 DEF Bare, There
  <1> QED BY <1>7, <1>8, <1>9

\* ReceiveMailItem: an item goes from the mail to a slot that was free.
LEMMA TookItemKeeps ==
  ASSUME MailInv, TypeOK', NEW h \in Handlers, NEW s \in Slots, TookItem(h, s)
  PROVE  AlzKept' /\ Placed' /\ \A j \in Ids : Bare(j) => Bare(j)'
  <1> DEFINE r == call[h]
             i == r.id
             y == mails[i].item
             n == [mails[i] EXCEPT !.item = None, !.state = @ \cup {"item"}]
  <1>1. TypeOK /\ CallsOK /\ AlzKept /\ Placed
    BY DEF MailInv
  <1>2. /\ r.at = "takeItem" /\ Received(i, r.c) /\ y # None /\ items[r.c][s] = None
        /\ items' = [items EXCEPT ![r.c][s] = y]
        /\ mails' = [mails EXCEPT ![i] = n] /\ UNCHANGED <<alz, fees>>
    BY DEF TookItem
  <1>3. r.c \in Chars /\ i \in Ids
    BY <1>1, <1>2 DEF CallsOK, CallOK
  <1>4. mails[i] \in Rows /\ mails[i].delReceiver = FALSE /\ i \in Open
    BY <1>1, <1>2, <1>3, ReceivedRow
  <1>5. n.is = "row" /\ n.alz = mails[i].alz /\ n.item = None /\ n.delReceiver = FALSE
    BY <1>4 DEF Rows
  <1> HIDE DEF n
  <1>6. /\ mails'[i] = n /\ i \in Open'
        /\ \A j \in Ids \ {i} : /\ mails'[j] = mails[j] /\ Waiting'[j] = Waiting[j]
                                /\ (j \in Open') <=> (j \in Open)
    BY <1>1, <1>2, <1>3, <1>5, OneMail
  <1>7. Open' = Open
    BY <1>3, <1>4, <1>6 DEF Open
  <1>8. AlzKept'
    <2>1. Waiting'[i] = Waiting[i]
      BY <1>3, <1>4, <1>5, <1>6 DEF Waiting
    <2>2. Waiting' = Waiting
      BY <1>6, <2>1 DEF Waiting
    <2> QED BY <1>1, <1>2, <2>2, AlzStays
  <1>9. \A j \in Ids : Bare(j) => Bare(j)'
    <2>1. mails[i].is = "row" /\ n # Unused
      BY <1>4, <1>5 DEF Rows, Unused
    <2> QED BY <1>5, <1>6, <2>1 DEF Bare, There
  <1>10. \A c \in Chars, t \in Slots :
            items'[c][t] = IF c = r.c /\ t = s THEN y ELSE items[c][t]
    <2> HIDE DEF y, i
    <2> QED BY <1>1, <1>2, <1>3 DEF TypeOK
  <1>11. Placed'
    <2> SUFFICES ASSUME NEW x \in Goods PROVE Place(x)'
      BY DEF Placed, Goods
    <2>1. Place(x) /\ x # None
      BY <1>1, GoodsReal DEF Placed
    <2>2. CASE y # x
      <3>1. SlotsOf(x)' = SlotsOf(x)
        <4>1. \A c \in Chars, t \in Slots : items'[c][t] = x <=> items[c][t] = x
          BY <1>2, <1>10, <2>1, <2>2
        <4> QED BY <4>1 DEF SlotsOf
      <3>2. MailsOf(x)' = MailsOf(x)
        BY <1>5, <1>6, <1>7, <2>1, <2>2 DEF MailsOf, Open
      <3> QED BY <2>1, <3>1, <3>2, PlaceStays
    <2>3. CASE y = x
      <3>1. i \in MailsOf(x)
        BY <1>4, <2>3 DEF MailsOf
      <3>2. MailsOf(x) = {i} /\ SlotsOf(x) = {}
        BY <2>1, <3>1 DEF Place
      <3>3. MailsOf(x)' = {}
        <4>1. \A j \in Open \ {i} : mails[j].item # x
          BY <3>2 DEF MailsOf
        <4> QED BY <1>5, <1>6, <1>7, <2>1, <4>1 DEF MailsOf, Open
      <3>4. \A c \in Chars, t \in Slots : items[c][t] # x
        <4> SUFFICES ASSUME NEW c \in Chars, NEW t \in Slots, items[c][t] = x PROVE FALSE
          OBVIOUS
        <4>1. <<c, t>> \in SlotsOf(x)
          BY DEF SlotsOf
        <4> QED BY <3>2, <4>1
      <3>5. SlotsOf(x)' = {<<r.c, s>>}
        <4>1. \A c \in Chars, t \in Slots : items'[c][t] = x <=> c = r.c /\ t = s
          BY <1>10, <2>3, <3>4
        <4> QED BY <1>3, <4>1 DEF SlotsOf
      <3>6. <<r.c, s>> \in Chars \X Slots
        BY <1>3
      <3> QED BY <3>3, <3>5, <3>6 DEF Place
    <2> QED BY <2>2, <2>3
  <1> QED BY <1>8, <1>9, <1>11

\* A row is written that keeps its attachments and stays open or shut: ReturnMail,
\* DeleteSentMail.
LEMMA RowKeeps ==
  ASSUME MailInv, NEW i \in Ids, NEW n, There(i), mails' = [mails EXCEPT ![i] = n],
         UNCHANGED <<alz, items, fees>>, n.is = "row", n.alz = mails[i].alz, n.item = mails[i].item,
         n.delReceiver = mails[i].delReceiver
  PROVE  AlzKept' /\ Placed' /\ \A j \in Ids : Bare(j) => Bare(j)'
  <1>1. TypeOK /\ AlzKept /\ Placed
    BY DEF MailInv
  <1>2. /\ mails'[i] = n
        /\ (i \in Open') <=> (n.is = "row" /\ ~ n.delReceiver)
        /\ \A j \in Ids \ {i} : /\ mails'[j] = mails[j] /\ Waiting'[j] = Waiting[j]
                                /\ (j \in Open') <=> (j \in Open)
    BY <1>1, OneMail
  <1>3. (i \in Open') <=> (i \in Open)
    BY <1>2 DEF Open
  <1>4. Open' = Open
    BY <1>2, <1>3 DEF Open
  <1>5. Waiting' = Waiting
    BY <1>2, <1>4 DEF Waiting
  <1>6. Placed'
    <2>1. \A j \in Open : mails'[j].item = mails[j].item
      BY <1>2 DEF Open
    <2> QED BY <1>1, <1>4, <2>1, PlacedStays
  <1>7. \A j \in Ids : Bare(j) => Bare(j)'
    <2>1. n # Unused
      BY DEF Unused
    <2> QED BY <1>2, <2>1 DEF Bare, There
  <1> QED BY <1>1, <1>5, <1>6, <1>7, AlzStays

\* A row that has nothing attached, or that its receiver has deleted, is deleted.
LEMMA ShutKeeps ==
  ASSUME MailInv, NEW i \in Ids, NEW n, There(i), mails' = [mails EXCEPT ![i] = n],
         UNCHANGED <<alz, items, fees>>, Bare(i) \/ i \notin Open,
         \/ n = Removed
         \/ n.is = "row" /\ n.alz = mails[i].alz /\ n.item = mails[i].item /\ n.delReceiver = TRUE
  PROVE  AlzKept' /\ Placed' /\ \A j \in Ids : Bare(j) => Bare(j)'
  <1>1. TypeOK /\ AlzKept /\ Placed
    BY DEF MailInv
  <1>2. /\ mails'[i] = n
        /\ (i \in Open') <=> (n.is = "row" /\ ~ n.delReceiver)
        /\ \A j \in Ids \ {i} : /\ mails'[j] = mails[j] /\ Waiting'[j] = Waiting[j]
                                /\ (j \in Open') <=> (j \in Open)
    BY <1>1, OneMail
  <1>3. i \notin Open'
    BY <1>2 DEF Removed
  <1>4. i \in Open => mails[i].alz = 0 /\ mails[i].item = None
    BY DEF Bare
  <1>5. Waiting' = Waiting
    BY <1>2, <1>3, <1>4 DEF Waiting
  <1>6. Placed'
    <2> SUFFICES ASSUME NEW x \in Goods PROVE Place(x)'
      BY DEF Placed, Goods
    <2>1. Place(x) /\ x # None
      BY <1>1, GoodsReal DEF Placed
    <2>2. SlotsOf(x)' = SlotsOf(x)
      BY DEF SlotsOf
    <2>3. MailsOf(x)' = MailsOf(x)
      BY <1>2, <1>3, <1>4, <2>1 DEF MailsOf, Open
    <2> QED BY <2>1, <2>2, <2>3, PlaceStays
  <1>7. \A j \in Ids : Bare(j) => Bare(j)'
    <2>1. n # Unused /\ (n.is = "row" => n.alz = mails[i].alz /\ n.item = mails[i].item)
      BY DEF Unused, Removed
    <2> QED BY <1>2, <2>1 DEF Bare, There
  <1> QED BY <1>1, <1>5, <1>6, <1>7, AlzStays

\* A step that leaves the database alone.
LEMMA MasterStays ==
  ASSUME MailInv, UNCHANGED master
  PROVE  AlzKept' /\ Placed' /\ \A j \in Ids : Bare(j) => Bare(j)'
  <1>1. alz' = alz /\ items' = items /\ mails' = mails /\ fees' = fees
    BY DEF master
  <1>2. Open' = Open /\ Waiting' = Waiting
    BY <1>1 DEF Open, Waiting, There
  <1>3. AlzKept'
    BY <1>1, <1>2, AlzStays DEF MailInv
  <1>4. Placed'
    BY <1>1, <1>2, PlacedStays DEF MailInv
  <1>5. \A j \in Ids : Bare(j) => Bare(j)'
    BY <1>1 DEF Bare, There
  <1> QED BY <1>3, <1>4, <1>5

\* A goroutine that does not come to mark a mail: the others' mails stay empty.
LEMMA MarksStay ==
  ASSUME MailInv, NEW h \in Handlers, NEW q, Becomes(h, q), q.at # "mark",
         \A j \in Ids : Bare(j) => Bare(j)'
  PROVE  MarksEmpty'
  <1> SUFFICES ASSUME NEW g \in Handlers, call'[g].at = "mark"
               PROVE  Bare(call[g].id)'
    BY DEF MarksEmpty, Bare, There
  <1>1. g # h /\ call'[g] = call[g]
    BY DEF Becomes, MailInv, CallsOK
  <1>2. call[g].id \in Ids /\ Bare(call[g].id)
    BY <1>1 DEF MailInv, CallsOK, CallOK, MarksEmpty
  <1>3. PICK i \in Ids : i = call[g].id
    BY <1>2
  <1>4. Bare(i)'
    BY <1>2, <1>3
  <1> QED BY <1>1, <1>3, <1>4 DEF Bare, There

\* DeleteReceivedMail has read the mail it is about to mark: it is empty.
LEMMA CheckMarks ==
  ASSUME MailInv, NEW h \in Handlers, DeleteReceivedCheck(h), UNCHANGED master
  PROVE  MarksEmpty'
  <1> DEFINE r == call[h]
  <1>1. \A j \in Ids : Bare(j) => Bare(j)'
    BY MasterStays
  <1>2. CASE Fails(h)
    <2>1. Becomes(h, Idle) /\ Idle.at # "mark"
      BY <1>2 DEF Fails, Idle
    <2> QED BY <1>1, <2>1, MarksStay
  <1>3. CASE ~ Fails(h)
    <2>1. /\ r.at = "erase" /\ Received(r.id, r.c) /\ mails[r.id].alz = 0 /\ mails[r.id].item = None
          /\ Becomes(h, [r EXCEPT !.at = "mark"])
      BY <1>3 DEF DeleteReceivedCheck
    <2>2. CallsOK /\ TypeOK /\ MarksEmpty
      BY DEF MailInv
    <2>3. r.id \in Ids /\ r \in Calls
      BY <2>1, <2>2 DEF CallsOK, CallOK
    <2>4. mails[r.id].is = "row" /\ mails[r.id] # Unused
      BY <2>1 DEF Received, There, Unused
    <2>5. Bare(r.id)
      BY <2>1, <2>4 DEF Bare
    <2>6. call'[h].id = r.id /\ \A g \in Handlers \ {h} : call'[g] = call[g]
      BY <2>1, <2>2, <2>3 DEF Becomes, CallsOK, Calls
    <2> SUFFICES ASSUME NEW g \in Handlers, call'[g].at = "mark"
                 PROVE  Bare(call[g].id)'
      BY DEF MarksEmpty, Bare, There
    <2>7. PICK i \in Ids : i = call'[g].id /\ Bare(i)
      <3>1. CASE g = h
        BY <2>3, <2>5, <2>6, <3>1
      <3>2. CASE g # h
        BY <2>2, <2>6, <3>2 DEF MarksEmpty, CallsOK, CallOK
      <3> QED BY <3>1, <3>2
    <2>8. Bare(i)'
      BY <1>1, <2>7
    <2> QED BY <2>7, <2>8 DEF Bare, There
  <1> QED BY <1>2, <1>3

\* What a packet does: a request, or DeleteSentMail.
LEMMA PacketKeeps ==
  ASSUME MailInv, NEW h \in Handlers, Packet(h)
  PROVE  MailInv'
  <1>1. TypeOK' /\ CallsOK'
    BY PacketTypes DEF MailInv
  <1>2. ASSUME NEW q, Request(h, q), q.at # "mark"
        PROVE  AlzKept' /\ Placed' /\ MarksEmpty'
    <2>1. UNCHANGED master /\ Becomes(h, q)
      BY <1>2 DEF Request
    <2> QED BY <1>2, <2>1, MasterStays, MarksStay
  <1>3. CASE SendPacket(h, Chars, Amounts, Slots \cup {NoSlot})
    <2>1. PICK c \in Chars, to \in Chars, amount \in Amounts, slot \in Slots \cup {NoSlot} :
            MailSend(h, c, to, amount, slot)
      BY <1>3 DEF SendPacket
    <2> DEFINE q == [at |-> "send", c |-> c, id |-> 0, peer |-> to, alz |-> amount,
                     item |-> IF slot = NoSlot THEN None ELSE charItems[c][slot], slot |-> slot]
    <2>2. Request(h, q) /\ q.at # "mark"
      BY <2>1 DEF MailSend
    <2> HIDE DEF q
    <2> QED BY <1>1, <1>2, <2>2 DEF MailInv
  <1>4. CASE MailboxPacket(h, Slots \cup {NoSlot})
    <2>1. PICK c \in Chars, i \in Ids :
            \/ MailReceiveAlz(h, c, i) \/ MailReturn(h, c, i)
            \/ MailDeleteReceived(h, c, i) \/ DeleteSentMail(h, c, i)
            \/ \E slot \in Slots \cup {NoSlot} : MailReceiveItem(h, c, i, slot)
      BY <1>4 DEF MailboxPacket
    <2>2. CASE ~ DeleteSentMail(h, c, i)
      <3>1. ASSUME NEW at \in {"takeAlz", "return", "erase", "takeItem"}, NEW slot,
                   Request(h, [Idle EXCEPT !.at = at, !.c = c, !.id = i, !.slot = slot])
            PROVE  AlzKept' /\ Placed' /\ MarksEmpty'
        <4>1. PICK q : q = [Idle EXCEPT !.at = at, !.c = c, !.id = i, !.slot = slot]
          OBVIOUS
        <4>2. q.at # "mark"
          BY <4>1 DEF Idle
        <4> QED BY <1>2, <3>1, <4>1, <4>2
      <3>2. ASSUME NEW at \in {"takeAlz", "return", "erase"},
                   Request(h, [Idle EXCEPT !.at = at, !.c = c, !.id = i])
            PROVE  AlzKept' /\ Placed' /\ MarksEmpty'
        <4>1. PICK q : q = [Idle EXCEPT !.at = at, !.c = c, !.id = i]
          OBVIOUS
        <4>2. q.at # "mark"
          BY <4>1 DEF Idle
        <4> QED BY <1>2, <3>2, <4>1, <4>2
      <3> QED BY <1>1, <2>1, <2>2, <3>1, <3>2
              DEF MailInv, MailReceiveAlz, MailReturn, MailDeleteReceived, MailReceiveItem
    <2>3. CASE DeleteSentMail(h, c, i)
      <3> DEFINE n == [mails[i] EXCEPT !.delSender = TRUE]
                 q == [Idle EXCEPT !.at = "cleanup", !.c = c, !.id = i]
      <3>1. There(i) /\ mails' = [mails EXCEPT ![i] = n] /\ UNCHANGED <<alz, items, fees>>
        BY <2>3 DEF DeleteSentMail
      <3>2. mails[i] \in Rows
        BY <3>1, ThereRow DEF MailInv
      <3>3. /\ n.is = "row" /\ n.alz = mails[i].alz /\ n.item = mails[i].item
            /\ n.delReceiver = mails[i].delReceiver
        BY <3>2 DEF Rows
      <3>4. Becomes(h, q) /\ q.at # "mark"
        BY <2>3 DEF DeleteSentMail, Idle
      <3> HIDE DEF n, q
      <3>5. AlzKept' /\ Placed' /\ \A j \in Ids : Bare(j) => Bare(j)'
        BY <3>1, <3>3, RowKeeps
      <3>6. MarksEmpty'
        BY <3>4, <3>5, MarksStay
      <3> QED BY <1>1, <3>5, <3>6 DEF MailInv
    <2> QED BY <2>2, <2>3
  <1> QED BY <1>3, <1>4 DEF Packet

\* A request that fails.
LEMMA FailsKeeps ==
  ASSUME MailInv, NEW h \in Handlers, Fails(h)
  PROVE  MailInv'
  <1>1. TypeOK' /\ CallsOK'
    BY FailsOK DEF MailInv
  <1>2. UNCHANGED master /\ Becomes(h, Idle) /\ Idle.at # "mark"
    BY DEF Fails, Idle
  <1>3. AlzKept' /\ Placed' /\ \A j \in Ids : Bare(j) => Bare(j)'
    BY <1>2, MasterStays
  <1>4. MarksEmpty'
    BY <1>2, <1>3, MarksStay
  <1> QED BY <1>1, <1>3, <1>4 DEF MailInv

\* A goroutine's step after the packet was read.
LEMMA StepKeeps ==
  ASSUME MailInv, NEW h \in Handlers, Step(h), ~ Fails(h)
  PROVE  MailInv'
  <1> DEFINE r == call[h]
             Kept == AlzKept' /\ Placed' /\ \A j \in Ids : Bare(j) => Bare(j)'
  <1>1. TypeOK /\ CallsOK /\ MarksEmpty
    BY DEF MailInv
  <1>2. ASSUME NEW q, Becomes(h, q), q.at # "mark", Kept, TypeOK', CallsOK'
        PROVE  MailInv'
    <2>1. MarksEmpty'
      BY <1>2, MarksStay
    <2> QED BY <1>2, <2>1 DEF MailInv
  <1>3. r \in Calls
    BY <1>1 DEF CallsOK
  <1>4. ASSUME NEW at, at # "mark", NEW q, q = [r EXCEPT !.at = at]
        PROVE  q.at # "mark"
    BY <1>3, <1>4 DEF Calls
  <1>5. Idle.at # "mark"
    BY DEF Idle
  <1>6. CASE SendMailCheck(h)
    <2>1. TypeOK' /\ CallsOK' /\ UNCHANGED master
      BY <1>1, <1>6, SendStepTypes
    <2>2. PICK q : q = [r EXCEPT !.at = "post"]
      OBVIOUS
    <2>3. Becomes(h, q)
      BY <1>6, <2>2 DEF SendMailCheck
    <2> QED BY <1>2, <1>4, <2>1, <2>2, <2>3, MasterStays
  <1>7. CASE SendMail(h)
    <2>1. TypeOK' /\ CallsOK'
      BY <1>1, <1>7, SendMailTypes
    <2>2. PICK i \in Ids : /\ Posted(h, i)
                           /\ Becomes(h, [r EXCEPT !.at = "alz", !.alz = alz'[r.c]])
      BY <1>1, <1>7, SendMailPosts
    <2>3. PICK q : q = [r EXCEPT !.at = "alz", !.alz = alz'[r.c]]
      OBVIOUS
    <2>4. Becomes(h, q) /\ q.at # "mark"
      BY <1>3, <2>2, <2>3 DEF Calls
    <2> QED BY <1>2, <2>1, <2>2, <2>4, PostedKeeps
  <1>8. CASE setCharacterAlz(h)
    <2>1. TypeOK' /\ CallsOK' /\ UNCHANGED master
      BY <1>1, <1>8, SendStepTypes
    <2>2. PICK q : q = IF r.item = None THEN Idle ELSE [r EXCEPT !.at = "remove"]
      OBVIOUS
    <2>3. Becomes(h, q) /\ q.at # "mark"
      BY <1>3, <1>5, <1>8, <2>2 DEF setCharacterAlz, Calls
    <2> QED BY <1>2, <2>1, <2>3, MasterStays
  <1>9. CASE MailSendRemove(h) \/ MailReceiveItemSet(h)
    <2>1. TypeOK' /\ CallsOK' /\ UNCHANGED master
      BY <1>1, <1>9, SendStepTypes
    <2>2. Becomes(h, Idle)
      BY <1>9 DEF MailSendRemove, MailReceiveItemSet
    <2> QED BY <1>2, <1>5, <2>1, <2>2, MasterStays
  <1>10. CASE ReceiveMailAlz(h)
    <2>1. TypeOK' /\ CallsOK' /\ TookAlz(h)
      BY <1>1, <1>10, ReceiveMailAlzTypes
    <2>2. PICK q : q = [r EXCEPT !.at = "alz", !.alz = alz'[r.c]]
      OBVIOUS
    <2>3. Becomes(h, q)
      BY <1>10, <2>2 DEF ReceiveMailAlz
    <2>4. q.at # "mark"
      BY <1>3, <2>2 DEF Calls
    <2> QED BY <1>2, <2>1, <2>3, <2>4, TookAlzKeeps
  <1>11. CASE ReceiveMailItem(h)
    <2>1. TypeOK' /\ CallsOK' /\ \E s \in Slots : TookItem(h, s)
      BY <1>1, <1>11, ReceiveMailItemTypes
    <2>2. PICK s : Becomes(h, [r EXCEPT !.at = "set", !.item = mails[r.id].item, !.slot = s])
      BY <1>11 DEF ReceiveMailItem
    <2>3. PICK q : q = [r EXCEPT !.at = "set", !.item = mails[r.id].item, !.slot = s]
      OBVIOUS
    <2>4. Becomes(h, q) /\ q.at # "mark"
      BY <1>3, <2>2, <2>3 DEF Calls
    <2> QED BY <1>2, <2>1, <2>4, TookItemKeeps
  <1>12. CASE ReturnMailCheck(h)
    <2>1. TypeOK' /\ CallsOK' /\ UNCHANGED master
      BY <1>1, <1>12, CheckTypes
    <2>2. PICK q : q = [r EXCEPT !.at = "turn", !.peer = mails[r.id].from]
      OBVIOUS
    <2>3. Becomes(h, q)
      BY <1>12, <2>2 DEF ReturnMailCheck
    <2>4. q.at # "mark"
      BY <1>3, <2>2 DEF Calls
    <2> QED BY <1>2, <2>1, <2>3, <2>4, MasterStays
  <1>13. CASE ReturnMail(h)
    <2>1. TypeOK' /\ CallsOK' /\ Turned(h)
      BY <1>1, <1>13, ReturnMailTypes
    <2> DEFINE n == [mails[r.id] EXCEPT !.from = r.c, !.to = r.peer, !.type = "returned", !.state = {},
                                        !.delSender = FALSE, !.delReceiver = FALSE]
    <2>2. /\ r.at = "turn" /\ Received(r.id, r.c) /\ mails' = [mails EXCEPT ![r.id] = n]
          /\ UNCHANGED <<alz, items, fees>>
      BY <2>1 DEF Turned
    <2>3. r.id \in Ids
      BY <1>1, <2>2 DEF CallsOK, CallOK
    <2>4. There(r.id) /\ mails[r.id] \in Rows /\ mails[r.id].delReceiver = FALSE
      BY <1>1, <2>2, <2>3, ReceivedRow DEF Received
    <2>5. /\ n.is = "row" /\ n.alz = mails[r.id].alz /\ n.item = mails[r.id].item
          /\ n.delReceiver = mails[r.id].delReceiver
      BY <2>4 DEF Rows
    <2>6. Becomes(h, Idle)
      BY <1>13 DEF ReturnMail
    <2> HIDE DEF n
    <2>7. Kept
      BY <2>2, <2>3, <2>4, <2>5, RowKeeps
    <2> QED BY <1>2, <1>5, <2>1, <2>6, <2>7
  <1>14. CASE DeleteReceivedCheck(h)
    <2>1. TypeOK' /\ CallsOK' /\ UNCHANGED master
      BY <1>1, <1>14, CheckTypes
    <2>2. AlzKept' /\ Placed'
      BY <2>1, MasterStays
    <2>3. MarksEmpty'
      BY <1>14, <2>1, CheckMarks
    <2> QED BY <2>1, <2>2, <2>3 DEF MailInv
  <1>15. CASE DeleteReceivedMail(h)
    <2>1. TypeOK' /\ CallsOK' /\ Marked(h)
      BY <1>1, <1>15, DeleteReceivedTypes
    <2> DEFINE n == [mails[r.id] EXCEPT !.delReceiver = TRUE]
    <2>2. /\ r.at = "mark" /\ Received(r.id, r.c) /\ mails' = [mails EXCEPT ![r.id] = n]
          /\ UNCHANGED <<alz, items, fees>>
      BY <2>1 DEF Marked
    <2>3. r.id \in Ids /\ Bare(r.id)
      BY <1>1, <2>2 DEF CallsOK, CallOK, MarksEmpty
    <2>4. There(r.id) /\ mails[r.id] \in Rows
      BY <1>1, <2>2, <2>3, ReceivedRow DEF Received
    <2>5. /\ n.is = "row" /\ n.alz = mails[r.id].alz /\ n.item = mails[r.id].item
          /\ n.delReceiver = TRUE
      BY <2>4 DEF Rows
    <2>6. PICK q : q = [r EXCEPT !.at = "cleanup"]
      OBVIOUS
    <2>7. Becomes(h, q)
      BY <1>15, <2>6 DEF DeleteReceivedMail
    <2> HIDE DEF n
    <2>8. Kept
      BY <2>2, <2>3, <2>4, <2>5, ShutKeeps
    <2> QED BY <1>2, <1>4, <2>1, <2>6, <2>7, <2>8
  <1>16. CASE cleanupDeletedMail(h)
    <2>1. TypeOK' /\ CallsOK' /\ \E i \in Ids : Cleaned(i)
      BY <1>1, <1>16, CleanupTypes
    <2>2. PICK i \in Ids : Cleaned(i)
      BY <2>1
    <2>3. Kept
      <3>1. CASE mails' = mails
        <4>1. UNCHANGED master
          BY <2>2, <3>1 DEF Cleaned, master
        <4> QED BY <4>1, MasterStays
      <3>2. CASE mails' # mails
        <4>1. /\ There(i) /\ i \notin Open /\ mails' = [mails EXCEPT ![i] = Removed]
              /\ UNCHANGED <<alz, items, fees>>
          BY <2>2, <3>2 DEF Cleaned, Open
        <4> QED BY <4>1, ShutKeeps
      <3> QED BY <3>1, <3>2
    <2>4. Becomes(h, Idle)
      BY <1>16 DEF cleanupDeletedMail
    <2> QED BY <1>2, <1>5, <2>1, <2>3, <2>4
  <1> QED BY <1>6, <1>7, <1>8, <1>9, <1>10, <1>11, <1>12, <1>13, <1>14, <1>15, <1>16 DEF Step

----------------------------------------------------------------------------
(* The theorem. *)

\* Nothing waits anywhere: nothing in all.
LEMMA TotalZero ==
  ASSUME NEW S, IsFiniteSet(S), NEW f \in [S -> Int], \A x \in S : f[x] = 0
  PROVE  Total(f) = 0
  <1> DEFINE g == Sums(f, S)
             B == {s \in SUBSET S : g[s] # 0}
  <1>1. SumsOf(g, f, S)
    BY SumsAdd
  <1>2. Total(f) = g[S]
    BY TotalIsSum
  <1> HIDE DEF g
  <1>3. SUFFICES ASSUME B # {} PROVE FALSE
    BY <1>2
  <1>4. PICK T \in B : \A U \in B : U \subseteq T => U = T
    <2>1. B \subseteq SUBSET S
      OBVIOUS
    <2> HIDE DEF B
    <2> QED BY <1>3, <2>1, SmallestSubset
  <1>5. T # {}
    BY <1>1, <1>4 DEF SumsOf, Adds
  <1>6. pick(T) \in T
    BY <1>5, PickIn
  <1>7. T \ {pick(T)} \in SUBSET S /\ g[T] = f[pick(T)] + g[T \ {pick(T)}]
    BY <1>1, <1>4, <1>5 DEF SumsOf, Adds
  <1>8. g[T \ {pick(T)}] = 0
    BY <1>4, <1>6, <1>7
  <1> QED BY <1>4, <1>6, <1>7, <1>8

\* The invariant holds at first.
LEMMA MailInit == Init => MailInv
  <1> SUFFICES ASSUME Init PROVE MailInv
    OBVIOUS
  <1>1. mails = [i \in Ids |-> Unused] /\ Open = {}
    BY DEF Init, Open, There, Unused
  <1>2. TypeOK
    BY <1>1, AlzAssumption, StartAssumption DEF Init, TypeOK
  <1>3. CallsOK
    BY IdleOK DEF Init, CallsOK, CallOK
  <1>4. MarksEmpty
    BY DEF Init, MarksEmpty, Idle
  <1>5. AlzKept
    <2>1. Waiting \in [Ids -> Int] /\ \A i \in Ids : Waiting[i] = 0
      BY <1>1 DEF Waiting
    <2>2. Total(Waiting) = 0
      BY <2>1, IdsFinite, TotalZero
    <2>3. StartAlz \in [Chars -> Int] /\ IsFiniteSet(Chars)
      BY AlzAssumption, FiniteAssumption
    <2>4. Total(StartAlz) \in Int
      BY <2>3, TotalInt
    <2> QED BY <2>2, <2>4 DEF Init, AlzKept
  <1>6. Placed
    <2> SUFFICES ASSUME NEW x \in Goods PROVE Place(x)
      BY DEF Placed
    <2>1. x # None
      BY GoodsReal
    <2>2. PICK c \in Chars, s \in Slots : StartItems[c][s] = x
      BY DEF Goods
    <2>3. \A d \in Chars, t \in Slots : StartItems[d][t] = x => d = c /\ t = s
      BY <2>1, <2>2, StartAssumption
    <2>4. SlotsOf(x) = {<<c, s>>}
      BY <2>2, <2>3 DEF Init, SlotsOf
    <2>5. MailsOf(x) = {}
      BY <1>1 DEF MailsOf
    <2> QED BY <2>4, <2>5 DEF Place
  <1> QED BY <1>2, <1>3, <1>4, <1>5, <1>6 DEF MailInv

\* Every step keeps the invariant.
LEMMA MailStep == MailInv /\ [Next]_vars => MailInv'
  <1> SUFFICES ASSUME MailInv, [Next]_vars PROVE MailInv'
    OBVIOUS
  <1>1. ASSUME UNCHANGED <<master, call>>, TypeOK' /\ CallsOK'
        PROVE  MailInv'
    <2>1. AlzKept' /\ Placed' /\ \A j \in Ids : Bare(j) => Bare(j)'
      BY <1>1, MasterStays
    <2>2. MarksEmpty'
      BY <1>1 DEF MailInv, MarksEmpty, Bare, There, master
    <2> QED BY <1>1, <2>1, <2>2 DEF MailInv
  <1>2. CASE UNCHANGED vars
    BY <1>1, <1>2 DEF vars, master, game, chat, MailInv, TypeOK, CallsOK
  <1>3. ASSUME NEW h \in Handlers, Packet(h) PROVE MailInv'
    BY <1>3, PacketKeeps
  <1>4. ASSUME NEW h \in Handlers, Step(h) PROVE MailInv'
    BY <1>4, StepKeeps, FailsKeeps
  <1>5. ASSUME NEW h \in Handlers, CallFails(h) PROVE MailInv'
    BY <1>5, FailsKeeps DEF CallFails
  <1>6. ASSUME NEW c \in Chars,
               NotifyMailReceived(c) \/ sendMailList(c) \/ sendMailUpdate(c) \/ NotifyMailLost(c)
        PROVE  MailInv'
    BY <1>1, <1>6, ChatTypes DEF MailInv
  <1> QED BY <1>2, <1>3, <1>4, <1>5, <1>6 DEF Next, ChatStep

\* The conjunction of the parts is an invariant of the mail handlers.
THEOREM MailInvariant == Spec => []MailInv
  BY MailInit, MailStep, PTL DEF Spec

\* Alz is neither made nor lost by SendMail, ReceiveMailAlz, ReturnMail,
\* DeleteReceivedMail and cleanupDeletedMail, for any number of characters, mails
\* and goroutines and for any amounts.
THEOREM MailAlzKept == Spec => []AlzKept
  <1>1. MailInv => AlzKept
    BY DEF MailInv
  <1> QED BY <1>1, MailInvariant, PTL

\* No interleaving of SendMail, ReceiveMailItem, ReturnMail and the deletions makes
\* a second copy of an item or loses the only one.
THEOREM MailItemOnce == Spec => []ItemOnce
  <1>1. MailInv => ItemOnce
    BY PlacedOnce DEF MailInv
  <1> QED BY <1>1, MailInvariant, PTL

\* DeleteReceivedMail reads the mail without a lock and marks it later: what it
\* marks has nothing attached, whatever happens in between.
THEOREM MailMarksEmpty == Spec => []MarksEmpty
  <1>1. MailInv => MarksEmpty
    BY DEF MailInv
  <1> QED BY <1>1, MailInvariant, PTL

----------------------------------------------------------------------------
(* One packet at a time. *)

\* A packet is handled when no other is, and the master answers.
OneAtATime ==
    \/ Quiet /\ \E h \in Handlers : Packet(h)
    \/ \E h \in Handlers : Step(h)
    \/ ChatStep \/ \E c \in Chars : NotifyMailLost(c)

\* The points of a handler that has an answer and has yet to use it.
Behind == {"alz", "remove", "set"}

\* What is left of an answer makes the tables of the copies.
Owed(r) ==
    /\ r.at = "alz" =>
         /\ alz = [charAlz EXCEPT ![r.c] = r.alz]
         /\ items = IF r.item = None THEN charItems ELSE [charItems EXCEPT ![r.c][r.slot] = None]
    /\ r.at = "remove" => alz = charAlz /\ items = [charItems EXCEPT ![r.c][r.slot] = None]
    /\ r.at = "set" => alz = charAlz /\ items = [charItems EXCEPT ![r.c][r.slot] = r.item]

Lone == \A g, h \in Handlers : g # h => call[g].at = "idle" \/ call[h].at = "idle"

CopyInv ==
    /\ Lone
    /\ \A h \in Handlers : Owed(call[h])
    /\ (\A h \in Handlers : call[h].at \notin Behind) => charAlz = alz /\ charItems = items

\* Beside a handler that is at work all are idle.
LEMMA LoneOthers ==
  ASSUME Lone, NEW h \in Handlers, call[h].at # "idle", NEW g \in Handlers, g # h
  PROVE  call[g].at = "idle"
  BY DEF Lone

\* A handler that goes on without an answer to use.
LEMMA CopyKept ==
  ASSUME CallsOK, CopyInv, NEW h \in Handlers, NEW r, Becomes(h, r),
         \A g \in Handlers : g # h => call[g].at = "idle",
         r.at \notin Behind, charAlz' = alz', charItems' = items'
  PROVE  CopyInv'
  <1>1. call'[h] = r /\ \A g \in Handlers : g # h => call'[g] = call[g]
    BY DEF Becomes, CallsOK
  <1>2. \A g \in Handlers : g # h => call'[g].at = "idle"
    BY <1>1
  <1>3. \A g \in Handlers : call'[g].at \notin Behind
    BY <1>1, <1>2 DEF Behind
  <1>4. \A g \in Handlers : Owed(call[g])'
    BY <1>3 DEF Owed, Behind
  <1>5. Lone'
    BY <1>2 DEF Lone
  <1> QED BY <1>4, <1>5 DEF CopyInv

\* A handler that gets an answer or uses a part of it.
LEMMA CopyOwed ==
  ASSUME CallsOK, CopyInv, NEW h \in Handlers, NEW r, Becomes(h, r),
         \A g \in Handlers : g # h => call[g].at = "idle",
         r.at \in Behind, Owed(call[h])'
  PROVE  CopyInv'
  <1>1. call'[h] = r /\ \A g \in Handlers : g # h => call'[g] = call[g]
    BY DEF Becomes, CallsOK
  <1>2. \A g \in Handlers : g # h => call'[g].at = "idle"
    BY <1>1
  <1>3. \A g \in Handlers : Owed(call[g])'
    BY <1>2 DEF Owed
  <1>4. Lone'
    BY <1>2 DEF Lone
  <1> QED BY <1>1, <1>3, <1>4 DEF CopyInv

\* While nobody has an answer to use, the copies are the tables.
LEMMA CopyCurrent ==
  ASSUME CopyInv, NEW h \in Handlers, call[h].at \notin Behind,
         \A g \in Handlers : g # h => call[g].at = "idle"
  PROVE  charAlz = alz /\ charItems = items
  BY DEF CopyInv, Behind

\* The steps of a handler.
LEMMA CopyStep ==
  ASSUME TypeOK, CallsOK, CopyInv, NEW h \in Handlers, Step(h)
  PROVE  CopyInv'
  <1> DEFINE r == call[h]
  <1>1. CallOK(r) /\ r \in Calls
    BY DEF CallsOK, CallOK
  <1>2. r.at # "idle"
    BY DEF Step, SendMailCheck, SendMail, setCharacterAlz, MailSendRemove, ReceiveMailAlz, ReceiveMailItem,
           MailReceiveItemSet, ReturnMailCheck, ReturnMail, DeleteReceivedCheck, DeleteReceivedMail, cleanupDeletedMail
  <1>3. \A g \in Handlers : g # h => call[g].at = "idle"
    BY <1>2, LoneOthers DEF CopyInv
  <1>4. r.at \notin Behind => charAlz = alz /\ charItems = items
    BY <1>3, CopyCurrent
  <1>5. Idle.at \notin Behind
    BY DEF Idle, Behind
  <1>6. Owed(r)
    BY DEF CopyInv
  <1>7. CASE Fails(h) /\ r.at \notin Behind
    BY <1>3, <1>4, <1>5, <1>7, CopyKept DEF Fails, master, game
  <1>8. CASE SendMailCheck(h) /\ ~Fails(h)
    <2>1. PICK q : q = [r EXCEPT !.at = "post"]
      OBVIOUS
    <2>2. Becomes(h, q) /\ UNCHANGED <<master, game>> /\ r.at = "send"
      BY <1>8, <2>1 DEF SendMailCheck
    <2>3. q.at = "post"
      BY <1>1, <2>1 DEF Calls
    <2> QED BY <1>3, <1>4, <2>2, <2>3, CopyKept DEF master, game, Behind
  <1>9. CASE SendMail(h) /\ ~Fails(h)
    <2>1. PICK i \in Ids : /\ Posted(h, i)
                           /\ Becomes(h, [r EXCEPT !.at = "alz", !.alz = alz'[r.c]])
                           /\ UNCHANGED <<game, rung, known>>
      BY <1>9, SendMailPosts
    <2>2. PICK q : q = [r EXCEPT !.at = "alz", !.alz = alz'[r.c]]
      OBVIOUS
    <2>3. q.at = "alz" /\ q.alz = alz'[r.c] /\ q.c = r.c /\ q.item = r.item /\ q.slot = r.slot
      BY <1>1, <2>2 DEF Calls
    <2>4. r.at = "post" /\ r.c \in Chars
      BY <1>1, <2>1 DEF Posted, CallOK
    <2>5. charAlz = alz /\ charItems = items /\ charAlz' = charAlz /\ charItems' = charItems
      BY <1>4, <2>1, <2>4 DEF Behind, game
    <2>6. alz' = [charAlz EXCEPT ![r.c] = alz'[r.c]]
      BY <2>1, <2>4, <2>5 DEF Posted, TypeOK
    <2>7. items' = IF r.item = None THEN charItems ELSE [charItems EXCEPT ![r.c][r.slot] = None]
      BY <2>1, <2>5 DEF Posted
    <2>8. Owed(q)'
      BY <2>3, <2>5, <2>6, <2>7 DEF Owed
    <2>9. call'[h] = q
      BY <2>1, <2>2 DEF Becomes, CallsOK
    <2>10. Becomes(h, q)
      BY <2>1, <2>2
    <2>11. q.at \in Behind
      BY <2>3 DEF Behind
    <2>12. Owed(call[h])'
      BY <2>8, <2>9
    <2> QED BY <1>3, <2>10, <2>11, <2>12, CopyOwed
  <1>10. CASE setCharacterAlz(h)
    <2>1. /\ r.at = "alz" /\ charAlz' = [charAlz EXCEPT ![r.c] = r.alz]
          /\ charItems' = charItems /\ alz' = alz /\ items' = items
          /\ Becomes(h, IF r.item = None THEN Idle ELSE [r EXCEPT !.at = "remove"])
      BY <1>10 DEF setCharacterAlz, master
    <2>2. /\ charAlz' = alz'
          /\ items' = IF r.item = None THEN charItems ELSE [charItems EXCEPT ![r.c][r.slot] = None]
      BY <1>6, <2>1 DEF Owed
    <2>3. CASE r.item = None
      BY <1>3, <1>5, <2>1, <2>2, <2>3, CopyKept
    <2>4. CASE r.item # None
      <3>1. PICK q : q = [r EXCEPT !.at = "remove"]
        OBVIOUS
      <3>2. q.at = "remove" /\ q.c = r.c /\ q.slot = r.slot
        BY <1>1, <3>1 DEF Calls
      <3>3. Becomes(h, q) /\ call'[h] = q
        BY <2>1, <2>4, <3>1 DEF Becomes, CallsOK
      <3>4. Owed(q)'
        BY <2>1, <2>2, <2>4, <3>2 DEF Owed
      <3> QED BY <1>3, <3>2, <3>3, <3>4, CopyOwed DEF Behind
    <2> QED BY <2>3, <2>4
  <1>11. CASE MailSendRemove(h)
    <2>1. /\ charItems' = items' /\ charAlz' = alz' /\ Becomes(h, Idle)
      BY <1>6, <1>11 DEF MailSendRemove, Owed, master
    <2> QED BY <1>3, <1>5, <2>1, CopyKept
  <1>12. CASE ReceiveMailAlz(h) /\ ~Fails(h)
    <2>1. TookAlz(h)
      BY <1>12, ReceiveMailAlzTypes
    <2>2. PICK q : q = [r EXCEPT !.at = "alz", !.alz = alz'[r.c]]
      OBVIOUS
    <2>3. q.at = "alz" /\ q.alz = alz'[r.c] /\ q.c = r.c /\ q.item = r.item
      BY <1>1, <2>2 DEF Calls
    <2>4. Becomes(h, q) /\ call'[h] = q /\ UNCHANGED game
      BY <1>12, <2>2 DEF ReceiveMailAlz, Becomes, CallsOK
    <2>5. r.at = "takeAlz" /\ r.c \in Chars /\ r.item = None
      BY <1>1, <2>1 DEF TookAlz, CallOK
    <2>6. charAlz' = alz /\ charItems' = items'
      BY <1>4, <2>1, <2>4, <2>5 DEF Behind, game, TookAlz
    <2>7. alz' = [charAlz' EXCEPT ![r.c] = alz'[r.c]]
      BY <2>1, <2>5, <2>6 DEF TookAlz, TypeOK
    <2>8. Owed(q)'
      BY <2>3, <2>5, <2>6, <2>7 DEF Owed
    <2> QED BY <1>3, <2>3, <2>4, <2>8, CopyOwed DEF Behind
  <1>13. CASE ReceiveMailItem(h) /\ ~Fails(h)
    <2>1. PICK s \in Slots :
            /\ r.at = "takeItem" /\ UNCHANGED <<alz, game>>
            /\ items' = [items EXCEPT ![r.c][s] = mails[r.id].item]
            /\ Becomes(h, [r EXCEPT !.at = "set", !.item = mails[r.id].item, !.slot = s])
      BY <1>13 DEF ReceiveMailItem, FreeSlots
    <2>2. PICK q, x : x = mails[r.id].item /\ q = [r EXCEPT !.at = "set", !.item = x, !.slot = s]
      OBVIOUS
    <2>3. q.at = "set" /\ q.c = r.c /\ q.item = x /\ q.slot = s
      BY <1>1, <2>2 DEF Calls
    <2>4. Becomes(h, q) /\ call'[h] = q
      BY <2>1, <2>2 DEF Becomes, CallsOK
    <2>5. charAlz' = alz' /\ charItems' = items
      BY <1>4, <2>1 DEF Behind, game
    <2>6. Owed(q)'
      BY <2>1, <2>2, <2>3, <2>5 DEF Owed
    <2> QED BY <1>3, <2>3, <2>4, <2>6, CopyOwed DEF Behind
  <1>14. CASE MailReceiveItemSet(h)
    <2>1. /\ charItems' = items' /\ charAlz' = alz' /\ Becomes(h, Idle)
      BY <1>6, <1>14 DEF MailReceiveItemSet, Owed, master
    <2> QED BY <1>3, <1>5, <2>1, CopyKept
  <1>15. CASE (ReturnMailCheck(h) \/ ReturnMail(h) \/ DeleteReceivedCheck(h) \/ DeleteReceivedMail(h)) /\ ~Fails(h)
    <2>1. PICK q : /\ Becomes(h, q) /\ UNCHANGED <<alz, items, game>> /\ r.at \notin Behind
                   /\ \/ q = Idle \/ q = [r EXCEPT !.at = "mark"] \/ q = [r EXCEPT !.at = "cleanup"]
                      \/ q = [r EXCEPT !.at = "turn", !.peer = mails[r.id].from]
      BY <1>15 DEF ReturnMailCheck, ReturnMail, DeleteReceivedCheck, DeleteReceivedMail, Behind, master
    <2>2. q.at \notin Behind
      BY <1>1, <1>5, <2>1 DEF Calls, Behind
    <2> QED BY <1>3, <1>4, <2>1, <2>2, CopyKept DEF game
  <1>16. CASE cleanupDeletedMail(h)
    <2>1. Becomes(h, Idle) /\ UNCHANGED <<alz, items, game>> /\ r.at \notin Behind
      BY <1>16 DEF cleanupDeletedMail, Behind
    <2> QED BY <1>3, <1>4, <1>5, <2>1, CopyKept DEF game
  <1>17. Fails(h) /\ r.at \in Behind => setCharacterAlz(h) \/ MailSendRemove(h) \/ MailReceiveItemSet(h)
    BY DEF Step, SendMailCheck, SendMail, ReceiveMailAlz, ReceiveMailItem, ReturnMailCheck, ReturnMail,
           DeleteReceivedCheck, DeleteReceivedMail, cleanupDeletedMail, Behind
  <1> QED BY <1>7, <1>8, <1>9, <1>10, <1>11, <1>12, <1>13, <1>14, <1>15, <1>16, <1>17 DEF Step

\* A packet that is taken up while nobody is at work.
LEMMA CopyPacket ==
  ASSUME CallsOK, CopyInv, Quiet, NEW h \in Handlers, Packet(h)
  PROVE  CopyInv'
  <1>1. charAlz = alz /\ charItems = items /\ \A g \in Handlers : call[g].at = "idle"
    BY CopyCurrent DEF Quiet, Behind
  <1>2. PICK q : Becomes(h, q) /\ q.at \notin Behind /\ UNCHANGED <<alz, items, game>>
    BY DEF Packet, SendPacket, MailboxPacket, MailSend, MailReceiveAlz, MailReturn, MailDeleteReceived,
           DeleteSentMail, MailReceiveItem, Request, Behind, Idle, master
  <1> QED BY <1>1, <1>2, CopyKept DEF game

\* What the answers owe to the copies is an invariant of one packet at a time.
LEMMA MailCopyInvariant == Spec /\ [][OneAtATime]_vars => []CopyInv
  <1>1. Init => CopyInv
    <2> SUFFICES ASSUME Init PROVE CopyInv
      OBVIOUS
    <2>1. \A h \in Handlers : call[h].at = "idle"
      BY DEF Init, Idle
    <2> QED BY <2>1 DEF Init, CopyInv, Owed, Lone
  <1>2. MailInv /\ CopyInv /\ [OneAtATime]_vars => CopyInv'
    <2> SUFFICES ASSUME MailInv, CopyInv, [OneAtATime]_vars PROVE CopyInv'
      OBVIOUS
    <2>1. TypeOK /\ CallsOK
      BY DEF MailInv
    <2>2. CASE Quiet /\ \E h \in Handlers : Packet(h)
      BY <2>1, <2>2, CopyPacket
    <2>3. CASE \E h \in Handlers : Step(h)
      BY <2>1, <2>3, CopyStep
    <2>4. ASSUME UNCHANGED <<alz, items, charAlz, charItems, call>> PROVE CopyInv'
      BY <2>4 DEF CopyInv, Owed, Lone
    <2>5. CASE ChatStep \/ \E c \in Chars : NotifyMailLost(c)
      BY <2>4, <2>5 DEF ChatStep, NotifyMailReceived, NotifyMailLost, sendMailList, sendMailUpdate, master, game
    <2>6. CASE UNCHANGED vars
      BY <2>4, <2>6 DEF vars, master, game
    <2> QED BY <2>2, <2>3, <2>5, <2>6 DEF OneAtATime
  <1> QED BY <1>1, <1>2, MailInvariant, PTL DEF Spec

\* The balance and the inventory that the game server shows are those of the
\* database between two packets, when one is handled at a time and the master
\* answers, for any number of characters, items and mails (setCharacterAlz,
\* RemoveLocal and SetLocal after the answers of SendMail, ReceiveMailAlz and
\* ReceiveMailItem).
THEOREM MailCopiesFollow == Spec /\ [][OneAtATime]_vars => []CopiesFollow
  <1>1. CopyInv => CopiesFollow
    BY DEF CopyInv, CopiesFollow, Quiet, Behind
  <1> QED BY <1>1, MailCopyInvariant, PTL

----------------------------------------------------------------------------
(* The mailbox, and what the clients know. *)

\* No mail comes to a mailbox, and the ids that are used stay so.
Shrinks ==
    \A i \in Ids : /\ mails'[i] = Unused <=> mails[i] = Unused
                   /\ \A c \in Chars : Received(i, c)' => Received(i, c) /\ mails'[i].type = mails[i].type

\* A request, or the part of one, that goes on to a mail in the box of q.peer.
Room(q) == q.at \in {"post", "turn"} => q.peer \in Chars /\ Cardinality(Box(q.peer)) < MaxMailbox

\* A row changes and keeps its receiver, or is removed.
LEMMA RowShrinks ==
  ASSUME TypeOK, NEW i \in Ids, There(i), NEW n, mails' = [mails EXCEPT ![i] = n], n.is \in {"row", "removed"},
         n.is = "row" => n.to = mails[i].to /\ n.type = mails[i].type /\ (mails[i].delReceiver => n.delReceiver)
  PROVE  Shrinks
  <1>1. mails'[i] = n /\ \A j \in Ids : j # i => mails'[j] = mails[j]
    BY DEF TypeOK
  <1>2. mails'[i] # Unused /\ mails[i] # Unused
    BY <1>1 DEF There, Unused
  <1>3. ASSUME NEW c \in Chars, Received(i, c)' PROVE Received(i, c) /\ mails'[i].type = mails[i].type
    BY <1>1, <1>3 DEF Received, There
  <1> QED BY <1>1, <1>2, <1>3 DEF Shrinks, Received, There

\* A step that touches no mail.
LEMMA SameShrinks == ASSUME mails' = mails PROVE Shrinks
  BY DEF Shrinks, Received, There

\* What a step of a goroutine does to the mailboxes: a mail is sent, returned,
\* or none comes.
Sends(h) ==
    /\ \E i \in Ids : Posted(h, i) /\ \A j \in 1 .. (i - 1) : mails[j] # Unused
    /\ notices' = notices \cup {call[h].peer} /\ UNCHANGED <<rung, known>>
Turns(h) == Turned(h) /\ notices' = notices \cup {call[h].peer} /\ UNCHANGED <<rung, known>>
Passes(h) == Shrinks /\ UNCHANGED chat /\ (call'[h].at \in {"post", "turn"} => mails' = mails /\ Room(call'[h]))

\* Every step of a goroutine is one of these.
LEMMA StepBoxes ==
  ASSUME TypeOK, CallsOK, NEW h \in Handlers, Step(h)
  PROVE  \/ Sends(h) /\ call'[h].at = "alz"
         \/ Turns(h) /\ call'[h].at = "idle"
         \/ Passes(h)
  <1> DEFINE r == call[h]
  <1>1. CallOK(r) /\ r \in Calls
    BY DEF CallsOK, CallOK
  <1>2. \A q : Becomes(h, q) => call'[h] = q
    BY DEF Becomes, CallsOK
  <1>3. Idle.at = "idle"
    BY DEF Idle
  <1>4. CASE Fails(h)
    BY <1>2, <1>3, <1>4, SameShrinks DEF Fails, Passes, Room, master
  <1>5. CASE SendMailCheck(h) /\ ~Fails(h)
    <2>1. PICK q : q = [r EXCEPT !.at = "post"]
      OBVIOUS
    <2>2. /\ Becomes(h, q) /\ UNCHANGED <<master, chat>> /\ r.at = "send"
          /\ ~(Cardinality(Box(r.peer)) >= MaxMailbox)
      BY <1>5, <2>1 DEF SendMailCheck
    <2>3. q.at = "post" /\ q.peer = r.peer /\ r.peer \in Chars
      BY <1>1, <2>1, <2>2 DEF Calls, CallOK
    <2>4. Cardinality(Box(r.peer)) \in Nat
      BY IdsFinite, FS_Subset, FS_CardinalityType DEF Box
    <2>5. Room(q)
      BY <2>2, <2>3, <2>4, BoundAssumption DEF Room
    <2> QED BY <1>2, <2>2, <2>5, SameShrinks DEF Passes, master
  <1>6. CASE SendMail(h) /\ ~Fails(h)
    <2>1. PICK i \in Ids :
            /\ mails[i] = Unused /\ \A j \in 1 .. (i - 1) : mails[j] # Unused
            /\ mails' = [mails EXCEPT ![i] =
                   [is |-> "row", from |-> r.c, to |-> r.peer, type |-> "user", state |-> {},
                    alz |-> r.alz, item |-> r.item, delSender |-> FALSE, delReceiver |-> FALSE]]
      BY <1>6 DEF SendMail
    <2>2. PICK k \in Ids : /\ Posted(h, k)
                           /\ Becomes(h, [r EXCEPT !.at = "alz", !.alz = alz'[r.c]])
                           /\ notices' = notices \cup {r.peer}
                           /\ UNCHANGED <<game, rung, known>>
      BY <1>6, SendMailPosts
    <2>3. i = k
      <3>1. mails'[k].is = "row" /\ mails[k].is = "unused"
        BY <2>2 DEF Posted, TypeOK, Unused
      <3>2. i # k => mails'[k] = mails[k]
        BY <2>1
      <3> QED BY <3>1, <3>2
    <2>4. PICK q : q = [r EXCEPT !.at = "alz", !.alz = alz'[r.c]]
      OBVIOUS
    <2>5. call'[h].at = "alz"
      BY <1>1, <1>2, <2>2, <2>4 DEF Calls
    <2> QED BY <2>1, <2>2, <2>3, <2>5 DEF Sends
  <1>7. CASE setCharacterAlz(h)
    <2>1. PICK q : q = IF r.item = None THEN Idle ELSE [r EXCEPT !.at = "remove"]
      OBVIOUS
    <2>2. q.at \in {"idle", "remove"}
      BY <1>1, <1>3, <2>1 DEF Calls
    <2>3. Becomes(h, q) /\ UNCHANGED <<master, chat>>
      BY <1>7, <2>1 DEF setCharacterAlz
    <2> QED BY <1>2, <2>2, <2>3, SameShrinks DEF Passes, master
  <1>8. CASE MailSendRemove(h) \/ MailReceiveItemSet(h)
    BY <1>2, <1>3, <1>8, SameShrinks DEF MailSendRemove, MailReceiveItemSet, Passes, master
  <1>9. CASE ReceiveMailAlz(h) /\ ~Fails(h)
    <2>1. TookAlz(h)
      BY <1>9, ReceiveMailAlzTypes
    <2>2. PICK n : n = [mails[r.id] EXCEPT !.alz = 0, !.state = @ \cup {"alz"}]
      OBVIOUS
    <2>3. r.id \in Ids /\ Received(r.id, r.c) /\ mails' = [mails EXCEPT ![r.id] = n]
      BY <1>1, <2>1, <2>2 DEF TookAlz, CallOK
    <2>4. mails[r.id] \in Rows /\ There(r.id)
      BY <2>3, ReceivedRow DEF Received
    <2>5. n.is = "row" /\ n.to = mails[r.id].to /\ n.type = mails[r.id].type /\ n.delReceiver = mails[r.id].delReceiver
      BY <2>2, <2>4 DEF Rows
    <2>6. Shrinks
      BY <2>3, <2>4, <2>5, RowShrinks
    <2>7. PICK q : q = [r EXCEPT !.at = "alz", !.alz = alz'[r.c]]
      OBVIOUS
    <2>8. q.at = "alz" /\ Becomes(h, q) /\ UNCHANGED chat
      BY <1>1, <1>9, <2>7 DEF Calls, ReceiveMailAlz
    <2> QED BY <1>2, <2>6, <2>8 DEF Passes
  <1>10. CASE ReceiveMailItem(h) /\ ~Fails(h)
    <2>1. PICK s \in Slots : TookItem(h, s)
      BY <1>10, ReceiveMailItemTypes
    <2>2. PICK n : n = [mails[r.id] EXCEPT !.item = None, !.state = @ \cup {"item"}]
      OBVIOUS
    <2>3. r.id \in Ids /\ Received(r.id, r.c) /\ mails' = [mails EXCEPT ![r.id] = n]
      BY <1>1, <2>1, <2>2 DEF TookItem, CallOK
    <2>4. mails[r.id] \in Rows /\ There(r.id)
      BY <2>3, ReceivedRow DEF Received
    <2>5. n.is = "row" /\ n.to = mails[r.id].to /\ n.type = mails[r.id].type /\ n.delReceiver = mails[r.id].delReceiver
      BY <2>2, <2>4 DEF Rows
    <2>6. Shrinks
      BY <2>3, <2>4, <2>5, RowShrinks
    <2>7. PICK t : Becomes(h, [r EXCEPT !.at = "set", !.item = mails[r.id].item, !.slot = t]) /\ UNCHANGED chat
      BY <1>10 DEF ReceiveMailItem
    <2>8. PICK q : q = [r EXCEPT !.at = "set", !.item = mails[r.id].item, !.slot = t]
      OBVIOUS
    <2>9. q.at = "set" /\ Becomes(h, q)
      BY <1>1, <2>7, <2>8 DEF Calls
    <2> QED BY <1>2, <2>6, <2>7, <2>9 DEF Passes
  <1>11. CASE ReturnMailCheck(h) /\ ~Fails(h)
    <2>1. PICK q : q = [r EXCEPT !.at = "turn", !.peer = mails[r.id].from]
      OBVIOUS
    <2>2. /\ Becomes(h, q) /\ UNCHANGED <<master, chat>> /\ r.at = "return" /\ Received(r.id, r.c)
          /\ ~(Cardinality(Box(mails[r.id].from)) >= MaxMailbox)
      BY <1>11, <2>1 DEF ReturnMailCheck
    <2>3. r.id \in Ids
      BY <1>1, <2>2 DEF CallOK
    <2>4. mails[r.id].from \in Chars
      BY <2>2, <2>3, ReceivedRow DEF Rows
    <2>5. q.at = "turn" /\ q.peer = mails[r.id].from
      BY <1>1, <2>1 DEF Calls
    <2>6. Cardinality(Box(q.peer)) \in Nat
      BY IdsFinite, FS_Subset, FS_CardinalityType DEF Box
    <2>7. Room(q)
      BY <2>2, <2>4, <2>5, <2>6, BoundAssumption DEF Room
    <2> QED BY <1>2, <2>2, <2>7, SameShrinks DEF Passes, master
  <1>12. CASE ReturnMail(h) /\ ~Fails(h)
    <2>1. Turned(h)
      BY <1>12, ReturnMailTypes
    <2>2. notices' = notices \cup {r.peer} /\ Becomes(h, Idle) /\ UNCHANGED <<rung, known>>
      BY <1>12 DEF ReturnMail
    <2> QED BY <1>2, <1>3, <2>1, <2>2 DEF Turns
  <1>13. CASE DeleteReceivedCheck(h) /\ ~Fails(h)
    <2>1. PICK q : q = [r EXCEPT !.at = "mark"]
      OBVIOUS
    <2>2. q.at = "mark" /\ Becomes(h, q) /\ UNCHANGED <<master, chat>>
      BY <1>1, <1>13, <2>1 DEF DeleteReceivedCheck, Calls
    <2> QED BY <1>2, <2>2, SameShrinks DEF Passes, master
  <1>14. CASE DeleteReceivedMail(h) /\ ~Fails(h)
    <2>1. Marked(h)
      BY <1>14, DeleteReceivedTypes
    <2>2. PICK n : n = [mails[r.id] EXCEPT !.delReceiver = TRUE]
      OBVIOUS
    <2>3. r.id \in Ids /\ Received(r.id, r.c) /\ mails' = [mails EXCEPT ![r.id] = n]
      BY <1>1, <2>1, <2>2 DEF Marked, CallOK
    <2>4. mails[r.id] \in Rows /\ There(r.id)
      BY <2>3, ReceivedRow DEF Received
    <2>5. n.is = "row" /\ n.to = mails[r.id].to /\ n.type = mails[r.id].type /\ n.delReceiver
      BY <2>2, <2>4 DEF Rows
    <2>6. Shrinks
      BY <2>3, <2>4, <2>5, RowShrinks
    <2>7. PICK q : q = [r EXCEPT !.at = "cleanup"]
      OBVIOUS
    <2>8. q.at = "cleanup" /\ Becomes(h, q) /\ UNCHANGED chat
      BY <1>1, <1>14, <2>7 DEF Calls, DeleteReceivedMail
    <2> QED BY <1>2, <2>6, <2>8 DEF Passes
  <1>15. CASE cleanupDeletedMail(h)
    <2>1. PICK i \in Ids : Cleaned(i)
      BY <1>15, CleanupTypes
    <2>2. CASE mails' = mails
      BY <1>2, <1>3, <1>15, <2>2, SameShrinks DEF cleanupDeletedMail, Passes
    <2>3. CASE There(i) /\ mails' = [mails EXCEPT ![i] = Removed]
      <3>1. PICK n : n = Removed
        OBVIOUS
      <3>2. n.is = "removed" /\ mails' = [mails EXCEPT ![i] = n]
        BY <2>3, <3>1 DEF Removed
      <3>3. Shrinks
        BY <2>3, <3>2, RowShrinks
      <3> QED BY <1>2, <1>3, <1>15, <3>3 DEF cleanupDeletedMail, Passes
    <2> QED BY <2>1, <2>2, <2>3 DEF Cleaned
  <1> QED BY <1>4, <1>5, <1>6, <1>7, <1>8, <1>9, <1>10, <1>11, <1>12, <1>13, <1>14, <1>15 DEF Step

\* The mailboxes, where the request that goes on to a mail has found room.
BoxInv ==
    /\ \A c \in Chars : Cardinality(Box(c)) <= MaxMailbox
    /\ \A h \in Handlers : Room(call[h])

\* A mailbox is a finite set of ids.
LEMMA BoxFinite ==
  ASSUME NEW c PROVE Box(c) \in SUBSET Ids /\ IsFiniteSet(Box(c)) /\ Cardinality(Box(c)) \in Nat
  <1>1. Box(c) \in SUBSET Ids
    BY DEF Box
  <1>2. IsFiniteSet(Box(c))
    BY <1>1, IdsFinite, FS_Subset
  <1> QED BY <1>1, <1>2, FS_CardinalityType

\* A mail comes to the box of q, or none does.
Comes(q, i) ==
    /\ \A c \in Chars : Box(c)' \subseteq Box(c) \cup (IF c = q THEN {i} ELSE {})
    /\ \A j \in Ids : mails[j] # Unused => mails'[j] # Unused

\* The mail that is sent comes to the receiver's box.
LEMMA PostedComes ==
  ASSUME TypeOK, CallsOK, NEW h \in Handlers, NEW i \in Ids, Posted(h, i)
  PROVE  Comes(call[h].peer, i) /\ mails'[i] # Unused /\ \A j \in Ids : j # i => mails'[j] = mails[j]
  <1> DEFINE r == call[h]
  <1>1. PICK n : n = [is |-> "row", from |-> r.c, to |-> r.peer, type |-> "user", state |-> {},
            alz |-> r.alz, item |-> r.item, delSender |-> FALSE, delReceiver |-> FALSE]
    OBVIOUS
  <1>2. n.is = "row" /\ n.to = r.peer
    BY <1>1
  <1>3. mails'[i] = n /\ \A j \in Ids : j # i => mails'[j] = mails[j]
    BY <1>1 DEF Posted, TypeOK
  <1>4. mails'[i] # Unused
    BY <1>2, <1>3 DEF Unused
  <1>5. ASSUME NEW c \in Chars PROVE Box(c)' \subseteq Box(c) \cup (IF c = r.peer THEN {i} ELSE {})
    BY <1>2, <1>3 DEF Box, Received, There
  <1> QED BY <1>3, <1>4, <1>5 DEF Comes

\* The mail that is returned comes to the sender's box.
LEMMA TurnedComes ==
  ASSUME TypeOK, CallsOK, NEW h \in Handlers, Turned(h)
  PROVE  /\ Comes(call[h].peer, call[h].id) /\ call[h].id \in Ids /\ mails'[call[h].id].type = "returned"
         /\ \A j \in Ids : j # call[h].id => mails'[j] = mails[j]
  <1> DEFINE r == call[h]
  <1>0. r.id \in Ids /\ mails[r.id] \in Rows
    BY ReceivedRow DEF CallsOK, CallOK, Turned
  <1>1. PICK n : n = [mails[r.id] EXCEPT !.from = r.c, !.to = r.peer, !.type = "returned", !.state = {},
                               !.delSender = FALSE, !.delReceiver = FALSE]
    OBVIOUS
  <1>2. n.is = "row" /\ n.to = r.peer /\ n.type = "returned"
    BY <1>0, <1>1 DEF Rows
  <1>3. mails'[r.id] = n /\ \A j \in Ids : j # r.id => mails'[j] = mails[j]
    BY <1>0, <1>1 DEF Turned, TypeOK
  <1>4. mails'[r.id] # Unused
    BY <1>2, <1>3 DEF Unused
  <1>5. ASSUME NEW c \in Chars PROVE Box(c)' \subseteq Box(c) \cup (IF c = r.peer THEN {r.id} ELSE {})
    BY <1>2, <1>3 DEF Box, Received, There
  <1> QED BY <1>0, <1>2, <1>3, <1>4, <1>5 DEF Comes

\* A mail that comes to a box with room keeps the bound.
LEMMA ComesBounded ==
  ASSUME BoxInv, NEW h \in Handlers, NEW i, call[h].at \in {"post", "turn"}, Comes(call[h].peer, i),
         NEW c \in Chars
  PROVE  Cardinality(Box(c)') <= MaxMailbox
  <1> DEFINE p == call[h].peer
  <1>1. p \in Chars /\ Cardinality(Box(p)) < MaxMailbox
    BY DEF BoxInv, Room
  <1>2. MaxMailbox \in Nat /\ Cardinality(Box(c)) \in Nat /\ IsFiniteSet(Box(c))
    BY BoundAssumption, BoxFinite
  <1>3. CASE c = p
    <2>1. Box(c)' \in SUBSET (Box(c) \cup {i})
      BY <1>3 DEF Comes
    <2>2. /\ IsFiniteSet(Box(c) \cup {i})
          /\ Cardinality(Box(c) \cup {i}) \in {Cardinality(Box(c)), Cardinality(Box(c)) + 1}
      BY <1>2, FS_AddElement
    <2>3. Cardinality(Box(c)') <= Cardinality(Box(c) \cup {i}) /\ IsFiniteSet(Box(c)')
      BY <2>1, <2>2, FS_Subset
    <2>4. Cardinality(Box(c)') \in Nat
      BY <2>3, FS_CardinalityType
    <2> QED BY <1>1, <1>2, <1>3, <2>2, <2>3, <2>4
  <1>4. CASE c # p
    <2>1. Box(c)' \in SUBSET Box(c)
      BY <1>4 DEF Comes
    <2>2. Cardinality(Box(c)') <= Cardinality(Box(c)) /\ IsFiniteSet(Box(c)')
      BY <1>2, <2>1, FS_Subset
    <2>3. Cardinality(Box(c)') \in Nat
      BY <2>2, FS_CardinalityType
    <2>4. Cardinality(Box(c)) <= MaxMailbox
      BY DEF BoxInv
    <2> QED BY <1>2, <2>2, <2>3, <2>4
  <1> QED BY <1>3, <1>4

\* A step to which no mail comes keeps the bound.
LEMMA ShrinksBounded ==
  ASSUME BoxInv, Shrinks, NEW c \in Chars
  PROVE  Box(c)' \subseteq Box(c) /\ Cardinality(Box(c)') <= MaxMailbox
  <1>1. Box(c)' \in SUBSET Box(c)
    BY DEF Shrinks, Box
  <1>2. MaxMailbox \in Nat /\ Cardinality(Box(c)) \in Nat /\ IsFiniteSet(Box(c))
    BY BoundAssumption, BoxFinite
  <1>3. Cardinality(Box(c)') <= Cardinality(Box(c)) /\ IsFiniteSet(Box(c)')
    BY <1>1, <1>2, FS_Subset
  <1>4. Cardinality(Box(c)') \in Nat
    BY <1>3, FS_CardinalityType
  <1>5. Cardinality(Box(c)) <= MaxMailbox
    BY DEF BoxInv
  <1> QED BY <1>1, <1>2, <1>3, <1>4, <1>5

\* The room of a request, while no mail comes.
LEMMA RoomStays ==
  ASSUME NEW q, Room(q), mails' = mails PROVE Room(q)'
  BY DEF Room, Box, Received, There

\* A goroutine changes only its own request.
LEMMA StepOwn ==
  ASSUME CallsOK, NEW h \in Handlers, Step(h)
  PROVE  /\ call[h].at # "idle" /\ \A g \in Handlers : g # h => call'[g] = call[g]
  <1>1. call[h].at # "idle"
    BY DEF Step, SendMailCheck, SendMail, setCharacterAlz, MailSendRemove, ReceiveMailAlz, ReceiveMailItem,
           MailReceiveItemSet, ReturnMailCheck, ReturnMail, DeleteReceivedCheck, DeleteReceivedMail, cleanupDeletedMail
  <1>2. \E q : Becomes(h, q)
    BY DEF Step, Fails, SendMailCheck, SendMail, setCharacterAlz, MailSendRemove, ReceiveMailAlz, ReceiveMailItem,
           MailReceiveItemSet, ReturnMailCheck, ReturnMail, DeleteReceivedCheck, DeleteReceivedMail, cleanupDeletedMail
  <1> QED BY <1>1, <1>2 DEF Becomes, CallsOK

\* A packet is noted, and a mail that is deleted by its sender stays where it is.
LEMMA PacketBoxes ==
  ASSUME TypeOK, CallsOK, NEW h \in Handlers, Packet(h)
  PROVE  /\ Shrinks /\ UNCHANGED chat /\ call'[h].at \notin {"post", "turn"}
         /\ \A g \in Handlers : g # h => call'[g] = call[g]
  <1>1. PICK q : Becomes(h, q) /\ q.at \notin {"post", "turn"} /\ UNCHANGED chat
    BY DEF Packet, SendPacket, MailboxPacket, MailSend, MailReceiveAlz, MailReturn, MailDeleteReceived,
           DeleteSentMail, MailReceiveItem, Request, Idle
  <1>2. call'[h] = q /\ \A g \in Handlers : g # h => call'[g] = call[g]
    BY <1>1 DEF Becomes, CallsOK
  <1>3. CASE mails' = mails
    BY <1>1, <1>2, <1>3, SameShrinks
  <1>4. CASE \E c \in Chars, i \in Ids : DeleteSentMail(h, c, i)
    <2>1. PICK i \in Ids : There(i) /\ mails' = [mails EXCEPT ![i].delSender = TRUE]
      BY <1>4 DEF DeleteSentMail
    <2>2. PICK n : n = [mails[i] EXCEPT !.delSender = TRUE]
      OBVIOUS
    <2>3. mails' = [mails EXCEPT ![i] = n]
      BY <2>1, <2>2
    <2>4. mails[i] \in Rows
      BY <2>1, ThereRow
    <2>5. n.is = "row" /\ n.to = mails[i].to /\ n.type = mails[i].type /\ n.delReceiver = mails[i].delReceiver
      BY <2>2, <2>4 DEF Rows
    <2>6. Shrinks
      BY <2>1, <2>3, <2>5, RowShrinks
    <2> QED BY <1>1, <1>2, <2>6
  <1> QED BY <1>3, <1>4 DEF Packet, SendPacket, MailboxPacket, MailSend, MailReceiveAlz, MailReturn,
                           MailDeleteReceived, MailReceiveItem, Request, master

\* Steps of goroutines and packets keep the bound.
LEMMA BoxesKept ==
  ASSUME TypeOK, CallsOK, Lone, BoxInv, NEW h \in Handlers, Step(h) \/ (Quiet /\ Packet(h))
  PROVE  BoxInv'
  <1>1. \A g \in Handlers : g # h => call'[g] = call[g] /\ call[g].at = "idle"
    BY StepOwn, PacketBoxes, LoneOthers DEF Quiet
  <1>2. ASSUME NEW g \in Handlers, g # h PROVE Room(call[g])'
    BY <1>1, <1>2 DEF Room
  <1>3. CASE Step(h) /\ Sends(h) /\ call'[h].at = "alz"
    <2>1. PICK i \in Ids : Posted(h, i)
      BY <1>3 DEF Sends
    <2>2. call[h].at \in {"post", "turn"} /\ Comes(call[h].peer, i)
      BY <2>1, PostedComes DEF Posted
    <2>3. \A c \in Chars : Cardinality(Box(c)') <= MaxMailbox
      BY <2>2, ComesBounded
    <2>4. Room(call[h])'
      BY <1>3 DEF Room
    <2> QED BY <1>2, <2>3, <2>4 DEF BoxInv
  <1>4. CASE Step(h) /\ Turns(h) /\ call'[h].at = "idle"
    <2>1. Turned(h)
      BY <1>4 DEF Turns
    <2>2. call[h].at \in {"post", "turn"} /\ Comes(call[h].peer, call[h].id)
      BY <2>1, TurnedComes DEF Turned
    <2>3. \A c \in Chars : Cardinality(Box(c)') <= MaxMailbox
      BY <2>2, ComesBounded
    <2>4. Room(call[h])'
      BY <1>4 DEF Room
    <2> QED BY <1>2, <2>3, <2>4 DEF BoxInv
  <1>5. CASE Passes(h)
    <2>1. \A c \in Chars : Cardinality(Box(c)') <= MaxMailbox
      BY <1>5, ShrinksBounded DEF Passes
    <2>2. Room(call[h])'
      <3>1. CASE call'[h].at \notin {"post", "turn"}
        BY <3>1 DEF Room
      <3>2. CASE call'[h].at \in {"post", "turn"}
        BY <1>5, <3>2 DEF Passes, Room, Box, Received, There
      <3> QED BY <3>1, <3>2
    <2> QED BY <1>2, <2>1, <2>2 DEF BoxInv
  <1>6. CASE Packet(h)
    <2>1. Passes(h)
      BY <1>6, PacketBoxes DEF Passes
    <2> QED BY <1>5, <2>1
  <1> QED BY <1>3, <1>4, <1>5, <1>6, StepBoxes

\* A step of the chat server leaves the mailboxes as they are.
LEMMA BoxesSame == ASSUME BoxInv, UNCHANGED <<mails, call>> PROVE BoxInv'
  BY DEF BoxInv, Room, Box, Received, There

\* A mailbox never holds more than mail.MaxMailbox mails when one packet is
\* handled at a time: the count that SendMail and ReturnMail read still holds when
\* the mail is written.  (The count locks nothing, so two packets that overlap can
\* exceed it.)
Bounded == \A c \in Chars : Cardinality(Box(c)) <= MaxMailbox

\* The invariant of one packet at a time, from the start and through every step.
LEMMA MailAlone == Spec /\ [][OneAtATime]_vars => [](MailInv /\ CopyInv /\ BoxInv)
  <1>1. Init => CopyInv /\ BoxInv
    <2> SUFFICES ASSUME Init PROVE CopyInv /\ BoxInv
      OBVIOUS
    <2>1. \A h \in Handlers : call[h].at = "idle"
      BY DEF Init, Idle
    <2>2. CopyInv
      BY <2>1 DEF Init, CopyInv, Owed, Lone
    <2>3. \A c \in Chars : Box(c) = {}
      BY DEF Init, Box, Received, There, Unused
    <2>4. \A c \in Chars : Cardinality(Box(c)) <= MaxMailbox
      BY <2>3, FS_EmptySet, BoundAssumption
    <2> QED BY <2>1, <2>2, <2>4 DEF BoxInv, Room
  <1>2. MailInv /\ CopyInv /\ BoxInv /\ [OneAtATime]_vars => BoxInv'
    <2> SUFFICES ASSUME MailInv, CopyInv, BoxInv, [OneAtATime]_vars PROVE BoxInv'
      OBVIOUS
    <2>1. TypeOK /\ CallsOK /\ Lone
      BY DEF MailInv, CopyInv
    <2>2. CASE \E h \in Handlers : Step(h) \/ (Quiet /\ Packet(h))
      BY <2>1, <2>2, BoxesKept
    <2>3. CASE ChatStep \/ \E c \in Chars : NotifyMailLost(c)
      <3>1. UNCHANGED <<mails, call>>
        BY <2>3 DEF ChatStep, NotifyMailReceived, NotifyMailLost, sendMailList, sendMailUpdate, master
      <3> QED BY <3>1, BoxesSame
    <2>4. CASE UNCHANGED vars
      BY <2>4, BoxesSame DEF vars, master
    <2> QED BY <2>2, <2>3, <2>4 DEF OneAtATime
  <1> QED BY <1>1, <1>2, MailCopyInvariant, MailInvariant, PTL DEF Spec

\* A mailbox never holds more than mail.MaxMailbox mails when one packet is
\* handled at a time (SendMail, ReturnMail).
THEOREM MailboxBounded == Spec /\ [][OneAtATime]_vars => []Bounded
  <1>1. BoxInv => Bounded
    BY DEF BoxInv, Bounded
  <1> QED BY <1>1, MailAlone, PTL

\* Every notification arrives.
AllRing ==
    \/ Quiet /\ \E h \in Handlers : Packet(h)
    \/ (\E h \in Handlers : Step(h)) \/ ChatStep

\* The mails that are newer than all a client knows of, and the abstraction that
\* one update packet has room for them.
News(c) == {i \in Box(c) : \A j \in known[c] : j < i}
FewNew == \A c \in Chars : Cardinality(News(c)) <= UpdateCount

\* The table hands out its ids in order.
InOrder == \A i, j \in Ids : i < j /\ mails[i] = Unused => mails[j] = Unused

\* A mail that somebody sent is known of, or newer than all that is and announced.
Heard(i, c) == i \in known[c] \/ (c \in notices \cup rung /\ \A j \in known[c] : j < i)

KnowInv ==
    /\ InOrder
    /\ \A c \in Chars : \A j \in known[c] : mails[j] # Unused
    /\ \A c \in Chars : \A i \in Box(c) : mails[i].type = "user" => Heard(i, c)

\* A set of ids has a largest one.
LEMMA LargestId ==
  ASSUME NEW S \in SUBSET Ids, S # {}
  PROVE  Max(S) \in S /\ \A y \in S : Max(S) >= y
  <1> DEFINE Above(i) == {j \in S : j > i}
             B == {Above(i) : i \in S}
  <1>0. S \subseteq Int
    BY DEF Ids
  <1>1. IsFiniteSet(S)
    BY IdsFinite, FS_Subset
  <1>2. PICK T \in B : \A U \in B : U \subseteq T => U = T
    <2>1. B \in SUBSET SUBSET S /\ B # {}
      OBVIOUS
    <2> HIDE DEF B
    <2> QED BY <1>1, <2>1, SmallestSubset
  <1>3. PICK i \in S : T = Above(i)
    BY <1>2
  <1>4. ASSUME NEW j \in S, j > i PROVE FALSE
    <2>1. Above(j) \in B
      OBVIOUS
    <2>2. Above(j) \subseteq T
      <3>1. \A k \in S : k > j => k > i
        BY <1>0, <1>4
      <3>2. Above(j) \subseteq Above(i)
        BY <3>1
      <3> QED BY <1>3, <3>2
    <2>3. Above(j) = T
      BY <1>2, <2>1, <2>2
    <2>4. j \in T
      BY <1>3, <1>4
    <2>5. j \notin Above(j)
      BY <1>0
    <2> HIDE DEF Above
    <2> QED BY <2>3, <2>4, <2>5
  <1>5. \A y \in S : i >= y
    BY <1>0, <1>4
  <1>6. \E x \in S : \A y \in S : x >= y
    BY <1>5
  <1> QED BY <1>6 DEF Max

\* Where there is room for all, the newest are all.
LEMMA NewestAll ==
  ASSUME NEW S \in SUBSET Ids, NEW n \in Nat, Cardinality(S) <= n
  PROVE  Newest(n, S) = S
  <1>0. S \subseteq Int
    BY DEF Ids
  <1>1. IsFiniteSet(S)
    BY IdsFinite, FS_Subset
  <1>2. ASSUME NEW i \in S PROVE Cardinality({j \in S : j > i}) < n
    <2> DEFINE R == S \ {i}
               U == {j \in S : j > i}
    <2>1. IsFiniteSet(R) /\ Cardinality(R) = Cardinality(S) - 1
      BY <1>1, FS_RemoveElement
    <2>2. U \in SUBSET R
      BY <1>0
    <2>3. IsFiniteSet(U) /\ Cardinality(U) <= Cardinality(R)
      BY <2>1, <2>2, FS_Subset
    <2>4. Cardinality(U) \in Nat /\ Cardinality(S) \in Nat
      BY <1>1, <2>3, FS_CardinalityType
    <2> HIDE DEF R, U
    <2>5. Cardinality(U) < n
      BY <2>1, <2>3, <2>4
    <2> QED BY <2>5 DEF U
  <1> QED BY <1>2 DEF Newest

\* What a client gets that opens its mailbox, and one that answers a
\* notification: all there is, and all that is new to it.
LEMMA ListAll ==
  ASSUME BoxInv, NEW c \in Chars PROVE Newest(MaxMailbox, Box(c)) = Box(c)
  <1>1. Box(c) \in SUBSET Ids /\ Cardinality(Box(c)) <= MaxMailbox /\ MaxMailbox \in Nat
    BY BoxFinite, BoundAssumption DEF BoxInv
  <1> QED BY <1>1, NewestAll

\* The update brings what is newer than the last mail the client knows of.
LEMMA UpdateAll ==
  ASSUME TypeOK, BoxInv, FewNew, NEW c \in Chars, sendMailUpdate(c)
  PROVE  known' = [known EXCEPT ![c] = known[c] \cup News(c)]
  <1> DEFINE last == IF known[c] = {} THEN 0 ELSE Max(known[c])
             A == {i \in Box(c) : i > last}
  <1>1. known[c] \in SUBSET Ids /\ Box(c) \in SUBSET Ids /\ IsFiniteSet(Box(c))
    BY BoxFinite DEF TypeOK
  <1>2. A = News(c)
    <2>1. CASE known[c] = {}
      BY <1>1, <2>1 DEF News, Ids
    <2>2. CASE known[c] # {}
      <3>1. PICK m : m = Max(known[c])
        OBVIOUS
      <3>2. m \in known[c] /\ \A y \in known[c] : m >= y
        BY <1>1, <2>2, <3>1, LargestId
      <3>3. \A i \in Box(c) : i > m <=> \A j \in known[c] : j < i
        BY <1>1, <3>2 DEF Ids
      <3>4. last = m
        BY <2>2, <3>1
      <3> QED BY <3>3, <3>4 DEF News
    <2> QED BY <2>1, <2>2
  <1>3. News(c) \in SUBSET Box(c) /\ News(c) \in SUBSET Ids
    BY <1>1 DEF News
  <1>4. Cardinality(News(c)) <= UpdateCount /\ UpdateCount \in Nat /\ MaxMailbox \in Nat
    BY BoundAssumption DEF FewNew
  <1>5. Cardinality(News(c)) <= MaxMailbox
    <2>1. Cardinality(News(c)) <= Cardinality(Box(c)) /\ IsFiniteSet(News(c))
      BY <1>1, <1>3, FS_Subset
    <2>2. Cardinality(News(c)) \in Nat /\ Cardinality(Box(c)) \in Nat
      BY <1>1, <2>1, FS_CardinalityType
    <2> QED BY <1>4, <2>1, <2>2 DEF BoxInv
  <1>6. Newest(MaxMailbox, News(c)) = News(c) /\ Newest(UpdateCount, News(c)) = News(c)
    BY <1>3, <1>4, <1>5, NewestAll
  <1>7. known' = [known EXCEPT ![c] = known[c] \cup Newest(UpdateCount, Newest(MaxMailbox, A))]
    BY DEF sendMailUpdate
  <1> HIDE DEF A
  <1> QED BY <1>2, <1>6, <1>7

\* No mail comes, and the clients know what they knew.
LEMMA KnowShrinks ==
  ASSUME TypeOK, KnowInv, Shrinks, UNCHANGED chat
  PROVE  KnowInv'
  <1>1. InOrder'
    BY DEF KnowInv, InOrder, Shrinks
  <1>2. \A c \in Chars : \A j \in known[c]' : mails'[j] # Unused
    BY DEF KnowInv, Shrinks, chat, TypeOK
  <1>3. ASSUME NEW c \in Chars, NEW i \in Box(c)', mails'[i].type = "user" PROVE Heard(i, c)'
    <2>1. i \in Box(c) /\ mails[i].type = "user"
      BY <1>3 DEF Box, Shrinks
    <2> QED BY <2>1 DEF KnowInv, Heard, chat
  <1> QED BY <1>1, <1>2, <1>3 DEF KnowInv

\* A mail is sent: it is newer than all, and the notification is on its way.
LEMMA KnowSends ==
  ASSUME TypeOK, CallsOK, KnowInv, NEW h \in Handlers, Sends(h)
  PROVE  KnowInv'
  <1> DEFINE p == call[h].peer
  <1>1. PICK i \in Ids : Posted(h, i) /\ \A j \in 1 .. (i - 1) : mails[j] # Unused
    BY DEF Sends
  <1>2. /\ Comes(p, i) /\ mails'[i] # Unused /\ mails[i] = Unused
        /\ \A j \in Ids : j # i => mails'[j] = mails[j]
    BY <1>1, PostedComes DEF Posted
  <1>3. notices' = notices \cup {p} /\ rung' = rung /\ known' = known
    BY DEF Sends
  <1>4. \A j \in Ids : j < i => mails[j] # Unused
    BY <1>1 DEF Ids
  <1>5. InOrder'
    BY <1>2, <1>4 DEF KnowInv, InOrder, Ids
  <1>6. \A c \in Chars : \A j \in known[c]' : mails'[j] # Unused
    BY <1>2, <1>3 DEF KnowInv, Comes, TypeOK
  <1>7. ASSUME NEW c \in Chars, NEW k \in Box(c)', mails'[k].type = "user" PROVE Heard(k, c)'
    <2>1. CASE k = i
      <3>1. k \notin Box(c)
        BY <1>2, <2>1 DEF Box, Received, There, Unused
      <3>2. c = p
        BY <1>2, <1>7, <3>1 DEF Comes
      <3>3. \A j \in known[c] : j \in Ids /\ mails[j] # Unused
        BY DEF KnowInv, TypeOK
      <3>4. \A j \in known[c] : j < i
        BY <1>2, <3>3 DEF KnowInv, InOrder, Ids
      <3> QED BY <1>3, <2>1, <3>2, <3>4 DEF Heard
    <2>2. CASE k # i
      <3>1. k \in Box(c) /\ k \in Ids
        BY <1>2, <1>7, <2>2 DEF Comes, Box
      <3>2. mails[k].type = "user"
        BY <1>2, <1>7, <2>2, <3>1
      <3> QED BY <1>3, <3>1, <3>2 DEF KnowInv, Heard
    <2> QED BY <2>1, <2>2
  <1> QED BY <1>5, <1>6, <1>7 DEF KnowInv

\* A mail is returned.
LEMMA KnowTurns ==
  ASSUME TypeOK, CallsOK, KnowInv, NEW h \in Handlers, Turns(h)
  PROVE  KnowInv'
  <1> DEFINE p == call[h].peer
             i == call[h].id
  <1>0. Turned(h)
    BY DEF Turns
  <1>1. /\ Comes(p, i) /\ i \in Ids /\ mails'[i].type = "returned"
        /\ \A j \in Ids : j # i => mails'[j] = mails[j]
    BY <1>0, TurnedComes
  <1>2. mails[i] # Unused
    BY <1>0 DEF Turned, Received, There, Unused
  <1>3. notices' = notices \cup {p} /\ rung' = rung /\ known' = known
    BY DEF Turns
  <1>4. InOrder'
    BY <1>1, <1>2 DEF KnowInv, InOrder, Comes
  <1>5. \A c \in Chars : \A j \in known[c]' : mails'[j] # Unused
    BY <1>1, <1>3 DEF KnowInv, Comes, TypeOK
  <1>6. ASSUME NEW c \in Chars, NEW k \in Box(c)', mails'[k].type = "user" PROVE Heard(k, c)'
    <2>1. k # i
      BY <1>1, <1>6
    <2>2. k \in Box(c) /\ k \in Ids
      BY <1>1, <1>6, <2>1 DEF Comes, Box
    <2>3. mails[k].type = "user"
      BY <1>1, <1>6, <2>1, <2>2
    <2> QED BY <1>3, <2>2, <2>3 DEF KnowInv, Heard
  <1> QED BY <1>4, <1>5, <1>6 DEF KnowInv

\* The chat server passes a notification on, or answers a client.
LEMMA KnowChat ==
  ASSUME TypeOK, BoxInv, FewNew, KnowInv, ChatStep
  PROVE  KnowInv'
  <1>1. PICK c \in Chars : NotifyMailReceived(c) \/ sendMailList(c) \/ sendMailUpdate(c)
    BY DEF ChatStep
  <1>2. mails' = mails /\ \A d : Box(d)' = Box(d)
    BY <1>1 DEF NotifyMailReceived, sendMailList, sendMailUpdate, master, Box, Received, There
  <1>3. InOrder'
    BY <1>2 DEF KnowInv, InOrder
  <1>4. CASE NotifyMailReceived(c)
    <2>1. known' = known /\ notices' \cup rung' = notices \cup rung
      BY <1>4 DEF NotifyMailReceived
    <2> QED BY <1>2, <1>3, <2>1 DEF KnowInv, Heard
  <1>5. ASSUME NEW S, known' = [known EXCEPT ![c] = S], Box(c) \cap News(c) \subseteq S,
               S \subseteq known[c] \cup Box(c), known[c] \cap Box(c) \subseteq S,
               \A d \in Chars : d # c => (d \in notices' \cup rung' <=> d \in notices \cup rung)
        PROVE  KnowInv'
    <2>1. known'[c] = S /\ \A d \in Chars : d # c => known'[d] = known[d]
      BY <1>5 DEF TypeOK
    <2>2. \A i \in Box(c) : mails[i] # Unused
      BY DEF Box, Received, There, Unused
    <2>3. \A d \in Chars : \A j \in known[d]' : mails'[j] # Unused
      BY <1>2, <1>5, <2>1, <2>2 DEF KnowInv
    <2>4. ASSUME NEW d \in Chars, NEW i \in Box(d)', mails'[i].type = "user" PROVE Heard(i, d)'
      <3>1. i \in Box(d) /\ Heard(i, d)
        BY <1>2, <2>4 DEF KnowInv
      <3>2. CASE d = c
        <4>1. i \in known[c] \/ i \in News(c)
          BY <3>1, <3>2 DEF Heard, News
        <4>2. i \in S
          BY <1>5, <3>1, <3>2, <4>1
        <4> QED BY <2>1, <3>2, <4>2 DEF Heard
      <3>3. CASE d # c
        BY <1>5, <2>1, <3>1, <3>3 DEF Heard
      <3> QED BY <3>2, <3>3
    <2> QED BY <1>3, <2>3, <2>4 DEF KnowInv
  <1>6. CASE sendMailList(c)
    <2>1. known' = [known EXCEPT ![c] = Box(c)] /\ UNCHANGED <<notices, rung>>
      BY <1>6, ListAll DEF sendMailList
    <2> QED BY <1>5, <2>1
  <1>7. CASE sendMailUpdate(c)
    <2>1. known' = [known EXCEPT ![c] = known[c] \cup News(c)]
      BY <1>7, UpdateAll
    <2>2. rung' = rung \ {c} /\ notices' = notices
      BY <1>7 DEF sendMailUpdate
    <2>3. News(c) \subseteq Box(c)
      BY DEF News
    <2> QED BY <1>5, <2>1, <2>2, <2>3
  <1> QED BY <1>1, <1>4, <1>6, <1>7

\* Every step keeps it.
LEMMA KnowStep ==
  ASSUME TypeOK, CallsOK, BoxInv, FewNew, KnowInv, [AllRing]_vars
  PROVE  KnowInv'
  <1>1. ASSUME NEW h \in Handlers, Packet(h) PROVE KnowInv'
    BY <1>1, PacketBoxes, KnowShrinks
  <1>2. ASSUME NEW h \in Handlers, Step(h) PROVE KnowInv'
    <2>1. CASE Passes(h)
      BY <2>1, KnowShrinks DEF Passes
    <2> QED BY <1>2, <2>1, StepBoxes, KnowSends, KnowTurns
  <1>3. CASE ChatStep
    BY <1>3, KnowChat
  <1>4. CASE UNCHANGED vars
    BY <1>4, SameShrinks, KnowShrinks DEF vars, master
  <1> QED BY <1>1, <1>2, <1>3, <1>4 DEF AllRing

\* A client that has answered its notifications knows of every mail somebody has
\* sent to it and that is still in its mailbox, for any number of characters and
\* mails, when one packet is handled at a time, every notification arrives and
\* the mails that are new to a client fit one update (notifyMailReceived,
\* sendMailList, sendMailUpdate).
THEOREM MailListsKnow == Spec /\ [][AllRing]_vars /\ []FewNew => []KnowsNew
  <1>1. [AllRing]_vars => [OneAtATime]_vars
    BY DEF AllRing, OneAtATime
  <1>2. Init => KnowInv
    <2> SUFFICES ASSUME Init PROVE KnowInv
      OBVIOUS
    <2>1. \A c \in Chars : Box(c) = {} /\ known[c] = {}
      BY DEF Init, Box, Received, There, Unused
    <2>2. InOrder
      BY DEF Init, InOrder
    <2> QED BY <2>1, <2>2 DEF KnowInv
  <1>3. MailInv /\ BoxInv /\ FewNew /\ KnowInv /\ [AllRing]_vars => KnowInv'
    BY KnowStep DEF MailInv
  <1>4. KnowInv => KnowsNew
    BY DEF KnowInv, KnowsNew, Heard
  <1> QED BY <1>1, <1>2, <1>3, <1>4, MailAlone, PTL DEF Spec
=============================================================================

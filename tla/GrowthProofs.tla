---------------------------- MODULE GrowthProofs ----------------------------
(***************************************************************************)
(* Proofs about Growth, for any number of handlers and any tables of       *)
(* levels and ranks: the row has what it has earned, nothing earned is     *)
(* taken back, and the copy and the row agree on what only changes under   *)
(* the mutex.  For one handler and calls that succeed, the copy is the row *)
(* between two packets.                                                    *)
(*                                                                         *)
(* The first part is about the tables, and about the loop that climbs the  *)
(* ranks.  Climb, PointsBelow and BonusBelow are recursive functions: that *)
(* they satisfy their defining equations, and what Climb returns, is shown *)
(* by an argument about a smallest counterexample.                         *)
(***************************************************************************)
EXTENDS Growth, WellFoundedInduction, TLAPS

----------------------------------------------------------------------------
(* Numbers. *)

\* A set of natural numbers has a smallest element.
LEMMA SmallestNumber ==
  ASSUME NEW T, T \subseteq Nat, T # {}
  PROVE  \E x \in T : \A y \in T : x <= y
  <1> DEFINE R == OpToRel(<, Nat)
  <1>1. PICK x \in T : \A y \in T : ~ (<<y, x>> \in R)
    <2>1. IsWellFoundedOn(R, Nat)
      BY NatLessThanWellFounded
    <2> HIDE DEF R
    <2> QED BY <2>1, WFMin
  <1>2. \A y \in T : ~ (y < x)
    BY <1>1 DEF OpToRel
  <1> QED BY <1>2

\* A set of numbers up to a bound has a largest element, and Max returns it.
LEMMA MaxIsLargest ==
  ASSUME NEW m \in Nat, NEW S, S \subseteq 1 .. m, S # {}
  PROVE  Max(S) \in S /\ \A y \in S : y <= Max(S)
  <1> DEFINE T == {n \in Nat : \E y \in S : n = m - y}
  <1>1. T \subseteq Nat /\ T # {}
    <2>1. PICK y \in S : y \in 1 .. m
      OBVIOUS
    <2>2. m - y \in T
      BY <2>1
    <2> QED BY <2>2
  <1>2. PICK n \in T : \A k \in T : n <= k
    <2> HIDE DEF T
    <2> QED BY <1>1, SmallestNumber
  <1>3. PICK x \in S : n = m - x
    BY <1>2
  <1>4. \A y \in S : x >= y
    <2> SUFFICES ASSUME NEW y \in S PROVE x >= y
      OBVIOUS
    <2>1. m - y \in T
      OBVIOUS
    <2> QED BY <1>2, <1>3, <2>1
  <1>5. \E z \in S : \A y \in S : z >= y
    BY <1>4
  <1>6. Max(S) \in S /\ \A y \in S : Max(S) >= y
    BY <1>5, Zenon DEF Max
  <1> QED BY <1>6

\* Division by the levels of a rank keeps the order.
LEMMA QuotientsGrow ==
  ASSUME NEW a \in Nat, NEW b \in Nat, a <= b, NEW k \in Nat \ {0}
  PROVE  /\ a \div k \in Nat /\ b \div k \in Nat
         /\ a \div k <= b \div k
  OBVIOUS

----------------------------------------------------------------------------
(* Levels. *)

Levels == 1 .. TopLevel

\* The levels that the experience reaches from a level.
Reached(level, exp) == {l \in level .. TopLevel : \A k \in level .. l - 1 : exp >= AccumulatedExp[k]}

\* The level for some experience is reached, and the next one is not.
LEMMA LevelIsReached ==
  ASSUME NEW level \in Levels, NEW exp \in Nat
  PROVE  /\ LevelForExperience(level, exp) \in Levels
         /\ LevelForExperience(level, exp) >= level
         /\ LevelForExperience(level, exp) \in Reached(level, exp)
         /\ \A l \in Reached(level, exp) : l <= LevelForExperience(level, exp)
  <1>1. TopLevel \in Nat
    BY TableAssumption DEF TopLevel
  <1>2. level \in Reached(level, exp) /\ Reached(level, exp) \subseteq 1 .. TopLevel
    BY <1>1 DEF Reached, Levels
  <1>3. LevelForExperience(level, exp) = Max(Reached(level, exp))
    BY DEF LevelForExperience, Reached
  <1>4. /\ Max(Reached(level, exp)) \in Reached(level, exp)
        /\ \A l \in Reached(level, exp) : l <= Max(Reached(level, exp))
    BY <1>1, <1>2, MaxIsLargest
  <1> QED BY <1>1, <1>2, <1>3, <1>4 DEF Levels

\* Levels may be climbed in portions: what further experience adds to a level
\* leads where all of it leads from the start.
LEMMA LevelInPortions ==
  ASSUME NEW exp \in Nat, NEW more \in Nat, more >= exp
  PROVE  LevelForExperience(LevelForExperience(1, exp), more) = LevelForExperience(1, more)
  <1> DEFINE l == LevelForExperience(1, exp)
             m == LevelForExperience(l, more)
             n == LevelForExperience(1, more)
  <1>0. TopLevel \in Nat /\ 1 \in Levels /\ AccumulatedExp \in [Levels -> Nat]
    BY TableAssumption DEF TopLevel, Levels
  <1>1. l \in Levels /\ l \in Reached(1, exp)
    BY <1>0, LevelIsReached
  <1>2. m \in Levels /\ m >= l /\ m \in Reached(l, more) /\ \A x \in Reached(l, more) : x <= m
    BY <1>1, LevelIsReached
  <1>3. n \in Levels /\ n \in Reached(1, more) /\ \A x \in Reached(1, more) : x <= n
    BY <1>0, LevelIsReached
  <1> HIDE DEF l, m, n
  <1>4. m \in Reached(1, more)
    <2> SUFFICES ASSUME NEW k \in 1 .. m - 1 PROVE more >= AccumulatedExp[k]
      BY <1>0, <1>2 DEF Reached, Levels
    <2>1. AccumulatedExp[k] \in Nat
      BY <1>0, <1>2 DEF Levels
    <2>2. CASE k < l
      <3>1. exp >= AccumulatedExp[k]
        BY <1>1, <2>2 DEF Reached, Levels
      <3> QED BY <2>1, <3>1
    <2>3. CASE k >= l
      BY <1>1, <1>2, <2>3 DEF Reached, Levels
    <2> QED BY <1>1, <2>2, <2>3 DEF Levels
  <1>5. m <= n
    BY <1>3, <1>4
  <1>6. n \in Reached(l, more)
    BY <1>0, <1>1, <1>2, <1>3, <1>5 DEF Reached, Levels
  <1>7. n <= m
    BY <1>2, <1>6
  <1>8. m = n
    BY <1>2, <1>3, <1>5, <1>7 DEF Levels
  <1> QED BY <1>8 DEF l, m, n

\* A new character is of the level its experience gives.
LEMMA FirstLevel == 1 \in Levels /\ LevelForExperience(1, 0) = 1
  <1>1. TopLevel \in Nat /\ 1 \in Levels /\ AccumulatedExp \in [Levels -> Nat] /\ AccumulatedExp[1] > 0
    BY TableAssumption DEF TopLevel, Levels
  <1>2. /\ LevelForExperience(1, 0) \in Levels
        /\ LevelForExperience(1, 0) \in Reached(1, 0)
    BY <1>1, LevelIsReached
  <1> DEFINE n == LevelForExperience(1, 0)
  <1> HIDE DEF n
  <1>3. n \in Levels /\ n \in Reached(1, 0)
    BY <1>2 DEF n
  <1>4. CASE n > 1
    <2>1. 1 \in 1 .. n - 1
      BY <1>3, <1>4 DEF Levels
    <2>2. 0 >= AccumulatedExp[1]
      BY <1>3, <2>1 DEF Reached
    <2> QED BY <1>1, <2>2
  <1>5. CASE ~ (n > 1)
    BY <1>1, <1>3, <1>5 DEF Levels, n
  <1> QED BY <1>1, <1>4, <1>5 DEF n

\* A higher level allows at least the same ranks.
LEMMA LimitGrows ==
  ASSUME NEW a \in Levels, NEW b \in Levels, a <= b
  PROVE  /\ SkillRankLimitFor(a) \in 1 .. MaxRank
         /\ SkillRankLimitFor(a) <= SkillRankLimitFor(b)
  <1>1. a \in Nat /\ b \in Nat /\ LevelsPerRank \in Nat \ {0}
    BY TableAssumption DEF Levels, TopLevel
  <1>2. /\ ClassRankForLevel(a) \in Nat \ {0} /\ ClassRankForLevel(b) \in Nat \ {0}
        /\ ClassRankForLevel(a) <= ClassRankForLevel(b)
    <2>1. a \div LevelsPerRank \in Nat /\ b \div LevelsPerRank \in Nat
          /\ a \div LevelsPerRank <= b \div LevelsPerRank
      BY <1>1, QuotientsGrow
    <2> QED BY <2>1 DEF ClassRankForLevel
  <1> DEFINE n == Len(SkillRankLimit)
             p == ClassRankForLevel(a)
             q == ClassRankForLevel(b)
  <1>3. MaxRank \in Nat \ {0} /\ n \in Nat /\ SkillRankLimit \in [1 .. n -> 1 .. MaxRank]
    <2>1. SkillRankLimit \in Seq(1 .. MaxRank) /\ MaxRank \in Nat \ {0}
      BY RankAssumption
    <2> QED BY <2>1
  <1>4. \A i, j \in 1 .. n : i <= j => SkillRankLimit[i] <= SkillRankLimit[j]
    BY RankAssumption
  <1>5. /\ SkillRankLimitFor(a) = IF p <= n THEN SkillRankLimit[p] ELSE MaxRank
        /\ SkillRankLimitFor(b) = IF q <= n THEN SkillRankLimit[q] ELSE MaxRank
    BY DEF SkillRankLimitFor
  <1> HIDE DEF n, p, q
  <1>6. p \in Nat \ {0} /\ q \in Nat \ {0} /\ p <= q
    BY <1>2 DEF p, q
  <1>7. /\ p <= n => SkillRankLimit[p] \in 1 .. MaxRank
        /\ q <= n => SkillRankLimit[q] \in 1 .. MaxRank
    BY <1>3, <1>6
  <1> QED BY <1>3, <1>4, <1>5, <1>6, <1>7

----------------------------------------------------------------------------
(* What the ranks below a rank add up to. *)

Ranks == 1 .. MaxRank

Below(g) == CHOOSE f : f = [r \in Ranks |-> IF r = 1 THEN 0 ELSE f[r - 1] + g[r - 1]]

\* The recursive definition has a solution, which adds up one rank at a time.
LEMMA BelowAdds ==
  ASSUME NEW g, \A r \in 1 .. MaxRank - 1 : g[r] \in Nat
  PROVE  /\ Below(g) \in [Ranks -> Nat] /\ Below(g)[1] = 0
         /\ \A r \in 1 .. MaxRank - 1 : Below(g)[r + 1] = Below(g)[r] + g[r]
  <1>0. MaxRank \in Nat \ {0}
    BY RankAssumption
  <1> DEFINE Ok(n) == \E f \in [1 .. n -> Nat] :
                          f[1] = 0 /\ \A r \in 1 .. n - 1 : f[r + 1] = f[r] + g[r]
             B == {n \in Ranks : ~ Ok(n)}
  <1>1. Ok(MaxRank)
    <2> SUFFICES ASSUME B # {} PROVE FALSE
      <3>1. MaxRank \in Ranks
        BY <1>0 DEF Ranks
      <3> HIDE DEF Ok
      <3> QED BY <3>1
    <2>1. PICK n \in B : \A m \in B : n <= m
      <3>1. B \subseteq Nat
        BY <1>0 DEF Ranks
      <3> HIDE DEF B
      <3> QED BY <3>1, SmallestNumber
    <2>2. CASE n = 1
      <3> DEFINE f == [r \in 1 .. 1 |-> 0]
      <3>1. f \in [1 .. n -> Nat] /\ f[1] = 0 /\ \A r \in 1 .. n - 1 : f[r + 1] = f[r] + g[r]
        BY <2>2
      <3> QED BY <2>1, <3>1
    <2>3. CASE n # 1
      <3>1. n \in 2 .. MaxRank /\ n - 1 \in Ranks /\ n - 1 \notin B
        <4>1. n \in Ranks
          OBVIOUS
        <4>2. n \in 2 .. MaxRank /\ n - 1 \in Ranks /\ ~ (n <= n - 1)
          BY <1>0, <2>3, <4>1 DEF Ranks
        <4> HIDE DEF B
        <4> QED BY <2>1, <4>2
      <3>2. PICK f \in [1 .. n - 1 -> Nat] :
                     f[1] = 0 /\ \A r \in 1 .. n - 1 - 1 : f[r + 1] = f[r] + g[r]
        BY <3>1
      <3> DEFINE e == [r \in 1 .. n |-> IF r = n THEN f[n - 1] + g[n - 1] ELSE f[r]]
      <3>3. f[n - 1] \in Nat /\ g[n - 1] \in Nat
        <4>1. n - 1 \in 1 .. n - 1 /\ n - 1 \in 1 .. MaxRank - 1
          BY <1>0, <3>1
        <4> QED BY <4>1
      <3>4. e \in [1 .. n -> Nat]
        BY <3>1, <3>3
      <3>5. e[1] = 0
        BY <3>1, <3>2
      <3>6. \A r \in 1 .. n - 1 : e[r + 1] = e[r] + g[r]
        BY <3>1, <3>2
      <3> HIDE DEF e
      <3> QED BY <2>1, <3>4, <3>5, <3>6
    <2> QED BY <2>2, <2>3
  <1>2. PICK f \in [Ranks -> Nat] :
                 f[1] = 0 /\ \A r \in 1 .. MaxRank - 1 : f[r + 1] = f[r] + g[r]
    BY <1>1 DEF Ranks
  <1>3. f = [r \in Ranks |-> IF r = 1 THEN 0 ELSE f[r - 1] + g[r - 1]]
    <2>1. \A r \in Ranks : f[r] = IF r = 1 THEN 0 ELSE f[r - 1] + g[r - 1]
      <3> SUFFICES ASSUME NEW r \in Ranks, r # 1 PROVE f[r] = f[r - 1] + g[r - 1]
        BY <1>2
      <3>1. r - 1 \in 1 .. MaxRank - 1 /\ (r - 1) + 1 = r
        BY <1>0 DEF Ranks
      <3> QED BY <1>2, <3>1
    <2> QED BY <2>1
  <1> DEFINE b == Below(g)
  <1>4. b = [r \in Ranks |-> IF r = 1 THEN 0 ELSE b[r - 1] + g[r - 1]]
    BY <1>3 DEF Below
  <1> HIDE DEF b
  <1>5. 1 \in Ranks /\ b[1] = 0
    BY <1>0, <1>4 DEF Ranks
  <1>6. ASSUME NEW r \in 1 .. MaxRank - 1
        PROVE  b[r + 1] = b[r] + g[r]
    BY <1>0, <1>4 DEF Ranks
  <1>7. \A r \in Ranks : b[r] \in Nat
    <2> DEFINE C == {r \in Ranks : b[r] \notin Nat}
    <2> SUFFICES ASSUME C # {} PROVE FALSE
      OBVIOUS
    <2>1. PICK n \in C : \A m \in C : n <= m
      <3>1. C \subseteq Nat
        BY <1>0 DEF Ranks
      <3> HIDE DEF C
      <3> QED BY <3>1, SmallestNumber
    <2>2. n # 1
      BY <1>5, <2>1
    <2>3. n - 1 \in 1 .. MaxRank - 1 /\ (n - 1) + 1 = n /\ n - 1 \in Ranks
      BY <1>0, <2>1, <2>2 DEF Ranks
    <2>4. b[n - 1] \in Nat /\ g[n - 1] \in Nat
      BY <2>1, <2>3
    <2> QED BY <1>6, <2>1, <2>3, <2>4
  <1>8. b \in [Ranks -> Nat]
    BY <1>4, <1>7
  <1> QED BY <1>5, <1>6, <1>8 DEF b

\* Points and bonuses below a rank are those of one rank less and its own.
LEMMA BelowRanks ==
  /\ PointsBelow \in [Ranks -> Nat] /\ PointsBelow[1] = 0
  /\ \A r \in 1 .. MaxRank - 1 : PointsBelow[r + 1] = PointsBelow[r] + PointsForRank[r]
  /\ BonusBelow \in [Ranks -> Nat] /\ BonusBelow[1] = 0
  /\ \A r \in 1 .. MaxRank - 1 : BonusBelow[r + 1] = BonusBelow[r] + RankBonus[r]
  <1>1. PointsBelow = Below(PointsForRank) /\ BonusBelow = Below(RankBonus)
    BY DEF PointsBelow, BonusBelow, Below, Ranks
  <1>2. /\ \A r \in 1 .. MaxRank - 1 : PointsForRank[r] \in Nat
        /\ \A r \in 1 .. MaxRank - 1 : RankBonus[r] \in Nat
    BY RankAssumption
  <1> QED BY <1>1, <1>2, BelowAdds

----------------------------------------------------------------------------
(* The loop that climbs. *)

\* The experience of a point turned into it, and a rank completed.
More(s) == [s EXCEPT !.exp = @ - ExpForPoint[s.rank], !.point = @ + 1, !.rankExp = @ + 1]
Up(s) == [More(s) EXCEPT !.rank = @ + 1, !.rankExp = 0, !.stat = @ + RankBonus[s.rank]]

\* One turn of the loop, with f for the turns after it.
Turn(f, s) ==
    IF s.exp < ExpForPoint[s.rank] THEN s
    ELSE IF More(s).rankExp < PointsForRank[s.rank] THEN f[More(s)]
    ELSE IF s.rank >= MaxRank THEN [More(s) EXCEPT !.exp = 0]
    ELSE IF s.rank >= s.limit THEN [s EXCEPT !.exp = ExpForPoint[s.rank]]
    ELSE f[Up(s)]

\* The loop is its own solution.
LEMMA ClimbIsChosen == Climb = CHOOSE f : f = [s \in Climbing |-> Turn(f, s)]
  BY DEF Climb, Turn, More, Up

\* A turn that goes on does so with less experience.
LEMMA MoreIsLess ==
  ASSUME NEW s \in Climbing, s.exp >= ExpForPoint[s.rank]
  PROVE  /\ More(s) \in Climbing /\ More(s).exp < s.exp
         /\ More(s).exp = s.exp - ExpForPoint[s.rank] /\ More(s).point = s.point + 1
         /\ More(s).rankExp = s.rankExp + 1 /\ More(s).rank = s.rank
         /\ More(s).stat = s.stat /\ More(s).limit = s.limit
  <1>1. s.rank \in 1 .. MaxRank /\ ExpForPoint[s.rank] \in Nat \ {0}
    BY RankAssumption DEF Climbing
  <1>2. /\ s.exp \in Nat /\ s.point \in Nat /\ s.rankExp \in Nat /\ s.stat \in Nat
        /\ s.limit \in 1 .. MaxRank
    BY DEF Climbing
  <1>3. PICK e : e = s.exp - ExpForPoint[s.rank]
    OBVIOUS
  <1>4. e \in Nat /\ e < s.exp /\ s.point + 1 \in Nat /\ s.rankExp + 1 \in Nat
    BY <1>1, <1>2, <1>3
  <1>5. PICK m : m = [s EXCEPT !.exp = e, !.point = s.point + 1, !.rankExp = s.rankExp + 1]
    OBVIOUS
  <1>6. m = More(s)
    BY <1>3, <1>5 DEF More, Climbing
  <1>7. /\ m.exp = e /\ m.point = s.point + 1
        /\ m.rankExp = s.rankExp + 1 /\ m.rank = s.rank
        /\ m.stat = s.stat /\ m.limit = s.limit
    BY <1>5 DEF Climbing
  <1>8. m \in Climbing
    BY <1>1, <1>2, <1>4, <1>5 DEF Climbing
  <1> QED BY <1>3, <1>4, <1>6, <1>7, <1>8

\* A rank up costs experience: the loop of addSkillExperienceForType comes to an end.
LEMMA UpIsLess ==
  ASSUME NEW s \in Climbing, s.exp >= ExpForPoint[s.rank], s.rank < MaxRank
  PROVE  /\ Up(s) \in Climbing /\ Up(s).exp < s.exp
         /\ Up(s).exp = s.exp - ExpForPoint[s.rank] /\ Up(s).point = s.point + 1
         /\ Up(s).rankExp = 0 /\ Up(s).rank = s.rank + 1
         /\ Up(s).stat = s.stat + RankBonus[s.rank] /\ Up(s).limit = s.limit
  <1>1. PICK m : m = More(s)
    OBVIOUS
  <1>2. /\ m \in Climbing /\ m.exp < s.exp
        /\ m.exp = s.exp - ExpForPoint[s.rank] /\ m.point = s.point + 1
        /\ m.rankExp = s.rankExp + 1 /\ m.rank = s.rank
        /\ m.stat = s.stat /\ m.limit = s.limit
    BY <1>1, MoreIsLess
  <1>3. s.rank \in 1 .. MaxRank - 1 /\ RankBonus[s.rank] \in Nat /\ MaxRank \in Nat
    <2>1. s.rank \in 1 .. MaxRank /\ MaxRank \in Nat
      BY RankAssumption DEF Climbing
    <2>2. s.rank \in 1 .. MaxRank - 1
      BY <2>1
    <2> QED BY <2>1, <2>2, RankAssumption
  <1>4. PICK u : u = [m EXCEPT !.rank = m.rank + 1, !.rankExp = 0, !.stat = m.stat + RankBonus[s.rank]]
    OBVIOUS
  <1>5. u = Up(s)
    BY <1>1, <1>2, <1>4 DEF Up, Climbing
  <1>6. /\ m.rank + 1 \in 1 .. MaxRank /\ m.stat + RankBonus[s.rank] \in Nat /\ 0 \in Nat
        /\ m.exp \in Nat /\ m.point \in Nat /\ m.limit \in 1 .. MaxRank
    BY <1>2, <1>3 DEF Climbing
  <1>7. /\ u \in Climbing /\ u.exp = m.exp /\ u.point = m.point /\ u.rankExp = 0
        /\ u.rank = m.rank + 1 /\ u.stat = m.stat + RankBonus[s.rank] /\ u.limit = m.limit
    BY <1>2, <1>4, <1>6 DEF Climbing
  <1> QED BY <1>2, <1>5, <1>7

\* A turn depends on the later turns only where there is less experience.
LEMMA TurnSees ==
  ASSUME NEW s \in Climbing, NEW f, NEW g,
         \A u \in Climbing : u.exp < s.exp => f[u] = g[u]
  PROVE  Turn(f, s) = Turn(g, s)
  <1>0. /\ s.exp \in Nat /\ s.rank \in 1 .. MaxRank /\ s.rankExp \in Nat
        /\ ExpForPoint[s.rank] \in Nat /\ MaxRank \in Nat
    BY RankAssumption DEF Climbing
  <1>1. s.exp >= ExpForPoint[s.rank] => f[More(s)] = g[More(s)]
    BY MoreIsLess
  <1>2. s.exp >= ExpForPoint[s.rank] /\ s.rank < MaxRank => f[Up(s)] = g[Up(s)]
    BY UpIsLess
  <1> QED BY <1>0, <1>1, <1>2 DEF Turn

\* One turn of the loop keeps the types.
LEMMA TurnTypes ==
  ASSUME NEW s \in Climbing, NEW f,
         \A u \in Climbing : u.exp < s.exp => f[u] \in Climbing
  PROVE  Turn(f, s) \in Climbing
  <1>0. /\ s.exp \in Nat /\ s.rank \in 1 .. MaxRank /\ s.rankExp \in Nat
        /\ ExpForPoint[s.rank] \in Nat /\ MaxRank \in Nat
    BY RankAssumption DEF Climbing
  <1>1. s.exp >= ExpForPoint[s.rank] => f[More(s)] \in Climbing /\ More(s) \in Climbing
    BY MoreIsLess
  <1>2. s.exp >= ExpForPoint[s.rank] /\ s.rank < MaxRank => f[Up(s)] \in Climbing
    BY UpIsLess
  <1>3. \A u \in Climbing, n \in Nat : [u EXCEPT !.exp = n] \in Climbing
    BY DEF Climbing
  <1> QED BY <1>0, <1>1, <1>2, <1>3 DEF Turn

\* The states of the loop with less experience than n, and a solution on them.
Part(n) == {s \in Climbing : s.exp < n}
Solves(f, n) == f \in [Part(n) -> Climbing] /\ \A s \in Part(n) : f[s] = Turn(f, s)

\* Two functions that follow the loop give the same result.
LEMMA SolutionsAgree ==
  ASSUME NEW m \in Nat, NEW n \in Nat, m <= n, NEW f, NEW g, Solves(f, m), Solves(g, n)
  PROVE  \A s \in Part(m) : f[s] = g[s]
  <1> DEFINE B == {e \in Nat : \E s \in Part(m) : s.exp = e /\ f[s] # g[s]}
  <1> SUFFICES ASSUME B # {} PROVE FALSE
    BY DEF Part, Climbing
  <1>1. PICK e \in B : \A d \in B : e <= d
    <2>1. B \subseteq Nat
      OBVIOUS
    <2> HIDE DEF B
    <2> QED BY <2>1, SmallestNumber
  <1>2. PICK s \in Part(m) : s.exp = e /\ f[s] # g[s]
    BY <1>1
  <1>3. ASSUME NEW u \in Climbing, u.exp < s.exp
        PROVE  f[u] = g[u]
    <2>1. u.exp \in Nat /\ e \in Nat /\ e < m
      BY <1>2 DEF Part, Climbing
    <2>2. u \in Part(m) /\ ~ (e <= u.exp)
      BY <1>2, <1>3, <2>1 DEF Part
    <2>3. u.exp \notin B
      <3> HIDE DEF B
      <3> QED BY <1>1, <2>2
    <2> QED BY <2>1, <2>2, <2>3
  <1>4. s \in Climbing /\ s \in Part(n)
    BY DEF Part, Climbing
  <1>5. Turn(f, s) = Turn(g, s)
    BY <1>3, <1>4, TurnSees
  <1>6. f[s] = Turn(f, s) /\ g[s] = Turn(g, s)
    BY <1>2, <1>4 DEF Solves
  <1> QED BY <1>2, <1>5, <1>6

\* There is a function that follows the loop, up to any experience.
LEMMA SolutionExists ==
  ASSUME NEW n \in Nat
  PROVE  \E f : Solves(f, n)
  <1> DEFINE B == {k \in Nat : ~ \E f : Solves(f, k)}
  <1> SUFFICES ASSUME B # {} PROVE FALSE
    OBVIOUS
  <1>1. PICK k \in B : \A j \in B : k <= j
    <2>1. B \subseteq Nat
      OBVIOUS
    <2> HIDE DEF B
    <2> QED BY <2>1, SmallestNumber
  <1>2. CASE k = 0
    <2>1. Part(0) = {}
      BY DEF Part, Climbing
    <2> DEFINE f == [s \in Part(0) |-> s]
    <2>2. Solves(f, 0)
      BY <2>1 DEF Solves
    <2> QED BY <1>1, <1>2, <2>2
  <1>3. CASE k # 0
    <2>1. k - 1 \in Nat /\ k - 1 \notin B
      <3>1. k \in Nat /\ k - 1 \in Nat /\ ~ (k <= k - 1)
        BY <1>3
      <3> HIDE DEF B
      <3> QED BY <1>1, <3>1
    <2>2. PICK f : Solves(f, k - 1)
      BY <2>1
    <2> DEFINE g == [s \in Part(k) |-> Turn(f, s)]
    <2>3. ASSUME NEW s \in Part(k), NEW u \in Climbing, u.exp < s.exp
          PROVE  u \in Part(k - 1) /\ u \in Part(k)
      <3>1. s.exp \in Nat /\ u.exp \in Nat /\ s.exp < k /\ k \in Nat
        BY DEF Part, Climbing
      <3> QED BY <2>3, <3>1 DEF Part
    <2>4. ASSUME NEW s \in Part(k)
          PROVE  Turn(f, s) \in Climbing
      <3>1. s \in Climbing /\ \A u \in Climbing : u.exp < s.exp => f[u] \in Climbing
        BY <2>2, <2>3 DEF Solves, Part
      <3> QED BY <3>1, TurnTypes
    <2>5. ASSUME NEW s \in Part(k)
          PROVE  Turn(f, s) = Turn(g, s)
      <3>1. \A u \in Climbing : u.exp < s.exp => f[u] = g[u]
        <4> SUFFICES ASSUME NEW u \in Climbing, u.exp < s.exp PROVE f[u] = g[u]
          OBVIOUS
        <4>1. u \in Part(k - 1) /\ u \in Part(k)
          BY <2>3
        <4>2. g[u] = Turn(f, u)
          BY <4>1
        <4>3. f[u] = Turn(f, u)
          BY <2>2, <4>1 DEF Solves
        <4> QED BY <4>2, <4>3
      <3>2. s \in Climbing
        BY DEF Part
      <3> HIDE DEF g
      <3> QED BY <3>1, <3>2, TurnSees
    <2>6. g \in [Part(k) -> Climbing] /\ \A s \in Part(k) : g[s] = Turn(f, s)
      BY <2>4
    <2> HIDE DEF g
    <2>7. Solves(g, k)
      BY <2>5, <2>6 DEF Solves
    <2> QED BY <1>1, <2>7
  <1> QED BY <1>2, <1>3

\* The loop does what its turns do, and stays in its states.
LEMMA ClimbTurns ==
  /\ \A s \in Climbing : Climb[s] = Turn(Climb, s)
  /\ \A s \in Climbing : Climb[s] \in Climbing
  <1> DEFINE F(n) == CHOOSE f : Solves(f, n)
             C == [s \in Climbing |-> F(s.exp + 1)[s]]
  <1>1. ASSUME NEW n \in Nat PROVE Solves(F(n), n)
    BY SolutionExists
  <1> HIDE DEF F
  <1>2. ASSUME NEW s \in Climbing
        PROVE  C[s] = Turn(C, s)
    <2>1. s.exp \in Nat /\ s.exp + 1 \in Nat /\ s \in Part(s.exp + 1)
      BY DEF Climbing, Part
    <2>2. C[s] = F(s.exp + 1)[s] /\ F(s.exp + 1)[s] = Turn(F(s.exp + 1), s)
      BY <1>1, <2>1 DEF Solves
    <2>3. ASSUME NEW u \in Climbing, u.exp < s.exp
          PROVE  F(s.exp + 1)[u] = C[u]
      <3>1. u.exp \in Nat /\ u.exp + 1 \in Nat /\ u \in Part(u.exp + 1) /\ u.exp + 1 <= s.exp + 1
        BY <2>1, <2>3 DEF Climbing, Part
      <3>2. Solves(F(u.exp + 1), u.exp + 1) /\ Solves(F(s.exp + 1), s.exp + 1)
        BY <1>1, <2>1, <3>1
      <3>3. F(u.exp + 1)[u] = F(s.exp + 1)[u]
        BY <2>1, <3>1, <3>2, SolutionsAgree
      <3> QED BY <3>3
    <2>4. Turn(F(s.exp + 1), s) = Turn(C, s)
      <3> HIDE DEF C
      <3> QED BY <2>3, TurnSees
    <2> QED BY <2>2, <2>4
  <1>3. C = [s \in Climbing |-> Turn(C, s)]
    <2>1. C = [s \in Climbing |-> C[s]]
      OBVIOUS
    <2> HIDE DEF C
    <2> QED BY <1>2, <2>1
  <1>4. Climb = [s \in Climbing |-> Turn(Climb, s)]
    <2> HIDE DEF C
    <2> QED BY <1>3, ClimbIsChosen
  <1>5. \A s \in Climbing : Climb[s] = Turn(Climb, s)
    BY <1>4
  <1>6. \A s \in Climbing : Climb[s] \in Climbing
    <2> DEFINE B == {e \in Nat : \E s \in Climbing : s.exp = e /\ Climb[s] \notin Climbing}
    <2> SUFFICES ASSUME B # {} PROVE FALSE
      BY DEF Climbing
    <2>1. PICK e \in B : \A d \in B : e <= d
      <3>1. B \subseteq Nat
        OBVIOUS
      <3> HIDE DEF B
      <3> QED BY <3>1, SmallestNumber
    <2>2. PICK s \in Climbing : s.exp = e /\ Climb[s] \notin Climbing
      BY <2>1
    <2>3. ASSUME NEW u \in Climbing, u.exp < s.exp
          PROVE  Climb[u] \in Climbing
      <3>1. u.exp \in Nat /\ e \in Nat /\ ~ (e <= u.exp)
        BY <2>2, <2>3 DEF Climbing
      <3>2. u.exp \notin B
        <4> HIDE DEF B
        <4> QED BY <2>1, <3>1
      <3> QED BY <3>1, <3>2
    <2> QED BY <1>5, <2>2, <2>3, TurnTypes
  <1> QED BY <1>5, <1>6

\* A bar that is not full, and what the loop makes of it: no rank above the
\* limit, points and bonuses for exactly the ranks that were climbed.
Ready(s) == s \in Climbing /\ s.rank <= s.limit /\ s.rankExp < PointsForRank[s.rank]
Climbs(s, e) ==
    /\ e.rank >= s.rank /\ e.rank <= s.limit /\ e.point >= s.point
    /\ e.point + PointsBelow[s.rank] + s.rankExp = s.point + PointsBelow[e.rank] + e.rankExp
    /\ e.stat + BonusBelow[s.rank] = s.stat + BonusBelow[e.rank]
    /\ e.exp <= ExpForPoint[e.rank]
    /\ e.rankExp < PointsForRank[e.rank] \/ e.rank = MaxRank

\* The types of a state of the loop and of what the tables hold for its rank.
LEMMA ClimbingTypes ==
  ASSUME NEW s \in Climbing
  PROVE  /\ s.exp \in Nat /\ s.point \in Nat /\ s.rankExp \in Nat /\ s.stat \in Nat
         /\ MaxRank \in Nat /\ s.rank \in Nat /\ 1 <= s.rank /\ s.rank <= MaxRank
         /\ s.limit \in Nat /\ 1 <= s.limit /\ s.limit <= MaxRank
         /\ ExpForPoint[s.rank] \in Nat /\ ExpForPoint[s.rank] > 0
         /\ PointsForRank[s.rank] \in Nat /\ PointsForRank[s.rank] > 0
         /\ PointsBelow[s.rank] \in Nat /\ BonusBelow[s.rank] \in Nat
  <1>1. s.rank \in 1 .. MaxRank /\ s.limit \in 1 .. MaxRank /\ MaxRank \in Nat
    BY RankAssumption DEF Climbing
  <1>2. /\ ExpForPoint[s.rank] \in Nat \ {0} /\ PointsForRank[s.rank] \in Nat \ {0}
        /\ PointsBelow[s.rank] \in Nat /\ BonusBelow[s.rank] \in Nat
    BY <1>1, RankAssumption, BelowRanks DEF Ranks
  <1> QED BY <1>1, <1>2 DEF Climbing

\* What the whole loop returns.
LEMMA ClimbResult ==
  ASSUME NEW s, Ready(s)
  PROVE  Climb[s] \in Climbing /\ Climbs(s, Climb[s])
  <1> DEFINE B == {e \in Nat : \E u : Ready(u) /\ u.exp = e /\ ~ Climbs(u, Climb[u])}
  <1>1. B = {}
    <2> SUFFICES ASSUME B # {} PROVE FALSE
      OBVIOUS
    <2>1. PICK e \in B : \A d \in B : e <= d
      <3>1. B \subseteq Nat
        OBVIOUS
      <3> HIDE DEF B
      <3> QED BY <3>1, SmallestNumber
    <2>2. PICK v : Ready(v) /\ v.exp = e /\ ~ Climbs(v, Climb[v])
      BY <2>1
    <2>3. ASSUME NEW u, Ready(u), u.exp < v.exp
          PROVE  Climbs(u, Climb[u])
      <3>1. u.exp \in Nat /\ e \in Nat /\ ~ (e <= u.exp)
        BY <2>2, <2>3 DEF Climbing, Ready
      <3>2. u.exp \notin B
        <4> HIDE DEF B
        <4> QED BY <2>1, <3>1
      <3> QED BY <2>3, <3>1, <3>2
    <2> HIDE DEF B
    <2>4. v \in Climbing /\ v.rank <= v.limit /\ v.rankExp < PointsForRank[v.rank]
      BY <2>2 DEF Ready
    <2>5. /\ v.exp \in Nat /\ v.point \in Nat /\ v.rankExp \in Nat /\ v.stat \in Nat
          /\ MaxRank \in Nat /\ v.rank \in Nat /\ 1 <= v.rank /\ v.rank <= MaxRank
          /\ v.limit \in Nat /\ 1 <= v.limit /\ v.limit <= MaxRank
          /\ ExpForPoint[v.rank] \in Nat /\ ExpForPoint[v.rank] > 0
          /\ PointsForRank[v.rank] \in Nat /\ PointsForRank[v.rank] > 0
          /\ PointsBelow[v.rank] \in Nat /\ BonusBelow[v.rank] \in Nat
      BY <2>4, ClimbingTypes
    <2>6. Climb[v] = Turn(Climb, v)
      BY <2>4, ClimbTurns
    <2>7. CASE v.exp < ExpForPoint[v.rank]
      <3>1. Climb[v] = v
        BY <2>6, <2>7 DEF Turn
      <3> QED BY <2>2, <2>4, <2>5, <2>7, <3>1 DEF Climbs
    <2>8. CASE ~ (v.exp < ExpForPoint[v.rank])
      <3> DEFINE m == More(v)
                 n == Climb[m]
                 u == Up(v)
                 w == Climb[u]
      <3>0. v.exp >= ExpForPoint[v.rank]
        BY <2>5, <2>8
      <3>1. /\ m \in Climbing /\ m.exp < v.exp
            /\ m.exp = v.exp - ExpForPoint[v.rank] /\ m.point = v.point + 1
            /\ m.rankExp = v.rankExp + 1 /\ m.rank = v.rank
            /\ m.stat = v.stat /\ m.limit = v.limit
        BY <2>4, <3>0, MoreIsLess
      <3>2. CASE m.rankExp < PointsForRank[v.rank]
        <4>1. Climb[v] = n
          BY <2>6, <2>8, <3>2 DEF Turn
        <4>2. Ready(m)
          BY <2>4, <3>1, <3>2 DEF Ready
        <4>3. Climbs(m, n) /\ n \in Climbing
          BY <2>3, <3>1, <4>2, ClimbTurns
        <4> HIDE DEF m, n, u, w
        <4>4. /\ n.point \in Nat /\ n.rankExp \in Nat /\ n.stat \in Nat /\ n.rank \in Nat
              /\ PointsBelow[n.rank] \in Nat /\ BonusBelow[n.rank] \in Nat
          BY <4>3, ClimbingTypes
        <4>5. Climbs(v, n)
          BY <2>5, <3>1, <4>3, <4>4 DEF Climbs
        <4> QED BY <2>2, <4>1, <4>5
      <3>3. CASE ~ (m.rankExp < PointsForRank[v.rank])
        <4>1. v.rankExp + 1 = PointsForRank[v.rank]
          BY <2>4, <2>5, <3>1, <3>3
        <4>2. CASE v.rank >= MaxRank
          <5> DEFINE x == [m EXCEPT !.exp = 0]
          <5>1. Climb[v] = x
            BY <2>6, <2>8, <3>3, <4>2 DEF Turn
          <5> HIDE DEF m
          <5>2. /\ x.exp = 0 /\ x.point = m.point /\ x.rankExp = m.rankExp /\ x.rank = m.rank
                /\ x.stat = m.stat
            BY <3>1 DEF Climbing
          <5> HIDE DEF x
          <5>3. Climbs(v, x)
            BY <2>4, <2>5, <3>1, <4>2, <5>2 DEF Climbs
          <5> QED BY <2>2, <5>1, <5>3
        <4>3. CASE ~ (v.rank >= MaxRank) /\ v.rank >= v.limit
          <5> DEFINE x == [v EXCEPT !.exp = ExpForPoint[v.rank]]
          <5>1. Climb[v] = x
            BY <2>6, <2>8, <3>3, <4>3 DEF Turn
          <5>2. /\ x.exp = ExpForPoint[v.rank] /\ x.point = v.point /\ x.rankExp = v.rankExp
                /\ x.rank = v.rank /\ x.stat = v.stat
            BY <2>4 DEF Climbing
          <5> HIDE DEF x
          <5>3. Climbs(v, x)
            BY <2>4, <2>5, <5>2 DEF Climbs
          <5> QED BY <2>2, <5>1, <5>3
        <4>4. CASE ~ (v.rank >= MaxRank) /\ ~ (v.rank >= v.limit)
          <5>0. v.rank < MaxRank /\ v.rank + 1 <= v.limit /\ v.rank \in 1 .. MaxRank - 1
            BY <2>5, <4>4
          <5>1. Climb[v] = w
            BY <2>6, <2>8, <3>3, <4>4 DEF Turn
          <5>2. /\ u \in Climbing /\ u.exp < v.exp /\ u.point = v.point + 1
                /\ u.rankExp = 0 /\ u.rank = v.rank + 1
                /\ u.stat = v.stat + RankBonus[v.rank] /\ u.limit = v.limit
            BY <2>4, <3>0, <5>0, UpIsLess
          <5>3. Ready(u)
            BY <5>0, <5>2, ClimbingTypes DEF Ready
          <5>4. Climbs(u, w) /\ w \in Climbing
            BY <2>3, <5>2, <5>3, ClimbTurns
          <5>5. /\ PointsBelow[v.rank + 1] = PointsBelow[v.rank] + PointsForRank[v.rank]
                /\ BonusBelow[v.rank + 1] = BonusBelow[v.rank] + RankBonus[v.rank]
                /\ RankBonus[v.rank] \in Nat
            BY <5>0, BelowRanks, RankAssumption
          <5> HIDE DEF m, n, u, w
          <5>6. /\ w.point \in Nat /\ w.rankExp \in Nat /\ w.stat \in Nat /\ w.rank \in Nat
                /\ PointsBelow[w.rank] \in Nat /\ BonusBelow[w.rank] \in Nat
            BY <5>4, ClimbingTypes
          <5>7. Climbs(v, w)
            BY <2>5, <4>1, <5>0, <5>2, <5>4, <5>5, <5>6 DEF Climbs
          <5> QED BY <2>2, <5>1, <5>7
        <4> QED BY <4>2, <4>3, <4>4
      <3> QED BY <3>2, <3>3
    <2> QED BY <2>7, <2>8
  <1>2. s \in Climbing /\ s.exp \in Nat
    BY DEF Ready, Climbing
  <1>3. s.exp \notin B
    BY <1>1
  <1>4. Climbs(s, Climb[s])
    BY <1>2, <1>3
  <1> QED BY <1>2, <1>4, ClimbTurns

----------------------------------------------------------------------------
(* Types. *)

Progress == [exp : Nat, point : Nat, rankExp : Nat, rank : Ranks]
Links == {Skill, OtherSkill, None}
Rows == [exp : Nat, level : Levels, pnt : Nat, stat : Nat, cur : Nat, max : Nat,
         prog : [Types -> Progress], granted : SUBSET BattleSkills, skill : Nat, alz : Nat,
         links : [Slots -> Links]]

\* What SaveSkillExperience compares and sets.
Columns == [prog : [Types -> Progress], stat : Nat, cur : Nat, max : Nat]

Bonuses(prog) == BonusBelow[prog["sword"].rank] + BonusBelow[prog["magic"].rank]

\* A bar whose points are all accounted for.
Filled(p) ==
    /\ p.point = PointsBelow[p.rank] + p.rankExp
    /\ p.exp <= ExpForPoint[p.rank]
    /\ p.rankExp < PointsForRank[p.rank] \/ p.rank = MaxRank

\* The requests.  Those for experience ask for the level that the experience
\* gives, those for skill experience for ranks that were climbed from where
\* the copy was.
ExpReqs ==
    {r \in [call : {"SaveExperience"}, was : [exp : Nat, level : Levels],
            exp : Nat, level : Levels, points : Nat, max : Nat] :
        /\ r.exp >= r.was.exp
        /\ r.level = LevelForExperience(r.was.level, r.exp)
        /\ r.points = StatPoints * (r.level - r.was.level)}
SkillExpReqs ==
    {r \in [call : {"SaveSkillExperience"}, was : Columns, new : Columns] :
        /\ \A t \in Types : /\ Filled(r.new.prog[t])
                            /\ r.new.prog[t].point >= r.was.prog[t].point
                            /\ r.new.prog[t].rank >= r.was.prog[t].rank
        /\ r.new.stat + Bonuses(r.was.prog) = r.was.stat + Bonuses(r.new.prog)}
TrainReqs == [call : {"SaveSkill", "UntrainSkill"}, previous : Nat]
VitalsReqs == [call : {"SaveVitals"}, cur : Nat, max : Nat]
StatReqs == [call : {"SaveStat"}, pnt : Nat]
DistributionReqs == [call : {"SaveStatDistribution"}, pnt : Nat, points : Nat]
GrantReqs == [call : {"GrantBattleModeSkills"}, skills : SUBSET BattleSkills]
SetReqs == [call : {"QuickLinkSet"}, slot : Slots, link : Links]
RemoveReqs == [call : {"QuickLinkRemove"}, slot : Slots]
SwapReqs == [call : {"QuickLinkSwap"}, slot : Slots, to : Slots, old : Links, new : Links]

LockedReqs == ExpReqs \cup SkillExpReqs \cup TrainReqs
OtherReqs == VitalsReqs \cup StatReqs \cup DistributionReqs \cup GrantReqs
             \cup SetReqs \cup RemoveReqs \cup SwapReqs
Requests == LockedReqs \cup OtherReqs

\* The calls made while ctx.Mutex is held.
LockedCalls == {"SaveExperience", "SaveSkillExperience", "SaveSkill", "UntrainSkill"}

PlainAnswers == [ok : BOOLEAN]
StatAnswers == [ok : {TRUE}, stat : Nat, pnt : Nat]
GrantAnswers == [ok : {TRUE}, added : SUBSET BattleSkills, removed : SUBSET BattleSkills]
UntrainAnswers == [ok : {TRUE}, level : Nat, alz : Nat]
Answers == PlainAnswers \cup StatAnswers \cup GrantAnswers \cup UntrainAnswers

\* The answer that carries what its request is for.
Fits(r, res) ==
    /\ res \in Answers
    /\ res.ok =>
         /\ r.call \in {"SaveStat", "SaveStatDistribution"} => res \in StatAnswers
         /\ r.call = "GrantBattleModeSkills" => res \in GrantAnswers
         /\ r.call = "UntrainSkill" => res \in UntrainAnswers

Steps == {"exp", "sword", "magic", "vitals", "grant"} \X Nat
Stages == {"idle", "ready", "sent", "done"}
Calls == [todo : Seq(Steps), st : Stages, req : Requests \cup {None}, res : Answers \cup {None}]

\* The type of the state.
TypeOK ==
    /\ db \in Rows /\ game \in Rows
    /\ lock \in Handlers \cup {None} /\ linkLock \in Handlers \cup {None}
    /\ run \in [Handlers -> Calls]
    /\ late \subseteq Requests /\ fails \in Nat

----------------------------------------------------------------------------
(* The invariant. *)

\* A call under way has a request, an answered one an answer that fits.
Called(c) ==
    /\ c.st # "idle" => c.req \in Requests
    /\ c.st = "ready" => c.req \in SwapReqs
    /\ c.st = "done" => Fits(c.req, c.res)
CallsOK == \A h \in Handlers : Called(run[h])

\* The handler that holds the mutex is the one in a call that needs it, and
\* its request for experience starts from what the copy still is.
Locking(c) == c.st \in {"sent", "done"} /\ c.req.call \in LockedCalls
Held == \A h \in Handlers : lock = h <=> Locking(run[h])
Asked(c, r) == r.call = "SaveExperience" => r.was.exp = c.exp /\ r.was.level = c.level
HolderAsked == \A h \in Handlers : lock = h => Asked(game, run[h].req)

\* No request, late ones included, asks for a rank that the level of the copy
\* does not allow.
Allowed(level, r) ==
    r.call = "SaveSkillExperience" =>
        \A t \in Types : r.new.prog[t].rank <= SkillRankLimitFor(level)
AllAllowed ==
    /\ \A r \in late : Allowed(game.level, r)
    /\ \A h \in Handlers : run[h].st # "idle" => Allowed(game.level, run[h].req)

\* The copy is behind the row, and so is what it is about to learn.
Ahead(d, r, res) == res.ok /\ r.call = "SaveExperience" => r.exp <= d.exp /\ r.level <= d.level
Behind ==
    /\ game.exp <= db.exp /\ game.level <= db.level
    /\ \A h \in Handlers : run[h].st = "done" => Ahead(db, run[h].req, run[h].res)

\* What only changes under the mutex is the same.
Agree(c, d) ==
    /\ c.exp = d.exp /\ c.level = d.level /\ c.prog = d.prog /\ c.skill = d.skill /\ c.alz = d.alz

\* The row d is what the copy c will be after the answer to r.
AgreeAfter(c, d, r, res) ==
    /\ r.call = "SaveExperience" =>
         d.exp = r.exp /\ d.level = r.level /\ c.prog = d.prog /\ c.skill = d.skill /\ c.alz = d.alz
    /\ r.call = "SaveSkillExperience" =>
         c.exp = d.exp /\ c.level = d.level /\ d.prog = r.new.prog /\ c.skill = d.skill /\ c.alz = d.alz
    /\ r.call = "SaveSkill" =>
         /\ c.exp = d.exp /\ c.level = d.level /\ c.prog = d.prog
         /\ d.skill = r.previous + 1 /\ c.alz = d.alz
    /\ r.call = "UntrainSkill" =>
         /\ c.exp = d.exp /\ c.level = d.level /\ c.prog = d.prog
         /\ d.skill = res.level /\ d.alz = res.alz

\* How the copy and the row differ for the handler that holds the mutex.
Differs(c, d, x) ==
    IF x.st = "done" /\ x.res.ok THEN AgreeAfter(c, d, x.req, x.res) ELSE Agree(c, d)
Agreement ==
    fails = 0 =>
        /\ late = {}
        /\ lock = None => Agree(game, db)
        /\ \A h \in Handlers : lock = h => Differs(game, db, run[h])

\* The inductive invariant.
GrowthInv ==
    /\ TypeOK /\ CallsOK /\ Held /\ HolderAsked /\ AllAllowed /\ Behind
    /\ PointsEarned(db) /\ RanksEarned(db) /\ RanksEarned(game)
    /\ Agreement

----------------------------------------------------------------------------
(* Rows. *)

\* The types of the columns of a row.
LEMMA RowTypes ==
  ASSUME NEW d \in Rows
  PROVE  /\ d.exp \in Nat /\ d.level \in Levels /\ d.level \in Nat /\ d.pnt \in Nat /\ d.stat \in Nat
         /\ d.cur \in Nat /\ d.max \in Nat /\ d.prog \in [Types -> Progress]
         /\ d.granted \in SUBSET BattleSkills /\ d.skill \in Nat /\ d.alz \in Nat
         /\ d.links \in [Slots -> Links]
  BY TableAssumption DEF Rows, Levels, TopLevel

\* The parts of the progress of the two types of skills.
LEMMA ProgressTypes ==
  ASSUME NEW prog \in [Types -> Progress]
  PROVE  /\ Bonuses(prog) \in Nat
         /\ \A t \in Types : /\ prog[t] \in Progress /\ prog[t].exp \in Nat /\ prog[t].point \in Nat
                             /\ prog[t].rankExp \in Nat /\ prog[t].rank \in Ranks /\ prog[t].rank \in Nat
  <1>1. \A t \in Types : /\ prog[t] \in Progress /\ prog[t].exp \in Nat /\ prog[t].point \in Nat
                         /\ prog[t].rankExp \in Nat /\ prog[t].rank \in Ranks
    BY DEF Progress
  <1>2. "sword" \in Types /\ "magic" \in Types
    BY DEF Types
  <1>3. \A r \in Ranks : r \in Nat /\ BonusBelow[r] \in Nat
    BY BelowRanks, RankAssumption DEF Ranks
  <1> QED BY <1>1, <1>2, <1>3 DEF Bonuses

\* What is earned, without the operators it is defined with.
LEMMA EarnedMeans ==
  ASSUME NEW c
  PROVE  /\ PointsEarned(c) <=> c.stat + c.pnt = BaseStat + StatPoints * (c.level - 1) + Bonuses(c.prog)
         /\ RanksEarned(c) <=>
                /\ c.level = LevelForExperience(1, c.exp)
                /\ \A t \in Types : c.prog[t].rank <= SkillRankLimitFor(c.level) /\ Filled(c.prog[t])
  BY DEF PointsEarned, RanksEarned, Sum, bonusBelow, Bonuses, Filled

\* Nothing earned is taken back.
Further(d, e) ==
    /\ e.exp >= d.exp /\ e.level >= d.level
    /\ \A t \in Types : e.prog[t].point >= d.prog[t].point /\ e.prog[t].rank >= d.prog[t].rank

\* What is earned depends on the columns of the mutex, and on the sum of the
\* stat points.
LEMMA AgreeEarns ==
  ASSUME NEW d \in Rows, NEW e \in Rows, Agree(e, d)
  PROVE  /\ Further(d, e)
         /\ RanksEarned(d) => RanksEarned(e)
         /\ (e.stat + e.pnt = d.stat + d.pnt /\ PointsEarned(d)) => PointsEarned(e)
  <1>1. e.exp = d.exp /\ e.level = d.level /\ e.prog = d.prog
    BY DEF Agree
  <1>2. Further(d, e)
    BY <1>1, RowTypes, ProgressTypes DEF Further
  <1>3. RanksEarned(d) => RanksEarned(e)
    BY <1>1, EarnedMeans
  <1>4. (e.stat + e.pnt = d.stat + d.pnt /\ PointsEarned(d)) => PointsEarned(e)
    BY <1>1, EarnedMeans
  <1> QED BY <1>2, <1>3, <1>4

\* Agreement of two rows is transitive and symmetric.
LEMMA AgreeSteps ==
  ASSUME NEW a, NEW b, NEW c, Agree(a, b), Agree(b, c)
  PROVE  Agree(a, c) /\ Agree(b, a)
  BY DEF Agree

----------------------------------------------------------------------------
(* What the master server makes of a request. *)

Keeps(d, r, out) ==
    /\ out.row \in Rows /\ Fits(r, out.res) /\ Further(d, out.row)
    /\ ~ out.res.ok => out.row = d
    /\ PointsEarned(d) => PointsEarned(out.row)
    /\ (RanksEarned(d) /\ Allowed(d.level, r)) => RanksEarned(out.row)
    /\ r.call \notin LockedCalls => Agree(out.row, d)
    /\ (r.call \in LockedCalls /\ out.res.ok) =>
           \A c : Agree(c, d) => AgreeAfter(c, out.row, r, out.res)
    /\ Ahead(out.row, r, out.res)

\* A rejected request leaves the row alone.
LEMMA RejectedKeeps ==
  ASSUME NEW d \in Rows, NEW r
  PROVE  Keeps(d, r, Rejected(d))
  <1>1. Rejected(d).row = d /\ Rejected(d).res = [ok |-> FALSE] /\ Rejected(d).res.ok = FALSE
    BY DEF Rejected
  <1>2. Rejected(d).res \in Answers
    BY <1>1 DEF Answers, PlainAnswers
  <1>3. Agree(d, d)
    BY DEF Agree
  <1>4. Further(d, d)
    BY <1>3, AgreeEarns
  <1> HIDE DEF Rejected
  <1> QED BY <1>1, <1>2, <1>3, <1>4 DEF Keeps, Fits, Ahead

\* The answer to a request that was served.
LEMMA DoneIs ==
  ASSUME NEW d
  PROVE  Done(d).row = d /\ Done(d).res = [ok |-> TRUE] /\ Done(d).res.ok = TRUE /\ Done(d).res \in Answers
  BY DEF Done, Answers, PlainAnswers

\* A call that leaves the columns of the mutex and the sum of the points alone.
LEMMA OtherKeeps ==
  ASSUME NEW d \in Rows, NEW r, r.call \notin LockedCalls, NEW out, out.row \in Rows,
         Fits(r, out.res), out.res.ok, Agree(out.row, d),
         out.row.stat + out.row.pnt = d.stat + d.pnt
  PROVE  Keeps(d, r, out)
  <1>1. r.call # "SaveExperience"
    BY DEF LockedCalls
  <1>2. PICK e : e = out.row
    OBVIOUS
  <1>3. Further(d, e) /\ (RanksEarned(d) => RanksEarned(e)) /\ (PointsEarned(d) => PointsEarned(e))
    BY <1>2, AgreeEarns
  <1> QED BY <1>1, <1>2, <1>3 DEF Keeps, Ahead

\* SaveExperience.
LEMMA ExperienceKeeps ==
  ASSUME NEW d \in Rows, NEW r \in ExpReqs
  PROVE  Keeps(d, r, SaveExperience(d, r))
  <1>1. /\ r.call = "SaveExperience" /\ r.was.exp \in Nat /\ r.was.level \in Levels
        /\ r.exp \in Nat /\ r.level \in Levels /\ r.points \in Nat /\ r.max \in Nat
        /\ r.exp >= r.was.exp /\ r.level = LevelForExperience(r.was.level, r.exp)
        /\ r.points = StatPoints * (r.level - r.was.level)
    BY DEF ExpReqs
  <1>2. CASE ~ (d.exp = r.was.exp /\ d.level = r.was.level)
    BY <1>2, RejectedKeeps DEF SaveExperience
  <1>3. CASE d.exp = r.was.exp /\ d.level = r.was.level
    <2> DEFINE e == Experienced(d, r)
    <2>1. SaveExperience(d, r) = Done(e)
      BY <1>3 DEF SaveExperience
    <2>2. PICK full : full = IF r.max # 0 THEN [d EXCEPT !.cur = r.max, !.max = r.max] ELSE d
      OBVIOUS
    <2>3. /\ full \in Rows /\ full.pnt = d.pnt /\ full.stat = d.stat /\ full.prog = d.prog
          /\ full.skill = d.skill /\ full.alz = d.alz
      <3>1. CASE r.max # 0
        <4>1. full = [d EXCEPT !.cur = r.max, !.max = r.max]
          BY <2>2, <3>1
        <4> QED BY <1>1, <4>1 DEF Rows
      <3>2. CASE r.max = 0
        BY <2>2, <3>2
      <3> QED BY <3>1, <3>2
    <2>4. d.pnt \in Nat /\ d.pnt + r.points \in Nat /\ full.pnt + r.points = d.pnt + r.points
      BY <1>1, <2>3, RowTypes
    <2>5. e = [full EXCEPT !.exp = r.exp, !.level = r.level, !.pnt = full.pnt + r.points]
      BY <2>2, <2>3 DEF Experienced, Rows
    <2>6. /\ e \in Rows /\ e.exp = r.exp /\ e.level = r.level /\ e.pnt = d.pnt + r.points
          /\ e.stat = d.stat /\ e.prog = d.prog /\ e.skill = d.skill /\ e.alz = d.alz
      <3> HIDE DEF e
      <3> QED BY <1>1, <2>3, <2>4, <2>5 DEF Rows
    <2> HIDE DEF e
    <2>7. r.level >= r.was.level
      BY <1>1, LevelIsReached
    <2>8. Further(d, e)
      BY <1>1, <1>3, <2>6, <2>7, RowTypes, ProgressTypes DEF Further
    <2>9. PointsEarned(d) => PointsEarned(e)
      <3>1. /\ StatPoints \in Nat /\ BaseStat \in Nat /\ d.level \in Nat /\ r.level \in Nat
            /\ d.stat \in Nat /\ d.pnt \in Nat /\ Bonuses(d.prog) \in Nat
        <4>1. StatPoints \in Nat /\ BaseStat \in Nat
          BY TableAssumption, StartAssumption
        <4>2. d.level \in Nat /\ d.stat \in Nat /\ d.pnt \in Nat /\ d.prog \in [Types -> Progress]
          BY RowTypes
        <4>3. Bonuses(d.prog) \in Nat
          BY <4>2, ProgressTypes
        <4>4. r.level \in Levels
          BY <1>1
        <4> QED BY <4>1, <4>2, <4>3, <4>4 DEF Levels
      <3>2. r.points = StatPoints * (r.level - d.level)
        BY <1>1, <1>3
      <3>3. StatPoints * (d.level - 1) + StatPoints * (r.level - d.level) = StatPoints * (r.level - 1)
        BY <3>1
      <3>4. /\ StatPoints * (d.level - 1) \in Int /\ StatPoints * (r.level - d.level) \in Int
            /\ StatPoints * (r.level - 1) \in Int
        BY <3>1
      <3>5. ASSUME d.stat + d.pnt = BaseStat + StatPoints * (d.level - 1) + Bonuses(d.prog)
            PROVE  e.stat + e.pnt = BaseStat + StatPoints * (e.level - 1) + Bonuses(e.prog)
        <4> DEFINE x == StatPoints * (d.level - 1)
                   y == StatPoints * (r.level - d.level)
                   z == StatPoints * (r.level - 1)
                   b == Bonuses(d.prog)
        <4>1. x \in Int /\ y \in Int /\ z \in Int /\ x + y = z /\ r.points = y /\ b \in Nat
          BY <3>1, <3>2, <3>3, <3>4
        <4>2. d.stat + d.pnt = BaseStat + x + b
          BY <3>5
        <4> SUFFICES d.stat + (d.pnt + r.points) = BaseStat + z + b
          BY <2>6
        <4> HIDE DEF x, y, z, b
        <4> QED BY <3>1, <4>1, <4>2
      <3> QED BY <3>5, EarnedMeans
    <2>10. RanksEarned(d) => RanksEarned(e)
      <3> SUFFICES ASSUME RanksEarned(d) PROVE RanksEarned(e)
        OBVIOUS
      <3>1. /\ d.level = LevelForExperience(1, d.exp)
            /\ \A t \in Types : d.prog[t].rank <= SkillRankLimitFor(d.level) /\ Filled(d.prog[t])
        BY EarnedMeans
      <3>2. e.level = LevelForExperience(1, e.exp)
        BY <1>1, <1>3, <2>6, <3>1, LevelInPortions
      <3>3. d.level \in Levels /\ e.level \in Levels /\ d.level <= e.level /\ MaxRank \in Nat
        BY <1>1, <1>3, <2>6, <2>7, RowTypes, RankAssumption DEF Levels
      <3>4. /\ SkillRankLimitFor(d.level) <= SkillRankLimitFor(e.level)
            /\ SkillRankLimitFor(d.level) \in Nat /\ SkillRankLimitFor(e.level) \in Nat
        BY <3>3, LimitGrows DEF Levels
      <3>5. \A t \in Types : d.prog[t].rank \in Nat
        BY RowTypes, ProgressTypes
      <3>6. \A t \in Types : e.prog[t].rank <= SkillRankLimitFor(e.level) /\ Filled(e.prog[t])
        BY <2>6, <3>1, <3>4, <3>5
      <3> QED BY <3>2, <3>6, EarnedMeans
    <2>11. \A c : Agree(c, d) => AgreeAfter(c, e, r, Done(e).res)
      BY <1>1, <2>6 DEF Agree, AgreeAfter
    <2>12. Ahead(e, r, Done(e).res) /\ Fits(r, Done(e).res) /\ r.call \in LockedCalls
      <3>1. r.call \in LockedCalls
        BY <1>1 DEF LockedCalls
      <3>2. Fits(r, Done(e).res)
        BY <1>1, DoneIs DEF Fits
      <3>3. e.exp \in Nat /\ e.level \in Nat
        BY <2>6, RowTypes
      <3>4. r.exp <= e.exp /\ r.level <= e.level
        BY <2>6, <3>3
      <3> QED BY <3>1, <3>2, <3>4 DEF Ahead
    <2>13. Keeps(d, r, Done(e))
      BY <2>6, <2>8, <2>9, <2>10, <2>11, <2>12, DoneIs DEF Keeps
    <2> QED BY <2>1, <2>13
  <1> QED BY <1>2, <1>3

\* SaveSkillExperience.
LEMMA SkillExperienceKeeps ==
  ASSUME NEW d \in Rows, NEW r \in SkillExpReqs
  PROVE  Keeps(d, r, SaveSkillExperience(d, r))
  <1> DEFINE e == [d EXCEPT !.prog = r.new.prog, !.stat = r.new.stat, !.cur = r.new.cur, !.max = r.new.max]
  <1>1. /\ r.call = "SaveSkillExperience" /\ r.was \in Columns /\ r.new \in Columns
        /\ \A t \in Types : /\ Filled(r.new.prog[t])
                            /\ r.new.prog[t].point >= r.was.prog[t].point
                            /\ r.new.prog[t].rank >= r.was.prog[t].rank
        /\ r.new.stat + Bonuses(r.was.prog) = r.was.stat + Bonuses(r.new.prog)
    BY DEF SkillExpReqs
  <1>2. /\ r.new.prog \in [Types -> Progress] /\ r.new.stat \in Nat /\ r.new.cur \in Nat /\ r.new.max \in Nat
        /\ r.was.prog \in [Types -> Progress] /\ r.was.stat \in Nat
    BY <1>1 DEF Columns
  <1>3. CASE ~ (Matched(d) = r.was /\ e # d)
    BY <1>3, RejectedKeeps DEF SaveSkillExperience
  <1>4. CASE Matched(d) = r.was /\ e # d
    <2>1. SaveSkillExperience(d, r) = Done(e)
      BY <1>4 DEF SaveSkillExperience
    <2>2. d.prog = r.was.prog /\ d.stat = r.was.stat
      BY <1>4 DEF Matched
    <2>3. e \in Rows
      BY <1>2 DEF Rows
    <2>4. /\ e.exp = d.exp /\ e.level = d.level /\ e.pnt = d.pnt /\ e.stat = r.new.stat
          /\ e.prog = r.new.prog /\ e.skill = d.skill /\ e.alz = d.alz
      BY DEF Rows
    <2> HIDE DEF e
    <2>5. Further(d, e)
      BY <1>1, <2>2, <2>4, RowTypes DEF Further
    <2>6. PointsEarned(d) => PointsEarned(e)
      <3> DEFINE x == StatPoints * (d.level - 1)
                 b == Bonuses(d.prog)
                 n == Bonuses(e.prog)
      <3>1. /\ x \in Int /\ BaseStat \in Nat /\ b \in Nat /\ n \in Nat
            /\ d.stat \in Nat /\ d.pnt \in Nat /\ e.stat \in Nat
        <4>1. d.level \in Nat /\ StatPoints \in Nat /\ BaseStat \in Nat
          BY RowTypes, TableAssumption, StartAssumption
        <4>2. d.prog \in [Types -> Progress] /\ e.prog \in [Types -> Progress]
          BY <2>3, RowTypes
        <4>3. b \in Nat /\ n \in Nat
          BY <4>2, ProgressTypes
        <4>4. x \in Int
          BY <4>1
        <4> HIDE DEF x, b, n
        <4> QED BY <2>3, <4>1, <4>3, <4>4, RowTypes
      <3>2. e.stat + b = d.stat + n
        BY <1>1, <2>2, <2>4
      <3>3. ASSUME d.stat + d.pnt = BaseStat + x + b PROVE e.stat + e.pnt = BaseStat + x + n
        <4> HIDE DEF x, b, n
        <4> QED BY <2>4, <3>1, <3>2, <3>3
      <3>4. /\ PointsEarned(d) <=> d.stat + d.pnt = BaseStat + x + b
            /\ PointsEarned(e) <=> e.stat + e.pnt = BaseStat + x + n
        BY <2>4, EarnedMeans
      <3> QED BY <3>3, <3>4
    <2>7. (RanksEarned(d) /\ Allowed(d.level, r)) => RanksEarned(e)
      <3> SUFFICES ASSUME RanksEarned(d), Allowed(d.level, r) PROVE RanksEarned(e)
        OBVIOUS
      <3>1. e.level = LevelForExperience(1, e.exp)
        BY <2>4, EarnedMeans
      <3>2. \A t \in Types : e.prog[t].rank <= SkillRankLimitFor(e.level) /\ Filled(e.prog[t])
        BY <1>1, <2>4 DEF Allowed
      <3> QED BY <3>1, <3>2, EarnedMeans
    <2>8. \A c : Agree(c, d) => AgreeAfter(c, e, r, Done(e).res)
      BY <1>1, <2>4 DEF Agree, AgreeAfter
    <2>9. r.call \in LockedCalls /\ r.call # "SaveExperience" /\ Fits(r, Done(e).res)
      BY <1>1, DoneIs DEF LockedCalls, Fits
    <2>10. Keeps(d, r, Done(e))
      BY <2>3, <2>5, <2>6, <2>7, <2>8, <2>9, DoneIs DEF Keeps, Ahead
    <2> QED BY <2>1, <2>10
  <1> QED BY <1>3, <1>4

\* Training changes neither experience nor ranks nor stat points.
LEMMA TrainedKeeps ==
  ASSUME NEW d \in Rows, NEW r \in TrainReqs, NEW out, NEW e \in Rows, out.row = e,
         out.res.ok, Fits(r, out.res),
         e.exp = d.exp, e.level = d.level, e.pnt = d.pnt, e.stat = d.stat, e.prog = d.prog,
         \A c : Agree(c, d) => AgreeAfter(c, e, r, out.res)
  PROVE  Keeps(d, r, out)
  <1>1. r.call \in LockedCalls /\ r.call # "SaveExperience"
    BY DEF TrainReqs, LockedCalls
  <1>2. Further(d, e)
    BY RowTypes, ProgressTypes DEF Further
  <1>3. (RanksEarned(d) => RanksEarned(e)) /\ (PointsEarned(d) => PointsEarned(e))
    BY EarnedMeans
  <1> QED BY <1>1, <1>2, <1>3 DEF Keeps, Ahead

\* SaveSkill.
LEMMA SaveSkillKeeps ==
  ASSUME NEW d \in Rows, NEW r \in TrainReqs, r.call = "SaveSkill"
  PROVE  Keeps(d, r, SaveSkill(d, r))
  <1>1. CASE ~ (d.skill = r.previous /\ d.skill # 0)
    BY <1>1, RejectedKeeps DEF SaveSkill
  <1>2. CASE d.skill = r.previous /\ d.skill # 0
    <2>1. PICK e : e = [d EXCEPT !.skill = r.previous + 1]
      OBVIOUS
    <2>2. SaveSkill(d, r) = Done(e)
      BY <1>2, <2>1 DEF SaveSkill
    <2>3. r.previous + 1 \in Nat
      BY DEF TrainReqs
    <2>4. /\ e \in Rows /\ e.skill = r.previous + 1 /\ e.exp = d.exp /\ e.level = d.level
          /\ e.pnt = d.pnt /\ e.stat = d.stat /\ e.prog = d.prog /\ e.alz = d.alz
      BY <2>1, <2>3 DEF Rows
    <2>5. \A c : Agree(c, d) => AgreeAfter(c, e, r, Done(e).res)
      BY <2>4 DEF Agree, AgreeAfter
    <2>6. Fits(r, Done(e).res)
      BY DoneIs DEF Fits
    <2> QED BY <2>2, <2>4, <2>5, <2>6, DoneIs, TrainedKeeps
  <1> QED BY <1>1, <1>2

\* Quick links without those of a skill.
LEMMA LinksTyped ==
  ASSUME NEW links \in [Slots -> Links], NEW skill
  PROVE  Without(links, skill) \in [Slots -> Links]
  BY DEF Without, Links

\* UntrainSkill, which removes the skill's links too.
LEMMA UntrainKeeps ==
  ASSUME NEW d \in Rows, NEW r \in TrainReqs, r.call = "UntrainSkill"
  PROVE  Keeps(d, r, UntrainSkill(d, r))
  <1>1. CASE d.alz < UntrainPrice \/ d.skill = 0 \/ d.skill # r.previous
    BY <1>1, RejectedKeeps DEF UntrainSkill
  <1>2. CASE ~ (d.alz < UntrainPrice \/ d.skill = 0 \/ d.skill # r.previous)
    <2>1. PICK links : links = IF d.skill = 1 THEN Without(d.links, Skill) ELSE d.links
      OBVIOUS
    <2>2. PICK e : e = [d EXCEPT !.skill = d.skill - 1, !.alz = d.alz - UntrainPrice, !.links = links]
      OBVIOUS
    <2>3. PICK res : res = [ok |-> TRUE, level |-> d.skill - 1, alz |-> d.alz - UntrainPrice]
      OBVIOUS
    <2>4. PICK out : out = [row |-> e, res |-> res]
      OBVIOUS
    <2>5. UntrainSkill(d, r) = out
      BY <1>2, <2>1, <2>2, <2>3, <2>4 DEF UntrainSkill, Rows
    <2>6. d.skill - 1 \in Nat /\ d.alz - UntrainPrice \in Nat /\ links \in [Slots -> Links]
      BY <1>2, <2>1, RowTypes, LinksTyped, StartAssumption
    <2>7. /\ e \in Rows /\ e.skill = res.level /\ e.alz = res.alz /\ e.exp = d.exp /\ e.level = d.level
          /\ e.pnt = d.pnt /\ e.stat = d.stat /\ e.prog = d.prog
      BY <2>2, <2>3, <2>6 DEF Rows
    <2>8. out.row = e /\ out.res = res /\ res.ok /\ res \in UntrainAnswers
      BY <2>3, <2>4, <2>6 DEF UntrainAnswers
    <2>9. Fits(r, res)
      BY <2>8 DEF Fits, Answers
    <2>10. \A c : Agree(c, d) => AgreeAfter(c, e, r, res)
      BY <2>7 DEF Agree, AgreeAfter
    <2> QED BY <2>5, <2>7, <2>8, <2>9, <2>10, TrainedKeeps
  <1> QED BY <1>1, <1>2

\* The calls without the mutex.
LEMMA VitalsKeeps ==
  ASSUME NEW d \in Rows, NEW r \in VitalsReqs
  PROVE  Keeps(d, r, SaveVitals(d, r))
  <1>1. PICK e : e = [d EXCEPT !.cur = r.cur, !.max = r.max]
    OBVIOUS
  <1>2. e \in Rows /\ Agree(e, d) /\ e.stat = d.stat /\ e.pnt = d.pnt
    BY <1>1 DEF Rows, Agree, VitalsReqs
  <1>3. SaveVitals(d, r) = Done(e)
    BY <1>1 DEF SaveVitals
  <1>4. r.call \notin LockedCalls /\ Fits(r, Done(e).res)
    BY DoneIs DEF VitalsReqs, LockedCalls, Fits
  <1> QED BY <1>2, <1>3, <1>4, DoneIs, OtherKeeps

\* A request that writes quick links only.
LEMMA LinksKeep ==
  ASSUME NEW d \in Rows, NEW r, r.call \notin LockedCalls,
         r.call \notin {"SaveStat", "SaveStatDistribution", "GrantBattleModeSkills"},
         NEW e, NEW links \in [Slots -> Links], e = [d EXCEPT !.links = links]
  PROVE  Keeps(d, r, Done(e))
  <1>1. e \in Rows /\ Agree(e, d) /\ e.stat = d.stat /\ e.pnt = d.pnt
    BY DEF Rows, Agree
  <1>2. Fits(r, Done(e).res)
    BY DoneIs DEF LockedCalls, Fits
  <1> QED BY <1>1, <1>2, DoneIs, OtherKeeps

\* The three requests about quick links.
LEMMA LinkCallsKeep ==
  ASSUME NEW d \in Rows, NEW r
  PROVE  /\ r \in SetReqs => Keeps(d, r, QuickLinkSet(d, r))
         /\ r \in RemoveReqs => Keeps(d, r, QuickLinkRemove(d, r))
         /\ r \in SwapReqs => Keeps(d, r, QuickLinkSwap(d, r))
  <1>0. d.links \in [Slots -> Links] /\ None \in Links
    BY RowTypes DEF Links
  <1>1. ASSUME r \in SetReqs PROVE Keeps(d, r, QuickLinkSet(d, r))
    <2>1. PICK links : links = [d.links EXCEPT ![r.slot] = r.link]
      OBVIOUS
    <2>2. PICK e : e = [d EXCEPT !.links = links]
      OBVIOUS
    <2>3. QuickLinkSet(d, r) = Done(e)
      BY <2>1, <2>2 DEF QuickLinkSet, Rows
    <2>4. links \in [Slots -> Links]
      BY <1>0, <1>1, <2>1 DEF SetReqs
    <2>5. r.call \notin LockedCalls /\ r.call \notin {"SaveStat", "SaveStatDistribution", "GrantBattleModeSkills"}
      BY <1>1 DEF SetReqs, LockedCalls
    <2> QED BY <2>2, <2>3, <2>4, <2>5, LinksKeep
  <1>2. ASSUME r \in RemoveReqs PROVE Keeps(d, r, QuickLinkRemove(d, r))
    <2>1. PICK links : links = [d.links EXCEPT ![r.slot] = None]
      OBVIOUS
    <2>2. PICK e : e = [d EXCEPT !.links = links]
      OBVIOUS
    <2>3. QuickLinkRemove(d, r) = Done(e)
      BY <2>1, <2>2 DEF QuickLinkRemove, Rows
    <2>4. links \in [Slots -> Links]
      BY <1>0, <1>2, <2>1 DEF RemoveReqs
    <2>5. r.call \notin LockedCalls /\ r.call \notin {"SaveStat", "SaveStatDistribution", "GrantBattleModeSkills"}
      BY <1>2 DEF RemoveReqs, LockedCalls
    <2> QED BY <2>2, <2>3, <2>4, <2>5, LinksKeep
  <1>3. ASSUME r \in SwapReqs PROVE Keeps(d, r, QuickLinkSwap(d, r))
    <2>1. PICK links : links = [d.links EXCEPT ![r.slot] = d.links[r.to], ![r.to] = d.links[r.slot]]
      OBVIOUS
    <2>2. PICK e : e = [d EXCEPT !.links = links]
      OBVIOUS
    <2>3. QuickLinkSwap(d, r) = Done(e)
      BY <2>1, <2>2 DEF QuickLinkSwap, Rows
    <2>4. links \in [Slots -> Links]
      BY <1>0, <1>3, <2>1 DEF SwapReqs
    <2>5. r.call \notin LockedCalls /\ r.call \notin {"SaveStat", "SaveStatDistribution", "GrantBattleModeSkills"}
      BY <1>3 DEF SwapReqs, LockedCalls
    <2> QED BY <2>2, <2>3, <2>4, <2>5, LinksKeep
  <1> QED BY <1>1, <1>2, <1>3

\* GrantBattleModeSkills.
LEMMA GrantKeeps ==
  ASSUME NEW d \in Rows, NEW r \in GrantReqs
  PROVE  Keeps(d, r, GrantBattleModeSkills(d, r))
  <1>1. PICK e : e = [d EXCEPT !.granted = r.skills]
    OBVIOUS
  <1>2. PICK res : res = [ok |-> TRUE, added |-> r.skills \ d.granted, removed |-> d.granted \ r.skills]
    OBVIOUS
  <1>3. PICK out : out = [row |-> e, res |-> res]
    OBVIOUS
  <1>4. GrantBattleModeSkills(d, r) = out
    BY <1>1, <1>2, <1>3 DEF GrantBattleModeSkills
  <1>5. r.skills \in SUBSET BattleSkills /\ r.call = "GrantBattleModeSkills" /\ d.granted \in SUBSET BattleSkills
    BY RowTypes DEF GrantReqs
  <1>6. e \in Rows /\ Agree(e, d) /\ e.stat = d.stat /\ e.pnt = d.pnt
    BY <1>1, <1>5 DEF Rows, Agree
  <1>7. res \in GrantAnswers /\ res.ok /\ out.row = e /\ out.res = res
    BY <1>2, <1>3, <1>5 DEF GrantAnswers
  <1>8. r.call \notin LockedCalls /\ Fits(r, res)
    BY <1>5, <1>7 DEF LockedCalls, Fits, Answers
  <1> QED BY <1>4, <1>6, <1>7, <1>8, OtherKeeps

\* One or several points move from the free ones to the spent ones.
Spent(d, n) ==
    [row |-> [d EXCEPT !.stat = d.stat + n, !.pnt = d.pnt - n],
     res |-> [ok |-> TRUE, stat |-> d.stat + n, pnt |-> d.pnt - n]]

\* Stat points that are spent move from the free ones to the stats.
LEMMA SpentKeeps ==
  ASSUME NEW d \in Rows, NEW r, r.call \in {"SaveStat", "SaveStatDistribution"}, NEW n \in Nat, n <= d.pnt
  PROVE  Keeps(d, r, Spent(d, n))
  <1>0. d.stat \in Nat /\ d.pnt \in Nat /\ d.stat + n \in Nat /\ d.pnt - n \in Nat
    BY RowTypes
  <1>1. PICK e : e = [d EXCEPT !.stat = d.stat + n, !.pnt = d.pnt - n]
    OBVIOUS
  <1>2. e \in Rows /\ Agree(e, d) /\ e.stat = d.stat + n /\ e.pnt = d.pnt - n
    BY <1>0, <1>1 DEF Rows, Agree
  <1> DEFINE out == Spent(d, n)
  <1>3. out.row = e /\ out.res.ok /\ out.res \in StatAnswers
    BY <1>0, <1>1 DEF StatAnswers, Spent
  <1> HIDE DEF out
  <1>4. r.call \notin LockedCalls /\ Fits(r, out.res)
    BY <1>3 DEF LockedCalls, Fits, Answers
  <1>5. e.stat + e.pnt = d.stat + d.pnt
    BY <1>0, <1>2
  <1>6. Keeps(d, r, out)
    BY <1>2, <1>3, <1>4, <1>5, OtherKeeps
  <1> QED BY <1>6 DEF out

\* SaveStat and SaveStatDistribution.
LEMMA StatKeeps ==
  ASSUME NEW d \in Rows, NEW r
  PROVE  /\ r \in StatReqs => Keeps(d, r, SaveStat(d, r))
         /\ r \in DistributionReqs => Keeps(d, r, SaveStatDistribution(d, r))
  <1>0. d.pnt \in Nat
    BY RowTypes
  <1>1. ASSUME r \in StatReqs PROVE Keeps(d, r, SaveStat(d, r))
    <2>1. CASE d.pnt = 0 \/ d.pnt # r.pnt
      BY <2>1, RejectedKeeps DEF SaveStat
    <2>2. CASE ~ (d.pnt = 0 \/ d.pnt # r.pnt)
      <3>1. 1 \in Nat /\ 1 <= d.pnt /\ r.call \in {"SaveStat", "SaveStatDistribution"}
        BY <1>0, <1>1, <2>2 DEF StatReqs
      <3>2. SaveStat(d, r) = Spent(d, 1)
        BY <2>2 DEF SaveStat, Rows, Spent
      <3> QED BY <3>1, <3>2, SpentKeeps
    <2> QED BY <2>1, <2>2
  <1>2. ASSUME r \in DistributionReqs PROVE Keeps(d, r, SaveStatDistribution(d, r))
    <2>1. CASE r.points = 0 \/ d.pnt # r.pnt \/ r.points > d.pnt
      BY <2>1, RejectedKeeps DEF SaveStatDistribution
    <2>2. CASE ~ (r.points = 0 \/ d.pnt # r.pnt \/ r.points > d.pnt)
      <3>1. r.points \in Nat /\ r.points <= d.pnt /\ r.call \in {"SaveStat", "SaveStatDistribution"}
        BY <1>0, <1>2, <2>2 DEF DistributionReqs
      <3>2. SaveStatDistribution(d, r) = Spent(d, r.points)
        BY <2>2 DEF SaveStatDistribution, Rows, Spent
      <3> QED BY <3>1, <3>2, SpentKeeps
    <2> QED BY <2>1, <2>2
  <1> QED BY <1>1, <1>2

\* Every operation of the master server keeps what is earned.
LEMMA HandledKeeps ==
  ASSUME NEW d \in Rows, NEW r \in Requests
  PROVE  Keeps(d, r, Handled(d, r))
  <1>1. CASE r \in ExpReqs
    <2>1. r.call = "SaveExperience"
      BY <1>1 DEF ExpReqs
    <2> QED BY <1>1, <2>1, ExperienceKeeps DEF Handled
  <1>2. CASE r \in SkillExpReqs
    <2>1. r.call = "SaveSkillExperience"
      BY <1>2 DEF SkillExpReqs
    <2> QED BY <1>2, <2>1, SkillExperienceKeeps DEF Handled
  <1>3. CASE r \in TrainReqs
    <2>1. r.call = "SaveSkill" \/ r.call = "UntrainSkill"
      BY <1>3 DEF TrainReqs
    <2> QED BY <1>3, <2>1, SaveSkillKeeps, UntrainKeeps DEF Handled
  <1>4. CASE r \in VitalsReqs
    <2>1. r.call = "SaveVitals"
      BY <1>4 DEF VitalsReqs
    <2> QED BY <1>4, <2>1, VitalsKeeps DEF Handled
  <1>5. CASE r \in StatReqs
    <2>1. r.call = "SaveStat"
      BY <1>5 DEF StatReqs
    <2> QED BY <1>5, <2>1, StatKeeps DEF Handled
  <1>6. CASE r \in DistributionReqs
    <2>1. r.call = "SaveStatDistribution"
      BY <1>6 DEF DistributionReqs
    <2> QED BY <1>6, <2>1, StatKeeps DEF Handled
  <1>7. CASE r \in GrantReqs
    <2>1. r.call = "GrantBattleModeSkills"
      BY <1>7 DEF GrantReqs
    <2> QED BY <1>7, <2>1, GrantKeeps DEF Handled
  <1>8. CASE r \in SetReqs
    <2>1. r.call = "QuickLinkSet"
      BY <1>8 DEF SetReqs
    <2> QED BY <1>8, <2>1, LinkCallsKeep DEF Handled
  <1>9. CASE r \in RemoveReqs
    <2>1. r.call = "QuickLinkRemove"
      BY <1>9 DEF RemoveReqs
    <2> QED BY <1>9, <2>1, LinkCallsKeep DEF Handled
  <1>10. CASE r \in SwapReqs
    <2>1. r.call = "QuickLinkSwap"
      BY <1>10 DEF SwapReqs
    <2> QED BY <1>10, <2>1, LinkCallsKeep DEF Handled
  <1> QED BY <1>1, <1>2, <1>3, <1>4, <1>5, <1>6, <1>7, <1>8, <1>9, <1>10 DEF Requests, LockedReqs, OtherReqs

----------------------------------------------------------------------------
(* The requests that the handlers make. *)

\* The maximum of the vitals is a number.
LEMMA MaxTypes ==
  ASSUME NEW level \in Levels, NEW prog \in [Types -> Progress]
  PROVE  CalculateMax(level, prog) \in Nat
  <1>1. prog["sword"].rank \in Nat \ {0} /\ prog["magic"].rank \in Nat \ {0}
    <2>1. "sword" \in Types /\ "magic" \in Types
      BY DEF Types
    <2>2. prog["sword"].rank \in Ranks /\ prog["magic"].rank \in Ranks
      BY <2>1, ProgressTypes
    <2>3. \A k \in Ranks : k \in Nat \ {0}
      BY RankAssumption DEF Ranks
    <2> QED BY <2>2, <2>3
  <1>2. level \in Nat /\ level > 0 /\ BaseVital \in Nat
    BY TableAssumption, StartAssumption DEF Levels, TopLevel
  <1>3. CalculateMax(level, prog) =
          BaseVital + level - 1 + ((prog["sword"].rank - 1) + (prog["magic"].rank - 1))
    BY DEF CalculateMax, Sum, rankBonus
  <1> QED BY <1>1, <1>2, <1>3

\* A copy with its vitals calculated again.
LEMMA RecalculatedTypes ==
  ASSUME NEW c \in Rows, NEW level \in Levels, NEW prog \in [Types -> Progress]
  PROVE  /\ Recalculated(c, level, prog) \in Rows /\ Recalculated(c, level, prog).max \in Nat
         /\ Agree(Recalculated(c, level, prog), c)
  <1>1. PICK max : max = CalculateMax(level, prog)
    OBVIOUS
  <1>2. max \in Nat
    BY <1>1, MaxTypes
  <1>3. PICK e : e = [c EXCEPT !.cur = max, !.max = max]
    OBVIOUS
  <1>4. e = Recalculated(c, level, prog)
    BY <1>1, <1>3 DEF Recalculated
  <1>5. e \in Rows /\ e.max \in Nat /\ Agree(e, c)
    BY <1>2, <1>3 DEF Rows, Agree
  <1> QED BY <1>4, <1>5

\* addExperience asks for what the experience gives from where the copy is.
LEMMA ExperienceReqOK ==
  ASSUME game \in Rows, NEW gained \in Nat
  PROVE  /\ ExperienceReq(gained) \in ExpReqs
         /\ Asked(game, ExperienceReq(gained)) /\ Allowed(game.level, ExperienceReq(gained))
  <1>1. game.exp \in Nat /\ game.level \in Levels /\ game.level \in Nat /\ game.prog \in [Types -> Progress]
    BY RowTypes
  <1>2. PICK exp : exp = game.exp + gained
    OBVIOUS
  <1>3. PICK level : level = LevelForExperience(game.level, exp)
    OBVIOUS
  <1>4. exp \in Nat /\ exp >= game.exp
    BY <1>1, <1>2
  <1>5. level \in Levels /\ level \in Nat /\ level >= game.level
    <2>1. level \in Levels /\ level >= game.level
      BY <1>1, <1>3, <1>4, LevelIsReached
    <2> QED BY <2>1, TableAssumption DEF Levels, TopLevel
  <1>6. PICK max : max = IF level > game.level THEN Recalculated(game, level, game.prog).max ELSE 0
    OBVIOUS
  <1>7. max \in Nat
    BY <1>1, <1>5, <1>6, RecalculatedTypes
  <1>8. PICK was : was = [exp |-> game.exp, level |-> game.level]
    OBVIOUS
  <1>9. was \in [exp : Nat, level : Levels] /\ was.exp = game.exp /\ was.level = game.level
    BY <1>1, <1>8
  <1>10. PICK points : points = StatPoints * (level - game.level)
    OBVIOUS
  <1>11. points \in Nat
    <2>1. PICK n \in Nat : n = level - game.level
      BY <1>1, <1>5
    <2> QED BY <1>10, <2>1, TableAssumption
  <1>12. PICK r : r = [call |-> "SaveExperience", was |-> was, exp |-> exp, level |-> level,
                       points |-> points, max |-> max]
    OBVIOUS
  <1>13. ExperienceReq(gained) = r
    BY <1>2, <1>3, <1>6, <1>8, <1>10, <1>12 DEF ExperienceReq
  <1>14. /\ r \in [call : {"SaveExperience"}, was : [exp : Nat, level : Levels],
                   exp : Nat, level : Levels, points : Nat, max : Nat]
         /\ r.call = "SaveExperience" /\ r.was = was /\ r.exp = exp /\ r.level = level /\ r.points = points
    BY <1>4, <1>5, <1>7, <1>9, <1>11, <1>12
  <1>15. r \in ExpReqs
    BY <1>3, <1>4, <1>9, <1>10, <1>14 DEF ExpReqs
  <1> QED BY <1>9, <1>13, <1>14, <1>15 DEF Asked, Allowed

\* The columns a request is compared by.
LEMMA MatchedTypes ==
  ASSUME NEW c \in Rows
  PROVE  /\ Matched(c) \in Columns /\ Matched(c).prog = c.prog /\ Matched(c).stat = c.stat
         /\ Matched(c).cur = c.cur /\ Matched(c).max = c.max
  BY RowTypes DEF Matched, Columns

\* addSkillExperienceForType asks for ranks climbed from those of the copy.
SkillReq(c, t, gained) ==
    [call |-> "SaveSkillExperience", was |-> Matched(c), new |-> Matched(SkillUpdated(c, t, gained))]

\* What addSkillExperience asks for has climbed from ranks that were earned.
LEMMA SkillReqOK ==
  ASSUME NEW c \in Rows, RanksEarned(c), NEW t \in Types, NEW gained \in Nat,
         ~ (c.prog[t].rank > SkillRankLimitFor(c.level)),
         ~ (c.prog[t].rank = MaxRank /\ c.prog[t].rankExp >= PointsForRank[MaxRank])
  PROVE  /\ SkillReq(c, t, gained) \in SkillExpReqs
         /\ Allowed(c.level, SkillReq(c, t, gained))
  <1> DEFINE p == c.prog[t]
             limit == SkillRankLimitFor(c.level)
             s == [exp |-> p.exp + gained, point |-> p.point, rankExp |-> p.rankExp,
                   rank |-> p.rank, stat |-> c.stat, limit |-> limit]
             e == Climb[s]
             x == [exp |-> e.exp, point |-> e.point, rankExp |-> e.rankExp, rank |-> e.rank]
             prog == [c.prog EXCEPT ![t] = x]
             full == IF e.rank > p.rank THEN Recalculated(c, c.level, prog) ELSE c
             u == [full EXCEPT !.prog = prog, !.stat = e.stat]
  <1>1. /\ c.level \in Levels /\ c.stat \in Nat /\ c.prog \in [Types -> Progress]
        /\ p \in Progress /\ p.exp \in Nat /\ p.point \in Nat /\ p.rankExp \in Nat
        /\ p.rank \in Ranks /\ p.rank \in Nat
    BY RowTypes, ProgressTypes
  <1>2. limit \in 1 .. MaxRank /\ limit \in Nat /\ MaxRank \in Nat
    BY <1>1, LimitGrows, RankAssumption DEF Levels
  <1>3. \A y \in Types : c.prog[y].rank <= limit /\ Filled(c.prog[y])
    BY EarnedMeans
  <1>4. p.rank <= limit /\ Filled(p) /\ p.rankExp < PointsForRank[p.rank]
    <2>1. PointsForRank[p.rank] \in Nat
      BY <1>1, RankAssumption DEF Ranks
    <2>2. p.rank <= limit /\ Filled(p)
      BY <1>3
    <2>3. p.rank = MaxRank => ~ (p.rankExp >= PointsForRank[p.rank])
      OBVIOUS
    <2> HIDE DEF p, limit
    <2> QED BY <1>1, <2>1, <2>2, <2>3 DEF Filled
  <1>5. Climbed(c, t, gained) = e /\ SkillUpdated(c, t, gained) = u
    BY DEF Climbed, SkillUpdated
  <1>6. /\ Ready(s) /\ s.point = p.point /\ s.rankExp = p.rankExp /\ s.rank = p.rank
        /\ s.stat = c.stat /\ s.limit = limit
    <2> HIDE DEF p, limit
    <2>1. p.exp + gained \in Nat
      BY <1>1
    <2> QED BY <1>1, <1>2, <1>4, <2>1 DEF Ready, Climbing, Ranks
  <1> HIDE DEF s
  <1>7. e \in Climbing /\ Climbs(s, e)
    BY <1>6, ClimbResult
  <1> HIDE DEF e
  <1>8. /\ e.exp \in Nat /\ e.point \in Nat /\ e.rankExp \in Nat /\ e.stat \in Nat /\ e.rank \in Ranks
        /\ e.rank \in Nat
    BY <1>2, <1>7 DEF Climbing, Ranks
  <1>9. /\ x \in Progress /\ x.exp = e.exp /\ x.point = e.point /\ x.rankExp = e.rankExp /\ x.rank = e.rank
    BY <1>8 DEF Progress
  <1>10. \A y \in Ranks : PointsBelow[y] \in Nat /\ BonusBelow[y] \in Nat
    BY BelowRanks
  <1>11. /\ Filled(x) /\ x.rank <= limit /\ x.point >= p.point /\ x.rank >= p.rank
         /\ e.stat + BonusBelow[p.rank] = c.stat + BonusBelow[x.rank]
    <2> HIDE DEF x, p, limit
    <2>1. /\ PointsBelow[p.rank] \in Nat /\ PointsBelow[e.rank] \in Nat
          /\ p.point = PointsBelow[p.rank] + p.rankExp
      BY <1>1, <1>4, <1>8, <1>10 DEF Filled
    <2>2. /\ e.rank >= p.rank /\ e.rank <= limit /\ e.point >= p.point
          /\ e.point + PointsBelow[p.rank] + p.rankExp = p.point + PointsBelow[e.rank] + e.rankExp
          /\ e.stat + BonusBelow[p.rank] = c.stat + BonusBelow[e.rank]
          /\ e.exp <= ExpForPoint[e.rank]
          /\ e.rankExp < PointsForRank[e.rank] \/ e.rank = MaxRank
      BY <1>6, <1>7 DEF Climbs
    <2>3. e.point = PointsBelow[e.rank] + e.rankExp
      BY <1>1, <1>8, <2>1, <2>2
    <2> QED BY <1>9, <2>2, <2>3 DEF Filled
  <1>12. /\ prog \in [Types -> Progress] /\ prog[t] = x
         /\ \A y \in Types : y # t => prog[y] = c.prog[y]
    <2> HIDE DEF x
    <2> QED BY <1>1, <1>9
  <1> HIDE DEF x
  <1>13. full \in Rows
    <2> HIDE DEF prog
    <2> QED BY <1>1, <1>12, RecalculatedTypes
  <1>14. u \in Rows /\ u.prog = prog /\ u.stat = e.stat
    <2> HIDE DEF prog, full
    <2> QED BY <1>8, <1>12, <1>13 DEF Rows
  <1> HIDE DEF prog, full, u
  <1>15. \A y \in Types : /\ Filled(prog[y]) /\ prog[y].rank <= limit
                          /\ prog[y].point >= c.prog[y].point /\ prog[y].rank >= c.prog[y].rank
    <2> SUFFICES ASSUME NEW y \in Types
                 PROVE  /\ Filled(prog[y]) /\ prog[y].rank <= limit
                        /\ prog[y].point >= c.prog[y].point /\ prog[y].rank >= c.prog[y].rank
      OBVIOUS
    <2>1. CASE y = t
      BY <1>11, <1>12, <2>1
    <2>2. CASE y # t
      <3>1. c.prog[y].point \in Nat /\ c.prog[y].rank \in Nat
        BY <1>1, ProgressTypes
      <3> QED BY <1>3, <1>12, <2>2, <3>1
    <2> QED BY <2>1, <2>2
  <1>16. e.stat + Bonuses(c.prog) = c.stat + Bonuses(prog)
    <2>1. "sword" \in Types /\ "magic" \in Types /\ Types = {"sword", "magic"}
      BY DEF Types
    <2>2. /\ BonusBelow[c.prog["sword"].rank] \in Nat /\ BonusBelow[c.prog["magic"].rank] \in Nat
          /\ BonusBelow[x.rank] \in Nat
      BY <1>1, <1>8, <1>9, <1>10, <2>1, ProgressTypes
    <2>3. CASE t = "sword"
      <3>1. prog["sword"] = x /\ prog["magic"] = c.prog["magic"] /\ p = c.prog["sword"]
        BY <1>12, <2>1, <2>3
      <3> QED BY <1>1, <1>8, <1>11, <2>2, <3>1 DEF Bonuses
    <2>4. CASE t = "magic"
      <3>1. prog["magic"] = x /\ prog["sword"] = c.prog["sword"] /\ p = c.prog["magic"]
        BY <1>12, <2>1, <2>4
      <3> QED BY <1>1, <1>8, <1>11, <2>2, <3>1 DEF Bonuses
    <2> QED BY <2>1, <2>3, <2>4
  <1>17. PICK was, new : was = Matched(c) /\ new = Matched(u)
    OBVIOUS
  <1>18. /\ was \in Columns /\ new \in Columns /\ was.prog = c.prog /\ was.stat = c.stat
         /\ new.prog = prog /\ new.stat = e.stat
    BY <1>14, <1>17, MatchedTypes
  <1>19. PICK r : r = [call |-> "SaveSkillExperience", was |-> was, new |-> new]
    OBVIOUS
  <1>20. r = SkillReq(c, t, gained)
    BY <1>5, <1>17, <1>19 DEF SkillReq
  <1>21. /\ r \in [call : {"SaveSkillExperience"}, was : Columns, new : Columns]
         /\ r.was = was /\ r.new = new
    BY <1>18, <1>19
  <1>22. r \in SkillExpReqs
    BY <1>15, <1>16, <1>18, <1>21 DEF SkillExpReqs
  <1>23. Allowed(c.level, r)
    BY <1>15, <1>18, <1>21 DEF Allowed
  <1> QED BY <1>20, <1>22, <1>23

\* The name of a call tells the kind of its request.
LEMMA KindOf ==
  ASSUME NEW r \in Requests
  PROVE  /\ r.call = "SaveExperience" => r \in ExpReqs
         /\ r.call = "SaveSkillExperience" => r \in SkillExpReqs
         /\ r.call \in {"SaveSkill", "UntrainSkill"} => r \in TrainReqs
         /\ r.call = "QuickLinkSet" => r \in SetReqs
         /\ r.call = "QuickLinkRemove" => r \in RemoveReqs
         /\ r.call = "QuickLinkSwap" => r \in SwapReqs
         /\ r \in LockedReqs <=> r.call \in LockedCalls
  <1>1. /\ \A q \in ExpReqs : q.call = "SaveExperience"
        /\ \A q \in SkillExpReqs : q.call = "SaveSkillExperience"
        /\ \A q \in TrainReqs : q.call \in {"SaveSkill", "UntrainSkill"}
        /\ \A q \in VitalsReqs : q.call = "SaveVitals"
        /\ \A q \in StatReqs : q.call = "SaveStat"
        /\ \A q \in DistributionReqs : q.call = "SaveStatDistribution"
        /\ \A q \in GrantReqs : q.call = "GrantBattleModeSkills"
        /\ \A q \in SetReqs : q.call = "QuickLinkSet"
        /\ \A q \in RemoveReqs : q.call = "QuickLinkRemove"
        /\ \A q \in SwapReqs : q.call = "QuickLinkSwap"
    BY DEF ExpReqs, SkillExpReqs, TrainReqs, VitalsReqs, StatReqs, DistributionReqs, GrantReqs,
           SetReqs, RemoveReqs, SwapReqs
  <1> QED BY <1>1 DEF Requests, LockedReqs, OtherReqs, LockedCalls

\* A request stays allowed when the level goes up.
LEMMA AllowedUp ==
  ASSUME NEW a \in Levels, NEW b \in Levels, a <= b, NEW r \in Requests, Allowed(a, r)
  PROVE  Allowed(b, r)
  <1> SUFFICES ASSUME r.call = "SaveSkillExperience", NEW t \in Types
               PROVE  r.new.prog[t].rank <= SkillRankLimitFor(b)
    BY DEF Allowed
  <1>1. r.new.prog \in [Types -> Progress]
    <2>1. r \in SkillExpReqs
      BY KindOf
    <2>2. r.new \in Columns
      BY <2>1 DEF SkillExpReqs
    <2> QED BY <2>2 DEF Columns
  <1>2. r.new.prog[t].rank \in Nat
    BY <1>1, ProgressTypes
  <1>3. r.new.prog[t].rank <= SkillRankLimitFor(a)
    BY DEF Allowed
  <1>4. /\ SkillRankLimitFor(a) <= SkillRankLimitFor(b)
        /\ SkillRankLimitFor(a) \in 1 .. MaxRank /\ SkillRankLimitFor(b) \in 1 .. MaxRank
    BY LimitGrows DEF Levels
  <1>5. \A i \in Nat : \A j, k \in 1 .. MaxRank : i <= j /\ j <= k => i <= k
    BY RankAssumption
  <1> QED BY <1>2, <1>3, <1>4, <1>5

\* What differs between two rows also does between rows that agree with them.
LEMMA DiffersSame ==
  ASSUME NEW c, NEW d, NEW a, NEW b, NEW x, Agree(a, c), Agree(b, d), Differs(c, d, x)
  PROVE  Differs(a, b, x)
  BY DEF Differs, Agree, AgreeAfter

----------------------------------------------------------------------------
(* The steps. *)

\* The types of the record of a handler.
LEMMA CallTypes ==
  ASSUME NEW c \in Calls
  PROVE  /\ c.todo \in Seq(Steps) /\ c.st \in Stages
  BY DEF Calls

\* A handler with steps ahead of it.
LEMMA DoingTypes ==
  ASSUME NEW todo \in Seq(Steps)
  PROVE  /\ Doing(todo) \in Calls /\ Doing(todo).st = "idle" /\ Doing(todo).todo = todo
         /\ Called(Doing(todo)) /\ ~ Locking(Doing(todo))
  <1>1. Doing(todo) = [todo |-> todo, st |-> "idle", req |-> None, res |-> None]
    BY DEF Doing, Idle
  <1>2. PICK c : c = [todo |-> todo, st |-> "idle", req |-> None, res |-> None]
    OBVIOUS
  <1>3. c \in Calls /\ c.st = "idle" /\ c.todo = todo
    BY <1>2 DEF Calls, Stages
  <1>4. Called(c) /\ ~ Locking(c)
    BY <1>3 DEF Called, Locking
  <1> QED BY <1>1, <1>2, <1>3, <1>4

\* A handler that starts a packet, skips a step or sends a request: game
\* changes at most where the mutex does not matter.
LEMMA SendKeeps ==
  ASSUME GrowthInv, NEW h \in Handlers, run[h].st \in {"idle", "ready"},
         NEW c \in Calls, c.st \in {"idle", "ready", "sent"}, Called(c),
         c.st # "idle" => Allowed(game.level, c.req),
         run' = [run EXCEPT ![h] = c], db' = db, late' = late, fails' = fails,
         game' \in Rows, Agree(game', game), linkLock' \in Handlers \cup {None},
         IF Locking(c) THEN lock = None /\ lock' = h /\ Asked(game, c.req) ELSE lock' = lock
  PROVE  GrowthInv'
  <1>0. /\ TypeOK /\ CallsOK /\ Held /\ HolderAsked /\ AllAllowed /\ Behind
        /\ PointsEarned(db) /\ RanksEarned(db) /\ RanksEarned(game) /\ Agreement
    BY DEF GrowthInv
  <1>1. /\ run' \in [Handlers -> Calls] /\ run'[h] = c
        /\ \A g \in Handlers : g # h => run'[g] = run[g]
    BY <1>0 DEF TypeOK
  <1>2. lock # h /\ ~ Locking(run[h])
    BY <1>0 DEF Held, Locking
  <1>3. TypeOK'
    BY <1>0, <1>1 DEF TypeOK
  <1>4. CallsOK'
    BY <1>0, <1>1 DEF CallsOK
  <1>5. Held'
    <2> SUFFICES ASSUME NEW g \in Handlers PROVE lock' = g <=> Locking(run'[g])
      BY DEF Held, Locking
    <2>1. g # None
      BY StartAssumption
    <2>2. lock = g <=> Locking(run[g])
      BY <1>0 DEF Held
    <2>3. CASE g = h
      BY <1>1, <1>2, <2>3
    <2>4. CASE g # h
      BY <1>1, <2>1, <2>2, <2>4
    <2> QED BY <2>3, <2>4
  <1>6. game'.exp = game.exp /\ game'.level = game.level
    BY DEF Agree
  <1>7. HolderAsked'
    <2> SUFFICES ASSUME NEW g \in Handlers, lock' = g PROVE Asked(game', run'[g].req)
      BY DEF HolderAsked, Asked
    <2>1. CASE g = h
      BY <1>1, <1>2, <1>6, <2>1 DEF Asked
    <2>2. CASE g # h
      <3>1. lock = g
        BY <2>2
      <3> QED BY <1>0, <1>1, <1>6, <2>2, <3>1 DEF HolderAsked, Asked
    <2> QED BY <2>1, <2>2
  <1>8. AllAllowed'
    BY <1>0, <1>1, <1>6 DEF AllAllowed, Allowed
  <1>9. Behind'
    BY <1>0, <1>1, <1>6 DEF Behind, Ahead
  <1>10. PointsEarned(db') /\ RanksEarned(db')
    BY <1>0
  <1>11. RanksEarned(game')
    BY <1>0, AgreeEarns DEF TypeOK
  <1>12. Agreement'
    <2> SUFFICES ASSUME fails = 0
                 PROVE  /\ late = {}
                        /\ lock' = None => Agree(game', db)
                        /\ \A g \in Handlers : lock' = g => Differs(game', db, run'[g])
      BY DEF Agreement, Differs, Agree, AgreeAfter
    <2>1. /\ late = {}
          /\ lock = None => Agree(game, db)
          /\ \A g \in Handlers : lock = g => Differs(game, db, run[g])
      BY <1>0 DEF Agreement
    <2>2. Agree(db, db)
      BY DEF Agree
    <2>3. lock = None => Agree(game', db)
      BY <2>1, AgreeSteps
    <2>4. h # None
      BY StartAssumption
    <2>5. ASSUME NEW g \in Handlers, lock' = g PROVE Differs(game', db, run'[g])
      <3>1. CASE g = h
        <4>1. lock = None /\ c.st # "done"
          BY <1>2, <2>5, <3>1
        <4> QED BY <1>1, <2>3, <3>1, <4>1 DEF Differs
      <3>2. CASE g # h
        <4>1. lock = g /\ run'[g] = run[g]
          BY <1>1, <2>5, <3>2
        <4> QED BY <2>1, <2>2, <4>1, DiffersSame
      <3> QED BY <3>1, <3>2
    <2> QED BY <2>1, <2>3, <2>4, <2>5
  <1> QED BY <1>3, <1>4, <1>5, <1>7, <1>8, <1>9, <1>10, <1>11, <1>12 DEF GrowthInv, PointsEarned, RanksEarned

\* A call that comes back: what the handler makes of the copy is right.
LEMMA AnswerKeeps ==
  ASSUME GrowthInv, NEW h \in Handlers, run[h].st = "done", NEW todo \in Seq(Steps),
         run' = [run EXCEPT ![h] = Doing(todo)], db' = db, late' = late, fails' = fails,
         linkLock' \in Handlers \cup {None}, lock' = IF lock = h THEN None ELSE lock,
         game' \in Rows, RanksEarned(game'), game'.level >= game.level,
         game'.exp <= db.exp, game'.level <= db.level,
         IF lock = h THEN fails = 0 => Agree(game', db) ELSE Agree(game', game)
  PROVE  GrowthInv'
  <1>0. /\ TypeOK /\ CallsOK /\ Held /\ HolderAsked /\ AllAllowed /\ Behind
        /\ PointsEarned(db) /\ RanksEarned(db) /\ RanksEarned(game) /\ Agreement
    BY DEF GrowthInv
  <1> DEFINE c == Doing(todo)
  <1>1. c \in Calls /\ c.st = "idle" /\ Called(c) /\ ~ Locking(c)
    BY DoingTypes
  <1> HIDE DEF c
  <1>2. /\ run' \in [Handlers -> Calls] /\ run'[h] = c
        /\ \A g \in Handlers : g # h => run'[g] = run[g]
    BY <1>0, <1>1 DEF TypeOK, c
  <1>3. TypeOK'
    BY <1>0, <1>2 DEF TypeOK
  <1>4. CallsOK'
    BY <1>0, <1>1, <1>2 DEF CallsOK
  <1>5. Held'
    <2> SUFFICES ASSUME NEW g \in Handlers PROVE lock' = g <=> Locking(run'[g])
      BY DEF Held, Locking
    <2>1. g # None
      BY StartAssumption
    <2>2. lock = g <=> Locking(run[g])
      BY <1>0 DEF Held
    <2>3. CASE g = h
      BY <1>1, <1>2, <2>1, <2>3
    <2>4. CASE g # h
      BY <1>2, <2>1, <2>2, <2>4
    <2> QED BY <2>3, <2>4
  <1>6. HolderAsked'
    <2> SUFFICES ASSUME NEW g \in Handlers, lock' = g PROVE Asked(game', run'[g].req)
      BY DEF HolderAsked, Asked
    <2>1. lock = g /\ g # h
      BY StartAssumption
    <2>2. game'.exp = game.exp /\ game'.level = game.level
      BY <2>1 DEF Agree
    <2> QED BY <1>0, <1>2, <2>1, <2>2 DEF HolderAsked, Asked
  <1>7. game.level \in Levels /\ game'.level \in Levels /\ game.level <= game'.level
    BY <1>0, RowTypes DEF TypeOK, Levels
  <1>8. AllAllowed'
    <2>1. \A r \in late : r \in Requests /\ Allowed(game'.level, r)
      BY <1>0, <1>7, AllowedUp DEF AllAllowed, TypeOK
    <2>2. ASSUME NEW g \in Handlers, run'[g].st # "idle" PROVE Allowed(game'.level, run'[g].req)
      <3>1. g # h /\ run'[g] = run[g]
        BY <1>1, <1>2, <2>2
      <3>2. run[g].req \in Requests /\ Allowed(game.level, run[g].req)
        BY <1>0, <2>2, <3>1 DEF CallsOK, Called, AllAllowed
      <3> QED BY <1>7, <3>1, <3>2, AllowedUp
    <2> QED BY <2>1, <2>2 DEF AllAllowed, Allowed
  <1>9. Behind'
    BY <1>0, <1>1, <1>2 DEF Behind, Ahead
  <1>10. PointsEarned(db') /\ RanksEarned(db')
    BY <1>0
  <1>11. Agreement'
    <2> SUFFICES ASSUME fails = 0
                 PROVE  /\ late = {}
                        /\ lock' = None => Agree(game', db)
                        /\ \A g \in Handlers : lock' = g => Differs(game', db, run'[g])
      BY DEF Agreement, Differs, Agree, AgreeAfter
    <2>1. /\ late = {}
          /\ lock = None => Agree(game, db)
          /\ \A g \in Handlers : lock = g => Differs(game, db, run[g])
      BY <1>0 DEF Agreement
    <2>2. Agree(db, db)
      BY DEF Agree
    <2>3. lock' = None => Agree(game', db)
      <3>1. CASE lock = h
        BY <3>1
      <3>2. CASE lock # h
        BY <2>1, <3>2, AgreeSteps
      <3> QED BY <3>1, <3>2
    <2>4. ASSUME NEW g \in Handlers, lock' = g PROVE Differs(game', db, run'[g])
      <3>1. lock = g /\ g # h
        BY <2>4, StartAssumption
      <3>2. Agree(game', game) /\ run'[g] = run[g]
        BY <1>2, <3>1
      <3> QED BY <2>1, <2>2, <3>1, <3>2, DiffersSame
    <2> QED BY <2>1, <2>3, <2>4
  <1> QED BY <1>3, <1>4, <1>5, <1>6, <1>8, <1>9, <1>10, <1>11 DEF GrowthInv, PointsEarned, RanksEarned

\* A handler that is busy with steps but in no call.
LEMMA DoingKeeps ==
  ASSUME GrowthInv, NEW h \in Handlers, run[h].st = "idle", NEW todo \in Seq(Steps),
         run' = [run EXCEPT ![h] = Doing(todo)], db' = db, late' = late, fails' = fails, lock' = lock,
         linkLock' = linkLock, game' \in Rows, Agree(game', game)
  PROVE  GrowthInv'
  <1>1. PICK c : c = Doing(todo)
    OBVIOUS
  <1>2. c \in Calls /\ c.st = "idle" /\ Called(c) /\ ~ Locking(c)
    BY <1>1, DoingTypes
  <1>3. linkLock' \in Handlers \cup {None}
    BY DEF GrowthInv, TypeOK
  <1> QED BY <1>1, <1>2, <1>3, SendKeeps

\* A handler with a request on its way.
LEMMA SentTypes ==
  ASSUME NEW todo \in Seq(Steps), NEW r \in Requests, NEW c,
         c = [todo |-> todo, st |-> "sent", req |-> r, res |-> None]
  PROVE  /\ c \in Calls /\ c.st = "sent" /\ c.req = r /\ Called(c)
         /\ Locking(c) <=> r.call \in LockedCalls
  <1>1. c \in Calls /\ c.st = "sent" /\ c.req = r
    BY DEF Calls, Stages
  <1> QED BY <1>1 DEF Called, Locking

\* A request without the mutex.
LEMMA SentKeeps ==
  ASSUME GrowthInv, NEW h \in Handlers, run[h].st = "idle", NEW todo \in Seq(Steps), NEW r \in OtherReqs,
         Send(h, todo, r), db' = db, late' = late, fails' = fails, lock' = lock, game' = game,
         linkLock' \in Handlers \cup {None}
  PROVE  GrowthInv'
  <1>1. r \in Requests
    BY DEF Requests
  <1>2. r.call \notin LockedCalls
    BY DEF OtherReqs, VitalsReqs, StatReqs, DistributionReqs, GrantReqs, SetReqs, RemoveReqs, SwapReqs,
           LockedCalls
  <1>3. PICK c : c = [todo |-> todo, st |-> "sent", req |-> r, res |-> None]
    OBVIOUS
  <1>4. /\ c \in Calls /\ c.st = "sent" /\ c.req = r /\ Called(c)
        /\ Locking(c) <=> r.call \in LockedCalls
    BY <1>1, <1>3, SentTypes
  <1>5. Allowed(game.level, c.req)
    BY <1>2, <1>4 DEF Allowed, LockedCalls
  <1>6. game' \in Rows /\ Agree(game', game)
    BY DEF GrowthInv, TypeOK, Agree
  <1>7. run' = [run EXCEPT ![h] = c]
    BY <1>3 DEF Send
  <1> QED BY <1>2, <1>4, <1>5, <1>6, <1>7, SendKeeps

\* A request with the mutex.
LEMMA LockedKeeps ==
  ASSUME GrowthInv, NEW h \in Handlers, run[h].st = "idle", NEW todo \in Seq(Steps), NEW r \in LockedReqs,
         Send(h, todo, r), db' = db, late' = late, fails' = fails, lock = None, lock' = h, game' = game,
         linkLock' = linkLock, Asked(game, r), Allowed(game.level, r)
  PROVE  GrowthInv'
  <1>1. r \in Requests
    BY DEF Requests
  <1>2. r.call \in LockedCalls
    BY <1>1, KindOf
  <1>3. PICK c : c = [todo |-> todo, st |-> "sent", req |-> r, res |-> None]
    OBVIOUS
  <1>4. /\ c \in Calls /\ c.st = "sent" /\ c.req = r /\ Called(c)
        /\ Locking(c) <=> r.call \in LockedCalls
    BY <1>1, <1>3, SentTypes
  <1>5. game' \in Rows /\ Agree(game', game) /\ linkLock' \in Handlers \cup {None}
    BY DEF GrowthInv, TypeOK, Agree
  <1>6. run' = [run EXCEPT ![h] = c]
    BY <1>3 DEF Send
  <1> QED BY <1>2, <1>4, <1>5, <1>6, SendKeeps

\* The steps of a packet are steps.
LEMMA IfTypes ==
  ASSUME NEW cond, NEW s \in Seq(Steps)
  PROVE  If(cond, s) \in Seq(Steps)
  BY DEF If

\* A list of one step.
LEMMA OneStep ==
  ASSUME NEW name \in {"exp", "sword", "magic", "vitals", "grant"}, NEW n \in Nat
  PROVE  <<<<name, n>>>> \in Seq(Steps)
  BY DEF Steps

\* The steps that follow the use of a skill.
LEMMA SkillStepsTypes ==
  ASSUME NEW save, NEW skillGained \in Nat, NEW gained \in Nat
  PROVE  SkillSteps(save, skillGained, gained) \in Seq(Steps)
  <1>1. If(save, <<<<"vitals", 0>>>>) \in Seq(Steps) /\ If(gained # 0, <<<<"exp", gained>>>>) \in Seq(Steps)
    BY OneStep, IfTypes
  <1>2. addSkillExperience(skillGained) \in Seq(Steps)
    BY DEF addSkillExperience, Steps
  <1>3. If(skillGained # 0, addSkillExperience(skillGained)) \in Seq(Steps)
    BY <1>2, IfTypes
  <1> QED BY <1>1, <1>3 DEF SkillSteps

\* A free handler waits for nothing.
LEMMA FreeIdle ==
  ASSUME NEW h, Free(h)
  PROVE  run[h].st = "idle"
  BY DEF Free, Idle

\* An attack or a skill that hits.
LEMMA FightKeeps ==
  ASSUME GrowthInv, NEW h \in Handlers, Fight(h)
  PROVE  GrowthInv'
  <1>0. game \in Rows
    BY DEF GrowthInv, TypeOK
  <1>1. game.cur \in Nat /\ game.max \in Nat
    BY <1>0, RowTypes
  <1>2. \A n \in Nat : [game EXCEPT !.cur = n] \in Rows /\ Agree([game EXCEPT !.cur = n], game)
    BY <1>0 DEF Rows, Agree
  <1>3. Gains \cup {0} \subseteq Nat /\ SkillGains \cup {0} \subseteq Nat /\ ManaCosts \subseteq Nat
    BY GainAssumption
  <1>4. ASSUME AttckToMobs(h, BOOLEAN) PROVE GrowthInv'
    <2>1. PICK gained \in Gains \cup {0}, spirit \in BOOLEAN :
                 run' = [run EXCEPT ![h] = Doing(If(gained # 0, <<<<"exp", gained>>>>)
                                                 \o If(spirit, <<<<"vitals", 0>>>>))]
      BY <1>4 DEF AttckToMobs
    <2>2. /\ If(gained # 0, <<<<"exp", gained>>>>) \in Seq(Steps)
          /\ If(spirit, <<<<"vitals", 0>>>>) \in Seq(Steps)
      BY <1>3, OneStep, IfTypes
    <2>3. If(gained # 0, <<<<"exp", gained>>>>) \o If(spirit, <<<<"vitals", 0>>>>) \in Seq(Steps)
      BY <2>2
    <2>4. /\ db' = db /\ late' = late /\ fails' = fails /\ lock' = lock /\ linkLock' = linkLock
          /\ game' \in Rows /\ Agree(game', game) /\ run[h].st = "idle"
      BY <1>0, <1>4, FreeIdle DEF AttckToMobs, Agree
    <2> QED BY <2>1, <2>3, <2>4, DoingKeeps
  <1>5. ASSUME SkillToMobs(h, ManaCosts, SkillGains \cup {0}, BOOLEAN) PROVE GrowthInv'
    <2>1. PICK cost \in ManaCosts, gained \in Gains \cup {0}, skillGained \in SkillGains \cup {0},
               spirit \in BOOLEAN :
                 /\ consumeSkillMana(cost)
                 /\ run' = [run EXCEPT ![h] = Doing(SkillSteps(spirit \/ cost # 0, skillGained, gained))]
      BY <1>5 DEF SkillToMobs
    <2>2. SkillSteps(spirit \/ cost # 0, skillGained, gained) \in Seq(Steps)
      BY <1>3, SkillStepsTypes
    <2>3. cost \in Nat /\ cost <= game.cur
      BY <1>3, <2>1 DEF consumeSkillMana
    <2>4. game' = [game EXCEPT !.cur = game.cur - cost]
      BY <1>0, <2>1 DEF consumeSkillMana, Rows
    <2>5. game.cur - cost \in Nat
      BY <1>1, <2>3
    <2>6. /\ db' = db /\ late' = late /\ fails' = fails /\ lock' = lock /\ linkLock' = linkLock
          /\ run[h].st = "idle"
      BY <1>5, FreeIdle DEF SkillToMobs
    <2>7. game' \in Rows /\ Agree(game', game)
      BY <1>2, <2>4, <2>5
    <2> QED BY <2>1, <2>2, <2>6, <2>7, DoingKeeps
  <1>6. ASSUME Revive(h) PROVE GrowthInv'
    <2>1. <<<<"vitals", 0>>>> \in Seq(Steps)
      BY OneStep
    <2>2. /\ db' = db /\ late' = late /\ fails' = fails /\ lock' = lock /\ linkLock' = linkLock
          /\ run[h].st = "idle" /\ run' = [run EXCEPT ![h] = Doing(<<<<"vitals", 0>>>>)]
          /\ game' = [game EXCEPT !.cur = game.max]
      BY <1>6, FreeIdle DEF Revive
    <2>3. game' \in Rows /\ Agree(game', game)
      BY <1>1, <1>2, <2>2
    <2> QED BY <2>1, <2>2, <2>3, DoingKeeps
  <1> QED BY <1>4, <1>5, <1>6 DEF Fight

\* The packets that spend stat points.
LEMMA SpendKeeps ==
  ASSUME GrowthInv, NEW h \in Handlers, Spend(h)
  PROVE  GrowthInv'
  <1>0. game \in Rows /\ game.pnt \in Nat /\ linkLock \in Handlers \cup {None} /\ <<>> \in Seq(Steps)
    BY RowTypes DEF GrowthInv, TypeOK
  <1>1. ASSUME UseStatBons(h) PROVE GrowthInv'
    <2>1. PICK r : r = [call |-> "SaveStat", pnt |-> game.pnt]
      OBVIOUS
    <2>2. r \in OtherReqs
      BY <1>0, <2>1 DEF OtherReqs, StatReqs
    <2>3. /\ db' = db /\ late' = late /\ fails' = fails /\ lock' = lock /\ linkLock' = linkLock
          /\ game' = game /\ run[h].st = "idle" /\ Send(h, <<>>, r)
      BY <1>1, <2>1, FreeIdle DEF UseStatBons
    <2> QED BY <1>0, <2>2, <2>3, SentKeeps
  <1>2. ASSUME UserStatAutoDistribution(h) PROVE GrowthInv'
    <2>1. PICK n \in 0 .. MaxSpend :
                 Send(h, <<>>, [call |-> "SaveStatDistribution", pnt |-> game.pnt, points |-> n])
      BY <1>2 DEF UserStatAutoDistribution
    <2>2. PICK r : r = [call |-> "SaveStatDistribution", pnt |-> game.pnt, points |-> n]
      OBVIOUS
    <2>3. n \in Nat
      BY GainAssumption
    <2>4. r \in OtherReqs
      BY <1>0, <2>2, <2>3 DEF OtherReqs, DistributionReqs
    <2>5. /\ db' = db /\ late' = late /\ fails' = fails /\ lock' = lock /\ linkLock' = linkLock
          /\ game' = game /\ run[h].st = "idle" /\ Send(h, <<>>, r)
      BY <1>2, <2>1, <2>2, FreeIdle DEF UserStatAutoDistribution
    <2> QED BY <1>0, <2>4, <2>5, SentKeeps
  <1> QED BY <1>1, <1>2 DEF Spend

\* The packets about skills and quick links.
LEMMA TrainKeeps ==
  ASSUME GrowthInv, NEW h \in Handlers, Train(h)
  PROVE  GrowthInv'
  <1>0. /\ game \in Rows /\ game.skill \in Nat /\ linkLock \in Handlers \cup {None}
        /\ <<>> \in Seq(Steps) /\ game.links \in [Slots -> Links]
    BY RowTypes DEF GrowthInv, TypeOK
  <1>1. ASSUME UpgradeSkill(h) PROVE GrowthInv'
    <2>1. PICK r : r = [call |-> "SaveSkill", previous |-> game.skill]
      OBVIOUS
    <2>2. r \in LockedReqs /\ r.call = "SaveSkill"
      BY <1>0, <2>1 DEF LockedReqs, TrainReqs
    <2>3. Asked(game, r) /\ Allowed(game.level, r)
      BY <2>2 DEF Asked, Allowed
    <2>4. /\ db' = db /\ late' = late /\ fails' = fails /\ lock = None /\ lock' = h /\ linkLock' = linkLock
          /\ game' = game /\ run[h].st = "idle" /\ Send(h, <<>>, r)
      BY <1>1, <2>1, FreeIdle DEF UpgradeSkill
    <2> QED BY <1>0, <2>2, <2>3, <2>4, LockedKeeps
  <1>2. ASSUME Untrain(h) PROVE GrowthInv'
    <2>1. PICK r : r = [call |-> "UntrainSkill", previous |-> game.skill]
      OBVIOUS
    <2>2. r \in LockedReqs /\ r.call = "UntrainSkill"
      BY <1>0, <2>1 DEF LockedReqs, TrainReqs
    <2>3. Asked(game, r) /\ Allowed(game.level, r)
      BY <2>2 DEF Asked, Allowed
    <2>4. /\ db' = db /\ late' = late /\ fails' = fails /\ lock = None /\ lock' = h /\ linkLock' = linkLock
          /\ game' = game /\ run[h].st = "idle" /\ Send(h, <<>>, r)
      BY <1>2, <2>1, FreeIdle DEF Untrain
    <2> QED BY <1>0, <2>2, <2>3, <2>4, LockedKeeps
  <1>3. ASSUME LinkSet(h, Slots) PROVE GrowthInv'
    <2>1. PICK s \in Slots, l \in {Skill, OtherSkill} :
                 Send(h, <<>>, [call |-> "QuickLinkSet", slot |-> s, link |-> l])
      BY <1>3 DEF LinkSet
    <2>2. PICK r : r = [call |-> "QuickLinkSet", slot |-> s, link |-> l]
      OBVIOUS
    <2>3. r \in OtherReqs
      BY <2>2 DEF OtherReqs, SetReqs, Links
    <2>4. /\ db' = db /\ late' = late /\ fails' = fails /\ lock' = lock /\ linkLock' = linkLock
          /\ game' = game /\ run[h].st = "idle" /\ Send(h, <<>>, r)
      BY <1>3, <2>1, <2>2, FreeIdle DEF LinkSet
    <2> QED BY <1>0, <2>3, <2>4, SentKeeps
  <1>4. ASSUME LinkRemove(h) PROVE GrowthInv'
    <2>1. PICK s \in Slots : Send(h, <<>>, [call |-> "QuickLinkRemove", slot |-> s])
      BY <1>4 DEF LinkRemove
    <2>2. PICK r : r = [call |-> "QuickLinkRemove", slot |-> s]
      OBVIOUS
    <2>3. r \in OtherReqs
      BY <2>2 DEF OtherReqs, RemoveReqs
    <2>4. /\ db' = db /\ late' = late /\ fails' = fails /\ lock' = lock /\ linkLock' = h
          /\ game' = game /\ run[h].st = "idle" /\ Send(h, <<>>, r)
      BY <1>4, <2>1, <2>2, FreeIdle DEF LinkRemove
    <2> QED BY <1>0, <2>3, <2>4, SentKeeps
  <1>5. ASSUME LinkSwap(h) PROVE GrowthInv'
    <2>1. PICK s, t \in Slots :
                 run' = [run EXCEPT ![h] =
                   [Idle EXCEPT !.st = "ready",
                                !.req = [call |-> "QuickLinkSwap", slot |-> s, to |-> t,
                                         old |-> game.links[s], new |-> game.links[t]]]]
      BY <1>5 DEF LinkSwap
    <2>2. PICK r : r = [call |-> "QuickLinkSwap", slot |-> s, to |-> t,
                        old |-> game.links[s], new |-> game.links[t]]
      OBVIOUS
    <2>3. r \in SwapReqs /\ r \in Requests /\ r.call = "QuickLinkSwap"
      BY <1>0, <2>2 DEF Requests, OtherReqs, SwapReqs
    <2>4. PICK c : c = [Idle EXCEPT !.st = "ready", !.req = r]
      OBVIOUS
    <2>5. run' = [run EXCEPT ![h] = c]
      BY <2>1, <2>2, <2>4
    <2>6. c \in Calls /\ c.st = "ready" /\ c.req = r
      <3>1. Idle \in Calls
        BY <1>0 DEF Idle, Calls, Stages
      <3> QED BY <2>3, <2>4, <3>1 DEF Calls, Stages
    <2>7. Called(c) /\ ~ Locking(c) /\ Allowed(game.level, c.req)
      BY <2>3, <2>6 DEF Called, Locking, Allowed
    <2>8. /\ db' = db /\ late' = late /\ fails' = fails /\ lock' = lock /\ linkLock' = linkLock
          /\ game' = game /\ run[h].st = "idle"
      BY <1>5, FreeIdle DEF LinkSwap
    <2>9. game' \in Rows /\ Agree(game', game)
      BY <1>0, <2>8 DEF Agree
    <2> QED BY <1>0, <2>5, <2>6, <2>7, <2>8, <2>9, SendKeeps
  <1> QED BY <1>1, <1>2, <1>3, <1>4, <1>5 DEF Train

\* The step a handler is at, and those after it.
LEMMA AtTypes ==
  ASSUME GrowthInv, NEW h \in Handlers, NEW step, At(h, step)
  PROVE  run[h].st = "idle" /\ Gained(h) \in Nat /\ Rest(h) \in Seq(Steps)
  <1>1. run[h].todo \in Seq(Steps) /\ run[h].todo # <<>> /\ run[h].st = "idle"
    BY CallTypes DEF GrowthInv, TypeOK, At
  <1>2. Head(run[h].todo) \in Steps /\ Tail(run[h].todo) \in Seq(Steps)
    BY <1>1
  <1>3. \A x \in Steps : x[2] \in Nat
    BY DEF Steps
  <1> QED BY <1>1, <1>2, <1>3 DEF Gained, Rest

\* A step that has nothing to ask for.
LEMMA SkipKeeps ==
  ASSUME GrowthInv, NEW h \in Handlers, run[h].st = "idle", Rest(h) \in Seq(Steps), Skip(h),
         db' = db, late' = late, fails' = fails, lock' = lock, linkLock' = linkLock, game' = game
  PROVE  GrowthInv'
  <1>1. game' \in Rows /\ Agree(game', game)
    BY DEF GrowthInv, TypeOK, Agree
  <1> QED BY <1>1, DoingKeeps DEF Skip

\* addExperience takes the mutex and asks.
LEMMA AddExperienceKeeps ==
  ASSUME GrowthInv, NEW h \in Handlers, AddExperience(h)
  PROVE  GrowthInv'
  <1>0. run[h].st = "idle" /\ Gained(h) \in Nat /\ Rest(h) \in Seq(Steps) /\ lock = None
    BY AtTypes DEF AddExperience
  <1>1. db' = db /\ late' = late /\ fails' = fails /\ linkLock' = linkLock /\ game' = game
    BY DEF AddExperience
  <1>2. CASE game.exp + Gained(h) > MaxExp
    <2>1. Skip(h) /\ lock' = lock
      BY <1>2 DEF AddExperience
    <2> QED BY <1>0, <1>1, <2>1, SkipKeeps
  <1>3. CASE ~ (game.exp + Gained(h) > MaxExp)
    <2>1. lock' = h /\ Send(h, Rest(h), ExperienceReq(Gained(h)))
      BY <1>3 DEF AddExperience
    <2>2. PICK r : r = ExperienceReq(Gained(h))
      OBVIOUS
    <2>3. r \in LockedReqs /\ Asked(game, r) /\ Allowed(game.level, r)
      BY <1>0, <2>2, ExperienceReqOK DEF GrowthInv, TypeOK, LockedReqs
    <2> QED BY <1>0, <1>1, <2>1, <2>2, <2>3, LockedKeeps
  <1> QED BY <1>2, <1>3

\* addSkillExperienceForType takes the mutex and asks.
LEMMA AddSkillExperienceKeeps ==
  ASSUME GrowthInv, NEW h \in Handlers, NEW t \in Types, AddSkillExperience(h, t)
  PROVE  GrowthInv'
  <1>0. run[h].st = "idle" /\ Gained(h) \in Nat /\ Rest(h) \in Seq(Steps) /\ lock = None
    BY AtTypes DEF AddSkillExperience
  <1>1. db' = db /\ late' = late /\ fails' = fails /\ linkLock' = linkLock /\ game' = game
    BY DEF AddSkillExperience
  <1>2. CASE \/ game.prog[t].rank > SkillRankLimitFor(game.level)
             \/ game.prog[t].rank = MaxRank /\ game.prog[t].rankExp >= PointsForRank[MaxRank]
    <2>1. Skip(h) /\ lock' = lock
      BY <1>2 DEF AddSkillExperience
    <2> QED BY <1>0, <1>1, <2>1, SkipKeeps
  <1>3. CASE ~ (\/ game.prog[t].rank > SkillRankLimitFor(game.level)
                \/ game.prog[t].rank = MaxRank /\ game.prog[t].rankExp >= PointsForRank[MaxRank])
    <2>1. PICK r : r = SkillReq(game, t, Gained(h))
      OBVIOUS
    <2>2. lock' = h /\ Send(h, Rest(h), r)
      BY <1>3, <2>1 DEF AddSkillExperience, SkillReq
    <2>3. r \in SkillExpReqs /\ Allowed(game.level, r)
      BY <1>0, <1>3, <2>1, SkillReqOK DEF GrowthInv, TypeOK
    <2>4. r \in LockedReqs /\ Asked(game, r)
      BY <2>3 DEF LockedReqs, SkillExpReqs, Asked
    <2> QED BY <1>0, <1>1, <2>2, <2>3, <2>4, LockedKeeps
  <1> QED BY <1>2, <1>3

\* The steps that ask without the mutex.
LEMMA SmallStepsKeep ==
  ASSUME GrowthInv, NEW h \in Handlers, saveContextVitals(h) \/ ensureBattleModeSkills(h) \/ LinkSwapCall(h)
  PROVE  GrowthInv'
  <1>0. /\ game \in Rows /\ game.cur \in Nat /\ game.max \in Nat /\ linkLock \in Handlers \cup {None}
        /\ run \in [Handlers -> Calls]
    BY RowTypes DEF GrowthInv, TypeOK
  <1>1. ASSUME saveContextVitals(h) PROVE GrowthInv'
    <2>0. run[h].st = "idle" /\ Rest(h) \in Seq(Steps)
      BY <1>1, AtTypes DEF saveContextVitals
    <2>1. PICK r : r = [call |-> "SaveVitals", cur |-> game.cur, max |-> game.max]
      OBVIOUS
    <2>2. r \in OtherReqs
      BY <1>0, <2>1 DEF OtherReqs, VitalsReqs
    <2>3. /\ db' = db /\ late' = late /\ fails' = fails /\ lock' = lock /\ linkLock' = linkLock
          /\ game' = game /\ Send(h, Rest(h), r)
      BY <1>1, <2>1 DEF saveContextVitals
    <2> QED BY <1>0, <2>0, <2>2, <2>3, SentKeeps
  <1>2. ASSUME ensureBattleModeSkills(h) PROVE GrowthInv'
    <2>0. run[h].st = "idle" /\ Rest(h) \in Seq(Steps)
      BY <1>2, AtTypes DEF ensureBattleModeSkills
    <2>1. PICK r : r = [call |-> "GrantBattleModeSkills", skills |-> FindBattleModeSkillsForLevel(game.level)]
      OBVIOUS
    <2>2. r \in OtherReqs
      BY <1>0, <2>1 DEF OtherReqs, GrantReqs, FindBattleModeSkillsForLevel
    <2>3. /\ db' = db /\ late' = late /\ fails' = fails /\ lock' = lock /\ linkLock' = linkLock
          /\ game' = game /\ Send(h, Rest(h), r)
      BY <1>2, <2>1 DEF ensureBattleModeSkills
    <2> QED BY <1>0, <2>0, <2>2, <2>3, SentKeeps
  <1>3. ASSUME LinkSwapCall(h) PROVE GrowthInv'
    <2>1. /\ db' = db /\ late' = late /\ fails' = fails /\ lock' = lock /\ linkLock' = h
          /\ game' = game /\ run' = [run EXCEPT ![h].st = "sent"] /\ run[h].st = "ready"
      BY <1>3 DEF LinkSwapCall
    <2>2. run[h] \in Calls /\ run[h].req \in SwapReqs /\ run[h].req \in Requests
      BY <1>0, <2>1 DEF GrowthInv, CallsOK, Called
    <2>3. PICK c : c = [run[h] EXCEPT !.st = "sent"]
      OBVIOUS
    <2>4. run' = [run EXCEPT ![h] = c]
      BY <1>0, <2>1, <2>3
    <2>5. c \in Calls /\ c.st = "sent" /\ c.req = run[h].req
      BY <2>2, <2>3 DEF Calls, Stages
    <2>6. c.req.call = "QuickLinkSwap"
      BY <2>2, <2>5 DEF SwapReqs
    <2>7. Called(c) /\ ~ Locking(c) /\ Allowed(game.level, c.req)
      BY <2>2, <2>5, <2>6 DEF Called, Locking, LockedCalls, Allowed
    <2>8. game' \in Rows /\ Agree(game', game)
      BY <1>0, <2>1 DEF Agree
    <2> QED BY <2>1, <2>4, <2>5, <2>7, <2>8, SendKeeps
  <1> QED BY <1>1, <1>2, <1>3

----------------------------------------------------------------------------
(* The calls. *)

\* The row moves on, by the request of a call that is served now or late, and
\* whatever does not follow the mutex is kept.
LEMMA RowMovesOn ==
  ASSUME GrowthInv, NEW r \in Requests, Allowed(game.level, r), db' = Handled(db, r).row
  PROVE  /\ db' \in Rows /\ Further(db, db') /\ PointsEarned(db') /\ RanksEarned(db')
         /\ game.exp <= db'.exp /\ game.level <= db'.level
         /\ \A g \in Handlers : run[g].st = "done" => Ahead(db', run[g].req, run[g].res)
  <1>1. db \in Rows /\ game \in Rows /\ Behind /\ PointsEarned(db) /\ RanksEarned(db) /\ CallsOK
    BY DEF GrowthInv, TypeOK
  <1>2. Keeps(db, r, Handled(db, r))
    BY <1>1, HandledKeeps
  <1>3. db.level \in Levels /\ game.level \in Levels /\ game.level <= db.level
    BY <1>1, RowTypes DEF Behind
  <1>4. Allowed(db.level, r)
    BY <1>3, AllowedUp
  <1>5. PICK e : e = db'
    OBVIOUS
  <1>6. e \in Rows /\ Further(db, e) /\ PointsEarned(e) /\ RanksEarned(e)
    BY <1>1, <1>2, <1>4, <1>5 DEF Keeps
  <1>7. /\ db.exp \in Nat /\ db.level \in Nat /\ game.exp \in Nat /\ game.level \in Nat
        /\ e.exp \in Nat /\ e.level \in Nat /\ e.exp >= db.exp /\ e.level >= db.level
    BY <1>1, <1>6, RowTypes DEF Further
  <1>8. game.exp <= e.exp /\ game.level <= e.level
    BY <1>1, <1>7 DEF Behind
  <1>9. ASSUME NEW g \in Handlers, run[g].st = "done" PROVE Ahead(e, run[g].req, run[g].res)
    <2> SUFFICES ASSUME run[g].res.ok, run[g].req.call = "SaveExperience"
                 PROVE  run[g].req.exp <= e.exp /\ run[g].req.level <= e.level
      BY DEF Ahead
    <2>1. run[g].req \in ExpReqs
      <3>1. run[g].req \in Requests
        BY <1>1, <1>9 DEF CallsOK, Called
      <3> QED BY <3>1, KindOf
    <2>2. run[g].req.exp \in Nat /\ run[g].req.level \in Nat
      BY <2>1, TableAssumption DEF ExpReqs, Levels, TopLevel
    <2>3. run[g].req.exp <= db.exp /\ run[g].req.level <= db.level
      BY <1>1, <1>9 DEF Behind, Ahead
    <2> QED BY <1>7, <2>2, <2>3
  <1> QED BY <1>5, <1>6, <1>8, <1>9

\* The master serves a request: the row keeps what it has, and may gain.
LEMMA ServeKeeps ==
  ASSUME GrowthInv, NEW h \in Handlers, Serve(h)
  PROVE  GrowthInv' /\ Further(db, db')
  <1>0. /\ TypeOK /\ CallsOK /\ Held /\ HolderAsked /\ AllAllowed /\ Behind
        /\ RanksEarned(game) /\ Agreement
    BY DEF GrowthInv
  <1> DEFINE r == run[h].req
             out == Handled(db, r)
  <1>1. /\ run[h].st = "sent" /\ db' = out.row
        /\ run' = [run EXCEPT ![h].st = "done", ![h].res = out.res]
        /\ game' = game /\ lock' = lock /\ linkLock' = linkLock /\ late' = late /\ fails' = fails
    BY DEF Serve
  <1>2. run \in [Handlers -> Calls] /\ run[h] \in Calls /\ r \in Requests /\ Allowed(game.level, r)
    BY <1>0, <1>1 DEF TypeOK, CallsOK, Called, AllAllowed
  <1>3. Keeps(db, r, out)
    BY <1>0, <1>2, HandledKeeps DEF TypeOK
  <1>4. /\ db' \in Rows /\ Further(db, db') /\ PointsEarned(db') /\ RanksEarned(db')
        /\ game.exp <= db'.exp /\ game.level <= db'.level
        /\ \A g \in Handlers : run[g].st = "done" => Ahead(db', run[g].req, run[g].res)
    BY <1>1, <1>2, RowMovesOn
  <1>5. Fits(r, out.res) /\ out.res \in Answers
    BY <1>3 DEF Keeps, Fits
  <1> HIDE DEF r, out
  <1>6. PICK c : c = [run[h] EXCEPT !.st = "done", !.res = out.res]
    OBVIOUS
  <1>7. run' = [run EXCEPT ![h] = c]
    BY <1>1, <1>2, <1>6 DEF Calls
  <1>8. c \in Calls /\ c.st = "done" /\ c.req = r /\ c.res = out.res
    BY <1>2, <1>5, <1>6 DEF Calls, Stages, r
  <1>9. /\ run' \in [Handlers -> Calls] /\ run'[h] = c
        /\ \A g \in Handlers : g # h => run'[g] = run[g]
    BY <1>2, <1>7, <1>8
  <1>10. Called(c) /\ (Locking(c) <=> Locking(run[h]))
    BY <1>1, <1>2, <1>5, <1>8 DEF Called, Locking, r
  <1>11. TypeOK'
    BY <1>0, <1>1, <1>4, <1>9 DEF TypeOK
  <1>12. CallsOK'
    BY <1>0, <1>9, <1>10 DEF CallsOK
  <1>13. Held'
    <2> SUFFICES ASSUME NEW g \in Handlers PROVE lock' = g <=> Locking(run'[g])
      BY DEF Held, Locking
    <2> QED BY <1>0, <1>1, <1>9, <1>10 DEF Held
  <1>14. HolderAsked' /\ AllAllowed'
    <2>1. \A g \in Handlers : run'[g].req = run[g].req
      BY <1>8, <1>9 DEF r
    <2>2. \A g \in Handlers : run'[g].st # "idle" => run[g].st # "idle"
      BY <1>1, <1>9
    <2> QED BY <1>0, <1>1, <2>1, <2>2 DEF HolderAsked, AllAllowed, Asked, Allowed
  <1>15. Behind'
    <2>1. Ahead(db', c.req, c.res)
      BY <1>1, <1>3, <1>8 DEF Keeps
    <2> QED BY <1>1, <1>4, <1>9, <2>1 DEF Behind, Ahead
  <1>16. Agreement'
    <2> SUFFICES ASSUME fails = 0
                 PROVE  /\ late = {}
                        /\ lock = None => Agree(game, db')
                        /\ \A g \in Handlers : lock = g => Differs(game, db', run'[g])
      BY <1>1 DEF Agreement, Differs, Agree, AgreeAfter
    <2>1. /\ late = {}
          /\ lock = None => Agree(game, db)
          /\ \A g \in Handlers : lock = g => Differs(game, db, run[g])
      BY <1>0 DEF Agreement
    <2>2. Agree(game, game)
      BY DEF Agree
    <2>3. lock # h => Agree(db', db)
      <3> SUFFICES ASSUME lock # h PROVE Agree(db', db)
        OBVIOUS
      <3>1. r.call \notin LockedCalls
        BY <1>0, <1>1 DEF Held, Locking, r
      <3> QED BY <1>1, <1>3, <3>1 DEF Keeps
    <2>4. lock = None => Agree(game, db')
      <3> SUFFICES ASSUME lock = None PROVE Agree(game, db')
        OBVIOUS
      <3>1. Agree(db', db) /\ Agree(game, db)
        BY <2>1, <2>3, StartAssumption
      <3> QED BY <3>1 DEF Agree
    <2>5. ASSUME NEW g \in Handlers, lock = g PROVE Differs(game, db', run'[g])
      <3>1. CASE g # h
        BY <1>9, <2>1, <2>2, <2>3, <2>5, <3>1, DiffersSame
      <3>2. CASE g = h
        <4>1. Agree(game, db)
          BY <1>1, <2>1, <2>5, <3>2 DEF Differs
        <4>2. r.call \in LockedCalls
          BY <1>0, <2>5, <3>2 DEF Held, Locking, r
        <4>3. CASE out.res.ok
          <5>1. AgreeAfter(game, db', r, out.res)
            BY <1>1, <1>3, <4>1, <4>2, <4>3 DEF Keeps
          <5> QED BY <1>8, <1>9, <3>2, <4>3, <5>1 DEF Differs
        <4>4. CASE ~ out.res.ok
          <5>1. db' = db
            BY <1>1, <1>3, <4>4 DEF Keeps
          <5> QED BY <1>8, <1>9, <3>2, <4>1, <4>4, <5>1 DEF Differs
        <4> QED BY <4>3, <4>4
      <3> QED BY <3>1, <3>2
    <2> QED BY <2>1, <2>4, <2>5
  <1>17. RanksEarned(game')
    BY <1>0, <1>1
  <1> QED BY <1>4, <1>11, <1>12, <1>13, <1>14, <1>15, <1>16, <1>17 DEF GrowthInv, PointsEarned, RanksEarned

\* A call fails; its request may still be on its way.
LEMMA FailsKeeps ==
  ASSUME GrowthInv, NEW h \in Handlers, CallFails(h)
  PROVE  GrowthInv' /\ db' = db
  <1>0. /\ TypeOK /\ CallsOK /\ Held /\ HolderAsked /\ AllAllowed /\ Behind
        /\ PointsEarned(db) /\ RanksEarned(db) /\ RanksEarned(game)
    BY DEF GrowthInv
  <1>1. /\ run[h].st \in {"sent", "done"} /\ fails' = fails + 1
        /\ run' = [run EXCEPT ![h].st = "done", ![h].res = Failed]
        /\ db' = db /\ game' = game /\ lock' = lock /\ linkLock' = linkLock
        /\ late' = late \/ late' = late \cup {run[h].req}
    BY DEF CallFails
  <1>2. run \in [Handlers -> Calls] /\ run[h] \in Calls /\ run[h].req \in Requests
        /\ Allowed(game.level, run[h].req) /\ fails \in Nat
    BY <1>0, <1>1 DEF TypeOK, CallsOK, Called, AllAllowed
  <1>3. Failed \in Answers /\ Failed.ok = FALSE
    BY DEF Failed, Answers, PlainAnswers
  <1>4. PICK c : c = [run[h] EXCEPT !.st = "done", !.res = Failed]
    OBVIOUS
  <1>5. run' = [run EXCEPT ![h] = c]
    BY <1>1, <1>2, <1>4 DEF Calls
  <1>6. c \in Calls /\ c.st = "done" /\ c.req = run[h].req /\ c.res = Failed
    BY <1>2, <1>3, <1>4 DEF Calls, Stages
  <1>7. /\ run' \in [Handlers -> Calls] /\ run'[h] = c
        /\ \A g \in Handlers : g # h => run'[g] = run[g]
    BY <1>2, <1>5, <1>6
  <1>8. Called(c) /\ (Locking(c) <=> Locking(run[h])) /\ Ahead(db, c.req, c.res)
    BY <1>1, <1>2, <1>3, <1>6 DEF Called, Locking, Fits, Ahead
  <1>9. \A g \in Handlers : run'[g].req = run[g].req /\ (run'[g].st # "idle" => run[g].st # "idle")
    BY <1>1, <1>6, <1>7
  <1>10. TypeOK'
    BY <1>0, <1>1, <1>2, <1>7 DEF TypeOK
  <1>11. CallsOK'
    BY <1>0, <1>7, <1>8 DEF CallsOK
  <1>12. Held'
    <2> SUFFICES ASSUME NEW g \in Handlers PROVE lock' = g <=> Locking(run'[g])
      BY DEF Held, Locking
    <2> QED BY <1>0, <1>1, <1>7, <1>8 DEF Held
  <1>13. HolderAsked'
    BY <1>0, <1>1, <1>9 DEF HolderAsked, Asked
  <1>14. AllAllowed'
    BY <1>0, <1>1, <1>2, <1>9 DEF AllAllowed, Allowed
  <1>15. Behind'
    BY <1>0, <1>1, <1>7, <1>8 DEF Behind, Ahead
  <1>16. Agreement'
    BY <1>1, <1>2 DEF Agreement
  <1> QED BY <1>0, <1>1, <1>10, <1>11, <1>12, <1>13, <1>14, <1>15, <1>16
          DEF GrowthInv, PointsEarned, RanksEarned

\* The master serves a request whose caller has given up.
LEMMA ServeLateKeeps ==
  ASSUME GrowthInv, ServeLate
  PROVE  GrowthInv' /\ Further(db, db')
  <1>0. /\ TypeOK /\ CallsOK /\ Held /\ HolderAsked /\ AllAllowed /\ RanksEarned(game) /\ Agreement
    BY DEF GrowthInv
  <1>1. PICK r \in late : db' = Handled(db, r).row /\ late' = late \ {r}
    BY DEF ServeLate
  <1>2. game' = game /\ lock' = lock /\ linkLock' = linkLock /\ run' = run /\ fails' = fails
    BY DEF ServeLate
  <1>3. r \in Requests /\ Allowed(game.level, r)
    BY <1>0 DEF TypeOK, AllAllowed
  <1>4. /\ db' \in Rows /\ Further(db, db') /\ PointsEarned(db') /\ RanksEarned(db')
        /\ game.exp <= db'.exp /\ game.level <= db'.level
        /\ \A g \in Handlers : run[g].st = "done" => Ahead(db', run[g].req, run[g].res)
    BY <1>1, <1>3, RowMovesOn
  <1>5. TypeOK'
    BY <1>0, <1>1, <1>2, <1>4 DEF TypeOK
  <1>6. CallsOK' /\ Held' /\ HolderAsked'
    BY <1>0, <1>2 DEF CallsOK, Called, Held, Locking, HolderAsked, Asked
  <1>7. AllAllowed'
    BY <1>0, <1>1, <1>2 DEF AllAllowed, Allowed
  <1>8. Behind'
    BY <1>2, <1>4 DEF Behind, Ahead
  <1>9. Agreement'
    BY <1>0, <1>1, <1>2 DEF Agreement
  <1>10. RanksEarned(game')
    BY <1>0, <1>2
  <1> QED BY <1>4, <1>5, <1>6, <1>7, <1>8, <1>9, <1>10 DEF GrowthInv, PointsEarned, RanksEarned

----------------------------------------------------------------------------
(* The answers. *)

\* A handler without the mutex leaves its columns alone.
LEMMA UnlockedKeeps ==
  ASSUME GrowthInv, NEW h \in Handlers, run[h].st = "done", run[h].req.call \notin LockedCalls,
         NEW more \in Seq(Steps), Finish(h, more), db' = db, late' = late, fails' = fails,
         lock' = lock, linkLock' \in Handlers \cup {None}, game' \in Rows, Agree(game', game)
  PROVE  GrowthInv'
  <1>1. game \in Rows /\ RanksEarned(game) /\ Behind /\ run[h] \in Calls
    BY DEF GrowthInv, TypeOK
  <1>2. lock # h
    BY DEF GrowthInv, Held, Locking
  <1>3. PICK todo : todo = run[h].todo \o more
    OBVIOUS
  <1>4. todo \in Seq(Steps) /\ run' = [run EXCEPT ![h] = Doing(todo)]
    BY <1>1, <1>3, CallTypes DEF Finish
  <1>5. RanksEarned(game')
    BY <1>1, AgreeEarns
  <1>6. game'.exp = game.exp /\ game'.level = game.level /\ game.level \in Nat
    BY <1>1, RowTypes DEF Agree
  <1>7. game'.level >= game.level /\ game'.exp <= db.exp /\ game'.level <= db.level
    BY <1>1, <1>6 DEF Behind
  <1> QED BY <1>2, <1>4, <1>5, <1>7, AnswerKeeps

\* A handler with the mutex takes over what the row has become.
LEMMA HolderKeeps ==
  ASSUME GrowthInv, NEW h \in Handlers, run[h].st = "done", run[h].req.call \in LockedCalls, run[h].res.ok,
         NEW more \in Seq(Steps), Finish(h, more), Unlock(h), db' = db, late' = late, fails' = fails,
         linkLock' = linkLock, game' \in Rows, RanksEarned(game'), game'.level >= game.level,
         game'.exp <= db.exp, game'.level <= db.level,
         AgreeAfter(game, db, run[h].req, run[h].res) => Agree(game', db)
  PROVE  GrowthInv'
  <1>1. run[h] \in Calls /\ linkLock' \in Handlers \cup {None} /\ Held /\ Agreement
    BY DEF GrowthInv, TypeOK
  <1>2. lock = h
    BY <1>1 DEF Held, Locking
  <1>3. PICK todo : todo = run[h].todo \o more
    OBVIOUS
  <1>4. todo \in Seq(Steps) /\ run' = [run EXCEPT ![h] = Doing(todo)]
    BY <1>1, <1>3, CallTypes DEF Finish
  <1>5. fails = 0 => Agree(game', db)
    BY <1>1, <1>2 DEF Agreement, Differs
  <1>6. lock' = IF lock = h THEN None ELSE lock
    BY DEF Unlock
  <1> QED BY <1>1, <1>2, <1>4, <1>5, <1>6, AnswerKeeps

\* An answer that says no.
LEMMA RefusedKeeps ==
  ASSUME GrowthInv, NEW h \in Handlers, Refused(h)
  PROVE  GrowthInv'
  <1>1. /\ run[h].st = "done" /\ ~ run[h].res.ok /\ Finish(h, <<>>) /\ Unlock(h) /\ UnlockLinks(h)
        /\ game' = game /\ db' = db /\ late' = late /\ fails' = fails
    BY DEF Refused, master
  <1>2. /\ game \in Rows /\ RanksEarned(game) /\ Behind /\ run[h] \in Calls /\ Agreement
        /\ linkLock \in Handlers \cup {None}
    BY DEF GrowthInv, TypeOK
  <1>3. PICK todo : todo = run[h].todo \o <<>>
    OBVIOUS
  <1>4. todo \in Seq(Steps) /\ run' = [run EXCEPT ![h] = Doing(todo)]
    BY <1>1, <1>2, <1>3, CallTypes DEF Finish
  <1>5. linkLock' \in Handlers \cup {None} /\ lock' = IF lock = h THEN None ELSE lock
    BY <1>1, <1>2 DEF Unlock, UnlockLinks
  <1>6. game'.level >= game.level /\ game'.exp <= db.exp /\ game'.level <= db.level
    BY <1>1, <1>2, RowTypes DEF Behind
  <1>7. lock = h => (fails = 0 => Agree(game', db))
    BY <1>1, <1>2 DEF Agreement, Differs
  <1>8. Agree(game', game)
    BY <1>1 DEF Agree
  <1>9. RanksEarned(game') /\ game' \in Rows
    BY <1>1, <1>2
  <1> QED BY <1>1, <1>4, <1>5, <1>6, <1>7, <1>8, <1>9, AnswerKeeps

\* The copy takes the saved experience and level.
LEMMA ExperienceSavedKeeps ==
  ASSUME GrowthInv, NEW h \in Handlers, ExperienceSaved(h)
  PROVE  GrowthInv'
  <1>1. /\ run[h].st = "done" /\ run[h].res.ok /\ run[h].req.call = "SaveExperience"
        /\ game' = Experienced(game, run[h].req)
        /\ Finish(h, If(run[h].req.level > run[h].req.was.level, <<<<"grant", 0>>>>))
        /\ Unlock(h) /\ linkLock' = linkLock /\ db' = db /\ late' = late /\ fails' = fails
    BY DEF ExperienceSaved, Answered, master
  <1>2. /\ game \in Rows /\ db \in Rows /\ RanksEarned(game) /\ Behind /\ Held /\ HolderAsked
        /\ run[h].req \in Requests
    BY <1>1 DEF GrowthInv, TypeOK, CallsOK, Called
  <1>3. PICK r : r = run[h].req
    OBVIOUS
  <1>4. r \in ExpReqs /\ run[h].req.call \in LockedCalls /\ lock = h
    BY <1>1, <1>2, <1>3, KindOf DEF LockedCalls, Held, Locking
  <1>5. r.was.exp = game.exp /\ r.was.level = game.level
    BY <1>1, <1>2, <1>3, <1>4 DEF HolderAsked, Asked
  <1>6. SaveExperience(game, r) = Done(game')
    BY <1>1, <1>3, <1>5 DEF SaveExperience
  <1>7. Keeps(game, r, Done(game'))
    BY <1>2, <1>4, <1>6, ExperienceKeeps
  <1>8. Allowed(game.level, r)
    BY <1>1, <1>3 DEF Allowed
  <1>9. game' \in Rows /\ RanksEarned(game') /\ Further(game, game')
    <2>1. PICK e : e = game'
      OBVIOUS
    <2>2. Keeps(game, r, Done(e)) /\ Done(e).row = e
      BY <1>7, <2>1, DoneIs
    <2>3. e \in Rows /\ RanksEarned(e) /\ Further(game, e)
      BY <1>2, <1>8, <2>2 DEF Keeps
    <2> QED BY <2>1, <2>3
  <1>10. game'.level >= game.level
    BY <1>9 DEF Further
  <1>11. /\ game'.exp = r.exp /\ game'.level = r.level /\ game'.prog = game.prog
         /\ game'.skill = game.skill /\ game'.alz = game.alz
    <2>1. PICK e : e = game'
      OBVIOUS
    <2>2. PICK full : full = IF r.max # 0 THEN [game EXCEPT !.cur = r.max, !.max = r.max] ELSE game
      OBVIOUS
    <2>3. r.max \in Nat
      BY <1>4 DEF ExpReqs
    <2>4. full \in Rows /\ full.prog = game.prog /\ full.skill = game.skill /\ full.alz = game.alz
      <3>1. CASE r.max # 0
        <4>1. full = [game EXCEPT !.cur = r.max, !.max = r.max]
          BY <2>2, <3>1
        <4> QED BY <1>2, <2>3, <4>1 DEF Rows
      <3>2. CASE r.max = 0
        BY <1>2, <2>2, <3>2
      <3> QED BY <3>1, <3>2
    <2>5. e = [full EXCEPT !.exp = r.exp, !.level = r.level, !.pnt = full.pnt + r.points]
      BY <1>1, <1>3, <2>1, <2>2, <2>4 DEF Experienced, Rows
    <2>6. /\ e.exp = r.exp /\ e.level = r.level /\ e.prog = full.prog
          /\ e.skill = full.skill /\ e.alz = full.alz
      BY <2>4, <2>5 DEF Rows
    <2> QED BY <2>1, <2>4, <2>6
  <1>12. r.exp <= db.exp /\ r.level <= db.level
    BY <1>1, <1>2, <1>3 DEF Behind, Ahead
  <1>13. AgreeAfter(game, db, run[h].req, run[h].res) => Agree(game', db)
    BY <1>1, <1>3, <1>11 DEF AgreeAfter, Agree
  <1>14. If(run[h].req.level > run[h].req.was.level, <<<<"grant", 0>>>>) \in Seq(Steps)
    BY OneStep, IfTypes
  <1> QED BY <1>1, <1>4, <1>9, <1>10, <1>11, <1>12, <1>13, <1>14, HolderKeeps

\* The copy takes the saved ranks.
LEMMA SkillExperienceSavedKeeps ==
  ASSUME GrowthInv, NEW h \in Handlers, SkillExperienceSaved(h)
  PROVE  GrowthInv'
  <1>0. PICK new : new = run[h].req.new
    OBVIOUS
  <1>1. /\ run[h].st = "done" /\ run[h].res.ok /\ run[h].req.call = "SaveSkillExperience"
        /\ game' = [game EXCEPT !.prog = new.prog, !.stat = new.stat, !.cur = new.cur, !.max = new.max]
        /\ Finish(h, <<>>) /\ Unlock(h) /\ linkLock' = linkLock /\ db' = db /\ late' = late /\ fails' = fails
    BY <1>0 DEF SkillExperienceSaved, Answered, master
  <1>2. /\ game \in Rows /\ RanksEarned(game) /\ Behind /\ run[h].req \in Requests
        /\ Allowed(game.level, run[h].req)
    BY <1>1 DEF GrowthInv, TypeOK, CallsOK, Called, AllAllowed
  <1>3. run[h].req \in SkillExpReqs /\ run[h].req.call \in LockedCalls
    BY <1>1, <1>2, KindOf DEF LockedCalls
  <1>4. new \in Columns /\ \A t \in Types : Filled(new.prog[t])
    BY <1>0, <1>3 DEF SkillExpReqs
  <1>5. \A t \in Types : new.prog[t].rank <= SkillRankLimitFor(game.level)
    BY <1>0, <1>1, <1>2 DEF Allowed
  <1>6. PICK e : e = game'
    OBVIOUS
  <1>7. /\ e \in Rows /\ e.prog = new.prog /\ e.exp = game.exp /\ e.level = game.level
        /\ e.skill = game.skill /\ e.alz = game.alz
    BY <1>1, <1>2, <1>4, <1>6 DEF Rows, Columns
  <1>8. RanksEarned(e)
    BY <1>2, <1>4, <1>5, <1>7, EarnedMeans
  <1>9. game'.level >= game.level /\ game'.exp <= db.exp /\ game'.level <= db.level
    BY <1>2, <1>6, <1>7, RowTypes DEF Behind
  <1>10. AgreeAfter(game, db, run[h].req, run[h].res) => Agree(game', db)
    BY <1>0, <1>1, <1>6, <1>7 DEF AgreeAfter, Agree
  <1>11. <<>> \in Seq(Steps)
    OBVIOUS
  <1> QED BY <1>1, <1>3, <1>6, <1>7, <1>8, <1>9, <1>10, <1>11, HolderKeeps

\* The copy takes a trained skill, or gives one up.
LEMMA TrainedAnswersKeep ==
  ASSUME GrowthInv, NEW h \in Handlers, SkillSaved(h) \/ SkillUntrained(h)
  PROVE  GrowthInv'
  <1>0. /\ game \in Rows /\ RanksEarned(game) /\ Behind /\ <<>> \in Seq(Steps)
        /\ run[h].st = "done" => run[h].req \in Requests /\ Fits(run[h].req, run[h].res)
    BY DEF GrowthInv, TypeOK, CallsOK, Called
  <1>1. ASSUME NEW e, e = game', e \in Rows, e.exp = game.exp, e.level = game.level, e.prog = game.prog
        PROVE  RanksEarned(game') /\ game'.level >= game.level /\ game'.exp <= db.exp /\ game'.level <= db.level
    <2>1. RanksEarned(e)
      BY <1>0, <1>1, EarnedMeans
    <2> QED BY <1>0, <1>1, <2>1, RowTypes DEF Behind
  <1>2. ASSUME SkillSaved(h) PROVE GrowthInv'
    <2>1. /\ run[h].st = "done" /\ run[h].res.ok /\ run[h].req.call = "SaveSkill"
          /\ game' = [game EXCEPT !.skill = run[h].req.previous + 1]
          /\ Finish(h, <<>>) /\ Unlock(h) /\ linkLock' = linkLock /\ db' = db /\ late' = late /\ fails' = fails
      BY <1>2 DEF SkillSaved, Answered, master
    <2>2. run[h].req.previous + 1 \in Nat /\ run[h].req.call \in LockedCalls
      BY <1>0, <2>1, KindOf DEF TrainReqs, LockedCalls
    <2>3. PICK e : e = game'
      OBVIOUS
    <2>4. /\ e \in Rows /\ e.exp = game.exp /\ e.level = game.level /\ e.prog = game.prog
          /\ e.skill = run[h].req.previous + 1 /\ e.alz = game.alz
      BY <1>0, <2>1, <2>2, <2>3 DEF Rows
    <2>5. RanksEarned(game') /\ game'.level >= game.level /\ game'.exp <= db.exp /\ game'.level <= db.level
      BY <1>1, <2>3, <2>4
    <2>6. AgreeAfter(game, db, run[h].req, run[h].res) => Agree(game', db)
      BY <2>1, <2>3, <2>4 DEF AgreeAfter, Agree
    <2> QED BY <1>0, <2>1, <2>2, <2>3, <2>4, <2>5, <2>6, HolderKeeps
  <1>3. ASSUME SkillUntrained(h) PROVE GrowthInv'
    <2>0. PICK res : res = run[h].res
      OBVIOUS
    <2>1. /\ run[h].st = "done" /\ res.ok /\ run[h].req.call = "UntrainSkill"
          /\ game' = [game EXCEPT !.alz = res.alz, !.skill = res.level,
                                  !.links = IF res.level = 0 THEN Without(@, Skill) ELSE @]
          /\ Finish(h, <<>>) /\ Unlock(h) /\ linkLock' = linkLock /\ db' = db /\ late' = late /\ fails' = fails
      BY <1>3, <2>0 DEF SkillUntrained, Answered, master
    <2>2. res \in UntrainAnswers /\ run[h].req.call \in LockedCalls
      BY <1>0, <2>0, <2>1 DEF Fits, LockedCalls
    <2>3. res.level \in Nat /\ res.alz \in Nat
      BY <2>2 DEF UntrainAnswers
    <2>4. PICK links : links = IF res.level = 0 THEN Without(game.links, Skill) ELSE game.links
      OBVIOUS
    <2>5. links \in [Slots -> Links]
      BY <1>0, <2>4, LinksTyped, RowTypes
    <2>6. PICK e : e = game'
      OBVIOUS
    <2>7. e = [game EXCEPT !.alz = res.alz, !.skill = res.level, !.links = links]
      BY <1>0, <2>1, <2>4, <2>6 DEF Rows
    <2>8. /\ e \in Rows /\ e.exp = game.exp /\ e.level = game.level /\ e.prog = game.prog
          /\ e.skill = res.level /\ e.alz = res.alz
      BY <1>0, <2>3, <2>5, <2>7 DEF Rows
    <2>9. RanksEarned(game') /\ game'.level >= game.level /\ game'.exp <= db.exp /\ game'.level <= db.level
      BY <1>1, <2>6, <2>8
    <2>10. AgreeAfter(game, db, run[h].req, run[h].res) => Agree(game', db)
      BY <2>0, <2>1, <2>6, <2>8 DEF AgreeAfter, Agree
    <2> QED BY <1>0, <2>0, <2>1, <2>2, <2>6, <2>8, <2>9, <2>10, HolderKeeps
  <1> QED BY <1>2, <1>3

\* The answers about vitals, stats and granted skills.
LEMMA OtherAnswersKeep ==
  ASSUME GrowthInv, NEW h \in Handlers, VitalsSaved(h) \/ StatSaved(h) \/ SkillsGranted(h)
  PROVE  GrowthInv'
  <1>0. /\ game \in Rows /\ linkLock \in Handlers \cup {None} /\ <<>> \in Seq(Steps)
        /\ run[h].st = "done" => run[h].req \in Requests /\ Fits(run[h].req, run[h].res)
    BY DEF GrowthInv, TypeOK, CallsOK, Called
  <1>1. ASSUME VitalsSaved(h) PROVE GrowthInv'
    <2>1. /\ run[h].st = "done" /\ run[h].req.call = "SaveVitals" /\ Finish(h, <<>>) /\ game' = game
          /\ lock' = lock /\ linkLock' = linkLock /\ db' = db /\ late' = late /\ fails' = fails
      BY <1>1 DEF VitalsSaved, Answered, master
    <2>2. run[h].req.call \notin LockedCalls /\ game' \in Rows /\ Agree(game', game)
      BY <1>0, <2>1 DEF LockedCalls, Agree
    <2> QED BY <1>0, <2>1, <2>2, UnlockedKeeps
  <1>2. ASSUME StatSaved(h) PROVE GrowthInv'
    <2>0. PICK res : res = run[h].res
      OBVIOUS
    <2>1. /\ run[h].st = "done" /\ run[h].req.call \in {"SaveStat", "SaveStatDistribution"} /\ res.ok
          /\ Finish(h, <<>>) /\ game' = [game EXCEPT !.stat = res.stat, !.pnt = res.pnt]
          /\ lock' = lock /\ linkLock' = linkLock /\ db' = db /\ late' = late /\ fails' = fails
      BY <1>2, <2>0 DEF StatSaved, Answered, master
    <2>2. run[h].req.call \notin LockedCalls /\ res \in StatAnswers
      BY <1>0, <2>0, <2>1 DEF LockedCalls, Fits
    <2>3. res.stat \in Nat /\ res.pnt \in Nat
      BY <2>2 DEF StatAnswers
    <2>4. game' \in Rows /\ Agree(game', game)
      <3>1. PICK e : e = game'
        OBVIOUS
      <3>2. e \in Rows /\ Agree(e, game)
        BY <1>0, <2>1, <2>3, <3>1 DEF Rows, Agree
      <3> QED BY <3>1, <3>2
    <2> QED BY <1>0, <2>1, <2>2, <2>4, UnlockedKeeps
  <1>3. ASSUME SkillsGranted(h) PROVE GrowthInv'
    <2>0. PICK res : res = run[h].res
      OBVIOUS
    <2>1. /\ run[h].st = "done" /\ run[h].req.call = "GrantBattleModeSkills" /\ res.ok
          /\ Finish(h, <<>>)
          /\ game' = [game EXCEPT !.granted = (@ \ res.removed) \cup res.added]
          /\ lock' = lock /\ linkLock' = linkLock /\ db' = db /\ late' = late /\ fails' = fails
      BY <1>3, <2>0 DEF SkillsGranted, Answered, master
    <2>2. run[h].req.call \notin LockedCalls /\ res \in GrantAnswers
      BY <1>0, <2>0, <2>1 DEF LockedCalls, Fits
    <2>3. PICK granted : granted = (game.granted \ res.removed) \cup res.added
      OBVIOUS
    <2>4. granted \in SUBSET BattleSkills
      BY <1>0, <2>2, <2>3, RowTypes DEF GrantAnswers
    <2>5. game' \in Rows /\ Agree(game', game)
      <3>1. PICK e : e = game'
        OBVIOUS
      <3>2. e = [game EXCEPT !.granted = granted]
        BY <1>0, <2>1, <2>3, <3>1 DEF Rows
      <3>3. e \in Rows /\ Agree(e, game)
        BY <1>0, <2>4, <3>2 DEF Rows, Agree
      <3> QED BY <3>1, <3>3
    <2> QED BY <1>0, <2>1, <2>2, <2>5, UnlockedKeeps
  <1> QED BY <1>1, <1>2, <1>3

\* The answers about quick links.
LEMMA LinkAnswersKeep ==
  ASSUME GrowthInv, NEW h \in Handlers, LinkSetSaved(h) \/ LinkRemoved(h) \/ LinksSwapped(h)
  PROVE  GrowthInv'
  <1>0. /\ game \in Rows /\ linkLock \in Handlers \cup {None} /\ <<>> \in Seq(Steps)
        /\ run[h].st = "done" => run[h].req \in Requests
        /\ game.links \in [Slots -> Links] /\ None \in Links
    BY RowTypes DEF GrowthInv, TypeOK, CallsOK, Called, Links
  <1>1. ASSUME NEW links \in [Slots -> Links], game' = [game EXCEPT !.links = links]
        PROVE  game' \in Rows /\ Agree(game', game)
    <2>1. PICK e : e = game'
      OBVIOUS
    <2>2. e \in Rows /\ Agree(e, game)
      BY <1>0, <1>1, <2>1 DEF Rows, Agree
    <2> QED BY <2>1, <2>2
  <1>2. PICK r : r = run[h].req
    OBVIOUS
  <1>3. ASSUME LinkSetSaved(h) PROVE GrowthInv'
    <2>1. /\ run[h].st = "done" /\ run[h].req.call = "QuickLinkSet"
          /\ Finish(h, <<>>) /\ game' = [game EXCEPT !.links[r.slot] = r.link]
          /\ lock' = lock /\ linkLock' = linkLock /\ db' = db /\ late' = late /\ fails' = fails
      BY <1>2, <1>3 DEF LinkSetSaved, Answered, master
    <2>2. run[h].req.call \notin LockedCalls /\ r \in SetReqs
      BY <1>0, <1>2, <2>1, KindOf DEF LockedCalls
    <2>3. PICK links : links = [game.links EXCEPT ![r.slot] = r.link]
      OBVIOUS
    <2>4. links \in [Slots -> Links]
      BY <1>0, <2>2, <2>3 DEF SetReqs
    <2>5. game' = [game EXCEPT !.links = links]
      BY <1>0, <2>1, <2>3 DEF Rows
    <2>6. game' \in Rows /\ Agree(game', game)
      BY <1>1, <2>4, <2>5
    <2> QED BY <1>0, <2>1, <2>2, <2>6, UnlockedKeeps
  <1>4. ASSUME LinkRemoved(h) PROVE GrowthInv'
    <2>1. /\ run[h].st = "done" /\ run[h].req.call = "QuickLinkRemove"
          /\ Finish(h, <<>>) /\ game' = [game EXCEPT !.links[r.slot] = None]
          /\ lock' = lock /\ UnlockLinks(h) /\ db' = db /\ late' = late /\ fails' = fails
      BY <1>2, <1>4 DEF LinkRemoved, Answered, master
    <2>2. run[h].req.call \notin LockedCalls /\ r \in RemoveReqs
      BY <1>0, <1>2, <2>1, KindOf DEF LockedCalls
    <2>3. PICK links : links = [game.links EXCEPT ![r.slot] = None]
      OBVIOUS
    <2>4. links \in [Slots -> Links]
      BY <1>0, <2>2, <2>3 DEF RemoveReqs
    <2>5. game' = [game EXCEPT !.links = links]
      BY <1>0, <2>1, <2>3 DEF Rows
    <2>6. game' \in Rows /\ Agree(game', game)
      BY <1>1, <2>4, <2>5
    <2>7. linkLock' \in Handlers \cup {None}
      BY <1>0, <2>1 DEF UnlockLinks
    <2> QED BY <1>0, <2>1, <2>2, <2>6, <2>7, UnlockedKeeps
  <1>5. ASSUME LinksSwapped(h) PROVE GrowthInv'
    <2>1. /\ run[h].st = "done" /\ run[h].req.call = "QuickLinkSwap" /\ Finish(h, <<>>)
          /\ game' = [game EXCEPT !.links[r.slot] = r.new, !.links[r.to] = r.old]
          /\ lock' = lock /\ UnlockLinks(h) /\ db' = db /\ late' = late /\ fails' = fails
      BY <1>2, <1>5 DEF LinksSwapped, Answered, master
    <2>2. run[h].req.call \notin LockedCalls /\ r \in SwapReqs
      BY <1>0, <1>2, <2>1, KindOf DEF LockedCalls
    <2>3. PICK links : links = [game.links EXCEPT ![r.slot] = r.new, ![r.to] = r.old]
      OBVIOUS
    <2>4. links \in [Slots -> Links]
      BY <1>0, <2>2, <2>3 DEF SwapReqs
    <2>5. game' = [game EXCEPT !.links = links]
      BY <1>0, <2>1, <2>3 DEF Rows
    <2>6. game' \in Rows /\ Agree(game', game)
      BY <1>1, <2>4, <2>5
    <2>7. linkLock' \in Handlers \cup {None}
      BY <1>0, <2>1 DEF UnlockLinks
    <2> QED BY <1>0, <2>1, <2>2, <2>6, <2>7, UnlockedKeeps
  <1> QED BY <1>3, <1>4, <1>5

----------------------------------------------------------------------------
(* The theorems. *)

\* A new character is a row that has earned what it has.
LEMMA StartEarned == Start \in Rows /\ PointsEarned(Start) /\ RanksEarned(Start)
  <1> DEFINE p == [exp |-> 0, point |-> 0, rankExp |-> 0, rank |-> 1]
             prog == [t \in Types |-> p]
  <1>1. MaxRank \in Nat \ {0} /\ 1 \in Ranks /\ 1 \in Levels
    BY RankAssumption, FirstLevel DEF Ranks
  <1>2. p \in Progress /\ p.exp = 0 /\ p.point = 0 /\ p.rankExp = 0 /\ p.rank = 1
    BY <1>1 DEF Progress
  <1>3. Filled(p)
    <2>1. PointsBelow[1] = 0 /\ ExpForPoint[1] \in Nat /\ PointsForRank[1] \in Nat \ {0}
      BY <1>1, BelowRanks, RankAssumption DEF Ranks
    <2> HIDE DEF p
    <2> QED BY <1>2, <2>1 DEF Filled
  <1> HIDE DEF p
  <1>4. prog \in [Types -> Progress] /\ \A t \in Types : prog[t] = p
    BY <1>2
  <1> HIDE DEF prog
  <1>5. FindBattleModeSkillsForLevel(1) \in SUBSET BattleSkills
    BY DEF FindBattleModeSkillsForLevel
  <1>6. [s \in Slots |-> None] \in [Slots -> Links]
    BY DEF Links
  <1>7. /\ BaseStat \in Nat /\ BaseVital \in Nat /\ StartSkill \in Nat /\ StartAlz \in Nat
    BY StartAssumption
  <1>8. PICK s : s = Start
    OBVIOUS
  <1>9. s = [exp |-> 0, level |-> 1, pnt |-> 0, stat |-> BaseStat, cur |-> BaseVital, max |-> BaseVital,
             prog |-> prog, granted |-> FindBattleModeSkillsForLevel(1),
             skill |-> StartSkill, alz |-> StartAlz, links |-> [x \in Slots |-> None]]
    BY <1>8 DEF Start, prog, p
  <1>10. s.exp = 0 /\ s.level = 1 /\ s.pnt = 0 /\ s.stat = BaseStat /\ s.prog = prog
    BY <1>9
  <1>11. s \in Rows
    BY <1>1, <1>4, <1>5, <1>6, <1>7, <1>9 DEF Rows
  <1>12. PointsEarned(s)
    <2>1. "sword" \in Types /\ "magic" \in Types
      BY DEF Types
    <2>2. Bonuses(prog) = 0
      BY <1>2, <1>4, <2>1, BelowRanks DEF Bonuses
    <2>3. StatPoints * (1 - 1) = 0
      BY TableAssumption
    <2> QED BY <1>7, <1>10, <2>2, <2>3, EarnedMeans
  <1>13. RanksEarned(s)
    <2>1. 1 <= SkillRankLimitFor(1)
      BY <1>1, LimitGrows
    <2>2. s.level = LevelForExperience(1, s.exp)
      BY <1>10, FirstLevel
    <2>3. \A t \in Types : s.prog[t].rank <= SkillRankLimitFor(s.level) /\ Filled(s.prog[t])
      BY <1>2, <1>3, <1>4, <1>10, <2>1
    <2> QED BY <2>2, <2>3, EarnedMeans
  <1> QED BY <1>8, <1>11, <1>12, <1>13

\* The invariant holds at first.
LEMMA GrowthInit == Init => GrowthInv
  <1> SUFFICES ASSUME Init PROVE GrowthInv
    OBVIOUS
  <1>1. /\ db = Start /\ game = Start /\ lock = None /\ linkLock = None
        /\ run = [h \in Handlers |-> Idle] /\ late = {} /\ fails = 0
    BY DEF Init
  <1>2. <<>> \in Seq(Steps)
    OBVIOUS
  <1>3. Idle \in Calls /\ Idle.st = "idle" /\ \A h \in Handlers : run[h] = Idle
    BY <1>1, <1>2 DEF Idle, Calls, Stages
  <1>4. TypeOK
    BY <1>1, <1>3, StartEarned DEF TypeOK
  <1>5. CallsOK
    BY <1>3 DEF CallsOK, Called
  <1>6. Held /\ HolderAsked
    BY <1>1, <1>3, StartAssumption DEF Held, HolderAsked, Locking
  <1>7. AllAllowed
    BY <1>1, <1>3 DEF AllAllowed
  <1>8. Behind
    BY <1>1, <1>3, StartEarned, RowTypes DEF Behind
  <1>9. Agreement
    BY <1>1, StartAssumption DEF Agreement, Agree
  <1> QED BY <1>1, <1>4, <1>5, <1>6, <1>7, <1>8, <1>9, StartEarned DEF GrowthInv

\* Only the calls change the row.
LEMMA RowUntouched ==
  ASSUME NEW h \in Handlers,
         \/ Fight(h) \/ Spend(h) \/ Train(h)
         \/ AddExperience(h) \/ \E t \in Types : AddSkillExperience(h, t)
         \/ saveContextVitals(h) \/ ensureBattleModeSkills(h) \/ LinkSwapCall(h) \/ Refused(h)
         \/ ExperienceSaved(h) \/ SkillExperienceSaved(h) \/ VitalsSaved(h) \/ StatSaved(h)
         \/ SkillsGranted(h) \/ SkillSaved(h) \/ SkillUntrained(h)
         \/ LinkSetSaved(h) \/ LinkRemoved(h) \/ LinksSwapped(h)
  PROVE  db' = db
  <1>1. Fight(h) \/ Spend(h) \/ Train(h) => db' = db
    BY DEF Fight, Spend, Train, AttckToMobs, SkillToMobs, Revive, UseStatBons, UserStatAutoDistribution,
           UpgradeSkill, Untrain, LinkSet, LinkRemove, LinkSwap
  <1>2. AddExperience(h) \/ (\E t \in Types : AddSkillExperience(h, t)) \/ saveContextVitals(h)
          \/ ensureBattleModeSkills(h) \/ LinkSwapCall(h) => db' = db
    BY DEF AddExperience, AddSkillExperience, saveContextVitals, ensureBattleModeSkills, LinkSwapCall
  <1>3. Refused(h) \/ ExperienceSaved(h) \/ SkillExperienceSaved(h) \/ VitalsSaved(h) \/ StatSaved(h)
          => db' = db
    BY DEF Refused, ExperienceSaved, SkillExperienceSaved, VitalsSaved, StatSaved, master
  <1>4. SkillsGranted(h) \/ SkillSaved(h) \/ SkillUntrained(h) \/ LinkSetSaved(h) \/ LinkRemoved(h)
          \/ LinksSwapped(h) => db' = db
    BY DEF SkillsGranted, SkillSaved, SkillUntrained, LinkSetSaved, LinkRemoved, LinksSwapped, master
  <1> QED BY <1>1, <1>2, <1>3, <1>4

\* A step keeps the invariant, and takes nothing back from the row.
LEMMA GrowthStep ==
  ASSUME GrowthInv, [Next]_vars
  PROVE  GrowthInv' /\ Further(db, db')
  <1>0. db \in Rows
    BY DEF GrowthInv, TypeOK
  <1>1. Agree(db, db)
    BY DEF Agree
  <1>2. Further(db, db)
    BY <1>0, <1>1, AgreeEarns
  <1>3. CASE UNCHANGED vars
    <2>1. GrowthInv'
      <3>1. TypeOK' /\ CallsOK' /\ Held' /\ HolderAsked'
        BY <1>3 DEF vars, GrowthInv, TypeOK, CallsOK, Held, HolderAsked
      <3>2. AllAllowed' /\ Behind' /\ Agreement'
        BY <1>3 DEF vars, GrowthInv, AllAllowed, Behind, Agreement
      <3>3. (PointsEarned(db) /\ RanksEarned(db) /\ RanksEarned(game))'
        BY <1>3 DEF vars, GrowthInv
      <3> QED BY <3>1, <3>2, <3>3 DEF GrowthInv
    <2> QED BY <1>2, <1>3, <2>1 DEF vars
  <1>4. CASE ServeLate
    BY <1>4, ServeLateKeeps
  <1>5. ASSUME NEW h \in Handlers, Fight(h) \/ Spend(h) \/ Train(h) \/ Step(h) \/ CallFails(h)
        PROVE  GrowthInv' /\ Further(db, db')
    <2>1. CASE CallFails(h)
      BY <1>2, <2>1, FailsKeeps
    <2>2. CASE Serve(h)
      BY <2>2, ServeKeeps
    <2>3. CASE Fight(h) \/ Spend(h) \/ Train(h)
      BY <1>2, <2>3, FightKeeps, SpendKeeps, TrainKeeps, RowUntouched
    <2>4. CASE AddExperience(h) \/ \E t \in Types : AddSkillExperience(h, t)
      BY <1>2, <2>4, AddExperienceKeeps, AddSkillExperienceKeeps, RowUntouched
    <2>5. CASE saveContextVitals(h) \/ ensureBattleModeSkills(h) \/ LinkSwapCall(h)
      BY <1>2, <2>5, SmallStepsKeep, RowUntouched
    <2>6. CASE Refused(h) \/ ExperienceSaved(h) \/ SkillExperienceSaved(h)
      BY <1>2, <2>6, RefusedKeeps, ExperienceSavedKeeps, SkillExperienceSavedKeeps, RowUntouched
    <2>7. CASE VitalsSaved(h) \/ StatSaved(h) \/ SkillsGranted(h)
      BY <1>2, <2>7, OtherAnswersKeep, RowUntouched
    <2>8. CASE SkillSaved(h) \/ SkillUntrained(h)
      BY <1>2, <2>8, TrainedAnswersKeep, RowUntouched
    <2>9. CASE LinkSetSaved(h) \/ LinkRemoved(h) \/ LinksSwapped(h)
      BY <1>2, <2>9, LinkAnswersKeep, RowUntouched
    <2> QED BY <1>5, <2>1, <2>2, <2>3, <2>4, <2>5, <2>6, <2>7, <2>8, <2>9 DEF Step
  <1> QED BY <1>3, <1>4, <1>5 DEF Next

\* Every state that Spec reaches satisfies the inductive invariant: the mutex
\* is held by the handler whose call needs it, no request under way, however
\* late, asks for more than its copy had earned, and the copy is behind the
\* row.
THEOREM GrowthInvariant == Spec => []GrowthInv
  <1>1. GrowthInv /\ [Next]_vars => GrowthInv'
    BY GrowthStep
  <1> QED BY <1>1, GrowthInit, PTL DEF Spec

\* The row has the level, the ranks and the stat points that its experience
\* has earned, for any tables, however many handlers overlap and however many
\* calls fail or are served late (addExperience, addSkillExperienceForType and
\* the handlers of the master server).
THEOREM GrowthEarned == Spec => []Earned
  <1>1. GrowthInv => Earned
    BY DEF GrowthInv, Earned
  <1> QED BY <1>1, GrowthInvariant, PTL

\* As long as no call has failed, the copy and the row agree on experience,
\* level, ranks, the trained skill and Alz whenever ctx.Mutex is free.
THEOREM GrowthLockedAgree == Spec => []LockedAgree
  <1>1. GrowthInv => LockedAgree
    BY DEF GrowthInv, Agreement, Agree, LockedAgree
  <1> QED BY <1>1, GrowthInvariant, PTL

\* No step takes experience, a level, a point or a rank back from the row,
\* not even one that serves the request of a call that failed long ago.
THEOREM GrowthGrows == Spec => Grows
  <1>1. GrowthInv /\ [Next]_vars =>
          [/\ db'.exp >= db.exp /\ db'.level >= db.level
           /\ \A t \in Types : db'.prog[t].point >= db.prog[t].point
                               /\ db'.prog[t].rank >= db.prog[t].rank]_vars
    BY GrowthStep DEF Further
  <1> QED BY <1>1, GrowthInvariant, PTL DEF Spec, Grows

----------------------------------------------------------------------------
(* The copy and the row, for one packet at a time and calls that succeed. *)

\* e is what the handler makes of the copy c after the answer res to r.
Learns(c, e, r, res) ==
    /\ r.call = "SaveExperience" => e = Experienced(c, r)
    /\ r.call = "SaveSkillExperience" =>
         e = [c EXCEPT !.prog = r.new.prog, !.stat = r.new.stat, !.cur = r.new.cur, !.max = r.new.max]
    /\ r.call = "SaveVitals" => e = c
    /\ r.call \in {"SaveStat", "SaveStatDistribution"} =>
         e = [c EXCEPT !.stat = res.stat, !.pnt = res.pnt]
    /\ r.call = "GrantBattleModeSkills" =>
         e = [c EXCEPT !.granted = (@ \ res.removed) \cup res.added]
    /\ r.call = "SaveSkill" => e = [c EXCEPT !.skill = r.previous + 1]
    /\ r.call = "UntrainSkill" =>
         e = [c EXCEPT !.alz = res.alz, !.skill = res.level,
                       !.links = IF res.level = 0 THEN Without(@, Skill) ELSE @]
    /\ r.call = "QuickLinkSet" => e = [c EXCEPT !.links[r.slot] = r.link]
    /\ r.call = "QuickLinkRemove" => e = [c EXCEPT !.links[r.slot] = None]
    /\ r.call = "QuickLinkSwap" => e = [c EXCEPT !.links[r.slot] = r.new, !.links[r.to] = r.old]

\* The links a swap has read are still those of the copy.
SwapRead(c, r) == r.call = "QuickLinkSwap" => r.old = c.links[r.slot] /\ r.new = c.links[r.to]

\* The row d lacks the vitals of the copy at most.
OnlyVitals(c, d) == c = [d EXCEPT !.cur = c.cur, !.max = c.max]
VitalsNext(x) == x.todo # <<>> /\ Head(x.todo)[1] = "vitals"

\* How the copy c and the row d differ while the handler x is at work: by the
\* vitals that it is about to save, or by what it is about to learn.
Follows(c, d, x) ==
    /\ x.st = "idle" => c = d \/ (VitalsNext(x) /\ OnlyVitals(c, d))
    /\ x.st = "ready" => c = d /\ SwapRead(c, x.req)
    /\ x.st = "sent" =>
         IF x.req.call = "SaveVitals"
         THEN x.req.cur = c.cur /\ x.req.max = c.max /\ OnlyVitals(c, d)
         ELSE c = d /\ SwapRead(c, x.req)
    /\ x.st = "done" => IF x.res.ok THEN Learns(c, d, x.req, x.res) ELSE c = d

SoloInv == fails = 0 /\ \A h \in Handlers : Follows(game, db, run[h])

\* The answer to spent stat points carries the new numbers of the row.
LEMMA SpentLearns ==
  ASSUME NEW d, NEW n, NEW out, out = Spent(d, n),
         NEW r, r.call \in {"SaveStat", "SaveStatDistribution"}
  PROVE  Learns(d, out.row, r, out.res)
  <1>1. PICK a, b : a = d.stat + n /\ b = d.pnt - n
    OBVIOUS
  <1>2. out = [row |-> [d EXCEPT !.stat = a, !.pnt = b], res |-> [ok |-> TRUE, stat |-> a, pnt |-> b]]
    BY <1>1 DEF Spent
  <1>3. out.row = [d EXCEPT !.stat = a, !.pnt = b] /\ out.res.stat = a /\ out.res.pnt = b
    BY <1>2
  <1>4. out.row = [d EXCEPT !.stat = out.res.stat, !.pnt = out.res.pnt]
    BY <1>3
  <1> QED BY <1>4 DEF Learns

\* What the master makes of the row is what the handler makes of a copy that
\* was the same, from the request and the answer.
LEMMA HandledLearns ==
  ASSUME NEW d \in Rows, NEW r \in Requests, r.call # "SaveVitals", SwapRead(d, r),
         NEW out, out = Handled(d, r), out.res.ok
  PROVE  Learns(d, out.row, r, out.res)
  <1>0. ~ Rejected(d).res.ok
    BY DEF Rejected
  <1>1. CASE r.call = "SaveExperience"
    <2>1. out = SaveExperience(d, r)
      BY <1>1 DEF Handled
    <2>2. out.row = Experienced(d, r)
      BY <1>0, <2>1, DoneIs DEF SaveExperience
    <2> QED BY <1>1, <2>2 DEF Learns
  <1>2. CASE r.call = "SaveSkillExperience"
    <2>1. out = SaveSkillExperience(d, r)
      BY <1>2 DEF Handled
    <2>2. out.row = [d EXCEPT !.prog = r.new.prog, !.stat = r.new.stat, !.cur = r.new.cur, !.max = r.new.max]
      BY <1>0, <2>1, DoneIs DEF SaveSkillExperience
    <2> QED BY <1>2, <2>2 DEF Learns
  <1>3. CASE r.call = "SaveStat"
    <2>1. out = SaveStat(d, r)
      BY <1>3 DEF Handled
    <2>2. ~ (d.pnt = 0 \/ d.pnt # r.pnt)
      BY <1>0, <2>1 DEF SaveStat
    <2>3. out = Spent(d, 1)
      BY <2>1, <2>2 DEF SaveStat, Rows, Spent
    <2> QED BY <1>3, <2>3, SpentLearns
  <1>4. CASE r.call = "SaveStatDistribution"
    <2>1. out = SaveStatDistribution(d, r)
      BY <1>4 DEF Handled
    <2>2. ~ (r.points = 0 \/ d.pnt # r.pnt \/ r.points > d.pnt)
      BY <1>0, <2>1 DEF SaveStatDistribution
    <2>3. out = Spent(d, r.points)
      BY <2>1, <2>2 DEF SaveStatDistribution, Rows, Spent
    <2> QED BY <1>4, <2>3, SpentLearns
  <1>5. CASE r.call = "GrantBattleModeSkills"
    <2>1. out = GrantBattleModeSkills(d, r)
      BY <1>5 DEF Handled
    <2>2. /\ out.row = [d EXCEPT !.granted = r.skills]
          /\ out.res.added = r.skills \ d.granted /\ out.res.removed = d.granted \ r.skills
      BY <2>1 DEF GrantBattleModeSkills
    <2>3. (d.granted \ out.res.removed) \cup out.res.added = r.skills
      BY <2>2
    <2>4. out.row = [d EXCEPT !.granted = (d.granted \ out.res.removed) \cup out.res.added]
      BY <2>2, <2>3
    <2> QED BY <1>5, <2>4 DEF Learns, Rows
  <1>6. CASE r.call = "SaveSkill"
    <2>1. out = SaveSkill(d, r)
      BY <1>6 DEF Handled
    <2>2. out.row = [d EXCEPT !.skill = r.previous + 1]
      BY <1>0, <2>1, DoneIs DEF SaveSkill
    <2> QED BY <1>6, <2>2 DEF Learns
  <1>7. CASE r.call = "UntrainSkill"
    <2>1. out = UntrainSkill(d, r)
      BY <1>7 DEF Handled
    <2>2. d.skill \in Nat /\ out.res.level = d.skill - 1
      BY <1>0, <2>1, RowTypes DEF UntrainSkill
    <2>3. d.skill = 1 <=> out.res.level = 0
      BY <2>2
    <2>4. PICK links : links = IF d.skill = 1 THEN Without(d.links, Skill) ELSE d.links
      OBVIOUS
    <2>5. ~ (d.alz < UntrainPrice \/ d.skill = 0 \/ d.skill # r.previous)
      BY <1>0, <2>1 DEF UntrainSkill
    <2>6. /\ out.row = [d EXCEPT !.skill = d.skill - 1, !.alz = d.alz - UntrainPrice, !.links = links]
          /\ out.res.level = d.skill - 1 /\ out.res.alz = d.alz - UntrainPrice
      BY <2>1, <2>4, <2>5 DEF UntrainSkill, Rows
    <2>7. out.row = [d EXCEPT !.alz = out.res.alz, !.skill = out.res.level, !.links = links]
      <3>1. PICK a, b : a = d.skill - 1 /\ b = d.alz - UntrainPrice
        OBVIOUS
      <3>2. [d EXCEPT !.skill = a, !.alz = b, !.links = links]
              = [d EXCEPT !.alz = b, !.skill = a, !.links = links]
        BY DEF Rows
      <3> QED BY <2>6, <3>1, <3>2
    <2>8. links = IF out.res.level = 0 THEN Without(d.links, Skill) ELSE d.links
      BY <2>3, <2>4
    <2> QED BY <1>7, <2>7, <2>8 DEF Learns, Rows
  <1>8. CASE r.call = "QuickLinkSet"
    <2>1. out = QuickLinkSet(d, r)
      BY <1>8 DEF Handled
    <2>2. out.row = [d EXCEPT !.links[r.slot] = r.link]
      BY <2>1, DoneIs DEF QuickLinkSet
    <2> QED BY <1>8, <2>2 DEF Learns
  <1>9. CASE r.call = "QuickLinkRemove"
    <2>1. out = QuickLinkRemove(d, r)
      BY <1>9 DEF Handled
    <2>2. out.row = [d EXCEPT !.links[r.slot] = None]
      BY <2>1, DoneIs DEF QuickLinkRemove
    <2> QED BY <1>9, <2>2 DEF Learns
  <1>10. CASE r.call = "QuickLinkSwap"
    <2>1. out = QuickLinkSwap(d, r)
      BY <1>10 DEF Handled
    <2>2. PICK links : links = [d.links EXCEPT ![r.slot] = r.new, ![r.to] = r.old]
      OBVIOUS
    <2>3. r.old = d.links[r.slot] /\ r.new = d.links[r.to]
      BY <1>10 DEF SwapRead
    <2>4. links = [d.links EXCEPT ![r.slot] = d.links[r.to], ![r.to] = d.links[r.slot]]
      BY <2>2, <2>3
    <2>5. PICK e : e = [d EXCEPT !.links = links]
      OBVIOUS
    <2>6. QuickLinkSwap(d, r) = Done(e)
      BY <2>4, <2>5 DEF QuickLinkSwap, Rows
    <2>7. out.row = e
      BY <2>1, <2>6, DoneIs
    <2>8. e = [d EXCEPT !.links[r.slot] = r.new, !.links[r.to] = r.old]
      BY <2>2, <2>5 DEF Rows
    <2> QED BY <1>10, <2>7, <2>8 DEF Learns
  <1>11. r.call \in {"SaveExperience", "SaveSkillExperience", "SaveSkill", "UntrainSkill", "SaveStat",
                     "SaveStatDistribution", "GrantBattleModeSkills", "QuickLinkSet",
                     "QuickLinkRemove", "QuickLinkSwap"}
    BY DEF Requests, LockedReqs, OtherReqs, ExpReqs, SkillExpReqs, TrainReqs, VitalsReqs, StatReqs,
           DistributionReqs, GrantReqs, SetReqs, RemoveReqs, SwapReqs
  <1> QED BY <1>1, <1>2, <1>3, <1>4, <1>5, <1>6, <1>7, <1>8, <1>9, <1>10, <1>11

\* The master serves a request of the only handler.
LEMMA ServeFollows ==
  ASSUME GrowthInv, NEW h \in Handlers, Follows(game, db, run[h]), Serve(h)
  PROVE  Follows(game', db', run'[h])
  <1> DEFINE r == run[h].req
             out == Handled(db, r)
  <1>1. /\ run[h].st = "sent" /\ db' = out.row /\ game' = game
        /\ run' = [run EXCEPT ![h].st = "done", ![h].res = out.res]
    BY DEF Serve
  <1>2. /\ run \in [Handlers -> Calls] /\ run[h] \in Calls /\ r \in Requests
        /\ db \in Rows /\ game \in Rows
    BY <1>1 DEF GrowthInv, TypeOK, CallsOK, Called
  <1>3. PICK c : c = [run[h] EXCEPT !.st = "done", !.res = out.res]
    OBVIOUS
  <1>4. run'[h] = c
    BY <1>1, <1>2, <1>3 DEF Calls
  <1>5. c.st = "done" /\ c.req = r /\ c.res = out.res
    BY <1>2, <1>3 DEF Calls
  <1>6. Keeps(db, r, out)
    BY <1>2, HandledKeeps
  <1>7. CASE r.call = "SaveVitals"
    <2>1. r.cur = game.cur /\ r.max = game.max /\ OnlyVitals(game, db)
      BY <1>1, <1>7 DEF Follows
    <2>2. out = Done([db EXCEPT !.cur = r.cur, !.max = r.max])
      BY <1>7 DEF Handled, SaveVitals
    <2>3. out.row = game /\ out.res.ok
      <3>1. game = [db EXCEPT !.cur = r.cur, !.max = r.max]
        BY <2>1 DEF OnlyVitals
      <3>2. out = Done(game)
        BY <2>2, <3>1
      <3> HIDE DEF out
      <3> QED BY <3>2, DoneIs
    <2>4. Learns(game, out.row, r, out.res)
      BY <1>7, <2>3 DEF Learns
    <2> QED BY <1>1, <1>4, <1>5, <2>3, <2>4 DEF Follows
  <1>8. CASE r.call # "SaveVitals"
    <2>1. game = db /\ SwapRead(db, r)
      BY <1>1, <1>8 DEF Follows
    <2>2. ~ out.res.ok => out.row = db
      BY <1>6 DEF Keeps
    <2>3. out.res.ok => Learns(db, out.row, r, out.res)
      BY <1>2, <1>8, <2>1, HandledLearns
    <2> HIDE DEF r, out
    <2> QED BY <1>1, <1>4, <1>5, <2>1, <2>2, <2>3 DEF Follows
  <1> QED BY <1>7, <1>8

\* A handler that goes on with its list after a call, or skips a step, with a
\* copy that is the row.
LEMMA DoingFollows ==
  ASSUME GrowthInv, NEW h \in Handlers, NEW todo,
         run' = [run EXCEPT ![h] = Doing(todo)], game' = db'
  PROVE  Follows(game', db', run'[h])
  <1>1. run'[h] = Doing(todo)
    BY DEF GrowthInv, TypeOK
  <1>2. Doing(todo).st = "idle"
    BY DEF Doing, Idle
  <1> QED BY <1>1, <1>2 DEF Follows

\* A handler that learns the answer of its call.
LEMMA AnswerFollows ==
  ASSUME GrowthInv, NEW h \in Handlers, Follows(game, db, run[h]),
         \/ Refused(h) \/ ExperienceSaved(h) \/ SkillExperienceSaved(h) \/ VitalsSaved(h) \/ StatSaved(h)
         \/ SkillsGranted(h) \/ SkillSaved(h) \/ SkillUntrained(h)
         \/ LinkSetSaved(h) \/ LinkRemoved(h) \/ LinksSwapped(h)
  PROVE  Follows(game', db', run'[h])
  <1>1. \E more : Finish(h, more)
    BY DEF Refused, ExperienceSaved, SkillExperienceSaved, VitalsSaved, StatSaved, SkillsGranted,
           SkillSaved, SkillUntrained, LinkSetSaved, LinkRemoved, LinksSwapped
  <1>2. db' = db
    BY DEF Refused, ExperienceSaved, SkillExperienceSaved, VitalsSaved, StatSaved, SkillsGranted,
           SkillSaved, SkillUntrained, LinkSetSaved, LinkRemoved, LinksSwapped, master
  <1>3. game' = db
    <2>1. CASE Refused(h)
      BY <2>1 DEF Refused, Follows
    <2>2. CASE ExperienceSaved(h)
      BY <2>2 DEF ExperienceSaved, Answered, Follows, Learns
    <2>3. CASE SkillExperienceSaved(h)
      BY <2>3 DEF SkillExperienceSaved, Answered, Follows, Learns
    <2>4. CASE VitalsSaved(h)
      BY <2>4 DEF VitalsSaved, Answered, Follows, Learns
    <2>5. CASE StatSaved(h)
      BY <2>5 DEF StatSaved, Answered, Follows, Learns
    <2>6. CASE SkillsGranted(h)
      BY <2>6 DEF SkillsGranted, Answered, Follows, Learns
    <2>7. CASE SkillSaved(h)
      BY <2>7 DEF SkillSaved, Answered, Follows, Learns
    <2>8. CASE SkillUntrained(h)
      BY <2>8 DEF SkillUntrained, Answered, Follows, Learns
    <2>9. CASE LinkSetSaved(h)
      BY <2>9 DEF LinkSetSaved, Answered, Follows, Learns
    <2>10. CASE LinkRemoved(h)
      BY <2>10 DEF LinkRemoved, Answered, Follows, Learns
    <2>11. CASE LinksSwapped(h)
      BY <2>11 DEF LinksSwapped, Answered, Follows, Learns
    <2> QED BY <2>1, <2>2, <2>3, <2>4, <2>5, <2>6, <2>7, <2>8, <2>9, <2>10, <2>11
  <1> QED BY <1>1, <1>2, <1>3, DoingFollows DEF Finish

\* A handler that sends a request other than its vitals.
LEMMA SendFollows ==
  ASSUME GrowthInv, NEW h \in Handlers, game = db, NEW todo, NEW r,
         r.call # "SaveVitals", SwapRead(game, r), Send(h, todo, r), game' = game, db' = db
  PROVE  Follows(game', db', run'[h])
  <1>1. PICK c : c = [todo |-> todo, st |-> "sent", req |-> r, res |-> None]
    OBVIOUS
  <1>2. run'[h] = c
    BY <1>1 DEF GrowthInv, TypeOK, Send
  <1>3. c.st = "sent" /\ c.req = r
    BY <1>1
  <1> QED BY <1>2, <1>3 DEF Follows

\* The row with the vitals of a copy that differs by nothing else.
LEMMA VitalsDiffer ==
  ASSUME NEW d \in Rows, NEW n
  PROVE  OnlyVitals([d EXCEPT !.cur = n], d) /\ OnlyVitals(d, d)
  BY DEF OnlyVitals, Rows

\* A fight starts from a copy that is the row; it may take MP, and then saves
\* the vitals before everything else.
LEMMA FightFollows ==
  ASSUME GrowthInv, NEW h \in Handlers, Follows(game, db, run[h]), Fight(h)
  PROVE  Follows(game', db', run'[h])
  <1>0. run \in [Handlers -> Calls] /\ game \in Rows /\ db \in Rows
    BY DEF GrowthInv, TypeOK
  <1>1. Free(h) /\ db' = db
    BY DEF Fight, AttckToMobs, SkillToMobs, Revive
  <1>2. run[h].st = "idle" /\ run[h].todo = <<>>
    BY <1>1 DEF Free, Idle
  <1>3. game = db
    BY <1>2 DEF Follows, VitalsNext
  <1>4. CASE AttckToMobs(h, BOOLEAN)
    BY <1>1, <1>3, <1>4, DoingFollows DEF AttckToMobs
  <1>5. ASSUME NEW n, game' = [game EXCEPT !.cur = n], NEW rest \in Seq(Steps),
               run' = [run EXCEPT ![h] = Doing(<<<<"vitals", 0>>>> \o rest)]
        PROVE  Follows(game', db', run'[h])
    <2>1. PICK todo : todo = <<<<"vitals", 0>>>> \o rest
      OBVIOUS
    <2>2. <<<<"vitals", 0>>>> \in Seq(Steps) /\ Len(<<<<"vitals", 0>>>>) = 1
      BY DEF Steps
    <2>3. todo \in Seq(Steps) /\ todo # <<>> /\ Head(todo) = <<"vitals", 0>>
      BY <2>1, <2>2
    <2>4. run'[h] = Doing(todo)
      BY <1>0, <1>5, <2>1
    <2>5. Doing(todo).st = "idle" /\ Doing(todo).todo = todo
      BY <2>3, DoingTypes
    <2>6. VitalsNext(Doing(todo))
      BY <2>3, <2>5 DEF VitalsNext
    <2>7. OnlyVitals(game', db')
      BY <1>0, <1>1, <1>3, <1>5, VitalsDiffer
    <2> QED BY <2>4, <2>5, <2>6, <2>7 DEF Follows
  <1>6. CASE SkillToMobs(h, ManaCosts, SkillGains \cup {0}, BOOLEAN)
    <2>1. PICK cost \in ManaCosts, gained \in Gains \cup {0}, skillGained \in SkillGains \cup {0},
               spirit \in BOOLEAN :
            /\ game' = [game EXCEPT !.cur = game.cur - cost]
            /\ run' = [run EXCEPT ![h] = Doing(SkillSteps(spirit \/ cost # 0, skillGained, gained))]
      BY <1>0, <1>6 DEF SkillToMobs, consumeSkillMana, Rows
    <2>2. gained \in Nat /\ skillGained \in Nat
      BY GainAssumption
    <2>3. CASE spirit \/ cost # 0
      <3>1. PICK a, b : /\ a = If(skillGained # 0, addSkillExperience(skillGained))
                        /\ b = If(gained # 0, <<<<"exp", gained>>>>)
        OBVIOUS
      <3>2. a \in Seq(Steps) /\ b \in Seq(Steps)
        <4>1. addSkillExperience(skillGained) \in Seq(Steps) /\ <<<<"exp", gained>>>> \in Seq(Steps)
          BY <2>2 DEF addSkillExperience, Steps
        <4> QED BY <3>1, <4>1, IfTypes
      <3>3. PICK v : v = <<<<"vitals", 0>>>>
        OBVIOUS
      <3>4. v \in Seq(Steps)
        BY <3>3 DEF Steps
      <3>5. SkillSteps(spirit \/ cost # 0, skillGained, gained) = (v \o a) \o b
        BY <2>3, <3>1, <3>3 DEF SkillSteps, If
      <3>6. (v \o a) \o b = v \o (a \o b) /\ a \o b \in Seq(Steps)
        BY <3>2, <3>4
      <3> QED BY <1>5, <2>1, <3>3, <3>5, <3>6
    <2>4. CASE ~ (spirit \/ cost # 0)
      <3>1. game' = game
        <4>1. game.cur \in Nat /\ cost = 0
          BY <1>0, <2>4, RowTypes
        <4>2. game.cur - cost = game.cur
          BY <4>1
        <4>3. game' = [game EXCEPT !.cur = game.cur]
          BY <2>1, <4>2
        <4> QED BY <1>0, <4>3 DEF Rows
      <3> QED BY <1>1, <1>3, <2>1, <3>1, DoingFollows
    <2> QED BY <2>3, <2>4
  <1>7. CASE Revive(h)
    <2>1. PICK v : v = <<<<"vitals", 0>>>>
      OBVIOUS
    <2>2. v \in Seq(Steps) /\ <<>> \in Seq(Steps)
      BY <2>1 DEF Steps
    <2>3. v \o <<>> = v
      BY <2>2
    <2>4. game' = [game EXCEPT !.cur = game.max] /\ run' = [run EXCEPT ![h] = Doing(v \o <<>>)]
      BY <1>7, <2>1, <2>3 DEF Revive
    <2> QED BY <1>5, <2>1, <2>2, <2>4
  <1> QED BY <1>4, <1>6, <1>7 DEF Fight

\* Nothing but the vitals is left to save between two packets, and between
\* the steps of one.
LEMMA IdleCopy ==
  ASSUME NEW h \in Handlers, Follows(game, db, run[h])
  PROVE  /\ Free(h) => game = db
         /\ \A step : At(h, step) /\ step # "vitals" => game = db
         /\ At(h, "vitals") => game = db \/ OnlyVitals(game, db)
  <1>1. ASSUME Free(h) PROVE game = db
    <2>1. run[h].st = "idle" /\ run[h].todo = <<>>
      BY <1>1 DEF Free, Idle
    <2> QED BY <2>1 DEF Follows, VitalsNext
  <1>2. ASSUME NEW step, At(h, step), step # "vitals" PROVE game = db
    BY <1>2 DEF At, Follows, VitalsNext
  <1>3. ASSUME At(h, "vitals") PROVE game = db \/ OnlyVitals(game, db)
    BY <1>3 DEF At, Follows
  <1> QED BY <1>1, <1>2, <1>3

\* Points are spent, skills trained and links set from a copy that is the row.
LEMMA AskFollows ==
  ASSUME GrowthInv, NEW h \in Handlers, Follows(game, db, run[h]), Spend(h) \/ Train(h)
  PROVE  Follows(game', db', run'[h])
  <1>1. Free(h) /\ game' = game /\ db' = db
    BY DEF Spend, Train, UseStatBons, UserStatAutoDistribution, UpgradeSkill, Untrain, LinkSet,
           LinkRemove, LinkSwap
  <1>2. game = db
    BY <1>1, IdleCopy
  <1>3. ASSUME NEW r, r.call \notin {"SaveVitals", "QuickLinkSwap"}, Send(h, <<>>, r)
        PROVE  Follows(game', db', run'[h])
    BY <1>1, <1>2, <1>3, SendFollows DEF SwapRead
  <1>4. CASE UseStatBons(h)
    <2>1. PICK r : r = [call |-> "SaveStat", pnt |-> game.pnt]
      OBVIOUS
    <2>2. r.call = "SaveStat"
      BY <2>1
    <2> QED BY <1>3, <1>4, <2>1, <2>2 DEF UseStatBons
  <1>5. CASE UserStatAutoDistribution(h)
    <2>1. PICK n : Send(h, <<>>, [call |-> "SaveStatDistribution", pnt |-> game.pnt, points |-> n])
      BY <1>5 DEF UserStatAutoDistribution
    <2>2. PICK r : r = [call |-> "SaveStatDistribution", pnt |-> game.pnt, points |-> n]
      OBVIOUS
    <2>3. r.call = "SaveStatDistribution"
      BY <2>2
    <2> QED BY <1>3, <2>1, <2>2, <2>3
  <1>6. CASE UpgradeSkill(h) \/ Untrain(h)
    <2>1. PICK name \in {"SaveSkill", "UntrainSkill"} :
            Send(h, <<>>, [call |-> name, previous |-> game.skill])
      BY <1>6 DEF UpgradeSkill, Untrain
    <2>2. PICK r : r = [call |-> name, previous |-> game.skill]
      OBVIOUS
    <2>3. r.call = name
      BY <2>2
    <2> QED BY <1>3, <2>1, <2>2, <2>3
  <1>7. CASE LinkSet(h, Slots)
    <2>1. PICK s, l : Send(h, <<>>, [call |-> "QuickLinkSet", slot |-> s, link |-> l])
      BY <1>7 DEF LinkSet
    <2>2. PICK r : r = [call |-> "QuickLinkSet", slot |-> s, link |-> l]
      OBVIOUS
    <2>3. r.call = "QuickLinkSet"
      BY <2>2
    <2> QED BY <1>3, <2>1, <2>2, <2>3
  <1>8. CASE LinkRemove(h)
    <2>1. PICK s : Send(h, <<>>, [call |-> "QuickLinkRemove", slot |-> s])
      BY <1>8 DEF LinkRemove
    <2>2. PICK r : r = [call |-> "QuickLinkRemove", slot |-> s]
      OBVIOUS
    <2>3. r.call = "QuickLinkRemove"
      BY <2>2
    <2> QED BY <1>3, <2>1, <2>2, <2>3
  <1>9. CASE LinkSwap(h)
    <2>1. PICK s \in Slots, t \in Slots :
            run' = [run EXCEPT ![h] =
              [Idle EXCEPT !.st = "ready",
                           !.req = [call |-> "QuickLinkSwap", slot |-> s, to |-> t,
                                    old |-> game.links[s], new |-> game.links[t]]]]
      BY <1>9 DEF LinkSwap
    <2>2. PICK r : r = [call |-> "QuickLinkSwap", slot |-> s, to |-> t,
                        old |-> game.links[s], new |-> game.links[t]]
      OBVIOUS
    <2>3. PICK c : c = [Idle EXCEPT !.st = "ready", !.req = r]
      OBVIOUS
    <2>4. c.st = "ready" /\ c.req = r
      BY <2>3 DEF Idle
    <2>5. SwapRead(game, r)
      BY <2>2 DEF SwapRead
    <2>6. run'[h] = c
      BY <2>1, <2>2, <2>3 DEF GrowthInv, TypeOK
    <2> QED BY <1>1, <1>2, <2>4, <2>5, <2>6 DEF Follows
  <1> QED BY <1>4, <1>5, <1>6, <1>7, <1>8, <1>9 DEF Spend, Train

\* Experience is added to a copy that is the row.
LEMMA ExperienceFollows ==
  ASSUME GrowthInv, NEW h \in Handlers, Follows(game, db, run[h]),
         AddExperience(h) \/ \E t \in Types : AddSkillExperience(h, t)
  PROVE  Follows(game', db', run'[h])
  <1>1. game' = game /\ db' = db
    BY DEF AddExperience, AddSkillExperience
  <1>2. game = db
    BY IdleCopy DEF AddExperience, AddSkillExperience, Types
  <1>3. ASSUME Skip(h) PROVE Follows(game', db', run'[h])
    BY <1>1, <1>2, <1>3, DoingFollows DEF Skip
  <1>4. CASE AddExperience(h)
    <2>1. PICK r : r = ExperienceReq(Gained(h))
      OBVIOUS
    <2>2. r.call = "SaveExperience"
      BY <2>1 DEF ExperienceReq
    <2>3. Skip(h) \/ Send(h, Rest(h), r)
      BY <1>4, <2>1 DEF AddExperience
    <2> QED BY <1>1, <1>2, <1>3, <2>2, <2>3, SendFollows DEF SwapRead
  <1>5. ASSUME NEW t \in Types, AddSkillExperience(h, t) PROVE Follows(game', db', run'[h])
    <2>1. PICK r : r = SkillReq(game, t, Gained(h))
      OBVIOUS
    <2>2. r.call = "SaveSkillExperience"
      BY <2>1 DEF SkillReq
    <2>3. Skip(h) \/ Send(h, Rest(h), r)
      BY <1>5, <2>1 DEF AddSkillExperience, SkillReq
    <2> QED BY <1>1, <1>2, <1>3, <2>2, <2>3, SendFollows DEF SwapRead
  <1> QED BY <1>4, <1>5

\* The vitals, the skills of the battle modes and the second half of a swap.
LEMMA SmallStepsFollow ==
  ASSUME GrowthInv, NEW h \in Handlers, Follows(game, db, run[h]),
         saveContextVitals(h) \/ ensureBattleModeSkills(h) \/ LinkSwapCall(h)
  PROVE  Follows(game', db', run'[h])
  <1>0. run \in [Handlers -> Calls] /\ game \in Rows /\ db \in Rows
    BY DEF GrowthInv, TypeOK
  <1>1. game' = game /\ db' = db
    BY DEF saveContextVitals, ensureBattleModeSkills, LinkSwapCall
  <1>2. CASE saveContextVitals(h)
    <2>1. OnlyVitals(game, db)
      BY <1>0, <1>2, IdleCopy, VitalsDiffer DEF saveContextVitals
    <2>2. PICK r : r = [call |-> "SaveVitals", cur |-> game.cur, max |-> game.max]
      OBVIOUS
    <2>3. r.call = "SaveVitals" /\ r.cur = game.cur /\ r.max = game.max
      BY <2>2
    <2>4. PICK c : c = [todo |-> Rest(h), st |-> "sent", req |-> r, res |-> None]
      OBVIOUS
    <2>5. c.st = "sent" /\ c.req = r
      BY <2>4
    <2>6. run'[h] = c
      BY <1>0, <1>2, <2>2, <2>4 DEF saveContextVitals, Send
    <2> QED BY <1>1, <2>1, <2>3, <2>5, <2>6 DEF Follows
  <1>3. CASE ensureBattleModeSkills(h)
    <2>1. game = db
      BY <1>3, IdleCopy DEF ensureBattleModeSkills
    <2>2. PICK r : r = [call |-> "GrantBattleModeSkills", skills |-> FindBattleModeSkillsForLevel(game.level)]
      OBVIOUS
    <2>3. r.call = "GrantBattleModeSkills"
      BY <2>2
    <2>4. Send(h, Rest(h), r)
      BY <1>3, <2>2 DEF ensureBattleModeSkills
    <2> QED BY <1>1, <2>1, <2>3, <2>4, SendFollows DEF SwapRead
  <1>4. CASE LinkSwapCall(h)
    <2>1. run[h].st = "ready" /\ run' = [run EXCEPT ![h].st = "sent"]
      BY <1>4 DEF LinkSwapCall
    <2>2. game = db /\ SwapRead(game, run[h].req) /\ run[h].req \in SwapReqs
      BY <2>1 DEF Follows, GrowthInv, CallsOK, Called
    <2>3. run[h].req.call = "QuickLinkSwap"
      BY <2>2 DEF SwapReqs
    <2>4. PICK c : c = [run[h] EXCEPT !.st = "sent"]
      OBVIOUS
    <2>5. run'[h] = c
      BY <1>0, <2>1, <2>4
    <2>6. c.st = "sent" /\ c.req = run[h].req
      BY <1>0, <2>4 DEF Calls
    <2> QED BY <1>1, <2>2, <2>3, <2>5, <2>6 DEF Follows
  <1> QED BY <1>2, <1>3, <1>4

\* With one handler, and calls that succeed, a step keeps track of what the
\* copy has still to learn and the row has still to save.
LEMMA SoloNext ==
  ASSUME NEW h, Handlers = {h}, MaxFails = 0, GrowthInv, SoloInv, [Next]_vars
  PROVE  SoloInv'
  <1>1. h \in Handlers /\ fails = 0 /\ late = {} /\ Follows(game, db, run[h])
    BY DEF SoloInv, GrowthInv, Agreement
  <1>2. ~ CallFails(h) /\ ~ ServeLate
    BY <1>1 DEF CallFails, ServeLate
  <1>3. CASE Fight(h)
    <2>1. fails' = fails
      BY <1>3 DEF Fight, AttckToMobs, SkillToMobs, Revive
    <2> QED BY <1>1, <1>3, <2>1, FightFollows DEF SoloInv
  <1>4. CASE Spend(h) \/ Train(h)
    <2>1. fails' = fails
      BY <1>4 DEF Spend, Train, UseStatBons, UserStatAutoDistribution, UpgradeSkill, Untrain, LinkSet,
                  LinkRemove, LinkSwap
    <2> QED BY <1>1, <1>4, <2>1, AskFollows DEF SoloInv
  <1>5. CASE Step(h)
    <2>1. CASE AddExperience(h) \/ \E t \in Types : AddSkillExperience(h, t)
      <3>1. fails' = fails
        BY <2>1 DEF AddExperience, AddSkillExperience
      <3> QED BY <1>1, <2>1, <3>1, ExperienceFollows DEF SoloInv
    <2>2. CASE saveContextVitals(h) \/ ensureBattleModeSkills(h) \/ LinkSwapCall(h)
      <3>1. fails' = fails
        BY <2>2 DEF saveContextVitals, ensureBattleModeSkills, LinkSwapCall
      <3> QED BY <1>1, <2>2, <3>1, SmallStepsFollow DEF SoloInv
    <2>3. CASE Serve(h)
      <3>1. fails' = fails
        BY <2>3 DEF Serve
      <3> QED BY <1>1, <2>3, <3>1, ServeFollows DEF SoloInv
    <2>4. CASE \/ Refused(h) \/ ExperienceSaved(h) \/ SkillExperienceSaved(h) \/ VitalsSaved(h)
               \/ StatSaved(h) \/ SkillsGranted(h) \/ SkillSaved(h) \/ SkillUntrained(h)
               \/ LinkSetSaved(h) \/ LinkRemoved(h) \/ LinksSwapped(h)
      <3>1. fails' = fails
        BY <2>4 DEF Refused, ExperienceSaved, SkillExperienceSaved, VitalsSaved, StatSaved,
                    SkillsGranted, SkillSaved, SkillUntrained, LinkSetSaved, LinkRemoved, LinksSwapped,
                    master
      <3>2. Follows(game', db', run'[h])
        BY <1>1, <2>4, AnswerFollows
      <3> QED BY <1>1, <3>1, <3>2 DEF SoloInv
    <2> QED BY <1>5, <2>1, <2>2, <2>3, <2>4 DEF Step
  <1>6. CASE UNCHANGED vars
    BY <1>1, <1>6 DEF SoloInv, vars
  <1> QED BY <1>2, <1>3, <1>4, <1>5, <1>6 DEF Next

\* With one packet at a time, and every call answered, the session's copy of
\* the character is the row whenever no packet is being handled: whatever
\* skill.go, stat.go, hp.go, battle_mode.go and links.go write to the copy is
\* what the master made of the row, for any tables.
THEOREM GrowthCopyFollows ==
  ASSUME NEW h, Handlers = {h}, MaxFails = 0
  PROVE  Spec => []CopyFollows
  <1>1. Init => SoloInv
    <2> SUFFICES ASSUME Init PROVE SoloInv
      OBVIOUS
    <2>1. game = db /\ fails = 0 /\ run[h] = Idle
      BY DEF Init
    <2>2. Idle.st = "idle"
      BY DEF Idle
    <2> QED BY <2>1, <2>2 DEF SoloInv, Follows
  <1>2. GrowthInv /\ SoloInv /\ [Next]_vars => SoloInv'
    BY SoloNext
  <1>3. SoloInv => CopyFollows
    BY IdleCopy DEF SoloInv, CopyFollows, Quiet
  <1> QED BY <1>1, <1>2, <1>3, GrowthInvariant, PTL DEF Spec
=============================================================================

SPECIFICATION MCSpec
CONSTANTS
  Handlers = {h1, h2}
  AccumulatedExp <- MCAccumulatedExp
  LevelsPerRank = 2
  SkillRankLimit <- MCSkillRankLimit
  MaxRank = 2
  ExpForPoint <- MCExpForPoint
  PointsForRank <- MCPointsForRank
  RankBonus <- MCRankBonus
  StatPoints = 1
  MaxExp = 4
  Gains = {1}
  SkillGains = {2}
  ManaCosts = {0, 1}
  MaxSpend = 1
  BattleSkills = {1, 2, 3}
  BaseStat = 0
  BaseVital = 1
  StartSkill = 1
  StartAlz = 1
  MaxSkillLevel = 2
  UntrainPrice = 1
  QuestTrained = FALSE
  Slots = {s1, s2}
  Skill = skill
  OtherSkill = other
  MaxFails = 1
  None = None
INVARIANTS
  Earned
  LockedAgree
  SoloCopies
PROPERTIES
  Grows
SYMMETRY Symmetry
CHECK_DEADLOCK FALSE

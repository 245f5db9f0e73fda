SPECIFICATION Spec
CONSTANTS
  t1 = t1
  t2 = t2
  u1 = u1
  u2 = u2
  r1 = r1
  w1 = w1
  w2 = w2
  Tx = {t1}
  SameId = {t1}
  User = {u1, u2}
  Rule = {r1}
  Claimable <- AllBonuses
  Worker = {w1, w2}
  Channel <- AllCard
  HighValue = {t1}
  BonusAmt = 1
  Requires3ds = {t1}
  SameMillisecond = TRUE
  Ageing = {"reversed"}
  MaxAborts = 1
  MaxRefunds = 1
SYMMETRY WorkersAndUsers
INVARIANTS
  TypeOK
  ProcessedTookEffect
  AckedIsProcessed
  EscrowFollowsMoney
  BonusBacked
PROPERTY LifecycleSpec

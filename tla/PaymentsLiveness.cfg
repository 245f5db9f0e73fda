SPECIFICATION FairSpec
CONSTANTS
  t1 = t1
  t2 = t2
  u1 = u1
  u2 = u2
  r1 = r1
  w1 = w1
  w2 = w2
  Tx = {t1, t2}
  SameId = {t1}
  User = {u1}
  Rule = {r1}
  Claimable <- NoBonus
  Worker = {w1, w2}
  Channel <- AllCard
  HighValue = {t1}
  BonusAmt = 1
  Requires3ds = {}
  SameMillisecond = FALSE
  Ageing = {}
  MaxAborts = 0
  MaxRefunds = 0
PROPERTY ApprovedIsProcessed

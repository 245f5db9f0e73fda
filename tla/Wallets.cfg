SPECIFICATION Spec
CONSTANTS
  u1 = u1
  u2 = u2
  b1 = b1
  b2 = b2
  d1 = d1
  r1 = r1
  r2 = r2
  User = {u1, u2}
  Tier <- Tiers
  Request = {r1, r2}
  Amount = {1, 2}
  WithdrawLimit <- Limits
  InstantLimit = 2
  Bonus = {b1, b2}
  BonusAmt = 2
  BonusOf <- BonusesOf
  Deposit = {d1}
  DepositAmt = 1
  DepositOf <- DepositsOf
  MaxCredits = 2
SYMMETRY Symmetry
INVARIANTS
  TypeOK
  NoOverdraft
  WithinTierLimit
  
  LedgerTellsTruth
PROPERTY CoolingOffKept

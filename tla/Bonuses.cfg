SPECIFICATION Spec
CONSTANTS
  u1 = u1
  cashback = cashback
  review = review
  t1 = t1
  t2 = t2
  w1 = w1
  w2 = w2
  User = {u1}
  Tx = {t1, t2}
  Rule = {cashback, review}
  Amounts <- AmountsOf
  ClaimCapped = {cashback}
  ClaimCap <- Caps
  AmountCapped = {cashback}
  AmountCap <- Caps
  Worker = {w1, w2}
  LastDay = 1
  MaxCount = 2
SYMMETRY Symmetry
INVARIANTS
  TypeOK
  CreditsAreCounted
  PaymentsAreCounted
  WalletHoldsRows

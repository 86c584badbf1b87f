\* Two users bet, cash out and are paid on a binary market.
CONSTANTS
  u1 = u1   u2 = u2   m1 = m1   m2 = m2
  o1 = o1   o2 = o2   o3 = o3   x1 = x1   x2 = x2
  Custody = Custody
  None = None
  Users = {u1, u2}
  MarketIds = {m1}
  OutcomeIds = {o1, o2}
  MarketOf <- MCMarketOf
  ClientKeys = {k1, k2, k3}
  DepositKeys = {d1, d2}
  Stakes = {1}
  Payouts = {3}
  Deposits = {2}
  Q0 = 1
  Accounts <- MCAccounts
  AllowNegative <- MCAllowNegative
  AllowPositive <- MCAccounts
  Keys <- MCKeys
  Amounts = {1, 2}
SYMMETRY MCSymmetry
SPECIFICATION Spec
INVARIANTS
  TypeOK
  PolicyHolds
  BooksBalance
  MoneyTrail
  OneCashoutPerBet
  StatusMatchesRows
  SettledInFull
PROPERTY FinalIsFinal

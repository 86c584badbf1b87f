\* Four concurrent transfers between four accounts, each tried twice.
CONSTANTS
  custody = custody   user = user   house = house   vault = vault
  k0 = k0   k1 = k1   k2 = k2
  deposit = deposit   bet = bet   cashout = cashout   reuse = reuse
  None = None
  Accounts = {custody, user, house, vault}
  AllowNegative = {custody}
  AllowPositive = {custody, user, house, vault}
  Keys = {k0, k1, k2}
  Amounts = {1, 2}
  Requests = {deposit, bet, cashout, reuse}
  ReqOf <- MCReqOf
  MaxAttempts = 2
SPECIFICATION FairSpec
INVARIANTS
  EntriesChain
  AnswersTruthful
PROPERTIES
  LedgerSpec
  EventuallyAnswered
CHECK_DEADLOCK FALSE

SPECIFICATION Spec

CONSTANTS
  u1 = u1
  u2 = u2
  sync = sync
  fixed = fixed
  token = token
  t1 = t1
  t2 = t2
  Users = {u1, u2}
  Keys = {sync, fixed, token}
  Threads = {t1, t2}
  NoUser = NoUser
  NoKey = NoKey
  Owner <- OwnerOf
  Mode <- ModeOf
  Cost = 2
  Cap = 1
  Usage = {1, 2, 3, 5}
  Grant = 4
  Amounts <- Entered
  MaxAdjusted <- Adjusted

SYMMETRY Symmetry
INVARIANT TypeOK
INVARIANT LedgerBalances
INVARIANT GrantedOnce
INVARIANT SettlementAgrees
INVARIANT PaidIsDelivered
PROPERTY MoneyKept
CHECK_DEADLOCK FALSE

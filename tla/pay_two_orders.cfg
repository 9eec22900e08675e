SPECIFICATION Spec
CONSTANTS
  u1 = u1
  a1 = a1
  Workers = {w1, w2}
  Users = {u1}
  Orders = {o1, o2}
  Accounts = {a1}
  SessionIds = {s1, s2}
  RequestIds = {r1, r2}
  OrderBuyer <- OneBuyer
  OrderAccount <- SameAccount
  Prices = {1}
  SessionTtl = 1
  QrTtl = 1
  ClockSkew = 0
  MaxTime = 0
  MaxFaults = 1
  External = {}
  NoWorker = NoWorker
  NoSession = NoSession
  NoOrder = NoOrder
  NoUser = NoUser
  NoRequest = NoRequest
  NoPrice = NoPrice
SYMMETRY IdSymmetry
INVARIANTS TypeOK SettledTogether SoldOnce PaidAnswerTrue NoticeSound NoLockCycle
PROPERTY ImplementsSettlement

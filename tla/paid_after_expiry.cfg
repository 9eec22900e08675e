SPECIFICATION Spec
CONSTANTS
  u1 = u1
  a1 = a1
  Workers = {w1}
  Users = {u1}
  Orders = {o1}
  Accounts = {a1}
  SessionIds = {s1}
  RequestIds = {r1}
  OrderBuyer <- OneBuyer
  OrderAccount <- SameAccount
  Prices = {1}
  SessionTtl = 2
  QrTtl = 2
  ClockSkew = 0
  MaxTime = 3
  MaxFaults = 0
  External = {}
  NoWorker = NoWorker
  NoSession = NoSession
  NoOrder = NoOrder
  NoUser = NoUser
  NoRequest = NoRequest
  NoPrice = NoPrice
PROPERTY ExpiredSessionRefused

SPECIFICATION Spec
CONSTANTS
  u1 = u1
  a1 = a1
  Workers = {w1, w2}
  Users = {u1}
  Orders = {o1}
  Accounts = {a1}
  SessionIds = {s1}
  RequestIds = {r1}
  OrderBuyer <- OneBuyer
  OrderAccount <- SameAccount
  Prices = {1, 2}
  SessionTtl = 1
  QrTtl = 1
  ClockSkew = 0
  MaxTime = 1
  MaxFaults = 0
  External = {"cancel", "reprice", "listing", "freeze"}
  NoWorker = NoWorker
  NoSession = NoSession
  NoOrder = NoOrder
  NoUser = NoUser
  NoRequest = NoRequest
  NoPrice = NoPrice
SYMMETRY IdSymmetry
INVARIANT IInv
PROPERTY PaysOnlyPending

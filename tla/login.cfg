SPECIFICATION Spec
CONSTANTS
  Users = {u1, u2}
  Browsers = {b1}
  Requests = {q1, q2}
  Sids = {s1, s2}
  Identities = {i1}
  Freezable = {u1}
  Ttl = 2
  MaxFaults = 1
  None = None
INVARIANTS TypeOK ActsForItsUser CookieWorks OneUserPerPerson
PROPERTIES LoggedOutRefused FrozenFadesOut

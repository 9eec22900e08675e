--------------------------- MODULE MCPaymentFlow ---------------------------
(***************************************************************************)
(* Small instances of PaymentFlow.  The orders o1 and o2 are for the same  *)
(* account: the case in which settlements of different orders collide.     *)
(***************************************************************************)
EXTENDS PaymentFlow, TLC

CONSTANTS u1, a1

OneBuyer == [o \in Orders |-> u1]
SameAccount == [o \in Orders |-> a1]

\* Workers, orders, session ids and request ids are interchangeable; no safety
\* property tells them apart.
IdSymmetry ==
    Permutations(Workers) \cup Permutations(Orders)
      \cup Permutations(SessionIds) \cup Permutations(RequestIds)
=============================================================================

--------------------------- MODULE MCPaymentResult ---------------------------
(* Every page A waits for a payment session of its own. *)
EXTENDS PaymentResult

CONSTANTS c1, c2, s1, s2

OneSessionEach == [c \in Conns |-> IF c = c1 THEN s1 ELSE s2]
=============================================================================

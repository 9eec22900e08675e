---------------------------- MODULE MCWsRegistry ----------------------------
(* Pages of which two wait for the same session (a page that was loaded again). *)
EXTENDS WsRegistry

CONSTANTS c1, c2, c3, s1, s2

SessionTwice == [c \in Conns |-> IF c = c3 THEN s2 ELSE s1]
=============================================================================

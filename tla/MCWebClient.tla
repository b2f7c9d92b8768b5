---------------------------- MODULE MCWebClient ----------------------------
(* The first user has two orders, the second has none.                     *)
EXTENDS WebClient, TLC

CONSTANTS u1, u2, o1, o2

TwoOrders == o1 :> u1 @@ o2 :> u1
=============================================================================

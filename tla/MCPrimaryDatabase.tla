------------------------- MODULE MCPrimaryDatabase -------------------------
(* Two keys and two DTOs that differ in one index and not in the other, as *)
(* two order_items of one order with different items do.                   *)
EXTENDS PrimaryDatabase, TLC

CONSTANTS d1, d2, s1, s2

MCExtract == <<(d1 :> s1) @@ (d2 :> s2),
               (d1 :> s1) @@ (d2 :> s1)>>

KeySymmetry == Permutations(Keys)
=============================================================================

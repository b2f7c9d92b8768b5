---------------------------- MODULE MCOrderStore ----------------------------
(* Every order carries the same data (what may become of an index when the *)
(* data change is PrimaryDatabase's subject); the ids of orders, and those *)
(* of rows, are interchangeable.  The lines are about the first item, of   *)
(* which an order may have two; the second is in the item file only.       *)
EXTENDS OrderStore, TLC

CONSTANTS d1, s1, i1, i2

MCOrderExtract == <<d1 :> s1, d1 :> s1>>

MCItemOrder == <<i1, i2>>

MCGivenLines == [order : Orders, item : {i1}]

IdSymmetry == Permutations(Orders) \cup Permutations(Rows)
=============================================================================

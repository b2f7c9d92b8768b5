---------------------------- MODULE OrderCatalog ----------------------------
(***************************************************************************)
(* What the order requests promise about the stored catalogue, one atomic  *)
(* step per commit: which orders and items exist and which item each line  *)
(* (row of order_item) puts into which order.  Index files, caches and the *)
(* order in which files are closed are left out; what a crash may have cut *)
(* off is a growing set of damaged lines about which less is promised.     *)
(***************************************************************************)
CONSTANTS
    Orders,     \* order ids
    Items,      \* item ids
    Rows,       \* order_item ids
    OrderData,  \* data of an order
    NoData      \* the absence of an order or a line

VARIABLES
    orders,   \* the data of each order
    items,    \* the items that exist
    lines,    \* what each line says
    damaged   \* lines an interrupted request was writing

LineData == [order : Orders, item : Items]

Init ==
    /\ orders = [o \in Orders |-> NoData]
    /\ items = {}
    /\ lines = [r \in Rows |-> NoData]
    /\ damaged = {}

LinesOf(o) == {r \in Rows : lines[r] # NoData /\ lines[r].order = o}

Without(S) == [r \in Rows |-> IF r \in S THEN NoData ELSE lines[r]]

-----------------------------------------------------------------------------
\* order_add_item and order_item_load: lines are set, never dropped.
PutLines ==
    /\ lines' \in [Rows -> LineData \cup {NoData}]
    /\ \A r \in Rows : lines'[r] = NoData => lines[r] = NoData
    /\ UNCHANGED <<orders, items, damaged>>

\* order_remove_item: one line goes.
RemoveLine(r) ==
    /\ lines' = Without({r})
    /\ UNCHANGED <<orders, items, damaged>>

\* The first commit of order_remove: every line of the order goes, and no
\* other; a damaged line may or may not be found.
ClearOrder(o) ==
    /\ \E S \in SUBSET Rows :
          /\ LinesOf(o) \ damaged \subseteq S
          /\ S \subseteq LinesOf(o) \cup damaged
          /\ lines' = Without(S)
    /\ UNCHANGED <<orders, items, damaged>>

\* Its second commit: the order goes, and it leaves no line behind.
DropOrder(o) ==
    /\ LinesOf(o) \subseteq damaged
    /\ orders' = [orders EXCEPT ![o] = NoData]
    /\ UNCHANGED <<items, lines, damaged>>

\* order_update: an upsert.
PutOrder(o, d) ==
    /\ orders' = [orders EXCEPT ![o] = d]
    /\ UNCHANGED <<items, lines, damaged>>

\* item_update: an upsert.
PutItem(i) ==
    /\ items' = items \cup {i}
    /\ UNCHANGED <<orders, lines, damaged>>

\* A crash only ever adds to the damaged lines.
Damage ==
    /\ damaged' \in SUBSET Rows
    /\ damaged \subseteq damaged'
    /\ UNCHANGED <<orders, items, lines>>

Next ==
    \/ PutLines
    \/ \E r \in Rows : RemoveLine(r)
    \/ \E o \in Orders : ClearOrder(o) \/ DropOrder(o)
    \/ \E o \in Orders, d \in OrderData : PutOrder(o, d)
    \/ \E i \in Items : PutItem(i)
    \/ Damage

Spec == Init /\ [][Next]_<<orders, items, lines, damaged>>

=============================================================================

----------------------------- MODULE WebClient -----------------------------
(***************************************************************************)
(* The page of dconf-home.html.  A click or an answer runs one event       *)
(* handler to its end; the requests it sends are asynchronous, so the user *)
(* clicks on while they are under way.  The server executes a request as   *)
(* a whole; here its store is a number of lines for each order and item.   *)
(* A request may end without an answer: the server is down, dies, or ends  *)
(* the connection because there are errors.  The page has no handler for   *)
(* that and stays as it is.                                                *)
(***************************************************************************)
EXTENDS Naturals, Sequences, FiniteSets, SequencesExt

CONSTANTS
    Users, Orders, Items,
    Owner,        \* the account of each order
    NoUser, NoOrder, NoItem, NoTable, NoAnswer,
    InOrder,      \* requests and answers stay in the order they were sent
    MaxPending,   \* bound: requests and answers under way when the user clicks
    MaxLines,     \* bound: lines in the store when Add is clicked
    MaxLost       \* bound: lost answers under way, and tables stale for one, when the
                  \* next is lost

ASSUME WebClientAssumption ==
    /\ Owner \in [Orders -> Users]
    /\ NoUser \notin Users /\ NoOrder \notin Orders /\ NoItem \notin Items
    /\ InOrder \in BOOLEAN
    /\ MaxPending \in Nat /\ MaxLines \in Nat /\ MaxLost \in Nat

VARIABLES
    userList,      \* the options of User_Select_list.select_list
    user,          \* User_Select_list.data
    orderTable,    \* the rows of Order_table, and whose they are
    highlighted,   \* the row of Order_table that is shown as selected
    order,         \* Order_table.order_id
    editing,       \* Order_table.editing
    itemTable,     \* the rows of Item_table, and of which order
    itemRow,       \* Item_table.selected_row.data.item_id
    poolTable,     \* the rows of Item_pool_table, and of which order
    poolRow,       \* Item_pool_table.selected_row.data.item_id
    shown,         \* the Button_sets that are displayed
    sent,          \* requests the server has not executed
    answers,       \* answers the page has not received
    orders,        \* the orders in the database
    lines,         \* how many lines each order has with each item; a page that has no
                   \* order selected names the order "undefined"
    stale          \* history: the tables that one of these was to fill, and no
                   \* later answer has

selection == <<user, order, editing, itemRow, poolRow>>
tables == <<orderTable, highlighted, itemTable, poolTable>>
network == <<sent, answers>>
store == <<orders, lines>>
vars == <<userList, selection, tables, shown, network, store, stale>>

AnyOrder == Orders \cup {NoOrder}

ASSUME NoTableAssumption ==
    /\ NoTable \notin [of : Users, rows : SUBSET Orders]
    /\ NoTable \notin [of : AnyOrder, rows : [Items -> Nat]]
    /\ NoTable \notin [of : AnyOrder, rows : SUBSET Items]

ItemsOf(o) == lines[o]
OrdersOf(u) == {o \in orders : Owner[o] = u}
Available(o) == {i \in Items : ItemsOf(o)[i] = 0}

Requests ==
    {<<"order_select_all_for_account_id", u>> : u \in Users}
    \cup {<<"account_select_all">>}
    \cup {"order_select_all_items", "order_select_other_items", "order_remove"}
            \X AnyOrder
    \cup {"order_add_item", "order_remove_item"} \X AnyOrder \X Items

TypeOK ==
    /\ userList \in {{}, Users}
    /\ user \in userList \cup {NoUser}
    /\ orderTable = NoTable \/ orderTable \in [of : Users, rows : SUBSET Orders]
    /\ highlighted \in AnyOrder
    /\ order \in AnyOrder
    /\ editing \in BOOLEAN
    /\ itemTable = NoTable \/ itemTable \in [of : AnyOrder, rows : [Items -> Nat]]
    /\ itemRow \in Items \cup {NoItem}
    /\ poolTable = NoTable \/ poolTable \in [of : AnyOrder, rows : SUBSET Items]
    /\ poolRow \in Items \cup {NoItem}
    /\ shown \subseteq {"order", "item", "pool"}
    /\ \A n \in DOMAIN sent : sent[n] \in Requests
    /\ \A n \in DOMAIN answers : answers[n][1] \in Requests
    /\ orders \subseteq Orders
    /\ lines \in [AnyOrder -> [Items -> Nat]]
    /\ stale \subseteq {"order", "item", "pool"}
    /\ highlighted # NoOrder => highlighted \in orderTable.rows
    /\ "pool" \in shown => poolTable # NoTable

\* The page is loaded and asks for the users.
Init ==
    /\ userList = {}
    /\ user = NoUser /\ order = NoOrder /\ editing = FALSE
    /\ itemRow = NoItem /\ poolRow = NoItem
    /\ orderTable = NoTable /\ highlighted = NoOrder
    /\ itemTable = NoTable /\ poolTable = NoTable
    /\ shown = {}
    /\ sent = <<<<"account_select_all">>>> /\ answers = <<>>
    /\ orders = Orders
    /\ lines \in [AnyOrder -> [Items -> 0 .. 1]]
    /\ lines[NoOrder] = [i \in Items |-> 0]
    /\ stale = {}

Quiet == sent = <<>> /\ answers = <<>>

SendRequests(requests) == sent' = sent \o requests

-----------------------------------------------------------------------------
(* The user. *)

Bounded == Len(sent) + Len(answers) < MaxPending

\* user_list_selected; choosing the same user again is not a change.
SelectUser(u) ==
    /\ Bounded /\ u \in userList /\ u # user
    /\ user' = u
    /\ SendRequests(<<<<"order_select_all_for_account_id", u>>>>)
    /\ UNCHANGED <<order, editing, itemRow, poolRow, tables, shown, answers, store,
                   userList, stale>>

\* Mutant: show_items before order_id is set.
ClickOrderLate(o) ==
    /\ Bounded /\ orderTable # NoTable /\ o \in orderTable.rows
    /\ order' = o /\ highlighted' = o /\ editing' = FALSE
    /\ shown' = shown \cup {"order"}
    /\ SendRequests(<<<<"order_select_all_items", order>>>>)
    /\ UNCHANGED <<user, itemRow, poolRow, orderTable, itemTable, poolTable,
                   answers, store, userList, stale>>

\* Order_table.row_onlick_handler.  The other tables stay until the answer.
ClickOrder(o) ==
    /\ Bounded /\ orderTable # NoTable /\ o \in orderTable.rows
    /\ order' = o /\ highlighted' = o /\ editing' = FALSE
    /\ shown' = shown \cup {"order"}
    /\ SendRequests(<<<<"order_select_all_items", o>>>>)
    /\ UNCHANGED <<user, itemRow, poolRow, orderTable, itemTable, poolTable,
                   answers, store, userList, stale>>

\* A button is clicked where its set is displayed, even if it is grey: disable
\* and enable change its looks, and set a property that no browser knows.
Clickable(set) == Bounded /\ set \in shown

ClickDelete ==
    /\ Clickable("order")
    /\ editing' = FALSE
    /\ SendRequests(<<<<"order_remove", order>>>>)
    /\ UNCHANGED <<user, order, itemRow, poolRow, tables, shown, answers, store,
                   userList, stale>>

ClickEdit ==
    /\ Clickable("order")
    /\ editing' = TRUE
    /\ shown' = shown \cup {"item"}
    /\ SendRequests(<<<<"order_select_other_items", order>>>>)
    /\ UNCHANGED <<user, order, itemRow, poolRow, tables, answers, store, userList,
                   stale>>

\* Item_table.row_onlick_handler.
ClickItem(i) ==
    /\ Bounded /\ editing /\ itemTable # NoTable /\ itemTable.rows[i] > 0
    /\ itemRow' = i
    /\ UNCHANGED <<user, order, editing, poolRow, tables, shown, network, store,
                   userList, stale>>

\* selected_row outlives the table it was in.
ClickRemove ==
    /\ Clickable("item") /\ itemRow # NoItem
    /\ SendRequests(<<<<"order_remove_item", order, itemRow>>>>)
    /\ UNCHANGED <<selection, tables, shown, answers, store,
                   userList, stale>>

\* Item_pool_table.row_onlick_handler.
ClickPoolItem(i) ==
    /\ Bounded /\ poolTable # NoTable /\ i \in poolTable.rows
    /\ poolRow' = i
    /\ UNCHANGED <<user, order, editing, itemRow, tables, shown, network, store,
                   userList, stale>>

LinesBounded ==
    MapThenSumSet(LAMBDA p : lines[p[1]][p[2]], AnyOrder \X Items) < MaxLines

ClickAdd ==
    /\ Clickable("pool") /\ poolRow # NoItem /\ LinesBounded
    /\ SendRequests(<<<<"order_add_item", order, poolRow>>>>)
    /\ UNCHANGED <<selection, tables, shown, answers, store,
                   userList, stale>>

\* Without its list of users the page is of no use and is loaded again.
Reload ==
    /\ Quiet /\ userList = {}
    /\ SendRequests(<<<<"account_select_all">>>>)
    /\ UNCHANGED <<userList, selection, tables, shown, answers, store, stale>>

-----------------------------------------------------------------------------
(* The server: src/ dconf_request_handlers, each request as a whole. *)

\* An item is added whether or not the order exists.
AddLine(o, i) ==
    /\ lines' = [lines EXCEPT ![o][i] = @ + 1]
    /\ UNCHANGED orders

RemoveLine(o, i) ==
    /\ lines' = IF ItemsOf(o)[i] = 0 THEN lines ELSE [lines EXCEPT ![o][i] = @ - 1]
    /\ UNCHANGED orders

RemoveOrder(o) ==
    /\ orders' = orders \ {o}
    /\ lines' = [lines EXCEPT ![o] = [i \in Items |-> 0]]

End(req, data) == answers' = Append(answers, <<req, data>>)

LossBounded ==
    Cardinality({n \in DOMAIN answers : answers[n][2] = NoAnswer}) + Cardinality(stale)
        < MaxLost

\* The n-th request does not come to its handler.
LoseRequest(n) ==
    /\ LossBounded
    /\ sent' = RemoveAt(sent, n) /\ End(sent[n], NoAnswer)
    /\ UNCHANGED <<userList, selection, tables, shown, store, stale>>

\* Effect and answer of the n-th request; the answer may be lost.
\* order_remove_item is never answered, so its callback never runs.
Execute(n) ==
    LET req == sent[n]
        Answer(data) == End(req, data) \/ (LossBounded /\ End(req, NoAnswer))
    IN  /\ sent' = RemoveAt(sent, n)
        /\ \/ /\ req[1] = "account_select_all"
              /\ Answer(Users) /\ UNCHANGED store
           \/ /\ req[1] = "order_select_all_for_account_id"
              /\ Answer(OrdersOf(req[2])) /\ UNCHANGED store
           \/ /\ req[1] = "order_select_all_items"
              /\ Answer(ItemsOf(req[2])) /\ UNCHANGED store
           \/ /\ req[1] = "order_select_other_items"
              /\ Answer(Available(req[2])) /\ UNCHANGED store
           \/ /\ req[1] = "order_remove"
              /\ RemoveOrder(req[2]) /\ Answer({})
           \/ /\ req[1] = "order_add_item"
              /\ AddLine(req[2], req[3]) /\ Answer({})
           \/ /\ req[1] = "order_remove_item"
              /\ RemoveLine(req[2], req[3]) /\ UNCHANGED answers
        /\ UNCHANGED <<userList, selection, tables, shown, stale>>

-----------------------------------------------------------------------------
(* The answers' callbacks.  A list without members is left out of its answer. *)

\* Mutant: Item_pool_table.clear leaves its buttons displayed.
ClearKeepsPoolButtons == shown \ {"item"}

\* What Item_table.clear leaves displayed: it clears the pool as well.
AfterItemClear == shown \ {"item", "pool"}

\* Order_table.create: without a list it fails after the clear.
CreateOrders(u, rows) ==
    /\ orderTable' = [of |-> u, rows |-> rows] /\ highlighted' = NoOrder
    /\ itemTable' = NoTable /\ poolTable' = NoTable
    /\ shown' = IF rows = {} THEN AfterItemClear \ {"order"}
                              ELSE AfterItemClear \cup {"order"}
    /\ UNCHANGED sent

\* Mutant: Item_table.create leaves the pool of another order standing.
CreateItemsKeepsPool(o, rows) ==
    /\ itemTable' = [of |-> o, rows |-> rows]
    /\ shown' = (shown \ {"item"}) \cup (IF editing THEN {"item"} ELSE {})
    /\ UNCHANGED <<orderTable, highlighted, poolTable, sent>>

\* Mutant: the early return of an empty list comes before the clear.
CreateItemsOnlySome(o, rows) ==
    /\ IF \A i \in Items : rows[i] = 0
       THEN UNCHANGED <<itemTable, poolTable, shown>>
       ELSE /\ itemTable' = [of |-> o, rows |-> rows] /\ poolTable' = NoTable
            /\ shown' = AfterItemClear \cup (IF editing THEN {"item"} ELSE {})
    /\ UNCHANGED <<orderTable, highlighted, sent>>

\* Item_table.create.
CreateItems(o, rows) ==
    LET empty == \A i \in Items : rows[i] = 0 IN
    /\ itemTable' = [of |-> o, rows |-> rows] /\ poolTable' = NoTable
    /\ shown' = AfterItemClear \cup (IF editing /\ ~empty THEN {"item"} ELSE {})
    /\ UNCHANGED <<orderTable, highlighted, sent>>

\* Item_pool_table.create.
CreatePool(o, rows) ==
    /\ poolTable' = [of |-> o, rows |-> rows]
    /\ shown' = shown \cup (IF rows = {} THEN {} ELSE {"pool"})
    /\ UNCHANGED <<orderTable, highlighted, itemTable, sent>>

\* Mutant: the callback asks for the pool alone.
RefreshPoolOnly ==
    /\ SendRequests(<<<<"order_select_other_items", order>>>>)
    /\ UNCHANGED <<tables, shown>>

\* Mutant: the callback asks for the pool first.
RefreshPoolFirst ==
    /\ SendRequests(<<<<"order_select_other_items", order>>,
                      <<"order_select_all_items", order>>>>)
    /\ UNCHANGED <<tables, shown>>

\* select_add_item_request_success asks for the order selected by now.
RefreshItems ==
    /\ SendRequests(<<<<"order_select_all_items", order>>,
                      <<"order_select_other_items", order>>>>)
    /\ UNCHANGED <<tables, shown>>

\* user_orders_delete_request_success asks for the user selected by now.
RefreshOrders ==
    /\ SendRequests(<<<<"order_select_all_for_account_id", user>>>>)
    /\ UNCHANGED <<tables, shown>>

\* The tables that the answer to a request fills, itself or by what its callback
\* asks for.
Fills(req) ==
    CASE req[1] \in {"order_select_all_for_account_id", "order_remove"} -> {"order"}
      [] req[1] = "order_select_all_items" -> {"item"}
      [] req[1] = "order_select_other_items" -> {"pool"}
      [] req[1] = "order_add_item" -> {"item", "pool"}
      [] OTHER -> {}

\* Request.send: $.ajax has no option "failure", so nothing is called.
Fail(req) ==
    /\ stale' = stale \cup Fills(req)
    /\ UNCHANGED <<userList, tables, shown, sent>>

Succeed(req, data) ==
    \/ /\ req[1] = "account_select_all" /\ userList' = data
       /\ UNCHANGED <<tables, shown, sent, stale>>
    \/ /\ req[1] = "order_select_all_for_account_id"
       /\ CreateOrders(req[2], data) /\ stale' = {} /\ UNCHANGED userList
    \/ /\ req[1] = "order_select_all_items"
       /\ CreateItems(req[2], data) /\ stale' = stale \ {"item", "pool"}
       /\ UNCHANGED userList
    \/ /\ req[1] = "order_select_other_items"
       /\ CreatePool(req[2], data) /\ stale' = stale \ {"pool"}
       /\ UNCHANGED userList
    \/ req[1] = "order_remove" /\ RefreshOrders /\ UNCHANGED <<userList, stale>>
    \/ req[1] = "order_add_item" /\ RefreshItems /\ UNCHANGED <<userList, stale>>

Receive(n) ==
    LET req == answers[n][1]
        data == answers[n][2]
    IN  /\ answers' = RemoveAt(answers, n)
        /\ IF data = NoAnswer THEN Fail(req) ELSE Succeed(req, data)
        /\ UNCHANGED <<selection, store>>

-----------------------------------------------------------------------------

Click ==
    \/ \E u \in Users : SelectUser(u)
    \/ \E o \in Orders : ClickOrder(o)
    \/ \E i \in Items : ClickItem(i) \/ ClickPoolItem(i)
    \/ ClickDelete \/ ClickEdit \/ ClickRemove \/ ClickAdd \/ Reload

\* What may be handled next of a sequence of messages.
Due(s) == IF InOrder THEN {1} \cap DOMAIN s ELSE DOMAIN s

Serve == \E n \in Due(sent) : Execute(n) \/ LoseRequest(n)
Answered == \E n \in Due(answers) : Receive(n)

Next == Click \/ Serve \/ Answered

\* Every request comes to its end, with or without an answer; nobody has to
\* click.
Fairness == WF_vars(Serve) /\ WF_vars(Answered)

Spec == Init /\ [][Next]_vars /\ Fairness

-----------------------------------------------------------------------------
(* Properties *)

\* When nothing is under way, the tables show what is selected: the orders of
\* the user, and the items and the pool of the one selected order.  An answer
\* that never comes (request.js:65) spoils the tables it was to fill and no
\* other, and these until the next answer fills or clears them.
TablesAgree ==
    Quiet =>
        /\ orderTable # NoTable /\ "order" \notin stale => orderTable.of = user
        /\ itemTable # NoTable /\ "item" \notin stale => itemTable.of = order
        /\ poolTable # NoTable /\ stale \cap {"item", "pool"} = {} => poolTable.of = order

\* Items can be moved back and forth (instructions.html:29): while an order is
\* edited and nothing is under way, its pool is there, although every answer
\* for the item table takes the pool away; unless the answer for the pool is
\* the one that did not come.
PoolWhileEditing ==
    Quiet /\ editing /\ highlighted # NoOrder /\ "pool" \notin stale => poolTable # NoTable

\* When nothing is under way, no line of the selected order is missing from
\* its item table, and no item of the pool is in the order: what was added is
\* shown, if the answers came.  What was removed may still be, as a removal has
\* no answer.
NothingMissing ==
    Quiet =>
        /\ itemTable # NoTable /\ "item" \notin stale =>
              \A i \in Items : ItemsOf(order)[i] <= itemTable.rows[i]
        /\ poolTable # NoTable /\ stale \cap {"item", "pool"} = {} =>
              poolTable.rows \subseteq Available(order)

\* "select the other order, those order items should appear"
\* (instructions.html:12): the item table comes to show the highlighted order,
\* or its answer does not come.
SelectedOrderAppears ==
    \A o \in Orders :
        highlighted = o ~> \/ highlighted # o \/ "item" \in stale
                           \/ itemTable # NoTable /\ itemTable.of = o

\* The same, of a page for which nothing is under way.
HighlightedIsShown ==
    Quiet /\ highlighted # NoOrder /\ "item" \notin stale =>
        itemTable # NoTable /\ itemTable.of = highlighted

=============================================================================

----------------------------- MODULE OrderStore -----------------------------
(***************************************************************************)
(* The order, order_item and item databases under the requests that write  *)
(* them (Dconf_order_request_handler, Dconf_item_request_handler and       *)
(* Dconf_order_item_request_handler), one request at a time as main runs   *)
(* them.  A handler works on the caches of the handles it opened; its      *)
(* scope's destructors then close them one file after another, in reverse  *)
(* order of declaration, and only then does main answer.  The process may  *)
(* die, and be started again, between any two steps.                       *)
(*                                                                         *)
(* Selects change nothing: they are operators on a store, and properties   *)
(* say what they return whenever no request is running.  The item files    *)
(* are reduced to which items exist; PrimaryDatabase has the life of one   *)
(* primary and its indexes in full.                                        *)
(***************************************************************************)
EXTENDS Naturals, Sequences, FiniteSets

CONSTANTS
    Orders,        \* order ids
    Items,         \* item ids
    Rows,          \* order_item ids
    OrderData,     \* data of an order: account_id and name
    OrderKeys,     \* secondary keys of the order database
    OrderExtract,  \* Dconf_bdb_key_extractor on the order database
    NoData,        \* the absence of a row
    ItemOrder,     \* the item ids in the order of their keys in the item file
    GivenLines,    \* bound: the lines that add_item and load are given
    MaxCrashes     \* bound: crashes in a behaviour

LineData == [order : Orders, item : Items]

ByItem == 1
ByOrder == 2
\* Mutant: the extractors of the two secondaries are exchanged.
LineExtractSwapped == <<[d \in LineData |-> d.order], [d \in LineData |-> d.item]>>

\* secondary_database_config_map is a std::map: order_item_item_id comes
\* before order_item_order_id.
LineExtract == <<[d \in LineData |-> d.item], [d \in LineData |-> d.order]>>

ASSUME OrderStoreAssumption ==
    /\ OrderExtract \in [1..2 -> [OrderData -> OrderKeys]]
    /\ NoData \notin OrderData \cup LineData
    /\ GivenLines \subseteq LineData
    /\ MaxCrashes \in Nat

\* A key is at most 2^32 bytes, so there are finitely many.
ASSUME KeysAssumption ==
    /\ IsFiniteSet(Rows)
    /\ ItemOrder \in Seq(Items)
    /\ \A i \in Items : \E n \in DOMAIN ItemOrder : ItemOrder[n] = i
    /\ \A m, n \in DOMAIN ItemOrder : ItemOrder[m] = ItemOrder[n] => m = n

OT == INSTANCE BdbTable WITH Keys <- Orders, Data <- OrderData,
        SKeys <- OrderKeys, N <- 2, Extract <- OrderExtract
LT == INSTANCE BdbTable WITH Keys <- Rows, Data <- LineData,
        SKeys <- Orders \cup Items, N <- 2, Extract <- LineExtract

VARIABLES
    disk,     \* Store: the files
    mem,      \* Store: the caches; equal to disk while no request runs
    phase,    \* idle, loading (order_item_load's loop), closing
    request,  \* the running request: its name and arguments
    answer,   \* "ok", or "error" once errors.has()
    toClose,  \* files still to be flushed, in the destructors' order
    touched,  \* history: keys the request wrote, per database
    torn,     \* history: keys in a database a crash left half-flushed
    acked,    \* history: <<row, data>> a client was told is stored
    crashes

vars == <<disk, mem, phase, request, answer, toClose, touched, torn, acked,
          crashes>>

Store == [orders : OT!Table, lines : LT!Table, items : SUBSET Items]
KeySets == [orders : SUBSET Orders, lines : SUBSET Rows]
NoKeys == [orders |-> {}, lines |-> {}]
NoRequest == [name |-> "none"]
Requests ==
    {NoRequest, [name |-> "order_item_load"]}
    \cup [name : {"order_add_item", "order_remove_item"},
          order : Orders, item : Items]
    \cup [name : {"order_remove", "order_update"}, order : Orders]
    \cup [name : {"item_update"}, item : Items]

\* The files of one Primary_database: its secondaries, then (0) the primary.
Files(db) == <<<<db, 1>>, <<db, 2>>, <<db, 0>>>>

TypeOK ==
    /\ disk \in Store
    /\ mem \in Store
    /\ phase \in {"idle", "loading", "closing"}
    /\ request \in Requests
    /\ answer \in {"ok", "error"}
    /\ toClose \in Seq({"orders", "lines", "items"} \X (0..2))
    /\ touched \in KeySets
    /\ torn \in KeySets
    /\ acked \subseteq Rows \X LineData
    /\ crashes \in 0..MaxCrashes

EmptyStore ==
    [orders |-> OT!EmptyTable, lines |-> LT!EmptyTable, items |-> {}]

Init ==
    /\ disk = EmptyStore
    /\ mem = EmptyStore
    /\ phase = "idle"
    /\ request = NoRequest
    /\ answer = "ok"
    /\ toClose = <<>>
    /\ touched = NoKeys
    /\ torn = NoKeys
    /\ acked = {}
    /\ crashes = 0

-----------------------------------------------------------------------------
(* Reads.                                                                  *)

SelectByOrderSdb(s, o) == LT!DtoGetDuplicateList(s.lines, ByOrder, o)

SelectByItemSdb(s, i) == LT!DtoGetDuplicateList(s.lines, ByItem, i)

OrderPresent(s, o) == OT!Present(s.orders, o)

\* A select returns its list (here: for each row found, the item or the order
\* it leads to) or fails at the first key without a row.
Failed == [ok |-> FALSE, list |-> <<>>]
Selected(list) == [ok |-> TRUE, list |-> list]

SelectAllItems(s, o) ==
    LET rows == SelectByOrderSdb(s, o) IN
        IF /\ LT!SelectByKeyListOk(s.lines, rows)
           /\ \A r \in rows : s.lines.rows[r].item \in s.items
        THEN Selected([r \in rows |-> s.lines.rows[r].item])
        ELSE Failed

\* The elements of a list that are in S, in their order.
Kept(list, S) ==
    LET kept[n \in 0..Len(list)] ==
            IF n = 0 THEN <<>>
            ELSE IF list[n] \in S THEN Append(kept[n - 1], list[n])
            ELSE kept[n - 1]
    IN kept[Len(list)]

\* Item_DAO::select_all: the cursor goes through the item file by key.
SelectAll(s) == Kept(ItemOrder, s.items)

\* Mutant: what is erased is one element, also when none was to be removed.
EraseOne(list, i) == SubSeq(Kept(list, Items \ {i}), 1, Len(list) - 1)

\* One turn of the loop: remove_if moves the other items to the front, erase
\* drops the rest of the list, which is nothing if the item was not in it.
Erase(list, i) == Kept(list, Items \ {i})

\* The items in the order are taken out of all the items, line by line: those
\* of a second line with the same item as the first are gone already.
SelectOtherItems(s, o) ==
    LET inOrder == SelectAllItems(s, o)
        others[lines \in SUBSET DOMAIN inOrder.list] ==
            IF lines = {} THEN SelectAll(s)
            ELSE LET r == CHOOSE r \in lines : TRUE IN
                 Erase(others[lines \ {r}], inOrder.list[r])
    IN IF inOrder.ok THEN Selected(others[DOMAIN inOrder.list]) ELSE Failed

SelectAllOrders(s, i) ==
    LET rows == SelectByItemSdb(s, i) IN
        IF /\ LT!SelectByKeyListOk(s.lines, rows)
           /\ \A r \in rows : OrderPresent(s, s.lines.rows[r].order)
        THEN Selected([r \in rows |-> s.lines.rows[r].order])
        ELSE Failed

-----------------------------------------------------------------------------
(* The handlers: from the dispatch to the end of the handler's code, before *)
(* its scope is left.                                                      *)

Answer(ok) == IF ok THEN "ok" ELSE "error"

\* The handler's code is done: files remain to be closed, in this order.
Handled(req, ok, files) ==
    /\ phase = "idle"
    /\ phase' = "closing"
    /\ request' = req
    /\ answer' = Answer(ok)
    /\ toClose' = files
    /\ UNCHANGED <<disk, torn, acked, crashes>>

Touches(db, ks) == touched' = [NoKeys EXCEPT ![db] = ks]

\* Ids are a hash of the time and a random number: taken to be fresh.
GenerateUniqueId(t) == {r \in Rows : ~LT!Present(t, r)}

\* Mutant: the arguments of the DTO's constructor are swapped.
AddItemSwapped(o, i) ==
    /\ \E r \in GenerateUniqueId(mem.lines) :
          \E out \in LT!PutOutcomes(mem.lines, r, [order |-> o, item |-> i]) :
             /\ mem' = [mem EXCEPT !.lines = [out.table EXCEPT
                            !.rows[r] = [order |-> i, item |-> o]]]
             /\ Touches("lines", {r})
             /\ Handled([name |-> "order_add_item", order |-> o, item |-> i],
                        out.ok, Files("lines"))

\* Neither the order nor the item is looked up.
AddItem(o, i) ==
    /\ \E r \in GenerateUniqueId(mem.lines) :
          \E out \in LT!PutOutcomes(mem.lines, r, [order |-> o, item |-> i]) :
             /\ mem' = [mem EXCEPT !.lines = out.table]
             /\ Touches("lines", {r})
             /\ Handled([name |-> "order_add_item", order |-> o, item |-> i],
                        out.ok, Files("lines"))

\* delete_order_item: of the rows both index files list, the front is deleted
\* and then looked up, so that the request succeeds only if the row is still
\* there.  No such row is an error.
RemoveItem(o, i) ==
    LET matched == SelectByOrderSdb(mem, o) \cap SelectByItemSdb(mem, i)
        req == [name |-> "order_remove_item", order |-> o, item |-> i]
    IN  \/ /\ matched = {}
           /\ UNCHANGED <<mem, touched>>
           /\ Handled(req, FALSE, Files("lines"))
        \/ \E r \in matched : \E t \in LT!DelOutcomes(mem.lines, {r}) :
              /\ mem' = [mem EXCEPT !.lines = t]
              /\ Touches("lines", {r})
              /\ Handled(req, LT!Present(t, r), Files("lines"))

\* Mutant: the declarations are exchanged.
RemoveOrderFilesSwapped == Files("orders") \o Files("lines")

\* order_remove declares the order database before the order_item database,
\* so the destructors write order_item first.
RemoveOrderFiles == Files("lines") \o Files("orders")

\* Mutant: delete_order stops after the front of the key list.
RemoveOrderFront(o) ==
    /\ \E rows \in {{r} : r \in SelectByOrderSdb(mem, o)} \cup {{}} :
          \E t \in LT!DelOutcomes(mem.lines, rows),
             u \in OT!DelOutcomes(mem.orders, {o}) :
             /\ mem' = [mem EXCEPT !.lines = t, !.orders = u]
             /\ touched' = [orders |-> {o}, lines |-> rows]
    /\ Handled([name |-> "order_remove", order |-> o], TRUE, RemoveOrderFiles)

\* delete_order: every row the order index lists, then the order, all with
\* ignore_not_found.  No return code is looked at, so the request succeeds.
RemoveOrder(o) ==
    LET rows == SelectByOrderSdb(mem, o) IN
        /\ \E t \in LT!DelOutcomes(mem.lines, rows),
              u \in OT!DelOutcomes(mem.orders, {o}) :
              mem' = [mem EXCEPT !.lines = t, !.orders = u]
        /\ touched' = [orders |-> {o}, lines |-> rows]
        /\ Handled([name |-> "order_remove", order |-> o], TRUE,
                   RemoveOrderFiles)

\* An upsert: also of an order that was removed.
UpdateOrder(o, d) ==
    \E out \in OT!PutOutcomes(mem.orders, o, d) :
        /\ mem' = [mem EXCEPT !.orders = out.table]
        /\ Touches("orders", {o})
        /\ Handled([name |-> "order_update", order |-> o], out.ok,
                   Files("orders"))

UpdateItem(i) ==
    /\ mem' = [mem EXCEPT !.items = mem.items \cup {i}]
    /\ touched' = NoKeys
    /\ Handled([name |-> "item_update", item |-> i], TRUE, <<<<"items", 0>>>>)

-----------------------------------------------------------------------------
(* order_item_load: the file is read line by line and each line saved.  The *)
(* first line that does not parse, or cannot be saved, ends the loop with  *)
(* an error; what was saved before it stays and is written on closing.     *)

StartLoad ==
    /\ phase = "idle"
    /\ phase' = "loading"
    /\ request' = [name |-> "order_item_load"]
    /\ touched' = NoKeys
    /\ UNCHANGED <<disk, mem, answer, toClose, torn, acked, crashes>>

LoadLine(r, d) ==
    /\ phase = "loading"
    /\ answer = "ok"
    /\ \E out \in LT!PutOutcomes(mem.lines, r, d) :
          /\ mem' = [mem EXCEPT !.lines = out.table]
          /\ answer' = Answer(out.ok)
    /\ touched' = [touched EXCEPT !.lines = @ \cup {r}]
    /\ UNCHANGED <<disk, phase, request, toClose, torn, acked, crashes>>

\* Order_item_DTO::parse_v1 rejects the line.
LoadBadLine ==
    /\ phase = "loading"
    /\ answer = "ok"
    /\ answer' = "error"
    /\ UNCHANGED <<disk, mem, phase, request, toClose, touched, torn, acked,
                   crashes>>

\* End of file, or errors.has().
EndLoad ==
    /\ phase = "loading"
    /\ phase' = "closing"
    /\ toClose' = Files("lines")
    /\ UNCHANGED <<disk, mem, request, answer, touched, torn, acked, crashes>>

-----------------------------------------------------------------------------
(* The destructors.                                                        *)

Closing(db, part) ==
    /\ phase = "closing"
    /\ toClose # <<>>
    /\ Head(toClose) = <<db, part>>
    /\ toClose' = Tail(toClose)
    /\ UNCHANGED <<mem, phase, request, answer, touched, torn, crashes>>

\* Mutant: the destructor of a secondary does not write its cache.
CloseSecondaryUnsynced(db, x) ==
    /\ Closing(db, x)
    /\ UNCHANGED <<disk, acked>>

CloseSecondary(db, x) ==
    /\ Closing(db, x)
    /\ disk' = [disk EXCEPT ![db].idx[x] = mem[db].idx[x]]
    /\ UNCHANGED acked

\* What clients were told about a line ends with the next request on it.
ClosePrimary(db) ==
    /\ Closing(db, 0)
    /\ disk' = [disk EXCEPT ![db].rows = mem[db].rows]
    /\ acked' = IF db = "lines"
                THEN {a \in acked : a[1] \notin touched.lines}
                ELSE acked

CloseItems ==
    /\ Closing("items", 0)
    /\ disk' = [disk EXCEPT !.items = mem.items]
    /\ UNCHANGED acked

-----------------------------------------------------------------------------
(* main: the response is written once the handler has returned.            *)

\* The rows a successful add or load reported.
Reported ==
    IF answer = "ok" /\ request.name \in {"order_add_item", "order_item_load"}
    THEN {<<r, mem.lines.rows[r]>> : r \in touched.lines}
    ELSE {}

RequestOver ==
    /\ phase' = "idle"
    /\ request' = NoRequest
    /\ answer' = "ok"
    /\ toClose' = <<>>
    /\ touched' = NoKeys

\* Mutant: the response is written before the handler's scope is left.
ReplyFirst ==
    /\ phase = "closing"
    /\ acked' = acked \cup Reported
    /\ \/ toClose = <<>> /\ RequestOver
       \/ toClose # <<>> /\ UNCHANGED <<phase, request, answer, toClose, touched>>
    /\ UNCHANGED <<disk, mem, torn, crashes>>

Reply ==
    /\ phase = "closing"
    /\ toClose = <<>>
    /\ acked' = acked \cup Reported
    /\ RequestOver
    /\ UNCHANGED <<disk, mem, torn, crashes>>

\* Some but not all of a database's files have been written.
HalfWritten(db) ==
    LET left == {n \in DOMAIN toClose : toClose[n][1] = db} IN
        phase = "closing" /\ Cardinality(left) \in 1..2

\* The process dies; when it is started again it reads the files.
Crash ==
    /\ phase # "idle"
    /\ crashes < MaxCrashes
    /\ crashes' = crashes + 1
    /\ mem' = disk
    /\ torn' = [db \in {"orders", "lines"} |->
                    torn[db] \cup IF HalfWritten(db) THEN touched[db] ELSE {}]
    /\ acked' = {a \in acked : a[1] \notin torn'.lines}
    /\ RequestOver
    /\ UNCHANGED disk

Next ==
    \/ \E d \in GivenLines : AddItem(d.order, d.item)
    \/ \E o \in Orders, i \in Items : RemoveItem(o, i)
    \/ \E o \in Orders : RemoveOrder(o)
    \/ \E o \in Orders, d \in OrderData : UpdateOrder(o, d)
    \/ \E i \in Items : UpdateItem(i)
    \/ StartLoad
    \/ \E r \in Rows, d \in GivenLines : LoadLine(r, d)
    \/ LoadBadLine
    \/ EndLoad
    \/ \E db \in {"orders", "lines"}, x \in 1..2 : CloseSecondary(db, x)
    \/ \E db \in {"orders", "lines"} : ClosePrimary(db)
    \/ CloseItems
    \/ Reply
    \/ Crash

Spec == Init /\ [][Next]_vars

-----------------------------------------------------------------------------
(* Properties                                                              *)

ScanByOrder(o) ==
    {r \in Rows : LT!Present(disk.lines, r) /\ disk.lines.rows[r].order = o}

ScanByItem(i) ==
    {r \in Rows : LT!Present(disk.lines, r) /\ disk.lines.rows[r].item = i}

Untorn(rows) == rows \cap torn.lines = {}

\* order_select_all_items is exact for every order none of whose rows a crash
\* has torn, whatever happened to the rows of other orders: one item per line
\* of the order, and a failure only if one of those items does not exist.
SelectAllItemsExact ==
    phase = "idle" => \A o \in Orders :
        Untorn(SelectByOrderSdb(disk, o) \cup ScanByOrder(o)) =>
            SelectAllItems(disk, o) =
                IF \A r \in ScanByOrder(o) : disk.lines.rows[r].item \in disk.items
                THEN Selected([r \in ScanByOrder(o) |-> disk.lines.rows[r].item])
                ELSE Failed

\* item_select_all_orders is exact in the same way; it fails only if a line
\* of the item belongs to no order.
SelectAllOrdersExact ==
    phase = "idle" => \A i \in Items :
        Untorn(SelectByItemSdb(disk, i) \cup ScanByItem(i)) =>
            SelectAllOrders(disk, i) =
                IF \A r \in ScanByItem(i) :
                       OrderPresent(disk, disk.lines.rows[r].order)
                THEN Selected([r \in ScanByItem(i) |-> disk.lines.rows[r].order])
                ELSE Failed

KeyPlace(i) == CHOOSE n \in DOMAIN ItemOrder : ItemOrder[n] = i

\* order_select_other_items is exact for the same orders: the items of which
\* no stored line of the order has one, each once and by key, also when several
\* lines have the same item and whatever lines crashes have left without an
\* order; it fails like order_select_all_items.
OtherItemsExact ==
    phase = "idle" => \A o \in Orders :
        Untorn(SelectByOrderSdb(disk, o) \cup ScanByOrder(o)) =>
            LET others == SelectOtherItems(disk, o)
                list == others.list
                ordered == {disk.lines.rows[r].item : r \in ScanByOrder(o)}
            IN  /\ others.ok <=> ordered \subseteq disk.items
                /\ others.ok =>
                      /\ {list[n] : n \in DOMAIN list} = disk.items \ ordered
                      /\ \A m, n \in DOMAIN list :
                            m < n => KeyPlace(list[m]) < KeyPlace(list[n])

\* A line a client was told is stored stays stored and reachable through its
\* order until another request on that line, across crashes.
AckedDurable ==
    \A a \in acked : a[1] \notin touched.lines =>
        /\ disk.lines.rows[a[1]] = a[2]
        /\ a[1] \in SelectByOrderSdb(disk, a[2].order)

\* Every file of the finished request has been closed.
Finished(name) ==
    phase = "closing" /\ toClose = <<>> /\ request.name = name

\* When order_remove is answered the order is gone and so are all its lines,
\* in every file, except what an earlier crash tore.
OrderRemoved ==
    Finished("order_remove") =>
        /\ OrderPresent(disk, request.order) => request.order \in torn.orders
        /\ ScanByOrder(request.order) \cup SelectByOrderSdb(disk, request.order)
               \subseteq torn.lines

Orphan(s, r) ==
    LT!Present(s.lines, r) /\ ~OrderPresent(s, s.lines.rows[r].order)

\* No step takes the order away from under a stored line: a line without an
\* order was written so (add_item and load do not look the order up), or was
\* torn by a crash.  This rests on order_item being closed before order.
NoNewOrphans ==
    [][\A r \in Rows \ torn'.lines :
          Orphan(disk', r) => \/ Orphan(disk, r)
                              \/ disk'.lines.rows[r] # disk.lines.rows[r]]_vars

\* The files' rows go through the catalogue's atomic commits only.
Catalog == INSTANCE OrderCatalog WITH
    orders <- disk.orders.rows, items <- disk.items,
    lines <- disk.lines.rows, damaged <- torn.lines

ImplementsCatalog == Catalog!Spec

\* "the 'Remove item' button works" (history/HISTORY.md:50): when
\* order_remove_item has removed the line it does not answer with an error.
\* False: delete_order_item looks the key up after having deleted it.
RemoveItemAnswered ==
    Finished("order_remove_item") /\ answer = "error" =>
        \A r \in touched.lines : LT!Present(disk.lines, r)

=============================================================================

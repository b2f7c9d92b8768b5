-------------------------- MODULE OrderStore_proof --------------------------
(***************************************************************************)
(* For every set of orders, items and rows, and any number of crashes: what *)
(* the order requests, their handles' destructors and crashes can do to     *)
(* the three databases.                                                     *)
(***************************************************************************)
EXTENDS OrderStore, WellFoundedInduction, FiniteSetTheorems, SequenceTheorems, TLAPS

\* The two indexed databases, with the lemmas about tables and their caches.
OP == INSTANCE BdbTable_proof WITH Keys <- Orders, Data <- OrderData,
        SKeys <- OrderKeys, N <- 2, Extract <- OrderExtract
LP == INSTANCE BdbTable_proof WITH Keys <- Rows, Data <- LineData,
        SKeys <- Orders \cup Items, N <- 2, Extract <- LineExtract

-----------------------------------------------------------------------------
(* The inductive invariant                                                 *)

\* The databases a handler opens and its destructors write.
Opened(name) ==
    CASE name \in {"order_add_item", "order_remove_item", "order_item_load"} -> {"lines"}
      [] name = "order_remove" -> {"lines", "orders"}
      [] name = "order_update" -> {"orders"}
      [] name = "item_update" -> {"items"}
      [] OTHER -> {}

\* What may be left of toClose.
Lines3 == <<<<"lines", 1>>, <<"lines", 2>>, <<"lines", 0>>>>
Lines2 == <<<<"lines", 2>>, <<"lines", 0>>>>
Lines1 == <<<<"lines", 0>>>>
Orders3 == <<<<"orders", 1>>, <<"orders", 2>>, <<"orders", 0>>>>
Orders2 == <<<<"orders", 2>>, <<"orders", 0>>>>
Orders1 == <<<<"orders", 0>>>>
Both6 == <<<<"lines", 1>>, <<"lines", 2>>, <<"lines", 0>>,
           <<"orders", 1>>, <<"orders", 2>>, <<"orders", 0>>>>
Both5 == <<<<"lines", 2>>, <<"lines", 0>>,
           <<"orders", 1>>, <<"orders", 2>>, <<"orders", 0>>>>
Both4 == <<<<"lines", 0>>, <<"orders", 1>>, <<"orders", 2>>, <<"orders", 0>>>>
Items1 == <<<<"items", 0>>>>

Left(name) ==
    CASE Opened(name) = {"lines"} -> {Lines3, Lines2, Lines1, <<>>}
      [] Opened(name) = {"orders"} -> {Orders3, Orders2, Orders1, <<>>}
      [] Opened(name) = {"lines", "orders"} ->
            {Both6, Both5, Both4, Orders3, Orders2, Orders1, <<>>}
      [] OTHER -> {Items1, <<>>}

\* The files of db the running request has still to write, and those it has
\* written.
Unwritten(files, db) == {p \in 0..2 : \E n \in DOMAIN files : files[n] = <<db, p>>}

Written(db) ==
    IF phase = "closing" /\ db \in Opened(request.name)
    THEN (0..2) \ Unwritten(toClose, db) ELSE {}

PhaseInv ==
    /\ phase = "idle" => request = NoRequest /\ answer = "ok" /\ touched = NoKeys
    /\ phase = "loading" => request.name = "order_item_load"
    /\ phase = "closing" => request # NoRequest /\ toClose \in Left(request.name)
    /\ phase # "closing" => toClose = <<>>
    /\ "lines" \notin Opened(request.name) => touched.lines = {}
    /\ "orders" \notin Opened(request.name) => touched.orders = {}

LinesInv ==
    LP!Cached(mem.lines, disk.lines, Written("lines"), touched.lines, torn.lines)
OrdersInv ==
    OP!Cached(mem.orders, disk.orders, Written("orders"), touched.orders, torn.orders)
ItemsInv ==
    \/ mem.items = disk.items
    \/ /\ request.name = "item_update" /\ toClose = Items1
       /\ mem.items = disk.items \cup {request.item}

\* An acknowledged line is in the files, unless the running request is about it
\* and has begun to write them; once it has written the rows nothing is
\* promised of the line any more.
AckedInv ==
    \A a \in acked :
        /\ a[1] \in touched.lines => 0 \notin Written("lines")
        /\ a[1] \notin touched.lines \/ Written("lines") = {} =>
              disk.lines.rows[a[1]] = a[2] /\ LP!Indexed(disk.lines, a[1])

\* What a successful add or load has put is there and can be reached.
ReportedInv ==
    answer = "ok" /\ request.name \in {"order_add_item", "order_item_load"} =>
        \A r \in touched.lines :
            LP!Present(mem.lines, r) /\ LP!Indexed(mem.lines, r)

\* Of the order being removed nothing is left in the caches, except what a
\* crash tore.
GoneInv ==
    request.name = "order_remove" =>
        /\ OP!Present(mem.orders, request.order) => request.order \in torn.orders
        /\ \A r \in Rows \ torn.lines :
              ~(LP!Present(mem.lines, r) /\ mem.lines.rows[r].order = request.order)
        /\ LP!DtoGetDuplicateList(mem.lines, ByOrder, request.order) \subseteq torn.lines

\* How the rows in the caches come from those in the files: what the next
\* ClosePrimary commits.
CommitInv ==
    /\ request.name \in {"order_add_item", "order_item_load"} =>
          \A r \in Rows : mem.lines.rows[r] = NoData => disk.lines.rows[r] = NoData
    /\ request.name = "order_remove_item" =>
          \/ mem.lines.rows = disk.lines.rows
          \/ \E r \in Rows : mem.lines.rows = Catalog!Without({r})
    /\ request.name = "order_remove" =>
          /\ 0 \in Written("lines") \/ \E S \in SUBSET Rows :
                /\ Catalog!LinesOf(request.order) \ torn.lines \subseteq S
                /\ S \subseteq Catalog!LinesOf(request.order) \cup torn.lines
                /\ mem.lines.rows = Catalog!Without(S)
          /\ \/ mem.orders.rows = disk.orders.rows
             \/ mem.orders.rows = [disk.orders.rows EXCEPT ![request.order] = NoData]
    /\ request.name = "order_update" =>
          \/ mem.orders.rows = disk.orders.rows
          \/ \E d \in OrderData :
                mem.orders.rows = [disk.orders.rows EXCEPT ![request.order] = d]

IInv ==
    /\ TypeOK
    /\ PhaseInv
    /\ LinesInv
    /\ OrdersInv
    /\ ItemsInv
    /\ AckedInv
    /\ ReportedInv
    /\ GoneInv
    /\ CommitInv

-----------------------------------------------------------------------------
(* The instances                                                           *)

LEMMA LinesAssumption ==
    /\ 2 \in Nat
    /\ LineExtract \in [1..2 -> [LineData -> Orders \cup Items]]
    /\ NoData \notin LineData
<1>1. DOMAIN LineExtract = 1..2
  BY DEF LineExtract
<1>2. LineExtract[1] = [d \in LineData |-> d.item]
      /\ LineExtract[2] = [d \in LineData |-> d.order]
  BY DEF LineExtract
<1>3. [d \in LineData |-> d.item] \in [LineData -> Orders \cup Items]
      /\ [d \in LineData |-> d.order] \in [LineData -> Orders \cup Items]
  BY DEF LineData
<1>4. LineExtract = [x \in 1..2 |-> LineExtract[x]]
  BY <1>1 DEF LineExtract
<1>5. QED BY <1>1, <1>2, <1>3, <1>4, OrderStoreAssumption

LEMMA OrdersAssumption ==
    /\ 2 \in Nat
    /\ OrderExtract \in [1..2 -> [OrderData -> OrderKeys]]
    /\ NoData \notin OrderData
BY OrderStoreAssumption

\* The lemmas are about the operators OrderStore uses.
LEMMA LinesSame ==
    /\ LT!Table = LP!Table
    /\ LT!EmptyTable = LP!EmptyTable
    /\ \A t, k : LT!Present(t, k) = LP!Present(t, k)
    /\ \A t, k, d : LT!PutOutcomes(t, k, d) = LP!PutOutcomes(t, k, d)
    /\ \A t, ks : LT!DelOutcomes(t, ks) = LP!DelOutcomes(t, ks)
    /\ \A t, x, s : LT!DtoGetDuplicateList(t, x, s) = LP!DtoGetDuplicateList(t, x, s)
    /\ \A t, ks : LT!SelectByKeyListOk(t, ks) = LP!SelectByKeyListOk(t, ks)
<1> USE DEF LT!Present, LP!Present, LT!Indexes, LP!Indexes, LT!Entry, LP!Entry
<1>1. LT!Table = LP!Table /\ LT!EmptyTable = LP!EmptyTable
  BY DEF LT!Table, LP!Table, LT!EmptyTable, LP!EmptyTable
<1>2. ASSUME NEW t, NEW k, NEW d PROVE LT!PutOutcomes(t, k, d) = LP!PutOutcomes(t, k, d)
  BY DEF LT!PutOutcomes, LP!PutOutcomes, LT!Replaceable, LP!Replaceable,
         LT!PutDone, LP!PutDone, LT!PutBroken, LP!PutBroken, LT!PutIndex, LP!PutIndex
<1>3. ASSUME NEW t, NEW ks PROVE LT!DelOutcomes(t, ks) = LP!DelOutcomes(t, ks)
  BY DEF LT!DelOutcomes, LP!DelOutcomes, LT!DelDone, LP!DelDone, LT!Stuck, LP!Stuck,
         LT!Unindexes, LP!Unindexes, LT!Indexed, LP!Indexed
<1>4. /\ \A t, x, s : LT!DtoGetDuplicateList(t, x, s) = LP!DtoGetDuplicateList(t, x, s)
      /\ \A t, ks : LT!SelectByKeyListOk(t, ks) = LP!SelectByKeyListOk(t, ks)
      /\ \A t, k : LT!Present(t, k) = LP!Present(t, k)
  BY DEF LT!DtoGetDuplicateList, LP!DtoGetDuplicateList,
         LT!SelectByKeyListOk, LP!SelectByKeyListOk
<1>5. QED BY <1>1, <1>2, <1>3, <1>4

LEMMA OrdersSame ==
    /\ OT!Table = OP!Table
    /\ OT!EmptyTable = OP!EmptyTable
    /\ \A t, k : OT!Present(t, k) = OP!Present(t, k)
    /\ \A t, k, d : OT!PutOutcomes(t, k, d) = OP!PutOutcomes(t, k, d)
    /\ \A t, ks : OT!DelOutcomes(t, ks) = OP!DelOutcomes(t, ks)
<1> USE DEF OT!Present, OP!Present, OT!Indexes, OP!Indexes, OT!Entry, OP!Entry
<1>1. OT!Table = OP!Table /\ OT!EmptyTable = OP!EmptyTable
  BY DEF OT!Table, OP!Table, OT!EmptyTable, OP!EmptyTable
<1>2. ASSUME NEW t, NEW k, NEW d PROVE OT!PutOutcomes(t, k, d) = OP!PutOutcomes(t, k, d)
  BY DEF OT!PutOutcomes, OP!PutOutcomes, OT!Replaceable, OP!Replaceable,
         OT!PutDone, OP!PutDone, OT!PutBroken, OP!PutBroken, OT!PutIndex, OP!PutIndex
<1>3. ASSUME NEW t, NEW ks PROVE OT!DelOutcomes(t, ks) = OP!DelOutcomes(t, ks)
  BY DEF OT!DelOutcomes, OP!DelOutcomes, OT!DelDone, OP!DelDone, OT!Stuck, OP!Stuck,
         OT!Unindexes, OP!Unindexes, OT!Indexed, OP!Indexed
<1>4. \A t, k : OT!Present(t, k) = OP!Present(t, k)
  OBVIOUS
<1>5. QED BY <1>1, <1>2, <1>3, <1>4

-----------------------------------------------------------------------------
(* What is left to be closed                                               *)

LEMMA FilesAre ==
    /\ Files("lines") = Lines3
    /\ Files("orders") = Orders3
    /\ RemoveOrderFiles = Both6
<1>1. Files("lines") = Lines3 /\ Files("orders") = Orders3
  BY DEF Files, Lines3, Orders3
<1>2. Lines3 \o Orders3 = Both6
  <2> DEFINE S == {"lines", "orders"} \X (0..2)
  <2>1. Lines3 \in Seq(S) /\ Orders3 \in Seq(S) /\ Both6 \in Seq(S)
    BY DEF Lines3, Orders3, Both6
  <2>2. Len(Lines3) = 3 /\ Len(Orders3) = 3 /\ Len(Both6) = 6
    BY DEF Lines3, Orders3, Both6
  <2>3. /\ Both6[1] = Lines3[1] /\ Both6[2] = Lines3[2] /\ Both6[3] = Lines3[3]
        /\ Both6[4] = Orders3[1] /\ Both6[5] = Orders3[2] /\ Both6[6] = Orders3[3]
    BY DEF Lines3, Orders3, Both6
  <2> HIDE DEF S
  <2>4. /\ Lines3 \o Orders3 \in Seq(S)
        /\ Len(Lines3 \o Orders3) = 6
        /\ \A n \in 1..6 : (Lines3 \o Orders3)[n] =
              IF n <= 3 THEN Lines3[n] ELSE Orders3[n - 3]
    <3>1. /\ Lines3 \o Orders3 \in Seq(S)
          /\ Len(Lines3 \o Orders3) = Len(Lines3) + Len(Orders3)
          /\ \A n \in 1..(Len(Lines3) + Len(Orders3)) : (Lines3 \o Orders3)[n] =
                IF n <= Len(Lines3) THEN Lines3[n] ELSE Orders3[n - Len(Lines3)]
      BY <2>1, ConcatProperties
    <3>2. 3 + 3 = 6
      OBVIOUS
    <3>3. QED BY <2>2, <3>1, <3>2
  <2>5. \A n \in 1..6 : (Lines3 \o Orders3)[n] = Both6[n]
    BY <2>3, <2>4, SMTT(30)
  <2>6. QED BY <2>1, <2>2, <2>4, <2>5, SeqEqual
<1>3. QED BY <1>1, <1>2 DEF RemoveOrderFiles

LEMMA Tails ==
    /\ Tail(Lines3) = Lines2 /\ Tail(Lines2) = Lines1 /\ Tail(Lines1) = <<>>
    /\ Tail(Orders3) = Orders2 /\ Tail(Orders2) = Orders1 /\ Tail(Orders1) = <<>>
    /\ Tail(Both6) = Both5 /\ Tail(Both5) = Both4 /\ Tail(Both4) = Orders3
    /\ Tail(Items1) = <<>>
BY DEF Lines3, Lines2, Lines1, Orders3, Orders2, Orders1, Both6, Both5, Both4, Items1

LEMMA Heads ==
    /\ Head(Lines3) = <<"lines", 1>> /\ Head(Lines2) = <<"lines", 2>>
    /\ Head(Lines1) = <<"lines", 0>>
    /\ Head(Orders3) = <<"orders", 1>> /\ Head(Orders2) = <<"orders", 2>>
    /\ Head(Orders1) = <<"orders", 0>>
    /\ Head(Both6) = <<"lines", 1>> /\ Head(Both5) = <<"lines", 2>>
    /\ Head(Both4) = <<"lines", 0>>
    /\ Head(Items1) = <<"items", 0>>
BY DEF Lines3, Lines2, Lines1, Orders3, Orders2, Orders1, Both6, Both5, Both4, Items1
LEMMA UnwrittenOf ==
    /\ Unwritten(<<>>, "lines") = {} /\ Unwritten(<<>>, "orders") = {}
    /\ Unwritten(Lines3, "lines") = 0..2 /\ Unwritten(Lines3, "orders") = {}
    /\ Unwritten(Lines2, "lines") = {0, 2} /\ Unwritten(Lines2, "orders") = {}
    /\ Unwritten(Lines1, "lines") = {0} /\ Unwritten(Lines1, "orders") = {}
    /\ Unwritten(Orders3, "lines") = {} /\ Unwritten(Orders3, "orders") = 0..2
    /\ Unwritten(Orders2, "lines") = {} /\ Unwritten(Orders2, "orders") = {0, 2}
    /\ Unwritten(Orders1, "lines") = {} /\ Unwritten(Orders1, "orders") = {0}
    /\ Unwritten(Both6, "lines") = 0..2 /\ Unwritten(Both6, "orders") = 0..2
    /\ Unwritten(Both5, "lines") = {0, 2} /\ Unwritten(Both5, "orders") = 0..2
    /\ Unwritten(Both4, "lines") = {0} /\ Unwritten(Both4, "orders") = 0..2
BY SMTT(30) DEF Unwritten, Lines3, Lines2, Lines1, Orders3, Orders2, Orders1, Both6, Both5, Both4

\* The elements of a list of files that are files of db.
FilesLeft(files, db) == {n \in DOMAIN files : files[n][1] = db}

LEMMA FilesLeftOf ==
    /\ FilesLeft(<<>>, "lines") = {} /\ FilesLeft(<<>>, "orders") = {}
    /\ FilesLeft(Lines3, "lines") = 1..3 /\ FilesLeft(Lines3, "orders") = {}
    /\ FilesLeft(Lines2, "lines") = 1..2 /\ FilesLeft(Lines2, "orders") = {}
    /\ FilesLeft(Lines1, "lines") = {1} /\ FilesLeft(Lines1, "orders") = {}
    /\ FilesLeft(Orders3, "lines") = {} /\ FilesLeft(Orders3, "orders") = 1..3
    /\ FilesLeft(Orders2, "lines") = {} /\ FilesLeft(Orders2, "orders") = 1..2
    /\ FilesLeft(Orders1, "lines") = {} /\ FilesLeft(Orders1, "orders") = {1}
    /\ FilesLeft(Both6, "lines") = 1..3 /\ FilesLeft(Both6, "orders") = 4..6
    /\ FilesLeft(Both5, "lines") = 1..2 /\ FilesLeft(Both5, "orders") = 3..5
    /\ FilesLeft(Both4, "lines") = {1} /\ FilesLeft(Both4, "orders") = 2..4
BY DEF FilesLeft, Lines3, Lines2, Lines1, Orders3, Orders2, Orders1, Both6, Both5, Both4
\* The lists a handler leaves to the destructors, and what is left of them.
Lists == {Lines3, Lines2, Lines1, Orders3, Orders2, Orders1, Both6, Both5, Both4, <<>>}

\* Some but not all files of db are left.
LEMMA HalfLeft ==
    ASSUME NEW files \in Lists, NEW db \in {"lines", "orders"}
    PROVE  Cardinality(FilesLeft(files, db)) \in 1..2
              <=> Unwritten(files, db) \notin {{}, 0..2}
<1> DEFINE Half(S) == Cardinality(S) \in 1..2
           Part(U) == U \notin {{}, 0..2}
<1>0. \A a, b \in Int : a <= b => \A n : b - a + 1 = n => Cardinality(a..b) = n
  BY FS_Interval
<1>1. ~Half({}) /\ ~Half(1..3) /\ ~Half(4..6) /\ ~Half(3..5) /\ ~Half(2..4)
  <2>1. Cardinality({}) = 0
    BY FS_EmptySet
  <2>2. Cardinality(1..3) = 3
    <3>1. 1 \in Int /\ 3 \in Int /\ 1 <= 3 /\ 3 - 1 + 1 = 3
      OBVIOUS
    <3>2. QED BY <1>0, <3>1, Zenon
  <2>3. Cardinality(4..6) = 3
    <3>1. 4 \in Int /\ 6 \in Int /\ 4 <= 6 /\ 6 - 4 + 1 = 3
      OBVIOUS
    <3>2. QED BY <1>0, <3>1, Zenon
  <2>4. Cardinality(3..5) = 3
    <3>1. 3 \in Int /\ 5 \in Int /\ 3 <= 5 /\ 5 - 3 + 1 = 3
      OBVIOUS
    <3>2. QED BY <1>0, <3>1, Zenon
  <2>5. Cardinality(2..4) = 3
    <3>1. 2 \in Int /\ 4 \in Int /\ 2 <= 4 /\ 4 - 2 + 1 = 3
      OBVIOUS
    <3>2. QED BY <1>0, <3>1, Zenon
  <2>6. QED BY <2>1, <2>2, <2>3, <2>4, <2>5
<1>2. Half(1..2) /\ Half({1})
  <2>1. Cardinality(1..2) = 2
    <3>1. 1 \in Int /\ 2 \in Int /\ 1 <= 2 /\ 2 - 1 + 1 = 2
      OBVIOUS
    <3>2. QED BY <1>0, <3>1, Zenon
  <2>2. Cardinality({1}) = 1
    BY FS_Singleton
  <2>3. QED BY <2>1, <2>2
<1>3. ~Part({}) /\ ~Part(0..2) /\ Part({0}) /\ Part({0, 2})
  OBVIOUS
<1> HIDE DEF Half, Part
<1>4. CASE db = "lines"
  <2> DEFINE Q(l) == Half(FilesLeft(l, "lines")) <=> Part(Unwritten(l, "lines"))
  <2>1. Q(Lines3) /\ Q(Lines2) /\ Q(Lines1)
    BY <1>1, <1>2, <1>3, FilesLeftOf, UnwrittenOf
  <2>2. Q(Orders3) /\ Q(Orders2) /\ Q(Orders1)
    BY <1>1, <1>2, <1>3, FilesLeftOf, UnwrittenOf
  <2>3. Q(Both6) /\ Q(Both5) /\ Q(Both4)
    BY <1>1, <1>2, <1>3, FilesLeftOf, UnwrittenOf
  <2>4. Q(<<>>)
    BY <1>1, <1>2, <1>3, FilesLeftOf, UnwrittenOf
  <2>5. Q(files)
    <3> HIDE DEF Q
    <3> QED BY <2>1, <2>2, <2>3, <2>4 DEF Lists
  <2>6. QED BY <1>4, <2>5 DEF Half, Part
<1>5. CASE db = "orders"
  <2> DEFINE Q(l) == Half(FilesLeft(l, "orders")) <=> Part(Unwritten(l, "orders"))
  <2>1. Q(Lines3) /\ Q(Lines2) /\ Q(Lines1)
    BY <1>1, <1>2, <1>3, FilesLeftOf, UnwrittenOf
  <2>2. Q(Orders3) /\ Q(Orders2) /\ Q(Orders1)
    BY <1>1, <1>2, <1>3, FilesLeftOf, UnwrittenOf
  <2>3. Q(Both6) /\ Q(Both5) /\ Q(Both4)
    BY <1>1, <1>2, <1>3, FilesLeftOf, UnwrittenOf
  <2>4. Q(<<>>)
    BY <1>1, <1>2, <1>3, FilesLeftOf, UnwrittenOf
  <2>5. Q(files)
    <3> HIDE DEF Q
    <3> QED BY <2>1, <2>2, <2>3, <2>4 DEF Lists
  <2>6. QED BY <1>5, <2>5 DEF Half, Part
<1>6. QED BY <1>4, <1>5

\* What is left of a handler's list is one of the lists of its databases, and
\* holds files of no other.
LEMMA ClosingLists ==
    ASSUME TypeOK, PhaseInv, phase = "closing"
    PROVE  \/ /\ Opened(request.name) = {"lines"}
              /\ toClose \in {Lines3, Lines2, Lines1, <<>>}
           \/ /\ Opened(request.name) = {"orders"}
              /\ toClose \in {Orders3, Orders2, Orders1, <<>>}
           \/ /\ Opened(request.name) = {"lines", "orders"}
              /\ toClose \in {Both6, Both5, Both4, Orders3, Orders2, Orders1, <<>>}
           \/ /\ Opened(request.name) = {"items"}
              /\ request.name = "item_update"
              /\ toClose \in {Items1, <<>>}
<1>1. request \in Requests \ {NoRequest}
  BY DEF PhaseInv, TypeOK
<1>2. request.name \in {"order_add_item", "order_remove_item", "order_item_load",
                       "order_remove", "order_update", "item_update"}
  BY <1>1 DEF Requests
<1>3. toClose \in Left(request.name)
  BY DEF PhaseInv
<1>4. CASE request.name \in {"order_add_item", "order_remove_item", "order_item_load"}
  <2>1. Opened(request.name) = {"lines"}
    BY <1>4 DEF Opened
  <2>2. QED BY <1>3, <2>1 DEF Left
<1>5. CASE request.name = "order_remove"
  <2>1. Opened(request.name) = {"lines", "orders"}
    BY <1>5 DEF Opened
  <2>2. {"lines", "orders"} # {"lines"} /\ {"lines", "orders"} # {"orders"}
    OBVIOUS
  <2>3. QED BY <1>3, <2>1, <2>2 DEF Left
<1>6. CASE request.name = "order_update"
  <2>1. Opened(request.name) = {"orders"}
    BY <1>6 DEF Opened
  <2>2. {"orders"} # {"lines"}
    OBVIOUS
  <2>3. QED BY <1>3, <2>1, <2>2 DEF Left
<1>7. CASE request.name = "item_update"
  <2>1. Opened(request.name) = {"items"}
    BY <1>7 DEF Opened
  <2>2. {"items"} \notin {{"lines"}, {"orders"}, {"lines", "orders"}}
    OBVIOUS
  <2>3. QED BY <1>3, <1>7, <2>1, <2>2 DEF Left
<1>8. QED BY <1>2, <1>4, <1>5, <1>6, <1>7

\* The first file of a list is written: it is left no more, and of the same
\* database the primary file was left.
LEMMA WriteFirst ==
    ASSUME NEW files \in Lists, files # <<>>,
           NEW db \in {"lines", "orders"}, NEW part, Head(files) = <<db, part>>
    PROVE  /\ Tail(files) \in Lists
           /\ Unwritten(files, db) = Unwritten(Tail(files), db) \cup {part}
           /\ part \in 0..2 /\ part \notin Unwritten(Tail(files), db)
           /\ 0 \in Unwritten(files, db)
           /\ \A e \in {"lines", "orders"} \ {db} :
                 Unwritten(Tail(files), e) = Unwritten(files, e)
           /\ db = "orders" => Unwritten(files, "lines") = {}
<1>1. {0, 2} \cup {1} = 0..2 /\ {0} \cup {2} = {0, 2} /\ {} \cup {0} = {0}
      /\ 1 \notin {0, 2} /\ 2 \notin {0} /\ 0 \in 0..2 /\ 1 \in 0..2 /\ 2 \in 0..2
  OBVIOUS
<1>2. Tail(files) \in Lists
  BY Tails DEF Lists
<1>3. CASE db = "lines"
  <2>1. CASE files \in {Lines3, Both6}
    <3>1. part = 1 /\ Tail(files) \in {Lines2, Both5}
      <4>1. Head(files) = <<"lines", 1>>
        BY <2>1, Heads
      <4>2. Tail(files) \in {Lines2, Both5}
        BY <2>1, Tails
      <4>3. QED BY <4>1, <4>2
    <3>2. /\ Unwritten(files, db) = 0..2 /\ Unwritten(Tail(files), db) = {0, 2}
          /\ Unwritten(Tail(files), "orders") = Unwritten(files, "orders")
      BY <1>3, <2>1, <3>1, UnwrittenOf, Tails
    <3>3. Unwritten(files, db) = Unwritten(Tail(files), db) \cup {part}
      BY <1>1, <3>1, <3>2
    <3>4. QED BY <1>1, <1>2, <1>3, <3>1, <3>2, <3>3
  <2>2. CASE files \in {Lines2, Both5}
    <3>1. part = 2 /\ Tail(files) \in {Lines1, Both4}
      <4>1. Head(files) = <<"lines", 2>>
        BY <2>2, Heads
      <4>2. Tail(files) \in {Lines1, Both4}
        BY <2>2, Tails
      <4>3. QED BY <4>1, <4>2
    <3>2. /\ Unwritten(files, db) = {0, 2} /\ Unwritten(Tail(files), db) = {0}
          /\ Unwritten(Tail(files), "orders") = Unwritten(files, "orders")
      BY <1>3, <2>2, <3>1, UnwrittenOf, Tails
    <3>3. Unwritten(files, db) = Unwritten(Tail(files), db) \cup {part}
      BY <1>1, <3>1, <3>2
    <3>4. QED BY <1>1, <1>2, <1>3, <3>1, <3>2, <3>3
  <2>3. CASE files \in {Lines1, Both4}
    <3>1. part = 0 /\ Tail(files) \in {<<>>, Orders3}
      BY <1>3, <2>3, Heads, Tails, SMTT(30)
    <3>2. /\ Unwritten(files, db) = {0} /\ Unwritten(Tail(files), db) = {}
          /\ Unwritten(Tail(files), "orders") = Unwritten(files, "orders")
      BY <1>3, <2>3, <3>1, UnwrittenOf, Tails
    <3>3. Unwritten(files, db) = Unwritten(Tail(files), db) \cup {part}
      BY <1>1, <3>1, <3>2
    <3>4. QED BY <1>1, <1>2, <1>3, <3>1, <3>2, <3>3
  <2>4. files \notin {Orders3, Orders2, Orders1}
    BY <1>3, Heads
  <2>5. QED BY <2>1, <2>2, <2>3, <2>4 DEF Lists
<1>4. CASE db = "orders"
  <2>1. CASE files = Orders3
    <3>1. part = 1 /\ Tail(files) = Orders2
      BY <1>4, <2>1, Heads, Tails
    <3>2. /\ Unwritten(files, db) = 0..2 /\ Unwritten(Tail(files), db) = {0, 2}
          /\ Unwritten(Tail(files), "lines") = Unwritten(files, "lines")
      BY <1>4, <2>1, <3>1, UnwrittenOf, Tails
    <3>3. Unwritten(files, db) = Unwritten(Tail(files), db) \cup {part}
      BY <1>1, <3>1, <3>2
    <3>4. QED BY <1>1, <1>2, <1>4, <3>1, <3>2, <3>3, <2>1, UnwrittenOf
  <2>2. CASE files = Orders2
    <3>1. part = 2 /\ Tail(files) = Orders1
      BY <1>4, <2>2, Heads, Tails
    <3>2. /\ Unwritten(files, db) = {0, 2} /\ Unwritten(Tail(files), db) = {0}
          /\ Unwritten(Tail(files), "lines") = Unwritten(files, "lines")
      BY <1>4, <2>2, <3>1, UnwrittenOf, Tails
    <3>3. Unwritten(files, db) = Unwritten(Tail(files), db) \cup {part}
      BY <1>1, <3>1, <3>2
    <3>4. QED BY <1>1, <1>2, <1>4, <3>1, <3>2, <3>3, <2>2, UnwrittenOf
  <2>3. CASE files = Orders1
    <3>1. part = 0 /\ Tail(files) = <<>>
      BY <1>4, <2>3, Heads, Tails
    <3>2. /\ Unwritten(files, db) = {0} /\ Unwritten(Tail(files), db) = {}
          /\ Unwritten(Tail(files), "lines") = Unwritten(files, "lines")
      BY <1>4, <2>3, <3>1, UnwrittenOf, Tails
    <3>3. Unwritten(files, db) = Unwritten(Tail(files), db) \cup {part}
      BY <1>1, <3>1, <3>2
    <3>4. QED BY <1>1, <1>2, <1>4, <3>1, <3>2, <3>3, <2>3, UnwrittenOf
  <2>4. files \notin {Lines3, Lines2, Lines1, Both6, Both5, Both4}
    BY <1>4, Heads
  <2>5. QED BY <2>1, <2>2, <2>3, <2>4 DEF Lists
<1>5. QED BY <1>3, <1>4

\* No file is left of a database the handler did not open.
LEMMA NotOpened ==
    ASSUME TypeOK, PhaseInv, phase = "closing", NEW db \in {"lines", "orders"}
    PROVE  /\ toClose \in Lists \cup {Items1}
           /\ db \notin Opened(request.name) =>
                 Unwritten(toClose, db) = {} /\ FilesLeft(toClose, db) = {}
<1>1. /\ Unwritten(Items1, db) = {} /\ FilesLeft(Items1, db) = {}
      /\ Unwritten(<<>>, db) = {} /\ FilesLeft(<<>>, db) = {}
  BY DEF Unwritten, FilesLeft, Items1
<1>2. CASE /\ Opened(request.name) = {"lines"}
           /\ toClose \in {Lines3, Lines2, Lines1, <<>>}
  BY <1>2, UnwrittenOf, FilesLeftOf DEF Lists
<1>3. CASE /\ Opened(request.name) = {"orders"}
           /\ toClose \in {Orders3, Orders2, Orders1, <<>>}
  BY <1>3, UnwrittenOf, FilesLeftOf DEF Lists
<1>4. CASE /\ Opened(request.name) = {"lines", "orders"}
           /\ toClose \in {Both6, Both5, Both4, Orders3, Orders2, Orders1, <<>>}
  BY <1>4 DEF Lists
<1>5. CASE /\ Opened(request.name) = {"items"}
           /\ toClose \in {Items1, <<>>}
  BY <1>1, <1>5 DEF Lists
<1>6. QED BY <1>2, <1>3, <1>4, <1>5, ClosingLists

\* A database is half-written if some of its files are written and some not.
LEMMA HalfWrittenOf ==
    ASSUME TypeOK, PhaseInv, NEW db \in {"lines", "orders"}
    PROVE  HalfWritten(db) <=> Written(db) \notin {{}, 0..2}
<1>1. HalfWritten(db) <=> phase = "closing" /\ Cardinality(FilesLeft(toClose, db)) \in 1..2
  BY DEF HalfWritten, FilesLeft
<1>2. CASE phase # "closing"
  BY <1>1, <1>2 DEF Written
<1>3. CASE phase = "closing" /\ db \notin Opened(request.name)
  <2>1. FilesLeft(toClose, db) = {}
    BY <1>3, NotOpened
  <2>2. Cardinality(FilesLeft(toClose, db)) = 0
    BY <2>1, FS_EmptySet
  <2>3. QED BY <1>1, <1>3, <2>2 DEF Written
<1>4. CASE phase = "closing" /\ db \in Opened(request.name)
  <2>1. CASE toClose \in Lists
    <3>1. HalfWritten(db) <=> Unwritten(toClose, db) \notin {{}, 0..2}
      BY <1>1, <1>4, <2>1, HalfLeft
    <3>2. Unwritten(toClose, db) \in SUBSET (0..2)
      BY DEF Unwritten
    <3>3. Written(db) = (0..2) \ Unwritten(toClose, db)
      BY <1>4 DEF Written
    <3>4. QED BY <3>1, <3>2, <3>3
  <2>2. CASE toClose = Items1
    <3>1. toClose # <<>> /\ toClose[1] = <<"items", 0>>
      BY <2>2 DEF Items1
    <3>2. request.name = "item_update"
      BY <1>4, <2>2, <3>1, ClosingLists, Heads
    <3>3. QED BY <1>4, <3>2 DEF Opened
  <2>3. QED BY <1>4, <2>1, <2>2, NotOpened
<1>5. QED BY <1>2, <1>3, <1>4

\* A file is written: it joins the written files of its database, whose
\* primary file was not among these; the other database's are as before, and
\* no order file is written before every line file is.
LEMMA CloseStep ==
    ASSUME TypeOK, PhaseInv, NEW db \in {"lines", "orders"}, NEW part, Closing(db, part)
    PROVE  /\ db \in Opened(request.name) /\ part \in 0..2
           /\ Written(db)' = Written(db) \cup {part}
           /\ 0 \notin Written(db)
           /\ \A e \in {"lines", "orders"} \ {db} : Written(e)' = Written(e)
           /\ db = "orders" /\ request.name = "order_remove" =>
                 Written("lines") = 0..2
           /\ PhaseInv'
<1>1. /\ phase = "closing" /\ toClose # <<>> /\ Head(toClose) = <<db, part>>
      /\ toClose' = Tail(toClose)
      /\ UNCHANGED <<phase, request, answer, touched>>
  BY DEF Closing
<1>2. toClose \in Lists
  BY <1>1, NotOpened, Heads
<1>3. /\ Tail(toClose) \in Lists
      /\ Unwritten(toClose, db) = Unwritten(toClose', db) \cup {part}
      /\ part \in 0..2 /\ part \notin Unwritten(toClose', db)
      /\ 0 \in Unwritten(toClose, db)
      /\ \A e \in {"lines", "orders"} \ {db} :
            Unwritten(toClose', e) = Unwritten(toClose, e)
      /\ db = "orders" => Unwritten(toClose, "lines") = {}
  BY <1>1, <1>2, WriteFirst
<1>4. db \in Opened(request.name)
  BY <1>1, <1>3, NotOpened
<1>5. Written(db)' = Written(db) \cup {part}
  <2>1. /\ Written(db) = (0..2) \ Unwritten(toClose, db)
        /\ Written(db)' = (0..2) \ Unwritten(toClose', db)
    BY <1>1, <1>4 DEF Written
  <2>2. QED BY <1>3, <2>1
<1>6. 0 \notin Written(db)
  BY <1>3 DEF Written
<1>7. \A e \in {"lines", "orders"} \ {db} : Written(e)' = Written(e)
  BY <1>1, <1>3 DEF Written
<1>8. db = "orders" /\ request.name = "order_remove" => Written("lines") = 0..2
  BY <1>1, <1>3 DEF Written, Opened
<1>9. toClose' \in Left(request.name)
  <2>1. toClose \in Left(request.name)
    BY <1>1 DEF PhaseInv
  <2>2. CASE Opened(request.name) = {"lines"}
    <3>1. {"orders"} # {"lines"}
      OBVIOUS
    <3>2. Left(request.name) = {Lines3, Lines2, Lines1, <<>>}
      BY <2>2, <3>1 DEF Left
    <3>3. QED BY <1>1, <2>1, <3>2, Tails
  <2>3. CASE Opened(request.name) = {"orders"}
    <3>1. {"orders"} # {"lines"}
      OBVIOUS
    <3>2. Left(request.name) = {Orders3, Orders2, Orders1, <<>>}
      BY <2>3, <3>1 DEF Left
    <3>3. QED BY <1>1, <2>1, <3>2, Tails
  <2>4. CASE Opened(request.name) = {"lines", "orders"}
    BY <1>1, <2>1, <2>4, Tails, SMTT(30) DEF Left
  <2>5. QED BY <1>1, <1>4, <2>2, <2>3, <2>4, ClosingLists
<1>10. PhaseInv'
  BY <1>1, <1>9 DEF PhaseInv
<1>11. QED BY <1>3, <1>4, <1>5, <1>6, <1>7, <1>8, <1>10

-----------------------------------------------------------------------------
(* The steps                                                               *)

LEMMA StoreType ==
    ASSUME NEW s \in Store
    PROVE  /\ s.lines \in LP!Table /\ s.orders \in OP!Table /\ s.items \in SUBSET Items
           /\ s = [orders |-> s.orders, lines |-> s.lines, items |-> s.items]
BY LinesSame, OrdersSame DEF Store

\* Between two requests the caches are what the files are.
LEMMA Idle ==
    ASSUME IInv, phase = "idle"
    PROVE  /\ request = NoRequest /\ answer = "ok" /\ touched = NoKeys /\ toClose = <<>>
           /\ mem = disk
           /\ LP!Cached(mem.lines, disk.lines, {}, {}, torn.lines)
           /\ OP!Cached(mem.orders, disk.orders, {}, {}, torn.orders)
           /\ \A a \in acked : /\ disk.lines.rows[a[1]] = a[2]
                               /\ LP!Indexed(disk.lines, a[1])
<1>1. request = NoRequest /\ answer = "ok" /\ touched = NoKeys /\ toClose = <<>>
  BY DEF IInv, PhaseInv
<1>2. touched.lines = {} /\ touched.orders = {}
  BY <1>1 DEF NoKeys
<1>3. Written("lines") = {} /\ Written("orders") = {}
  BY DEF Written
<1>4. mem \in Store /\ disk \in Store
  BY DEF IInv, TypeOK
<1>5. LP!Cached(mem.lines, disk.lines, {}, {}, torn.lines)
  BY <1>2, <1>3 DEF IInv, LinesInv
<1>6. OP!Cached(mem.orders, disk.orders, {}, {}, torn.orders)
  BY <1>2, <1>3 DEF IInv, OrdersInv
<1>7. mem.lines = disk.lines
  <2>1. \A r \in Rows : LP!SameKey(mem.lines, disk.lines, r)
    BY <1>5 DEF LP!Cached
  <2>2. QED BY <1>4, <2>1, StoreType, LP!SameKeysSameTable, LinesAssumption
<1>8. mem.orders = disk.orders
  <2>1. \A o \in Orders : OP!SameKey(mem.orders, disk.orders, o)
    BY <1>6 DEF OP!Cached
  <2>2. QED BY <1>4, <2>1, StoreType, OP!SameKeysSameTable, OrdersAssumption
<1>9. mem.items = disk.items
  BY <1>1 DEF IInv, ItemsInv, NoRequest
<1>10. mem = disk
  BY <1>4, <1>7, <1>8, <1>9, StoreType
<1>11. \A a \in acked : /\ disk.lines.rows[a[1]] = a[2]
                        /\ LP!Indexed(disk.lines, a[1])
  BY <1>2, <1>3 DEF IInv, AckedInv
<1>12. QED BY <1>1, <1>5, <1>6, <1>10, <1>11

LEMMA ListsType ==
    /\ Lines3 \in Seq({"orders", "lines", "items"} \X (0..2))
    /\ Orders3 \in Seq({"orders", "lines", "items"} \X (0..2))
    /\ Both6 \in Seq({"orders", "lines", "items"} \X (0..2))
    /\ Items1 \in Seq({"orders", "lines", "items"} \X (0..2))
BY DEF Lines3, Orders3, Both6, Items1

\* A handler's code is done: none of the files is written yet, and what was
\* acknowledged is still there.
LEMMA HandledStep ==
    ASSUME IInv, NEW req \in Requests, NEW ok \in BOOLEAN, NEW files,
           Handled(req, ok, files), mem' \in Store, touched' \in KeySets,
           \/ Opened(req.name) = {"lines"} /\ files = Lines3
           \/ Opened(req.name) = {"orders"} /\ files = Orders3
           \/ Opened(req.name) = {"lines", "orders"} /\ files = Both6
           \/ req.name = "item_update" /\ files = Items1,
           "lines" \notin Opened(req.name) => touched'.lines = {},
           "orders" \notin Opened(req.name) => touched'.orders = {}
    PROVE  /\ Written("lines")' = {} /\ Written("orders")' = {}
           /\ TypeOK' /\ PhaseInv' /\ AckedInv'
<1>1. /\ phase = "idle" /\ phase' = "closing" /\ request' = req
      /\ answer' = Answer(ok) /\ toClose' = files
      /\ UNCHANGED <<disk, torn, acked, crashes>>
  BY DEF Handled
<1>2. Written("lines")' = {} /\ Written("orders")' = {}
  <2>1. \A db \in {"lines", "orders"} :
            db \in Opened(req.name) => Unwritten(files, db) = 0..2
    <3>1. CASE req.name = "item_update"
      BY <3>1 DEF Opened
    <3>2. CASE Opened(req.name) = {"lines"} /\ files = Lines3
      BY <3>2, UnwrittenOf
    <3>3. CASE Opened(req.name) = {"orders"} /\ files = Orders3
      BY <3>3, UnwrittenOf
    <3>4. CASE Opened(req.name) = {"lines", "orders"} /\ files = Both6
      BY <3>4, UnwrittenOf
    <3>5. QED BY <3>1, <3>2, <3>3, <3>4
  <2>2. QED BY <1>1, <2>1 DEF Written
<1>3. TypeOK'
  <2>1. files \in Seq({"orders", "lines", "items"} \X (0..2))
    BY ListsType
  <2>2. QED BY <1>1, <2>1 DEF IInv, TypeOK, Answer
<1>4. PhaseInv'
  <2>1. files \in Left(req.name)
    <3>1. {"orders"} # {"lines"} /\ {"lines", "orders"} \notin {{"lines"}, {"orders"}}
          /\ {"items"} \notin {{"lines"}, {"orders"}, {"lines", "orders"}}
      OBVIOUS
    <3>2. req.name = "item_update" => Opened(req.name) = {"items"}
      BY DEF Opened
    <3>3. CASE Opened(req.name) = {"lines"} /\ files = Lines3
      BY <3>3 DEF Left
    <3>4. CASE Opened(req.name) = {"orders"} /\ files = Orders3
      BY <3>1, <3>4 DEF Left
    <3>5. CASE Opened(req.name) = {"lines", "orders"} /\ files = Both6
      BY <3>1, <3>5 DEF Left
    <3>6. CASE req.name = "item_update" /\ files = Items1
      BY <3>1, <3>2, <3>6 DEF Left
    <3>7. QED BY <3>3, <3>4, <3>5, <3>6
  <2>2. req # NoRequest
    <3>1. {} \notin {{"lines"}, {"orders"}, {"lines", "orders"}}
      OBVIOUS
    <3>2. Opened("none") = {} /\ NoRequest.name = "none"
      BY DEF Opened, NoRequest
    <3>3. QED BY <3>1, <3>2
  <2>3. QED BY <1>1, <2>1, <2>2 DEF PhaseInv
<1>5. AckedInv'
  <2>1. \A a \in acked : disk.lines.rows[a[1]] = a[2] /\ LP!Indexed(disk.lines, a[1])
    BY <1>1, Idle
  <2>2. QED BY <1>1, <1>2, <2>1 DEF AckedInv
<1>6. QED BY <1>2, <1>3, <1>4, <1>5

\* A consistent row is listed under its order and under its item.
LEMMA ListedByOrder ==
    ASSUME NEW t \in LP!Table, NEW r \in Rows, LP!Consistent(t, r), NEW o
    PROVE  r \in LP!DtoGetDuplicateList(t, ByOrder, o)
              <=> LP!Present(t, r) /\ t.rows[r].order = o
<1>1. ByOrder \in LP!Indexes
  BY DEF ByOrder, LP!Indexes
<1>2. r \in LP!DtoGetDuplicateList(t, ByOrder, o)
         <=> LP!Present(t, r) /\ LineExtract[ByOrder][t.rows[r]] = o
  BY <1>1, LP!ConsistentIsListed, LinesAssumption
<1>3. LP!Present(t, r) => t.rows[r] \in LineData
  BY DEF LP!Table, LP!Present
<1>4. QED BY <1>2, <1>3 DEF LineExtract, ByOrder

LEMMA ListedByItem ==
    ASSUME NEW t \in LP!Table, NEW r \in Rows, LP!Consistent(t, r), NEW i
    PROVE  r \in LP!DtoGetDuplicateList(t, ByItem, i)
              <=> LP!Present(t, r) /\ t.rows[r].item = i
<1>1. ByItem \in LP!Indexes
  BY DEF ByItem, LP!Indexes
<1>2. r \in LP!DtoGetDuplicateList(t, ByItem, i)
         <=> LP!Present(t, r) /\ LineExtract[ByItem][t.rows[r]] = i
  BY <1>1, LP!ConsistentIsListed, LinesAssumption
<1>3. LP!Present(t, r) => t.rows[r] \in LineData
  BY DEF LP!Table, LP!Present
<1>4. QED BY <1>2, <1>3 DEF LineExtract, ByItem

\* What a put does to the lines: no row goes, and one that succeeds leaves a
\* row that can be reached.
LEMMA PutLine ==
    ASSUME NEW t \in LP!Table, NEW r \in Rows, NEW d \in LineData,
           NEW out \in LP!PutOutcomes(t, r, d)
    PROVE  /\ out.ok \in BOOLEAN /\ out.table \in LP!Table
           /\ out.ok => LP!Present(out.table, r) /\ LP!Indexed(out.table, r)
           /\ \A s \in Rows \ {r} : out.table.rows[s] = t.rows[s]
           /\ \A s \in Rows : out.table.rows[s] = NoData => t.rows[s] = NoData
<1>1. out.ok \in BOOLEAN /\ out.table \in LP!Table
  BY LP!PutType, LinesAssumption
<1>2. out.ok => LP!Indexed(out.table, r)
  BY LP!PutOkIsIndexed, LinesAssumption
<1>3. d # NoData
  BY LinesAssumption
<1>4. t.rows \in [Rows -> LineData \cup {NoData}]
  BY DEF LP!Table
<1>5. \/ out.ok /\ out.table.rows = [t.rows EXCEPT ![r] = d]
      \/ ~out.ok /\ out.table.rows = t.rows
  BY LP!PutRows, LinesAssumption
<1>6. QED BY <1>1, <1>2, <1>3, <1>4, <1>5 DEF LP!Present

LEMMA AddItemStep ==
    ASSUME IInv, NEW o \in Orders, NEW i \in Items, AddItem(o, i)
    PROVE  IInv'
<1> DEFINE req == [name |-> "order_add_item", order |-> o, item |-> i]
           d == [order |-> o, item |-> i]
<1>1. PICK r \in Rows : \E out \in LP!PutOutcomes(mem.lines, r, d) :
          /\ mem' = [mem EXCEPT !.lines = out.table]
          /\ Touches("lines", {r})
          /\ Handled(req, out.ok, Files("lines"))
  BY LinesSame DEF AddItem, GenerateUniqueId
<1>2. PICK out \in LP!PutOutcomes(mem.lines, r, d) :
          /\ mem' = [mem EXCEPT !.lines = out.table]
          /\ Touches("lines", {r})
          /\ Handled(req, out.ok, Files("lines"))
  BY <1>1
<1>3. /\ phase = "idle" /\ request' = req /\ answer' = Answer(out.ok)
      /\ UNCHANGED <<disk, torn>>
      /\ touched'.lines = {r} /\ touched'.orders = {} /\ touched' \in KeySets
  BY <1>2 DEF Handled, Touches, NoKeys, KeySets
<1>4. d \in LineData /\ req \in Requests /\ Opened(req.name) = {"lines"}
  BY DEF LineData, Requests, Opened
<1>5. /\ mem = disk /\ toClose = <<>>
      /\ LP!Cached(mem.lines, disk.lines, {}, {}, torn.lines)
      /\ OP!Cached(mem.orders, disk.orders, {}, {}, torn.orders)
  BY <1>3, Idle
<1>6. mem \in Store /\ disk \in Store /\ mem.lines \in LP!Table
  BY StoreType DEF IInv, TypeOK
<1>7. /\ out.ok \in BOOLEAN /\ out.table \in LP!Table
      /\ out.ok => LP!Present(out.table, r) /\ LP!Indexed(out.table, r)
      /\ \A s \in Rows : out.table.rows[s] = NoData => mem.lines.rows[s] = NoData
  BY <1>4, <1>6, PutLine
<1>8. /\ mem' \in Store /\ mem'.lines = out.table
      /\ mem'.orders = mem.orders /\ mem'.items = mem.items
  BY <1>2, <1>6, <1>7, LinesSame DEF Store
<1>9. /\ Written("lines")' = {} /\ Written("orders")' = {}
      /\ TypeOK' /\ PhaseInv' /\ AckedInv'
  <2>1. Files("lines") = Lines3
    BY FilesAre
  <2>2. QED BY <1>2, <1>3, <1>4, <1>7, <1>8, <2>1, HandledStep
<1>10. LinesInv'
  <2>1. LP!Cached(out.table, disk.lines, {}, {} \cup {r}, torn.lines)
    BY <1>4, <1>5, <1>6, StoreType, LP!CachedPut, LinesAssumption
  <2>2. QED BY <1>3, <1>8, <1>9, <2>1 DEF LinesInv
<1>11. OrdersInv'
  BY <1>3, <1>5, <1>8, <1>9 DEF OrdersInv
<1>12. ItemsInv'
  BY <1>3, <1>5, <1>8 DEF ItemsInv
<1>13. ReportedInv' /\ GoneInv' /\ CommitInv'
  BY <1>3, <1>5, <1>7, <1>8 DEF ReportedInv, GoneInv, CommitInv, Answer
<1>14. QED BY <1>9, <1>10, <1>11, <1>12, <1>13 DEF IInv

\* order_remove_item: the cases are one del of no or of one row.
LEMMA RemoveItemStep ==
    ASSUME IInv, NEW o \in Orders, NEW i \in Items, RemoveItem(o, i)
    PROVE  IInv'
<1> DEFINE req == [name |-> "order_remove_item", order |-> o, item |-> i]
           Did(rows, ok) ==
              /\ Handled(req, ok, Files("lines"))
              /\ touched'.lines = rows /\ touched'.orders = {} /\ touched' \in KeySets
              /\ mem' \in Store
              /\ mem'.orders = mem.orders /\ mem'.items = mem.items
              /\ LP!Cached(mem'.lines, disk.lines, {}, rows, torn.lines)
              /\ \/ mem'.lines.rows = disk.lines.rows
                 \/ \E r \in Rows : mem'.lines.rows = Catalog!Without({r})
<1>1. mem \in Store /\ disk \in Store /\ mem.lines \in LP!Table
  BY StoreType DEF IInv, TypeOK
<1>2. phase = "idle"
  BY DEF RemoveItem, Handled
<1>3. /\ mem = disk /\ toClose = <<>> /\ touched = NoKeys
      /\ LP!Cached(mem.lines, disk.lines, {}, {}, torn.lines)
      /\ OP!Cached(mem.orders, disk.orders, {}, {}, torn.orders)
  BY <1>2, Idle
<1>4. PICK rows \in SUBSET Rows, ok \in BOOLEAN : Did(rows, ok)
  <2>1. CASE UNCHANGED <<mem, touched>> /\ Handled(req, FALSE, Files("lines"))
    <3>1. Did({}, FALSE)
      BY <1>1, <1>3, <2>1 DEF NoKeys, KeySets
    <3>2. QED BY <3>1
  <2>2. ASSUME NEW r \in Rows, NEW t \in LP!DelOutcomes(mem.lines, {r}),
               mem' = [mem EXCEPT !.lines = t],
               Touches("lines", {r}),
               Handled(req, LT!Present(t, r), Files("lines"))
        PROVE  Did({r}, LT!Present(t, r))
    <3>1. t \in LP!Table
      BY <1>1, LP!DelType, LinesAssumption
    <3>2. /\ mem' \in Store /\ mem'.lines = t
          /\ mem'.orders = mem.orders /\ mem'.items = mem.items
      BY <1>1, <2>2, <3>1, LinesSame DEF Store
    <3>3. LP!Cached(t, disk.lines, {}, {} \cup {r}, torn.lines)
      BY <1>1, <1>3, LP!CachedDel, LinesAssumption
    <3>4. t.rows = mem.lines.rows \/ t.rows = Catalog!Without({r})
      <4>1. t.rows = [k \in Rows |->
                IF k \in {r} /\ LP!Indexed(mem.lines, k) THEN NoData ELSE mem.lines.rows[k]]
        BY <1>1, LP!DelRows, LinesAssumption
      <4>2. mem.lines.rows \in [Rows -> LineData \cup {NoData}]
        BY <1>1 DEF LP!Table
      <4>3. CASE LP!Indexed(mem.lines, r)
        BY <1>3, <4>1, <4>3 DEF Catalog!Without
      <4>4. CASE ~LP!Indexed(mem.lines, r)
        BY <4>1, <4>2, <4>4
      <4>5. QED BY <4>3, <4>4
    <3>5. /\ touched'.lines = {r} /\ touched'.orders = {} /\ touched' \in KeySets
      BY <2>2 DEF Touches, NoKeys, KeySets
    <3>6. QED BY <1>3, <2>2, <3>2, <3>3, <3>4, <3>5
  <2>3. CASE \E r \in Rows : \E t \in LP!DelOutcomes(mem.lines, {r}) :
                /\ mem' = [mem EXCEPT !.lines = t]
                /\ Touches("lines", {r})
                /\ Handled(req, LT!Present(t, r), Files("lines"))
    <3>1. PICK r \in Rows : \E t \in LP!DelOutcomes(mem.lines, {r}) :
                /\ mem' = [mem EXCEPT !.lines = t]
                /\ Touches("lines", {r})
                /\ Handled(req, LT!Present(t, r), Files("lines"))
      BY <2>3
    <3>2. PICK t \in LP!DelOutcomes(mem.lines, {r}) :
                /\ mem' = [mem EXCEPT !.lines = t]
                /\ Touches("lines", {r})
                /\ Handled(req, LT!Present(t, r), Files("lines"))
      BY <3>1
    <3>3. Did({r}, LT!Present(t, r))
      BY <2>2, <3>2
    <3>4. LT!Present(t, r) \in BOOLEAN
      BY DEF LT!Present
    <3>5. QED BY <3>3, <3>4
  <2>4. \A r \in SelectByOrderSdb(mem, o) : r \in Rows
    BY DEF SelectByOrderSdb, LT!DtoGetDuplicateList
  <2> HIDE DEF Did
  <2>5. QED BY <2>1, <2>3, <2>4, LinesSame DEF RemoveItem
<1>5. request' = req /\ UNCHANGED <<disk, torn>>
  BY <1>4 DEF Handled
<1>6. req \in Requests /\ Opened(req.name) = {"lines"}
  BY DEF Requests, Opened
<1>7. /\ Written("lines")' = {} /\ Written("orders")' = {}
      /\ TypeOK' /\ PhaseInv' /\ AckedInv'
  <2>1. Files("lines") = Lines3
    BY FilesAre
  <2>2. QED BY <1>4, <1>6, <2>1, HandledStep
<1>8. LinesInv' /\ OrdersInv'
  BY <1>3, <1>4, <1>5, <1>7 DEF LinesInv, OrdersInv
<1>9. ItemsInv'
  BY <1>3, <1>4, <1>5 DEF ItemsInv
<1>10. ReportedInv' /\ GoneInv'
  BY <1>5 DEF ReportedInv, GoneInv
<1>11. CommitInv'
  BY <1>4, <1>5 DEF CommitInv, Catalog!Without
<1>12. QED BY <1>7, <1>8, <1>9, <1>10, <1>11 DEF IInv

\* What delete_order does to the lines: every untorn line of the order goes,
\* and no untorn line of another order.
LEMMA DelLines ==
    ASSUME NEW m \in LP!Table, NEW f \in LP!Table, NEW trn, NEW o,
           LP!Cached(m, f, {}, {}, trn),
           NEW rows, rows = LP!DtoGetDuplicateList(m, ByOrder, o),
           NEW t \in LP!DelOutcomes(m, rows)
    PROVE  /\ rows \in SUBSET Rows /\ t \in LP!Table
           /\ LP!Cached(t, f, {}, rows, trn)
           /\ \A r \in Rows \ trn : ~(LP!Present(t, r) /\ t.rows[r].order = o)
           /\ LP!DtoGetDuplicateList(t, ByOrder, o) \subseteq trn
           /\ \E S \in SUBSET Rows :
                 /\ \A r \in Rows \ trn : r \in S <=> LP!Present(m, r) /\ m.rows[r].order = o
                 /\ S \subseteq rows
                 /\ t.rows = [r \in Rows |-> IF r \in S THEN NoData ELSE m.rows[r]]
<1>1. rows \in SUBSET Rows
  BY DEF LP!DtoGetDuplicateList
<1>2. t \in LP!Table
  BY <1>1, LP!DelType, LinesAssumption
<1>3. LP!Cached(t, f, {}, {} \cup rows, trn)
  BY <1>1, LP!CachedDel, LinesAssumption
<1>4. ASSUME NEW r \in Rows \ trn PROVE LP!Consistent(m, r) /\ LP!Consistent(t, r)
  BY <1>3 DEF LP!Cached
<1>5. ASSUME NEW r \in Rows \ trn
      PROVE  ~(LP!Present(t, r) /\ t.rows[r].order = o)
  <2>1. LP!Consistent(m, r)
    BY <1>4
  <2>2. CASE r \in rows
    <3>1. LP!Indexed(m, r)
      BY <2>1, LP!ConsistentIsIndexed, LinesAssumption
    <3>2. QED BY <1>1, <2>2, <3>1, LP!DelOnIndexed, LinesAssumption
  <2>3. CASE r \notin rows
    <3>1. LP!SameKey(t, m, r)
      BY <1>1, <2>3, LP!DelOtherKeys, LinesAssumption
    <3>2. ~(LP!Present(m, r) /\ m.rows[r].order = o)
      BY <2>1, <2>3, ListedByOrder
    <3>3. QED BY <3>1, <3>2 DEF LP!SameKey, LP!Present
  <2>4. QED BY <2>2, <2>3
<1>6. LP!DtoGetDuplicateList(t, ByOrder, o) \subseteq trn
  <2>1. ASSUME NEW r \in Rows \ trn PROVE r \notin LP!DtoGetDuplicateList(t, ByOrder, o)
    BY <1>2, <1>4, <1>5, ListedByOrder
  <2>2. QED BY <2>1 DEF LP!DtoGetDuplicateList
<1>7. \E S \in SUBSET Rows :
         /\ \A r \in Rows \ trn : r \in S <=> LP!Present(m, r) /\ m.rows[r].order = o
         /\ S \subseteq rows
         /\ t.rows = [r \in Rows |-> IF r \in S THEN NoData ELSE m.rows[r]]
  <2> DEFINE S == {r \in rows : LP!Indexed(m, r)}
  <2>1. t.rows = [r \in Rows |-> IF r \in rows /\ LP!Indexed(m, r) THEN NoData ELSE m.rows[r]]
    BY <1>1, LP!DelRows, LinesAssumption
  <2>2. t.rows = [r \in Rows |-> IF r \in S THEN NoData ELSE m.rows[r]]
    BY <2>1
  <2>3. ASSUME NEW r \in Rows \ trn
        PROVE  r \in S <=> LP!Present(m, r) /\ m.rows[r].order = o
    <3>1. LP!Consistent(m, r)
      BY <1>4
    <3>2. LP!Indexed(m, r)
      BY <3>1, LP!ConsistentIsIndexed, LinesAssumption
    <3>3. r \in rows <=> LP!Present(m, r) /\ m.rows[r].order = o
      BY <3>1, ListedByOrder
    <3>4. QED BY <3>2, <3>3
  <2>4. S \in SUBSET Rows /\ S \subseteq rows
    BY <1>1
  <2> HIDE DEF S
  <2>5. QED BY <2>2, <2>3, <2>4
<1>8. QED BY <1>1, <1>2, <1>3, <1>5, <1>6, <1>7

LEMMA RemoveOrderStep ==
    ASSUME IInv, NEW o \in Orders, RemoveOrder(o)
    PROVE  IInv'
<1> DEFINE req == [name |-> "order_remove", order |-> o]
           rows == LP!DtoGetDuplicateList(mem.lines, ByOrder, o)
<1>1. /\ mem \in Store /\ disk \in Store
      /\ mem.lines \in LP!Table /\ mem.orders \in OP!Table
      /\ disk.lines \in LP!Table /\ disk.orders \in OP!Table
  BY StoreType DEF IInv, TypeOK
<1>2. SelectByOrderSdb(mem, o) = rows
  BY LinesSame DEF SelectByOrderSdb
<1>3. PICK t \in LP!DelOutcomes(mem.lines, rows), u \in OP!DelOutcomes(mem.orders, {o}) :
          mem' = [mem EXCEPT !.lines = t, !.orders = u]
  BY <1>2, LinesSame, OrdersSame DEF RemoveOrder
<1>4. /\ Handled(req, TRUE, RemoveOrderFiles)
      /\ touched' = [orders |-> {o}, lines |-> rows]
  BY <1>2 DEF RemoveOrder
<1>5. phase = "idle" /\ request' = req /\ UNCHANGED <<disk, torn>>
  BY <1>4 DEF Handled
<1>6. /\ mem = disk /\ toClose = <<>>
      /\ LP!Cached(mem.lines, disk.lines, {}, {}, torn.lines)
      /\ OP!Cached(mem.orders, disk.orders, {}, {}, torn.orders)
  BY <1>5, Idle
<1>7. /\ rows \in SUBSET Rows /\ t \in LP!Table
      /\ LP!Cached(t, disk.lines, {}, rows, torn.lines)
      /\ \A r \in Rows \ torn.lines : ~(LP!Present(t, r) /\ t.rows[r].order = o)
      /\ LP!DtoGetDuplicateList(t, ByOrder, o) \subseteq torn.lines
      /\ \E S \in SUBSET Rows :
            /\ \A r \in Rows \ torn.lines :
                  r \in S <=> LP!Present(mem.lines, r) /\ mem.lines.rows[r].order = o
            /\ S \subseteq rows
            /\ t.rows = [r \in Rows |-> IF r \in S THEN NoData ELSE mem.lines.rows[r]]
  BY <1>1, <1>6, DelLines
<1> HIDE DEF rows
<1>8. u \in OP!Table /\ OP!Cached(u, disk.orders, {}, {o}, torn.orders)
  <2>1. OP!Cached(u, disk.orders, {}, {} \cup {o}, torn.orders)
    BY <1>1, <1>6, OP!CachedDel, OrdersAssumption
  <2>2. QED BY <1>1, <2>1, OP!DelType, OrdersAssumption
<1>9. /\ mem' \in Store /\ mem'.lines = t /\ mem'.orders = u
      /\ mem'.items = mem.items
  BY <1>1, <1>3, <1>7, <1>8, LinesSame, OrdersSame DEF Store
<1>10. /\ touched'.lines = rows /\ touched'.orders = {o} /\ touched' \in KeySets
       /\ req \in Requests /\ Opened(req.name) = {"lines", "orders"}
  BY <1>4, <1>7 DEF KeySets, Requests, Opened
<1>11. /\ Written("lines")' = {} /\ Written("orders")' = {}
       /\ TypeOK' /\ PhaseInv' /\ AckedInv'
  <2>1. RemoveOrderFiles = Both6
    BY FilesAre
  <2>2. QED BY <1>4, <1>9, <1>10, <2>1, HandledStep
<1>12. LinesInv' /\ OrdersInv'
  BY <1>5, <1>7, <1>8, <1>9, <1>10, <1>11 DEF LinesInv, OrdersInv
<1>13. ItemsInv'
  BY <1>5, <1>6, <1>9 DEF ItemsInv
<1>14. ReportedInv'
  BY <1>5 DEF ReportedInv
<1>15. GoneInv'
  <2>1. OP!Present(u, o) => o \in torn.orders
    <3>1. SUFFICES ASSUME o \notin torn.orders PROVE ~OP!Present(u, o)
      OBVIOUS
    <3>2. OP!Consistent(mem.orders, o)
      BY <1>6, <3>1 DEF OP!Cached
    <3>3. OP!Indexed(mem.orders, o)
      BY <1>1, <3>2, OP!ConsistentIsIndexed, OrdersAssumption
    <3>4. QED BY <1>1, <3>3, OP!DelOnIndexed, OrdersAssumption
  <2>2. QED BY <1>5, <1>7, <1>9, <2>1 DEF GoneInv
<1>16. CommitInv'
  <2>1. PICK S \in SUBSET Rows :
            /\ \A r \in Rows \ torn.lines :
                  r \in S <=> LP!Present(mem.lines, r) /\ mem.lines.rows[r].order = o
            /\ t.rows = [r \in Rows |-> IF r \in S THEN NoData ELSE mem.lines.rows[r]]
    BY <1>7
  <2>2. t.rows = Catalog!Without(S)
    BY <1>6, <2>1 DEF Catalog!Without
  <2>3. /\ Catalog!LinesOf(o) \ torn.lines \subseteq S
        /\ S \subseteq Catalog!LinesOf(o) \cup torn.lines
    BY <1>6, <2>1 DEF Catalog!LinesOf, LP!Present
  <2>4. u.rows = disk.orders.rows \/ u.rows = [disk.orders.rows EXCEPT ![o] = NoData]
    <3>1. u.rows = [k \in Orders |->
              IF k \in {o} /\ OP!Indexed(mem.orders, k) THEN NoData ELSE mem.orders.rows[k]]
      BY <1>1, OP!DelRows, OrdersAssumption
    <3>2. mem.orders.rows \in [Orders -> OrderData \cup {NoData}]
      BY <1>1 DEF OP!Table
    <3>3. CASE OP!Indexed(mem.orders, o)
      BY <1>6, <3>1, <3>2, <3>3
    <3>4. CASE ~OP!Indexed(mem.orders, o)
      BY <1>6, <3>1, <3>2, <3>4
    <3>5. QED BY <3>3, <3>4
  <2>5. Catalog!Without(S)' = Catalog!Without(S) /\ Catalog!LinesOf(o)' = Catalog!LinesOf(o)
    BY <1>5 DEF Catalog!Without, Catalog!LinesOf
  <2>6. QED BY <1>5, <1>9, <2>2, <2>3, <2>4, <2>5 DEF CommitInv
<1>17. QED BY <1>11, <1>12, <1>13, <1>14, <1>15, <1>16 DEF IInv

LEMMA UpdateOrderStep ==
    ASSUME IInv, NEW o \in Orders, NEW d \in OrderData, UpdateOrder(o, d)
    PROVE  IInv'
<1> DEFINE req == [name |-> "order_update", order |-> o]
<1>1. PICK out \in OP!PutOutcomes(mem.orders, o, d) :
          /\ mem' = [mem EXCEPT !.orders = out.table]
          /\ Touches("orders", {o})
          /\ Handled(req, out.ok, Files("orders"))
  BY OrdersSame DEF UpdateOrder
<1>2. /\ phase = "idle" /\ request' = req /\ UNCHANGED <<disk, torn>>
      /\ touched'.orders = {o} /\ touched'.lines = {} /\ touched' \in KeySets
  BY <1>1 DEF Handled, Touches, NoKeys, KeySets
<1>3. /\ mem = disk /\ toClose = <<>>
      /\ LP!Cached(mem.lines, disk.lines, {}, {}, torn.lines)
      /\ OP!Cached(mem.orders, disk.orders, {}, {}, torn.orders)
  BY <1>2, Idle
<1>4. mem \in Store /\ disk \in Store /\ mem.orders \in OP!Table
  BY StoreType DEF IInv, TypeOK
<1>5. out.ok \in BOOLEAN /\ out.table \in OP!Table
  BY <1>4, OP!PutType, OrdersAssumption
<1>6. /\ mem' \in Store /\ mem'.orders = out.table
      /\ mem'.lines = mem.lines /\ mem'.items = mem.items
  BY <1>1, <1>4, <1>5, OrdersSame DEF Store
<1>7. req \in Requests /\ Opened(req.name) = {"orders"}
  BY DEF Requests, Opened
<1>8. /\ Written("lines")' = {} /\ Written("orders")' = {}
      /\ TypeOK' /\ PhaseInv' /\ AckedInv'
  <2>1. Files("orders") = Orders3
    BY FilesAre
  <2>2. QED BY <1>1, <1>2, <1>5, <1>6, <1>7, <2>1, HandledStep
<1>9. OrdersInv'
  <2>1. OP!Cached(out.table, disk.orders, {}, {} \cup {o}, torn.orders)
    BY <1>3, <1>4, StoreType, OP!CachedPut, OrdersAssumption
  <2>2. QED BY <1>2, <1>6, <1>8, <2>1 DEF OrdersInv
<1>10. LinesInv'
  BY <1>2, <1>3, <1>6, <1>8 DEF LinesInv
<1>11. ItemsInv'
  BY <1>2, <1>3, <1>6 DEF ItemsInv
<1>12. ReportedInv' /\ GoneInv'
  BY <1>2 DEF ReportedInv, GoneInv
<1>13. CommitInv'
  <2>1. \/ out.table.rows = [mem.orders.rows EXCEPT ![o] = d]
        \/ out.table.rows = mem.orders.rows
    BY <1>4, OP!PutRows, OrdersAssumption
  <2>2. QED BY <1>2, <1>3, <1>6, <2>1 DEF CommitInv
<1>14. QED BY <1>8, <1>9, <1>10, <1>11, <1>12, <1>13 DEF IInv

LEMMA UpdateItemStep ==
    ASSUME IInv, NEW i \in Items, UpdateItem(i)
    PROVE  IInv'
<1> DEFINE req == [name |-> "item_update", item |-> i]
<1>1. /\ mem' = [mem EXCEPT !.items = mem.items \cup {i}]
      /\ touched' = NoKeys
      /\ Handled(req, TRUE, Items1)
  BY DEF UpdateItem, Items1
<1>2. /\ phase = "idle" /\ request' = req /\ toClose' = Items1
      /\ UNCHANGED <<disk, torn>>
      /\ touched'.orders = {} /\ touched'.lines = {} /\ touched' \in KeySets
  BY <1>1 DEF Handled, NoKeys, KeySets
<1>3. /\ mem = disk
      /\ LP!Cached(mem.lines, disk.lines, {}, {}, torn.lines)
      /\ OP!Cached(mem.orders, disk.orders, {}, {}, torn.orders)
  BY <1>2, Idle
<1>4. mem \in Store /\ disk \in Store
  BY DEF IInv, TypeOK
<1>5. /\ mem' \in Store /\ mem'.items = mem.items \cup {i}
      /\ mem'.lines = mem.lines /\ mem'.orders = mem.orders
  BY <1>1, <1>4 DEF Store
<1>6. req \in Requests
  BY DEF Requests
<1>7. /\ Written("lines")' = {} /\ Written("orders")' = {}
      /\ TypeOK' /\ PhaseInv' /\ AckedInv'
  BY <1>1, <1>2, <1>5, <1>6, HandledStep
<1>8. LinesInv' /\ OrdersInv'
  BY <1>2, <1>3, <1>5, <1>7 DEF LinesInv, OrdersInv
<1>9. ItemsInv'
  BY <1>2, <1>3, <1>5 DEF ItemsInv
<1>10. ReportedInv' /\ GoneInv' /\ CommitInv'
  BY <1>2 DEF ReportedInv, GoneInv, CommitInv
<1>11. QED BY <1>7, <1>8, <1>9, <1>10 DEF IInv

LEMMA StartLoadStep ==
    ASSUME IInv, StartLoad
    PROVE  IInv'
<1>1. /\ phase = "idle" /\ phase' = "loading" /\ request'.name = "order_item_load"
      /\ request' \in Requests /\ request' # NoRequest
      /\ touched' = NoKeys /\ touched'.lines = {} /\ touched'.orders = {}
      /\ UNCHANGED <<disk, mem, answer, toClose, torn, acked, crashes>>
  BY DEF StartLoad, NoKeys, Requests, NoRequest
<1>2. /\ mem = disk /\ answer = "ok" /\ toClose = <<>>
      /\ LP!Cached(mem.lines, disk.lines, {}, {}, torn.lines)
      /\ OP!Cached(mem.orders, disk.orders, {}, {}, torn.orders)
      /\ \A a \in acked : disk.lines.rows[a[1]] = a[2] /\ LP!Indexed(disk.lines, a[1])
  BY <1>1, Idle
<1>3. Written("lines")' = {} /\ Written("orders")' = {}
  BY <1>1 DEF Written
<1>4. TypeOK'
  BY <1>1 DEF IInv, TypeOK, NoKeys, KeySets
<1>5. PhaseInv'
  BY <1>1, <1>2 DEF PhaseInv
<1>6. LinesInv' /\ OrdersInv'
  BY <1>1, <1>2, <1>3 DEF LinesInv, OrdersInv
<1>7. ItemsInv' /\ AckedInv'
  BY <1>1, <1>2, <1>3 DEF ItemsInv, AckedInv
<1>8. ReportedInv' /\ GoneInv' /\ CommitInv'
  BY <1>1, <1>2 DEF ReportedInv, GoneInv, CommitInv
<1>9. QED BY <1>4, <1>5, <1>6, <1>7, <1>8 DEF IInv

LEMMA LoadLineStep ==
    ASSUME IInv, NEW r \in Rows, NEW d \in LineData, LoadLine(r, d)
    PROVE  IInv'
<1>1. PICK out \in LP!PutOutcomes(mem.lines, r, d) :
          mem' = [mem EXCEPT !.lines = out.table] /\ answer' = Answer(out.ok)
  BY LinesSame DEF LoadLine
<1>2. /\ phase = "loading" /\ answer = "ok"
      /\ touched' = [touched EXCEPT !.lines = @ \cup {r}]
      /\ UNCHANGED <<disk, phase, request, toClose, torn, acked, crashes>>
  BY DEF LoadLine
<1>3. /\ mem \in Store /\ disk \in Store /\ touched \in KeySets
      /\ mem.lines \in LP!Table /\ disk.lines \in LP!Table
  BY StoreType DEF IInv, TypeOK
<1>4. /\ out.ok \in BOOLEAN /\ out.table \in LP!Table
      /\ out.ok => LP!Present(out.table, r) /\ LP!Indexed(out.table, r)
      /\ \A s \in Rows : out.table.rows[s] = NoData => mem.lines.rows[s] = NoData
  BY <1>3, PutLine
<1>5. /\ mem' \in Store /\ mem'.lines = out.table
      /\ mem'.orders = mem.orders /\ mem'.items = mem.items
  BY <1>1, <1>3, <1>4, LinesSame DEF Store
<1>6. /\ touched'.lines = touched.lines \cup {r} /\ touched'.orders = touched.orders
      /\ touched' \in KeySets
  BY <1>2, <1>3 DEF KeySets
<1>7. request.name = "order_item_load" /\ request # NoRequest /\ toClose = <<>>
  BY <1>2 DEF IInv, PhaseInv, NoRequest
<1>8. /\ Written("lines") = {} /\ Written("orders") = {}
      /\ Written("lines")' = {} /\ Written("orders")' = {}
  BY <1>2 DEF Written
<1>9. TypeOK'
  BY <1>1, <1>2, <1>5, <1>6 DEF IInv, TypeOK, Answer
<1>10. PhaseInv'
  BY <1>2, <1>6, <1>7 DEF IInv, PhaseInv, Opened
<1>11. LinesInv'
  <2>1. LP!Cached(mem.lines, disk.lines, {}, touched.lines, torn.lines)
    BY <1>8 DEF IInv, LinesInv
  <2>2. touched.lines \in SUBSET Rows
    BY <1>3 DEF KeySets
  <2>3. LP!Cached(out.table, disk.lines, {}, touched.lines \cup {r}, torn.lines)
    BY <1>3, <2>1, <2>2, LP!CachedPut, LinesAssumption
  <2>4. QED BY <1>2, <1>5, <1>6, <1>8, <2>3 DEF LinesInv
<1>12. OrdersInv'
  BY <1>2, <1>5, <1>6, <1>8 DEF IInv, OrdersInv
<1>13. ItemsInv' /\ AckedInv'
  BY <1>2, <1>5, <1>7, <1>8 DEF IInv, ItemsInv, AckedInv
<1>14. ReportedInv'
  <2>1. SUFFICES ASSUME out.ok, NEW s \in touched.lines \cup {r}
                 PROVE  LP!Present(out.table, s) /\ LP!Indexed(out.table, s)
    BY <1>1, <1>2, <1>5, <1>6 DEF ReportedInv, Answer
  <2>2. CASE s = r
    BY <1>4, <2>1, <2>2
  <2>3. CASE s # r
    <3>1. s \in Rows
      BY <1>3, <2>3 DEF KeySets
    <3>2. LP!Present(mem.lines, s) /\ LP!Indexed(mem.lines, s)
      BY <1>2, <1>7, <2>3 DEF IInv, ReportedInv
    <3>3. LP!SameKey(out.table, mem.lines, s)
      BY <1>3, <2>3, <3>1, LP!PutOtherKeys, LinesAssumption
    <3>4. QED BY <1>3, <1>4, <3>1, <3>2, <3>3, LP!SameKeyTransfers, LinesAssumption
  <2>4. QED BY <2>2, <2>3
<1>15. GoneInv' /\ CommitInv'
  BY <1>2, <1>4, <1>5, <1>7 DEF IInv, GoneInv, CommitInv
<1>16. QED BY <1>9, <1>10, <1>11, <1>12, <1>13, <1>14, <1>15 DEF IInv

LEMMA LoadBadLineStep ==
    ASSUME IInv, LoadBadLine
    PROVE  IInv'
<1>1. /\ phase = "loading" /\ answer' = "error"
      /\ UNCHANGED <<disk, mem, phase, request, toClose, touched, torn, acked, crashes>>
  BY DEF LoadBadLine
<1>2. /\ Written("lines")' = Written("lines") /\ Written("orders")' = Written("orders")
  BY <1>1 DEF Written
<1>3. TypeOK' /\ PhaseInv'
  BY <1>1 DEF IInv, TypeOK, PhaseInv
<1>4. LinesInv' /\ OrdersInv' /\ ItemsInv'
  BY <1>1, <1>2 DEF IInv, LinesInv, OrdersInv, ItemsInv
<1>5. AckedInv'
  BY <1>1, <1>2 DEF IInv, AckedInv
<1>6. ReportedInv' /\ GoneInv'
  BY <1>1 DEF IInv, ReportedInv, GoneInv
<1>7. CommitInv'
  <2>1. request.name = "order_item_load"
    BY <1>1 DEF IInv, PhaseInv
  <2>2. QED BY <1>1, <2>1 DEF IInv, CommitInv
<1>8. QED BY <1>3, <1>4, <1>5, <1>6, <1>7 DEF IInv

LEMMA EndLoadStep ==
    ASSUME IInv, EndLoad
    PROVE  IInv'
<1>1. /\ phase = "loading" /\ phase' = "closing" /\ toClose' = Lines3
      /\ UNCHANGED <<disk, mem, request, answer, touched, torn, acked, crashes>>
  BY FilesAre DEF EndLoad
<1>2. /\ request.name = "order_item_load" /\ request # NoRequest
      /\ Opened(request.name) = {"lines"} /\ mem.items = disk.items
  BY <1>1 DEF IInv, PhaseInv, ItemsInv, Opened, NoRequest
<1>3. /\ Written("lines") = {} /\ Written("orders") = {}
      /\ Written("lines")' = {} /\ Written("orders")' = {}
  BY <1>1, <1>2, UnwrittenOf DEF Written
<1>4. TypeOK'
  BY <1>1, ListsType DEF IInv, TypeOK
<1>5. PhaseInv'
  <2>1. Lines3 \in Left(request.name)
    BY <1>2 DEF Left
  <2>2. QED BY <1>1, <1>2, <2>1 DEF IInv, PhaseInv
<1>6. LinesInv' /\ OrdersInv'
  BY <1>1, <1>3 DEF IInv, LinesInv, OrdersInv
<1>7. ItemsInv' /\ AckedInv'
  BY <1>1, <1>2, <1>3 DEF IInv, ItemsInv, AckedInv
<1>8. ReportedInv' /\ GoneInv' /\ CommitInv'
  BY <1>1, <1>2 DEF IInv, ReportedInv, GoneInv, CommitInv
<1>9. QED BY <1>4, <1>5, <1>6, <1>7, <1>8 DEF IInv

\* A line the request did not touch is, in the files, what it was before a
\* step that writes one of these.
LEMMA UntouchedKept ==
    ASSUME NEW m \in LP!Table, NEW f \in LP!Table, NEW g \in LP!Table,
           NEW written, NEW written2, NEW tch, NEW trn,
           LP!Cached(m, f, written, tch, trn), LP!Cached(m, g, written2, tch, trn),
           NEW r \in Rows, r \notin tch
    PROVE  g.rows[r] = f.rows[r] /\ (LP!Indexed(f, r) => LP!Indexed(g, r))
<1>1. LP!SameKey(m, f, r) /\ LP!SameKey(m, g, r)
  BY DEF LP!Cached
<1>2. LP!Indexed(f, r) => LP!Indexed(g, r)
  BY <1>1, LP!SameKeyTransfers, LinesAssumption
<1>3. QED BY <1>1, <1>2 DEF LP!SameKey

\* What is the same for every file that is closed.
LEMMA CloseKeeps ==
    ASSUME IInv, NEW db \in {"orders", "lines"}, NEW part, Closing(db, part),
           disk' \in Store, disk'.items = disk.items, acked' \subseteq acked,
           UNCHANGED torn, LinesInv', OrdersInv',
           part = 0 /\ db = "lines" => \A a \in acked' : a[1] \notin touched.lines,
           db = "orders" => disk'.lines = disk.lines
    PROVE  TypeOK' /\ PhaseInv' /\ ItemsInv' /\ AckedInv' /\ ReportedInv' /\ GoneInv'
<1>1. /\ UNCHANGED <<mem, phase, request, answer, touched, crashes, torn>>
      /\ toClose' = Tail(toClose) /\ toClose # <<>>
  BY DEF Closing
<1>2. /\ db \in Opened(request.name) /\ part \in 0..2 /\ PhaseInv'
      /\ Written(db)' = Written(db) \cup {part} /\ 0 \notin Written(db)
      /\ \A e \in {"lines", "orders"} \ {db} : Written(e)' = Written(e)
  BY CloseStep DEF IInv
<1>3. TypeOK'
  <2>1. toClose' \in Seq({"orders", "lines", "items"} \X (0..2))
    BY <1>1 DEF IInv, TypeOK
  <2>2. QED BY <1>1, <2>1 DEF IInv, TypeOK
<1>4. ItemsInv'
  <2>1. request.name # "item_update"
    BY <1>2 DEF Opened
  <2>2. QED BY <1>1, <2>1 DEF IInv, ItemsInv
<1>5. AckedInv'
  <2>1. SUFFICES ASSUME NEW a \in acked'
                 PROVE  /\ a[1] \in touched.lines => 0 \notin Written("lines")'
                        /\ a[1] \notin touched.lines \/ Written("lines")' = {} =>
                              disk'.lines.rows[a[1]] = a[2] /\ LP!Indexed(disk'.lines, a[1])
    BY <1>1 DEF AckedInv
  <2>2. a \in acked
    OBVIOUS
  <2>3. CASE db = "orders"
    <3>1. Written("lines")' = Written("lines") /\ disk'.lines = disk.lines
      BY <1>2, <2>3
    <3>2. QED BY <2>2, <3>1 DEF IInv, AckedInv
  <2>4. CASE db = "lines"
    <3>1. a[1] \in touched.lines => 0 \notin Written("lines")'
      BY <1>2, <2>4
    <3>2. Written("lines")' # {}
      BY <1>2, <2>4
    <3>3. ASSUME a[1] \notin touched.lines
          PROVE  disk'.lines.rows[a[1]] = a[2] /\ LP!Indexed(disk'.lines, a[1])
      <4>1. disk.lines.rows[a[1]] = a[2] /\ LP!Indexed(disk.lines, a[1])
        BY <2>2, <3>3 DEF IInv, AckedInv
      <4>2. a[1] \in Rows
        BY <2>2 DEF IInv, TypeOK
      <4>3. /\ LP!Cached(mem.lines, disk.lines, Written("lines"), touched.lines, torn.lines)
            /\ LP!Cached(mem.lines, disk'.lines, Written("lines")', touched.lines, torn.lines)
        BY <1>1 DEF IInv, LinesInv
      <4>4. mem.lines \in LP!Table /\ disk.lines \in LP!Table /\ disk'.lines \in LP!Table
        BY StoreType DEF IInv, TypeOK
      <4>5. QED BY <3>3, <4>1, <4>2, <4>3, <4>4, UntouchedKept
    <3>4. QED BY <3>1, <3>2, <3>3
  <2>5. QED BY <2>3, <2>4
<1>6. ReportedInv' /\ GoneInv'
  BY <1>1 DEF IInv, ReportedInv, GoneInv
<1>7. QED BY <1>2, <1>3, <1>4, <1>5, <1>6

\* The cache of an index is written: no row is.
LEMMA CloseSecondaryStep ==
    ASSUME IInv, NEW db \in {"orders", "lines"}, NEW x \in 1..2, CloseSecondary(db, x)
    PROVE  /\ IInv'
           /\ disk'.lines.rows = disk.lines.rows /\ disk'.orders.rows = disk.orders.rows
           /\ UNCHANGED <<disk.items, torn>>
<1>1. /\ Closing(db, x) /\ disk' = [disk EXCEPT ![db].idx[x] = mem[db].idx[x]]
      /\ UNCHANGED acked /\ UNCHANGED <<mem, request, answer, touched, torn>>
  BY DEF CloseSecondary, Closing
<1>2. /\ Written(db)' = Written(db) \cup {x}
      /\ \A e \in {"lines", "orders"} \ {db} : Written(e)' = Written(e)
  BY <1>1, CloseStep DEF IInv
<1>3. /\ mem \in Store /\ disk \in Store
      /\ mem.lines \in LP!Table /\ disk.lines \in LP!Table
      /\ mem.orders \in OP!Table /\ disk.orders \in OP!Table
  BY StoreType DEF IInv, TypeOK
<1>4. x \in LP!Indexes /\ x \in OP!Indexes
  BY DEF LP!Indexes, OP!Indexes
<1>5. /\ disk' \in Store /\ LinesInv' /\ OrdersInv'
      /\ disk'.lines.rows = disk.lines.rows /\ disk'.orders.rows = disk.orders.rows
      /\ disk'.items = disk.items /\ (db = "orders" => disk'.lines = disk.lines)
  <2>1. CASE db = "lines"
    <3> DEFINE g == [disk.lines EXCEPT !.idx[x] = mem.lines.idx[x]]
    <3>1. g.rows = disk.lines.rows /\ g.idx = [disk.lines.idx EXCEPT ![x] = mem.lines.idx[x]]
      BY <1>3 DEF LP!Table
    <3>2. g \in LP!Table
      BY <1>3, <1>4, <3>1 DEF LP!Table
    <3>3. /\ disk' \in Store /\ disk'.lines = g
          /\ disk'.orders = disk.orders /\ disk'.items = disk.items
      BY <1>1, <1>3, <2>1, <3>2, LinesSame DEF Store
    <3> HIDE DEF g
    <3>4. LP!Cached(mem.lines, g, Written("lines") \cup {x}, touched.lines, torn.lines)
      BY <1>3, <1>4, <3>1, <3>2, LP!CachedCloseIndex, LinesAssumption DEF IInv, LinesInv
    <3>5. LinesInv'
      BY <1>1, <1>2, <2>1, <3>3, <3>4 DEF LinesInv
    <3>6. OrdersInv'
      BY <1>1, <1>2, <2>1, <3>3 DEF IInv, OrdersInv
    <3>7. QED BY <2>1, <3>1, <3>3, <3>5, <3>6
  <2>2. CASE db = "orders"
    <3> DEFINE g == [disk.orders EXCEPT !.idx[x] = mem.orders.idx[x]]
    <3>1. g.rows = disk.orders.rows /\ g.idx = [disk.orders.idx EXCEPT ![x] = mem.orders.idx[x]]
      BY <1>3 DEF OP!Table
    <3>2. g \in OP!Table
      BY <1>3, <1>4, <3>1 DEF OP!Table
    <3>3. /\ disk' \in Store /\ disk'.orders = g
          /\ disk'.lines = disk.lines /\ disk'.items = disk.items
      BY <1>1, <1>3, <2>2, <3>2, OrdersSame DEF Store
    <3> HIDE DEF g
    <3>4. OP!Cached(mem.orders, g, Written("orders") \cup {x}, touched.orders, torn.orders)
      BY <1>3, <1>4, <3>1, <3>2, OP!CachedCloseIndex, OrdersAssumption DEF IInv, OrdersInv
    <3>5. OrdersInv'
      BY <1>1, <1>2, <2>2, <3>3, <3>4 DEF OrdersInv
    <3>6. LinesInv'
      BY <1>1, <1>2, <2>2, <3>3 DEF IInv, LinesInv
    <3>7. QED BY <3>1, <3>3, <3>5, <3>6
  <2>3. QED BY <2>1, <2>2
<1>6. TypeOK' /\ PhaseInv' /\ ItemsInv' /\ AckedInv' /\ ReportedInv' /\ GoneInv'
  <2>1. x # 0 /\ acked' \subseteq acked
    BY <1>1
  <2>2. QED BY <1>1, <1>5, <2>1, CloseKeeps
<1>7. CommitInv'
  <2>1. Written("lines") \subseteq Written("lines")'
    BY <1>2
  <2>2. /\ \A S : Catalog!Without(S)' = Catalog!Without(S)
        /\ \A o : Catalog!LinesOf(o)' = Catalog!LinesOf(o)
    BY <1>5 DEF Catalog!Without, Catalog!LinesOf
  <2>3. QED BY <1>1, <1>5, <2>1, <2>2, ZenonT(40) DEF IInv, CommitInv
<1>8. QED BY <1>1, <1>5, <1>6, <1>7 DEF IInv

\* The cache of the rows is written.
LEMMA ClosePrimaryStep ==
    ASSUME IInv, NEW db \in {"orders", "lines"}, ClosePrimary(db)
    PROVE  /\ IInv'
           /\ db = "lines" => /\ disk'.lines.rows = mem.lines.rows
                              /\ disk'.orders.rows = disk.orders.rows
           /\ db = "orders" => /\ disk'.orders.rows = mem.orders.rows
                               /\ disk'.lines.rows = disk.lines.rows
           /\ UNCHANGED <<disk.items, torn>>
<1>1. /\ Closing(db, 0) /\ disk' = [disk EXCEPT ![db].rows = mem[db].rows]
      /\ acked' \subseteq acked /\ UNCHANGED <<mem, request, answer, touched, torn>>
      /\ db = "lines" => \A a \in acked' : a[1] \notin touched.lines
  BY DEF ClosePrimary, Closing
<1>2. /\ Written(db)' = Written(db) \cup {0}
      /\ \A e \in {"lines", "orders"} \ {db} : Written(e)' = Written(e)
  BY <1>1, CloseStep DEF IInv
<1>3. /\ mem \in Store /\ disk \in Store
      /\ mem.lines \in LP!Table /\ disk.lines \in LP!Table
      /\ mem.orders \in OP!Table /\ disk.orders \in OP!Table
  BY StoreType DEF IInv, TypeOK
<1>4. /\ disk' \in Store /\ LinesInv' /\ OrdersInv' /\ disk'.items = disk.items
      /\ db = "lines" => disk'.lines.rows = mem.lines.rows /\ disk'.orders = disk.orders
      /\ db = "orders" => disk'.orders.rows = mem.orders.rows /\ disk'.lines = disk.lines
  <2>1. CASE db = "lines"
    <3> DEFINE g == [disk.lines EXCEPT !.rows = mem.lines.rows]
    <3>1. g \in LP!Table /\ g.rows = mem.lines.rows /\ g.idx = disk.lines.idx
      BY <1>3 DEF LP!Table
    <3>2. /\ disk' \in Store /\ disk'.lines = g
          /\ disk'.orders = disk.orders /\ disk'.items = disk.items
      BY <1>1, <1>3, <2>1, <3>1, LinesSame DEF Store
    <3> HIDE DEF g
    <3>3. LP!Cached(mem.lines, g, Written("lines") \cup {0}, touched.lines, torn.lines)
      BY <1>3, <3>1, LP!CachedClosePrimary, LinesAssumption DEF IInv, LinesInv
    <3>4. LinesInv'
      BY <1>1, <1>2, <2>1, <3>2, <3>3 DEF LinesInv
    <3>5. OrdersInv'
      BY <1>1, <1>2, <2>1, <3>2 DEF IInv, OrdersInv
    <3>6. QED BY <2>1, <3>1, <3>2, <3>4, <3>5
  <2>2. CASE db = "orders"
    <3> DEFINE g == [disk.orders EXCEPT !.rows = mem.orders.rows]
    <3>1. g \in OP!Table /\ g.rows = mem.orders.rows /\ g.idx = disk.orders.idx
      BY <1>3 DEF OP!Table
    <3>2. /\ disk' \in Store /\ disk'.orders = g
          /\ disk'.lines = disk.lines /\ disk'.items = disk.items
      BY <1>1, <1>3, <2>2, <3>1, OrdersSame DEF Store
    <3> HIDE DEF g
    <3>3. OP!Cached(mem.orders, g, Written("orders") \cup {0}, touched.orders, torn.orders)
      BY <1>3, <3>1, OP!CachedClosePrimary, OrdersAssumption DEF IInv, OrdersInv
    <3>4. OrdersInv'
      BY <1>1, <1>2, <2>2, <3>2, <3>3 DEF OrdersInv
    <3>5. LinesInv'
      BY <1>1, <1>2, <2>2, <3>2 DEF IInv, LinesInv
    <3>6. QED BY <2>2, <3>1, <3>2, <3>4, <3>5
  <2>3. QED BY <2>1, <2>2
<1>5. TypeOK' /\ PhaseInv' /\ ItemsInv' /\ AckedInv' /\ ReportedInv' /\ GoneInv'
  BY <1>1, <1>4, CloseKeeps
<1>6. CommitInv'
  <2>1. CASE db = "lines"
    <3>1. 0 \in Written("lines")' /\ disk'.lines.rows = mem'.lines.rows
      BY <1>1, <1>2, <1>4, <2>1
    <3>2. disk'.orders = disk.orders
      BY <1>4, <2>1
    <3>3. QED BY <1>1, <3>1, <3>2 DEF IInv, CommitInv
  <2>2. CASE db = "orders"
    <3>1. disk'.lines = disk.lines /\ disk'.orders.rows = mem'.orders.rows
      BY <1>1, <1>4, <2>2
    <3>2. Written("lines")' = Written("lines")
      BY <1>2, <2>2
    <3>3. /\ \A S : Catalog!Without(S)' = Catalog!Without(S)
          /\ \A o : Catalog!LinesOf(o)' = Catalog!LinesOf(o)
      BY <3>1 DEF Catalog!Without, Catalog!LinesOf
    <3>4. QED BY <1>1, <3>1, <3>2, <3>3 DEF IInv, CommitInv
  <2>3. QED BY <2>1, <2>2
<1>7. QED BY <1>1, <1>4, <1>5, <1>6 DEF IInv

LEMMA CloseItemsStep ==
    ASSUME IInv, CloseItems
    PROVE  /\ IInv' /\ UNCHANGED <<disk.lines, disk.orders, torn>>
           /\ disk'.items = mem.items /\ request.name = "item_update"
<1>1. /\ phase = "closing" /\ toClose # <<>> /\ Head(toClose) = <<"items", 0>>
      /\ toClose' = Tail(toClose) /\ disk' = [disk EXCEPT !.items = mem.items]
      /\ UNCHANGED <<mem, phase, request, answer, touched, torn, crashes, acked>>
  BY DEF CloseItems, Closing
<1>2. request.name = "item_update" /\ Opened(request.name) = {"items"} /\ toClose = Items1
  BY <1>1, ClosingLists, Heads DEF IInv
<1>3. toClose' = <<>>
  BY <1>1, <1>2, Tails
<1>4. mem \in Store /\ disk \in Store
  BY DEF IInv, TypeOK
<1>5. /\ disk' \in Store /\ disk'.items = mem.items
      /\ disk'.lines = disk.lines /\ disk'.orders = disk.orders
  BY <1>1, <1>4 DEF Store
<1>6. /\ Written("lines") = {} /\ Written("orders") = {}
      /\ Written("lines")' = {} /\ Written("orders")' = {}
  BY <1>1, <1>2 DEF Written
<1>7. TypeOK'
  BY <1>1, <1>3, <1>5 DEF IInv, TypeOK
<1>8. PhaseInv'
  <2>1. <<>> \in Left(request.name)
    BY DEF Left
  <2>2. QED BY <1>1, <1>3, <2>1 DEF IInv, PhaseInv
<1>9. LinesInv' /\ OrdersInv' /\ AckedInv'
  BY <1>1, <1>5, <1>6 DEF IInv, LinesInv, OrdersInv, AckedInv
<1>10. ItemsInv' /\ ReportedInv' /\ GoneInv' /\ CommitInv'
  BY <1>1, <1>2, <1>5 DEF ItemsInv, ReportedInv, GoneInv, CommitInv
<1>11. QED BY <1>1, <1>2, <1>5, <1>7, <1>8, <1>9, <1>10 DEF IInv

\* When every file is closed, the files are what the caches are.
LEMMA Closed ==
    ASSUME IInv, phase = "closing", toClose = <<>>
    PROVE  /\ mem = disk
           /\ "lines" \in Opened(request.name) => Written("lines") = 0..2
           /\ \A r \in Rows \ torn.lines : LP!Consistent(disk.lines, r)
           /\ \A o \in Orders \ torn.orders : OP!Consistent(disk.orders, o)
<1>1. /\ mem \in Store /\ disk \in Store
      /\ mem.lines \in LP!Table /\ disk.lines \in LP!Table
      /\ mem.orders \in OP!Table /\ disk.orders \in OP!Table
  BY StoreType DEF IInv, TypeOK
<1>2. \A db \in {"lines", "orders"} :
          Written(db) = IF db \in Opened(request.name) THEN 0..2 ELSE {}
  BY UnwrittenOf DEF Written
<1>3. mem.lines = disk.lines
  <2>1. LP!Cached(mem.lines, disk.lines, Written("lines"), touched.lines, torn.lines)
    BY DEF IInv, LinesInv
  <2>2. CASE "lines" \in Opened(request.name)
    <3>1. Written("lines") = LP!Parts
      BY <1>2, <2>2 DEF LP!Parts, LP!Indexes
    <3>2. QED BY <1>1, <2>1, <3>1, LP!CachedWhole, LinesAssumption
  <2>3. CASE "lines" \notin Opened(request.name)
    <3>1. touched.lines = {}
      BY <2>3 DEF IInv, PhaseInv
    <3>2. \A r \in Rows : LP!SameKey(mem.lines, disk.lines, r)
      BY <2>1, <3>1 DEF LP!Cached
    <3>3. QED BY <1>1, <3>2, LP!SameKeysSameTable, LinesAssumption
  <2>4. QED BY <2>2, <2>3
<1>4. mem.orders = disk.orders
  <2>1. OP!Cached(mem.orders, disk.orders, Written("orders"), touched.orders, torn.orders)
    BY DEF IInv, OrdersInv
  <2>2. CASE "orders" \in Opened(request.name)
    <3>1. Written("orders") = OP!Parts
      BY <1>2, <2>2 DEF OP!Parts, OP!Indexes
    <3>2. QED BY <1>1, <2>1, <3>1, OP!CachedWhole, OrdersAssumption
  <2>3. CASE "orders" \notin Opened(request.name)
    <3>1. touched.orders = {}
      BY <2>3 DEF IInv, PhaseInv
    <3>2. \A o \in Orders : OP!SameKey(mem.orders, disk.orders, o)
      BY <2>1, <3>1 DEF OP!Cached
    <3>3. QED BY <1>1, <3>2, OP!SameKeysSameTable, OrdersAssumption
  <2>4. QED BY <2>2, <2>3
<1>5. mem.items = disk.items
  <2>1. toClose # Items1
    BY DEF Items1
  <2>2. QED BY <2>1 DEF IInv, ItemsInv
<1>6. mem = disk
  BY <1>1, <1>3, <1>4, <1>5, StoreType
<1>7. \A r \in Rows \ torn.lines : LP!Consistent(disk.lines, r)
  BY <1>3 DEF IInv, LinesInv, LP!Cached
<1>8. \A o \in Orders \ torn.orders : OP!Consistent(disk.orders, o)
  BY <1>4 DEF IInv, OrdersInv, OP!Cached
<1>9. QED BY <1>2, <1>6, <1>7, <1>8

\* A request is over: no file is written, nothing is touched.
LEMMA OverStep ==
    ASSUME IInv, RequestOver, UNCHANGED disk, mem' = disk, torn' \in KeySets,
           acked' \subseteq Rows \X LineData, crashes' \in 0..MaxCrashes,
           LP!Cached(disk.lines, disk.lines, {}, {}, torn'.lines),
           OP!Cached(disk.orders, disk.orders, {}, {}, torn'.orders),
           \A a \in acked' : disk.lines.rows[a[1]] = a[2] /\ LP!Indexed(disk.lines, a[1])
    PROVE  IInv'
<1>1. /\ phase' = "idle" /\ request' = NoRequest /\ answer' = "ok"
      /\ toClose' = <<>> /\ touched' = NoKeys /\ request'.name = "none"
      /\ touched'.lines = {} /\ touched'.orders = {}
  BY DEF RequestOver, NoKeys, NoRequest
<1>2. Written("lines")' = {} /\ Written("orders")' = {}
  BY <1>1 DEF Written
<1>3. TypeOK'
  BY <1>1 DEF IInv, TypeOK, NoKeys, KeySets, Requests
<1>4. PhaseInv'
  BY <1>1 DEF PhaseInv
<1>5. LinesInv' /\ OrdersInv' /\ ItemsInv' /\ AckedInv'
  BY <1>1, <1>2 DEF LinesInv, OrdersInv, ItemsInv, AckedInv
<1>6. ReportedInv' /\ GoneInv' /\ CommitInv'
  BY <1>1 DEF ReportedInv, GoneInv, CommitInv
<1>7. QED BY <1>3, <1>4, <1>5, <1>6 DEF IInv

LEMMA ReplyStep ==
    ASSUME IInv, Reply
    PROVE  IInv' /\ UNCHANGED <<disk, torn>>
<1>1. /\ phase = "closing" /\ toClose = <<>> /\ acked' = acked \cup Reported
      /\ RequestOver /\ UNCHANGED <<disk, mem, torn, crashes>>
  BY DEF Reply
<1>2. /\ mem = disk
      /\ "lines" \in Opened(request.name) => Written("lines") = 0..2
      /\ \A r \in Rows \ torn.lines : LP!Consistent(disk.lines, r)
      /\ \A o \in Orders \ torn.orders : OP!Consistent(disk.orders, o)
  BY <1>1, Closed
<1>3. disk.lines \in LP!Table /\ disk.orders \in OP!Table /\ touched \in KeySets
  BY StoreType DEF IInv, TypeOK
<1>4. LP!Cached(disk.lines, disk.lines, {}, {}, torn.lines)
  BY <1>2, <1>3, LP!CachedFresh, LinesAssumption
<1>5. OP!Cached(disk.orders, disk.orders, {}, {}, torn.orders)
  BY <1>2, <1>3, OP!CachedFresh, OrdersAssumption
<1>6. ASSUME NEW a \in acked
      PROVE  disk.lines.rows[a[1]] = a[2] /\ LP!Indexed(disk.lines, a[1])
  <2>1. a[1] \notin touched.lines
    <3>1. SUFFICES ASSUME a[1] \in touched.lines PROVE FALSE
      OBVIOUS
    <3>2. "lines" \in Opened(request.name)
      BY <3>1 DEF IInv, PhaseInv
    <3>3. 0 \in Written("lines")
      BY <1>2, <3>2
    <3>4. QED BY <3>1, <3>3 DEF IInv, AckedInv
  <2>2. QED BY <2>1 DEF IInv, AckedInv
<1>7. ASSUME NEW a \in Reported
      PROVE  /\ a \in Rows \X LineData
             /\ disk.lines.rows[a[1]] = a[2] /\ LP!Indexed(disk.lines, a[1])
  <2>1. PICK r \in touched.lines : a = <<r, mem.lines.rows[r]>>
    BY DEF Reported
  <2>2. r \in Rows /\ LP!Present(disk.lines, r) /\ LP!Indexed(disk.lines, r)
    BY <1>2, <1>3 DEF IInv, ReportedInv, Reported, KeySets
  <2>3. disk.lines.rows[r] \in LineData
    BY <1>3, <2>2 DEF LP!Table, LP!Present
  <2>4. QED BY <1>2, <2>1, <2>2, <2>3
<1>8. acked' \subseteq Rows \X LineData
  BY <1>1, <1>7 DEF IInv, TypeOK
<1>9. torn' \in KeySets /\ crashes' \in 0..MaxCrashes
  BY <1>1 DEF IInv, TypeOK
<1>10. QED BY <1>1, <1>2, <1>4, <1>5, <1>6, <1>7, <1>8, <1>9, OverStep

\* A crash: what was acknowledged and is not torn is in the files, since the
\* running request had either not begun to write the lines, or not touched it.
LEMMA CrashStep ==
    ASSUME IInv, Crash
    PROVE  IInv' /\ UNCHANGED disk /\ torn.lines \subseteq torn'.lines /\ torn' \in KeySets
<1>1. /\ crashes < MaxCrashes /\ crashes' = crashes + 1 /\ mem' = disk
      /\ acked' = {a \in acked : a[1] \notin torn'.lines}
      /\ RequestOver /\ UNCHANGED disk
  BY DEF Crash
<1>2. /\ torn'.lines = torn.lines \cup IF HalfWritten("lines") THEN touched.lines ELSE {}
      /\ torn'.orders = torn.orders \cup IF HalfWritten("orders") THEN touched.orders ELSE {}
      /\ torn' = [orders |-> torn'.orders, lines |-> torn'.lines]
  BY DEF Crash
<1>3. torn' \in KeySets
  BY <1>2 DEF IInv, TypeOK, KeySets
<1>4. /\ HalfWritten("lines") <=> Written("lines") \notin {{}, 0..2}
      /\ HalfWritten("orders") <=> Written("orders") \notin {{}, 0..2}
  BY HalfWrittenOf DEF IInv
<1>5. /\ mem.lines \in LP!Table /\ disk.lines \in LP!Table
      /\ mem.orders \in OP!Table /\ disk.orders \in OP!Table
  BY StoreType DEF IInv, TypeOK
<1>6. LP!Cached(disk.lines, disk.lines, {}, {}, torn'.lines)
  <2>1. LP!Parts = 0..2
    BY DEF LP!Parts, LP!Indexes
  <2>2. LP!Cached(mem.lines, disk.lines, Written("lines"), touched.lines, torn.lines)
    BY DEF IInv, LinesInv
  <2>3. Written("lines") \in SUBSET LP!Parts
    BY <2>1 DEF Written
  <2>4. /\ torn.lines \subseteq torn'.lines
        /\ Written("lines") \notin {{}, LP!Parts} => touched.lines \subseteq torn'.lines
    BY <1>2, <1>4, <2>1
  <2>5. QED BY <1>5, <2>2, <2>3, <2>4, LP!CachedLost, LinesAssumption
<1>7. OP!Cached(disk.orders, disk.orders, {}, {}, torn'.orders)
  <2>1. OP!Parts = 0..2
    BY DEF OP!Parts, OP!Indexes
  <2>2. OP!Cached(mem.orders, disk.orders, Written("orders"), touched.orders, torn.orders)
    BY DEF IInv, OrdersInv
  <2>3. Written("orders") \in SUBSET OP!Parts
    BY <2>1 DEF Written
  <2>4. /\ torn.orders \subseteq torn'.orders
        /\ Written("orders") \notin {{}, OP!Parts} => touched.orders \subseteq torn'.orders
    BY <1>2, <1>4, <2>1
  <2>5. QED BY <1>5, <2>2, <2>3, <2>4, OP!CachedLost, OrdersAssumption
<1>8. ASSUME NEW a \in acked'
      PROVE  disk.lines.rows[a[1]] = a[2] /\ LP!Indexed(disk.lines, a[1])
  <2>1. a \in acked /\ a[1] \notin torn'.lines
    BY <1>1
  <2>2. a[1] \notin touched.lines \/ Written("lines") = {}
    <3>1. SUFFICES ASSUME a[1] \in touched.lines PROVE Written("lines") = {}
      OBVIOUS
    <3>2. ~HalfWritten("lines")
      BY <1>2, <2>1, <3>1
    <3>3. Written("lines") \in {{}, 0..2} /\ 0 \notin Written("lines")
      BY <1>4, <2>1, <3>1, <3>2 DEF IInv, AckedInv
    <3>4. QED BY <3>3
  <2>3. QED BY <2>1, <2>2 DEF IInv, AckedInv
<1>9. acked' \subseteq Rows \X LineData /\ crashes' \in 0..MaxCrashes
  BY <1>1, OrderStoreAssumption DEF IInv, TypeOK
<1>10. IInv'
  BY <1>1, <1>3, <1>6, <1>7, <1>8, <1>9, OverStep
<1>11. QED BY <1>1, <1>2, <1>3, <1>10

-----------------------------------------------------------------------------
(* The invariant                                                           *)

LEMMA InitIInv == Init => IInv
<1> SUFFICES ASSUME Init PROVE IInv
  OBVIOUS
<1>1. /\ disk = EmptyStore /\ mem = EmptyStore /\ phase = "idle" /\ request = NoRequest
      /\ answer = "ok" /\ toClose = <<>> /\ touched = NoKeys /\ torn = NoKeys
      /\ acked = {} /\ crashes = 0 /\ request.name = "none"
      /\ touched.lines = {} /\ touched.orders = {} /\ torn.lines = {} /\ torn.orders = {}
  BY DEF Init, NoKeys, NoRequest
<1>2. LP!EmptyTable \in LP!Table /\ OP!EmptyTable \in OP!Table
  BY DEF LP!EmptyTable, LP!Table, OP!EmptyTable, OP!Table
<1>3. /\ EmptyStore \in Store /\ EmptyStore.lines = LP!EmptyTable
      /\ EmptyStore.orders = OP!EmptyTable
  BY <1>2, LinesSame, OrdersSame DEF EmptyStore, Store
<1>4. TypeOK
  BY <1>1, <1>3, OrderStoreAssumption DEF TypeOK, NoKeys, KeySets, Requests
<1>5. Written("lines") = {} /\ Written("orders") = {}
  BY <1>1 DEF Written
<1>6. LinesInv
  <2>1. \A r \in Rows : LP!Consistent(LP!EmptyTable, r)
    BY DEF LP!Consistent, LP!EmptyTable, LP!EntriesOf, LP!Present
  <2>2. LP!Cached(LP!EmptyTable, LP!EmptyTable, {}, {}, {})
    BY <1>2, <2>1, LP!CachedFresh, LinesAssumption
  <2>3. QED BY <1>1, <1>3, <1>5, <2>2 DEF LinesInv
<1>7. OrdersInv
  <2>1. \A o \in Orders : OP!Consistent(OP!EmptyTable, o)
    BY DEF OP!Consistent, OP!EmptyTable, OP!EntriesOf, OP!Present
  <2>2. OP!Cached(OP!EmptyTable, OP!EmptyTable, {}, {}, {})
    BY <1>2, <2>1, OP!CachedFresh, OrdersAssumption
  <2>3. QED BY <1>1, <1>3, <1>5, <2>2 DEF OrdersInv
<1>8. PhaseInv /\ ItemsInv /\ AckedInv /\ ReportedInv /\ GoneInv /\ CommitInv
  BY <1>1 DEF PhaseInv, ItemsInv, AckedInv, ReportedInv, GoneInv, CommitInv
<1>9. QED BY <1>4, <1>6, <1>7, <1>8 DEF IInv

LEMMA StutterIInv ==
    ASSUME IInv, UNCHANGED vars
    PROVE  IInv'
<1>1. UNCHANGED <<disk, mem, phase, request, answer, toClose, touched, torn, acked, crashes>>
  BY DEF vars
<1>2. /\ Written("lines")' = Written("lines") /\ Written("orders")' = Written("orders")
  BY <1>1 DEF Written
<1>3. TypeOK' /\ PhaseInv'
  BY <1>1 DEF IInv, TypeOK, PhaseInv
<1>4. LinesInv' /\ OrdersInv' /\ ItemsInv' /\ AckedInv'
  BY <1>1, <1>2 DEF IInv, LinesInv, OrdersInv, ItemsInv, AckedInv
<1>5. ReportedInv' /\ GoneInv'
  BY <1>1 DEF IInv, ReportedInv, GoneInv
<1>6. CommitInv'
  <2>1. /\ \A S : Catalog!Without(S)' = Catalog!Without(S)
        /\ \A o : Catalog!LinesOf(o)' = Catalog!LinesOf(o)
    BY <1>1 DEF Catalog!Without, Catalog!LinesOf
  <2>2. QED BY <1>1, <1>2, <2>1 DEF IInv, CommitInv
<1>7. QED BY <1>3, <1>4, <1>5, <1>6 DEF IInv

LEMMA NextIInv == IInv /\ [Next]_vars => IInv'
<1> SUFFICES ASSUME IInv, [Next]_vars PROVE IInv'
  OBVIOUS
<1>1. ASSUME NEW d \in GivenLines, AddItem(d.order, d.item) PROVE IInv'
  <2>1. d.order \in Orders /\ d.item \in Items
    BY OrderStoreAssumption DEF LineData
  <2>2. QED BY <1>1, <2>1, AddItemStep
<1>2. ASSUME NEW o \in Orders, NEW i \in Items, RemoveItem(o, i) PROVE IInv'
  BY <1>2, RemoveItemStep
<1>3. ASSUME NEW o \in Orders, RemoveOrder(o) PROVE IInv'
  BY <1>3, RemoveOrderStep
<1>4. ASSUME NEW o \in Orders, NEW d \in OrderData, UpdateOrder(o, d) PROVE IInv'
  BY <1>4, UpdateOrderStep
<1>5. ASSUME NEW i \in Items, UpdateItem(i) PROVE IInv'
  BY <1>5, UpdateItemStep
<1>6. CASE StartLoad
  BY <1>6, StartLoadStep
<1>7. ASSUME NEW r \in Rows, NEW d \in GivenLines, LoadLine(r, d) PROVE IInv'
  <2>1. d \in LineData
    BY OrderStoreAssumption
  <2>2. QED BY <1>7, <2>1, LoadLineStep
<1>8. CASE LoadBadLine
  BY <1>8, LoadBadLineStep
<1>9. CASE EndLoad
  BY <1>9, EndLoadStep
<1>10. ASSUME NEW db \in {"orders", "lines"}, NEW x \in 1..2, CloseSecondary(db, x)
       PROVE  IInv'
  BY <1>10, CloseSecondaryStep
<1>11. ASSUME NEW db \in {"orders", "lines"}, ClosePrimary(db) PROVE IInv'
  BY <1>11, ClosePrimaryStep
<1>12. CASE CloseItems
  BY <1>12, CloseItemsStep
<1>13. CASE Reply
  BY <1>13, ReplyStep
<1>14. CASE Crash
  BY <1>14, CrashStep
<1>15. CASE UNCHANGED vars
  BY <1>15, StutterIInv
<1>16. QED
  BY <1>1, <1>2, <1>3, <1>4, <1>5, <1>6, <1>7, <1>8, <1>9, <1>10, <1>11, <1>12,
     <1>13, <1>14, <1>15 DEF Next

\* The invariant everything below follows from.
THEOREM SpecIInv == Spec => []IInv
BY InitIInv, NextIInv, PTL DEF Spec

\* The types of the state, whatever the requests and the crashes.
THEOREM SpecTypeOK == Spec => []TypeOK
<1>1. IInv => TypeOK
  BY DEF IInv
<1>2. QED BY <1>1, SpecIInv, PTL

-----------------------------------------------------------------------------
(* What clients were told                                                  *)

\* A line whose add or load was answered with success stays stored and
\* reachable through its order until another request is about it, whatever
\* crashes.
THEOREM SpecAckedDurable == Spec => []AckedDurable
<1>1. IInv => AckedDurable
  <2> SUFFICES ASSUME IInv, NEW a \in acked, a[1] \notin touched.lines
               PROVE  /\ disk.lines.rows[a[1]] = a[2]
                      /\ a[1] \in SelectByOrderSdb(disk, a[2].order)
    BY DEF AckedDurable
  <2>1. disk.lines.rows[a[1]] = a[2] /\ LP!Indexed(disk.lines, a[1])
    BY DEF IInv, AckedInv
  <2>2. a[1] \in Rows /\ a[2] \in LineData
    BY DEF IInv, TypeOK
  <2>3. a[2] # NoData
    BY <2>2, LinesAssumption
  <2>4. ByOrder \in LP!Indexes
    BY DEF ByOrder, LP!Indexes
  <2>5. <<LineExtract[ByOrder][a[2]], a[1]>> \in disk.lines.idx[ByOrder]
    BY <2>1, <2>3, <2>4 DEF LP!Indexed, LP!Present, LP!Entry
  <2>6. LineExtract[ByOrder][a[2]] = a[2].order
    BY <2>2 DEF LineExtract, ByOrder
  <2>7. QED BY <2>1, <2>2, <2>5, <2>6 DEF SelectByOrderSdb, LT!DtoGetDuplicateList
<1>2. QED BY <1>1, SpecIInv, PTL

\* When order_remove is answered, nothing of the order is left in the files
\* except what a crash tore.
THEOREM SpecOrderRemoved == Spec => []OrderRemoved
<1>1. IInv => OrderRemoved
  <2> SUFFICES ASSUME IInv, Finished("order_remove")
               PROVE  /\ OrderPresent(disk, request.order) => request.order \in torn.orders
                      /\ ScanByOrder(request.order) \cup SelectByOrderSdb(disk, request.order)
                             \subseteq torn.lines
    BY DEF OrderRemoved
  <2>1. mem = disk /\ request.name = "order_remove"
    BY Closed DEF Finished
  <2>2. /\ OP!Present(disk.orders, request.order) => request.order \in torn.orders
        /\ \A r \in Rows \ torn.lines :
              ~(LP!Present(disk.lines, r) /\ disk.lines.rows[r].order = request.order)
        /\ LP!DtoGetDuplicateList(disk.lines, ByOrder, request.order) \subseteq torn.lines
    BY <2>1 DEF IInv, GoneInv
  <2>3. QED BY <2>2, LinesSame, OrdersSame DEF OrderPresent, ScanByOrder, SelectByOrderSdb
<1>2. QED BY <1>1, SpecIInv, PTL

-----------------------------------------------------------------------------
(* Loops over lists.  A set of counterexamples has a least one, which needs *)
(* no operator as a parameter.                                              *)

LEMMA NatInd ==
    ASSUME NEW S, 0 \in S, \A n \in Nat : n \in S => n + 1 \in S
    PROVE  Nat \subseteq S
<1> DEFINE R == OpToRel(<, Nat)
          T == Nat \ S
<1> SUFFICES ASSUME T # {} PROVE FALSE
  OBVIOUS
<1>1. IsWellFoundedOn(R, Nat)
  BY NatLessThanWellFounded
<1>2. PICK x \in T : \A y \in T : ~(<<y, x>> \in R)
  <2> HIDE DEF R
  <2> QED BY <1>1, WFMin
<1>3. x - 1 \in Nat /\ x - 1 \notin T
  <2>1. x \in Nat /\ x # 0
    OBVIOUS
  <2>2. x - 1 \in Nat /\ x - 1 < x
    BY <2>1
  <2>3. <<x - 1, x>> \in R
    BY <2>1, <2>2 DEF OpToRel
  <2>4. QED BY <2>2, <2>3, <1>2
<1>4. QED BY <1>3

LEMMA SetInd ==
    ASSUME NEW S, IsFiniteSet(S), NEW F,
           \A T \in SUBSET S : (\A U \in SUBSET T : U # T => U \in F) => T \in F
    PROVE  S \in F
<1> DEFINE R == StrictSubsetOrdering(S)
          B == (SUBSET S) \ F
<1> SUFFICES ASSUME S \notin F PROVE FALSE
  OBVIOUS
<1>1. IsWellFoundedOn(R, FiniteSubsetsOf(S)) /\ FiniteSubsetsOf(S) = SUBSET S
  BY FS_StrictSubsetOrderingWellFounded, FS_FiniteSubsetsOfFinite
<1>2. PICK x \in B : \A y \in B : ~(<<y, x>> \in R)
  <2>1. B # {} /\ B \subseteq SUBSET S
    OBVIOUS
  <2> HIDE DEF R, B
  <2> QED BY <1>1, <2>1, WFMin
<1>3. \A U \in SUBSET x : U # x => U \in F
  BY <1>2 DEF StrictSubsetOrdering
<1>4. QED BY <1>2, <1>3

\* The elements of a list, and a list that is ordered by key.
Elements(list) == {list[n] : n \in DOMAIN list}
Rising(list) ==
    \A m, n \in DOMAIN list : m < n => KeyPlace(list[m]) < KeyPlace(list[n])

LEMMA AppendIs ==
    ASSUME NEW list \in Seq(Items), NEW x \in Items
    PROVE  /\ Append(list, x) \in Seq(Items)
           /\ Elements(Append(list, x)) = Elements(list) \cup {x}
           /\ Rising(list) /\ (\A y \in Elements(list) : KeyPlace(y) < KeyPlace(x))
                 => Rising(Append(list, x))
<1> DEFINE l == Len(list)
           a == Append(list, x)
<1>1. /\ l \in Nat /\ DOMAIN list = 1..l /\ a \in Seq(Items) /\ Len(a) = l + 1
      /\ \A n \in 1..l : a[n] = list[n]
      /\ a[l + 1] = x
  BY AppendProperties, LenProperties
<1>2. DOMAIN a = 1..(l + 1)
  BY <1>1, LenProperties
<1> HIDE DEF l, a
<1>3. 1..(l + 1) = (1..l) \cup {l + 1}
  BY <1>1
<1>4. Elements(a) = Elements(list) \cup {x}
  <2>1. Elements(a) = {a[n] : n \in 1..l} \cup {a[l + 1]}
    BY <1>2, <1>3 DEF Elements
  <2>2. {a[n] : n \in 1..l} = Elements(list)
    BY <1>1 DEF Elements
  <2>3. QED BY <1>1, <2>1, <2>2
<1>5. ASSUME Rising(list), \A y \in Elements(list) : KeyPlace(y) < KeyPlace(x)
      PROVE  Rising(a)
  <2> SUFFICES ASSUME NEW m \in 1..(l + 1), NEW n \in 1..(l + 1), m < n
               PROVE  KeyPlace(a[m]) < KeyPlace(a[n])
    BY <1>2 DEF Rising
  <2>1. m \in 1..l /\ a[m] = list[m] /\ list[m] \in Elements(list)
    <3>1. m \in 1..l
      BY <1>1
    <3>2. QED BY <1>1, <3>1 DEF Elements
  <2>2. CASE n = l + 1
    BY <1>1, <1>5, <2>1, <2>2
  <2>3. CASE n # l + 1
    <3>1. n \in 1..l
      BY <1>1, <2>3
    <3>2. a[n] = list[n]
      BY <1>1, <3>1
    <3>3. QED BY <1>1, <1>5, <2>1, <3>1, <3>2 DEF Rising
  <2>4. QED BY <2>2, <2>3
<1>6. QED BY <1>1, <1>4, <1>5 DEF a

\* K[n] is what the first n elements leave.
KeptAt(K, list, S, n) ==
    IF n = 0 THEN <<>>
    ELSE IF list[n] \in S THEN Append(K[n - 1], list[n])
    ELSE K[n - 1]
Keeps(K, list, S, m) == K = [n \in 0..m |-> KeptAt(K, list, S, n)]

\* The loop of Kept has a result.
LEMMA KeptExists ==
    ASSUME NEW list, NEW S, NEW l \in Nat
    PROVE  \E K : Keeps(K, list, S, l)
<1> DEFINE N == {m \in Nat : \E K : Keeps(K, list, S, m)}
<1>1. 0 \in N
  <2> DEFINE K == [n \in 0..0 |-> <<>>]
  <2>1. \A n \in 0..0 : KeptAt(K, list, S, n) = <<>>
    BY DEF KeptAt
  <2>2. K = [n \in 0..0 |-> KeptAt(K, list, S, n)]
    BY <2>1
  <2>3. Keeps(K, list, S, 0)
    BY <2>2 DEF Keeps
  <2>4. QED BY <2>3
<1>2. ASSUME NEW m \in Nat, m \in N PROVE m + 1 \in N
  <2>1. PICK K : Keeps(K, list, S, m)
    BY <1>2
  <2> DEFINE H == [n \in 0..(m + 1) |-> IF n = m + 1 THEN KeptAt(K, list, S, n) ELSE K[n]]
  <2>2. ASSUME NEW n \in 0..(m + 1)
        PROVE  H[n] = KeptAt(H, list, S, n)
    <3>1. \A k \in 0..m : k \in 0..(m + 1) /\ k # m + 1
      OBVIOUS
    <3>2. \A k \in 0..m : H[k] = K[k]
      BY <3>1
    <3>3. n # 0 => n - 1 \in 0..m
      OBVIOUS
    <3> HIDE DEF H
    <3>4. KeptAt(H, list, S, n) = KeptAt(K, list, S, n)
      BY <3>2, <3>3 DEF KeptAt
    <3>5. CASE n = m + 1
      BY <3>4, <3>5 DEF H
    <3>6. CASE n # m + 1
      <4>1. n \in 0..m
        BY <3>6
      <4>2. K[n] = KeptAt(K, list, S, n)
        BY <2>1, <4>1 DEF Keeps
      <4>3. QED BY <3>2, <3>4, <4>1, <4>2
    <3>7. QED BY <3>5, <3>6
  <2>3. DOMAIN H = 0..(m + 1) /\ H = [n \in 0..(m + 1) |-> H[n]]
    OBVIOUS
  <2> HIDE DEF H
  <2>4. Keeps(H, list, S, m + 1)
    BY <2>2, <2>3 DEF Keeps
  <2>5. QED BY <2>4
<1> HIDE DEF N
<1>3. Nat \subseteq N
  BY <1>1, <1>2, NatInd
<1>4. QED BY <1>3 DEF N

\* Kept has the elements of the list that are in S, in the order of the list.
LEMMA KeptIs ==
    ASSUME NEW list \in Seq(Items), NEW S
    PROVE  /\ Kept(list, S) \in Seq(Items)
           /\ Elements(Kept(list, S)) = Elements(list) \cap S
           /\ Rising(list) => Rising(Kept(list, S))
<1> DEFINE l == Len(list)
           K == CHOOSE f : Keeps(f, list, S, l)
<1>1. l \in Nat /\ DOMAIN list = 1..l /\ \A n \in 1..l : list[n] \in Items
  BY LenProperties
<1>2. Keeps(K, list, S, l)
  <2> HIDE DEF l
  <2>1. \E f : Keeps(f, list, S, l)
    BY <1>1, KeptExists
  <2>2. QED BY <2>1
<1>3. Kept(list, S) = K[l]
  BY DEF Kept, Keeps, KeptAt
<1> HIDE DEF K, l
<1>4. K[0] = <<>> /\ \A n \in 1..l : K[n] = IF list[n] \in S THEN Append(K[n - 1], list[n])
                                           ELSE K[n - 1]
  <2>1. \A n \in 0..l : K[n] = KeptAt(K, list, S, n)
    BY <1>2 DEF Keeps
  <2>2. 0 \in 0..l /\ \A n \in 1..l : n \in 0..l /\ n # 0
    BY <1>1
  <2>3. QED BY <2>1, <2>2 DEF KeptAt
<1> DEFINE First(n) == {list[m] : m \in 1..n} \cap S
           N == {n \in Nat : n <= l => /\ K[n] \in Seq(Items)
                                       /\ Elements(K[n]) = First(n)
                                       /\ Rising(list) => Rising(K[n])}
<1>5. 0 \in N
  <2>1. <<>> \in Seq(Items) /\ DOMAIN <<>> = {}
    BY EmptySeq
  <2>2. Elements(<<>>) = {} /\ Rising(<<>>)
    BY <2>1 DEF Elements, Rising
  <2>3. First(0) = {}
    OBVIOUS
  <2> HIDE DEF First
  <2>4. QED BY <1>4, <2>1, <2>2, <2>3
<1>6. ASSUME NEW n \in Nat, n \in N PROVE n + 1 \in N
  <2> SUFFICES ASSUME n + 1 <= l
               PROVE  /\ K[n + 1] \in Seq(Items)
                      /\ Elements(K[n + 1]) = First(n + 1)
                      /\ Rising(list) => Rising(K[n + 1])
    OBVIOUS
  <2>1. n <= l /\ n + 1 \in 1..l /\ n + 1 - 1 = n
    BY <1>1
  <2>2. K[n] \in Seq(Items) /\ Elements(K[n]) = First(n) /\ (Rising(list) => Rising(K[n]))
    BY <1>6, <2>1
  <2>3. First(n + 1) = First(n) \cup ({list[n + 1]} \cap S)
    <3>1. 1..(n + 1) = (1..n) \cup {n + 1}
      OBVIOUS
    <3>2. QED BY <3>1
  <2> DEFINE x == list[n + 1]
  <2>4. x \in Items
    BY <1>1, <2>1
  <2>5. CASE x \notin S
    <3>1. K[n + 1] = K[n]
      BY <1>4, <2>1, <2>5
    <3> HIDE DEF First
    <3>2. QED BY <2>2, <2>3, <2>5, <3>1
  <2>6. CASE x \in S
    <3>1. K[n + 1] = Append(K[n], x)
      <4> DEFINE j == n + 1
      <4>1. j \in 1..l /\ j - 1 = n /\ list[j] = x
        BY <2>1
      <4>2. list[j] \in S
        BY <2>6
      <4> HIDE DEF j, x, N, First
      <4>3. K[j] = Append(K[j - 1], list[j])
        BY <1>4, <4>1, <4>2
      <4>4. K[j] = Append(K[n], x)
        BY <4>1, <4>3
      <4>5. QED BY <4>4 DEF j
    <3>2. ASSUME Rising(list), NEW y \in First(n) PROVE KeyPlace(y) < KeyPlace(x)
      <4>1. PICK m \in 1..n : y = list[m]
        OBVIOUS
      <4>2. m \in 1..l /\ m < n + 1
        BY <1>1, <2>1
      <4>3. QED BY <1>1, <2>1, <3>2, <4>1, <4>2 DEF Rising
    <3> HIDE DEF x, First
    <3>3. Elements(K[n + 1]) = First(n) \cup {x} /\ K[n + 1] \in Seq(Items)
      BY <2>2, <2>4, <3>1, AppendIs
    <3>4. Rising(list) => Rising(K[n + 1])
      BY <2>2, <2>4, <3>1, <3>2, AppendIs
    <3>5. First(n + 1) = First(n) \cup {x}
      BY <2>3, <2>6 DEF x
    <3>6. QED BY <3>3, <3>4, <3>5
  <2>7. QED BY <2>5, <2>6
<1>7. K[l] \in Seq(Items) /\ Elements(K[l]) = First(l) /\ (Rising(list) => Rising(K[l]))
  <2>1. l \in N
    <3> HIDE DEF N
    <3>1. Nat \subseteq N
      BY <1>5, <1>6, NatInd
    <3>2. QED BY <1>1, <3>1
  <2>2. l <= l
    BY <1>1
  <2> HIDE DEF First
  <2>3. QED BY <2>1, <2>2
<1>8. First(l) = Elements(list) \cap S
  BY <1>1 DEF Elements
<1>9. QED BY <1>3, <1>7, <1>8

\* The items there are, each once and by key.
LEMMA SelectAllIs ==
    ASSUME NEW s, s.items \subseteq Items
    PROVE  /\ SelectAll(s) \in Seq(Items)
           /\ Elements(SelectAll(s)) = s.items
           /\ Rising(SelectAll(s))
<1>1. /\ ItemOrder \in Seq(Items)
      /\ \A i \in Items : \E n \in DOMAIN ItemOrder : ItemOrder[n] = i
      /\ \A m, n \in DOMAIN ItemOrder : ItemOrder[m] = ItemOrder[n] => m = n
  BY KeysAssumption
<1>2. DOMAIN ItemOrder = 1..Len(ItemOrder) /\ \A n \in DOMAIN ItemOrder : ItemOrder[n] \in Items
  BY <1>1, LenProperties
<1>3. \A n \in DOMAIN ItemOrder : KeyPlace(ItemOrder[n]) = n
  BY <1>1 DEF KeyPlace
<1>4. Rising(ItemOrder)
  BY <1>3 DEF Rising
<1>5. Elements(ItemOrder) \cap s.items = s.items
  BY <1>1 DEF Elements
<1>6. QED BY <1>1, <1>4, <1>5, KeptIs DEF SelectAll

\* One turn of the loop of select_other_items.
LEMMA EraseIs ==
    ASSUME NEW list \in Seq(Items), NEW i
    PROVE  /\ Erase(list, i) \in Seq(Items)
           /\ Elements(Erase(list, i)) = Elements(list) \ {i}
           /\ Rising(list) => Rising(Erase(list, i))
<1>1. Elements(list) \subseteq Items
  BY LenProperties DEF Elements
<1>2. QED BY <1>1, KeptIs DEF Erase

\* h computes the fold over the subsets of T.
Steps(h, T, base, C, G) ==
    \A U \in SUBSET T : h[U] = IF U = {} THEN base ELSE G[<<C[U], h[U \ {C[U]}]>>]

\* Two functions that compute the same fold agree.
LEMMA StepsUnique ==
    ASSUME NEW T, IsFiniteSet(T), NEW base, NEW C, NEW G, NEW g, NEW h,
           \A U \in SUBSET T : U # {} => C[U] \in U,
           Steps(g, T, base, C, G), Steps(h, T, base, C, G)
    PROVE  g[T] = h[T]
<1> DEFINE F == {U \in SUBSET T : g[U] = h[U]}
<1>1. \A V \in SUBSET T : (\A U \in SUBSET V : U # V => U \in F) => V \in F
  <2> SUFFICES ASSUME NEW V \in SUBSET T, \A U \in SUBSET V : U # V => U \in F, V # {}
               PROVE  g[V] = h[V]
    BY DEF Steps
  <2>1. V \ {C[V]} \in F
    OBVIOUS
  <2>2. g[V \ {C[V]}] = h[V \ {C[V]}]
    BY <2>1
  <2>3. g[V] = G[<<C[V], g[V \ {C[V]}]>>] /\ h[V] = G[<<C[V], h[V \ {C[V]}]>>]
    BY DEF Steps
  <2>4. QED BY <2>2, <2>3
<1> HIDE DEF F
<1>2. T \in F
  BY <1>1, SetInd
<1>3. QED BY <1>2 DEF F

\* A fold over a finite set has a value.
LEMMA StepsExist ==
    ASSUME NEW S, IsFiniteSet(S), NEW B, NEW base \in B, NEW C, NEW G \in [S \X B -> B],
           \A U \in SUBSET S : U # {} => C[U] \in U
    PROVE  \E h \in [SUBSET S -> B] : Steps(h, S, base, C, G)
<1> DEFINE Fold(h, T) == h \in [SUBSET T -> B] /\ Steps(h, T, base, C, G)
          F == {T \in SUBSET S : \E h : Fold(h, T)}
<1>1. ASSUME NEW T \in SUBSET S, \A U \in SUBSET T : U # T => U \in F
      PROVE  T \in F
  <2> DEFINE pick(U) == CHOOSE h : Fold(h, U)
             top == IF T = {} THEN base ELSE G[<<C[T], pick(T \ {C[T]})[T \ {C[T]}]>>]
             h == [U \in SUBSET T |-> IF U = T THEN top ELSE pick(U)[U]]
  <2>1. \A U \in SUBSET T : U # T => Fold(pick(U), U)
    <3> HIDE DEF Fold
    <3> QED BY <1>1
  <2>2. \A U \in SUBSET T : U # T => pick(U)[U] \in B
    BY <2>1
  <2> HIDE DEF pick
  <2>3. top \in B
    <3>1. CASE T = {}
      BY <3>1
    <3>2. CASE T # {}
      <4>1. C[T] \in T /\ T \ {C[T]} # T
        BY <3>2
      <4>2. pick(T \ {C[T]})[T \ {C[T]}] \in B
        BY <4>1, <2>2
      <4>3. QED BY <3>2, <4>1, <4>2
    <3>3. QED BY <3>1, <3>2
  <2>4. h \in [SUBSET T -> B]
    <3> HIDE DEF top
    <3> QED BY <2>2, <2>3
  <2>5. ASSUME NEW U \in SUBSET T
        PROVE  h[U] = IF U = {} THEN base ELSE G[<<C[U], h[U \ {C[U]}]>>]
    <3>1. CASE U = T
      <4>1. CASE T = {}
        BY <3>1, <4>1
      <4>2. CASE T # {}
        <5>1. C[T] \in T /\ T \ {C[T]} # T
          BY <4>2
        <5>2. h[T \ {C[T]}] = pick(T \ {C[T]})[T \ {C[T]}]
          BY <5>1
        <5>3. QED BY <3>1, <4>2, <5>2
      <4>3. QED BY <4>1, <4>2
    <3>2. CASE U # T
      <4> DEFINE V == U \ {C[U]}
      <4>1. h[U] = pick(U)[U] /\ Fold(pick(U), U)
        BY <3>2, <2>1
      <4>2. CASE U = {}
        BY <4>1, <4>2 DEF Steps
      <4>3. CASE U # {}
        <5>1. C[U] \in U /\ V \in SUBSET T /\ V # T /\ V # U
          BY <4>3
        <5>2. h[V] = pick(V)[V] /\ Fold(pick(V), V)
          BY <5>1, <2>1
        <5>3. pick(V)[V] = pick(U)[V]
          <6>1. IsFiniteSet(V) /\ V \in SUBSET S
            BY <5>1, FS_Subset
          <6>2. Steps(pick(U), V, base, C, G)
            BY <4>1 DEF Steps
          <6>3. Steps(pick(V), V, base, C, G)
            BY <5>2
          <6> HIDE DEF V, Fold
          <6>4. \A W \in SUBSET V : W # {} => C[W] \in W
            BY <6>1
          <6>5. QED BY <6>1, <6>2, <6>3, <6>4, StepsUnique
        <5>4. pick(U)[U] = G[<<C[U], pick(U)[V]>>]
          BY <4>1, <4>3 DEF Steps
        <5>5. QED BY <4>1, <4>3, <5>2, <5>3, <5>4
      <4>4. QED BY <4>2, <4>3
    <3>3. QED BY <3>1, <3>2
  <2>6. Fold(h, T)
    BY <2>4, <2>5 DEF Steps
  <2> HIDE DEF h, Fold
  <2>7. QED BY <2>6
<1> HIDE DEF F
<1>2. S \in F
  BY <1>1, SetInd
<1>3. QED BY <1>2 DEF F

\* h[lines] is what is left of the list all once those lines are through.
Line(lines) == CHOOSE r \in lines : TRUE
Turn(h, all, f, lines) ==
    IF lines = {} THEN all ELSE Erase(h[lines \ {Line(lines)}], f[Line(lines)])
Others(h, all, f, T) == h = [lines \in SUBSET T |-> Turn(h, all, f, lines)]

\* The loop has a result.
LEMMA OthersExist ==
    ASSUME NEW T, IsFiniteSet(T), NEW all \in Seq(Items), NEW f
    PROVE  \E h : Others(h, all, f, T)
<1> DEFINE B == Seq(Items)
          C == [U \in SUBSET T |-> Line(U)]
          G == [p \in T \X B |-> Erase(p[2], f[p[1]])]
<1>1. G \in [T \X B -> B]
  BY EraseIs
<1>2. \A U \in SUBSET T : U # {} => C[U] = Line(U) /\ Line(U) \in U
  BY DEF Line
<1>3. PICK h \in [SUBSET T -> B] : Steps(h, T, all, C, G)
  <2> HIDE DEF B, C, G
  <2>1. \A U \in SUBSET T : U # {} => C[U] \in U
    BY <1>2
  <2>2. all \in B
    BY DEF B
  <2>3. QED BY <1>1, <2>1, <2>2, StepsExist
<1>4. ASSUME NEW U \in SUBSET T PROVE h[U] = Turn(h, all, f, U)
  <2> HIDE DEF C, G
  <2>1. CASE U = {}
    BY <1>3, <2>1 DEF Steps, Turn
  <2>2. CASE U # {}
    <3>1. C[U] = Line(U) /\ Line(U) \in T /\ U \ {Line(U)} \in SUBSET T
      BY <1>2, <2>2
    <3>2. h[U] = G[<<Line(U), h[U \ {Line(U)}]>>]
      BY <1>3, <2>2, <3>1 DEF Steps
    <3>3. h[U \ {Line(U)}] \in B
      BY <3>1
    <3>4. G[<<Line(U), h[U \ {Line(U)}]>>] = Erase(h[U \ {Line(U)}], f[Line(U)])
      BY <3>1, <3>3 DEF G
    <3>5. QED BY <2>2, <3>2, <3>4 DEF Turn
  <2>3. QED BY <2>1, <2>2
<1>5. h = [U \in SUBSET T |-> h[U]]
  OBVIOUS
<1>6. Others(h, all, f, T)
  BY <1>4, <1>5 DEF Others
<1>7. QED BY <1>6

\* Line by line the items of the lines are taken out; a second line with the
\* same item takes out nothing.
LEMMA OthersAre ==
    ASSUME NEW T, IsFiniteSet(T), NEW all \in Seq(Items), NEW f, NEW h, Others(h, all, f, T)
    PROVE  /\ Elements(h[T]) = Elements(all) \ {f[r] : r \in T}
           /\ Rising(all) => Rising(h[T])
<1> DEFINE Good(U) == /\ h[U] \in Seq(Items)
                      /\ Elements(h[U]) = Elements(all) \ {f[r] : r \in U}
                      /\ Rising(all) => Rising(h[U])
          F == {U \in SUBSET T : Good(U)}
<1>1. \A U \in SUBSET T : h[U] = Turn(h, all, f, U)
  BY DEF Others
<1>2. ASSUME NEW U \in SUBSET T, \A V \in SUBSET U : V # U => V \in F
      PROVE  U \in F
  <2>1. CASE U = {}
    <3>1. h[U] = all /\ {f[r] : r \in U} = {}
      BY <1>1, <2>1 DEF Turn
    <3>2. QED BY <3>1
  <2>2. CASE U # {}
    <3> DEFINE x == Line(U)
               V == U \ {x}
    <3>1. x \in U /\ V \in SUBSET U /\ V # U
      BY <2>2 DEF Line
    <3>2. Good(V)
      BY <1>2, <3>1
    <3>3. h[U] = Erase(h[V], f[x])
      BY <1>1, <2>2 DEF Turn
    <3>4. {f[r] : r \in U} = {f[r] : r \in V} \cup {f[x]}
      BY <3>1
    <3> HIDE DEF x, V
    <3>5. /\ h[U] \in Seq(Items)
          /\ Elements(h[U]) = Elements(h[V]) \ {f[x]}
          /\ Rising(h[V]) => Rising(h[U])
      BY <3>2, <3>3, EraseIs
    <3>6. Elements(h[U]) = Elements(all) \ {f[r] : r \in U}
      BY <3>2, <3>4, <3>5
    <3>7. QED BY <3>2, <3>5, <3>6
  <2>3. QED BY <2>1, <2>2
<1> HIDE DEF F
<1>3. T \in F
  BY <1>2, SetInd
<1> HIDE DEF Good
<1>4. Good(T)
  BY <1>3 DEF F
<1>5. QED BY <1>4 DEF Good

\* What select_other_items makes of the items in the order.
LEMMA SelectOtherIs ==
    ASSUME NEW s, s.items \subseteq Items, NEW o, NEW f,
           IsFiniteSet(DOMAIN f), SelectAllItems(s, o) = Selected(f)
    PROVE  LET others == SelectOtherItems(s, o) IN
           /\ others.ok
           /\ Elements(others.list) = s.items \ {f[r] : r \in DOMAIN f}
           /\ Rising(others.list)
<1> DEFINE all == SelectAll(s)
          h == CHOOSE g : Others(g, all, f, DOMAIN f)
<1>1. all \in Seq(Items) /\ Elements(all) = s.items /\ Rising(all)
  BY SelectAllIs
<1>2. Others(h, all, f, DOMAIN f)
  <2> HIDE DEF all
  <2>1. \E g : Others(g, all, f, DOMAIN f)
    BY <1>1, OthersExist
  <2>2. QED BY <2>1
<1>3. SelectAllItems(s, o).ok /\ SelectAllItems(s, o).list = f
  BY DEF Selected
<1>4. SelectOtherItems(s, o) = Selected(h[DOMAIN f])
  BY <1>3 DEF SelectOtherItems, Others, Turn, Line
<1> HIDE DEF h, all
<1>5. Elements(h[DOMAIN f]) = s.items \ {f[r] : r \in DOMAIN f} /\ Rising(h[DOMAIN f])
  <2> DEFINE T == DOMAIN f
  <2>1. IsFiniteSet(T) /\ Others(h, all, f, T)
    BY <1>2
  <2> HIDE DEF T
  <2>2. /\ Elements(h[T]) = Elements(all) \ {f[r] : r \in T}
        /\ Rising(all) => Rising(h[T])
    BY <1>1, <2>1, OthersAre
  <2>3. Elements(h[T]) = s.items \ {f[r] : r \in T} /\ Rising(h[T])
    BY <1>1, <2>2
  <2>4. QED BY <2>3 DEF T
<1>6. QED BY <1>4, <1>5 DEF Selected

-----------------------------------------------------------------------------
(* What the selects return                                                 *)

\* What order_select_all_items returns for an order none of whose lines is torn.
LEMMA SelectAllItemsAre == IInv => SelectAllItemsExact
<1> SUFFICES ASSUME IInv, phase = "idle", NEW o \in Orders,
                    Untorn(SelectByOrderSdb(disk, o) \cup ScanByOrder(o))
             PROVE  SelectAllItems(disk, o) =
                      IF \A r \in ScanByOrder(o) : disk.lines.rows[r].item \in disk.items
                      THEN Selected([r \in ScanByOrder(o) |-> disk.lines.rows[r].item])
                      ELSE Failed
  BY DEF SelectAllItemsExact
<1>1. disk.lines \in LP!Table
  BY StoreType DEF IInv, TypeOK
<1>2. \A r \in Rows \ torn.lines : LP!Consistent(disk.lines, r)
  BY Idle DEF LP!Cached
<1>3. ASSUME NEW r \in Rows PROVE r \in SelectByOrderSdb(disk, o) <=> r \in ScanByOrder(o)
  <2>1. CASE r \in torn.lines
    BY <2>1 DEF Untorn
  <2>2. CASE r \notin torn.lines
    BY <1>1, <1>2, <2>2, ListedByOrder, LinesSame DEF SelectByOrderSdb, ScanByOrder
  <2>3. QED BY <2>1, <2>2
<1>4. SelectByOrderSdb(disk, o) = ScanByOrder(o)
  BY <1>3 DEF SelectByOrderSdb, ScanByOrder, LT!DtoGetDuplicateList
<1>5. LT!SelectByKeyListOk(disk.lines, ScanByOrder(o))
  BY DEF LT!SelectByKeyListOk, ScanByOrder
<1>6. QED BY <1>4, <1>5 DEF SelectAllItems

\* Between two requests order_select_all_items is exact for every order none
\* of whose lines a crash tore.
THEOREM SpecSelectAllItemsExact == Spec => []SelectAllItemsExact
BY SelectAllItemsAre, SpecIInv, PTL

\* So is item_select_all_orders, for every item none of whose lines is torn.
THEOREM SpecSelectAllOrdersExact == Spec => []SelectAllOrdersExact
<1>1. IInv => SelectAllOrdersExact
  <2> SUFFICES ASSUME IInv, phase = "idle", NEW i \in Items,
                      Untorn(SelectByItemSdb(disk, i) \cup ScanByItem(i))
               PROVE  SelectAllOrders(disk, i) =
                        IF \A r \in ScanByItem(i) :
                               OrderPresent(disk, disk.lines.rows[r].order)
                        THEN Selected([r \in ScanByItem(i) |-> disk.lines.rows[r].order])
                        ELSE Failed
    BY DEF SelectAllOrdersExact
  <2>1. disk.lines \in LP!Table
    BY StoreType DEF IInv, TypeOK
  <2>2. \A r \in Rows \ torn.lines : LP!Consistent(disk.lines, r)
    BY Idle DEF LP!Cached
  <2>3. ASSUME NEW r \in Rows PROVE r \in SelectByItemSdb(disk, i) <=> r \in ScanByItem(i)
    <3>1. CASE r \in torn.lines
      BY <3>1 DEF Untorn
    <3>2. CASE r \notin torn.lines
      BY <2>1, <2>2, <3>2, ListedByItem, LinesSame DEF SelectByItemSdb, ScanByItem
    <3>3. QED BY <3>1, <3>2
  <2>4. SelectByItemSdb(disk, i) = ScanByItem(i)
    BY <2>3 DEF SelectByItemSdb, ScanByItem, LT!DtoGetDuplicateList
  <2>5. LT!SelectByKeyListOk(disk.lines, ScanByItem(i))
    BY DEF LT!SelectByKeyListOk, ScanByItem
  <2>6. QED BY <2>4, <2>5 DEF SelectAllOrders
<1>2. QED BY <1>1, SpecIInv, PTL

\* order_select_other_items returns the items of which no stored line of the
\* order has one, each once and by key, for every number of lines with the same
\* item, as long as no line of the order is torn.
THEOREM SpecOtherItemsExact == Spec => []OtherItemsExact
<1>1. IInv => OtherItemsExact
  <2> SUFFICES ASSUME IInv, phase = "idle", NEW o \in Orders,
                      Untorn(SelectByOrderSdb(disk, o) \cup ScanByOrder(o))
               PROVE  LET others == SelectOtherItems(disk, o)
                          list == others.list
                          ordered == {disk.lines.rows[r].item : r \in ScanByOrder(o)}
                      IN  /\ others.ok <=> ordered \subseteq disk.items
                          /\ others.ok =>
                                /\ {list[n] : n \in DOMAIN list} = disk.items \ ordered
                                /\ \A m, n \in DOMAIN list :
                                      m < n => KeyPlace(list[m]) < KeyPlace(list[n])
    BY DEF OtherItemsExact
  <2> DEFINE T == ScanByOrder(o)
             f == [r \in T |-> disk.lines.rows[r].item]
             ordered == {disk.lines.rows[r].item : r \in T}
  <2>1. SelectAllItems(disk, o) = IF \A r \in T : disk.lines.rows[r].item \in disk.items
                                  THEN Selected(f) ELSE Failed
    BY SelectAllItemsAre DEF SelectAllItemsExact
  <2>2. IsFiniteSet(T) /\ disk.items \subseteq Items
    <3>1. T \subseteq Rows
      BY DEF ScanByOrder
    <3>2. disk \in Store
      BY DEF IInv, TypeOK
    <3>3. QED BY <3>1, <3>2, KeysAssumption, FS_Subset DEF Store
  <2>3. DOMAIN f = T /\ {f[r] : r \in DOMAIN f} = ordered
    OBVIOUS
  <2>4. ordered \subseteq disk.items <=> \A r \in T : disk.lines.rows[r].item \in disk.items
    OBVIOUS
  <2> HIDE DEF T, f, ordered
  <2>5. CASE ordered \subseteq disk.items
    <3>1. SelectAllItems(disk, o) = Selected(f)
      BY <2>1, <2>4, <2>5
    <3>2. /\ SelectOtherItems(disk, o).ok
          /\ Elements(SelectOtherItems(disk, o).list) = disk.items \ ordered
          /\ Rising(SelectOtherItems(disk, o).list)
      BY <2>2, <2>3, <3>1, SelectOtherIs
    <3>3. QED BY <2>5, <3>2 DEF Elements, Rising, ordered, T
  <2>6. CASE ~(ordered \subseteq disk.items)
    <3>1. SelectAllItems(disk, o) = Failed
      BY <2>1, <2>4, <2>6
    <3>2. SelectOtherItems(disk, o) = Failed /\ ~Failed.ok
      BY <3>1 DEF SelectOtherItems, Failed
    <3>3. QED BY <2>6, <3>2 DEF ordered, T
  <2>7. QED BY <2>5, <2>6
<1>2. QED BY <1>1, SpecIInv, PTL

-----------------------------------------------------------------------------
(* What reaches the files                                                  *)

\* The steps that leave the files and the torn keys alone, and the others.
LEMMA FileSteps ==
    ASSUME [Next]_vars
    PROVE  \/ UNCHANGED <<disk, torn>>
           \/ \E db \in {"orders", "lines"}, x \in 1..2 : CloseSecondary(db, x)
           \/ \E db \in {"orders", "lines"} : ClosePrimary(db)
           \/ CloseItems
           \/ Crash
<1>1. CASE \/ \E d \in GivenLines : AddItem(d.order, d.item)
           \/ \E o \in Orders, i \in Items : RemoveItem(o, i)
           \/ \E o \in Orders : RemoveOrder(o)
           \/ \E o \in Orders, d \in OrderData : UpdateOrder(o, d)
           \/ \E i \in Items : UpdateItem(i)
  BY <1>1 DEF AddItem, RemoveItem, RemoveOrder, UpdateOrder, UpdateItem, Handled
<1>2. CASE \/ StartLoad \/ (\E r \in Rows, d \in GivenLines : LoadLine(r, d))
           \/ LoadBadLine \/ EndLoad \/ Reply
  BY <1>2 DEF StartLoad, LoadLine, LoadBadLine, EndLoad, Reply
<1>3. CASE UNCHANGED vars
  BY <1>3 DEF vars
<1>4. QED BY <1>1, <1>2, <1>3 DEF Next

\* When order_remove comes to the files of the orders, those of the lines are
\* written, and hold no line of the order but torn ones.
LEMMA LinesFirst ==
    ASSUME IInv, NEW part, Closing("orders", part), request.name = "order_remove"
    PROVE  Catalog!LinesOf(request.order) \subseteq torn.lines
<1>1. Written("lines") = LP!Parts
  BY CloseStep DEF IInv, LP!Parts, LP!Indexes
<1>2. mem.lines \in LP!Table /\ disk.lines \in LP!Table
  BY StoreType DEF IInv, TypeOK
<1>3. mem.lines = disk.lines
  BY <1>1, <1>2, LP!CachedWhole, LinesAssumption DEF IInv, LinesInv
<1>4. QED BY <1>3 DEF IInv, GoneInv, Catalog!LinesOf, LP!Present

\* What the primary file of the orders can lose: the order being removed.
LEMMA OrderCommit ==
    ASSUME IInv, ClosePrimary("orders")
    PROVE  /\ disk'.lines.rows = disk.lines.rows
           /\ UNCHANGED <<disk.items, torn>>
           /\ \/ disk'.orders.rows = disk.orders.rows
              \/ /\ request.name = "order_remove" /\ request.order \in Orders
                 /\ Catalog!LinesOf(request.order) \subseteq torn.lines
                 /\ disk'.orders.rows = [disk.orders.rows EXCEPT ![request.order] = NoData]
              \/ /\ request.name = "order_update" /\ request.order \in Orders
                 /\ \E d \in OrderData :
                       disk'.orders.rows = [disk.orders.rows EXCEPT ![request.order] = d]
<1>1. Closing("orders", 0) /\ disk'.orders.rows = mem.orders.rows
      /\ disk'.lines.rows = disk.lines.rows /\ UNCHANGED <<disk.items, torn>>
  BY ClosePrimaryStep DEF ClosePrimary
<1>2. "orders" \in Opened(request.name)
  BY <1>1, CloseStep DEF IInv
<1>3. request.name \in {"order_remove", "order_update"}
  BY <1>2 DEF Opened
<1>4. request.order \in Orders
  BY <1>3 DEF IInv, TypeOK, Requests, NoRequest
<1>5. CASE request.name = "order_remove"
  <2>1. Catalog!LinesOf(request.order) \subseteq torn.lines
    BY <1>1, <1>5, LinesFirst
  <2>2. \/ mem.orders.rows = disk.orders.rows
        \/ mem.orders.rows = [disk.orders.rows EXCEPT ![request.order] = NoData]
    BY <1>5 DEF IInv, CommitInv
  <2>3. QED BY <1>1, <1>4, <1>5, <2>1, <2>2
<1>6. CASE request.name = "order_update"
  <2>1. \/ mem.orders.rows = disk.orders.rows
        \/ \E d \in OrderData :
              mem.orders.rows = [disk.orders.rows EXCEPT ![request.order] = d]
    BY <1>6 DEF IInv, CommitInv
  <2>2. QED BY <1>1, <1>4, <1>6, <2>1
<1>7. QED BY <1>3, <1>5, <1>6

\* No step takes the order away from under a stored line that is not torn.
THEOREM SpecNoNewOrphans == Spec => NoNewOrphans
<1>1. ASSUME IInv, [Next]_vars
      PROVE  \A r \in Rows \ torn'.lines :
                Orphan(disk', r) => \/ Orphan(disk, r)
                                    \/ disk'.lines.rows[r] # disk.lines.rows[r]
  <2>1. CASE disk'.orders.rows = disk.orders.rows
    BY <2>1 DEF Orphan, OrderPresent, LT!Present, OT!Present
  <2>2. CASE ClosePrimary("orders")
    <3> SUFFICES ASSUME NEW r \in Rows \ torn'.lines, Orphan(disk', r), ~Orphan(disk, r)
                 PROVE  FALSE
      BY <1>1, <2>2, OrderCommit
    <3> DEFINE o == disk.lines.rows[r].order
    <3>1. disk'.lines.rows = disk.lines.rows /\ torn' = torn
      BY <1>1, <2>2, OrderCommit
    <3>2. /\ disk.lines.rows[r] # NoData
          /\ disk'.orders.rows[o] = NoData /\ disk.orders.rows[o] # NoData
      BY <3>1 DEF Orphan, OrderPresent, LT!Present, OT!Present
    <3>3. disk.lines \in LP!Table /\ disk.orders \in OP!Table
      BY <1>1, StoreType DEF IInv, TypeOK
    <3>4. disk.lines.rows[r] \in LineData
      BY <3>2, <3>3 DEF LP!Table
    <3>5. o \in Orders /\ disk.orders.rows \in [Orders -> OrderData \cup {NoData}]
      BY <3>3, <3>4 DEF LineData, OP!Table
    <3>6. r \notin torn.lines
      BY <3>1
    <3> HIDE DEF o
    <3>7. CASE \E d \in OrderData :
                   disk'.orders.rows = [disk.orders.rows EXCEPT ![request.order] = d]
      BY <3>2, <3>5, <3>7, OrdersAssumption
    <3>8. CASE /\ request.order \in Orders
               /\ Catalog!LinesOf(request.order) \subseteq torn.lines
               /\ disk'.orders.rows = [disk.orders.rows EXCEPT ![request.order] = NoData]
      <4>1. o = request.order
        BY <3>2, <3>5, <3>8
      <4>2. r \in Catalog!LinesOf(request.order)
        BY <3>2, <4>1 DEF Catalog!LinesOf, o
      <4>3. QED BY <3>6, <3>8, <4>2
    <3>9. CASE disk'.orders.rows = disk.orders.rows
      BY <3>2, <3>9
    <3>10. QED BY <1>1, <2>2, <3>7, <3>8, <3>9, OrderCommit
  <2>3. QED
    BY <1>1, <2>1, <2>2, FileSteps, CloseSecondaryStep, ClosePrimaryStep, CloseItemsStep,
       CrashStep
<1>2. QED BY <1>1, SpecIInv, PTL DEF Spec, NoNewOrphans

-----------------------------------------------------------------------------
(* The catalogue                                                           *)

\* What the primary file of the lines can get.
LEMMA LinesCommit ==
    ASSUME IInv, ClosePrimary("lines")
    PROVE  \/ Catalog!PutLines
           \/ \E r \in Rows : Catalog!RemoveLine(r)
           \/ \E o \in Orders : Catalog!ClearOrder(o)
           \/ UNCHANGED <<disk.orders.rows, disk.items, disk.lines.rows, torn.lines>>
<1>1. /\ Closing("lines", 0) /\ disk'.lines.rows = mem.lines.rows
      /\ disk'.orders.rows = disk.orders.rows /\ UNCHANGED <<disk.items, torn>>
  BY ClosePrimaryStep DEF ClosePrimary
<1>2. "lines" \in Opened(request.name) /\ 0 \notin Written("lines")
  BY <1>1, CloseStep DEF IInv
<1>3. request.name \in {"order_add_item", "order_remove_item", "order_item_load",
                       "order_remove"}
  BY <1>2 DEF Opened
<1>4. CASE request.name \in {"order_add_item", "order_item_load"}
  <2>1. mem.lines \in LP!Table
    BY StoreType DEF IInv, TypeOK
  <2>2. mem.lines.rows \in [Rows -> Catalog!LineData \cup {NoData}]
    BY <2>1 DEF LP!Table, LineData, Catalog!LineData
  <2>3. \A r \in Rows : mem.lines.rows[r] = NoData => disk.lines.rows[r] = NoData
    BY <1>4 DEF IInv, CommitInv
  <2>4. QED BY <1>1, <2>2, <2>3 DEF Catalog!PutLines
<1>5. CASE request.name = "order_remove_item"
  BY <1>1, <1>5 DEF IInv, CommitInv, Catalog!RemoveLine
<1>6. CASE request.name = "order_remove"
  <2>1. request.order \in Orders
    BY <1>6 DEF IInv, TypeOK, Requests, NoRequest
  <2>2. \E S \in SUBSET Rows :
            /\ Catalog!LinesOf(request.order) \ torn.lines \subseteq S
            /\ S \subseteq Catalog!LinesOf(request.order) \cup torn.lines
            /\ mem.lines.rows = Catalog!Without(S)
    BY <1>2, <1>6 DEF IInv, CommitInv
  <2>3. QED BY <1>1, <2>1, <2>2 DEF Catalog!ClearOrder
<1>7. QED BY <1>3, <1>4, <1>5, <1>6

LEMMA CatalogStep ==
    IInv /\ [Next]_vars =>
        [Catalog!Next]_<<disk.orders.rows, disk.items, disk.lines.rows, torn.lines>>
<1> DEFINE Same == UNCHANGED <<disk.orders.rows, disk.items, disk.lines.rows, torn.lines>>
<1> SUFFICES ASSUME IInv, [Next]_vars PROVE Catalog!Next \/ Same
  OBVIOUS
<1>1. CASE UNCHANGED <<disk, torn>>
  BY <1>1
<1>2. ASSUME NEW db \in {"orders", "lines"}, NEW x \in 1..2, CloseSecondary(db, x)
      PROVE  Same
  BY <1>2, CloseSecondaryStep
<1>3. CASE ClosePrimary("lines")
  BY <1>3, LinesCommit DEF Catalog!Next
<1>4. CASE ClosePrimary("orders")
  BY <1>4, OrderCommit DEF Catalog!Next, Catalog!DropOrder, Catalog!PutOrder
<1>5. CASE CloseItems
  <2>1. /\ UNCHANGED <<disk.lines, disk.orders, torn>>
        /\ disk'.items = mem.items /\ request.name = "item_update"
    BY <1>5, CloseItemsStep
  <2>2. request.item \in Items
    BY <2>1 DEF IInv, TypeOK, Requests, NoRequest
  <2>3. mem.items = disk.items \/ mem.items = disk.items \cup {request.item}
    BY DEF IInv, ItemsInv
  <2>4. QED BY <2>1, <2>2, <2>3 DEF Catalog!Next, Catalog!PutItem
<1>6. CASE Crash
  <2>1. UNCHANGED disk /\ torn.lines \subseteq torn'.lines /\ torn'.lines \in SUBSET Rows
    BY <1>6, CrashStep DEF KeySets
  <2>2. Catalog!Damage
    BY <2>1 DEF Catalog!Damage
  <2>3. QED BY <2>2 DEF Catalog!Next
<1>7. QED BY <1>1, <1>2, <1>3, <1>4, <1>5, <1>6, FileSteps

\* The rows of the files go through the catalogue's atomic commits only: the
\* index files, the caches, the order of closing and the crashes between two
\* files do not show in them.
THEOREM SpecImplementsCatalog == Spec => ImplementsCatalog
<1>1. Init => Catalog!Init
  BY DEF Init, Catalog!Init, EmptyStore, NoKeys, OT!EmptyTable, LT!EmptyTable
<1>2. QED BY <1>1, CatalogStep, SpecIInv, PTL DEF Spec, ImplementsCatalog, Catalog!Spec
=============================================================================

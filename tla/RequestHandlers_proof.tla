------------------------- MODULE RequestHandlers_proof -------------------------
(***************************************************************************)
(* RequestHandlers, for every set of documents and every number of         *)
(* requests: types, that the server runs on what its document says, that a *)
(* DAO is reached exactly when the request can be served, and that files   *)
(* are written in an order no death can spoil.                             *)
(***************************************************************************)
EXTENDS RequestHandlers, SequenceTheorems, WellFoundedInduction, FiniteSetTheorems, TLAPS

-----------------------------------------------------------------------------
(* The inductive invariant                                                 *)

IsSequence(s) == Len(s) \in Nat /\ s = [n \in 1..Len(s) |-> s[n]]

\* The configuration is what the document was read as.
ConfigInv ==
    pc # "down" => /\ document \in Documents /\ ConfigFromJson(document).ok
                   /\ config = ConfigFromJson(document).map

FilesInv ==
    files \in [DOMAIN files -> [flags : Flags, writes : SUBSET DOMAIN journal]]

ListsInv ==
    /\ IsSequence(calls) /\ IsSequence(closes) /\ IsSequence(journal)
    /\ pc # "closing" => dirty = {}
    /\ pc \notin {"down", "idle"} => request \in Requests

\* The calls of the handler, and how many of them have been made.
All == Handlers[request].calls
Made == Len(All) - Len(calls)

\* While there are no errors the handler has left what it has not called.
CallsInv ==
    pc = "handling" /\ ~errors =>
        /\ request \in DOMAIN Handlers /\ Understands(Handlers[request], args)
        /\ Len(calls) <= Len(All)
        /\ \A n \in 1..Len(calls) : calls[n] = All[Made + n]

\* A file is there and can be opened with these flags, now and later.
Openable(filename, flags) ==
    filename # NoName /\ filename \in DOMAIN files /\ flags \subseteq files[filename].flags

OpenedWell(c) ==
    /\ Openable(c.filename, PrimaryFlags(c))
    /\ \A i \in DOMAIN c.secondaries :
          /\ Openable(c.secondaries[i].filename, IndexFlags)
          /\ c.secondaries[i].key_extractor \in KeyExtractors
          /\ "DUP" \notin files[c.filename].flags

\* What a call has seen to when it has added no error.
CallOk(call) ==
    /\ call.do = "select" => call.db \in DOMAIN config
    /\ call.do = "select index" => HasIndex(config, call.db, call.index)
    /\ call.do = "open" => OpenedWell(Primary(config, call.db))

MadeInv ==
    pc = "handling" /\ ~errors => \A m \in 1..Made : CallOk(All[m])

\* An error is one that no request of this kind can avoid.
FailedInv ==
    /\ pc = "handling" /\ errors => ~CanBeServed(request, args)
    /\ pc # "closing" => ~reached
    /\ pc = "closing" => (reached <=> CanBeServed(request, args))

\* An attached handle of file b has one of file a before it.
Guarded(handles, a, b) ==
    \A n \in 1..Len(handles) :
        handles[n].attached /\ handles[n].file = b =>
            \E m \in 1..n : handles[m].attached /\ handles[m].file = a

\* The same, and the handle before is one of the database db.
GuardedBy(handles, db, a, b) ==
    \A n \in 1..Len(handles) :
        handles[n].attached /\ handles[n].file = b =>
            \E m \in 1..n : handles[m].attached /\ handles[m].file = a /\ handles[m].db = db

\* The order of the open handles is that of Before, for what is open by now.
HandlesInv ==
    pc = "handling" /\ ~errors =>
        /\ \A n \in 1..Len(closes) : closes[n].attached => closes[n].db \in DOMAIN config
        /\ \A db \in DOMAIN config : \A i \in DOMAIN config[db].secondaries :
              GuardedBy(closes, db, config[db].secondaries[i].filename, config[db].filename)
        /\ \A n \in 1..(Len(Handlers[request].writes) - 1) :
              LET first == Handlers[request].writes[n]
                  second == Handlers[request].writes[n + 1]
              IN  (\E m \in 1..Made : All[m] = Open(first)) =>
                      GuardedBy(closes, first, Primary(config, first).filename,
                                Primary(config, second).filename)

\* What the last write has still to put into files is put there in order.
ClosingInv ==
    pc = "closing" /\ dirty # {} =>
        /\ journal # <<>>
        /\ \A p \in journal[Len(journal)] : p[2] \in dirty =>
              \/ p[1] \in DOMAIN files /\ Len(journal) \in files[p[1]].writes
              \/ p[1] \in dirty /\ Guarded(closes, p[1], p[2])

IInv ==
    /\ TypeOK
    /\ ConfigInv
    /\ FilesInv
    /\ ListsInv
    /\ CallsInv
    /\ MadeInv
    /\ FailedInv
    /\ HandlesInv
    /\ ClosingInv
    /\ FlushedInOrder

-----------------------------------------------------------------------------
(* Sequences                                                               *)

LEMMA SequenceIn ==
    ASSUME NEW s, IsSequence(s), NEW S, \A n \in 1..Len(s) : s[n] \in S
    PROVE  s \in Seq(S)
<1>1. [n \in 1..Len(s) |-> s[n]] \in [1..Len(s) -> S]
  OBVIOUS
<1>2. QED BY <1>1 DEF IsSequence

LEMMA SequenceDomain ==
    ASSUME NEW s, IsSequence(s)
    PROVE  DOMAIN s = 1..Len(s) /\ Len(s) \in Nat
BY DEF IsSequence

LEMMA InSequence ==
    ASSUME NEW S, NEW s \in Seq(S)
    PROVE  IsSequence(s)
BY LenProperties DEF IsSequence

LEMMA EmptySequence == IsSequence(<<>>) /\ Len(<<>>) = 0
<1>1. <<>> \in Seq({})
  OBVIOUS
<1>2. QED BY <1>1, InSequence

LEMMA TailSequence ==
    ASSUME NEW s, IsSequence(s), s # <<>>
    PROVE  /\ IsSequence(Tail(s)) /\ Len(Tail(s)) = Len(s) - 1 /\ Len(s) >= 1
           /\ Head(s) = s[1]
           /\ \A n \in 1..(Len(s) - 1) : Tail(s)[n] = s[n + 1]
<1> DEFINE S == {s[n] : n \in 1..Len(s)}
<1>1. s \in Seq(S)
  BY SequenceIn
<1> HIDE DEF S
<1>2. /\ Tail(s) \in Seq(S) /\ Len(Tail(s)) = Len(s) - 1 /\ Head(s) = s[1]
      /\ \A n \in 1..(Len(s) - 1) : Tail(s)[n] = s[n + 1]
  BY <1>1, HeadTailProperties
<1>3. Len(s) >= 1
  BY <1>1, EmptySeq
<1>4. QED BY <1>2, <1>3, InSequence

LEMMA JoinedSequence ==
    ASSUME NEW s, IsSequence(s), NEW t, IsSequence(t)
    PROVE  /\ IsSequence(s \o t) /\ Len(s \o t) = Len(s) + Len(t)
           /\ \A n \in 1..(Len(s) + Len(t)) :
                 (s \o t)[n] = IF n <= Len(s) THEN s[n] ELSE t[n - Len(s)]
<1> DEFINE S == {s[n] : n \in 1..Len(s)} \cup {t[n] : n \in 1..Len(t)}
<1>1. s \in Seq(S) /\ t \in Seq(S)
  <2>1. \A n \in 1..Len(s) : s[n] \in S
    OBVIOUS
  <2>2. \A n \in 1..Len(t) : t[n] \in S
    OBVIOUS
  <2> HIDE DEF S
  <2>3. QED BY <2>1, <2>2, SequenceIn
<1> HIDE DEF S
<1>2. QED BY <1>1, ConcatProperties, InSequence

LEMMA AppendedSequence ==
    ASSUME NEW s, IsSequence(s), NEW x
    PROVE  /\ IsSequence(Append(s, x)) /\ Len(Append(s, x)) = Len(s) + 1
           /\ \A n \in 1..Len(s) : Append(s, x)[n] = s[n]
           /\ Append(s, x)[Len(s) + 1] = x
<1> DEFINE S == {s[n] : n \in 1..Len(s)} \cup {x}
<1>1. \A n \in 1..Len(s) : s[n] \in S
  OBVIOUS
<1>2. x \in S
  OBVIOUS
<1> HIDE DEF S
<1>3. s \in Seq(S)
  BY <1>1, SequenceIn
<1>4. /\ Append(s, x) \in Seq(S) /\ Len(Append(s, x)) = Len(s) + 1
      /\ \A n \in 1..Len(s) : Append(s, x)[n] = s[n]
      /\ Append(s, x)[Len(s) + 1] = x
  BY <1>2, <1>3, AppendProperties
<1>5. QED BY <1>4, InSequence

-----------------------------------------------------------------------------
(* The table of handlers                                                   *)

CallsOf(h) == {h.calls[n] : n \in 1..Len(h.calls)}

\* Every database that is named is selected and opened, and every index that
\* is named is selected.
Complete(S) ==
    \A c \in S :
        /\ Select(c.db) \in S /\ Open(c.db) \in S
        /\ c.do \in {"select index", "open index"} => SelectIndex(c.db, c.index) \in S
        /\ c.do = "open" => c = Open(c.db)

\* What the proofs ask of a handler: it reads the arguments it has looked for,
\* its calls are complete, and what its DAO call writes first it opens last.
WellMade(h) ==
    /\ h.least = h.reads /\ h.reads \in 0..4
    /\ IsSequence(h.calls) /\ IsSequence(h.writes)
    /\ Complete(CallsOf(h))
    /\ \A n \in 1..Len(h.writes) : Open(h.writes[n]) \in CallsOf(h)
    /\ \A n \in 1..(Len(h.writes) - 1) : \A x, y \in 1..Len(h.calls) :
          h.calls[x] = Open(h.writes[n + 1]) /\ h.calls[y] = Open(h.writes[n]) => x < y

LEMMA SelectFields == \A db : Select(db).db = db /\ Select(db).do = "select"
BY DEF Select

LEMMA OpenFields == \A db : Open(db).db = db /\ Open(db).do = "open"
BY DEF Open

LEMMA SelectIndexFields ==
    \A db, index :
        /\ SelectIndex(db, index).db = db /\ SelectIndex(db, index).index = index
        /\ SelectIndex(db, index).do = "select index"
BY DEF SelectIndex

LEMMA OpenIndexFields ==
    \A db, index :
        /\ OpenIndex(db, index).db = db /\ OpenIndex(db, index).index = index
        /\ OpenIndex(db, index).do = "open index"
BY DEF OpenIndex

\* All that a handler calls: two databases, one of them with two indexes.
AllCalls(a, b, i, j) ==
    {Select(a), Open(a), Select(b), Open(b), SelectIndex(a, i), OpenIndex(a, i),
     SelectIndex(a, j), OpenIndex(a, j)}

LEMMA AllCallsComplete ==
    ASSUME NEW a, NEW b, NEW i, NEW j, NEW S, S \subseteq AllCalls(a, b, i, j),
           {Select(a), Open(a), Select(b), Open(b)} \subseteq S,
           OpenIndex(a, i) \in S => SelectIndex(a, i) \in S,
           OpenIndex(a, j) \in S => SelectIndex(a, j) \in S
    PROVE  Complete(S)
<1>1. /\ SelectIndex(a, i).db = a /\ SelectIndex(a, i).index = i
      /\ SelectIndex(a, j).db = a /\ SelectIndex(a, j).index = j
      /\ OpenIndex(a, i).db = a /\ OpenIndex(a, i).index = i
      /\ OpenIndex(a, j).db = a /\ OpenIndex(a, j).index = j
      /\ SelectIndex(a, i).do = "select index" /\ SelectIndex(a, j).do = "select index"
      /\ OpenIndex(a, i).do = "open index" /\ OpenIndex(a, j).do = "open index"
  <2>1. SelectIndex(a, i).db = a /\ SelectIndex(a, i).index = i /\ SelectIndex(a, i).do = "select index"
    BY SelectIndexFields
  <2>2. SelectIndex(a, j).db = a /\ SelectIndex(a, j).index = j /\ SelectIndex(a, j).do = "select index"
    BY SelectIndexFields
  <2>3. OpenIndex(a, i).db = a /\ OpenIndex(a, i).index = i /\ OpenIndex(a, i).do = "open index"
    BY OpenIndexFields
  <2>4. OpenIndex(a, j).db = a /\ OpenIndex(a, j).index = j /\ OpenIndex(a, j).do = "open index"
    BY OpenIndexFields
  <2>5. QED BY <2>1, <2>2, <2>3, <2>4
<1>2. /\ Select(a).db = a /\ Select(a).do = "select" /\ Select(b).db = b
      /\ Select(b).do = "select"
      /\ Open(a).db = a /\ Open(a).do = "open" /\ Open(b).db = b /\ Open(b).do = "open"
  BY SelectFields, OpenFields
<1> SUFFICES ASSUME NEW c \in S
             PROVE  /\ Select(c.db) \in S /\ Open(c.db) \in S
                    /\ c.do \in {"select index", "open index"} =>
                          SelectIndex(c.db, c.index) \in S
                    /\ c.do = "open" => c = Open(c.db)
  BY DEF Complete
<1>3. c \in AllCalls(a, b, i, j)
  OBVIOUS
<1>4. c.db \in {a, b}
  BY <1>1, <1>2, <1>3 DEF AllCalls
<1>5. CASE c \in {Select(a), Open(a), Select(b), Open(b)}
  BY <1>2, <1>4, <1>5
<1>6. CASE c \in {SelectIndex(a, i), OpenIndex(a, i)}
  BY <1>1, <1>4, <1>6
<1>7. CASE c \in {SelectIndex(a, j), OpenIndex(a, j)}
  BY <1>1, <1>4, <1>7
<1>8. QED BY <1>3, <1>5, <1>6, <1>7 DEF AllCalls

LEMMA PlainComplete ==
    ASSUME NEW a, NEW b, NEW S, S = {Select(a), Open(a), Select(b), Open(b)}
    PROVE  Complete(S)
<1>1. /\ Select(a).db = a /\ Select(a).do = "select" /\ Select(b).db = b
      /\ Select(b).do = "select"
      /\ Open(a).db = a /\ Open(a).do = "open" /\ Open(b).db = b /\ Open(b).do = "open"
  BY SelectFields, OpenFields
<1>2. QED BY <1>1 DEF Complete

\* No other call is that of a constructor of a primary.
LEMMA OpenIsOpen ==
    \A a, b, index : /\ Select(a) # Open(b) /\ SelectIndex(a, index) # Open(b)
                     /\ OpenIndex(a, index) # Open(b) /\ (Open(a) = Open(b) => a = b)
<1> TAKE a, b, index
<1>1. /\ Select(a).do = "select" /\ SelectIndex(a, index).do = "select index"
      /\ OpenIndex(a, index).do = "open index"
      /\ Open(a).db = a /\ Open(b).do = "open" /\ Open(b).db = b
  <2>1. SelectIndex(a, index).do = "select index"
    BY SelectIndexFields
  <2>2. OpenIndex(a, index).do = "open index"
    BY OpenIndexFields
  <2>3. QED BY <2>1, <2>2, SelectFields, OpenFields
<1>2. Select(a).do # Open(b).do
  BY <1>1
<1>3. SelectIndex(a, index).do # Open(b).do
  BY <1>1
<1>4. OpenIndex(a, index).do # Open(b).do
  BY <1>1
<1>5. QED BY <1>1, <1>2, <1>3, <1>4

LEMMA LoadWellMade ==
    ASSUME NEW db, NEW triplets, db # triplets
    PROVE  WellMade(Load(db, triplets))
<1> DEFINE h == Load(db, triplets)
<1>1. /\ h.least = 1 /\ h.reads = 1 /\ IsSequence(h.calls) /\ IsSequence(h.writes)
      /\ Len(h.calls) = 4 /\ Len(h.writes) = 2
      /\ h.writes[1] = triplets /\ h.writes[2] = db
      /\ h.calls[1] = Select(db) /\ h.calls[2] = Open(db)
      /\ h.calls[3] = Select(triplets) /\ h.calls[4] = Open(triplets)
  BY DEF Load, IsSequence
<1>2. CallsOf(h) = {Select(db), Open(db), Select(triplets), Open(triplets)}
  BY DEF CallsOf, Load
<1> HIDE DEF h
<1>3. Complete(CallsOf(h))
  BY <1>2, PlainComplete
<1>4. \A x \in 1..4 : (h.calls[x] = Open(db) => x = 2) /\ (h.calls[x] = Open(triplets) => x = 4)
  BY <1>1, OpenIsOpen
<1>5. \A n \in 1..1 : \A x, y \in 1..4 :
          h.calls[x] = Open(h.writes[n + 1]) /\ h.calls[y] = Open(h.writes[n]) => x < y
  BY <1>1, <1>4
<1>6. \A n \in 1..2 : Open(h.writes[n]) \in CallsOf(h)
  BY <1>1, <1>2
<1>7. WellMade(h)
  BY <1>1, <1>3, <1>5, <1>6 DEF WellMade
<1>8. QED BY <1>7 DEF h

\* The order of writes is only about handlers that write two databases.
LEMMA AtMostOneWrite ==
    ASSUME NEW h, h.least = h.reads, h.reads \in 0..4, IsSequence(h.calls),
           Complete(CallsOf(h)),
           \/ h.writes = <<>>
           \/ \E db : h.writes = <<db>> /\ Open(db) \in CallsOf(h)
    PROVE  WellMade(h)
<1>1. CASE h.writes = <<>>
  <2>1. IsSequence(h.writes) /\ Len(h.writes) = 0
    BY <1>1, EmptySequence
  <2>2. QED BY <2>1 DEF WellMade
<1>2. ASSUME NEW db, h.writes = <<db>>, Open(db) \in CallsOf(h)
      PROVE  WellMade(h)
  <2>1. IsSequence(h.writes) /\ Len(h.writes) = 1 /\ h.writes[1] = db
    BY <1>2 DEF IsSequence
  <2>2. QED BY <1>2, <2>1 DEF WellMade
<1>3. QED BY <1>1, <1>2

LEMMA LookupWellMade ==
    ASSUME NEW db
    PROVE  WellMade(Lookup(db))
<1> DEFINE h == Lookup(db)
<1>1. /\ h.least = h.reads /\ h.reads = 1 /\ IsSequence(h.calls)
      /\ h.writes = <<>>
  BY DEF Lookup, IsSequence
<1>2. CallsOf(h) = {Select(db), Open(db), Select(db), Open(db)}
  BY DEF CallsOf, Lookup
<1> HIDE DEF h
<1>3. Complete(CallsOf(h))
  BY <1>2, PlainComplete
<1>4. Open(db) \in CallsOf(h)
  BY <1>2
<1>5. WellMade(h)
  BY <1>1, <1>3, <1>4, AtMostOneWrite
<1>6. QED BY <1>5 DEF h

LEMMA SelectAllWellMade ==
    ASSUME NEW db
    PROVE  WellMade(SelectAll(db))
<1> DEFINE h == SelectAll(db)
<1>1. /\ h.least = h.reads /\ h.reads = 0 /\ IsSequence(h.calls)
      /\ h.writes = <<>>
  BY DEF SelectAll, IsSequence
<1>2. CallsOf(h) = {Select(db), Open(db), Select(db), Open(db)}
  BY DEF CallsOf, SelectAll
<1> HIDE DEF h
<1>3. Complete(CallsOf(h))
  BY <1>2, PlainComplete
<1>4. Open(db) \in CallsOf(h)
  BY <1>2
<1>5. WellMade(h)
  BY <1>1, <1>3, <1>4, AtMostOneWrite
<1>6. QED BY <1>5 DEF h

LEMMA MatchTextWellMade ==
    ASSUME NEW db, NEW triplets
    PROVE  WellMade(MatchText(db, triplets))
<1> DEFINE h == MatchText(db, triplets)
<1>1. /\ h.least = h.reads /\ h.reads = 3 /\ IsSequence(h.calls)
      /\ h.writes = <<>>
  BY DEF MatchText, IsSequence
<1>2. CallsOf(h) = {Select(db), Open(db), Select(triplets), Open(triplets)}
  BY DEF CallsOf, MatchText
<1> HIDE DEF h
<1>3. Complete(CallsOf(h))
  BY <1>2, PlainComplete
<1>4. Open(db) \in CallsOf(h)
  BY <1>2
<1>5. WellMade(h)
  BY <1>1, <1>3, <1>4, AtMostOneWrite
<1>6. QED BY <1>5 DEF h

LEMMA UpdateWellMade ==
    ASSUME NEW db, NEW fields \in 0..4
    PROVE  WellMade(Update(db, fields))
<1> DEFINE h == Update(db, fields)
<1>1. /\ h.least = h.reads /\ h.reads = fields /\ IsSequence(h.calls)
      /\ h.writes = <<db>>
  BY DEF Update, IsSequence
<1>2. CallsOf(h) = {Select(db), Open(db), Select(db), Open(db)}
  BY DEF CallsOf, Update
<1> HIDE DEF h
<1>3. Complete(CallsOf(h))
  BY <1>2, PlainComplete
<1>4. Open(db) \in CallsOf(h)
  BY <1>2
<1>5. WellMade(h)
  BY <1>1, <1>3, <1>4, AtMostOneWrite
<1>6. QED BY <1>5 DEF h

LEMMA OrderItemLoadWellMade ==
    WellMade(OrderItemLoad)
<1> DEFINE h == OrderItemLoad
<1>1. /\ h.least = h.reads /\ h.reads = 1 /\ IsSequence(h.calls)
      /\ h.writes = <<"order_item">>
  BY DEF OrderItemLoad, IsSequence
<1>2. CallsOf(h) = {Select("order_item"), Open("order_item"), Select("order_item"), Open("order_item")}
  BY DEF CallsOf, OrderItemLoad
<1> HIDE DEF h
<1>3. Complete(CallsOf(h))
  BY <1>2, PlainComplete
<1>4. Open("order_item") \in CallsOf(h)
  BY <1>2
<1>5. WellMade(h)
  BY <1>1, <1>3, <1>4, AtMostOneWrite
<1>6. QED BY <1>5 DEF h

LEMMA SelectAllForWellMade ==
    ASSUME NEW db, NEW index
    PROVE  WellMade(SelectAllFor(db, index))
<1> DEFINE h == SelectAllFor(db, index)
<1>1. /\ h.least = h.reads /\ h.reads = 1 /\ IsSequence(h.calls)
      /\ h.writes = <<>>
  BY DEF SelectAllFor, IsSequence
<1>2. CallsOf(h) = {Select(db), SelectIndex(db, index), Open(db), OpenIndex(db, index)}
  BY DEF CallsOf, SelectAllFor
<1> HIDE DEF h
<1>3. Complete(CallsOf(h))
  <2>1. CallsOf(h) \subseteq AllCalls(db, db, index, index)
    BY <1>2 DEF AllCalls
  <2>2. QED BY <1>2, <2>1, AllCallsComplete
<1>4. Open(db) \in CallsOf(h)
  BY <1>2
<1>5. WellMade(h)
  BY <1>1, <1>3, <1>4, AtMostOneWrite
<1>6. QED BY <1>5 DEF h

LEMMA ItemSelectAllOrdersWellMade ==
    WellMade(ItemSelectAllOrders)
<1> DEFINE h == ItemSelectAllOrders
<1>1. /\ h.least = h.reads /\ h.reads = 1 /\ IsSequence(h.calls)
      /\ h.writes = <<>>
  BY DEF ItemSelectAllOrders, IsSequence
<1>2. CallsOf(h) = {Select("order_item"), Open("order_item"), Select("order"), Open("order"),
                     SelectIndex("order_item", "order_item_item_id"), OpenIndex("order_item", "order_item_item_id")}
  BY DEF CallsOf, ItemSelectAllOrders
<1> HIDE DEF h
<1>3. Complete(CallsOf(h))
  <2>1. CallsOf(h) \subseteq AllCalls("order_item", "order", "order_item_item_id", "order_item_item_id")
    BY <1>2 DEF AllCalls
  <2>2. QED BY <1>2, <2>1, AllCallsComplete
<1>4. Open("order_item") \in CallsOf(h)
  BY <1>2
<1>5. WellMade(h)
  BY <1>1, <1>3, <1>4, AtMostOneWrite
<1>6. QED BY <1>5 DEF h

LEMMA OrderAddItemWellMade ==
    WellMade(OrderAddItem)
<1> DEFINE h == OrderAddItem
<1>1. /\ h.least = h.reads /\ h.reads = 2 /\ IsSequence(h.calls)
      /\ h.writes = <<"order_item">>
  BY DEF OrderAddItem, IsSequence
<1>2. CallsOf(h) = {Select("order_item"), Open("order_item"),
                     SelectIndex("order_item", "order_item_order_id"), OpenIndex("order_item", "order_item_order_id")}
  BY DEF CallsOf, OrderAddItem
<1> HIDE DEF h
<1>3. Complete(CallsOf(h))
  <2>1. CallsOf(h) \subseteq AllCalls("order_item", "order_item", "order_item_order_id", "order_item_order_id")
    BY <1>2 DEF AllCalls
  <2>2. QED BY <1>2, <2>1, AllCallsComplete
<1>4. Open("order_item") \in CallsOf(h)
  BY <1>2
<1>5. WellMade(h)
  BY <1>1, <1>3, <1>4, AtMostOneWrite
<1>6. QED BY <1>5 DEF h

LEMMA OrderRemoveItemWellMade ==
    WellMade(OrderRemoveItem)
<1> DEFINE h == OrderRemoveItem
<1>1. /\ h.least = h.reads /\ h.reads = 2 /\ IsSequence(h.calls)
      /\ h.writes = <<"order_item">>
  BY DEF OrderRemoveItem, IsSequence
<1>2. CallsOf(h) = {Select("order_item"), Open("order_item"),
                     SelectIndex("order_item", "order_item_item_id"), OpenIndex("order_item", "order_item_item_id"),
                     SelectIndex("order_item", "order_item_order_id"), OpenIndex("order_item", "order_item_order_id")}
  BY DEF CallsOf, OrderRemoveItem
<1> HIDE DEF h
<1>3. Complete(CallsOf(h))
  <2>1. CallsOf(h) \subseteq AllCalls("order_item", "order_item", "order_item_item_id", "order_item_order_id")
    BY <1>2 DEF AllCalls
  <2>2. QED BY <1>2, <2>1, AllCallsComplete
<1>4. Open("order_item") \in CallsOf(h)
  BY <1>2
<1>5. WellMade(h)
  BY <1>1, <1>3, <1>4, AtMostOneWrite
<1>6. QED BY <1>5 DEF h

LEMMA OrderSelectAllItemsWellMade ==
    WellMade(OrderSelectAllItems)
<1> DEFINE h == OrderSelectAllItems
<1>1. /\ h.least = h.reads /\ h.reads = 1 /\ IsSequence(h.calls)
      /\ h.writes = <<>>
  BY DEF OrderSelectAllItems, IsSequence
<1>2. CallsOf(h) = {Select("order_item"), Open("order_item"), Select("item"), Open("item"),
                     SelectIndex("order_item", "order_item_order_id"), OpenIndex("order_item", "order_item_order_id")}
  BY DEF CallsOf, OrderSelectAllItems
<1> HIDE DEF h
<1>3. Complete(CallsOf(h))
  <2>1. CallsOf(h) \subseteq AllCalls("order_item", "item", "order_item_order_id", "order_item_order_id")
    BY <1>2 DEF AllCalls
  <2>2. QED BY <1>2, <2>1, AllCallsComplete
<1>4. Open("order_item") \in CallsOf(h)
  BY <1>2
<1>5. WellMade(h)
  BY <1>1, <1>3, <1>4, AtMostOneWrite
<1>6. QED BY <1>5 DEF h

LEMMA OrderSelectOtherItemsWellMade ==
    WellMade(OrderSelectOtherItems)
<1> DEFINE h == OrderSelectOtherItems
<1>1. /\ h.least = h.reads /\ h.reads = 1 /\ IsSequence(h.calls)
      /\ h.writes = <<>>
  BY DEF OrderSelectOtherItems, OrderSelectAllItems, IsSequence
<1>2. CallsOf(h) = {Select("order_item"), Open("order_item"), Select("item"), Open("item"),
                     SelectIndex("order_item", "order_item_order_id"), OpenIndex("order_item", "order_item_order_id")}
  BY DEF CallsOf, OrderSelectOtherItems, OrderSelectAllItems
<1> HIDE DEF h
<1>3. Complete(CallsOf(h))
  <2>1. CallsOf(h) \subseteq AllCalls("order_item", "item", "order_item_order_id", "order_item_order_id")
    BY <1>2 DEF AllCalls
  <2>2. QED BY <1>2, <2>1, AllCallsComplete
<1>4. Open("order_item") \in CallsOf(h)
  BY <1>2
<1>5. WellMade(h)
  BY <1>1, <1>3, <1>4, AtMostOneWrite
<1>6. QED BY <1>5 DEF h

LEMMA OrderRemoveWellMade ==
    WellMade(OrderRemove)
<1> DEFINE h == OrderRemove
           item == "order_item_item_id"
           order == "order_item_order_id"
<1>1. /\ h.least = h.reads /\ h.reads = 1 /\ IsSequence(h.calls) /\ IsSequence(h.writes)
      /\ Len(h.writes) = 2 /\ h.writes[1] = "order_item" /\ h.writes[2] = "order"
  BY DEF OrderRemove, IsSequence
<1>2. /\ Len(h.calls) = 8
      /\ h.calls[1] = Select("order") /\ h.calls[2] = Select("order_item")
      /\ h.calls[3] = SelectIndex("order_item", order)
      /\ h.calls[4] = SelectIndex("order_item", item)
      /\ h.calls[5] = Open("order") /\ h.calls[6] = Open("order_item")
      /\ h.calls[7] = OpenIndex("order_item", order)
      /\ h.calls[8] = OpenIndex("order_item", item)
  BY DEF OrderRemove
<1>3. CallsOf(h) = {Select("order"), Select("order_item"),
                    SelectIndex("order_item", order), SelectIndex("order_item", item),
                    Open("order"), Open("order_item"),
                    OpenIndex("order_item", order), OpenIndex("order_item", item)}
  BY DEF CallsOf, OrderRemove
<1> HIDE DEF h, item, order
<1>4. Complete(CallsOf(h))
  <2>1. CallsOf(h) \subseteq AllCalls("order_item", "order", item, order)
    BY <1>3 DEF AllCalls
  <2>2. QED BY <1>3, <2>1, AllCallsComplete
<1>5. \A x \in 1..8 : /\ h.calls[x] = Open("order") => x = 5
                      /\ h.calls[x] = Open("order_item") => x = 6
  BY <1>2, OpenIsOpen
<1>6. \A n \in 1..1 : \A x, y \in 1..8 :
          h.calls[x] = Open(h.writes[n + 1]) /\ h.calls[y] = Open(h.writes[n]) => x < y
  BY <1>1, <1>5
<1>7. \A n \in 1..2 : Open(h.writes[n]) \in CallsOf(h)
  BY <1>1, <1>3
<1>8. WellMade(h)
  BY <1>1, <1>2, <1>4, <1>6, <1>7 DEF WellMade
<1>9. QED BY <1>8 DEF h

LEMMA JoinedFrom ==
    ASSUME NEW f, NEW g, NEW name \in DOMAIN Joined(f, g)
    PROVE  \/ name \in DOMAIN f /\ Joined(f, g)[name] = f[name]
           \/ name \in DOMAIN g /\ Joined(f, g)[name] = g[name]
BY DEF Joined

\* Every handler is well made.
LEMMA HandlersWellMade ==
    ASSUME NEW r \in DOMAIN Handlers
    PROVE  WellMade(Handlers[r])
<1>1. \A name \in DOMAIN AccountHandlers : WellMade(AccountHandlers[name])
  <2>1. \A name \in DOMAIN AccountSelects : WellMade(AccountSelects[name])
    BY SelectAllWellMade, SelectAllForWellMade DEF AccountSelects
  <2> DEFINE rest ==
        [account_load           |-> Load("account", "account_username_triplets"),
         account_lookup         |-> Lookup("account"),
         account_match_username |-> MatchText("account", "account_username_triplets"),
         account_update         |-> Update("account", 4)]
  <2>2. \A name \in DOMAIN rest : WellMade(rest[name])
    BY LoadWellMade, LookupWellMade, MatchTextWellMade, UpdateWellMade
  <2> HIDE DEF rest
  <2>3. \A name \in DOMAIN Joined(AccountSelects, rest) :
            WellMade(Joined(AccountSelects, rest)[name])
    BY <2>1, <2>2, JoinedFrom
  <2>4. QED BY <2>3 DEF AccountHandlers, rest
<1>2. \A name \in DOMAIN ItemHandlers : WellMade(ItemHandlers[name])
  <2>1. \A name \in DOMAIN ItemSelects : WellMade(ItemSelects[name])
    BY UpdateWellMade, SelectAllForWellMade DEF ItemSelects
  <2> DEFINE rest ==
        [item_load              |-> Load("item", "item_name_triplets"),
         item_lookup            |-> Lookup("item"),
         item_match_name        |-> MatchText("item", "item_name_triplets"),
         item_select_all        |-> SelectAll("item"),
         item_select_all_orders |-> ItemSelectAllOrders]
  <2>2. \A name \in DOMAIN rest : WellMade(rest[name])
    BY LoadWellMade, LookupWellMade, MatchTextWellMade, SelectAllWellMade,
       ItemSelectAllOrdersWellMade
  <2> HIDE DEF rest
  <2>3. \A name \in DOMAIN Joined(ItemSelects, rest) :
            WellMade(Joined(ItemSelects, rest)[name])
    BY <2>1, <2>2, JoinedFrom
  <2>4. QED BY <2>3 DEF ItemHandlers, rest
<1>3. \A name \in DOMAIN OrderHandlers : WellMade(OrderHandlers[name])
  <2>1. \A name \in DOMAIN OrderSelects : WellMade(OrderSelects[name])
    BY SelectAllForWellMade, OrderSelectOtherItemsWellMade, UpdateWellMade DEF OrderSelects
  <2> DEFINE rest ==
        [order_add_item         |-> OrderAddItem,
         order_load             |-> Load("order", "order_name_triplets"),
         order_lookup           |-> Lookup("order"),
         order_match_name       |-> MatchText("order", "order_name_triplets"),
         order_remove_item      |-> OrderRemoveItem,
         order_remove           |-> OrderRemove,
         order_select_all       |-> SelectAll("order"),
         order_select_all_items |-> OrderSelectAllItems]
  <2>2. \A name \in DOMAIN rest : WellMade(rest[name])
    BY LoadWellMade, LookupWellMade, MatchTextWellMade, SelectAllWellMade,
       OrderAddItemWellMade, OrderRemoveItemWellMade, OrderRemoveWellMade,
       OrderSelectAllItemsWellMade
  <2> HIDE DEF rest
  <2>3. \A name \in DOMAIN Joined(OrderSelects, rest) :
            WellMade(Joined(OrderSelects, rest)[name])
    BY <2>1, <2>2, JoinedFrom
  <2>4. QED BY <2>3 DEF OrderHandlers, rest
<1> DEFINE one == [order_item_load |-> OrderItemLoad]
<1>4. \A name \in DOMAIN one : WellMade(one[name])
  BY OrderItemLoadWellMade
<1> HIDE DEF one
<1>5. \A name \in DOMAIN Joined(OrderHandlers, one) : WellMade(Joined(OrderHandlers, one)[name])
  BY <1>3, <1>4, JoinedFrom
<1> DEFINE items == Joined(ItemHandlers, Joined(OrderHandlers, one))
<1>6. \A name \in DOMAIN items : WellMade(items[name])
  BY <1>2, <1>5, JoinedFrom
<1> HIDE DEF items
<1>7. WellMade(Joined(AccountHandlers, items)[r])
  <2>1. r \in DOMAIN Joined(AccountHandlers, items)
    BY DEF Handlers, items, one
  <2>2. QED BY <1>1, <1>6, <2>1, JoinedFrom
<1>8. QED BY <1>7 DEF Handlers, items, one

-----------------------------------------------------------------------------
(* Files                                                                   *)

\* Files are created, and none loses its flags.
Grows ==
    \A f \in DOMAIN files : f \in DOMAIN files' /\ files'[f].flags = files[f].flags

LEMMA CreatedFiles ==
    ASSUME NEW new, FilesInv, new \in [DOMAIN new -> Flags], NoName \notin DOMAIN files,
           NoName \notin DOMAIN new, files' = Created(new), journal' = journal
    PROVE  /\ FilesInv' /\ Grows /\ NoName \notin DOMAIN files'
           /\ DOMAIN files' = DOMAIN files \cup DOMAIN new
           /\ \A f \in DOMAIN files : files'[f] = files[f]
           /\ \A f \in DOMAIN new \ DOMAIN files :
                 files'[f] = [flags |-> new[f], writes |-> {}]
<1>1. /\ DOMAIN files' = DOMAIN files \cup DOMAIN new
      /\ \A f \in DOMAIN files : files'[f] = files[f]
      /\ \A f \in DOMAIN new \ DOMAIN files :
            files'[f] = [flags |-> new[f], writes |-> {}]
      /\ files' = [f \in DOMAIN files' |-> files'[f]]
  BY DEF Created
<1>2. \A f \in DOMAIN files' : files'[f] \in [flags : Flags, writes : SUBSET DOMAIN journal]
  <2> TAKE f \in DOMAIN files'
  <2>1. CASE f \in DOMAIN files
    BY <1>1, <2>1 DEF FilesInv
  <2>2. CASE f \in DOMAIN new \ DOMAIN files
    <3>1. new[f] \in Flags /\ {} \in SUBSET DOMAIN journal
      BY <2>2
    <3>2. [flags |-> new[f], writes |-> {}] \in [flags : Flags, writes : SUBSET DOMAIN journal]
      BY <3>1
    <3>3. files'[f] = [flags |-> new[f], writes |-> {}]
      BY <1>1, <2>2
    <3>4. QED BY <3>2, <3>3
  <2>3. QED BY <1>1, <2>1, <2>2
<1>3. FilesInv'
  BY <1>1, <1>2 DEF FilesInv
<1>4. QED BY <1>1, <1>3 DEF Grows

LEMMA OpenableStays ==
    ASSUME Grows, NEW f, NEW flags, Openable(f, flags)
    PROVE  Openable(f, flags)'
BY DEF Grows, Openable

LEMMA OpenFailsStays ==
    ASSUME Grows, NEW f, NEW flags, OpenFails(f, flags)
    PROVE  OpenFails(f, flags)'
BY DEF Grows, OpenFails

LEMMA OpenedWellStays ==
    ASSUME Grows, NEW c, OpenedWell(c)
    PROVE  OpenedWell(c)'
<1>1. Openable(c.filename, PrimaryFlags(c)) /\ Openable(c.filename, PrimaryFlags(c))'
  BY OpenableStays DEF OpenedWell
<1>2. files'[c.filename].flags = files[c.filename].flags
  BY <1>1 DEF Grows, Openable
<1>3. \A i \in DOMAIN c.secondaries : Openable(c.secondaries[i].filename, IndexFlags)'
  BY OpenableStays DEF OpenedWell
<1>4. QED BY <1>1, <1>2, <1>3 DEF OpenedWell

\* What a call has seen to stays so.
LEMMA CallOkStays ==
    ASSUME Grows, config' = config, NEW call, CallOk(call)
    PROVE  CallOk(call)'
<1>1. PICK c : c = Primary(config, call.db)
  OBVIOUS
<1>2. call.do = "open" => OpenedWell(c)'
  BY <1>1, OpenedWellStays DEF CallOk
<1>3. Primary(config', call.db) = c
  BY <1>1
<1>4. QED BY <1>2, <1>3 DEF CallOk

\* A request that cannot be served will not be when there are more files.
LEMMA ServedStays ==
    ASSUME Grows, config' = config, NEW r, NEW n, CanBeServed(r, n)'
    PROVE  CanBeServed(r, n)
<1>1. \A f, flags : ~OpenFails(f, flags)' => ~OpenFails(f, flags)
  BY OpenFailsStays
<1>2. \A c : ~HasDuplicates(c)' => ~HasDuplicates(c)
  BY DEF Grows, HasDuplicates
<1>3. QED BY <1>1, <1>2 DEF CanBeServed

\* Nor does it matter what is written into files.
LEMMA ServedSame ==
    ASSUME DOMAIN files' = DOMAIN files, \A f \in DOMAIN files : files'[f].flags = files[f].flags,
           config' = config, NEW r, NEW n
    PROVE  CanBeServed(r, n)' <=> CanBeServed(r, n)
<1>1. \A f, flags : OpenFails(f, flags)' <=> OpenFails(f, flags)
  BY DEF OpenFails
<1>2. \A c : HasDuplicates(c)' <=> HasDuplicates(c)
  BY DEF HasDuplicates
<1>3. QED BY <1>1, <1>2 DEF CanBeServed

-----------------------------------------------------------------------------
(* The constructor of Primary_database                                     *)

IndexFile(db, n) ==
    Primary(config, db).secondaries[IndexesOf(Primary(config, db))[n]].filename
Indexes(db) == DOMAIN IndexesOf(Primary(config, db))
OwnOpens(db) == ~OpenFails(Primary(config, db).filename, PrimaryFlags(Primary(config, db)))
GoesOn(db) == ~errors /\ OwnOpens(db)
OwnFile(db) == IF OwnOpens(db) THEN {Primary(config, db).filename} ELSE {}
IndexFiles(db) ==
    IF GoesOn(db) THEN {IndexFile(db, n) : n \in Indexes(db)} \ {NoName} ELSE {}
NewFiles(db) ==
    [f \in OwnFile(db) \cup IndexFiles(db) |->
        IF f \in OwnFile(db) THEN PrimaryFlags(Primary(config, db)) ELSE IndexFlags]
AllOpen(db) ==
    GoesOn(db) /\ \A n \in Indexes(db) : ~OpenFails(IndexFile(db, n), IndexFlags)
AttachedTo(db) ==
    IF AllOpen(db) THEN Attached(Primary(config, db), Created(NewFiles(db))) ELSE {}
IndexHandles(db) ==
    [n \in Indexes(db) |->
        [db |-> db, file |-> IndexFile(db, n), attached |-> n \in AttachedTo(db)]]
OwnHandle(db) ==
    [db |-> db, file |-> Primary(config, db).filename, attached |-> OwnOpens(db)]
NewHandles(db) == (IF GoesOn(db) THEN IndexHandles(db) ELSE <<>>) \o <<OwnHandle(db)>>

\* OpenPrimary, with names for its parts.
LEMMA OpenPrimaryParts ==
    ASSUME NEW db, OpenPrimary(db)
    PROVE  /\ files' = Created(NewFiles(db))
           /\ errors' = ~(AllOpen(db) /\ AttachedTo(db) = Indexes(db))
           /\ closes' = NewHandles(db) \o closes
BY DEF OpenPrimary, IndexFile, Indexes, OwnOpens, GoesOn, OwnFile, IndexFiles, NewFiles,
       AllOpen, AttachedTo, IndexHandles, OwnHandle, NewHandles

\* A database without a configuration has no file that could be opened.
LEMMA Configured ==
    ASSUME ConfigInv, pc # "down", NEW db, OwnOpens(db)
    PROVE  /\ db \in DOMAIN config /\ Primary(config, db) = config[db]
           /\ Ordered(config[db]) /\ SingleFiles(config)
           /\ Primary(config, db).filename # NoName
<1>1. Primary(config, db).filename # NoName
  BY DEF OwnOpens, OpenFails
<1>2. db \in DOMAIN config
  BY <1>1 DEF Primary, ValueOr, NoPrimary
<1>3. QED BY <1>1, <1>2, DocumentsAssumption DEF ConfigInv, Primary, ValueOr

LEMMA NewFilesTyped ==
    ASSUME NEW db
    PROVE  /\ NewFiles(db) \in [DOMAIN NewFiles(db) -> Flags]
           /\ NoName \notin DOMAIN NewFiles(db)
           /\ DOMAIN NewFiles(db) = OwnFile(db) \cup IndexFiles(db)
<1>1. PrimaryFlags(Primary(config, db)) \in Flags /\ IndexFlags \in Flags
  BY DEF PrimaryFlags, IndexFlags, Flags
<1>2. NoName \notin OwnFile(db) /\ NoName \notin IndexFiles(db)
  BY DEF OwnFile, IndexFiles, OwnOpens, OpenFails
<1>3. QED BY <1>1, <1>2 DEF NewFiles

LEMMA NewHandlesSequence ==
    ASSUME ConfigInv, pc # "down", NEW db
    PROVE  /\ IsSequence(NewHandles(db))
           /\ GoesOn(db) =>
                 /\ Indexes(db) = 1..(Len(NewHandles(db)) - 1) /\ Len(NewHandles(db)) >= 1
                 /\ \A n \in Indexes(db) : NewHandles(db)[n] = IndexHandles(db)[n]
           /\ ~GoesOn(db) => Len(NewHandles(db)) = 1
           /\ NewHandles(db)[Len(NewHandles(db))] = OwnHandle(db)
<1>1. IsSequence(<<OwnHandle(db)>>) /\ Len(<<OwnHandle(db)>>) = 1
      /\ <<OwnHandle(db)>>[1] = OwnHandle(db)
  BY DEF IsSequence
<1>2. CASE GoesOn(db)
  <2>1. IndexesOf(Primary(config, db)) \in Seq(DOMAIN Primary(config, db).secondaries)
    BY <1>2, Configured DEF GoesOn, Ordered
  <2> DEFINE k == Len(IndexesOf(Primary(config, db)))
  <2>2. Indexes(db) = 1..k /\ k \in Nat
    BY <2>1, LenProperties DEF Indexes
  <2>3. IsSequence(IndexHandles(db)) /\ Len(IndexHandles(db)) = k
    BY <2>2 DEF IsSequence, IndexHandles
  <2>4. NewHandles(db) = IndexHandles(db) \o <<OwnHandle(db)>>
    BY <1>2 DEF NewHandles
  <2> HIDE DEF k
  <2>5. /\ IsSequence(NewHandles(db)) /\ Len(NewHandles(db)) = k + 1
        /\ \A n \in 1..(k + 1) : NewHandles(db)[n] =
              IF n <= k THEN IndexHandles(db)[n] ELSE <<OwnHandle(db)>>[n - k]
    BY <1>1, <2>3, <2>4, JoinedSequence
  <2>6. NewHandles(db)[k + 1] = OwnHandle(db)
    BY <1>1, <2>2, <2>5
  <2>7. QED BY <1>2, <2>2, <2>5, <2>6
<1>3. CASE ~GoesOn(db)
  <2>1. NewHandles(db) = <<>> \o <<OwnHandle(db)>>
    BY <1>3 DEF NewHandles
  <2>2. IsSequence(NewHandles(db)) /\ Len(NewHandles(db)) = 1 /\ NewHandles(db)[1] = <<OwnHandle(db)>>[1]
    BY <1>1, <2>1, EmptySequence, JoinedSequence
  <2>3. QED BY <1>1, <1>3, <2>2
<1>4. QED BY <1>2, <1>3

\* Whatever the errors are: files are created, handles are put before those
\* there are, and an attached handle has its file.
LEMMA OpenPrimaryKeepsTypes ==
    ASSUME ConfigInv, pc # "down", FilesInv, NoName \notin DOMAIN files, NEW db,
           OpenPrimary(db), journal' = journal
    PROVE  /\ FilesInv' /\ Grows /\ NoName \notin DOMAIN files'
           /\ \A f \in DOMAIN files : files'[f] = files[f]
           /\ \A f \in DOMAIN files' \ DOMAIN files : files'[f].writes = {}
           /\ IsSequence(NewHandles(db)) /\ closes' = NewHandles(db) \o closes
           /\ \A n \in 1..Len(NewHandles(db)) :
                 NewHandles(db)[n].attached => NewHandles(db)[n].file \in DOMAIN files'
           /\ errors' \in BOOLEAN /\ (errors => errors')
<1>1. /\ FilesInv' /\ Grows /\ NoName \notin DOMAIN files'
      /\ DOMAIN files' = DOMAIN files \cup OwnFile(db) \cup IndexFiles(db)
      /\ \A f \in DOMAIN files : files'[f] = files[f]
      /\ \A f \in DOMAIN files' \ DOMAIN files : files'[f].writes = {}
  <2>1. files' = Created(NewFiles(db))
    BY OpenPrimaryParts
  <2>2. /\ NewFiles(db) \in [DOMAIN NewFiles(db) -> Flags] /\ NoName \notin DOMAIN NewFiles(db)
        /\ DOMAIN NewFiles(db) = OwnFile(db) \cup IndexFiles(db)
    BY NewFilesTyped
  <2>3. /\ FilesInv' /\ Grows /\ NoName \notin DOMAIN files'
        /\ DOMAIN files' = DOMAIN files \cup DOMAIN NewFiles(db)
        /\ \A f \in DOMAIN files : files'[f] = files[f]
        /\ \A f \in DOMAIN NewFiles(db) \ DOMAIN files :
              files'[f] = [flags |-> NewFiles(db)[f], writes |-> {}]
    BY <2>1, <2>2, CreatedFiles
  <2>4. \A f \in DOMAIN files' \ DOMAIN files : files'[f].writes = {}
    <3> TAKE f \in DOMAIN files' \ DOMAIN files
    <3>1. f \in DOMAIN NewFiles(db) \ DOMAIN files
      BY <2>3
    <3>2. files'[f] = [flags |-> NewFiles(db)[f], writes |-> {}]
      BY <2>3, <3>1
    <3>3. QED BY <3>2
  <2>5. QED BY <2>2, <2>3, <2>4
<1>2. IsSequence(NewHandles(db)) /\ closes' = NewHandles(db) \o closes
  BY NewHandlesSequence, OpenPrimaryParts
<1>3. \A n \in 1..Len(NewHandles(db)) :
          NewHandles(db)[n].attached => NewHandles(db)[n].file \in DOMAIN files'
  <2> TAKE n \in 1..Len(NewHandles(db))
  <2>1. CASE n = Len(NewHandles(db))
    <3>1. OwnHandle(db).attached => OwnHandle(db).file \in OwnFile(db)
      BY DEF OwnHandle, OwnFile
    <3>2. QED BY <1>1, <2>1, <3>1, NewHandlesSequence
  <2>2. CASE n # Len(NewHandles(db))
    <3>0. n \in 1..(Len(NewHandles(db)) - 1) /\ Len(NewHandles(db)) # 1
      <4>1. \A k \in Nat : \A m \in 1..k : m # k => m \in 1..(k - 1) /\ k # 1
        OBVIOUS
      <4>2. Len(NewHandles(db)) \in Nat /\ n \in 1..Len(NewHandles(db))
            /\ n # Len(NewHandles(db))
        BY <1>2, <2>2 DEF IsSequence
      <4>3. QED BY <4>1, <4>2, Zenon
    <3>1. GoesOn(db) /\ n \in Indexes(db) /\ NewHandles(db)[n] = IndexHandles(db)[n]
      <4>1. GoesOn(db)
        <5>1. ~GoesOn(db) => Len(NewHandles(db)) = 1
          BY NewHandlesSequence
        <5>2. QED BY <3>0, <5>1
      <4>2. /\ Indexes(db) = 1..(Len(NewHandles(db)) - 1)
            /\ \A m \in Indexes(db) : NewHandles(db)[m] = IndexHandles(db)[m]
        BY <4>1, NewHandlesSequence
      <4>3. QED BY <3>0, <4>1, <4>2
    <3>2. IndexHandles(db)[n].file = IndexFile(db, n)
          /\ (IndexHandles(db)[n].attached => n \in AttachedTo(db))
      BY <3>1 DEF IndexHandles
    <3>3. n \in AttachedTo(db) => IndexFile(db, n) # NoName
      BY <3>1 DEF AttachedTo, AllOpen, OpenFails
    <3>4. IndexFile(db, n) # NoName => IndexFile(db, n) \in IndexFiles(db)
      BY <3>1 DEF IndexFiles
    <3>5. QED BY <1>1, <3>1, <3>2, <3>3, <3>4
  <2>3. QED BY <2>1, <2>2
<1>4. errors' \in BOOLEAN /\ (errors => errors')
  <2>1. errors' = ~(AllOpen(db) /\ AttachedTo(db) = Indexes(db))
    BY OpenPrimaryParts
  <2>2. errors => ~AllOpen(db)
    BY DEF AllOpen, GoesOn
  <2>3. QED BY <2>1, <2>2
<1>5. QED BY <1>1, <1>2, <1>3, <1>4

\* The constructor has added no error: the database and all its indexes can be
\* opened from now on, and the handles of the indexes are before its own.
LEMMA OpenedPrimary ==
    ASSUME ConfigInv, pc # "down", FilesInv, NoName \notin DOMAIN files, NEW db,
           OpenPrimary(db), journal' = journal, config' = config, ~errors'
    PROVE  /\ db \in DOMAIN config /\ OpenedWell(config[db])'
           /\ \A n \in 1..Len(NewHandles(db)) :
                 /\ NewHandles(db)[n].attached /\ NewHandles(db)[n].db = db
                 /\ \/ NewHandles(db)[n].file = config[db].filename /\ n = Len(NewHandles(db))
                    \/ \E i \in DOMAIN config[db].secondaries :
                          NewHandles(db)[n].file = config[db].secondaries[i].filename
           /\ NewHandles(db)[Len(NewHandles(db))].file = config[db].filename
           /\ \A i \in DOMAIN config[db].secondaries :
                 \E n \in 1..Len(NewHandles(db)) :
                     NewHandles(db)[n].file = config[db].secondaries[i].filename
           /\ Len(NewHandles(db)) \in Nat \ {0}
<1>1. AllOpen(db) /\ AttachedTo(db) = Indexes(db) /\ GoesOn(db) /\ OwnOpens(db)
  BY OpenPrimaryParts DEF AllOpen, GoesOn
<1>0. PICK c : c = config[db]
  OBVIOUS
<1>2. /\ db \in DOMAIN config /\ Primary(config, db) = c
      /\ Ordered(c) /\ SingleFiles(config) /\ c.filename # NoName
  BY <1>0, <1>1, Configured
<1>3. \A n \in Indexes(db) : /\ IndexesOf(c)[n] \in DOMAIN c.secondaries
                             /\ IndexFile(db, n) = c.secondaries[IndexesOf(c)[n]].filename
  BY <1>2 DEF Ordered, Range, Indexes, IndexFile
<1>4. \A i \in DOMAIN c.secondaries : \E n \in Indexes(db) : IndexesOf(c)[n] = i
  BY <1>2 DEF Ordered, Range, Indexes
<1>5. /\ Indexes(db) = 1..(Len(NewHandles(db)) - 1) /\ Len(NewHandles(db)) \in Nat
      /\ Len(NewHandles(db)) >= 1
      /\ \A n \in Indexes(db) : NewHandles(db)[n] = IndexHandles(db)[n]
      /\ NewHandles(db)[Len(NewHandles(db))] = OwnHandle(db)
  BY <1>1, NewHandlesSequence DEF IsSequence
<1>6. \A n \in Indexes(db) :
          IndexHandles(db)[n] = [db |-> db, file |-> IndexFile(db, n), attached |-> n \in AttachedTo(db)]
  BY DEF IndexHandles
<1>7. OwnHandle(db).db = db /\ OwnHandle(db).file = c.filename /\ OwnHandle(db).attached
  BY <1>1, <1>2 DEF OwnHandle
<1>8. \A n \in Indexes(db) : /\ NewHandles(db)[n].db = db /\ NewHandles(db)[n].attached
                             /\ NewHandles(db)[n].file = IndexFile(db, n)
  <2> TAKE n \in Indexes(db)
  <2>1. n \in AttachedTo(db)
    BY <1>1
  <2>2. NewHandles(db)[n] =
            [db |-> db, file |-> IndexFile(db, n), attached |-> n \in AttachedTo(db)]
    BY <1>5, <1>6
  <2>3. NewHandles(db)[n].attached = (n \in AttachedTo(db))
    BY <2>2
  <2>4. NewHandles(db)[n].db = db /\ NewHandles(db)[n].file = IndexFile(db, n)
    BY <2>2
  <2>5. QED BY <2>1, <2>3, <2>4
<1>9. \A n \in 1..Len(NewHandles(db)) : n = Len(NewHandles(db)) \/ n \in Indexes(db)
  BY <1>5
<1>10. OpenedWell(c)'
  <2>1. /\ Grows /\ \A f \in DOMAIN files : files'[f] = files[f]
        /\ DOMAIN files' = DOMAIN files \cup OwnFile(db) \cup IndexFiles(db)
        /\ \A f \in (OwnFile(db) \cup IndexFiles(db)) \ DOMAIN files :
              files'[f] = [flags |-> NewFiles(db)[f], writes |-> {}]
    BY OpenPrimaryParts, NewFilesTyped, CreatedFiles
  <2>2. \A f \in (OwnFile(db) \cup IndexFiles(db)) \ DOMAIN files :
            files'[f].flags = IF f \in OwnFile(db) THEN PrimaryFlags(c) ELSE IndexFlags
    <3> TAKE f \in (OwnFile(db) \cup IndexFiles(db)) \ DOMAIN files
    <3>1. files'[f] = [flags |-> NewFiles(db)[f], writes |-> {}]
      BY <2>1
    <3>2. NewFiles(db)[f] = IF f \in OwnFile(db) THEN PrimaryFlags(c) ELSE IndexFlags
      BY <1>2 DEF NewFiles
    <3>3. QED BY <3>1, <3>2
  <2>3. OwnFile(db) = {c.filename}
    BY <1>1, <1>2 DEF OwnFile
  <2>4. Openable(c.filename, PrimaryFlags(c))'
    <3>1. CASE c.filename \in DOMAIN files
      <4>1. PrimaryFlags(c) \subseteq files[c.filename].flags
        BY <1>1, <1>2, <3>1 DEF OwnOpens, OpenFails
      <4>2. QED BY <1>2, <2>1, <3>1, <4>1 DEF Openable
    <3>2. CASE c.filename \notin DOMAIN files
      <4>1. c.filename \in DOMAIN files' /\ files'[c.filename].flags = PrimaryFlags(c)
        BY <2>1, <2>2, <2>3, <3>2
      <4>2. QED BY <1>2, <4>1 DEF Openable
    <3>3. QED BY <3>1, <3>2
  <2>5. ASSUME NEW n \in Indexes(db)
        PROVE  \A f : f = IndexFile(db, n) => Openable(f, IndexFlags)'
    <3> SUFFICES ASSUME NEW f, f = IndexFile(db, n)
                 PROVE  Openable(f, IndexFlags)'
      OBVIOUS
    <3>0. f = IndexFile(db, n)
      OBVIOUS
    <3>1. ~OpenFails(f, IndexFlags) /\ f # NoName
      BY <1>1, <3>0 DEF AllOpen, OpenFails
    <3>2. f # c.filename
      BY <1>0, <1>2, <1>3, <3>0 DEF SingleFiles
    <3>3. f \in IndexFiles(db)
      BY <1>1, <3>0, <3>1 DEF IndexFiles
    <3>4. CASE f \in DOMAIN files
      <4>1. IndexFlags \subseteq files[f].flags
        BY <3>1, <3>4 DEF OpenFails
      <4>2. f \in DOMAIN files' /\ IndexFlags \subseteq files'[f].flags
        BY <2>1, <3>4, <4>1
      <4>3. QED BY <3>1, <4>2 DEF Openable
    <3>5. CASE f \notin DOMAIN files
      <4>1. f \in DOMAIN files' /\ files'[f].flags = IndexFlags
        BY <2>1, <2>2, <2>3, <3>2, <3>3, <3>5
      <4>2. QED BY <3>1, <4>1 DEF Openable
    <3>6. QED BY <3>4, <3>5
  <2>6. ASSUME NEW i \in DOMAIN c.secondaries
        PROVE  /\ c.secondaries[i].key_extractor \in KeyExtractors
               /\ "DUP" \notin files'[c.filename].flags
    <3>1. PICK n \in Indexes(db) : IndexesOf(c)[n] = i
      BY <1>4
    <3>2. n \in Attached(c, Created(NewFiles(db)))
      BY <1>1, <1>2 DEF AttachedTo
    <3>3. n \in 1..n
      BY <1>5
    <3>4. QED BY <3>1, <3>2, <3>3, OpenPrimaryParts DEF Attached
  <2>7. \A i \in DOMAIN c.secondaries : Openable(c.secondaries[i].filename, IndexFlags)'
    <3> TAKE i \in DOMAIN c.secondaries
    <3>1. PICK n \in Indexes(db) : IndexesOf(c)[n] = i
      BY <1>4
    <3>2. QED BY <1>3, <2>5, <3>1
  <2>8. QED BY <2>4, <2>6, <2>7 DEF OpenedWell
<1>11. \A n \in 1..Len(NewHandles(db)) :
           /\ NewHandles(db)[n].attached /\ NewHandles(db)[n].db = db
           /\ \/ NewHandles(db)[n].file = c.filename /\ n = Len(NewHandles(db))
              \/ \E i \in DOMAIN c.secondaries :
                    NewHandles(db)[n].file = c.secondaries[i].filename
  <2> TAKE n \in 1..Len(NewHandles(db))
  <2>1. CASE n = Len(NewHandles(db))
    <3>1. NewHandles(db)[n] = OwnHandle(db)
      BY <1>5, <2>1
    <3>2. QED BY <1>7, <2>1, <3>1
  <2>2. CASE n \in Indexes(db)
    BY <1>3, <1>8, <2>2
  <2>3. QED BY <1>9, <2>1, <2>2
<1>12. \A i \in DOMAIN c.secondaries :
           \E n \in 1..Len(NewHandles(db)) :
               NewHandles(db)[n].file = c.secondaries[i].filename
  <2> TAKE i \in DOMAIN c.secondaries
  <2>1. PICK n \in Indexes(db) : IndexesOf(c)[n] = i
    BY <1>4
  <2>2. n \in 1..Len(NewHandles(db))
    BY <1>5
  <2>3. QED BY <1>3, <1>8, <2>1, <2>2
<1>13. NewHandles(db)[Len(NewHandles(db))].file = c.filename
  BY <1>5, <1>7
<1>14. Len(NewHandles(db)) \in Nat \ {0}
  BY <1>5
<1>15. QED BY <1>0, <1>2, <1>10, <1>11, <1>12, <1>13, <1>14

LEMMA RangeOfCalls ==
    ASSUME NEW r \in DOMAIN Handlers
    PROVE  Range(Handlers[r].calls) = CallsOf(Handlers[r])
BY HandlersWellMade, SequenceDomain DEF WellMade, Range, CallsOf

\* The constructor has added an error: no request that names this database can
\* be served with the files there are now.
LEMMA FailedPrimary ==
    ASSUME ConfigInv, pc # "down", FilesInv, NoName \notin DOMAIN files, NEW db,
           OpenPrimary(db), journal' = journal, config' = config, ~errors, errors',
           NEW r \in DOMAIN Handlers, NEW n,
           NEW call \in CallsOf(Handlers[r]), call.db = db
    PROVE  ~CanBeServed(r, n)'
<1> SUFFICES ASSUME CanBeServed(r, n)'
             PROVE  FALSE
  OBVIOUS
<1>1. Grows
  BY OpenPrimaryKeepsTypes
<1>2. PICK c : c = config[db]
  OBVIOUS
<1>3. db \in DOMAIN config /\ Primary(config, db) = c
  <2>1. db \in DOMAIN config
    BY RangeOfCalls DEF CanBeServed
  <2>2. QED BY <1>2, <2>1 DEF Primary, ValueOr
<1>4. /\ ~OpenFails(c.filename, PrimaryFlags(c))'
      /\ \A i \in DOMAIN c.secondaries :
            /\ ~OpenFails(c.secondaries[i].filename, IndexFlags)'
            /\ c.secondaries[i].key_extractor \in KeyExtractors
            /\ ~HasDuplicates(c)'
  BY <1>2, RangeOfCalls DEF CanBeServed
<1>5. OwnOpens(db) /\ GoesOn(db)
  BY <1>1, <1>3, <1>4, OpenFailsStays DEF OwnOpens, GoesOn
<1>6. Ordered(c)
  BY <1>2, <1>5, Configured
<1>7. /\ Indexes(db) = 1..Len(IndexesOf(c)) /\ Len(IndexesOf(c)) \in Nat
      /\ \A m \in Indexes(db) : /\ IndexesOf(c)[m] \in DOMAIN c.secondaries
                                /\ IndexFile(db, m) = c.secondaries[IndexesOf(c)[m]].filename
  BY <1>3, <1>6, LenProperties DEF Ordered, Range, Indexes, IndexFile
<1>8. AllOpen(db)
  BY <1>1, <1>4, <1>5, <1>7, OpenFailsStays DEF AllOpen
<1>9. AttachedTo(db) = Attached(c, files')
  BY <1>3, <1>8, OpenPrimaryParts DEF AttachedTo
<1>10. CASE Indexes(db) = {}
  <2>1. Attached(c, files') = {}
    BY <1>3, <1>10 DEF Attached, Indexes
  <2>2. QED BY <1>8, <1>9, <1>10, <2>1, OpenPrimaryParts
<1>11. CASE Indexes(db) # {}
  <2>1. c.filename \in DOMAIN files'
    <3>1. c.filename \in OwnFile(db)
      BY <1>3, <1>5 DEF OwnFile
    <3>2. c.filename \in DOMAIN NewFiles(db) /\ files' = Created(NewFiles(db))
      BY <3>1, OpenPrimaryParts, NewFilesTyped
    <3>3. QED BY <3>2 DEF Created
  <2>2. "DUP" \notin files'[c.filename].flags
    BY <1>4, <1>7, <1>11, <2>1 DEF HasDuplicates
  <2>3. Attached(c, files') =
            {m \in Indexes(db) : \A k \in 1..m :
                c.secondaries[IndexesOf(c)[k]].key_extractor \in KeyExtractors}
    BY <1>3, <2>2 DEF Attached, Indexes
  <2>4. \A m \in Indexes(db) : \A k \in 1..m : k \in Indexes(db)
    BY <1>7
  <2>5. \A m \in Indexes(db) : \A k \in 1..m :
            c.secondaries[IndexesOf(c)[k]].key_extractor \in KeyExtractors
    BY <1>4, <1>7, <2>4
  <2>6. QED BY <1>8, <1>9, <2>3, <2>5, OpenPrimaryParts
<1>12. QED BY <1>10, <1>11

-----------------------------------------------------------------------------
(* The constructor of Secondary_database                                   *)

LEMMA OpenSecondaryKeepsTypes ==
    ASSUME FilesInv, NoName \notin DOMAIN files, NEW db, NEW index,
           OpenSecondary(db, index), journal' = journal
    PROVE  /\ FilesInv' /\ Grows /\ NoName \notin DOMAIN files'
           /\ \A f \in DOMAIN files : files'[f] = files[f]
           /\ \A f \in DOMAIN files' \ DOMAIN files : files'[f].writes = {}
           /\ \E handle : /\ closes' = <<handle>> \o closes /\ ~handle.attached
           /\ errors' \in BOOLEAN /\ (errors => errors')
<1> DEFINE file == Secondary(config, db, index).filename
           ok   == ~OpenFails(file, IndexFlags)
           new  == [f \in IF ok THEN {file} ELSE {} |-> IndexFlags]
           h    == [db |-> db, file |-> file, attached |-> FALSE]
<1>1. /\ files' = Created(new) /\ errors' = (errors \/ ~ok)
      /\ closes' = <<h>> \o closes
  BY DEF OpenSecondary
<1>2. ~h.attached
  OBVIOUS
<1>3. new \in [DOMAIN new -> Flags] /\ NoName \notin DOMAIN new
  <2>1. IndexFlags \in Flags
    BY DEF IndexFlags, Flags
  <2>2. ok => file # NoName
    BY DEF OpenFails
  <2>3. QED BY <2>1, <2>2
<1> HIDE DEF new, h, ok
<1>4. /\ FilesInv' /\ Grows /\ NoName \notin DOMAIN files'
      /\ DOMAIN files' = DOMAIN files \cup DOMAIN new
      /\ \A f \in DOMAIN files : files'[f] = files[f]
      /\ \A f \in DOMAIN new \ DOMAIN files :
            files'[f] = [flags |-> new[f], writes |-> {}]
  BY <1>1, <1>3, CreatedFiles
<1>5. \A f \in DOMAIN files' \ DOMAIN files : files'[f].writes = {}
  <2> TAKE f \in DOMAIN files' \ DOMAIN files
  <2>1. files'[f] = [flags |-> new[f], writes |-> {}]
    BY <1>4
  <2>2. QED BY <2>1
<1>6. errors' \in BOOLEAN /\ (errors => errors')
  BY <1>1
<1>7. QED BY <1>1, <1>2, <1>4, <1>5, <1>6

LEMMA FailedSecondary ==
    ASSUME FilesInv, NoName \notin DOMAIN files, NEW db, NEW index,
           OpenSecondary(db, index), journal' = journal, config' = config,
           ~errors, errors', NEW r \in DOMAIN Handlers, NEW n,
           NEW call \in CallsOf(Handlers[r]),
           call.db = db, call.index = index, call.do = "open index"
    PROVE  ~CanBeServed(r, n)'
<1> SUFFICES ASSUME CanBeServed(r, n)'
             PROVE  FALSE
  OBVIOUS
<1>1. Grows
  BY OpenSecondaryKeepsTypes
<1>2. PICK c : c = config[db]
  OBVIOUS
<1>3. db \in DOMAIN config /\ HasIndex(config, db, index)
  BY RangeOfCalls DEF CanBeServed
<1>4. Primary(config, db) = c /\ index \in DOMAIN c.secondaries
  BY <1>2, <1>3 DEF Primary, ValueOr, HasIndex
<1>5. Secondary(config, db, index) = c.secondaries[index]
  BY <1>4 DEF Secondary, ValueOr
<1>6. ~OpenFails(c.secondaries[index].filename, IndexFlags)'
  BY <1>2, <1>4, RangeOfCalls DEF CanBeServed
<1>7. ~OpenFails(Secondary(config, db, index).filename, IndexFlags)
  BY <1>1, <1>5, <1>6, OpenFailsStays
<1>8. errors' = (errors \/ OpenFails(Secondary(config, db, index).filename, IndexFlags))
  BY DEF OpenSecondary
<1>9. QED BY <1>7, <1>8

-----------------------------------------------------------------------------
(* Handles                                                                 *)

\* Handles are put in front of others: what was behind another still is.
LEMMA GuardedByFront ==
    ASSUME NEW front, IsSequence(front), NEW back, IsSequence(back), NEW db, NEW a, NEW b,
           GuardedBy(front, db, a, b), GuardedBy(back, db, a, b)
    PROVE  GuardedBy(front \o back, db, a, b)
<1> DEFINE s == front \o back
<1>1. /\ Len(s) = Len(front) + Len(back) /\ Len(front) \in Nat /\ Len(back) \in Nat
      /\ \A n \in 1..(Len(front) + Len(back)) :
            s[n] = IF n <= Len(front) THEN front[n] ELSE back[n - Len(front)]
  BY JoinedSequence, SequenceDomain
<1> HIDE DEF s
<1> SUFFICES ASSUME NEW n \in 1..Len(s), s[n].attached, s[n].file = b
             PROVE  \E m \in 1..n : s[m].attached /\ s[m].file = a /\ s[m].db = db
  BY DEF GuardedBy, s
<1>2. CASE n <= Len(front)
  <2>1. s[n] = front[n] /\ n \in 1..Len(front)
    BY <1>1, <1>2
  <2>2. PICK m \in 1..n : front[m].attached /\ front[m].file = a /\ front[m].db = db
    BY <2>1 DEF GuardedBy
  <2>3. s[m] = front[m]
    BY <1>1, <1>2
  <2>4. QED BY <2>2, <2>3
<1>3. CASE n > Len(front)
  <2>1. s[n] = back[n - Len(front)] /\ n - Len(front) \in 1..Len(back)
    BY <1>1, <1>3
  <2>2. PICK m \in 1..(n - Len(front)) :
            back[m].attached /\ back[m].file = a /\ back[m].db = db
    BY <2>1 DEF GuardedBy
  <2>3. m + Len(front) \in 1..n /\ s[m + Len(front)] = back[m]
    BY <1>1, <1>3
  <2>4. QED BY <2>2, <2>3
<1>4. QED BY <1>1, <1>2, <1>3

\* The last handle in front is one of file a, and no earlier one is of file b.
LEMMA GuardedByLast ==
    ASSUME NEW front, IsSequence(front), NEW back, IsSequence(back), NEW db, NEW a, NEW b,
           Len(front) >= 1, front[Len(front)].attached, front[Len(front)].file = a,
           front[Len(front)].db = db,
           \A n \in 1..(Len(front) - 1) : front[n].file # b
    PROVE  GuardedBy(front \o back, db, a, b)
<1> DEFINE s == front \o back
<1>1. /\ Len(s) = Len(front) + Len(back) /\ Len(front) \in Nat /\ Len(back) \in Nat
      /\ \A n \in 1..(Len(front) + Len(back)) :
            s[n] = IF n <= Len(front) THEN front[n] ELSE back[n - Len(front)]
  BY JoinedSequence, SequenceDomain
<1> HIDE DEF s
<1> SUFFICES ASSUME NEW n \in 1..Len(s), s[n].attached, s[n].file = b
             PROVE  \E m \in 1..n : s[m].attached /\ s[m].file = a /\ s[m].db = db
  BY DEF GuardedBy, s
<1>2. s[Len(front)] = front[Len(front)]
  BY <1>1
<1>3. n >= Len(front)
  <2>1. n < Len(front) => n \in 1..(Len(front) - 1) /\ s[n] = front[n]
    BY <1>1
  <2>2. QED BY <1>1, <2>1
<1>4. Len(front) \in 1..n
  BY <1>1, <1>3
<1>5. QED BY <1>2, <1>4

\* The first handle is closed: what it guarded is closed, or has another guard.
LEMMA GuardedTail ==
    ASSUME NEW s, IsSequence(s), s # <<>>, NEW a, NEW b, Guarded(s, a, b),
           ~(Head(s).attached /\ Head(s).file = a)
    PROVE  Guarded(Tail(s), a, b)
<1>1. /\ Len(s) \in Nat /\ Len(Tail(s)) = Len(s) - 1 /\ Len(s) >= 1 /\ Head(s) = s[1]
      /\ \A n \in 1..(Len(s) - 1) : Tail(s)[n] = s[n + 1]
  BY TailSequence, SequenceDomain
<1> SUFFICES ASSUME NEW n \in 1..Len(Tail(s)), Tail(s)[n].attached, Tail(s)[n].file = b
             PROVE  \E m \in 1..n : Tail(s)[m].attached /\ Tail(s)[m].file = a
  BY DEF Guarded
<1>2. n + 1 \in 1..Len(s) /\ s[n + 1] = Tail(s)[n]
  BY <1>1
<1>3. PICK m \in 1..(n + 1) : s[m].attached /\ s[m].file = a
  BY <1>2 DEF Guarded
<1>4. m # 1
  BY <1>1, <1>3
<1>5. m - 1 \in 1..n /\ Tail(s)[m - 1] = s[m]
  BY <1>1, <1>4
<1>6. QED BY <1>3, <1>5

LEMMA GuardedByGuarded ==
    ASSUME NEW s, NEW db, NEW a, NEW b, GuardedBy(s, db, a, b)
    PROVE  Guarded(s, a, b)
BY DEF GuardedBy, Guarded

-----------------------------------------------------------------------------
(* What bdb_databases.json says                                            *)

\* Induction over the naturals: a set has them all.
LEMMA NatInd ==
    ASSUME NEW S, 0 \in S, \A n \in Nat : n \in S => n + 1 \in S
    PROVE  Nat \subseteq S
<1> DEFINE R == OpToRel(<, Nat)
          T == Nat \ S
<1> SUFFICES ASSUME T # {} PROVE FALSE
  OBVIOUS
<1>1. IsWellFoundedOn(R, Nat)
  BY NatLessThanWellFounded
<1>2. PICK x \in T : \A y \in T : ~(<<y, x>> \in R)
  <2> HIDE DEF R
  <2> QED BY <1>1, WFMin
<1>3. x - 1 \in Nat /\ x - 1 \notin T
  <2>1. x \in Nat /\ x # 0
    OBVIOUS
  <2>2. x - 1 \in Nat /\ x - 1 < x
    BY <2>1
  <2>3. <<x - 1, x>> \in R
    BY <2>1, <2>2 DEF OpToRel
  <2>4. QED BY <2>2, <2>3, <1>2
<1>4. QED BY <1>3

\* Induction over the subsets of a finite set.
LEMMA SetInd ==
    ASSUME NEW S, IsFiniteSet(S), NEW F,
           \A T \in SUBSET S : (\A U \in SUBSET T : U # T => U \in F) => T \in F
    PROVE  S \in F
<1> DEFINE R == StrictSubsetOrdering(S)
          B == (SUBSET S) \ F
<1> SUFFICES ASSUME S \notin F PROVE FALSE
  OBVIOUS
<1>1. IsWellFoundedOn(R, FiniteSubsetsOf(S)) /\ FiniteSubsetsOf(S) = SUBSET S
  BY FS_StrictSubsetOrderingWellFounded, FS_FiniteSubsetsOfFinite
<1>2. PICK x \in B : \A y \in B : ~(<<y, x>> \in R)
  <2>1. B # {} /\ B \subseteq SUBSET S
    OBVIOUS
  <2> HIDE DEF R, B
  <2> QED BY <1>1, <2>1, WFMin
<1>3. \A U \in SUBSET x : U # x => U \in F
  BY <1>2 DEF StrictSubsetOrdering
<1>4. QED BY <1>2, <1>3

\* A finite set of naturals that is not empty has a maximum.
LEMMA MaxReached ==
    ASSUME NEW n \in Nat, NEW s \in SUBSET (1..n), s # {}
    PROVE  \E x \in s : \A y \in s : x >= y
<1> DEFINE F == {k \in Nat : s \cap (0..k) # {} =>
                      \E x \in s \cap (0..k) : \A y \in s \cap (0..k) : x >= y}
<1>1. 0 \in F
  OBVIOUS
<1>2. ASSUME NEW k \in Nat, k \in F PROVE k + 1 \in F
  <2>1. CASE k + 1 \in s
    <3>1. \A y \in s \cap (0..(k + 1)) : k + 1 >= y
      OBVIOUS
    <3>2. QED BY <2>1, <3>1
  <2>2. CASE k + 1 \notin s
    <3>1. s \cap (0..(k + 1)) = s \cap (0..k)
      BY <2>2
    <3>2. QED BY <1>2, <3>1
  <2>3. QED BY <2>1, <2>2
<1>3. n \in F
  <2> HIDE DEF F
  <2> QED BY <1>1, <1>2, NatInd
<1>4. s \cap (0..n) = s
  <2>1. \A m \in 1..n : m \in 0..n
    OBVIOUS
  <2>2. QED BY <2>1
<1>5. QED BY <1>3, <1>4

LEMMA MaxIs ==
    ASSUME NEW n \in Nat, NEW s \in SUBSET (1..n), s # {}
    PROVE  /\ Max(s) \in s /\ \A y \in s : y <= Max(s)
           /\ \A x \in s : (\A y \in s : y <= x) => x = Max(s)
<1>1. \E x \in s : \A y \in s : x >= y
  BY MaxReached
<1>2. Max(s) \in s /\ \A y \in s : Max(s) >= y
  BY <1>1 DEF Max
<1> DEFINE m == Max(s)
<1>0. m \in s /\ (\A y \in s : m >= y) /\ \A y \in s : y \in Nat
  <2>1. \A y \in 1..n : y \in Nat
    OBVIOUS
  <2>2. QED BY <1>2, <2>1
<1>3. ASSUME NEW x \in s, \A y \in s : y <= x PROVE x = m
  <2>1. x \in Nat /\ m \in Nat /\ m \in s /\ m >= x
    <3> HIDE DEF m
    <3> QED BY <1>0
  <2> HIDE DEF m
  <2>2. QED BY <1>3, <2>1
<1>4. \A y \in s : y <= m
  <2>1. \A y \in s : y \in Nat /\ m \in Nat /\ m >= y
    <3> HIDE DEF m
    <3> QED BY <1>0
  <2> HIDE DEF m
  <2>2. QED BY <2>1
<1>5. QED BY <1>2, <1>3, <1>4

\* The loop over the entries of an array, as a fold over the sets of their
\* places: entry k is well-formed if k is in good, and says that the name
\* names[k] has the value values[k].
Turned(read, k, good, names, values) ==
    IF read.ok /\ k \in good THEN Added(read, names[k], values[k]) ELSE Error(read)
Gathers(f, n, good, names, values) ==
    /\ f[{}] = Nothing
    /\ \A s \in SUBSET (1..n) : s # {} =>
          f[s] = Turned(f[s \ {Max(s)}], Max(s), good, names, values)

\* What has been read, as a record.
Read(ok, map) == [ok |-> ok, map |-> map]

\* What the loop has read of the entries at s, up to the first ill-formed one.
Upto(s, good) == {k \in s : \A m \in s : m <= k => m \in good}
LastIn(s, names, name) == Max({k \in s : names[k] = name})
MapOf(s, names, values) ==
    [name \in {names[k] : k \in s} |-> values[LastIn(s, names, name)]]
Reading(s, good, names, values) ==
    Read(s \subseteq good, MapOf(Upto(s, good), names, values))

\* map[name] = value.
With(map, name, value) ==
    [key \in {name} \cup DOMAIN map |-> IF key = name THEN value ELSE map[key]]

LEMMA ReadChanged ==
    ASSUME NEW ok, NEW map, NEW x
    PROVE  /\ [Read(ok, map) EXCEPT !.ok = x] = Read(x, map)
           /\ [Read(ok, map) EXCEPT !.map = x] = Read(ok, x)
           /\ Read(ok, map).ok = ok /\ Read(ok, map).map = map
BY DEF Read

LEMMA AddedIs ==
    ASSUME NEW ok, NEW map, NEW name, NEW value
    PROVE  Added(Read(ok, map), name, value) = Read(ok, With(map, name, value))
BY ReadChanged DEF Added, With

LEMMA ErrorIs ==
    ASSUME NEW ok, NEW map
    PROVE  Error(Read(ok, map)) = Read(FALSE, map)
<1>1. PICK no : no = FALSE
  OBVIOUS
<1>2. [Read(ok, map) EXCEPT !.ok = no] = Read(no, map)
  BY ReadChanged
<1>3. Error(Read(ok, map)) = [Read(ok, map) EXCEPT !.ok = no]
  BY <1>1, Zenon DEF Error
<1>4. QED BY <1>1, <1>2, <1>3, Zenon

\* A well-formed entry takes the place of those of its name before it.
LEMMA OneMore ==
    ASSUME NEW n \in Nat, NEW s \in SUBSET (1..n), s # {}, NEW names, NEW values
    PROVE  MapOf(s, names, values) =
              With(MapOf(s \ {Max(s)}, names, values), names[Max(s)], values[Max(s)])
<1> DEFINE k == Max(s)
           r == s \ {k}
           D == {names[j] : j \in s}
<1>1. k \in s /\ \A j \in s : j <= k
  BY MaxIs
<1> HIDE DEF k
<1>2. D = {names[k]} \cup {names[j] : j \in r}
  BY <1>1
<1>3. LastIn(s, names, names[k]) = k
  <2> DEFINE t == {j \in s : names[j] = names[k]}
  <2>1. t \in SUBSET (1..n) /\ k \in t /\ \A j \in t : j <= k
    BY <1>1
  <2> HIDE DEF t
  <2>2. Max(t) = k
    BY <2>1, MaxIs
  <2>3. QED BY <2>2 DEF LastIn, t
<1>4. ASSUME NEW name, name # names[k]
      PROVE  LastIn(s, names, name) = LastIn(r, names, name)
  <2>1. {j \in s : names[j] = name} = {j \in r : names[j] = name}
    BY <1>4
  <2>2. QED BY <2>1 DEF LastIn
<1> DEFINE M == MapOf(r, names, values)
<1>5. DOMAIN M = {names[j] : j \in r} /\ \A name \in DOMAIN M : M[name] = values[LastIn(r, names, name)]
  BY DEF MapOf
<1>6. With(M, names[k], values[k]) =
          [name \in {names[k]} \cup {names[j] : j \in r} |->
              IF name = names[k] THEN values[k] ELSE M[name]]
  <2> HIDE DEF M, r
  <2> QED BY <1>5 DEF With
<1>7. ASSUME NEW name \in D
      PROVE  values[LastIn(s, names, name)] = IF name = names[k] THEN values[k] ELSE M[name]
  <2> HIDE DEF M, r
  <2> QED BY <1>2, <1>3, <1>4, <1>5
<1>8. MapOf(s, names, values) = [name \in D |-> IF name = names[k] THEN values[k] ELSE M[name]]
  <2> HIDE DEF M, r
  <2> QED BY <1>7 DEF MapOf
<1>9. QED BY <1>2, <1>6, <1>8 DEF k

\* One turn of the loop.
LEMMA Turn ==
    ASSUME NEW n \in Nat, NEW s \in SUBSET (1..n), s # {}, NEW good, NEW names, NEW values
    PROVE  Reading(s, good, names, values) =
              Turned(Reading(s \ {Max(s)}, good, names, values), Max(s), good, names, values)
<1> DEFINE k == Max(s)
           r == s \ {k}
           read == Reading(r, good, names, values)
           ok == r \subseteq good
           map == MapOf(Upto(r, good), names, values)
<1>1. k \in s /\ \A j \in s : j <= k /\ j \in 1..n
  BY MaxIs
<1>2. k \in Nat /\ \A j \in s : j \in Nat
  <2>1. \A j \in 1..n : j \in Nat
    OBVIOUS
  <2> HIDE DEF k
  <2>2. QED BY <1>1, <2>1
<1>3. ASSUME NEW j \in r PROVE ~(k <= j) /\ j \in s
  <2>1. j \in Nat /\ k \in Nat /\ j <= k /\ j # k
    BY <1>1, <1>2
  <2> HIDE DEF k
  <2>2. QED BY <2>1
<1>4. read = Read(ok, map) /\ read.ok = ok
  BY ReadChanged, Zenon DEF Reading
<1>5. CASE ok /\ k \in good
  <2>1. Upto(s, good) = s /\ Upto(r, good) = r /\ s \subseteq good
    BY <1>5 DEF Upto
  <2>2. MapOf(s, names, values) = With(map, names[k], values[k])
    BY <2>1, OneMore
  <2>3. Added(read, names[k], values[k]) = Read(ok, With(map, names[k], values[k]))
    <3> DEFINE name == names[k]
               value == values[k]
    <3>1. PICK o : o = ok
      OBVIOUS
    <3> HIDE DEF k, map, ok, read, name, value
    <3>2. read = Read(o, map)
      BY <1>4, <3>1, Zenon
    <3>3. Added(Read(o, map), name, value) = Read(o, With(map, name, value))
      BY AddedIs
    <3>4. Added(read, name, value) = Read(ok, With(map, name, value))
      BY <3>1, <3>2, <3>3, Zenon
    <3>5. QED BY <3>4, Zenon DEF name, value
  <2>4. Turned(read, k, good, names, values) = Added(read, names[k], values[k])
    <3> HIDE DEF k, map, ok, read
    <3> QED BY <1>4, <1>5, Zenon DEF Turned
  <2>5. Reading(s, good, names, values) = Read(s \subseteq good, MapOf(s, names, values))
    BY <2>1, Zenon DEF Reading
  <2>6. (s \subseteq good) = ok
    BY <1>5, <2>1
  <2>7. QED
    <3> HIDE DEF map, ok
    <3> QED BY <2>2, <2>3, <2>4, <2>5, <2>6, Zenon
<1>6. CASE ~(ok /\ k \in good)
  <2>1. Upto(s, good) = Upto(r, good)
    <3>1. k \notin Upto(s, good)
      BY <1>1, <1>6 DEF Upto
    <3>2. ASSUME NEW j \in r PROVE j \in Upto(s, good) <=> j \in Upto(r, good)
      <4>1. ~(k <= j) /\ \A m \in s : m # k => m \in r
        BY <1>3
      <4> HIDE DEF k
      <4>2. QED BY <4>1, <3>2 DEF Upto
    <3>3. QED BY <3>1, <3>2 DEF Upto
  <2>2. (s \subseteq good) = FALSE
    BY <1>1, <1>6
  <2>3. Turned(read, k, good, names, values) = Error(read)
    <3> HIDE DEF k, map, ok, read
    <3> QED BY <1>4, <1>6, Zenon DEF Turned
  <2>4. Error(read) = Read(FALSE, map)
    <3> HIDE DEF map, ok, read
    <3> QED BY <1>4, ErrorIs, Zenon
  <2>5. QED BY <2>1, <2>2, <2>3, <2>4, Zenon DEF Reading
<1>7. QED BY <1>5, <1>6, Zenon

\* The loop has one outcome.
LEMMA GatheredIs ==
    ASSUME NEW n \in Nat, NEW good, NEW names, NEW values
    PROVE  /\ Gathers([s \in SUBSET (1..n) |-> Reading(s, good, names, values)],
                      n, good, names, values)
           /\ \A f : Gathers(f, n, good, names, values) =>
                 f[1..n] = Reading(1..n, good, names, values)
<1> DEFINE W == [s \in SUBSET (1..n) |-> Reading(s, good, names, values)]
<1>1. Reading({}, good, names, values) = Nothing
  <2>1. Upto({}, good) = {}
    BY DEF Upto
  <2>2. MapOf({}, names, values) = <<>>
    BY DEF MapOf
  <2>3. ({} \subseteq good) = TRUE
    OBVIOUS
  <2>4. QED BY <2>1, <2>2, <2>3, Zenon DEF Reading, Nothing, Read
<1>2. Gathers(W, n, good, names, values)
  <2>1. ASSUME NEW s \in SUBSET (1..n), s # {}
        PROVE  W[s] = Turned(W[s \ {Max(s)}], Max(s), good, names, values)
    <3>1. /\ W[s] = Reading(s, good, names, values)
          /\ W[s \ {Max(s)}] = Reading(s \ {Max(s)}, good, names, values)
      OBVIOUS
    <3> HIDE DEF W
    <3>2. Reading(s, good, names, values) =
             Turned(Reading(s \ {Max(s)}, good, names, values), Max(s), good, names, values)
      BY <2>1, Turn
    <3>3. QED BY <3>1, <3>2, Zenon
  <2> HIDE DEF W
  <2>2. W[{}] = Nothing
    BY <1>1 DEF W
  <2>3. QED BY <2>1, <2>2 DEF Gathers
<1>3. ASSUME NEW f, Gathers(f, n, good, names, values)
      PROVE  f[1..n] = Reading(1..n, good, names, values)
  <2> DEFINE F == {s \in SUBSET (1..n) : f[s] = Reading(s, good, names, values)}
  <2>1. ASSUME NEW s \in SUBSET (1..n), \A t \in SUBSET s : t # s => t \in F
        PROVE  s \in F
    <3>1. CASE s = {}
      BY <1>1, <1>3, <3>1 DEF Gathers
    <3>2. CASE s # {}
      <4>1. Max(s) \in s
        BY <3>2, MaxIs
      <4>2. f[s \ {Max(s)}] = Reading(s \ {Max(s)}, good, names, values)
        BY <2>1, <4>1
      <4>3. f[s] = Turned(f[s \ {Max(s)}], Max(s), good, names, values)
        BY <1>3, <3>2 DEF Gathers
      <4>4. QED BY <3>2, <4>2, <4>3, Turn
    <3>3. QED BY <3>1, <3>2
  <2>2. IsFiniteSet(1..n)
    BY FS_Interval
  <2> HIDE DEF F
  <2>3. 1..n \in F
    <3> DEFINE T == 1..n
    <3> HIDE DEF T
    <3>1. /\ IsFiniteSet(T)
          /\ \A s \in SUBSET T : (\A t \in SUBSET s : t # s => t \in F) => s \in F
      BY <2>1, <2>2 DEF T
    <3>2. T \in F
      BY <3>1, SetInd
    <3>3. QED BY <3>2 DEF T
  <2>4. QED BY <2>3 DEF F
<1>4. QED BY <1>2, <1>3

\* Everything that was read without an error, and the last entry of a name.
LEMMA AllRead ==
    ASSUME NEW n \in Nat, NEW q, DOMAIN q = 1..n, NEW good, NEW values, NEW names,
           \A k \in 1..n : names[k] = q[k].name,
           NEW read, read = Reading(1..n, good, names, values), read.ok
    PROVE  /\ 1..n \subseteq good
           /\ DOMAIN read.map = NamesIn(q)
           /\ \A name \in NamesIn(q) : \E k \in 1..n :
                 LastOf(q, name) = q[k] /\ read.map[name] = values[k]
<1>1. 1..n \subseteq good
  BY ReadChanged DEF Reading
<1>2. Upto(1..n, good) = 1..n
  BY <1>1 DEF Upto
<1>3. read.map = MapOf(1..n, names, values)
  <2>1. PICK o : o = (1..n \subseteq good)
    OBVIOUS
  <2>2. read = Read(o, MapOf(1..n, names, values))
    BY <1>2, <2>1, Zenon DEF Reading
  <2>3. QED BY <2>2, ReadChanged
<1>4. {names[k] : k \in 1..n} = NamesIn(q)
  BY DEF NamesIn
<1>5. ASSUME NEW name \in NamesIn(q)
      PROVE  LET k == LastIn(1..n, names, name) IN k \in 1..n /\ LastOf(q, name) = q[k]
  <2> DEFINE t == {k \in 1..n : names[k] = name}
             last == LastIn(1..n, names, name)
             Is(k) == k \in 1..n /\ q[k].name = name /\ \A m \in 1..n : q[m].name = name => m <= k
  <2>1. t \in SUBSET (1..n) /\ t # {}
    BY <1>4
  <2>2. last = Max(t)
    BY DEF LastIn
  <2>3. last \in t /\ \A m \in t : m <= last
    <3> HIDE DEF t, last
    <3> QED BY <2>1, <2>2, MaxIs
  <2>4. Is(last)
    BY <2>3
  <2>5. \A k : Is(k) => k = last
    <3> HIDE DEF last
    <3>1. ASSUME NEW k, Is(k) PROVE k = last
      <4>1. k \in Nat /\ last \in Nat /\ k <= last /\ last <= k
        BY <2>4, <3>1
      <4>2. QED BY <4>1
    <3>2. QED BY <3>1
  <2>6. LastOf(q, name) = q[CHOOSE k : Is(k)]
    BY Zenon DEF LastOf
  <2> HIDE DEF Is, last
  <2>7. (CHOOSE k : Is(k)) = last
    BY <2>4, <2>5
  <2>8. QED BY <2>3, <2>6, <2>7 DEF last
<1>6. QED BY <1>1, <1>3, <1>4, <1>5 DEF MapOf

\* The indexes of an entry, as they are read.
IndexesAt(q) == {k \in DOMAIN q : SecondaryOk(q[k])}
NamesAt(q) == [k \in DOMAIN q |-> q[k].name]
IndexValues(q) ==
    [k \in DOMAIN q |-> [filename |-> q[k].filename, key_extractor |-> q[k].key_extractor]]
ReadIndexes(q) == FoldLeft(AddSecondary, Nothing, q)

LEMMA IndexesAre ==
    ASSUME NEW n \in Nat, NEW q, DOMAIN q = 1..n
    PROVE  ReadIndexes(q) = Reading(1..n, IndexesAt(q), NamesAt(q), IndexValues(q))
<1> DEFINE Fold(f) == f = [s \in SUBSET (1..n) |-> IF s = {} THEN Nothing
                                ELSE AddSecondary(f[s \ {Max(s)}], q[Max(s)])]
           G(f) == Gathers(f, n, IndexesAt(q), NamesAt(q), IndexValues(q))
<1>1. ASSUME NEW s \in SUBSET (1..n), s # {}, NEW read
      PROVE  AddSecondary(read, q[Max(s)]) =
                Turned(read, Max(s), IndexesAt(q), NamesAt(q), IndexValues(q))
  <2> DEFINE k == Max(s)
  <2>1. k \in 1..n
    BY <1>1, MaxIs
  <2> HIDE DEF k
  <2>2. k \in IndexesAt(q) <=> SecondaryOk(q[k])
    BY <2>1 DEF IndexesAt
  <2>3. NamesAt(q)[k] = q[k].name
    BY <2>1 DEF NamesAt
  <2>4. IndexValues(q)[k] = [filename |-> q[k].filename, key_extractor |-> q[k].key_extractor]
    BY <2>1 DEF IndexValues
  <2>5. AddSecondary(read, q[k]) = Turned(read, k, IndexesAt(q), NamesAt(q), IndexValues(q))
    BY <2>2, <2>3, <2>4, Zenon DEF AddSecondary, Turned
  <2>6. QED BY <2>5 DEF k
<1>2. \A f : Fold(f) => G(f)
  <2> SUFFICES ASSUME NEW f, Fold(f) PROVE G(f)
    OBVIOUS
  <2>1. f[{}] = Nothing
    OBVIOUS
  <2>2. \A s \in SUBSET (1..n) : s # {} => f[s] = AddSecondary(f[s \ {Max(s)}], q[Max(s)])
    OBVIOUS
  <2> HIDE DEF Fold
  <2>3. QED BY <1>1, <2>1, <2>2 DEF Gathers
<1>3. \E f : Fold(f)
  <2> DEFINE W == [s \in SUBSET (1..n) |->
                      Reading(s, IndexesAt(q), NamesAt(q), IndexValues(q))]
  <2>1. G(W)
    BY GatheredIs
  <2>2. \A s \in SUBSET (1..n) : W[s] = IF s = {} THEN Nothing
                                       ELSE AddSecondary(W[s \ {Max(s)}], q[Max(s)])
    <3> HIDE DEF W
    <3> QED BY <1>1, <2>1 DEF Gathers
  <2>3. Fold(W)
    BY <2>2
  <2> HIDE DEF W, Fold
  <2>4. QED BY <2>3
<1>4. ReadIndexes(q) = (CHOOSE f : Fold(f))[1..n]
  BY Zenon DEF ReadIndexes, FoldLeft, MapThenFoldSet
<1>5. PICK f : Fold(f) /\ ReadIndexes(q) = f[1..n]
  <2> HIDE DEF Fold
  <2> QED BY <1>3, <1>4
<1>6. G(f)
  <2> HIDE DEF Fold, G
  <2> QED BY <1>2, <1>5
<1>7. f[1..n] = Reading(1..n, IndexesAt(q), NamesAt(q), IndexValues(q))
  <2>1. Gathers(f, n, IndexesAt(q), NamesAt(q), IndexValues(q))
    BY <1>6
  <2> HIDE DEF Fold
  <2>2. QED BY <2>1, GatheredIs
<1>8. QED BY <1>5, <1>7

\* The databases of a document, as they are read.
PrimariesAt(q) == {k \in DOMAIN q : PrimaryOk(q[k]) /\ SecondariesFromJson(q[k]).ok}
PrimaryValues(q) ==
    [k \in DOMAIN q |-> [filename       |-> q[k].filename,
                         has_duplicates |-> ValueOr(q[k], "has_duplicates", "") = "true",
                         secondaries    |-> SecondariesFromJson(q[k]).map]]
ReadPrimaries(q) == FoldLeft(AddPrimary, Nothing, q)

LEMMA PrimariesAre ==
    ASSUME NEW n \in Nat, NEW q, DOMAIN q = 1..n
    PROVE  ReadPrimaries(q) = Reading(1..n, PrimariesAt(q), NamesAt(q), PrimaryValues(q))
<1> DEFINE Fold(f) == f = [s \in SUBSET (1..n) |-> IF s = {} THEN Nothing
                                ELSE AddPrimary(f[s \ {Max(s)}], q[Max(s)])]
           G(f) == Gathers(f, n, PrimariesAt(q), NamesAt(q), PrimaryValues(q))
<1>1. ASSUME NEW s \in SUBSET (1..n), s # {}, NEW read
      PROVE  AddPrimary(read, q[Max(s)]) =
                Turned(read, Max(s), PrimariesAt(q), NamesAt(q), PrimaryValues(q))
  <2> DEFINE k == Max(s)
             value == [filename       |-> q[k].filename,
                       has_duplicates |-> ValueOr(q[k], "has_duplicates", "") = "true",
                       secondaries    |-> SecondariesFromJson(q[k]).map]
  <2>1. k \in 1..n
    BY <1>1, MaxIs
  <2> HIDE DEF k
  <2>2. k \in PrimariesAt(q) <=> PrimaryOk(q[k]) /\ SecondariesFromJson(q[k]).ok
    BY <2>1 DEF PrimariesAt
  <2>3. NamesAt(q)[k] = q[k].name
    BY <2>1 DEF NamesAt
  <2>4. PrimaryValues(q)[k] = value
    BY <2>1, Zenon DEF PrimaryValues
  <2>5. AddPrimary(read, q[k]) = Turned(read, k, PrimariesAt(q), NamesAt(q), PrimaryValues(q))
    BY <2>2, <2>3, <2>4, Zenon DEF AddPrimary, Turned
  <2>6. QED BY <2>5 DEF k
<1>2. \A f : Fold(f) => G(f)
  <2> SUFFICES ASSUME NEW f, Fold(f) PROVE G(f)
    OBVIOUS
  <2>1. f[{}] = Nothing
    OBVIOUS
  <2>2. \A s \in SUBSET (1..n) : s # {} => f[s] = AddPrimary(f[s \ {Max(s)}], q[Max(s)])
    OBVIOUS
  <2> HIDE DEF Fold
  <2>3. QED BY <1>1, <2>1, <2>2 DEF Gathers
<1>3. \E f : Fold(f)
  <2> DEFINE W == [s \in SUBSET (1..n) |->
                      Reading(s, PrimariesAt(q), NamesAt(q), PrimaryValues(q))]
  <2>1. G(W)
    BY GatheredIs
  <2>2. \A s \in SUBSET (1..n) : W[s] = IF s = {} THEN Nothing
                                       ELSE AddPrimary(W[s \ {Max(s)}], q[Max(s)])
    <3> HIDE DEF W
    <3> QED BY <1>1, <2>1 DEF Gathers
  <2>3. Fold(W)
    BY <2>2
  <2> HIDE DEF W, Fold
  <2>4. QED BY <2>3
<1>4. ReadPrimaries(q) = (CHOOSE f : Fold(f))[1..n]
  BY Zenon DEF ReadPrimaries, FoldLeft, MapThenFoldSet
<1>5. PICK f : Fold(f) /\ ReadPrimaries(q) = f[1..n]
  <2> HIDE DEF Fold
  <2> QED BY <1>3, <1>4
<1>6. G(f)
  <2> HIDE DEF Fold, G
  <2> QED BY <1>2, <1>5
<1>7. f[1..n] = Reading(1..n, PrimariesAt(q), NamesAt(q), PrimaryValues(q))
  <2>1. Gathers(f, n, PrimariesAt(q), NamesAt(q), PrimaryValues(q))
    BY <1>6
  <2> HIDE DEF Fold
  <2>2. QED BY <2>1, GatheredIs
<1>8. QED BY <1>5, <1>7

\* The indexes of a database: all are well-formed, and the last of a name counts.
LEMMA SecondariesRead ==
    ASSUME NEW entry, HasArray(entry, "secondary_databases"), PrimaryOk(entry),
           SecondariesFromJson(entry).ok
    PROVE  LET indexes == ValueOr(entry, "secondary_databases", <<>>)
               map == SecondariesFromJson(entry).map
           IN  /\ \A m \in DOMAIN indexes : SecondaryOk(indexes[m])
               /\ DOMAIN map = NamesIn(indexes)
               /\ \A index \in NamesIn(indexes) :
                     /\ map[index].filename = LastOf(indexes, index).filename
                     /\ map[index].key_extractor = LastOf(indexes, index).key_extractor
<1> DEFINE q == ValueOr(entry, "secondary_databases", <<>>)
           n == Len(q)
           read == SecondariesFromJson(entry)
<1>1. DOMAIN q = 1..n /\ n \in Nat
  <2>1. CASE "secondary_databases" \in DOMAIN entry
    <3>1. MayHaveKey(entry, "secondary_databases")
      BY DEF PrimaryOk
    <3>2. HasKey(entry, "secondary_databases")
      BY <2>1, <3>1 DEF MayHaveKey, HasKey
    <3>3. q = entry["secondary_databases"]
      BY <2>1 DEF ValueOr
    <3>4. q \in Seq(Range(q))
      BY <3>2, <3>3 DEF HasArray
    <3> HIDE DEF q
    <3>5. QED BY <3>4, LenProperties
  <2>2. CASE "secondary_databases" \notin DOMAIN entry
    <3>1. q = <<>>
      BY <2>2 DEF ValueOr
    <3>2. QED BY <3>1
  <2>3. QED BY <2>1, <2>2
<1>2. read = ReadIndexes(q)
  BY Zenon DEF SecondariesFromJson, ReadIndexes
<1> HIDE DEF q, n, read
<1>3. read = Reading(1..n, IndexesAt(q), NamesAt(q), IndexValues(q)) /\ read.ok
  BY <1>1, <1>2, IndexesAre DEF read
<1>4. \A k \in 1..n : NamesAt(q)[k] = q[k].name
  BY <1>1 DEF NamesAt
<1>5. /\ 1..n \subseteq IndexesAt(q)
      /\ DOMAIN read.map = NamesIn(q)
      /\ \A name \in NamesIn(q) : \E k \in 1..n :
            LastOf(q, name) = q[k] /\ read.map[name] = IndexValues(q)[k]
  BY <1>1, <1>3, <1>4, AllRead
<1>6. \A m \in DOMAIN q : SecondaryOk(q[m])
  BY <1>1, <1>5 DEF IndexesAt
<1>7. ASSUME NEW index \in NamesIn(q)
      PROVE  /\ read.map[index].filename = LastOf(q, index).filename
             /\ read.map[index].key_extractor = LastOf(q, index).key_extractor
  <2>1. PICK k \in 1..n : LastOf(q, index) = q[k] /\ read.map[index] = IndexValues(q)[k]
    BY <1>5
  <2>2. IndexValues(q)[k] = [filename |-> q[k].filename, key_extractor |-> q[k].key_extractor]
    BY <1>1 DEF IndexValues
  <2>3. QED BY <2>1, <2>2
<1>8. QED BY <1>5, <1>6, <1>7 DEF q, read

\* A configuration that is read without an error is what the document says.
LEMMA ReadDescribes ==
    ASSUME NEW json, WellTyped(json), ConfigFromJson(json).ok
    PROVE  Describes(ConfigFromJson(json).map, json)
<1> DEFINE q == json.primary_databases
           n == Len(q)
           read == ConfigFromJson(json)
<1>1. HasKey(json, "primary_databases") /\ read = ReadPrimaries(q)
  <2>1. ~Error(Nothing).ok
    BY DEF Error, Nothing
  <2>2. QED BY <2>1, Zenon DEF ConfigFromJson, ReadPrimaries
<1>2. /\ q \in Seq(Range(q))
      /\ \A k \in DOMAIN q : HasArray(q[k], "secondary_databases")
  BY <1>1 DEF WellTyped, HasArray
<1> HIDE DEF q, n, read
<1>3. DOMAIN q = 1..n /\ n \in Nat
  BY <1>2, LenProperties DEF n
<1>4. read = Reading(1..n, PrimariesAt(q), NamesAt(q), PrimaryValues(q)) /\ read.ok
  BY <1>1, <1>3, PrimariesAre DEF read
<1>5. \A k \in 1..n : NamesAt(q)[k] = q[k].name
  BY <1>3 DEF NamesAt
<1>6. /\ 1..n \subseteq PrimariesAt(q)
      /\ DOMAIN read.map = NamesIn(q)
      /\ \A name \in NamesIn(q) : \E k \in 1..n :
            LastOf(q, name) = q[k] /\ read.map[name] = PrimaryValues(q)[k]
  BY <1>3, <1>4, <1>5, AllRead
<1>7. \A k \in 1..n : PrimaryOk(q[k]) /\ SecondariesFromJson(q[k]).ok
                      /\ HasArray(q[k], "secondary_databases")
  BY <1>2, <1>3, <1>6 DEF PrimariesAt
<1>8. \A k \in DOMAIN q :
         LET indexes == ValueOr(q[k], "secondary_databases", <<>>)
         IN  PrimaryOk(q[k]) /\ \A m \in DOMAIN indexes : SecondaryOk(indexes[m])
  BY <1>3, <1>7, SecondariesRead
<1>9. ASSUME NEW db \in NamesIn(q)
      PROVE  LET entry   == LastOf(q, db)
                 indexes == ValueOr(entry, "secondary_databases", <<>>)
             IN  /\ read.map[db].filename = entry.filename
                 /\ read.map[db].has_duplicates
                       <=> HasKey(entry, "has_duplicates") /\ entry.has_duplicates = "true"
                 /\ DOMAIN read.map[db].secondaries = NamesIn(indexes)
                 /\ \A index \in NamesIn(indexes) :
                       LET found == read.map[db].secondaries[index]
                       IN  /\ found.filename = LastOf(indexes, index).filename
                           /\ found.key_extractor = LastOf(indexes, index).key_extractor
  <2>1. PICK k \in 1..n : LastOf(q, db) = q[k] /\ read.map[db] = PrimaryValues(q)[k]
    BY <1>6
  <2> DEFINE entry == q[k]
  <2>2. PrimaryValues(q)[k] = [filename |-> entry.filename,
                has_duplicates |-> ValueOr(entry, "has_duplicates", "") = "true",
                secondaries    |-> SecondariesFromJson(entry).map]
    BY <1>3 DEF PrimaryValues
  <2>3. /\ read.map[db].filename = entry.filename
        /\ read.map[db].has_duplicates = (ValueOr(entry, "has_duplicates", "") = "true")
        /\ read.map[db].secondaries = SecondariesFromJson(entry).map
    <3>1. PICK has : has = (ValueOr(entry, "has_duplicates", "") = "true")
      OBVIOUS
    <3>2. PrimaryValues(q)[k] = [filename |-> entry.filename, has_duplicates |-> has,
                                 secondaries |-> SecondariesFromJson(entry).map]
      BY <2>2, <3>1, Zenon
    <3> HIDE DEF entry
    <3>3. /\ PrimaryValues(q)[k].filename = entry.filename
          /\ PrimaryValues(q)[k].has_duplicates = has
          /\ PrimaryValues(q)[k].secondaries = SecondariesFromJson(entry).map
      BY <3>2
    <3>4. QED BY <2>1, <3>1, <3>3, Zenon
  <2>4. PrimaryOk(entry) /\ SecondariesFromJson(entry).ok /\ HasArray(entry, "secondary_databases")
    BY <1>7
  <2>5. ValueOr(entry, "has_duplicates", "") = "true"
           <=> HasKey(entry, "has_duplicates") /\ entry.has_duplicates = "true"
    BY <2>4 DEF PrimaryOk, MayHaveKey, HasKey, ValueOr, Wrong
  <2>6. LastOf(q, db) = entry
    BY <2>1
  <2> HIDE DEF entry
  <2> DEFINE indexes == ValueOr(entry, "secondary_databases", <<>>)
             map == SecondariesFromJson(entry).map
  <2>7. /\ DOMAIN map = NamesIn(indexes)
        /\ \A index \in NamesIn(indexes) :
              /\ map[index].filename = LastOf(indexes, index).filename
              /\ map[index].key_extractor = LastOf(indexes, index).key_extractor
    BY <2>4, SecondariesRead
  <2>8. read.map[db].has_duplicates
           <=> HasKey(entry, "has_duplicates") /\ entry.has_duplicates = "true"
    BY <2>3, <2>5, Zenon
  <2> HIDE DEF indexes, map
  <2>9. /\ DOMAIN read.map[db].secondaries = NamesIn(indexes)
        /\ \A index \in NamesIn(indexes) :
              LET found == read.map[db].secondaries[index]
              IN  /\ found.filename = LastOf(indexes, index).filename
                  /\ found.key_extractor = LastOf(indexes, index).key_extractor
    BY <2>3, <2>7 DEF map
  <2>10. QED BY <2>3, <2>6, <2>8, <2>9 DEF indexes
<1>10. QED
  <2>1. DOMAIN read.map = NamesIn(q)
    BY <1>6
  <2>2. QED BY <1>8, <1>9, <2>1 DEF Describes, q, read

-----------------------------------------------------------------------------
(* main, and how a request is received                                     *)

LEMMA InitIInv ==
    ASSUME Init
    PROVE  IInv
<1>1. DOMAIN files = {} /\ DOMAIN closes = {} /\ DOMAIN journal = {}
  BY DEF Init
<1>2. TypeOK
  <2>1. received \in 0..MaxRequests /\ args \in Seq({"int", "text"}) /\ Len(args) <= 4
    BY RequestHandlersAssumption, EmptySeq DEF Init
  <2>2. \A n \in DOMAIN closes : closes[n].attached => closes[n].file \in DOMAIN files
    BY <1>1
  <2>3. \A f \in DOMAIN files : files[f].flags \in Flags /\ files[f].writes \subseteq DOMAIN journal
    BY <1>1
  <2>4. QED BY <1>1, <2>1, <2>2, <2>3, Zenon DEF Init, TypeOK
<1>3. FilesInv
  BY <1>1 DEF Init, FilesInv
<1>4. ListsInv
  BY EmptySequence DEF Init, ListsInv
<1>5. FlushedInOrder
  BY <1>1 DEF FlushedInOrder
<1>6. ConfigInv /\ CallsInv /\ MadeInv /\ FailedInv /\ HandlesInv /\ ClosingInv
  BY DEF Init, ConfigInv, CallsInv, MadeInv, FailedInv, HandlesInv, ClosingInv
<1>7. QED BY <1>2, <1>3, <1>4, <1>5, <1>6 DEF IInv

\* What is left of the invariant while no request is handled.
LEMMA AtRest ==
    ASSUME pc \in {"down", "idle"}
    PROVE  CallsInv /\ MadeInv /\ HandlesInv /\ ClosingInv
BY DEF CallsInv, MadeInv, HandlesInv, ClosingInv

LEMMA UnchangedIInv ==
    ASSUME IInv, UNCHANGED vars
    PROVE  IInv'
<1>1. /\ pc' = pc /\ document' = document /\ config' = config /\ files' = files
      /\ request' = request /\ args' = args /\ calls' = calls /\ errors' = errors
      /\ closes' = closes /\ dirty' = dirty /\ reached' = reached
      /\ received' = received /\ journal' = journal
  BY DEF vars, program, handler
<1>2. TypeOK' /\ ConfigInv' /\ FilesInv' /\ ListsInv' /\ FlushedInOrder'
  BY <1>1 DEF IInv, TypeOK, ConfigInv, FilesInv, ListsInv, FlushedInOrder
<1>3. All' = All /\ Made' = Made
  BY <1>1 DEF All, Made
<1>4. CallsInv'
  BY <1>1, <1>3 DEF IInv, CallsInv
<1>5. MadeInv'
  <2>1. SUFFICES ASSUME pc = "handling", ~errors, NEW m \in 1..Made, NEW c, c = All[m]
                 PROVE  CallOk(c)'
    BY <1>1, <1>3 DEF MadeInv
  <2>2. CallOk(c)
    BY <2>1 DEF IInv, MadeInv
  <2>3. QED BY <1>1, <2>2, CallOkStays DEF Grows
<1>6. FailedInv'
  BY <1>1, ServedSame DEF IInv, FailedInv
<1>7. HandlesInv'
  BY <1>1, <1>3 DEF IInv, HandlesInv
<1>8. ClosingInv'
  BY <1>1 DEF IInv, ClosingInv
<1>9. QED BY <1>2, <1>4, <1>5, <1>6, <1>7, <1>8 DEF IInv

LEMMA StartIInv ==
    ASSUME IInv, NEW json \in Documents, NEW options, Start(json, options)
    PROVE  IInv'
<1>1. CASE UNCHANGED vars
  BY <1>1, UnchangedIInv
<1>2. CASE ~UNCHANGED vars
  <2>1. /\ pc = "down" /\ pc' = "idle" /\ ConfigFromJson(json).ok
        /\ config' = ConfigFromJson(json).map /\ document' = json
        /\ UNCHANGED <<files, handler, received, journal>>
    <3>1. ~UNCHANGED program
      BY <1>2 DEF Start, vars
    <3>2. CASE options = {"d", "h"}
      BY <3>1, <3>2 DEF Start
    <3>3. CASE options # {"d", "h"}
      <4>1. ~Error(Nothing).ok
        BY DEF Error, Nothing
      <4>2. QED BY <3>1, <3>3, <4>1 DEF Start
    <3>4. QED BY <3>2, <3>3
  <2>2. TypeOK'
    BY <2>1 DEF IInv, TypeOK, handler
  <2>3. ConfigInv'
    BY <2>1 DEF ConfigInv
  <2>4. FilesInv' /\ FlushedInOrder'
    BY <2>1 DEF IInv, FilesInv, FlushedInOrder
  <2>5. ListsInv'
    BY <2>1 DEF IInv, ListsInv, handler
  <2>6. FailedInv'
    BY <2>1 DEF IInv, FailedInv, handler
  <2>7. CallsInv' /\ MadeInv' /\ HandlesInv' /\ ClosingInv'
    BY <2>1 DEF CallsInv, MadeInv, HandlesInv, ClosingInv
  <2>8. QED BY <2>2, <2>3, <2>4, <2>5, <2>6, <2>7 DEF IInv
<1>3. QED BY <1>1, <1>2

LEMMA ReceiveIInv ==
    ASSUME IInv, NEW r \in Requests, NEW a \in ArgumentsOf(r), Receive(r, a)
    PROVE  IInv'
<1>1. /\ pc = "idle" /\ received < MaxRequests
      /\ pc' = "handling" /\ received' = received + 1
      /\ request' = r /\ args' = a
      /\ calls' = IF r \in DOMAIN Handlers THEN Handlers[r].calls ELSE <<>>
      /\ errors' = ~(r \in DOMAIN Handlers /\ Understands(Handlers[r], a))
      /\ UNCHANGED <<document, config, files, closes, dirty, reached, journal>>
  BY DEF Receive
<1>2. r \in DOMAIN Handlers =>
          /\ Handlers[r].least = Handlers[r].reads /\ Handlers[r].reads \in 0..4
          /\ IsSequence(Handlers[r].calls)
  BY HandlersWellMade DEF WellMade
<1>3. a \in Seq({"int", "text"}) /\ Len(a) <= 4
  <2>1. CASE r \in DOMAIN Handlers
    <3>1. PICK length \in {Handlers[r].reads, Handlers[r].reads - 1} \cap Nat :
            \E ints : a = [n \in 1..length |-> IF n \in ints THEN "int" ELSE "text"]
      BY <2>1 DEF ArgumentsOf
    <3>2. PICK ints : a = [n \in 1..length |-> IF n \in ints THEN "int" ELSE "text"]
      BY <3>1
    <3>3. length \in Nat /\ length <= 4
      BY <1>2, <2>1
    <3>4. a \in Seq({"int", "text"}) /\ Len(a) = length
      BY <3>2, <3>3
    <3>5. QED BY <3>3, <3>4
  <2>2. CASE r \notin DOMAIN Handlers
    BY <2>2, EmptySeq DEF ArgumentsOf
  <2>3. QED BY <2>1, <2>2
<1>4. closes = <<>> /\ Len(closes) = 0 /\ dirty = {} /\ ~reached
  BY <1>1, EmptySequence DEF IInv, TypeOK, FailedInv
<1>5. errors' \in BOOLEAN
  BY <1>1
<1>6. TypeOK'
  <2>1. received' \in 0..MaxRequests
    BY <1>1, RequestHandlersAssumption DEF IInv, TypeOK
  <2>2. QED BY <1>1, <1>3, <1>5, <2>1 DEF IInv, TypeOK
<1>7. ConfigInv' /\ FilesInv' /\ FlushedInOrder'
  BY <1>1 DEF IInv, ConfigInv, FilesInv, FlushedInOrder
<1>8. ListsInv'
  <2>1. IsSequence(calls')
    BY <1>1, <1>2, EmptySequence
  <2>2. QED BY <1>1, <1>4, <2>1 DEF IInv, ListsInv
<1>9. ~errors' => r \in DOMAIN Handlers /\ Understands(Handlers[r], a)
  BY <1>1
<1>10. ~errors' => All' = calls' /\ Made' = 0 /\ IsSequence(calls')
  BY <1>1, <1>2, <1>9 DEF All, Made, IsSequence
<1>11. CallsInv'
  <2>1. SUFFICES ASSUME ~errors'
                 PROVE  /\ request' \in DOMAIN Handlers /\ Understands(Handlers[request'], args')
                        /\ Len(calls') <= Len(All')
                        /\ \A m \in 1..Len(calls') : calls'[m] = All'[Made' + m]
    BY DEF CallsInv, Understands
  <2>2. Len(calls') \in Nat
    BY <1>10, <2>1 DEF IsSequence
  <2>3. QED BY <1>1, <1>9, <1>10, <2>1, <2>2
<1>12. MadeInv'
  BY <1>10 DEF MadeInv
<1>13. FailedInv'
  <2>1. errors' => ~CanBeServed(r, a)'
    <3>1. SUFFICES ASSUME errors', r \in DOMAIN Handlers, Len(a) >= Handlers[r].reads,
                          \A n \in Handlers[r].ints : a[n] = "int"
                   PROVE  FALSE
      BY DEF CanBeServed
    <3>2. ~Understands(Handlers[r], a)
      BY <1>1, <3>1
    <3>3. QED BY <1>2, <3>1, <3>2 DEF Understands
  <2>2. QED BY <1>1, <1>4, <2>1 DEF FailedInv
<1>14. HandlesInv'
  <2>1. \A db, x, y : GuardedBy(closes', db, x, y)
    BY <1>1, <1>4 DEF GuardedBy
  <2>2. QED BY <1>1, <1>4, <2>1 DEF HandlesInv
<1>15. ClosingInv'
  BY <1>1 DEF ClosingInv
<1>16. QED BY <1>6, <1>7, <1>8, <1>11, <1>12, <1>13, <1>14, <1>15 DEF IInv

\* The process ends, or the handler does: the locals are gone.
LEMMA ForgottenIInv ==
    ASSUME IInv, Forget, UNCHANGED <<files, journal, received>>,
           \/ pc' = "idle" /\ pc # "down" /\ config' = config /\ document' = document
           \/ pc' = "down" /\ config' = <<>>
    PROVE  IInv'
<1>1. /\ request' = NoRequest /\ args' = <<>> /\ calls' = <<>> /\ errors' = FALSE
      /\ closes' = <<>> /\ dirty' = {} /\ reached' = FALSE
      /\ files' = files /\ journal' = journal /\ received' = received
  BY DEF Forget
<1>2. TypeOK'
  <2>1. \A n \in DOMAIN closes' :
            closes'[n].attached => closes'[n].file \in DOMAIN files'
    BY <1>1
  <2>2. args' \in Seq({"int", "text"}) /\ Len(args') <= 4
    BY <1>1, EmptySeq
  <2>3. dirty' \subseteq DOMAIN files' /\ errors' \in BOOLEAN /\ reached' \in BOOLEAN
    BY <1>1, Zenon
  <2>4. QED BY <1>1, <2>1, <2>2, <2>3, Zenon DEF IInv, TypeOK
<1>3. FilesInv' /\ FlushedInOrder'
  BY <1>1 DEF IInv, FilesInv, FlushedInOrder
<1>4. ConfigInv'
  BY DEF IInv, ConfigInv
<1>5. ListsInv'
  BY <1>1, EmptySequence DEF IInv, ListsInv
<1>6. FailedInv' /\ CallsInv' /\ MadeInv' /\ HandlesInv' /\ ClosingInv'
  BY <1>1 DEF FailedInv, CallsInv, MadeInv, HandlesInv, ClosingInv
<1>7. QED BY <1>2, <1>3, <1>4, <1>5, <1>6 DEF IInv

-----------------------------------------------------------------------------
(* The end of a handler                                                    *)

LEMMA SkipIInv ==
    ASSUME IInv, Skip
    PROVE  IInv'
<1>1. /\ pc = "handling" /\ errors /\ calls' = <<>>
      /\ UNCHANGED <<pc, document, config, files, request, args, errors, closes, dirty,
                     reached, received, journal>>
  BY DEF Skip, Skips, program
<1>2. TypeOK'
  BY <1>1, Zenon DEF IInv, TypeOK
<1>3. ConfigInv' /\ FilesInv' /\ FlushedInOrder'
  BY <1>1 DEF IInv, ConfigInv, FilesInv, FlushedInOrder
<1>4. ListsInv'
  BY <1>1, EmptySequence DEF IInv, ListsInv
<1>5. FailedInv'
  BY <1>1, ServedSame DEF IInv, FailedInv
<1>6. CallsInv' /\ MadeInv' /\ HandlesInv' /\ ClosingInv'
  BY <1>1 DEF CallsInv, MadeInv, HandlesInv, ClosingInv
<1>7. QED BY <1>2, <1>3, <1>4, <1>5, <1>6 DEF IInv

LEMMA GiveUpIInv ==
    ASSUME IInv, GiveUp
    PROVE  IInv'
<1>1. /\ pc = "handling" /\ errors /\ pc' = "closing"
      /\ UNCHANGED <<document, config, files, request, args, calls, errors, closes, dirty,
                     reached, received, journal>>
  BY DEF GiveUp
<1>2. TypeOK'
  BY <1>1, Zenon DEF IInv, TypeOK
<1>3. ConfigInv' /\ FilesInv' /\ FlushedInOrder'
  BY <1>1 DEF IInv, ConfigInv, FilesInv, FlushedInOrder
<1>4. dirty = {} /\ ListsInv'
  BY <1>1 DEF IInv, ListsInv
<1>5. FailedInv'
  <2>1. ~CanBeServed(request, args) /\ ~reached
    BY <1>1 DEF IInv, FailedInv
  <2>2. ~CanBeServed(request, args)'
    BY <1>1, <2>1, ServedSame
  <2>3. QED BY <1>1, <2>1, <2>2 DEF FailedInv
<1>6. CallsInv' /\ MadeInv' /\ HandlesInv' /\ ClosingInv'
  BY <1>1, <1>4 DEF CallsInv, MadeInv, HandlesInv, ClosingInv
<1>7. QED BY <1>2, <1>3, <1>4, <1>5, <1>6 DEF IInv

\* All calls were made, and none has added an error.
LEMMA AllMade ==
    ASSUME IInv, pc = "handling", calls = <<>>, ~errors
    PROVE  /\ request \in DOMAIN Handlers /\ WellMade(Handlers[request])
           /\ Len(args) >= Handlers[request].reads
           /\ \A n \in Handlers[request].ints : args[n] = "int"
           /\ \A c \in CallsOf(Handlers[request]) : CallOk(c)
           /\ \A db : Open(db) \in CallsOf(Handlers[request]) => \E m \in 1..Made : All[m] = Open(db)
<1>1. request \in DOMAIN Handlers /\ Understands(Handlers[request], args)
  BY DEF IInv, CallsInv
<1>2. WellMade(Handlers[request])
  BY <1>1, HandlersWellMade
<1>3. Made = Len(Handlers[request].calls) /\ All = Handlers[request].calls
  BY <1>2, EmptySequence DEF Made, All, WellMade, IsSequence
<1>4. \A m \in 1..Made : CallOk(All[m])
  BY DEF IInv, MadeInv
<1>5. \A c \in CallsOf(Handlers[request]) : \E m \in 1..Made : c = All[m]
  BY <1>3 DEF CallsOf
<1>6. /\ Len(args) >= Handlers[request].reads
      /\ \A n \in Handlers[request].ints : args[n] = "int"
  BY <1>1, <1>2 DEF WellMade, Understands
<1>7. QED BY <1>1, <1>2, <1>4, <1>5, <1>6

\* Then the request can be served.
LEMMA AllMadeServed ==
    ASSUME IInv, pc = "handling", calls = <<>>, ~errors
    PROVE  /\ CanBeServed(request, args)
           /\ \A c \in CallsOf(Handlers[request]) :
                 c.db \in DOMAIN config /\ Primary(config, c.db) = config[c.db]
<1>1. /\ request \in DOMAIN Handlers /\ WellMade(Handlers[request])
      /\ Len(args) >= Handlers[request].reads
      /\ \A n \in Handlers[request].ints : args[n] = "int"
      /\ \A c \in CallsOf(Handlers[request]) : CallOk(c)
  BY AllMade
<1>2. ASSUME NEW c \in CallsOf(Handlers[request])
      PROVE  /\ c.db \in DOMAIN config /\ Primary(config, c.db) = config[c.db]
             /\ c.do \in {"select index", "open index"} => HasIndex(config, c.db, c.index)
             /\ ~OpenFails(config[c.db].filename, PrimaryFlags(config[c.db]))
             /\ \A i \in DOMAIN config[c.db].secondaries :
                   LET index == config[c.db].secondaries[i] IN
                   /\ ~OpenFails(index.filename, IndexFlags)
                   /\ index.key_extractor \in KeyExtractors
                   /\ ~HasDuplicates(config[c.db])
  <2>1. /\ CallOk(Select(c.db)) /\ CallOk(Open(c.db))
        /\ c.do \in {"select index", "open index"} => CallOk(SelectIndex(c.db, c.index))
    BY <1>1 DEF WellMade, Complete
  <2>2. c.db \in DOMAIN config
    BY <2>1, SelectFields DEF CallOk
  <2>3. Primary(config, c.db) = config[c.db]
    BY <2>2 DEF Primary, ValueOr
  <2>4. OpenedWell(config[c.db])
    BY <2>1, <2>3, OpenFields DEF CallOk
  <2>5. c.do \in {"select index", "open index"} => HasIndex(config, c.db, c.index)
    <3>1. SelectIndex(c.db, c.index).db = c.db /\ SelectIndex(c.db, c.index).index = c.index
          /\ SelectIndex(c.db, c.index).do = "select index"
      BY SelectIndexFields
    <3>2. QED BY <2>1, <3>1 DEF CallOk
  <2>6. PICK d : d = config[c.db]
    OBVIOUS
  <2>7. ~OpenFails(d.filename, PrimaryFlags(d))
    BY <2>4, <2>6 DEF OpenedWell, Openable, OpenFails
  <2>8. \A i \in DOMAIN d.secondaries : ~OpenFails(d.secondaries[i].filename, IndexFlags)
    BY <2>4, <2>6 DEF OpenedWell, Openable, OpenFails
  <2>9. \A i \in DOMAIN d.secondaries :
            d.secondaries[i].key_extractor \in KeyExtractors /\ ~HasDuplicates(d)
    <3> TAKE i \in DOMAIN d.secondaries
    <3>1. "DUP" \notin files[d.filename].flags /\ PrimaryFlags(d) \subseteq files[d.filename].flags
      BY <2>4, <2>6 DEF OpenedWell, Openable
    <3>2. ~d.has_duplicates
      BY <3>1 DEF PrimaryFlags
    <3>3. QED BY <2>4, <2>6, <3>1, <3>2 DEF OpenedWell, HasDuplicates
  <2>10. QED BY <2>2, <2>3, <2>5, <2>6, <2>7, <2>8, <2>9
<1>3. CanBeServed(request, args)
  BY <1>1, <1>2, RangeOfCalls DEF CanBeServed
<1>4. QED BY <1>2, <1>3

-----------------------------------------------------------------------------
(* What a DAO call writes, and what the handles do with it                 *)

\* The files the caches of which hold what is written.
Written == UNION {FilesOf(db) : db \in Range(Handlers[request].writes)}

LEMMA InWritten ==
    ASSUME ListsInv, NEW n \in 1..Len(closes), closes[n].attached,
           closes[n].db \in Range(Handlers[request].writes)
    PROVE  closes[n].file \in Written
<1>1. n \in DOMAIN closes
  BY SequenceDomain DEF ListsInv
<1>2. QED BY <1>1 DEF Written, FilesOf

LEMMA OfWritten ==
    ASSUME ListsInv, NEW f \in Written
    PROVE  \E n \in 1..Len(closes) : closes[n].attached /\ closes[n].file = f
<1>1. DOMAIN closes = 1..Len(closes)
  BY SequenceDomain DEF ListsInv
<1>2. QED BY <1>1 DEF Written, FilesOf

\* What must be on the disk before what: an index before its primary, and a
\* primary before the one that is written after it.
LEMMA InBefore ==
    ASSUME NEW p \in Before
    PROVE  \/ \E d \in Range(Handlers[request].writes) :
                 \E i \in DOMAIN Primary(config, d).secondaries :
                    p = <<Primary(config, d).secondaries[i].filename,
                          Primary(config, d).filename>>
           \/ \E k \in 1..(Len(Handlers[request].writes) - 1) :
                 p = <<Primary(config, Handlers[request].writes[k]).filename,
                       Primary(config, Handlers[request].writes[k + 1]).filename>>
BY DEF Before

\* The handles will close in the order the write needs.
LEMMA BeforeGuarded ==
    ASSUME IInv, pc = "handling", calls = <<>>, ~errors, NEW p \in Before, p[2] \in Written
    PROVE  p[1] \in Written /\ Guarded(closes, p[1], p[2])
<1> DEFINE dbs == Handlers[request].writes
<1>1. WellMade(Handlers[request])
  BY AllMade
<1>2. DOMAIN dbs = 1..Len(dbs) /\ Len(dbs) \in Nat
  BY <1>1, SequenceDomain DEF WellMade
<1>3. \A d \in Range(dbs) : d \in DOMAIN config /\ Primary(config, d) = config[d]
  <2> TAKE d \in Range(dbs)
  <2>1. Open(d) \in CallsOf(Handlers[request])
    BY <1>1, <1>2 DEF WellMade, Range
  <2>2. QED BY <2>1, AllMadeServed, OpenFields
<1>4. ListsInv
  BY DEF IInv
<1>5. PICK n \in 1..Len(closes) : closes[n].attached /\ closes[n].file = p[2]
  BY <1>4, OfWritten
<1>6. ASSUME NEW d \in Range(dbs), GuardedBy(closes, d, p[1], p[2])
      PROVE  p[1] \in Written /\ Guarded(closes, p[1], p[2])
  <2>1. PICK m \in 1..n : closes[m].attached /\ closes[m].file = p[1] /\ closes[m].db = d
    BY <1>5, <1>6 DEF GuardedBy
  <2>2. m \in 1..Len(closes)
    BY <1>4, SequenceDomain DEF ListsInv
  <2>3. p[1] \in Written
    BY <1>4, <2>1, <2>2, InWritten
  <2>4. QED BY <1>6, <2>3, GuardedByGuarded
<1>7. CASE \E d \in Range(dbs) : \E i \in DOMAIN Primary(config, d).secondaries :
              p = <<Primary(config, d).secondaries[i].filename, Primary(config, d).filename>>
  <2>0. PICK d \in Range(dbs) : \E i \in DOMAIN Primary(config, d).secondaries :
            p = <<Primary(config, d).secondaries[i].filename, Primary(config, d).filename>>
    BY <1>7
  <2>1. PICK i \in DOMAIN Primary(config, d).secondaries :
            p = <<Primary(config, d).secondaries[i].filename, Primary(config, d).filename>>
    BY <2>0
  <2>2. d \in DOMAIN config /\ Primary(config, d) = config[d]
    BY <1>3
  <2>3. p[1] = config[d].secondaries[i].filename /\ p[2] = config[d].filename
        /\ i \in DOMAIN config[d].secondaries
    BY <2>1, <2>2
  <2>4. GuardedBy(closes, d, config[d].secondaries[i].filename, config[d].filename)
    BY <2>2, <2>3 DEF IInv, HandlesInv
  <2>5. GuardedBy(closes, d, p[1], p[2])
    BY <2>3, <2>4
  <2>6. QED BY <1>6, <2>5
<1>8. CASE \E k \in 1..(Len(dbs) - 1) :
              p = <<Primary(config, dbs[k]).filename, Primary(config, dbs[k + 1]).filename>>
  <2>1. PICK k \in 1..(Len(dbs) - 1) :
            p = <<Primary(config, dbs[k]).filename, Primary(config, dbs[k + 1]).filename>>
    BY <1>8
  <2>2. p[1] = Primary(config, dbs[k]).filename /\ p[2] = Primary(config, dbs[k + 1]).filename
    BY <2>1
  <2>3. k \in DOMAIN dbs /\ k \in 1..Len(dbs)
    BY <1>2
  <2>4. dbs[k] \in Range(dbs) /\ Open(dbs[k]) \in CallsOf(Handlers[request])
    BY <1>1, <2>3 DEF WellMade, Range
  <2>5. \E m \in 1..Made : All[m] = Open(dbs[k])
    BY <2>4, AllMade
  <2>6. GuardedBy(closes, dbs[k], Primary(config, dbs[k]).filename,
                  Primary(config, dbs[k + 1]).filename)
    BY <2>5 DEF IInv, HandlesInv
  <2>7. QED BY <1>6, <2>2, <2>4, <2>6
<1>9. QED BY <1>7, <1>8, InBefore

LEMMA CallDaoIInv ==
    ASSUME IInv, CallDao
    PROVE  IInv'
<1>1. /\ pc = "handling" /\ calls = <<>> /\ ~errors /\ pc' = "closing" /\ reached' = TRUE
      /\ UNCHANGED <<document, config, files, request, args, calls, errors, closes, received>>
      /\ \/ UNCHANGED <<dirty, journal>>
         \/ dirty' = Written /\ journal' = Append(journal, Before)
  BY DEF CallDao, Written
<1>2. TypeOK /\ FilesInv /\ ListsInv /\ FlushedInOrder /\ dirty = {}
  BY <1>1 DEF IInv, ListsInv
<1>3. /\ IsSequence(journal) /\ Len(journal) \in Nat /\ DOMAIN journal = 1..Len(journal)
      /\ IsSequence(closes) /\ DOMAIN closes = 1..Len(closes)
  BY <1>2, SequenceDomain DEF ListsInv
<1>4. /\ IsSequence(journal') /\ DOMAIN journal' = 1..Len(journal') /\ Len(journal') \in Nat
      /\ DOMAIN journal \subseteq DOMAIN journal'
      /\ \A w \in DOMAIN journal : journal'[w] = journal[w]
      /\ \A w \in DOMAIN journal' \ DOMAIN journal : w = Len(journal) + 1
  <2>1. CASE UNCHANGED <<dirty, journal>>
    BY <1>3, <2>1
  <2>2. CASE journal' = Append(journal, Before)
    <3>1. /\ IsSequence(journal') /\ Len(journal') = Len(journal) + 1
          /\ \A w \in 1..Len(journal) : journal'[w] = journal[w]
      BY <1>3, <2>2, AppendedSequence
    <3>2. DOMAIN journal' = 1..(Len(journal) + 1)
      BY <3>1, SequenceDomain
    <3>3. QED BY <1>3, <3>1, <3>2
  <2>3. QED BY <1>1, <2>1, <2>2
<1>5. dirty' \subseteq DOMAIN files
  <2>1. \A f \in Written : f \in DOMAIN files
    BY <1>2, <1>3, OfWritten DEF TypeOK
  <2>2. QED BY <1>1, <1>2, <2>1
<1>6. TypeOK'
  <2>1. \A f \in DOMAIN files' :
            files'[f].flags \in Flags /\ files'[f].writes \subseteq DOMAIN journal'
    BY <1>1, <1>2, <1>4 DEF TypeOK
  <2>2. reached' \in BOOLEAN
    BY <1>1, Zenon
  <2>3. QED BY <1>1, <1>2, <1>5, <2>1, <2>2, Zenon DEF TypeOK
<1>7. ConfigInv' /\ ListsInv'
  BY <1>1, <1>2, <1>4 DEF IInv, ConfigInv, ListsInv
<1>8. FilesInv'
  <2>1. \A f \in DOMAIN files :
            files[f] \in [flags : Flags, writes : SUBSET DOMAIN journal']
    <3> TAKE f \in DOMAIN files
    <3>1. files[f] \in [flags : Flags, writes : SUBSET DOMAIN journal]
      BY <1>2 DEF FilesInv
    <3>2. QED BY <1>4, <3>1
  <2>2. QED BY <1>1, <1>2, <2>1 DEF FilesInv
<1>9. FailedInv'
  <2>1. CanBeServed(request, args)
    BY <1>1, AllMadeServed
  <2>2. CanBeServed(request, args)'
    BY <1>1, <2>1, ServedSame
  <2>3. QED BY <1>1, <2>2 DEF FailedInv
<1>10. ClosingInv'
  <2>1. CASE UNCHANGED <<dirty, journal>>
    BY <1>2, <2>1 DEF ClosingInv
  <2>2. CASE dirty' = Written /\ journal' = Append(journal, Before)
    <3>1. Len(journal') = Len(journal) + 1 /\ journal'[Len(journal')] = Before
      BY <1>3, <2>2, AppendedSequence
    <3>2. journal' # <<>>
      BY <1>3, <3>1, EmptySequence
    <3>3. \A p \in Before : p[2] \in Written => p[1] \in Written /\ Guarded(closes, p[1], p[2])
      BY <1>1, BeforeGuarded
    <3>4. \A a, b : Guarded(closes', a, b) <=> Guarded(closes, a, b)
      BY <1>1
    <3>5. QED BY <2>2, <3>1, <3>2, <3>3, <3>4 DEF ClosingInv
  <2>3. QED BY <1>1, <2>1, <2>2
<1>11. FlushedInOrder'
  <2>1. SUFFICES ASSUME NEW w \in DOMAIN journal', NEW p \in journal'[w],
                        p[2] \in DOMAIN files, w \in files[p[2]].writes
                 PROVE  p[1] \in DOMAIN files /\ w \in files[p[1]].writes
    BY <1>1 DEF FlushedInOrder
  <2>2. w \in DOMAIN journal
    BY <1>2, <2>1 DEF TypeOK
  <2>3. QED BY <1>2, <1>4, <2>1, <2>2 DEF FlushedInOrder
<1>12. CallsInv' /\ MadeInv' /\ HandlesInv'
  BY <1>1 DEF CallsInv, MadeInv, HandlesInv
<1>13. QED BY <1>6, <1>7, <1>8, <1>9, <1>10, <1>11, <1>12 DEF IInv

LEMMA CloseIInv ==
    ASSUME IInv, Close
    PROVE  IInv'
<1> DEFINE h == Head(closes)
           writes == h.attached /\ h.file \in dirty
           last == Len(journal)
<1>1. /\ pc = "closing" /\ closes # <<>> /\ closes' = Tail(closes)
      /\ writes =>
            /\ files' = [files EXCEPT ![h.file].writes = @ \cup {last}]
            /\ dirty' = dirty \ {h.file}
      /\ ~writes => files' = files /\ dirty' = dirty
      /\ UNCHANGED <<pc, document, config, request, args, calls, errors, reached, journal, received>>
  BY DEF Close, program
<1>2. TypeOK /\ FilesInv /\ ListsInv /\ ClosingInv /\ FlushedInOrder
  BY DEF IInv
<1>3. /\ IsSequence(closes) /\ Len(closes) \in Nat /\ Len(closes) >= 1 /\ h = closes[1]
      /\ IsSequence(closes') /\ Len(closes') = Len(closes) - 1
      /\ \A n \in 1..(Len(closes) - 1) : closes'[n] = closes[n + 1]
      /\ DOMAIN closes = 1..Len(closes) /\ DOMAIN closes' = 1..(Len(closes) - 1)
  <2>1. IsSequence(closes)
    BY <1>2 DEF ListsInv
  <2>2. /\ IsSequence(closes') /\ Len(closes') = Len(closes) - 1 /\ Len(closes) >= 1
        /\ h = closes[1] /\ \A n \in 1..(Len(closes) - 1) : closes'[n] = closes[n + 1]
    BY <1>1, <2>1, TailSequence
  <2>3. QED BY <2>1, <2>2, SequenceDomain
<1>4. writes => last \in DOMAIN journal /\ h.file \in DOMAIN files
  <2>1. SUFFICES ASSUME writes
                 PROVE  last \in DOMAIN journal /\ h.file \in DOMAIN files
    OBVIOUS
  <2>2. journal # <<>> /\ IsSequence(journal)
    BY <1>1, <1>2, <2>1 DEF ClosingInv, ListsInv
  <2>3. DOMAIN journal = 1..Len(journal) /\ Len(journal) \in Nat /\ Len(journal) >= 1
    BY <2>2, SequenceDomain, TailSequence
  <2>4. QED BY <1>2, <2>1, <2>3 DEF TypeOK
<1>5. /\ DOMAIN files' = DOMAIN files
      /\ files' = [f \in DOMAIN files |-> files'[f]]
      /\ \A f \in DOMAIN files :
            /\ files'[f].flags = files[f].flags
            /\ files'[f].writes = IF writes /\ f = h.file THEN files[f].writes \cup {last}
                                                          ELSE files[f].writes
            /\ files'[f] \in [flags : Flags, writes : SUBSET DOMAIN journal]
  <2>1. CASE ~writes
    BY <1>1, <1>2, <2>1 DEF FilesInv
  <2>2. CASE writes
    <3>1. files' = [files EXCEPT ![h.file].writes = @ \cup {last}]
      BY <1>1, <2>2
    <3>2. last \in DOMAIN journal /\ h.file \in DOMAIN files
      BY <1>4, <2>2
    <3>3. \A f \in DOMAIN files : files[f] \in [flags : Flags, writes : SUBSET DOMAIN journal]
      BY <1>2 DEF FilesInv
    <3> HIDE DEF h, last, writes
    <3>4. DOMAIN files' = DOMAIN files /\ files' = [f \in DOMAIN files |-> files'[f]]
      BY <3>1
    <3>5. \A f \in DOMAIN files : f # h.file => files'[f] = files[f]
      BY <3>1
    <3>6. files'[h.file] = [files[h.file] EXCEPT !.writes = @ \cup {last}]
      BY <3>1, <3>2
    <3>7. /\ files'[h.file].flags = files[h.file].flags
          /\ files'[h.file].writes = files[h.file].writes \cup {last}
          /\ files'[h.file] \in [flags : Flags, writes : SUBSET DOMAIN journal]
      BY <3>2, <3>3, <3>6
    <3>8. QED BY <2>2, <3>3, <3>4, <3>5, <3>7
  <2>3. QED BY <2>1, <2>2
<1> HIDE DEF h, last, writes
<1>6. /\ dirty' \subseteq dirty
      /\ \A f \in dirty : f \notin dirty' =>
            writes /\ f = h.file /\ f \in DOMAIN files' /\ last \in files'[f].writes
  BY <1>1, <1>4, <1>5
<1>7. TypeOK'
  <2>1. \A f \in DOMAIN files' :
            files'[f].flags \in Flags /\ files'[f].writes \subseteq DOMAIN journal'
    BY <1>1, <1>5
  <2>2. \A n \in DOMAIN closes' :
            closes'[n].attached => closes'[n].file \in DOMAIN files'
    <3>1. \A n \in DOMAIN closes' : n + 1 \in DOMAIN closes /\ closes'[n] = closes[n + 1]
      BY <1>3
    <3>2. QED BY <1>2, <1>5, <3>1 DEF TypeOK
  <2>3. dirty' \subseteq DOMAIN files'
    BY <1>2, <1>5, <1>6 DEF TypeOK
  <2>4. QED BY <1>1, <1>2, <1>5, <2>1, <2>2, <2>3, Zenon DEF TypeOK
<1>8. ConfigInv' /\ FilesInv' /\ ListsInv'
  BY <1>1, <1>2, <1>3, <1>5 DEF IInv, ConfigInv, FilesInv, ListsInv
<1>9. FailedInv'
  <2>1. CanBeServed(request, args)' <=> CanBeServed(request, args)
    BY <1>1, <1>5, ServedSame
  <2>2. QED BY <1>1, <2>1 DEF IInv, FailedInv
<1>10. ClosingInv'
  <2>1. SUFFICES ASSUME dirty' # {}
                 PROVE  /\ journal # <<>>
                        /\ \A p \in journal[last] : p[2] \in dirty' =>
                              \/ p[1] \in DOMAIN files' /\ last \in files'[p[1]].writes
                              \/ p[1] \in dirty' /\ Guarded(closes', p[1], p[2])
    BY <1>1 DEF ClosingInv, last
  <2>2. /\ journal # <<>>
        /\ \A p \in journal[last] : p[2] \in dirty =>
              \/ p[1] \in DOMAIN files /\ last \in files[p[1]].writes
              \/ p[1] \in dirty /\ Guarded(closes, p[1], p[2])
    BY <1>1, <1>2, <1>6, <2>1 DEF ClosingInv, last
  <2>3. SUFFICES ASSUME NEW p \in journal[last], p[2] \in dirty'
                 PROVE  \/ p[1] \in DOMAIN files' /\ last \in files'[p[1]].writes
                        \/ p[1] \in dirty' /\ Guarded(closes', p[1], p[2])
    BY <2>2
  <2>4. CASE p[1] \in DOMAIN files /\ last \in files[p[1]].writes
    BY <1>5, <2>4
  <2>5. CASE p[1] \in dirty /\ Guarded(closes, p[1], p[2])
    <3>1. CASE p[1] \notin dirty'
      BY <1>6, <2>5, <3>1
    <3>2. CASE p[1] \in dirty'
      <4>1. ~(h.attached /\ h.file = p[1])
        BY <1>1, <3>2, <2>5 DEF writes
      <4>2. Guarded(Tail(closes), p[1], p[2])
        BY <1>1, <1>3, <2>5, <4>1, GuardedTail DEF h
      <4>3. QED BY <1>1, <3>2, <4>2
    <3>3. QED BY <3>1, <3>2
  <2>6. QED BY <1>6, <2>2, <2>3, <2>4, <2>5
<1>11. FlushedInOrder'
  <2>1. SUFFICES ASSUME NEW w \in DOMAIN journal, NEW p \in journal[w],
                        p[2] \in DOMAIN files, w \in files'[p[2]].writes
                 PROVE  p[1] \in DOMAIN files' /\ w \in files'[p[1]].writes
    BY <1>1, <1>5 DEF FlushedInOrder
  <2>2. CASE w \in files[p[2]].writes
    <3>1. p[1] \in DOMAIN files /\ w \in files[p[1]].writes
      BY <1>2, <2>1, <2>2 DEF FlushedInOrder
    <3>2. QED BY <1>5, <3>1
  <2>3. CASE w \notin files[p[2]].writes
    <3>1. writes /\ p[2] = h.file /\ w = last
      <4>1. files'[p[2]].writes = IF writes /\ p[2] = h.file THEN files[p[2]].writes \cup {last}
                                                            ELSE files[p[2]].writes
        BY <1>5, <2>1
      <4>2. CASE writes /\ p[2] = h.file
        BY <2>1, <2>3, <4>1, <4>2
      <4>3. CASE ~(writes /\ p[2] = h.file)
        BY <2>1, <2>3, <4>1, <4>3
      <4>4. QED BY <4>2, <4>3
    <3>2. h.attached /\ p[2] \in dirty
      BY <3>1 DEF writes
    <3>3. CASE p[1] \in DOMAIN files /\ last \in files[p[1]].writes
      BY <1>5, <3>1, <3>3
    <3>4. CASE Guarded(closes, p[1], p[2])
      <4>1. 1 \in 1..Len(closes) /\ closes[1].attached /\ closes[1].file = p[2]
        BY <1>3, <3>1, <3>2
      <4>2. \E m \in 1..1 : closes[m].attached /\ closes[m].file = p[1]
        BY <3>4, <4>1 DEF Guarded
      <4>3. p[1] = p[2]
        BY <4>1, <4>2
      <4>4. QED BY <1>5, <2>1, <4>3
    <3>5. p \in journal[last] /\ dirty # {}
      BY <2>1, <3>1, <3>2
    <3>6. QED BY <1>1, <1>2, <3>2, <3>3, <3>4, <3>5 DEF ClosingInv, last
  <2>4. QED BY <2>2, <2>3
<1>12. CallsInv' /\ MadeInv' /\ HandlesInv'
  BY <1>1 DEF CallsInv, MadeInv, HandlesInv
<1>13. QED BY <1>7, <1>8, <1>9, <1>10, <1>11, <1>12 DEF IInv

-----------------------------------------------------------------------------
(* A call                                                                  *)

\* What every call does.
LEMMA CallParts ==
    ASSUME IInv, Call
    PROVE  /\ pc = "handling" /\ calls # <<>> /\ calls' = Tail(calls)
           /\ UNCHANGED <<pc, document, config, request, args, dirty, reached, received, journal>>
           /\ IsSequence(calls') /\ Len(calls') = Len(calls) - 1 /\ Len(calls) \in Nat
           /\ Len(calls) >= 1 /\ Head(calls) = calls[1]
           /\ \A n \in 1..(Len(calls) - 1) : calls'[n] = calls[n + 1]
           /\ IsSequence(closes) /\ FilesInv /\ NoName \notin DOMAIN files /\ ConfigInv
<1>1. /\ pc = "handling" /\ calls # <<>> /\ calls' = Tail(calls)
      /\ UNCHANGED <<pc, document, config, request, args, dirty, reached, received, journal>>
  BY DEF Call, program
<1>2. IsSequence(calls) /\ IsSequence(closes) /\ FilesInv /\ NoName \notin DOMAIN files
      /\ ConfigInv
  BY DEF IInv, ListsInv, TypeOK
<1>3. /\ IsSequence(calls') /\ Len(calls') = Len(calls) - 1 /\ Len(calls) \in Nat
      /\ Len(calls) >= 1 /\ Head(calls) = calls[1]
      /\ \A n \in 1..(Len(calls) - 1) : calls'[n] = calls[n + 1]
  BY <1>1, <1>2, TailSequence, SequenceDomain
<1>4. QED BY <1>1, <1>2, <1>3

\* Whatever is called, files are only added, and handles only put in front.
LEMMA CallKeepsTypes ==
    ASSUME IInv, Call
    PROVE  /\ FilesInv' /\ Grows /\ NoName \notin DOMAIN files'
           /\ \A f \in DOMAIN files : files'[f] = files[f]
           /\ \A f \in DOMAIN files' \ DOMAIN files : files'[f].writes = {}
           /\ IsSequence(closes')
           /\ \A n \in 1..Len(closes') :
                 closes'[n].attached => closes'[n].file \in DOMAIN files'
           /\ errors' \in BOOLEAN /\ (errors => errors')
<1> DEFINE call == Head(calls)
<1>1. /\ pc = "handling" /\ journal' = journal /\ config' = config
      /\ IsSequence(closes) /\ FilesInv /\ NoName \notin DOMAIN files /\ ConfigInv
  BY CallParts
<1>2. \A n \in 1..Len(closes) : closes[n].attached => closes[n].file \in DOMAIN files
  BY <1>1, SequenceDomain DEF IInv, TypeOK
<1>3. ASSUME UNCHANGED <<files, closes>>, errors' \in BOOLEAN, errors => errors'
      PROVE  /\ FilesInv' /\ Grows /\ NoName \notin DOMAIN files'
             /\ \A f \in DOMAIN files : files'[f] = files[f]
             /\ \A f \in DOMAIN files' \ DOMAIN files : files'[f].writes = {}
             /\ IsSequence(closes')
             /\ \A n \in 1..Len(closes') :
                   closes'[n].attached => closes'[n].file \in DOMAIN files'
             /\ errors' \in BOOLEAN /\ (errors => errors')
  BY <1>1, <1>2, <1>3 DEF FilesInv, Grows
<1>4. CASE call.do = "select" /\ errors' = (errors \/ call.db \notin DOMAIN config)
           /\ UNCHANGED <<files, closes>>
  BY <1>3, <1>4
<1>5. CASE call.do = "select index" /\ errors' = (errors \/ ~HasIndex(config, call.db, call.index))
           /\ UNCHANGED <<files, closes>>
  BY <1>3, <1>5
<1>6. ASSUME NEW front, IsSequence(front), closes' = front \o closes, Grows,
             \A n \in 1..Len(front) : front[n].attached => front[n].file \in DOMAIN files'
      PROVE  /\ IsSequence(closes')
             /\ \A n \in 1..Len(closes') :
                   closes'[n].attached => closes'[n].file \in DOMAIN files'
  <2>1. /\ IsSequence(closes') /\ Len(closes') = Len(front) + Len(closes)
        /\ \A n \in 1..(Len(front) + Len(closes)) :
              closes'[n] = IF n <= Len(front) THEN front[n] ELSE closes[n - Len(front)]
        /\ Len(front) \in Nat /\ Len(closes) \in Nat
    BY <1>1, <1>6, JoinedSequence, SequenceDomain
  <2>2. ASSUME NEW n \in 1..Len(closes'), closes'[n].attached
        PROVE  closes'[n].file \in DOMAIN files'
    <3>1. CASE n <= Len(front)
      BY <1>6, <2>1, <2>2, <3>1
    <3>2. CASE n > Len(front)
      <4>1. n - Len(front) \in 1..Len(closes) /\ closes'[n] = closes[n - Len(front)]
        BY <2>1, <3>2
      <4>2. QED BY <1>2, <1>6, <2>2, <4>1 DEF Grows
    <3>3. QED BY <2>1, <3>1, <3>2
  <2>3. QED BY <2>1, <2>2
<1>7. CASE call.do = "open" /\ OpenPrimary(call.db)
  BY <1>1, <1>6, <1>7, OpenPrimaryKeepsTypes
<1>8. CASE call.do = "open index" /\ OpenSecondary(call.db, call.index)
  <2>1. /\ FilesInv' /\ Grows /\ NoName \notin DOMAIN files'
        /\ \A f \in DOMAIN files : files'[f] = files[f]
        /\ \A f \in DOMAIN files' \ DOMAIN files : files'[f].writes = {}
        /\ \E handle : closes' = <<handle>> \o closes /\ ~handle.attached
        /\ errors' \in BOOLEAN /\ (errors => errors')
    BY <1>1, <1>8, OpenSecondaryKeepsTypes
  <2>2. PICK handle : closes' = <<handle>> \o closes /\ ~handle.attached
    BY <2>1
  <2>3. IsSequence(<<handle>>) /\ Len(<<handle>>) = 1 /\ <<handle>>[1] = handle
    BY DEF IsSequence
  <2>4. \A n \in 1..Len(<<handle>>) :
            <<handle>>[n].attached => <<handle>>[n].file \in DOMAIN files'
    BY <2>2, <2>3
  <2>5. /\ IsSequence(closes')
        /\ \A n \in 1..Len(closes') :
              closes'[n].attached => closes'[n].file \in DOMAIN files'
    <3> DEFINE front == <<handle>>
    <3>1. IsSequence(front) /\ closes' = front \o closes
          /\ \A n \in 1..Len(front) : front[n].attached => front[n].file \in DOMAIN files'
      BY <2>2, <2>3, <2>4
    <3> HIDE DEF front
    <3>2. QED BY <1>6, <2>1, <3>1
  <2>6. QED BY <2>1, <2>5
<1>9. QED BY <1>4, <1>5, <1>7, <1>8 DEF Call

\* While there are no errors a call is the next of the handler's.
LEMMA CallIsNext ==
    ASSUME IInv, Call, ~errors
    PROVE  /\ request \in DOMAIN Handlers /\ WellMade(Handlers[request])
           /\ Made \in Nat /\ Made + 1 \in 1..Len(All)
           /\ Head(calls) = All[Made + 1] /\ Head(calls) \in CallsOf(Handlers[request])
           /\ All' = All /\ Made' = Made + 1
           /\ Len(calls') <= Len(All) /\ \A n \in 1..Len(calls') : calls'[n] = All[Made' + n]
<1>1. /\ pc = "handling" /\ request' = request /\ Len(calls') = Len(calls) - 1
      /\ Len(calls) \in Nat /\ Len(calls) >= 1 /\ Head(calls) = calls[1]
      /\ \A n \in 1..(Len(calls) - 1) : calls'[n] = calls[n + 1]
  BY CallParts
<1>2. /\ request \in DOMAIN Handlers /\ Len(calls) <= Len(All)
      /\ \A n \in 1..Len(calls) : calls[n] = All[Made + n]
  BY <1>1 DEF IInv, CallsInv
<1>3. WellMade(Handlers[request]) /\ Len(All) \in Nat
  BY <1>2, HandlersWellMade DEF WellMade, IsSequence, All
<1>4. All' = All /\ Made' = Made + 1
  <2>1. All' = All
    BY <1>1 DEF All
  <2>2. QED BY <1>1, <1>3, <2>1 DEF Made
<1>5. Made \in Nat /\ Made + 1 \in 1..Len(All)
  BY <1>1, <1>2, <1>3 DEF Made
<1>6. Head(calls) = All[Made + 1]
  BY <1>1, <1>2
<1>7. Head(calls) \in CallsOf(Handlers[request])
  BY <1>5, <1>6 DEF CallsOf, All
<1>8. Len(calls') <= Len(All)
  BY <1>1, <1>2, <1>3
<1>9. ASSUME NEW n \in 1..Len(calls')
      PROVE  calls'[n] = All[Made' + n]
  <2>1. n + 1 \in 1..Len(calls) /\ calls'[n] = calls[n + 1]
    BY <1>1
  <2>2. Made + (n + 1) = Made' + n
    BY <1>4, <1>5
  <2>3. QED BY <1>2, <2>1, <2>2
<1>10. QED BY <1>2, <1>3, <1>4, <1>5, <1>6, <1>7, <1>8, <1>9

\* A call that adds an error is one that nothing could have made succeed.
LEMMA CallFails ==
    ASSUME IInv, Call, ~errors, errors'
    PROVE  ~CanBeServed(request, args)'
<1> DEFINE call == Head(calls)
           r == request
           n == args
<1>1. /\ pc = "handling" /\ pc # "down" /\ journal' = journal /\ config' = config
      /\ request' = request /\ args' = args
      /\ FilesInv /\ NoName \notin DOMAIN files /\ ConfigInv
  BY CallParts
<1>2. r \in DOMAIN Handlers /\ call \in CallsOf(Handlers[r])
  BY CallIsNext
<1>3. call \in Range(Handlers[r].calls)
  BY <1>2, RangeOfCalls
<1>4. CASE call.do = "select" /\ errors' = (errors \/ call.db \notin DOMAIN config)
  BY <1>1, <1>3, <1>4 DEF CanBeServed
<1>5. CASE call.do = "select index" /\ errors' = (errors \/ ~HasIndex(config, call.db, call.index))
  BY <1>1, <1>3, <1>5 DEF CanBeServed
<1>6. CASE call.do = "open" /\ OpenPrimary(call.db)
  <2> DEFINE db == call.db
  <2>1. OpenPrimary(db) /\ call.db = db
    BY <1>6
  <2>2. PICK q, m : q = request /\ m = args
    OBVIOUS
  <2>3. q \in DOMAIN Handlers /\ call \in CallsOf(Handlers[q])
    BY <1>2, <2>2
  <2>4. PICK c, d : c = call /\ d = call.db
    OBVIOUS
  <2>5. OpenPrimary(d) /\ c.db = d /\ c \in CallsOf(Handlers[q])
    BY <2>1, <2>3, <2>4
  <2> HIDE DEF call, db
  <2>6. ~CanBeServed(q, m)'
    BY <1>1, <2>3, <2>5, FailedPrimary
  <2>7. QED BY <1>1, <2>2, <2>6
<1>7. CASE call.do = "open index" /\ OpenSecondary(call.db, call.index)
  <2>1. PICK q, m, c, d, i : q = request /\ m = args /\ c = call /\ d = call.db /\ i = call.index
    OBVIOUS
  <2>2. /\ q \in DOMAIN Handlers /\ c \in CallsOf(Handlers[q]) /\ OpenSecondary(d, i)
        /\ c.db = d /\ c.index = i /\ c.do = "open index"
    BY <1>2, <1>7, <2>1
  <2> HIDE DEF call
  <2>3. ~CanBeServed(q, m)'
    BY <1>1, <2>2, FailedSecondary
  <2>4. QED BY <1>1, <2>1, <2>3
<1>8. QED BY <1>4, <1>5, <1>6, <1>7 DEF Call

\* A call that adds no error has seen to what it is for.
LEMMA CallSucceeds ==
    ASSUME IInv, Call, ~errors', NEW c, c = Head(calls)
    PROVE  CallOk(c)'
<1>1. /\ pc = "handling" /\ pc # "down" /\ journal' = journal /\ config' = config
      /\ FilesInv /\ NoName \notin DOMAIN files /\ ConfigInv
  BY CallParts
<1>2. CASE c.do = "select" /\ errors' = (errors \/ c.db \notin DOMAIN config)
  BY <1>1, <1>2 DEF CallOk
<1>3. CASE c.do = "select index" /\ errors' = (errors \/ ~HasIndex(config, c.db, c.index))
  BY <1>1, <1>3 DEF CallOk
<1>4. CASE c.do = "open" /\ OpenPrimary(c.db)
  <2>1. PICK db : db = c.db
    OBVIOUS
  <2>2. db \in DOMAIN config /\ OpenedWell(config[db])'
    BY <1>1, <1>4, <2>1, OpenedPrimary
  <2>3. Primary(config', db) = config'[db]
    BY <1>1, <2>2 DEF Primary, ValueOr
  <2>4. c.do = "open"
    BY <1>4
  <2>5. QED BY <2>1, <2>2, <2>3, <2>4 DEF CallOk
<1>5. CASE c.do = "open index" /\ OpenSecondary(c.db, c.index)
  BY <1>5 DEF CallOk
<1>6. QED BY <1>2, <1>3, <1>4, <1>5 DEF Call

\* The handles of a primary that has been opened are in order by themselves.
LEMMA NewHandlesGuarded ==
    ASSUME IInv, pc # "down", config' = config, journal' = journal,
           NEW db, OpenPrimary(db), ~errors',
           NEW d \in DOMAIN config, NEW i \in DOMAIN config[d].secondaries
    PROVE  GuardedBy(NewHandles(db), d, config[d].secondaries[i].filename, config[d].filename)
<1> DEFINE nh == NewHandles(db)
<1>1. FilesInv /\ NoName \notin DOMAIN files /\ ConfigInv
  BY DEF IInv, TypeOK
<1>2. /\ db \in DOMAIN config
      /\ \A n \in 1..Len(nh) :
            /\ nh[n].attached /\ nh[n].db = db
            /\ \/ nh[n].file = config[db].filename /\ n = Len(nh)
               \/ \E j \in DOMAIN config[db].secondaries :
                     nh[n].file = config[db].secondaries[j].filename
      /\ \A j \in DOMAIN config[db].secondaries :
            \E n \in 1..Len(nh) : nh[n].file = config[db].secondaries[j].filename
      /\ Len(nh) \in Nat \ {0}
  BY <1>1, OpenedPrimary
<1>3. SingleFiles(config)
  BY <1>1, DocumentsAssumption DEF ConfigInv
<1> HIDE DEF nh
<1>4. ASSUME NEW n \in 1..Len(nh), nh[n].file = config[d].filename
      PROVE  \E m \in 1..n : /\ nh[m].attached /\ nh[m].db = d
                             /\ nh[m].file = config[d].secondaries[i].filename
  <2>1. CASE nh[n].file = config[db].filename /\ n = Len(nh)
    <3>0. config[d].filename = config[db].filename
      BY <1>4, <2>1
    <3>1. d = db
      BY <1>2, <1>3, <3>0 DEF SingleFiles
    <3>2. PICK m \in 1..Len(nh) : nh[m].file = config[d].secondaries[i].filename
      BY <1>2, <3>1
    <3>3. QED BY <1>2, <2>1, <3>1, <3>2
  <2>2. CASE \E j \in DOMAIN config[db].secondaries :
                nh[n].file = config[db].secondaries[j].filename
    <3>1. PICK j \in DOMAIN config[db].secondaries :
              nh[n].file = config[db].secondaries[j].filename
      BY <2>2
    <3>2. config[d].filename # config[db].secondaries[j].filename
      BY <1>2, <1>3 DEF SingleFiles
    <3>3. QED BY <1>4, <3>1, <3>2
  <2>3. QED BY <1>2, <2>1, <2>2
<1>5. QED BY <1>4 DEF GuardedBy, nh

\* Nor is one of them, except the last, a handle of a primary's file.
LEMMA NewHandlesOther ==
    ASSUME IInv, pc # "down", config' = config, journal' = journal,
           NEW db, OpenPrimary(db), ~errors', NEW other,
           NEW n \in 1..Len(NewHandles(db)), other # db \/ n # Len(NewHandles(db))
    PROVE  NewHandles(db)[n].file # Primary(config, other).filename
<1> DEFINE nh == NewHandles(db)
<1>1. FilesInv /\ NoName \notin DOMAIN files /\ ConfigInv
  BY DEF IInv, TypeOK
<1>2. /\ db \in DOMAIN config
      /\ nh[n].attached
      /\ \/ nh[n].file = config[db].filename /\ n = Len(nh)
         \/ \E j \in DOMAIN config[db].secondaries :
               nh[n].file = config[db].secondaries[j].filename
  BY <1>1, OpenedPrimary
<1>3. SingleFiles(config)
  BY <1>1, DocumentsAssumption DEF ConfigInv
<1>4. nh[n].file # NoName
  BY <1>1, <1>2, OpenPrimaryKeepsTypes
<1> HIDE DEF nh
<1>5. CASE other \in DOMAIN config
  <2>1. Primary(config, other) = config[other]
    BY <1>5 DEF Primary, ValueOr
  <2>2. CASE nh[n].file = config[db].filename /\ n = Len(nh)
    <3>1. other # db
      BY <2>2 DEF nh
    <3>2. config[db].filename # config[other].filename
      BY <1>2, <1>3, <1>5, <3>1 DEF SingleFiles
    <3>3. nh[n].file # Primary(config, other).filename
      BY <2>1, <2>2, <3>2
    <3>4. QED BY <3>3 DEF nh
  <2>3. CASE \E j \in DOMAIN config[db].secondaries :
                nh[n].file = config[db].secondaries[j].filename
    <3>1. PICK j \in DOMAIN config[db].secondaries :
              nh[n].file = config[db].secondaries[j].filename
      BY <2>3
    <3>2. config[other].filename # config[db].secondaries[j].filename
      BY <1>2, <1>3, <1>5 DEF SingleFiles
    <3>3. nh[n].file # Primary(config, other).filename
      BY <2>1, <3>1, <3>2
    <3>4. QED BY <3>3 DEF nh
  <2>4. QED BY <1>2, <2>2, <2>3
<1>6. CASE other \notin DOMAIN config
  <2>1. Primary(config, other).filename = NoName
    BY <1>6 DEF Primary, ValueOr, NoPrimary
  <2>2. QED BY <1>4, <2>1 DEF nh
<1>7. QED BY <1>5, <1>6

\* What has been opened after a call had been opened before, or is the call.
LEMMA OpenedByNow ==
    ASSUME IInv, Call, ~errors', NEW first, NEW m \in 1..Made', All[m] = Open(first)
    PROVE  (\E k \in 1..Made : All[k] = Open(first)) \/ Head(calls) = Open(first)
<1>1. ~errors
  BY CallKeepsTypes
<1>2. Made \in Nat /\ Made' = Made + 1 /\ Head(calls) = All[Made + 1]
  BY <1>1, CallIsNext
<1>3. m \in 1..Made \/ m = Made + 1
  BY <1>2
<1>4. QED BY <1>2, <1>3

\* What is known of the open handles, in terms of the calls there were before.
LEMMA HandlesBefore ==
    ASSUME IInv, Call, ~errors'
    PROVE  /\ \A n \in 1..Len(closes) : closes[n].attached => closes[n].db \in DOMAIN config
           /\ \A db \in DOMAIN config : \A i \in DOMAIN config[db].secondaries :
                 GuardedBy(closes, db, config[db].secondaries[i].filename, config[db].filename)
           /\ \A n \in 1..(Len(Handlers[request].writes) - 1) :
                 (\E m \in 1..Made : All[m] = Open(Handlers[request].writes[n])) =>
                    GuardedBy(closes, Handlers[request].writes[n],
                              Primary(config, Handlers[request].writes[n]).filename,
                              Primary(config, Handlers[request].writes[n + 1]).filename)
<1>1. pc = "handling" /\ ~errors
  BY CallKeepsTypes, CallParts
<1>2. QED BY <1>1 DEF IInv, HandlesInv

\* Where a call opens no primary the handles that are attached stay as they are.
LEMMA PlainCallHandles ==
    ASSUME IInv, Call, ~errors', Head(calls).do # "open",
           NEW front, IsSequence(front), \A n \in 1..Len(front) : ~front[n].attached,
           closes' = front \o closes
    PROVE  HandlesInv'
<1>1. /\ config' = config /\ request' = request /\ IsSequence(closes) /\ ~errors /\ All' = All
  BY CallParts, CallKeepsTypes, CallIsNext
<1>2. ASSUME NEW db, NEW a, NEW b, GuardedBy(closes, db, a, b)
      PROVE  GuardedBy(closes', db, a, b)
  <2>1. GuardedBy(front, db, a, b)
    BY DEF GuardedBy
  <2>2. QED BY <1>1, <1>2, <2>1, GuardedByFront
<1>3. \A n \in 1..Len(closes') : closes'[n].attached => closes'[n].db \in DOMAIN config
  <2>1. /\ Len(closes') = Len(front) + Len(closes) /\ Len(front) \in Nat /\ Len(closes) \in Nat
        /\ \A n \in 1..(Len(front) + Len(closes)) :
              closes'[n] = IF n <= Len(front) THEN front[n] ELSE closes[n - Len(front)]
    BY <1>1, JoinedSequence, SequenceDomain
  <2>2. ASSUME NEW n \in 1..Len(closes'), closes'[n].attached
        PROVE  closes'[n].db \in DOMAIN config
    <3>1. n > Len(front)
      BY <2>1, <2>2
    <3>2. n - Len(front) \in 1..Len(closes) /\ closes'[n] = closes[n - Len(front)]
      BY <2>1, <3>1
    <3>3. QED BY <2>2, <3>2, HandlesBefore
  <2>3. QED BY <2>2
<1>4. \A db \in DOMAIN config : \A i \in DOMAIN config[db].secondaries :
          GuardedBy(closes', db, config[db].secondaries[i].filename, config[db].filename)
  BY <1>2, HandlesBefore
<1>5. ASSUME NEW n \in 1..(Len(Handlers[request].writes) - 1),
             \E m \in 1..Made' : All[m] = Open(Handlers[request].writes[n])
      PROVE  GuardedBy(closes', Handlers[request].writes[n],
                       Primary(config, Handlers[request].writes[n]).filename,
                       Primary(config, Handlers[request].writes[n + 1]).filename)
  <2>1. Head(calls) # Open(Handlers[request].writes[n])
    BY OpenFields
  <2>2. \E m \in 1..Made : All[m] = Open(Handlers[request].writes[n])
    BY <1>5, <2>1, OpenedByNow
  <2>3. QED BY <1>2, <2>2, HandlesBefore
<1>6. QED BY <1>1, <1>3, <1>4, <1>5 DEF HandlesInv

\* Where it opens one, what is in front of the handles there are is in order,
\* and a database that is written later than another is not opened before it.
LEMMA PrimaryCallHandles ==
    ASSUME IInv, Call, ~errors', NEW db, Head(calls) = Open(db), OpenPrimary(db)
    PROVE  HandlesInv'
<1> DEFINE nh == NewHandles(db)
           h  == Handlers[request]
<1>1. /\ pc # "down" /\ config' = config /\ journal' = journal /\ request' = request
      /\ IsSequence(closes) /\ ~errors /\ All' = All /\ FilesInv /\ NoName \notin DOMAIN files
      /\ ConfigInv
  BY CallParts, CallKeepsTypes, CallIsNext
<1>2. IsSequence(nh) /\ closes' = nh \o closes
  BY <1>1, OpenPrimaryKeepsTypes
<1>3. /\ db \in DOMAIN config /\ Len(nh) \in Nat \ {0}
      /\ \A n \in 1..Len(nh) : nh[n].attached /\ nh[n].db = db
      /\ nh[Len(nh)].file = config[db].filename
  BY <1>1, OpenedPrimary
<1>4. WellMade(h) /\ Made \in Nat /\ Made + 1 \in 1..Len(All) /\ Head(calls) = All[Made + 1]
  BY <1>1, CallIsNext
<1>5. \A n \in 1..Len(closes') : closes'[n].attached => closes'[n].db \in DOMAIN config
  <2>1. /\ Len(closes') = Len(nh) + Len(closes) /\ Len(nh) \in Nat /\ Len(closes) \in Nat
        /\ \A n \in 1..(Len(nh) + Len(closes)) :
              closes'[n] = IF n <= Len(nh) THEN nh[n] ELSE closes[n - Len(nh)]
    BY <1>1, <1>2, JoinedSequence, SequenceDomain
  <2> HIDE DEF nh
  <2>2. ASSUME NEW n \in 1..Len(closes'), closes'[n].attached
        PROVE  closes'[n].db \in DOMAIN config
    <3>1. CASE n <= Len(nh)
      BY <1>3, <2>1, <3>1
    <3>2. CASE n > Len(nh)
      <4>1. n - Len(nh) \in 1..Len(closes) /\ closes'[n] = closes[n - Len(nh)]
        BY <2>1, <3>2
      <4>2. QED BY <2>2, <4>1, HandlesBefore
    <3>3. QED BY <2>1, <3>1, <3>2
  <2>3. QED BY <2>2
<1>6. \A d \in DOMAIN config : \A i \in DOMAIN config[d].secondaries :
          GuardedBy(closes', d, config[d].secondaries[i].filename, config[d].filename)
  <2> TAKE d \in DOMAIN config
  <2> TAKE i \in DOMAIN config[d].secondaries
  <2>1. GuardedBy(nh, d, config[d].secondaries[i].filename, config[d].filename)
    BY <1>1, NewHandlesGuarded
  <2>2. GuardedBy(closes, d, config[d].secondaries[i].filename, config[d].filename)
    BY HandlesBefore
  <2> HIDE DEF nh
  <2>3. QED BY <1>1, <1>2, <2>1, <2>2, GuardedByFront
<1>7. ASSUME NEW n \in 1..(Len(h.writes) - 1),
             \E m \in 1..Made' : All[m] = Open(h.writes[n])
      PROVE  GuardedBy(closes', h.writes[n], Primary(config, h.writes[n]).filename,
                       Primary(config, h.writes[n + 1]).filename)
  <2> DEFINE first == h.writes[n]
             second == h.writes[n + 1]
  <2>1. CASE first = db
    <3>1. Primary(config, first).filename = nh[Len(nh)].file
      BY <1>3, <2>1 DEF Primary, ValueOr
    <3>2. \A k \in 1..(Len(nh) - 1) : nh[k].file # Primary(config, second).filename
      <4> TAKE k \in 1..(Len(nh) - 1)
      <4>1. k \in 1..Len(nh) /\ k # Len(nh)
        BY <1>3
      <4>2. QED BY <1>1, <4>1, NewHandlesOther
    <3>3. Len(nh) >= 1 /\ nh[Len(nh)].attached /\ nh[Len(nh)].db = first
      <4>1. Len(nh) \in 1..Len(nh) /\ Len(nh) >= 1
        BY <1>3
      <4>2. QED BY <1>3, <2>1, <4>1
    <3> HIDE DEF nh, first, second
    <3>4. GuardedBy(nh \o closes, first, Primary(config, first).filename,
                    Primary(config, second).filename)
      BY <1>1, <1>2, <3>1, <3>2, <3>3, GuardedByLast
    <3>5. QED BY <1>2, <3>4 DEF first, second
  <2>2. CASE first # db
    <3>1. PICK m \in 1..Made : All[m] = Open(first)
      <4>1. Head(calls) # Open(first)
        BY <2>2, OpenIsOpen
      <4>2. QED BY <1>7, <4>1, OpenedByNow
    <3>2. second # db
      <4>1. SUFFICES ASSUME second = db
                     PROVE  FALSE
        OBVIOUS
      <4>2. m \in 1..Len(h.calls) /\ Made + 1 \in 1..Len(h.calls)
        BY <1>4 DEF All
      <4>3. h.calls[Made + 1] = Open(second) /\ h.calls[m] = Open(first)
        BY <1>4, <3>1, <4>1 DEF All
      <4>4. Made + 1 < m
        BY <1>4, <4>2, <4>3 DEF WellMade
      <4>5. QED BY <1>4, <4>4
    <3>3. \A k \in 1..Len(nh) : nh[k].file # Primary(config, second).filename
      BY <1>1, <3>2, NewHandlesOther
    <3>4. GuardedBy(nh, first, Primary(config, first).filename,
                    Primary(config, second).filename)
      BY <3>3 DEF GuardedBy
    <3>5. GuardedBy(closes, first, Primary(config, first).filename,
                    Primary(config, second).filename)
      BY <3>1, HandlesBefore
    <3> HIDE DEF nh, first, second
    <3>6. GuardedBy(closes', first, Primary(config, first).filename,
                    Primary(config, second).filename)
      BY <1>1, <1>2, <3>4, <3>5, GuardedByFront
    <3>7. QED BY <3>6 DEF first, second
  <2>3. QED BY <2>1, <2>2
<1>8. QED BY <1>1, <1>5, <1>6, <1>7 DEF HandlesInv

LEMMA CallHandles ==
    ASSUME IInv, Call, ~errors'
    PROVE  HandlesInv'
<1> DEFINE call == Head(calls)
<1>0. IsSequence(closes) /\ closes = <<>> \o closes /\ IsSequence(<<>>) /\ Len(<<>>) = 0
  <2>1. IsSequence(closes) /\ closes \in Seq({closes[n] : n \in 1..Len(closes)})
    BY CallParts, SequenceIn
  <2>2. QED BY <2>1, EmptySequence, ConcatEmptySeq
<1>1. CASE call.do \in {"select", "select index"} /\ UNCHANGED <<files, closes>>
  <2>1. Head(calls).do # "open"
    BY <1>1
  <2>2. \A n \in 1..Len(<<>>) : ~<<>>[n].attached
    BY <1>0
  <2>3. closes' = <<>> \o closes
    BY <1>0, <1>1
  <2>4. QED BY <1>0, <2>1, <2>2, <2>3, PlainCallHandles
<1>2. CASE call.do = "open" /\ OpenPrimary(call.db)
  <2>1. ~errors
    BY CallKeepsTypes
  <2>2. WellMade(Handlers[request]) /\ call \in CallsOf(Handlers[request])
    BY <2>1, CallIsNext
  <2>3. call = Open(call.db)
    BY <1>2, <2>2 DEF WellMade, Complete
  <2>4. PICK db : db = call.db
    OBVIOUS
  <2>5. Head(calls) = Open(db) /\ OpenPrimary(db)
    BY <1>2, <2>3, <2>4
  <2>6. QED BY <2>5, PrimaryCallHandles
<1>3. CASE call.do = "open index" /\ OpenSecondary(call.db, call.index)
  <2>1. PICK handle : closes' = <<handle>> \o closes /\ ~handle.attached
    BY <1>3, CallParts, OpenSecondaryKeepsTypes
  <2>2. IsSequence(<<handle>>) /\ Len(<<handle>>) = 1 /\ <<handle>>[1] = handle
    BY DEF IsSequence
  <2>3. \A n \in 1..Len(<<handle>>) : ~<<handle>>[n].attached
    BY <2>1, <2>2
  <2>4. Head(calls).do # "open"
    BY <1>3
  <2>5. QED BY <2>1, <2>2, <2>3, <2>4, PlainCallHandles
<1>4. QED BY <1>1, <1>2, <1>3 DEF Call

LEMMA CallIInv ==
    ASSUME IInv, Call
    PROVE  IInv'
<1>1. /\ pc = "handling"
      /\ UNCHANGED <<pc, document, config, request, args, dirty, reached, received, journal>>
      /\ IsSequence(calls')
  BY CallParts
<1>2. /\ FilesInv' /\ Grows /\ NoName \notin DOMAIN files'
      /\ \A f \in DOMAIN files : files'[f] = files[f]
      /\ \A f \in DOMAIN files' \ DOMAIN files : files'[f].writes = {}
      /\ IsSequence(closes')
      /\ \A n \in 1..Len(closes') : closes'[n].attached => closes'[n].file \in DOMAIN files'
      /\ errors' \in BOOLEAN /\ (errors => errors')
  BY CallKeepsTypes
<1>3. TypeOK /\ ListsInv /\ dirty = {}
  BY <1>1 DEF IInv, ListsInv
<1>4. TypeOK'
  <2>1. \A f \in DOMAIN files' :
            files'[f].flags \in Flags /\ files'[f].writes \subseteq DOMAIN journal'
    <3> TAKE f \in DOMAIN files'
    <3>1. files'[f] \in [flags : Flags, writes : SUBSET DOMAIN journal']
      BY <1>2 DEF FilesInv
    <3>2. QED BY <3>1
  <2>2. \A n \in DOMAIN closes' : closes'[n].attached => closes'[n].file \in DOMAIN files'
    BY <1>2, SequenceDomain
  <2>3. dirty' \subseteq DOMAIN files' /\ received' \in 0..MaxRequests
        /\ args' \in Seq({"int", "text"}) /\ Len(args') <= 4
        /\ request' \in Requests \cup {NoRequest} /\ pc' \in {"down", "idle", "handling", "closing"}
    BY <1>1, <1>3 DEF TypeOK
  <2>4. reached' \in BOOLEAN
    BY <1>1, <1>3, Zenon DEF TypeOK
  <2>5. pc' \notin {"down", "idle"} /\ pc' # "down"
    BY <1>1
  <2>6. QED BY <1>2, <2>1, <2>2, <2>3, <2>4, <2>5, Zenon DEF TypeOK
<1>5. ConfigInv' /\ ListsInv' /\ ClosingInv'
  BY <1>1, <1>2, <1>3 DEF IInv, ConfigInv, ListsInv, ClosingInv
<1>6. FlushedInOrder'
  <2>1. SUFFICES ASSUME NEW w \in DOMAIN journal, NEW p \in journal[w],
                        p[2] \in DOMAIN files', w \in files'[p[2]].writes
                 PROVE  p[1] \in DOMAIN files' /\ w \in files'[p[1]].writes
    BY <1>1 DEF FlushedInOrder
  <2>2. p[2] \in DOMAIN files /\ w \in files[p[2]].writes
    BY <1>2, <2>1
  <2>3. p[1] \in DOMAIN files /\ w \in files[p[1]].writes
    BY <2>2 DEF IInv, FlushedInOrder
  <2>4. QED BY <1>2, <2>3 DEF Grows
<1>7. ~errors' => ~errors
  BY <1>2
<1>8. CallsInv'
  <2>1. SUFFICES ASSUME ~errors'
                 PROVE  /\ request' \in DOMAIN Handlers /\ Understands(Handlers[request'], args')
                        /\ Len(calls') <= Len(All')
                        /\ \A n \in 1..Len(calls') : calls'[n] = All'[Made' + n]
    BY DEF CallsInv, Understands
  <2>2. Understands(Handlers[request], args)
    BY <1>1, <1>7, <2>1 DEF IInv, CallsInv
  <2>3. QED BY <1>1, <1>7, <2>1, <2>2, CallIsNext
<1>9. MadeInv'
  <2>1. SUFFICES ASSUME ~errors', NEW m \in 1..Made', NEW c, c = All'[m]
                 PROVE  CallOk(c)'
    BY DEF MadeInv
  <2>2. Made \in Nat /\ Made' = Made + 1 /\ All' = All /\ Head(calls) = All[Made + 1]
    BY <1>7, <2>1, CallIsNext
  <2>3. c = All[m]
    BY <2>1, <2>2
  <2>4. CASE m = Made + 1
    <3>1. c = Head(calls)
      BY <2>2, <2>3, <2>4
    <3>2. CallOk(c)'
      BY <2>1, <3>1, CallSucceeds
    <3>3. QED BY <3>2
  <2>5. CASE m \in 1..Made
    <3>1. CallOk(c)
      BY <1>1, <1>7, <2>1, <2>3, <2>5 DEF IInv, MadeInv
    <3>2. CallOk(c)'
      BY <1>1, <1>2, <3>1, CallOkStays
    <3>3. QED BY <3>2
  <2>6. QED BY <2>1, <2>2, <2>4, <2>5
<1>10. FailedInv'
  <2>1. ~reached'
    BY <1>1 DEF IInv, FailedInv
  <2>2. errors' => ~CanBeServed(request, args)'
    <3>1. CASE errors
      <4>1. ~CanBeServed(request, args)
        BY <1>1, <3>1 DEF IInv, FailedInv
      <4>2. PICK q, n : q = request /\ n = args
        OBVIOUS
      <4>3. ~CanBeServed(q, n)'
        BY <1>1, <1>2, <4>1, <4>2, ServedStays
      <4>4. QED BY <1>1, <4>2, <4>3
    <3>2. CASE ~errors
      BY <3>2, CallFails
    <3>3. QED BY <3>1, <3>2
  <2>3. QED BY <1>1, <2>1, <2>2 DEF FailedInv
<1>11. HandlesInv'
  <2>1. CASE ~errors'
    BY <2>1, CallHandles
  <2>2. CASE errors'
    BY <2>2 DEF HandlesInv
  <2>3. QED BY <2>1, <2>2
<1>12. QED BY <1>2, <1>4, <1>5, <1>6, <1>8, <1>9, <1>10, <1>11 DEF IInv

-----------------------------------------------------------------------------
(* The specification                                                       *)

LEMMA NextIInv ==
    ASSUME IInv, [Next]_vars
    PROVE  IInv'
<1>1. ASSUME NEW json \in Documents, NEW options \in SUBSET {"d", "h"}, Start(json, options)
      PROVE  IInv'
  BY <1>1, StartIInv
<1>2. ASSUME NEW r \in Requests, NEW a \in ArgumentsOf(r), Receive(r, a)
      PROVE  IInv'
  BY <1>2, ReceiveIInv
<1>3. CASE Skip
  BY <1>3, SkipIInv
<1>4. CASE Call
  BY <1>4, CallIInv
<1>5. CASE CallDao
  BY <1>5, CallDaoIInv
<1>6. CASE GiveUp
  BY <1>6, GiveUpIInv
<1>7. CASE Close
  BY <1>7, CloseIInv
<1>8. CASE Return
  <2>1. Forget /\ UNCHANGED <<files, journal, received>> /\ pc' = "idle" /\ pc # "down"
        /\ config' = config /\ document' = document
    BY <1>8 DEF Return
  <2>2. QED BY <2>1, ForgottenIInv
<1>9. CASE Die
  <2>1. Forget /\ UNCHANGED <<files, journal, received>> /\ pc' = "down" /\ config' = <<>>
    BY <1>9 DEF Die
  <2>2. QED BY <2>1, ForgottenIInv
<1>10. CASE UNCHANGED vars
  BY <1>10, UnchangedIInv
<1>11. QED
  BY <1>1, <1>2, <1>3, <1>4, <1>5, <1>6, <1>7, <1>8, <1>9, <1>10 DEF Next

\* The inductive invariant holds in every state of every behaviour: whatever
\* the documents the program is started with, the requests it gets and the
\* points it dies at.
THEOREM SpecIInv == Spec => []IInv
<1>1. Init => IInv
  BY InitIInv
<1>2. IInv /\ [Next]_vars => IInv'
  BY NextIInv
<1>3. QED BY <1>1, <1>2, PTL DEF Spec

\* The server runs on what the document says, whatever the document: from_json
\* reads no configuration in part, and the last entry of a name counts, with
\* all of its indexes (bdb_databases_config.cpp).
THEOREM SpecConfigExact == Spec => []ConfigExact
<1>1. IInv => ConfigExact
  BY DocumentsAssumption, ReadDescribes DEF IInv, ConfigInv, ConfigExact
<1>2. QED BY <1>1, SpecIInv, PTL

\* Types, and that an attached handle is one of a file there is
\* (Dconf_request_handler's locals, bdb_databases.hpp).
THEOREM SpecTypeOK == Spec => []TypeOK
<1>1. IInv => TypeOK
  BY DEF IInv
<1>2. QED BY <1>1, SpecIInv, PTL

\* A handler reaches its DAO call if and only if the request can be served,
\* whichever of the three ways it checks errors in and whatever is left in the
\* directory (dconf_request_handlers.hpp, order_request_handlers.cpp).
THEOREM SpecDaoReachedExactly == Spec => []DaoReachedExactly
<1>1. IInv => DaoReachedExactly
  BY DEF IInv, FailedInv, DaoReachedExactly
<1>2. QED BY <1>1, SpecIInv, PTL

\* No death of the process leaves a file ahead of one it depends on: the
\* handles of the DAO call's databases close in an order in which index
\* entries come before their row, and what a handler writes first before what
\* it writes second (the destructors of ~Bdb_db, in reverse order).
THEOREM SpecFlushedInOrder == Spec => []FlushedInOrder
<1>1. IInv => FlushedInOrder
  BY DEF IInv
<1>2. QED BY <1>1, SpecIInv, PTL
=============================================================================

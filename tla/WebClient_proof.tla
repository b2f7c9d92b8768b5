-------------------------- MODULE WebClient_proof --------------------------
(***************************************************************************)
(* For any users, orders and items, and any number of clicks, requests and *)
(* lost answers: what the page shows once nothing is under way, provided   *)
(* that requests and answers stay in the order they were sent.             *)
(***************************************************************************)
EXTENDS WebClient, SequenceTheorems, TLAPS

-----------------------------------------------------------------------------
(* The inductive invariant                                                 *)

\* What is under way, the oldest first: a request keeps its place when it is
\* executed.
UnderWay(a, s) ==
    [n \in 1..(Len(a) + Len(s)) |-> IF n <= Len(a) THEN a[n][1] ELSE s[n - Len(a)]]

Pending == UnderWay(answers, sent)

\* A request of this name is under way.
Asked(p, name) == \E n \in DOMAIN p : p[n][1] = name

\* Those behind the last one named "last" are about x.
AskedAfter(p, name, last, x) ==
    \A n \in DOMAIN p :
        p[n][1] = name /\ (\A m \in DOMAIN p : m > n => p[m][1] # last) => p[n][2] = x

\* Each one named a has one named b behind it.
Follows(p, a, b) ==
    \A n \in DOMAIN p : p[n][1] = a => \E m \in DOMAIN p : m > n /\ p[m][1] = b

OrdersOfUser == "order_select_all_for_account_id"
ItemsOfOrder == "order_select_all_items"
PoolOfOrder == "order_select_other_items"

\* What the answers carry.
Suits(req, data) ==
    /\ req[1] = "account_select_all" => data = Users
    /\ req[1] = OrdersOfUser => data \in SUBSET Orders
    /\ req[1] = ItemsOfOrder => data \in [Items -> Nat]
    /\ req[1] = PoolOfOrder => data \in SUBSET Items

MessagesInv ==
    /\ sent \in Seq(Requests)
    /\ Len(answers) \in Nat
    /\ answers = [n \in 1..Len(answers) |-> answers[n]]
    /\ \A n \in 1..Len(answers) :
          /\ answers[n] = <<answers[n][1], answers[n][2]>>
          /\ answers[n][1] \in Requests
          /\ answers[n][2] # NoAnswer => Suits(answers[n][1], answers[n][2])

\* Before a user is chosen nothing is there and nothing was asked but the users.
NoUserInv ==
    user = NoUser =>
        /\ orderTable = NoTable /\ itemTable = NoTable /\ poolTable = NoTable
        /\ shown = {}
        /\ \A n \in DOMAIN sent : sent[n][1] = "account_select_all"
        /\ \A n \in DOMAIN answers : answers[n][1][1] = "account_select_all"

TypeInv == TypeOK /\ MessagesInv /\ NoUserInv

\* An answer is as good as the store, or a line was added since and the page is
\* still to be told.
AddedBehind(n) == \E m \in DOMAIN answers : m > n /\ answers[m][1][1] = "order_add_item"
Added == \E m \in DOMAIN answers : answers[m][1][1] = "order_add_item"

NoLess(o, rows) == \A i \in Items : lines[o][i] <= rows[i]

AnswersInv ==
    \A n \in DOMAIN answers :
        answers[n][2] # NoAnswer =>
            /\ answers[n][1][1] = ItemsOfOrder =>
                  AddedBehind(n) \/ NoLess(answers[n][1][2], answers[n][2])
            /\ answers[n][1][1] = PoolOfOrder =>
                  AddedBehind(n) \/ answers[n][2] \subseteq Available(answers[n][1][2])

\* The last thing asked for a table is what the page shows as selected.
AskedInv ==
    /\ AskedAfter(Pending, OrdersOfUser, OrdersOfUser, user)
    /\ AskedAfter(Pending, ItemsOfOrder, ItemsOfOrder, order)
    /\ AskedAfter(Pending, PoolOfOrder, ItemsOfOrder, order)

\* A table agrees with what is selected, or it will be filled again, or its
\* answer was lost.
OrderTableInv ==
    \/ Asked(Pending, OrdersOfUser) \/ orderTable = NoTable \/ "order" \in stale
    \/ orderTable.of = user

ItemTableInv ==
    \/ Asked(Pending, ItemsOfOrder) \/ itemTable = NoTable \/ "item" \in stale
    \/ itemTable.of = order /\ (Added \/ NoLess(order, itemTable.rows))

PoolTableInv ==
    \/ Asked(Pending, ItemsOfOrder) \/ poolTable = NoTable
    \/ stale \cap {"item", "pool"} # {}
    \/ poolTable.of = order /\ (Added \/ poolTable.rows \subseteq Available(order))

\* While an order is edited, what takes the pool away is followed by what
\* brings it back.
EditingInv ==
    editing =>
        /\ Follows(Pending, ItemsOfOrder, PoolOfOrder)
        /\ highlighted # NoOrder /\ "pool" \notin stale =>
              poolTable # NoTable \/ Asked(Pending, PoolOfOrder)

HighlightedInv ==
    highlighted # NoOrder =>
        /\ highlighted = order
        /\ "item" \notin stale => itemTable # NoTable \/ Asked(Pending, ItemsOfOrder)

IInv ==
    /\ TypeInv
    /\ AnswersInv
    /\ AskedInv
    /\ OrderTableInv
    /\ ItemTableInv
    /\ PoolTableInv
    /\ EditingInv
    /\ HighlightedInv

-----------------------------------------------------------------------------
(* Sequences of messages                                                   *)

\* The sequence without its k-th member.
Without(s, k) == [n \in 1..(Len(s) - 1) |-> IF n < k THEN s[n] ELSE s[n + 1]]

\* What a handler takes out of a sequence leaves the others in their order.
LEMMA RemoveAtIsWithout ==
    ASSUME NEW S, NEW s \in Seq(S), NEW k \in 1..Len(s)
    PROVE  /\ RemoveAt(s, k) = Without(s, k)
           /\ Without(s, k) \in Seq(S)
           /\ Len(Without(s, k)) = Len(s) - 1
<1> DEFINE a == SubSeq(s, 1, k - 1)
           b == SubSeq(s, k + 1, Len(s))
           w == Without(s, k)
<1>0. Len(s) \in Nat /\ \A n \in 1..Len(s) : s[n] \in S
  BY LenProperties, ElementOfSeq
<1>1. a \in Seq(S) /\ Len(a) = k - 1 /\ \A n \in 1..(k - 1) : a[n] = s[n]
  <2>1. \A n \in 1..(k - 1) : s[n] \in S
    BY <1>0
  <2>2. /\ a \in Seq(S)
        /\ Len(a) = IF 1 <= k - 1 THEN k - 1 - 1 + 1 ELSE 0
        /\ \A n \in 1..(k - 1 - 1 + 1) : a[n] = s[1 + n - 1]
    BY <2>1, <1>0, SubSeqProperties
  <2> QED
    BY <2>2, <1>0
<1>2. /\ b \in Seq(S) /\ Len(b) = Len(s) - k
      /\ \A n \in 1..(Len(s) - k) : b[n] = s[k + n]
  <2>1. \A n \in (k + 1)..Len(s) : s[n] \in S
    BY <1>0
  <2>2. /\ b \in Seq(S)
        /\ Len(b) = IF k + 1 <= Len(s) THEN Len(s) - (k + 1) + 1 ELSE 0
        /\ \A n \in 1..(Len(s) - (k + 1) + 1) : b[n] = s[k + 1 + n - 1]
    BY <2>1, <1>0, SubSeqProperties
  <2> QED
    BY <2>2, <1>0
<1> HIDE DEF a, b
<1>3. /\ a \o b \in Seq(S)
      /\ Len(a \o b) = Len(a) + Len(b)
      /\ \A n \in 1..(Len(a) + Len(b)) :
            (a \o b)[n] = IF n <= Len(a) THEN a[n] ELSE b[n - Len(a)]
  BY <1>1, <1>2, ConcatProperties
<1>4. Len(a \o b) = Len(s) - 1 /\ Len(s) - 1 \in Nat
  BY <1>0, <1>1, <1>2, <1>3
<1>5. \A n \in 1..(Len(s) - 1) : (a \o b)[n] = IF n < k THEN s[n] ELSE s[n + 1]
  <2> TAKE n \in 1..(Len(s) - 1)
  <2>1. (a \o b)[n] = IF n <= Len(a) THEN a[n] ELSE b[n - Len(a)]
    BY <1>0, <1>1, <1>2, <1>3
  <2>2. CASE n < k
    <3>1. n <= Len(a) /\ n \in 1..(k - 1)
      BY <1>1, <2>2
    <3> QED
      BY <1>1, <2>1, <2>2, <3>1
  <2>3. CASE ~(n < k)
    <3>1. ~(n <= Len(a)) /\ n - Len(a) \in 1..(Len(s) - k) /\ k + (n - Len(a)) = n + 1
      BY <1>0, <1>1, <2>3
    <3>2. b[n - Len(a)] = s[k + (n - Len(a))]
      BY <1>2, <3>1
    <3> QED
      BY <2>1, <2>3, <3>1, <3>2
  <2> QED
    BY <2>2, <2>3
<1>6. w \in Seq(S) /\ Len(w) = Len(s) - 1
  <2>1. w \in [1..(Len(s) - 1) -> S]
    BY <1>0 DEF Without
  <2> QED
    BY <2>1, <1>4
<1>7. \A n \in 1..Len(a \o b) : (a \o b)[n] = w[n]
  BY <1>4, <1>5 DEF Without
<1>8. a \o b = w
  <2> HIDE DEF w
  <2> QED
    BY <1>3, <1>4, <1>6, <1>7, SeqEqual
<1> QED
  BY <1>6, <1>8 DEF RemoveAt, a, b

\* A sequence is a function of its positions.
LEMMA SeqIsFunction ==
    ASSUME NEW S, NEW s \in Seq(S)
    PROVE  s = [n \in 1..Len(s) |-> s[n]] /\ Len(s) \in Nat
BY LenProperties

\* The members of a sequence without its k-th.
LEMMA WithoutMembers ==
    ASSUME NEW S, NEW p \in Seq(S), NEW k \in 1..Len(p)
    PROVE  /\ DOMAIN p = 1..Len(p) /\ Len(p) \in Nat
           /\ DOMAIN Without(p, k) = 1..(Len(p) - 1)
           /\ \A n \in 1..(Len(p) - 1) :
                 Without(p, k)[n] = IF n < k THEN p[n] ELSE p[n + 1]
BY LenProperties DEF Without

\* A request that is sent is under way, and nothing else is that was not.
LEMMA AppendAsked ==
    ASSUME NEW p \in Seq(Requests), NEW r \in Requests, NEW name
    PROVE  Asked(Append(p, r), name) <=> Asked(p, name) \/ r[1] = name
BY SMTT(30) DEF Asked

LEMMA AppendAskedAfter ==
    ASSUME NEW p \in Seq(Requests), NEW r \in Requests, NEW name, NEW last, NEW x,
           AskedAfter(p, name, last, x), r[1] = name => r[2] = x
    PROVE  AskedAfter(Append(p, r), name, last, x)
BY DEF AskedAfter

\* A request that begins anew leaves no earlier one to be right.
LEMMA AppendLast ==
    ASSUME NEW p \in Seq(Requests), NEW r \in Requests, NEW name, NEW last, NEW x,
           r[1] = last, name = last => r[2] = x
    PROVE  AskedAfter(Append(p, r), name, last, x)
<1> DEFINE q == Append(p, r)
<1>1. Len(p) \in Nat /\ DOMAIN q = 1..(Len(p) + 1) /\ q[Len(p) + 1] = r
  OBVIOUS
<1> HIDE DEF q
<1>2. ASSUME NEW n \in DOMAIN q, q[n][1] = name, \A m \in DOMAIN q : m > n => q[m][1] # last
      PROVE  q[n][2] = x
  <2>1. n = Len(p) + 1
    BY <1>1, <1>2
  <2> QED
    BY <1>1, <1>2, <2>1
<1> QED
  BY <1>2 DEF AskedAfter, q

LEMMA AppendFollows ==
    ASSUME NEW p \in Seq(Requests), NEW r \in Requests, NEW a, NEW b,
           Follows(p, a, b), r[1] # a
    PROVE  Follows(Append(p, r), a, b)
BY DEF Follows

LEMMA AppendFollowed ==
    ASSUME NEW p \in Seq(Requests), NEW r \in Requests, NEW a, NEW b,
           r[1] = b, a # b
    PROVE  Follows(Append(p, r), a, b)
<1> DEFINE q == Append(p, r)
<1>1. Len(p) \in Nat /\ DOMAIN q = 1..(Len(p) + 1) /\ q[Len(p) + 1] = r
  OBVIOUS
<1> HIDE DEF q
<1>2. ASSUME NEW n \in DOMAIN q, q[n][1] = a
      PROVE  \E m \in DOMAIN q : m > n /\ q[m][1] = b
  <2>1. n # Len(p) + 1
    BY <1>1, <1>2
  <2>2. Len(p) + 1 > n /\ Len(p) + 1 \in DOMAIN q
    BY <1>1, <2>1
  <2> QED
    BY <1>1, <2>2
<1> QED
  BY <1>2 DEF Follows, q

\* Of what is under way only the one that is taken out is no longer.
LEMMA WithoutAsked ==
    ASSUME NEW p \in Seq(Requests), NEW k \in 1..Len(p), NEW name
    PROVE  /\ Asked(Without(p, k), name) => Asked(p, name)
           /\ Asked(p, name) => Asked(Without(p, k), name) \/ p[k][1] = name
<1> DEFINE q == Without(p, k)
<1>1. /\ DOMAIN p = 1..Len(p) /\ Len(p) \in Nat
      /\ DOMAIN q = 1..(Len(p) - 1)
      /\ \A n \in 1..(Len(p) - 1) : q[n] = IF n < k THEN p[n] ELSE p[n + 1]
  BY WithoutMembers
<1> HIDE DEF q
<1>2. ASSUME NEW n \in DOMAIN q
      PROVE  \E m \in DOMAIN p : q[n] = p[m]
  <2>1. n \in DOMAIN p /\ n + 1 \in DOMAIN p
    BY <1>1
  <2> QED
    BY <1>1, <2>1
<1>3. ASSUME NEW n \in DOMAIN p, n # k
      PROVE  \E m \in DOMAIN q : q[m] = p[n]
  <2>1. CASE n < k
    BY <1>1, <2>1
  <2>2. CASE n > k
    <3>1. n - 1 \in DOMAIN q /\ ~(n - 1 < k) /\ n - 1 + 1 = n
      BY <1>1, <2>2
    <3> QED
      BY <1>1, <3>1
  <2> QED
    BY <1>1, <1>3, <2>1, <2>2
<1>4. Asked(q, name) => Asked(p, name)
  BY <1>2 DEF Asked
<1>5. Asked(p, name) => Asked(q, name) \/ p[k][1] = name
  BY <1>3 DEF Asked
<1> QED
  BY <1>4, <1>5 DEF q

LEMMA WithoutAskedAfter ==
    ASSUME NEW p \in Seq(Requests), NEW k \in 1..Len(p), NEW name, NEW last, NEW x,
           AskedAfter(p, name, last, x), k = 1 \/ p[k][1] # last
    PROVE  AskedAfter(Without(p, k), name, last, x)
<1> DEFINE q == Without(p, k)
<1>1. /\ DOMAIN p = 1..Len(p) /\ Len(p) \in Nat
      /\ DOMAIN q = 1..(Len(p) - 1)
      /\ \A n \in 1..(Len(p) - 1) : q[n] = IF n < k THEN p[n] ELSE p[n + 1]
  BY WithoutMembers
<1> HIDE DEF q
<1>2. ASSUME NEW n \in DOMAIN q, q[n][1] = name, \A m \in DOMAIN q : m > n => q[m][1] # last
      PROVE  q[n][2] = x
  <2> DEFINE o == IF n < k THEN n ELSE n + 1
  <2>1. o \in DOMAIN p /\ p[o] = q[n]
    BY <1>1
  <2>2. ASSUME NEW m \in DOMAIN p, m > o
        PROVE  p[m][1] # last
    <3>1. CASE m < k
      BY <1>1, <1>2, <2>2, <3>1
    <3>2. CASE m = k
      BY <1>1, <2>2, <3>2
    <3>3. CASE m > k
      <4>1. m - 1 \in DOMAIN q /\ ~(m - 1 < k) /\ m - 1 + 1 = m /\ m - 1 > n
        BY <1>1, <2>2, <3>3
      <4>2. q[m - 1] = p[m]
        BY <1>1, <4>1
      <4> QED
        BY <1>2, <4>1, <4>2
    <3> QED
      BY <1>1, <3>1, <3>2, <3>3
  <2> HIDE DEF o
  <2> QED
    BY <1>2, <2>1, <2>2 DEF AskedAfter
<1> QED
  BY <1>2 DEF AskedAfter, q

LEMMA WithoutFollows ==
    ASSUME NEW p \in Seq(Requests), NEW k \in 1..Len(p), NEW a, NEW b,
           Follows(p, a, b), k = 1 \/ p[k][1] # b
    PROVE  Follows(Without(p, k), a, b)
<1> DEFINE q == Without(p, k)
<1>1. /\ DOMAIN p = 1..Len(p) /\ Len(p) \in Nat
      /\ DOMAIN q = 1..(Len(p) - 1)
      /\ \A n \in 1..(Len(p) - 1) : q[n] = IF n < k THEN p[n] ELSE p[n + 1]
  BY WithoutMembers
<1> HIDE DEF q
<1>2. ASSUME NEW n \in DOMAIN q, q[n][1] = a
      PROVE  \E m \in DOMAIN q : m > n /\ q[m][1] = b
  <2> DEFINE o == IF n < k THEN n ELSE n + 1
  <2>1. o \in DOMAIN p /\ p[o] = q[n]
    BY <1>1
  <2>2. PICK m \in DOMAIN p : m > o /\ p[m][1] = b
    <3> HIDE DEF o
    <3> QED
      BY <1>2, <2>1 DEF Follows
  <2>3. CASE m < k
    BY <1>1, <2>2, <2>3
  <2>4. CASE m = k
    BY <1>1, <2>2, <2>4
  <2>5. CASE m > k
    <3>1. m - 1 \in DOMAIN q /\ ~(m - 1 < k) /\ m - 1 + 1 = m /\ m - 1 > n
      BY <1>1, <2>2, <2>5
    <3>2. q[m - 1] = p[m]
      BY <1>1, <3>1
    <3> QED
      BY <2>2, <3>1, <3>2
  <2> QED
    BY <1>1, <2>3, <2>4, <2>5
<1> QED
  BY <1>2 DEF Follows, q

\* The oldest message, if none behind it begins anew, is about x.
LEMMA HeadAskedAfter ==
    ASSUME NEW p \in Seq(Requests), 1 \in 1..Len(p), NEW name, NEW last, NEW x,
           AskedAfter(p, name, last, x), p[1][1] = name, ~Asked(Without(p, 1), last)
    PROVE  p[1][2] = x
<1> DEFINE q == Without(p, 1)
<1>1. /\ DOMAIN p = 1..Len(p) /\ Len(p) \in Nat
      /\ DOMAIN q = 1..(Len(p) - 1)
      /\ \A n \in 1..(Len(p) - 1) : q[n] = IF n < 1 THEN p[n] ELSE p[n + 1]
  BY WithoutMembers
<1> HIDE DEF q
<1>2. ASSUME NEW m \in DOMAIN p, m > 1
      PROVE  p[m][1] # last
  <2>1. m - 1 \in DOMAIN q /\ ~(m - 1 < 1) /\ m - 1 + 1 = m
    BY <1>1, <1>2
  <2>2. q[m - 1] = p[m]
    BY <1>1, <2>1
  <2> QED
    BY <2>1, <2>2 DEF Asked, q
<1> QED
  BY <1>1, <1>2 DEF AskedAfter

LEMMA HeadFollows ==
    ASSUME NEW p \in Seq(Requests), 1 \in 1..Len(p), NEW a, NEW b,
           Follows(p, a, b), p[1][1] = a
    PROVE  Asked(Without(p, 1), b)
<1> DEFINE q == Without(p, 1)
<1>1. /\ DOMAIN p = 1..Len(p) /\ Len(p) \in Nat
      /\ DOMAIN q = 1..(Len(p) - 1)
      /\ \A n \in 1..(Len(p) - 1) : q[n] = IF n < 1 THEN p[n] ELSE p[n + 1]
  BY WithoutMembers
<1> HIDE DEF q
<1>2. PICK m \in DOMAIN p : m > 1 /\ p[m][1] = b
  BY <1>1 DEF Follows
<1>3. m - 1 \in DOMAIN q /\ ~(m - 1 < 1) /\ m - 1 + 1 = m
  BY <1>1, <1>2
<1>4. q[m - 1] = p[m]
  BY <1>1, <1>3
<1> QED
  BY <1>2, <1>3, <1>4 DEF Asked, q

-----------------------------------------------------------------------------
(* The messages                                                            *)

LEMMA RequestShape ==
    ASSUME NEW r \in Requests
    PROVE  /\ r[1] \in {"account_select_all", OrdersOfUser, ItemsOfOrder, PoolOfOrder,
                        "order_remove", "order_add_item", "order_remove_item"}
           /\ r[1] = OrdersOfUser => r[2] \in Users
           /\ r[1] \in {ItemsOfOrder, PoolOfOrder, "order_remove", "order_add_item",
                        "order_remove_item"} => r[2] \in AnyOrder
           /\ r[1] \in {"order_add_item", "order_remove_item"} => r[3] \in Items
BY DEF Requests, OrdersOfUser, ItemsOfOrder, PoolOfOrder

\* The answers are a sequence.
LEMMA AnswersSeq ==
    ASSUME MessagesInv
    PROVE  \E S : answers \in Seq(S)
<1> DEFINE S == {answers[n] : n \in 1..Len(answers)}
           f == [n \in 1..Len(answers) |-> answers[n]]
<1>1. f \in [1..Len(answers) -> S]
  OBVIOUS
<1>2. f \in Seq(S)
  BY <1>1 DEF MessagesInv
<1> QED
  BY <1>2 DEF MessagesInv

LEMMA AfterSend ==
    ASSUME MessagesInv, NEW r \in Requests, SendRequests(<<r>>), UNCHANGED answers
    PROVE  /\ MessagesInv' /\ sent' = Append(sent, r)
           /\ Len(sent') = Len(sent) + 1 /\ Len(sent) \in Nat
           /\ \A n \in 1..Len(sent) : sent'[n] = sent[n]
           /\ sent'[Len(sent) + 1] = r
<1>1. sent' = Append(sent, r)
  BY AppendIsConcat DEF SendRequests, MessagesInv
<1>2. sent \in Seq(Requests)
  BY DEF MessagesInv
<1>3. /\ sent' \in Seq(Requests) /\ Len(sent) \in Nat
      /\ Len(sent') = Len(sent) + 1
      /\ \A n \in 1..Len(sent) : sent'[n] = sent[n]
      /\ sent'[Len(sent) + 1] = r
  BY <1>1, <1>2, AppendProperties, LenProperties
<1> QED
  BY <1>1, <1>3 DEF MessagesInv, Suits

\* A request that has come to its end is no longer sent.
LEMMA AfterRemoval ==
    ASSUME MessagesInv, NEW n \in DOMAIN sent
    PROVE  /\ n \in 1..Len(sent) /\ Len(sent) \in Nat /\ sent[n] \in Requests
           /\ RemoveAt(sent, n) = Without(sent, n)
           /\ Without(sent, n) \in Seq(Requests)
           /\ Len(Without(sent, n)) = Len(sent) - 1
           /\ \A m \in DOMAIN Without(sent, n) : \E k \in DOMAIN sent :
                 Without(sent, n)[m] = sent[k]
<1>1. sent \in Seq(Requests) /\ Len(sent) \in Nat /\ n \in 1..Len(sent)
  BY LenProperties DEF MessagesInv
<1>2. sent[n] \in Requests
  BY <1>1, ElementOfSeq
<1>3. /\ RemoveAt(sent, n) = Without(sent, n)
      /\ Without(sent, n) \in Seq(Requests)
      /\ Len(Without(sent, n)) = Len(sent) - 1
  BY <1>1, RemoveAtIsWithout
<1>4. ASSUME NEW m \in DOMAIN Without(sent, n)
      PROVE  \E k \in DOMAIN sent : Without(sent, n)[m] = sent[k]
  <2>1. /\ DOMAIN sent = 1..Len(sent) /\ m \in 1..(Len(sent) - 1)
        /\ Without(sent, n)[m] = IF m < n THEN sent[m] ELSE sent[m + 1]
    BY <1>1, WithoutMembers
  <2>2. m \in DOMAIN sent /\ m + 1 \in DOMAIN sent
    BY <1>1, <2>1
  <2> QED
    BY <2>1, <2>2
<1> QED
  BY <1>1, <1>2, <1>3, <1>4

\* An answer, or the news that there is none, is the last to come.
LEMMA AfterEnd ==
    ASSUME MessagesInv, NEW req \in Requests, NEW data, End(req, data)
    PROVE  /\ Len(answers) \in Nat /\ Len(answers') = Len(answers) + 1
           /\ answers' = [m \in 1..Len(answers') |-> answers'[m]]
           /\ \A m \in 1..Len(answers) : answers'[m] = answers[m]
           /\ answers'[Len(answers) + 1] = <<req, data>>
<1>1. PICK S : answers \in Seq(S)
  BY AnswersSeq
<1> DEFINE T == S \cup {<<req, data>>}
<1>2. answers \in Seq(T)
  BY <1>1, SeqMonotonic
<1>3. <<req, data>> \in T
  OBVIOUS
<1> HIDE DEF T
<1>4. /\ answers' \in Seq(T)
      /\ Len(answers') = Len(answers) + 1
      /\ \A m \in 1..Len(answers) : answers'[m] = answers[m]
      /\ answers'[Len(answers) + 1] = <<req, data>>
  BY <1>2, <1>3, AppendProperties DEF End
<1>5. answers' = [m \in 1..Len(answers') |-> answers'[m]] /\ Len(answers) \in Nat
  BY <1>2, <1>4, SeqIsFunction
<1> QED
  BY <1>4, <1>5

\* An answer that has been received is no longer under way.
LEMMA AfterReceive ==
    ASSUME MessagesInv, NEW n \in DOMAIN answers
    PROVE  /\ n \in 1..Len(answers) /\ Len(answers) \in Nat
           /\ RemoveAt(answers, n) = Without(answers, n)
           /\ Len(Without(answers, n)) = Len(answers) - 1
           /\ DOMAIN Without(answers, n) = 1..(Len(answers) - 1)
           /\ \A m \in 1..(Len(answers) - 1) :
                 Without(answers, n)[m] = IF m < n THEN answers[m] ELSE answers[m + 1]
<1>1. PICK S : answers \in Seq(S)
  BY AnswersSeq
<1>2. Len(answers) \in Nat /\ n \in 1..Len(answers)
  BY <1>1, LenProperties
<1> QED
  BY <1>1, <1>2, RemoveAtIsWithout, WithoutMembers

LEMMA MessagesAfterRemoval ==
    ASSUME MessagesInv, NEW n \in DOMAIN sent, sent' = RemoveAt(sent, n),
           UNCHANGED answers
    PROVE  MessagesInv'
BY AfterRemoval DEF MessagesInv, Suits

LEMMA MessagesAfterEnd ==
    ASSUME MessagesInv, NEW n \in DOMAIN sent, sent' = RemoveAt(sent, n),
           NEW data, End(sent[n], data), data # NoAnswer => Suits(sent[n], data)
    PROVE  MessagesInv'
<1>1. sent' \in Seq(Requests) /\ sent[n] \in Requests
  BY AfterRemoval
<1>2. /\ Len(answers) \in Nat /\ Len(answers') = Len(answers) + 1
      /\ answers' = [m \in 1..Len(answers') |-> answers'[m]]
      /\ \A m \in 1..Len(answers) : answers'[m] = answers[m]
      /\ answers'[Len(answers) + 1] = <<sent[n], data>>
  BY <1>1, AfterEnd
<1>3. ASSUME NEW m \in 1..Len(answers')
      PROVE  /\ answers'[m] = <<answers'[m][1], answers'[m][2]>>
             /\ answers'[m][1] \in Requests
             /\ answers'[m][2] # NoAnswer => Suits(answers'[m][1], answers'[m][2])
  <2>1. CASE m = Len(answers) + 1
    BY <1>1, <1>2, <2>1
  <2>2. CASE m # Len(answers) + 1
    <3>1. m \in 1..Len(answers)
      BY <1>2, <2>2
    <3> QED
      BY <1>2, <3>1 DEF MessagesInv
  <2> QED
    BY <2>1, <2>2
<1>4. ASSUME NEW m \in 1..Len(answers')
      PROVE  (answers[m][2] # NoAnswer => Suits(answers[m][1], answers[m][2]))'
  BY <1>3 DEF Suits
<1>5. Len(answers') \in Nat
  BY <1>2
<1> QED
  BY <1>1, <1>2, <1>3, <1>4, <1>5 DEF MessagesInv

LEMMA MessagesAfterReceive ==
    ASSUME MessagesInv, NEW n \in DOMAIN answers, answers' = RemoveAt(answers, n),
           sent' \in Seq(Requests)
    PROVE  MessagesInv'
<1>1. /\ n \in 1..Len(answers) /\ Len(answers) \in Nat
      /\ answers' = Without(answers, n)
      /\ Len(answers') = Len(answers) - 1
      /\ \A m \in 1..(Len(answers) - 1) :
            answers'[m] = IF m < n THEN answers[m] ELSE answers[m + 1]
  BY AfterReceive
<1>2. answers' = [m \in 1..Len(answers') |-> answers'[m]]
  BY <1>1 DEF Without
<1>3. ASSUME NEW m \in 1..Len(answers')
      PROVE  \E k \in 1..Len(answers) : answers'[m] = answers[k]
  <2>1. m \in 1..Len(answers) /\ m + 1 \in 1..Len(answers)
    BY <1>1
  <2> QED
    BY <1>1, <2>1
<1>4. ASSUME NEW m \in 1..Len(answers')
      PROVE  /\ answers'[m] = <<answers'[m][1], answers'[m][2]>>
             /\ answers'[m][1] \in Requests
             /\ answers'[m][2] # NoAnswer => Suits(answers'[m][1], answers'[m][2])
  BY <1>3 DEF MessagesInv
<1>5. ASSUME NEW m \in 1..Len(answers')
      PROVE  (answers[m][2] # NoAnswer => Suits(answers[m][1], answers[m][2]))'
  BY <1>4 DEF Suits
<1> QED
  BY <1>1, <1>2, <1>4, <1>5 DEF MessagesInv

\* TypeOK's part about the messages is MessagesInv's.
LEMMA MessagesTyped ==
    MessagesInv' => /\ (\A n \in DOMAIN sent : sent[n] \in Requests)'
                    /\ (\A n \in DOMAIN answers : answers[n][1] \in Requests)'
<1> SUFFICES ASSUME MessagesInv'
             PROVE  /\ (\A n \in DOMAIN sent : sent[n] \in Requests)'
                    /\ (\A n \in DOMAIN answers : answers[n][1] \in Requests)'
  OBVIOUS
<1>1. (\A n \in DOMAIN sent : sent[n] \in Requests)'
  BY LenProperties, ElementOfSeq DEF MessagesInv
<1>2. DOMAIN answers' = 1..Len(answers')
  BY DEF MessagesInv
<1>3. (\A n \in DOMAIN answers : answers[n][1] \in Requests)'
  BY <1>2 DEF MessagesInv
<1> QED
  BY <1>1, <1>3

-----------------------------------------------------------------------------
(* Types, whatever the order in which messages are handled                 *)

LEMMA TypeInit == Init => TypeInv
<1> SUFFICES ASSUME Init
             PROVE  TypeInv
  OBVIOUS
<1> DEFINE r == <<"account_select_all">>
<1>1. r \in Requests
  BY DEF Requests
<1>2. sent = <<r>> /\ answers = <<>>
  BY DEF Init
<1>3. sent \in Seq(Requests) /\ Len(sent) = 1 /\ sent[1] = r
  BY <1>1, <1>2
<1>4. MessagesInv
  <2>1. answers = [n \in 1..Len(answers) |-> answers[n]] /\ Len(answers) = 0
    BY <1>2
  <2> QED
    BY <1>3, <2>1 DEF MessagesInv
<1>5. NoUserInv
  BY <1>2, <1>3 DEF NoUserInv, Init
<1>6. lines \in [AnyOrder -> [Items -> Nat]]
  BY DEF Init
<1>7. \A n \in DOMAIN sent : sent[n] \in Requests
  BY <1>1, <1>2
<1>8. \A n \in DOMAIN answers : answers[n][1] \in Requests
  BY <1>2
<1>9. TypeOK
  BY <1>6, <1>7, <1>8 DEF TypeOK, Init, AnyOrder
<1> QED
  BY <1>4, <1>5, <1>9 DEF TypeInv

\* A click that sends a request.
LEMMA TypeSelectUser ==
    ASSUME TypeInv, NEW u \in Users, SelectUser(u)
    PROVE  TypeInv'
<1> USE DEF TypeInv, SelectUser
<1>1. <<"order_select_all_for_account_id", u>> \in Requests
  BY DEF Requests
<1>2. MessagesInv'
  BY <1>1, AfterSend
<1>3. NoUserInv'
  BY WebClientAssumption DEF NoUserInv
<1>4. TypeOK'
  BY <1>2, MessagesTyped DEF TypeOK, tables, store
<1> QED
  BY <1>2, <1>3, <1>4

LEMMA TypeClickOrder ==
    ASSUME TypeInv, NEW o \in Orders, ClickOrder(o)
    PROVE  TypeInv'
<1> USE DEF TypeInv, ClickOrder
<1>1. <<"order_select_all_items", o>> \in Requests
  BY DEF Requests, AnyOrder
<1>2. MessagesInv'
  BY <1>1, AfterSend
<1>3. NoUserInv'
  BY DEF NoUserInv
<1>4. TypeOK'
  BY <1>2, MessagesTyped DEF TypeOK, AnyOrder, store
<1> QED
  BY <1>2, <1>3, <1>4

LEMMA TypeClickDelete ==
    ASSUME TypeInv, ClickDelete
    PROVE  TypeInv'
<1> USE DEF TypeInv, ClickDelete
<1>1. <<"order_remove", order>> \in Requests
  BY DEF Requests, TypeOK
<1>2. MessagesInv'
  BY <1>1, AfterSend
<1>3. NoUserInv'
  BY DEF NoUserInv, Clickable
<1>4. TypeOK'
  BY <1>2, MessagesTyped DEF TypeOK, tables, store
<1> QED
  BY <1>2, <1>3, <1>4

LEMMA TypeClickEdit ==
    ASSUME TypeInv, ClickEdit
    PROVE  TypeInv'
<1> USE DEF TypeInv, ClickEdit
<1>1. <<"order_select_other_items", order>> \in Requests
  BY DEF Requests, TypeOK
<1>2. MessagesInv'
  BY <1>1, AfterSend
<1>3. NoUserInv'
  BY DEF NoUserInv, Clickable
<1>4. TypeOK'
  BY <1>2, MessagesTyped DEF TypeOK, tables, store
<1> QED
  BY <1>2, <1>3, <1>4

LEMMA TypeClickRemove ==
    ASSUME TypeInv, ClickRemove
    PROVE  TypeInv'
<1> USE DEF TypeInv, ClickRemove, selection
<1>1. <<"order_remove_item", order, itemRow>> \in Requests
  BY DEF Requests, TypeOK
<1>2. MessagesInv'
  BY <1>1, AfterSend
<1>3. NoUserInv'
  BY DEF NoUserInv, Clickable
<1>4. TypeOK'
  BY <1>2, MessagesTyped DEF TypeOK, tables, store
<1> QED
  BY <1>2, <1>3, <1>4

LEMMA TypeClickAdd ==
    ASSUME TypeInv, ClickAdd
    PROVE  TypeInv'
<1> USE DEF TypeInv, ClickAdd, selection
<1>1. <<"order_add_item", order, poolRow>> \in Requests
  BY DEF Requests, TypeOK
<1>2. MessagesInv'
  BY <1>1, AfterSend
<1>3. NoUserInv'
  BY DEF NoUserInv, Clickable
<1>4. TypeOK'
  BY <1>2, MessagesTyped DEF TypeOK, tables, store
<1> QED
  BY <1>2, <1>3, <1>4

LEMMA TypeReload ==
    ASSUME TypeInv, Reload
    PROVE  TypeInv'
<1> USE DEF TypeInv, Reload, selection
<1> DEFINE r == <<"account_select_all">>
<1>1. r \in Requests
  BY DEF Requests
<1>2. MessagesInv' /\ sent' = Append(sent, r)
  BY <1>1, AfterSend
<1>3. sent = <<>> /\ answers' = <<>>
  BY DEF Quiet
<1>4. sent' = <<r>>
  BY <1>2, <1>3
<1>5. \A n \in DOMAIN sent' : sent'[n][1] = "account_select_all"
  BY <1>4
<1>6. NoUserInv'
  BY <1>3, <1>5 DEF NoUserInv, tables
<1>7. TypeOK'
  BY <1>2, MessagesTyped DEF TypeOK, tables, store
<1> QED
  BY <1>2, <1>6, <1>7

\* A click that chooses a row.
LEMMA TypeClickItem ==
    ASSUME TypeInv, NEW i \in Items, ClickItem(i) \/ ClickPoolItem(i)
    PROVE  TypeInv'
<1> USE DEF TypeInv, ClickItem, ClickPoolItem, network
<1>1. MessagesInv'
  BY DEF MessagesInv, Suits
<1>2. NoUserInv'
  BY DEF NoUserInv, tables
<1>3. TypeOK'
  BY <1>1, MessagesTyped DEF TypeOK, tables, store
<1> QED
  BY <1>1, <1>2, <1>3

\* The page while the server works.
LEMMA TypePageAlone ==
    ASSUME TypeInv, MessagesInv', UNCHANGED <<userList, selection, tables, shown, stale>>,
           orders' \subseteq Orders, lines' \in [AnyOrder -> [Items -> Nat]]
    PROVE  TypeOK'
BY MessagesTyped DEF TypeInv, TypeOK, selection, tables

LEMMA NoUserEnd ==
    ASSUME TypeInv, NEW n \in DOMAIN sent, sent' = RemoveAt(sent, n),
           NEW data, End(sent[n], data),
           UNCHANGED <<userList, selection, tables, shown, stale>>
    PROVE  NoUserInv'
<1> SUFFICES ASSUME user = NoUser
             PROVE  NoUserInv'
  BY DEF NoUserInv, selection
<1> USE DEF TypeInv
<1>1. /\ sent[n] \in Requests
      /\ \A m \in DOMAIN sent' : \E k \in DOMAIN sent : sent'[m] = sent[k]
  BY AfterRemoval
<1>2. /\ Len(answers) \in Nat /\ Len(answers') = Len(answers) + 1
      /\ answers' = [m \in 1..Len(answers') |-> answers'[m]]
      /\ \A m \in 1..Len(answers) : answers'[m] = answers[m]
      /\ answers'[Len(answers) + 1] = <<sent[n], data>>
  BY <1>1, AfterEnd
<1>3. DOMAIN answers = 1..Len(answers)
  BY DEF MessagesInv
<1>4. ASSUME NEW m \in DOMAIN answers'
      PROVE  answers'[m][1][1] = "account_select_all"
  <2>1. CASE m = Len(answers) + 1
    BY <1>2, <2>1 DEF NoUserInv
  <2>2. CASE m # Len(answers) + 1
    <3>1. m \in 1..Len(answers)
      BY <1>2, <2>2
    <3> QED
      BY <1>2, <1>3, <3>1 DEF NoUserInv
  <2> QED
    BY <2>1, <2>2
<1>5. \A m \in DOMAIN sent' : sent'[m][1] = "account_select_all"
  BY <1>1 DEF NoUserInv
<1> QED
  BY <1>4, <1>5 DEF NoUserInv, tables

LEMMA TypeLoseRequest ==
    ASSUME TypeInv, NEW n \in DOMAIN sent, LoseRequest(n)
    PROVE  TypeInv'
<1> USE DEF TypeInv, LoseRequest
<1>1. MessagesInv'
  BY MessagesAfterEnd
<1>2. NoUserInv'
  BY NoUserEnd
<1>3. TypeOK'
  BY <1>1, TypePageAlone DEF TypeOK, store
<1> QED
  BY <1>1, <1>2, <1>3

\* What the server does to its store.
LEMMA StoreTypes ==
    ASSUME TypeInv, NEW o \in AnyOrder, NEW i \in Items,
           AddLine(o, i) \/ RemoveLine(o, i) \/ RemoveOrder(o)
    PROVE  orders' \subseteq Orders /\ lines' \in [AnyOrder -> [Items -> Nat]]
<1> USE DEF TypeInv, TypeOK
<1>1. CASE AddLine(o, i)
  BY <1>1 DEF AddLine
<1>2. CASE RemoveLine(o, i)
  <2>1. lines[o] \in [Items -> Nat] /\ lines[o][i] \in Nat
    OBVIOUS
  <2>2. CASE lines[o][i] = 0
    BY <1>2, <2>2 DEF RemoveLine, ItemsOf
  <2>3. CASE lines[o][i] # 0
    <3>1. lines' = [lines EXCEPT ![o] = [lines[o] EXCEPT ![i] = lines[o][i] - 1]]
      BY <1>2, <2>3 DEF RemoveLine, ItemsOf
    <3>2. [lines[o] EXCEPT ![i] = lines[o][i] - 1] \in [Items -> Nat]
      BY <2>1, <2>3
    <3> QED
      BY <1>2, <3>1, <3>2 DEF RemoveLine
  <2> QED
    BY <2>2, <2>3
<1>3. CASE RemoveOrder(o)
  BY <1>3 DEF RemoveOrder
<1> QED
  BY <1>1, <1>2, <1>3

\* What execution of a request comes to: an effect on the store, and an answer
\* that suits it, none, or the news that it is lost.
LEMMA ExecuteCases ==
    ASSUME TypeInv, NEW n \in DOMAIN sent, Execute(n)
    PROVE  /\ sent' = RemoveAt(sent, n)
           /\ UNCHANGED <<userList, selection, tables, shown, stale>>
           /\ orders' \subseteq Orders /\ lines' \in [AnyOrder -> [Items -> Nat]]
           /\ \/ /\ sent[n][1] = "order_remove_item" /\ UNCHANGED answers
                 /\ RemoveLine(sent[n][2], sent[n][3])
              \/ /\ sent[n][1] # "order_remove_item"
                 /\ \E data :
                       /\ End(sent[n], data)
                       /\ data # NoAnswer =>
                             /\ Suits(sent[n], data)
                             /\ sent[n][1] = ItemsOfOrder => data = ItemsOf(sent[n][2])
                             /\ sent[n][1] = PoolOfOrder => data = Available(sent[n][2])
                 /\ \/ UNCHANGED store
                    \/ sent[n][1] = "order_remove" /\ RemoveOrder(sent[n][2])
                    \/ sent[n][1] = "order_add_item" /\ AddLine(sent[n][2], sent[n][3])
<1> DEFINE req == sent[n]
           Answer(data) == End(req, data) \/ (LossBounded /\ End(req, NoAnswer))
           Ended == \E data :
                       /\ End(req, data)
                       /\ data # NoAnswer =>
                             /\ Suits(req, data)
                             /\ req[1] = ItemsOfOrder => data = ItemsOf(req[2])
                             /\ req[1] = PoolOfOrder => data = Available(req[2])
<1>1. req \in Requests
  BY AfterRemoval DEF TypeInv
<1>2. orders \subseteq Orders /\ lines \in [AnyOrder -> [Items -> Nat]]
  BY DEF TypeInv, TypeOK
<1>3. req[2] \in AnyOrder => ItemsOf(req[2]) \in [Items -> Nat]
  BY <1>2 DEF ItemsOf
<1>4. /\ sent' = RemoveAt(sent, n)
      /\ UNCHANGED <<userList, selection, tables, shown, stale>>
  BY DEF Execute
<1>5. \A data :
         Answer(data) /\ Suits(req, data)
           /\ (req[1] = ItemsOfOrder => data = ItemsOf(req[2]))
           /\ (req[1] = PoolOfOrder => data = Available(req[2])) => Ended
  OBVIOUS
<1> DEFINE Shown ==
        /\ orders' \subseteq Orders /\ lines' \in [AnyOrder -> [Items -> Nat]]
        /\ \/ req[1] = "order_remove_item" /\ UNCHANGED answers /\ RemoveLine(req[2], req[3])
           \/ /\ req[1] # "order_remove_item"
              /\ Ended
              /\ \/ UNCHANGED store
                 \/ req[1] = "order_remove" /\ RemoveOrder(req[2])
                 \/ req[1] = "order_add_item" /\ AddLine(req[2], req[3])
<1> HIDE DEF req, Answer, Ended
<1>a. ASSUME req[1] = "account_select_all" /\ Answer(Users) /\ UNCHANGED store
      PROVE  Shown
  <2>1. Ended
    BY <1>5, <1>a DEF Suits, OrdersOfUser, ItemsOfOrder, PoolOfOrder
  <2> QED
    BY <1>2, <1>a, <2>1 DEF store
<1>b. ASSUME req[1] = OrdersOfUser /\ Answer(OrdersOf(req[2])) /\ UNCHANGED store
      PROVE  Shown
  <2>1. Ended
    BY <1>2, <1>5, <1>b DEF Suits, OrdersOfUser, ItemsOfOrder, PoolOfOrder, OrdersOf
  <2> QED
    BY <1>2, <1>b, <2>1 DEF store, OrdersOfUser
<1>c. ASSUME req[1] = ItemsOfOrder /\ Answer(ItemsOf(req[2])) /\ UNCHANGED store
      PROVE  Shown
  <2>0. req[2] \in AnyOrder
    BY <1>1, <1>c, RequestShape
  <2>1. Ended
    BY <1>3, <1>5, <1>c, <2>0 DEF Suits, OrdersOfUser, ItemsOfOrder, PoolOfOrder
  <2> QED
    BY <1>2, <1>c, <2>1 DEF store, ItemsOfOrder
<1>d. ASSUME req[1] = PoolOfOrder /\ Answer(Available(req[2])) /\ UNCHANGED store
      PROVE  Shown
  <2>1. Ended
    BY <1>5, <1>d DEF Suits, OrdersOfUser, ItemsOfOrder, PoolOfOrder, Available
  <2> QED
    BY <1>2, <1>d, <2>1 DEF store, PoolOfOrder
<1>e. ASSUME req[1] = "order_remove" /\ RemoveOrder(req[2]) /\ Answer({})
      PROVE  Shown
  <2>1. Ended
    BY <1>5, <1>e DEF Suits, OrdersOfUser, ItemsOfOrder, PoolOfOrder
  <2>2. orders' \subseteq Orders /\ lines' \in [AnyOrder -> [Items -> Nat]]
    BY <1>2, <1>e DEF RemoveOrder
  <2> QED
    BY <1>e, <2>1, <2>2
<1>f. ASSUME req[1] = "order_add_item" /\ AddLine(req[2], req[3]) /\ Answer({})
      PROVE  Shown
  <2>1. Ended
    BY <1>5, <1>f DEF Suits, OrdersOfUser, ItemsOfOrder, PoolOfOrder
  <2>2. req[2] \in AnyOrder /\ req[3] \in Items
    BY <1>1, <1>f, RequestShape
  <2>3. orders' \subseteq Orders /\ lines' \in [AnyOrder -> [Items -> Nat]]
    BY <1>f, <2>2, StoreTypes
  <2> QED
    BY <1>f, <2>1, <2>3
<1>g. ASSUME req[1] = "order_remove_item", RemoveLine(req[2], req[3]), UNCHANGED answers
      PROVE  Shown
  <2>1. req[2] \in AnyOrder /\ req[3] \in Items
    BY <1>1, <1>g, RequestShape
  <2>2. orders' \subseteq Orders /\ lines' \in [AnyOrder -> [Items -> Nat]]
    BY <1>g, <2>1, StoreTypes
  <2> QED
    BY <1>g, <2>2
<1>6. Shown
  <2> HIDE DEF Shown
  <2> QED
    BY <1>a, <1>b, <1>c, <1>d, <1>e, <1>f, <1>g
       DEF Execute, req, Answer, OrdersOfUser, ItemsOfOrder, PoolOfOrder
<1> QED
  BY <1>4, <1>6 DEF req, Ended

LEMMA TypeExecute ==
    ASSUME TypeInv, NEW n \in DOMAIN sent, Execute(n)
    PROVE  TypeInv'
<1>1. /\ sent' = RemoveAt(sent, n)
      /\ UNCHANGED <<userList, selection, tables, shown, stale>>
      /\ orders' \subseteq Orders /\ lines' \in [AnyOrder -> [Items -> Nat]]
  BY ExecuteCases
<1>2. MessagesInv /\ NoUserInv
  BY DEF TypeInv
<1>3. CASE sent[n][1] = "order_remove_item" /\ UNCHANGED answers
  <2>1. MessagesInv'
    BY <1>1, <1>2, <1>3, MessagesAfterRemoval
  <2>2. \A m \in DOMAIN sent' : \E k \in DOMAIN sent : sent'[m] = sent[k]
    BY <1>1, <1>2, AfterRemoval
  <2>3. NoUserInv'
    BY <1>1, <1>2, <1>3, <2>2 DEF NoUserInv, selection, tables
  <2> QED
    BY <1>1, <2>1, <2>3, TypePageAlone DEF TypeInv
<1>4. CASE \E data : /\ End(sent[n], data)
                     /\ data # NoAnswer => Suits(sent[n], data)
  <2>1. PICK data : End(sent[n], data) /\ (data # NoAnswer => Suits(sent[n], data))
    BY <1>4
  <2>2. MessagesInv'
    BY <1>1, <1>2, <2>1, MessagesAfterEnd
  <2>3. NoUserInv'
    BY <1>1, <2>1, NoUserEnd
  <2> QED
    BY <1>1, <2>2, <2>3, TypePageAlone DEF TypeInv
<1> QED
  BY <1>3, <1>4, ExecuteCases

\* What the page has received.
LEMMA Received ==
    ASSUME TypeInv, NEW n \in DOMAIN answers
    PROVE  /\ answers[n][1] \in Requests
           /\ answers[n][2] # NoAnswer => Suits(answers[n][1], answers[n][2])
           /\ user = NoUser => answers[n][1][1] = "account_select_all"
<1>1. n \in 1..Len(answers)
  BY AfterReceive DEF TypeInv
<1> QED
  BY <1>1 DEF TypeInv, MessagesInv, NoUserInv

\* Nothing else happens before there is a user.
LEMMA NoUserReceive ==
    ASSUME TypeInv, NEW n \in DOMAIN answers, Receive(n)
    PROVE  NoUserInv'
<1> SUFFICES ASSUME user = NoUser
             PROVE  NoUserInv'
  BY DEF NoUserInv, Receive, selection
<1>1. answers[n][1][1] = "account_select_all"
  BY Received
<1>2. answers' = Without(answers, n)
  BY AfterReceive DEF TypeInv, Receive
<1>3. \A m \in DOMAIN answers' : \E k \in DOMAIN answers : answers'[m] = answers[k]
  <2> TAKE m \in DOMAIN answers'
  <2>1. /\ Len(answers) \in Nat /\ DOMAIN answers = 1..Len(answers)
        /\ m \in 1..(Len(answers) - 1)
        /\ answers'[m] = IF m < n THEN answers[m] ELSE answers[m + 1]
    BY <1>2, AfterReceive DEF TypeInv, MessagesInv
  <2>2. m \in DOMAIN answers /\ m + 1 \in DOMAIN answers
    BY <2>1
  <2> QED
    BY <2>1, <2>2
<1>4. UNCHANGED <<tables, shown, sent>>
  BY <1>1 DEF Receive, Succeed, Fail
<1> QED
  BY <1>3, <1>4 DEF TypeInv, NoUserInv, tables

LEMMA TypeFail ==
    ASSUME TypeInv, NEW n \in DOMAIN answers, Receive(n), Fail(answers[n][1])
    PROVE  TypeInv'
<1>1. MessagesInv'
  BY MessagesAfterReceive DEF TypeInv, MessagesInv, Receive, Fail
<1>2. Fills(answers[n][1]) \subseteq {"order", "item", "pool"}
  BY DEF Fills
<1>3. TypeOK'
  BY <1>1, <1>2, MessagesTyped, ZenonT(40)
     DEF TypeInv, TypeOK, Receive, Fail, selection, tables, store
<1> QED
  BY <1>1, <1>3, NoUserReceive DEF TypeInv

LEMMA TypeSucceed ==
    ASSUME TypeInv, NEW n \in DOMAIN answers, Receive(n), answers[n][2] # NoAnswer
    PROVE  TypeInv'
<1> DEFINE req == answers[n][1]
           data == answers[n][2]
<1>1. req \in Requests /\ Suits(req, data) /\ (user = NoUser => req[1] = "account_select_all")
  BY Received
<1>2. /\ answers' = RemoveAt(answers, n) /\ Succeed(req, data)
      /\ UNCHANGED <<selection, store>>
  BY DEF Receive
<1>3. TypeOK /\ MessagesInv
  BY DEF TypeInv
<1> HIDE DEF req, data
<1> USE DEF selection, store
<1>a. ASSUME req[1] = "account_select_all", userList' = data,
             UNCHANGED <<tables, shown, sent, stale>>
      PROVE  MessagesInv' /\ TypeOK'
  <2>1. MessagesInv'
    BY <1>2, <1>3, <1>a, MessagesAfterReceive DEF MessagesInv
  <2>2. data = Users
    BY <1>1, <1>a DEF Suits
  <2> QED
    BY <1>2, <1>3, <1>a, <2>1, <2>2, MessagesTyped DEF TypeOK, tables
<1>b. ASSUME req[1] = OrdersOfUser, CreateOrders(req[2], data), stale' = {},
             UNCHANGED userList
      PROVE  MessagesInv' /\ TypeOK'
  <2>1. MessagesInv'
    BY <1>2, <1>3, <1>b, MessagesAfterReceive DEF MessagesInv, CreateOrders
  <2>2. data \in SUBSET Orders /\ req[2] \in Users
    BY <1>1, <1>b, RequestShape DEF Suits
  <2>3. /\ orderTable' \in [of : Users, rows : SUBSET Orders]
        /\ highlighted' = NoOrder /\ itemTable' = NoTable /\ poolTable' = NoTable
        /\ shown' \subseteq {"order", "item", "pool"} /\ "pool" \notin shown'
    BY <1>3, <1>b, <2>2 DEF CreateOrders, TypeOK, AfterItemClear
  <2> QED
    BY <1>2, <1>3, <1>b, <2>1, <2>3, MessagesTyped DEF TypeOK, AnyOrder
<1>c. ASSUME req[1] = ItemsOfOrder, CreateItems(req[2], data),
             stale' = stale \ {"item", "pool"}, UNCHANGED userList
      PROVE  MessagesInv' /\ TypeOK'
  <2>1. MessagesInv'
    BY <1>2, <1>3, <1>c, MessagesAfterReceive DEF MessagesInv, CreateItems
  <2>2. data \in [Items -> Nat] /\ req[2] \in AnyOrder
    BY <1>1, <1>c, RequestShape DEF Suits
  <2>3. /\ itemTable' \in [of : AnyOrder, rows : [Items -> Nat]]
        /\ poolTable' = NoTable /\ UNCHANGED <<orderTable, highlighted>>
        /\ shown' \subseteq {"order", "item", "pool"} /\ "pool" \notin shown'
    BY <1>3, <1>c, <2>2 DEF CreateItems, TypeOK, AfterItemClear
  <2> QED
    BY <1>2, <1>3, <1>c, <2>1, <2>3, MessagesTyped DEF TypeOK
<1>d. ASSUME req[1] = PoolOfOrder, CreatePool(req[2], data),
             stale' = stale \ {"pool"}, UNCHANGED userList
      PROVE  MessagesInv' /\ TypeOK'
  <2>1. MessagesInv'
    BY <1>2, <1>3, <1>d, MessagesAfterReceive DEF MessagesInv, CreatePool
  <2>2. data \in SUBSET Items /\ req[2] \in AnyOrder
    BY <1>1, <1>d, RequestShape DEF Suits
  <2>3. /\ poolTable' \in [of : AnyOrder, rows : SUBSET Items]
        /\ UNCHANGED <<orderTable, highlighted, itemTable>>
        /\ shown' \subseteq {"order", "item", "pool"}
    BY <1>3, <1>d, <2>2 DEF CreatePool, TypeOK
  <2>4. poolTable' # NoTable
    BY <2>3, NoTableAssumption
  <2> QED
    BY <1>2, <1>3, <1>d, <2>1, <2>3, <2>4, MessagesTyped DEF TypeOK
<1>e. ASSUME req[1] = "order_remove", RefreshOrders, UNCHANGED <<userList, stale>>
      PROVE  MessagesInv' /\ TypeOK'
  <2>1. user \in Users
    BY <1>1, <1>3, <1>e DEF TypeOK
  <2>2. <<"order_select_all_for_account_id", user>> \in Requests
    BY <2>1 DEF Requests
  <2>3. sent' \in Seq(Requests)
    BY <1>3, <1>e, <2>2, ConcatProperties DEF MessagesInv, RefreshOrders, SendRequests
  <2>4. MessagesInv'
    BY <1>2, <1>3, <2>3, MessagesAfterReceive
  <2> QED
    BY <1>2, <1>3, <1>e, <2>4, MessagesTyped DEF TypeOK, tables, RefreshOrders
<1>f. ASSUME req[1] = "order_add_item", RefreshItems, UNCHANGED <<userList, stale>>
      PROVE  MessagesInv' /\ TypeOK'
  <2>2. /\ <<"order_select_all_items", order>> \in Requests
        /\ <<"order_select_other_items", order>> \in Requests
    BY <1>3 DEF Requests, TypeOK
  <2>3. sent' \in Seq(Requests)
    BY <1>3, <1>f, <2>2, ConcatProperties DEF MessagesInv, RefreshItems, SendRequests
  <2>4. MessagesInv'
    BY <1>2, <1>3, <2>3, MessagesAfterReceive
  <2> QED
    BY <1>2, <1>3, <1>f, <2>4, MessagesTyped DEF TypeOK, tables, RefreshItems
<1>4. MessagesInv' /\ TypeOK'
  BY <1>2, <1>a, <1>b, <1>c, <1>d, <1>e, <1>f
     DEF Succeed, OrdersOfUser, ItemsOfOrder, PoolOfOrder
<1> QED
  BY <1>4, NoUserReceive DEF TypeInv

LEMMA TypeStutter ==
    ASSUME TypeInv, UNCHANGED vars
    PROVE  TypeInv'
BY DEF TypeInv, TypeOK, MessagesInv, Suits, NoUserInv, vars, selection, tables, network,
       store

LEMMA TypeNext ==
    ASSUME TypeInv, [Next]_vars
    PROVE  TypeInv'
<1>1. CASE Click
  BY <1>1, TypeSelectUser, TypeClickOrder, TypeClickItem, TypeClickDelete, TypeClickEdit,
     TypeClickRemove, TypeClickAdd, TypeReload DEF Click
<1>2. CASE Serve
  <2>1. PICK n \in DOMAIN sent : Execute(n) \/ LoseRequest(n)
    BY <1>2 DEF Serve, Due
  <2> QED
    BY <2>1, TypeExecute, TypeLoseRequest
<1>3. CASE Answered
  <2>1. PICK n \in DOMAIN answers : Receive(n)
    BY <1>3 DEF Answered, Due
  <2>2. CASE answers[n][2] = NoAnswer
    BY <2>1, <2>2, TypeFail DEF Receive
  <2>3. CASE answers[n][2] # NoAnswer
    BY <2>1, <2>3, TypeSucceed
  <2> QED
    BY <2>2, <2>3
<1>4. CASE UNCHANGED vars
  BY <1>4, TypeStutter
<1> QED
  BY <1>1, <1>2, <1>3, <1>4 DEF Next

LEMMA SpecTypeInv == Spec => []TypeInv
<1>1. Init => TypeInv
  BY TypeInit
<1>2. TypeInv /\ [Next]_vars => TypeInv'
  BY TypeNext
<1> QED
  BY <1>1, <1>2, PTL DEF Spec

\* The page's data have their types in every state (home.js and the tables it
\* creates): the row shown as selected is one of the order table, and the
\* pool's buttons are displayed only with its table, whatever was lost or came
\* out of order.
THEOREM SpecTypeOK == Spec => []TypeOK
<1>1. TypeInv => TypeOK
  BY DEF TypeInv
<1> QED
  BY <1>1, SpecTypeInv, PTL

-----------------------------------------------------------------------------
(* What is under way                                                       *)

\* Answers are answers to requests.
Answers(a) == Len(a) \in Nat /\ \A n \in 1..Len(a) : a[n][1] \in Requests

LEMMA UnderWaySeq ==
    ASSUME NEW a, Answers(a), NEW s \in Seq(Requests)
    PROVE  /\ UnderWay(a, s) \in Seq(Requests)
           /\ Len(UnderWay(a, s)) = Len(a) + Len(s) /\ Len(s) \in Nat
           /\ \A n \in 1..Len(a) : UnderWay(a, s)[n] = a[n][1]
           /\ \A n \in 1..Len(s) : UnderWay(a, s)[Len(a) + n] = s[n]
<1>1. Len(a) \in Nat /\ Len(s) \in Nat /\ Len(a) + Len(s) \in Nat
  BY LenProperties DEF Answers
<1>2. \A n \in 1..Len(s) : s[n] \in Requests
  BY ElementOfSeq
<1>3. UnderWay(a, s) \in [1..(Len(a) + Len(s)) -> Requests]
  BY <1>1, <1>2 DEF UnderWay, Answers
<1>4. UnderWay(a, s) \in Seq(Requests) /\ Len(UnderWay(a, s)) = Len(a) + Len(s)
  BY <1>1, <1>3
<1> QED
  BY <1>1, <1>4 DEF UnderWay

\* A request that is sent comes behind what is under way.
LEMMA UnderWayAppend ==
    ASSUME NEW a, Answers(a), NEW s \in Seq(Requests), NEW r \in Requests
    PROVE  /\ Append(s, r) \in Seq(Requests)
           /\ UnderWay(a, Append(s, r)) = Append(UnderWay(a, s), r)
<1> DEFINE t == Append(s, r)
           p == UnderWay(a, s)
           q == UnderWay(a, t)
           u == Append(p, r)
<1>1. /\ t \in Seq(Requests) /\ Len(t) = Len(s) + 1
      /\ \A n \in 1..Len(s) : t[n] = s[n]
      /\ t[Len(s) + 1] = r
  BY AppendProperties
<1>2. /\ p \in Seq(Requests) /\ Len(p) = Len(a) + Len(s) /\ Len(s) \in Nat
      /\ \A n \in 1..Len(a) : p[n] = a[n][1]
      /\ \A n \in 1..Len(s) : p[Len(a) + n] = s[n]
  BY UnderWaySeq
<1> HIDE DEF t
<1>3. /\ q \in Seq(Requests) /\ Len(q) = Len(a) + Len(t)
      /\ \A n \in 1..Len(a) : q[n] = a[n][1]
      /\ \A n \in 1..Len(t) : q[Len(a) + n] = t[n]
  BY <1>1, UnderWaySeq
<1> HIDE DEF p, q
<1>4. /\ u \in Seq(Requests) /\ Len(u) = Len(p) + 1
      /\ \A n \in 1..Len(p) : u[n] = p[n]
      /\ u[Len(p) + 1] = r
  <2>1. p \in Seq(Requests)
    BY <1>2
  <2> QED
    BY ONLY <2>1, r \in Requests, AppendProperties
<1> HIDE DEF u
<1>5. Len(a) \in Nat
  BY DEF Answers
<1>6. ASSUME NEW n \in 1..Len(q)
      PROVE  q[n] = u[n]
  <2>1. CASE n \in 1..Len(a)
    BY <1>1, <1>2, <1>3, <1>4, <1>5, <2>1
  <2>2. CASE n \notin 1..Len(a)
    <3>0. Len(t) = Len(s) + 1 /\ Len(s) \in Nat /\ Len(p) = Len(a) + Len(s)
      BY <1>1, <1>2
    <3>1. n - Len(a) \in 1..Len(t) /\ Len(a) + (n - Len(a)) = n
      BY <1>1, <1>2, <1>3, <1>5, <2>2
    <3>2. q[n] = t[n - Len(a)]
      BY <1>3, <3>1
    <3>3. CASE n - Len(a) = Len(s) + 1
      BY <1>1, <1>2, <1>4, <1>5, <3>2, <3>3
    <3>4. CASE n - Len(a) # Len(s) + 1
      <4>1. n - Len(a) \in 1..Len(s) /\ n \in 1..Len(p)
        BY <1>5, <3>0, <3>1, <3>4
      <4>2. p[Len(a) + (n - Len(a))] = s[n - Len(a)]
        BY <1>2, <4>1
      <4> QED
        BY <1>1, <1>4, <3>1, <3>2, <4>1, <4>2
    <3> QED
      BY <3>3, <3>4
  <2> QED
    BY <2>1, <2>2
<1>7. Len(q) = Len(u)
  BY <1>1, <1>2, <1>3, <1>4, <1>5
<1>8. q = u
  BY <1>3, <1>4, <1>6, <1>7, SeqEqual
<1> QED
  BY <1>1, <1>8 DEF t, p, q, u

\* What is under way in a state.
LEMMA PendingSeq ==
    ASSUME TypeInv
    PROVE  /\ Answers(answers) /\ sent \in Seq(Requests)
           /\ Pending \in Seq(Requests)
           /\ Len(Pending) = Len(answers) + Len(sent)
           /\ Len(answers) \in Nat /\ Len(sent) \in Nat
           /\ DOMAIN answers = 1..Len(answers)
           /\ \A n \in 1..Len(answers) : Pending[n] = answers[n][1]
           /\ \A n \in 1..Len(sent) : Pending[Len(answers) + n] = sent[n]
<1>1. /\ Answers(answers) /\ sent \in Seq(Requests) /\ Len(answers) \in Nat
      /\ DOMAIN answers = 1..Len(answers)
  BY DEF TypeInv, MessagesInv, Answers
<1> QED
  BY <1>1, UnderWaySeq DEF Pending

LEMMA PendingSend ==
    ASSUME TypeInv, NEW r \in Requests, SendRequests(<<r>>), UNCHANGED answers
    PROVE  Pending' = Append(Pending, r)
<1>1. sent' = Append(sent, r)
  BY AfterSend DEF TypeInv
<1> QED
  BY <1>1, PendingSeq, UnderWayAppend DEF Pending

\* A request that is executed, or is lost, keeps its place.
LEMMA PendingEnd ==
    ASSUME TypeInv, 1 \in DOMAIN sent, sent' = RemoveAt(sent, 1),
           NEW data, End(sent[1], data)
    PROVE  Pending' = Pending
<1>1. /\ 1 \in 1..Len(sent) /\ sent[1] \in Requests
      /\ sent' = Without(sent, 1) /\ sent' \in Seq(Requests)
      /\ Len(sent') = Len(sent) - 1
  BY AfterRemoval DEF TypeInv
<1>2. \A n \in 1..(Len(sent) - 1) : sent'[n] = sent[n + 1]
  BY <1>1 DEF Without
<1>3. /\ Len(answers') = Len(answers) + 1
      /\ \A m \in 1..Len(answers) : answers'[m] = answers[m]
      /\ answers'[Len(answers) + 1] = <<sent[1], data>>
  BY <1>1, AfterEnd DEF TypeInv
<1>4. Len(answers) \in Nat /\ Len(sent) \in Nat
  BY PendingSeq
<1>5. Len(answers') + Len(sent') = Len(answers) + Len(sent)
  BY <1>1, <1>3, <1>4, SMTT(30)
<1> DEFINE f(n) == IF n <= Len(answers) THEN answers[n][1] ELSE sent[n - Len(answers)]
           g(n) == IF n <= Len(answers') THEN answers'[n][1] ELSE sent'[n - Len(answers')]
<1>6. ASSUME NEW n \in 1..(Len(answers) + Len(sent))
      PROVE  g(n) = f(n)
  <2>1. CASE n <= Len(answers)
    BY <1>3, <1>4, <2>1
  <2>2. CASE n = Len(answers) + 1
    <3>1. ~(n <= Len(answers)) /\ n - Len(answers) = 1 /\ n <= Len(answers')
      BY <1>3, <1>4, <2>2
    <3> QED
      BY <1>3, <2>2, <3>1
  <2>3. CASE n > Len(answers) + 1
    <3>1. /\ ~(n <= Len(answers)) /\ ~(n <= Len(answers'))
          /\ n - Len(answers') \in 1..(Len(sent) - 1)
          /\ n - Len(answers') + 1 = n - Len(answers)
      BY <1>3, <1>4, <2>3
    <3> QED
      BY <1>2, <3>1
  <2> QED
    BY <1>4, <2>1, <2>2, <2>3
<1> QED
  BY <1>5, <1>6 DEF Pending, UnderWay

\* A removal of an item is the only request that ends without a word.
LEMMA PendingRemoval ==
    ASSUME TypeInv, 1 \in DOMAIN sent, sent' = RemoveAt(sent, 1), UNCHANGED answers
    PROVE  /\ Len(answers) + 1 \in 1..Len(Pending)
           /\ Pending[Len(answers) + 1] = sent[1]
           /\ Pending' = Without(Pending, Len(answers) + 1)
<1>1. /\ 1 \in 1..Len(sent) /\ sent' = Without(sent, 1) /\ Len(sent') = Len(sent) - 1
  BY AfterRemoval DEF TypeInv
<1>2. \A n \in 1..(Len(sent) - 1) : sent'[n] = sent[n + 1]
  BY <1>1 DEF Without
<1>3. /\ Len(answers) \in Nat /\ Len(sent) \in Nat
      /\ Len(Pending) = Len(answers) + Len(sent)
      /\ \A n \in 1..Len(answers) : Pending[n] = answers[n][1]
      /\ \A n \in 1..Len(sent) : Pending[Len(answers) + n] = sent[n]
  BY PendingSeq
<1> DEFINE k == Len(answers) + 1
           g(n) == IF n <= Len(answers) THEN answers[n][1] ELSE sent'[n - Len(answers)]
           w(n) == IF n < k THEN Pending[n] ELSE Pending[n + 1]
<1>4. ASSUME NEW n \in 1..(Len(Pending) - 1)
      PROVE  g(n) = w(n)
  <2>1. CASE n <= Len(answers)
    <3>1. n < k /\ n \in 1..Len(answers)
      BY <1>3, <2>1
    <3> QED
      BY <1>3, <2>1, <3>1
  <2>2. CASE ~(n <= Len(answers))
    <3>1. /\ ~(n < k) /\ n - Len(answers) \in 1..(Len(sent) - 1)
          /\ n - Len(answers) + 1 \in 1..Len(sent)
          /\ Len(answers) + (n - Len(answers) + 1) = n + 1
      BY <1>3, <2>2
    <3>2. sent'[n - Len(answers)] = sent[n - Len(answers) + 1]
      BY <1>2, <3>1
    <3>3. Pending[Len(answers) + (n - Len(answers) + 1)] = sent[n - Len(answers) + 1]
      BY <1>3, <3>1
    <3>4. Pending[n + 1] = sent[n - Len(answers) + 1]
      BY <3>1, <3>3
    <3> QED
      BY <2>2, <3>1, <3>2, <3>4
  <2> QED
    BY <2>1, <2>2
<1>5. Pending' = [n \in 1..(Len(answers) + Len(sent')) |-> g(n)]
  BY DEF Pending, UnderWay
<1>6. Len(answers) + Len(sent') = Len(Pending) - 1
  BY <1>1, <1>3
<1>7. Pending' = Without(Pending, k)
  <2>1. Without(Pending, k) = [n \in 1..(Len(Pending) - 1) |-> w(n)]
    BY DEF Without
  <2> HIDE DEF g, w
  <2> QED
    BY <1>4, <1>5, <1>6, <2>1
<1>8. k \in 1..Len(Pending) /\ Pending[k] = sent[1]
  BY <1>1, <1>3
<1> QED
  BY <1>7, <1>8

\* The oldest answer is received.
LEMMA PendingReceive ==
    ASSUME TypeInv, 1 \in DOMAIN answers
    PROVE  /\ 1 \in 1..Len(Pending) /\ Pending[1] = answers[1][1]
           /\ Answers(RemoveAt(answers, 1))
           /\ UnderWay(RemoveAt(answers, 1), sent) = Without(Pending, 1)
           /\ Without(Pending, 1) \in Seq(Requests)
<1> DEFINE a == RemoveAt(answers, 1)
<1>1. /\ 1 \in 1..Len(answers) /\ Len(answers) \in Nat
      /\ a = Without(answers, 1) /\ Len(a) = Len(answers) - 1
      /\ \A m \in 1..(Len(answers) - 1) :
            a[m] = IF m < 1 THEN answers[m] ELSE answers[m + 1]
  BY AfterReceive DEF TypeInv
<1> HIDE DEF a
<1>2. /\ Len(sent) \in Nat /\ Answers(answers) /\ Pending \in Seq(Requests)
      /\ Len(Pending) = Len(answers) + Len(sent)
      /\ \A n \in 1..Len(answers) : Pending[n] = answers[n][1]
      /\ \A n \in 1..Len(sent) : Pending[Len(answers) + n] = sent[n]
  BY PendingSeq
<1>0. /\ Len(answers) \in Nat /\ Len(sent) \in Nat /\ Len(a) = Len(answers) - 1
      /\ Len(Pending) = Len(answers) + Len(sent)
  BY <1>1, <1>2
<1>3. \A m \in 1..Len(a) : m + 1 \in 1..Len(answers) /\ a[m] = answers[m + 1]
  BY <1>1
<1>4. Answers(a)
  BY <1>1, <1>2, <1>3 DEF Answers
<1> DEFINE g(n) == IF n <= Len(a) THEN a[n][1] ELSE sent[n - Len(a)]
           w(n) == IF n < 1 THEN Pending[n] ELSE Pending[n + 1]
<1>5. ASSUME NEW n \in 1..(Len(Pending) - 1)
      PROVE  g(n) = w(n)
  <2>1. CASE n <= Len(a)
    <3>1. n \in 1..Len(a) /\ ~(n < 1)
      BY <1>1, <2>1
    <3> QED
      BY <1>2, <1>3, <2>1, <3>1
  <2>2. CASE ~(n <= Len(a))
    <3>1. /\ ~(n < 1) /\ n - Len(a) \in 1..Len(sent)
          /\ Len(answers) + (n - Len(a)) = n + 1
      BY <1>0, <2>2
    <3>2. Pending[Len(answers) + (n - Len(a))] = sent[n - Len(a)]
      BY <1>2, <3>1
    <3> QED
      BY <2>2, <3>1, <3>2
  <2> QED
    BY <2>1, <2>2
<1>6. UnderWay(a, sent) = [n \in 1..(Len(a) + Len(sent)) |-> g(n)]
  BY DEF UnderWay
<1>7. Len(a) + Len(sent) = Len(Pending) - 1
  BY <1>0
<1>8. UnderWay(a, sent) = Without(Pending, 1)
  <2>1. Without(Pending, 1) = [n \in 1..(Len(Pending) - 1) |-> w(n)]
    BY DEF Without
  <2> HIDE DEF g, w
  <2> QED
    BY <1>5, <1>6, <1>7, <2>1
<1>9. 1 \in 1..Len(Pending) /\ Pending[1] = answers[1][1]
  BY <1>1, <1>2
<1>10. Without(Pending, 1) \in Seq(Requests)
  BY <1>2, <1>9, RemoveAtIsWithout
<1> QED
  BY <1>4, <1>8, <1>9, <1>10 DEF a

-----------------------------------------------------------------------------
(* The inductive invariant: the user                                       *)

LEMMA InitIInv == Init => IInv
<1> SUFFICES ASSUME Init
             PROVE  IInv
  OBVIOUS
<1>1. TypeInv
  BY TypeInit
<1>2. sent = <<<<"account_select_all">>>> /\ answers = <<>>
  BY DEF Init
<1>3. DOMAIN Pending = 1..1 /\ Pending[1] = <<"account_select_all">>
  <2>1. Len(answers) = 0 /\ Len(sent) = 1
    BY <1>2
  <2> QED
    BY <1>2, <2>1 DEF Pending, UnderWay
<1>4. \A n \in DOMAIN Pending : Pending[n][1] = "account_select_all"
  BY <1>3
<1> USE DEF OrdersOfUser, ItemsOfOrder, PoolOfOrder
<1>5. AnswersInv
  BY <1>2 DEF AnswersInv
<1>6. AskedInv
  BY <1>4 DEF AskedInv, AskedAfter
<1> QED
  BY <1>1, <1>5, <1>6
     DEF Init, IInv, OrderTableInv, ItemTableInv, PoolTableInv, EditingInv, HighlightedInv

\* What the server has is as it was.
ServerUnchanged == UNCHANGED <<answers, store>>

LEMMA AnswersAlone ==
    ASSUME AnswersInv, ServerUnchanged
    PROVE  AnswersInv' /\ Added' = Added
BY DEF AnswersInv, AddedBehind, NoLess, Available, ItemsOf, Added, ServerUnchanged, store

\* Another user: the orders of this one are asked for.
LEMMA KeepSelectUser ==
    ASSUME IInv, TypeInv', NEW u \in Users, SelectUser(u)
    PROVE  IInv'
<1> DEFINE r == <<OrdersOfUser, u>>
           q == Append(Pending, r)
<1>1. r \in Requests /\ Pending \in Seq(Requests)
  BY PendingSeq DEF Requests, OrdersOfUser, IInv
<1>2. Pending' = q
  BY <1>1, PendingSend DEF SelectUser, IInv, OrdersOfUser
<1>3. AnswersInv' /\ Added' = Added
  BY AnswersAlone DEF IInv, SelectUser, ServerUnchanged
<1>4. \A name : Asked(q, name) <=> Asked(Pending, name) \/ r[1] = name
  BY <1>1, AppendAsked
<1>5. /\ AskedAfter(q, OrdersOfUser, OrdersOfUser, u)
      /\ AskedAfter(q, ItemsOfOrder, ItemsOfOrder, order)
      /\ AskedAfter(q, PoolOfOrder, ItemsOfOrder, order)
  BY <1>1, AppendLast, AppendAskedAfter
     DEF IInv, AskedInv, OrdersOfUser, ItemsOfOrder, PoolOfOrder
<1>6. editing => Follows(q, ItemsOfOrder, PoolOfOrder)
  BY <1>1, AppendFollows DEF IInv, EditingInv, OrdersOfUser, ItemsOfOrder
<1>7. /\ user' = u /\ UNCHANGED <<order, editing, tables, answers, store, stale>>
  BY DEF SelectUser
<1> HIDE DEF q
<1>8. AskedInv' /\ OrderTableInv'
  BY <1>2, <1>4, <1>5, <1>7 DEF AskedInv, OrderTableInv
<1>9. ItemTableInv' /\ PoolTableInv'
  BY <1>2, <1>3, <1>4, <1>7
     DEF IInv, ItemTableInv, PoolTableInv, NoLess, Available, ItemsOf, tables, store
<1>10. EditingInv' /\ HighlightedInv'
  BY <1>2, <1>4, <1>6, <1>7 DEF IInv, EditingInv, HighlightedInv, tables
<1> QED
  BY <1>3, <1>8, <1>9, <1>10 DEF IInv

\* Another order: its items are asked for, and no pool that was counts.
LEMMA KeepClickOrder ==
    ASSUME IInv, TypeInv', NEW o \in Orders, ClickOrder(o)
    PROVE  IInv'
<1> DEFINE r == <<ItemsOfOrder, o>>
           q == Append(Pending, r)
<1>1. r \in Requests /\ Pending \in Seq(Requests)
  BY PendingSeq DEF Requests, ItemsOfOrder, IInv, AnyOrder
<1>2. Pending' = q
  BY <1>1, PendingSend DEF ClickOrder, IInv, ItemsOfOrder
<1>3. AnswersInv'
  BY AnswersAlone DEF IInv, ClickOrder, ServerUnchanged
<1>4. \A name : Asked(q, name) <=> Asked(Pending, name) \/ r[1] = name
  BY <1>1, AppendAsked
<1>5. /\ AskedAfter(q, OrdersOfUser, OrdersOfUser, user)
      /\ AskedAfter(q, ItemsOfOrder, ItemsOfOrder, o)
      /\ AskedAfter(q, PoolOfOrder, ItemsOfOrder, o)
  BY <1>1, AppendLast, AppendAskedAfter
     DEF IInv, AskedInv, OrdersOfUser, ItemsOfOrder, PoolOfOrder
<1>6. /\ order' = o /\ highlighted' = o /\ editing' = FALSE
      /\ UNCHANGED <<user, orderTable, stale>>
  BY DEF ClickOrder
<1> HIDE DEF q
<1>7. AskedInv' /\ OrderTableInv'
  BY <1>2, <1>4, <1>5, <1>6 DEF IInv, AskedInv, OrderTableInv
<1>8. ItemTableInv' /\ PoolTableInv' /\ EditingInv' /\ HighlightedInv'
  BY <1>2, <1>4, <1>6 DEF ItemTableInv, PoolTableInv, EditingInv, HighlightedInv
<1> QED
  BY <1>3, <1>7, <1>8 DEF IInv

\* A request that changes neither what is selected nor the tables, and asks for
\* no table, or for the pool of the order.
LEMMA KeepSend ==
    ASSUME IInv, TypeInv', NEW r \in Requests, SendRequests(<<r>>),
           r[1] \notin {OrdersOfUser, ItemsOfOrder},
           r[1] = PoolOfOrder => r[2] = order,
           editing' => editing \/ r[1] = PoolOfOrder,
           UNCHANGED <<user, order, tables, answers, store, stale>>
    PROVE  IInv'
<1> DEFINE q == Append(Pending, r)
<1>1. Pending \in Seq(Requests)
  BY PendingSeq DEF IInv
<1>2. Pending' = q
  BY PendingSend DEF IInv
<1>3. AnswersInv' /\ Added' = Added
  BY AnswersAlone DEF IInv, ServerUnchanged
<1>4. \A name : Asked(q, name) <=> Asked(Pending, name) \/ r[1] = name
  BY <1>1, AppendAsked
<1>5. /\ AskedAfter(q, OrdersOfUser, OrdersOfUser, user)
      /\ AskedAfter(q, ItemsOfOrder, ItemsOfOrder, order)
      /\ AskedAfter(q, PoolOfOrder, ItemsOfOrder, order)
  BY <1>1, AppendAskedAfter DEF IInv, AskedInv
<1>6. editing' => Follows(q, ItemsOfOrder, PoolOfOrder)
  <2>1. CASE r[1] = PoolOfOrder
    BY <1>1, <2>1, AppendFollowed DEF PoolOfOrder, ItemsOfOrder
  <2>2. CASE r[1] # PoolOfOrder
    BY <1>1, <2>2, AppendFollows DEF IInv, EditingInv
  <2> QED
    BY <2>1, <2>2
<1> HIDE DEF q
<1>7. AskedInv' /\ OrderTableInv'
  BY <1>2, <1>4, <1>5 DEF IInv, AskedInv, OrderTableInv, tables
<1>8. ItemTableInv' /\ PoolTableInv'
  BY <1>2, <1>3, <1>4
     DEF IInv, ItemTableInv, PoolTableInv, NoLess, Available, ItemsOf, tables, store
<1>9. EditingInv' /\ HighlightedInv'
  BY <1>2, <1>4, <1>6 DEF IInv, EditingInv, HighlightedInv, tables
<1> QED
  BY <1>3, <1>7, <1>8, <1>9 DEF IInv

LEMMA KeepClick ==
    ASSUME IInv, TypeInv', Click
    PROVE  IInv'
<1> USE DEF OrdersOfUser, ItemsOfOrder, PoolOfOrder
<1>0. TypeOK
  BY DEF IInv, TypeInv
<1>1. CASE \E u \in Users : SelectUser(u)
  BY <1>1, KeepSelectUser
<1>2. CASE \E o \in Orders : ClickOrder(o)
  BY <1>2, KeepClickOrder
<1>3. CASE \E i \in Items : ClickItem(i) \/ ClickPoolItem(i)
  <2>1. UNCHANGED <<user, order, editing, tables, network, store, stale>>
    BY <1>3 DEF ClickItem, ClickPoolItem
  <2>2. AnswersInv' /\ Added' = Added
    BY <2>1, AnswersAlone DEF IInv, ServerUnchanged, network
  <2>3. Pending' = Pending
    BY <2>1 DEF Pending, network
  <2>4. AskedInv' /\ OrderTableInv' /\ EditingInv' /\ HighlightedInv'
    BY <2>1, <2>3 DEF IInv, AskedInv, OrderTableInv, EditingInv, HighlightedInv, tables
  <2>5. ItemTableInv' /\ PoolTableInv'
    BY <2>1, <2>2, <2>3
       DEF IInv, ItemTableInv, PoolTableInv, NoLess, Available, ItemsOf, tables, store
  <2> QED
    BY <2>2, <2>4, <2>5 DEF IInv
<1>4. CASE ClickDelete
  <2>1. <<"order_remove", order>> \in Requests
    BY <1>0 DEF Requests, TypeOK
  <2> QED
    BY <1>4, <2>1, KeepSend DEF ClickDelete
<1>5. CASE ClickEdit
  <2>1. <<"order_select_other_items", order>> \in Requests
    BY <1>0 DEF Requests, TypeOK
  <2> QED
    BY <1>5, <2>1, KeepSend DEF ClickEdit
<1>6. CASE ClickRemove
  <2>1. <<"order_remove_item", order, itemRow>> \in Requests
    BY <1>0, <1>6 DEF Requests, TypeOK, ClickRemove
  <2> QED
    BY <1>6, <2>1, KeepSend DEF ClickRemove, selection
<1>7. CASE ClickAdd
  <2>1. <<"order_add_item", order, poolRow>> \in Requests
    BY <1>0, <1>7 DEF Requests, TypeOK, ClickAdd
  <2> QED
    BY <1>7, <2>1, KeepSend DEF ClickAdd, selection
<1>8. CASE Reload
  <2>1. <<"account_select_all">> \in Requests
    BY DEF Requests
  <2> QED
    BY <1>8, <2>1, KeepSend DEF Reload, selection
<1> QED
  BY <1>1, <1>2, <1>3, <1>4, <1>5, <1>6, <1>7, <1>8 DEF Click

-----------------------------------------------------------------------------
(* The inductive invariant: the server                                     *)

\* No order has more lines than before.
NoMoreLines == \A o \in AnyOrder, i \in Items : lines'[o][i] <= lines[o][i]

\* What was as good as the store still is.
LEMMA FewerLines ==
    ASSUME TypeOK, lines' \in [AnyOrder -> [Items -> Nat]], NoMoreLines, NEW o \in AnyOrder
    PROVE  /\ \A rows \in [Items -> Nat] :
                 (\A i \in Items : lines[o][i] <= rows[i])
                     => \A i \in Items : lines'[o][i] <= rows[i]
           /\ \A i \in Items : lines[o][i] = 0 => lines'[o][i] = 0
<1>1. \A i \in Items : /\ lines[o][i] \in Nat /\ lines'[o][i] \in Nat
                       /\ lines'[o][i] <= lines[o][i]
  BY DEF TypeOK, NoMoreLines
<1> QED
  BY <1>1

LEMMA FewerAfter ==
    ASSUME TypeOK, NEW o \in AnyOrder, NEW i \in Items,
           RemoveLine(o, i) \/ RemoveOrder(o) \/ UNCHANGED store
    PROVE  NoMoreLines
<1>1. \A p \in AnyOrder : \A j \in Items : lines[p][j] \in Nat
  BY DEF TypeOK
<1>2. CASE UNCHANGED store
  BY <1>1, <1>2 DEF NoMoreLines, store
<1>3. CASE RemoveOrder(o)
  <2>1. \A p \in AnyOrder, j \in Items : lines'[p][j] = IF p = o THEN 0 ELSE lines[p][j]
    BY <1>3 DEF RemoveOrder, TypeOK
  <2> QED
    BY <1>1, <2>1 DEF NoMoreLines
<1>4. CASE RemoveLine(o, i)
  <2>1. CASE lines[o][i] = 0
    BY <1>1, <1>4, <2>1 DEF NoMoreLines, RemoveLine, ItemsOf
  <2>2. CASE lines[o][i] # 0
    <3>1. \A p \in AnyOrder, j \in Items :
             lines'[p][j] = IF p = o /\ j = i THEN lines[p][j] - 1 ELSE lines[p][j]
      BY <1>4, <2>2 DEF RemoveLine, ItemsOf, TypeOK
    <3> QED
      BY <1>1, <3>1 DEF NoMoreLines
  <2> QED
    BY <2>1, <2>2
<1> QED
  BY <1>2, <1>3, <1>4

\* The news of a line that was added is behind every answer that knows nothing
\* of it.
LEMMA AddedGrows ==
    ASSUME TypeInv, NEW req \in Requests, NEW data, End(req, data)
    PROVE  /\ Len(answers') = Len(answers) + 1 /\ Len(answers) \in Nat
           /\ DOMAIN answers = 1..Len(answers) /\ DOMAIN answers' = 1..Len(answers')
           /\ \A n \in 1..Len(answers) : answers'[n] = answers[n]
           /\ answers'[Len(answers) + 1] = <<req, data>>
           /\ Added \/ req[1] = "order_add_item" => Added'
           /\ \A n \in 1..Len(answers) :
                 AddedBehind(n) \/ req[1] = "order_add_item" => AddedBehind(n)'
<1>1. /\ Len(answers') = Len(answers) + 1 /\ Len(answers) \in Nat
      /\ DOMAIN answers = 1..Len(answers) /\ DOMAIN answers' = 1..Len(answers')
      /\ \A n \in 1..Len(answers) : answers'[n] = answers[n]
      /\ answers'[Len(answers) + 1] = <<req, data>>
  BY AfterEnd DEF TypeInv, MessagesInv
<1>2. /\ Len(answers) + 1 \in DOMAIN answers'
      /\ \A n \in 1..Len(answers) : n \in DOMAIN answers' /\ Len(answers) + 1 > n
  BY <1>1
<1>3. Added \/ req[1] = "order_add_item" => Added'
  BY <1>1, <1>2 DEF Added
<1>4. \A n \in 1..Len(answers) :
         AddedBehind(n) \/ req[1] = "order_add_item" => AddedBehind(n)'
  BY <1>1, <1>2 DEF AddedBehind
<1> QED
  BY <1>1, <1>3, <1>4

LEMMA KeepAnswersEnd ==
    ASSUME TypeInv, AnswersInv, lines' \in [AnyOrder -> [Items -> Nat]],
           NEW req \in Requests, NEW data, End(req, data),
           data # NoAnswer => /\ req[1] = ItemsOfOrder => data = ItemsOf(req[2])
                              /\ req[1] = PoolOfOrder => data = Available(req[2]),
           req[1] = "order_add_item" \/ NoMoreLines,
           req[1] \in {ItemsOfOrder, PoolOfOrder} => lines' = lines
    PROVE  AnswersInv'
<1>1. /\ Len(answers') = Len(answers) + 1 /\ Len(answers) \in Nat
      /\ DOMAIN answers = 1..Len(answers) /\ DOMAIN answers' = 1..Len(answers')
      /\ \A n \in 1..Len(answers) : answers'[n] = answers[n]
      /\ answers'[Len(answers) + 1] = <<req, data>>
      /\ \A n \in 1..Len(answers) :
            AddedBehind(n) \/ req[1] = "order_add_item" => AddedBehind(n)'
  BY AddedGrows
<1>2. TypeOK /\ MessagesInv
  BY DEF TypeInv
<1>3. ASSUME NEW n \in DOMAIN answers', answers'[n][2] # NoAnswer
      PROVE  /\ answers'[n][1][1] = ItemsOfOrder =>
                   \/ AddedBehind(n)'
                   \/ \A i \in Items : lines'[answers'[n][1][2]][i] <= answers'[n][2][i]
             /\ answers'[n][1][1] = PoolOfOrder =>
                   \/ AddedBehind(n)'
                   \/ answers'[n][2] \subseteq {i \in Items : lines'[answers'[n][1][2]][i] = 0}
  <2>1. CASE n = Len(answers) + 1
    <3>1. answers'[n][1] = req /\ answers'[n][2] = data
      BY <1>1, <2>1
    <3>2. CASE req[1] = ItemsOfOrder
      <4>1. req[2] \in AnyOrder /\ lines' = lines /\ data = lines[req[2]]
        BY <1>3, <3>1, <3>2, RequestShape DEF ItemsOf
      <4>2. \A i \in Items : lines[req[2]][i] <= data[i]
        BY <1>2, <4>1 DEF TypeOK
      <4> QED
        BY <3>1, <3>2, <4>1, <4>2 DEF ItemsOfOrder, PoolOfOrder
    <3>3. CASE req[1] = PoolOfOrder
      <4>1. lines' = lines /\ data = {i \in Items : lines[req[2]][i] = 0}
        BY <1>3, <3>1, <3>3 DEF Available, ItemsOf
      <4> QED
        BY <3>1, <3>3, <4>1 DEF ItemsOfOrder, PoolOfOrder
    <3> QED
      BY <3>1, <3>2, <3>3
  <2>2. CASE n # Len(answers) + 1
    <3> DEFINE o == answers[n][1][2]
               rows == answers[n][2]
    <3>1. n \in 1..Len(answers) /\ answers'[n] = answers[n]
      BY <1>1, <2>2
    <3>2. /\ answers[n][1] \in Requests /\ Suits(answers[n][1], rows)
          /\ answers[n][1][1] = ItemsOfOrder =>
                AddedBehind(n) \/ \A i \in Items : lines[o][i] <= rows[i]
          /\ answers[n][1][1] = PoolOfOrder =>
                AddedBehind(n) \/ rows \subseteq {i \in Items : lines[o][i] = 0}
      BY <1>1, <1>2, <1>3, <3>1 DEF AnswersInv, MessagesInv, NoLess, Available, ItemsOf
    <3>3. AddedBehind(n) \/ req[1] = "order_add_item" => AddedBehind(n)'
      BY <1>1, <3>1
    <3>4. CASE req[1] = "order_add_item" \/ AddedBehind(n)
      BY <3>3, <3>4
    <3>5. CASE NoMoreLines /\ ~AddedBehind(n)
      <4>1. answers[n][1][1] \in {ItemsOfOrder, PoolOfOrder} => o \in AnyOrder
        BY <3>2, RequestShape
      <4>2. answers[n][1][1] = ItemsOfOrder => rows \in [Items -> Nat]
        BY <3>2 DEF Suits
      <4> HIDE DEF o, rows
      <4>3. answers[n][1][1] = ItemsOfOrder => \A i \in Items : lines'[o][i] <= rows[i]
        BY <1>2, <3>2, <3>5, <4>1, <4>2, FewerLines
      <4>4. answers[n][1][1] = PoolOfOrder => rows \subseteq {i \in Items : lines'[o][i] = 0}
        BY <1>2, <3>2, <3>5, <4>1, FewerLines
      <4> QED
        BY <3>1, <4>3, <4>4 DEF o, rows
    <3> QED
      BY <3>4, <3>5
  <2> QED
    BY <2>1, <2>2
<1> QED
  BY <1>3 DEF AnswersInv, NoLess, Available, ItemsOf

\* A removal has no answer, and takes nothing from the answers that are there.
LEMMA KeepAnswersRemoval ==
    ASSUME TypeInv, AnswersInv, lines' \in [AnyOrder -> [Items -> Nat]],
           UNCHANGED answers, NoMoreLines
    PROVE  AnswersInv'
<1>1. TypeOK /\ MessagesInv /\ DOMAIN answers = 1..Len(answers)
  BY DEF TypeInv, MessagesInv
<1>2. ASSUME NEW n \in DOMAIN answers, answers[n][2] # NoAnswer
      PROVE  /\ answers[n][1][1] = ItemsOfOrder =>
                   \/ AddedBehind(n)
                   \/ \A i \in Items : lines'[answers[n][1][2]][i] <= answers[n][2][i]
             /\ answers[n][1][1] = PoolOfOrder =>
                   \/ AddedBehind(n)
                   \/ answers[n][2] \subseteq {i \in Items : lines'[answers[n][1][2]][i] = 0}
  <2> DEFINE o == answers[n][1][2]
             rows == answers[n][2]
  <2>1. /\ answers[n][1] \in Requests /\ Suits(answers[n][1], rows)
        /\ answers[n][1][1] = ItemsOfOrder =>
              AddedBehind(n) \/ \A i \in Items : lines[o][i] <= rows[i]
        /\ answers[n][1][1] = PoolOfOrder =>
              AddedBehind(n) \/ rows \subseteq {i \in Items : lines[o][i] = 0}
    BY <1>1, <1>2 DEF AnswersInv, MessagesInv, NoLess, Available, ItemsOf
  <2>2. answers[n][1][1] \in {ItemsOfOrder, PoolOfOrder} => o \in AnyOrder
    BY <2>1, RequestShape
  <2>3. answers[n][1][1] = ItemsOfOrder => rows \in [Items -> Nat]
    BY <2>1 DEF Suits
  <2> HIDE DEF o, rows
  <2>4. answers[n][1][1] = ItemsOfOrder =>
           AddedBehind(n) \/ \A i \in Items : lines'[o][i] <= rows[i]
    BY <1>1, <2>1, <2>2, <2>3, FewerLines
  <2>5. answers[n][1][1] = PoolOfOrder =>
           AddedBehind(n) \/ rows \subseteq {i \in Items : lines'[o][i] = 0}
    BY <1>1, <2>1, <2>2, FewerLines
  <2> QED
    BY <2>4, <2>5 DEF o, rows
<1>3. \A n \in DOMAIN answers : AddedBehind(n)' = AddedBehind(n)
  BY DEF AddedBehind
<1> QED
  BY <1>2, <1>3 DEF AnswersInv, NoLess, Available, ItemsOf

\* The page's part of the invariant while the server works: what is under way
\* asks for the same, and every line more is announced.
LEMMA KeepPage ==
    ASSUME IInv, TypeInv', AnswersInv', AskedInv',
           UNCHANGED <<userList, selection, tables, shown, stale>>,
           \A name \in {OrdersOfUser, ItemsOfOrder, PoolOfOrder} :
               Asked(Pending, name) => Asked(Pending', name),
           Follows(Pending, ItemsOfOrder, PoolOfOrder) =>
               Follows(Pending', ItemsOfOrder, PoolOfOrder),
           Added => Added', Added' \/ NoMoreLines
    PROVE  IInv'
<1>1. TypeOK /\ TypeInv
  BY DEF IInv, TypeInv
<1>2. UNCHANGED <<user, order, editing, orderTable, highlighted, itemTable, poolTable>>
  BY DEF selection, tables
<1>3. lines' \in [AnyOrder -> [Items -> Nat]] /\ order \in AnyOrder
  BY <1>1 DEF TypeInv, TypeOK
<1>4. OrderTableInv' /\ EditingInv' /\ HighlightedInv'
  BY <1>2 DEF IInv, OrderTableInv, EditingInv, HighlightedInv
<1>5. ItemTableInv'
  <2> SUFFICES ASSUME ~Asked(Pending, ItemsOfOrder), itemTable # NoTable, "item" \notin stale,
                      ~Added'
               PROVE  itemTable.of = order /\ \A i \in Items : lines'[order][i] <= itemTable.rows[i]
    BY <1>2 DEF IInv, ItemTableInv, NoLess
  <2>1. /\ itemTable.of = order
        /\ \A i \in Items : lines[order][i] <= itemTable.rows[i]
    BY DEF IInv, ItemTableInv, NoLess
  <2>2. itemTable.rows \in [Items -> Nat]
    BY <1>1 DEF TypeOK
  <2> QED
    BY <1>1, <1>3, <2>1, <2>2, FewerLines
<1>6. PoolTableInv'
  <2> SUFFICES ASSUME ~Asked(Pending, ItemsOfOrder), poolTable # NoTable,
                      stale \cap {"item", "pool"} = {}, ~Added'
               PROVE  /\ poolTable.of = order
                      /\ poolTable.rows \subseteq {i \in Items : lines'[order][i] = 0}
    BY <1>2 DEF IInv, PoolTableInv, Available, ItemsOf
  <2>1. /\ poolTable.of = order
        /\ poolTable.rows \subseteq {i \in Items : lines[order][i] = 0}
    BY DEF IInv, PoolTableInv, Available, ItemsOf
  <2> QED
    BY <1>1, <1>3, <2>1, FewerLines
<1> QED
  BY <1>4, <1>5, <1>6 DEF IInv

LEMMA KeepExecute ==
    ASSUME IInv, TypeInv', 1 \in DOMAIN sent, Execute(1)
    PROVE  IInv'
<1>1. TypeInv /\ TypeOK /\ AnswersInv
  BY DEF IInv, TypeInv
<1>2. /\ sent' = RemoveAt(sent, 1)
      /\ UNCHANGED <<userList, selection, tables, shown, stale>>
      /\ lines' \in [AnyOrder -> [Items -> Nat]]
  BY <1>1, ExecuteCases
<1>3. sent[1] \in Requests
  BY <1>1, AfterRemoval DEF TypeInv
<1>4. UNCHANGED <<user, order>>
  BY <1>2 DEF selection
<1>5. CASE /\ sent[1][1] = "order_remove_item" /\ UNCHANGED answers
           /\ RemoveLine(sent[1][2], sent[1][3])
  <2> DEFINE k == Len(answers) + 1
             q == Without(Pending, k)
  <2>1. /\ k \in 1..Len(Pending) /\ Pending[k] = sent[1] /\ Pending' = q
        /\ Pending \in Seq(Requests)
    BY <1>1, <1>2, <1>5, PendingRemoval, PendingSeq
  <2> HIDE DEF k
  <2>2. NoMoreLines
    BY <1>1, <1>3, <1>5, RequestShape, FewerAfter
  <2>3. AnswersInv'
    BY <1>1, <1>2, <1>5, <2>2, KeepAnswersRemoval
  <2>4. AskedAfter(q, OrdersOfUser, OrdersOfUser, user)
    BY <1>5, <2>1, WithoutAskedAfter DEF IInv, AskedInv, OrdersOfUser
  <2>5. AskedAfter(q, ItemsOfOrder, ItemsOfOrder, order)
    BY <1>5, <2>1, WithoutAskedAfter DEF IInv, AskedInv, ItemsOfOrder
  <2>6. AskedAfter(q, PoolOfOrder, ItemsOfOrder, order)
    BY <1>5, <2>1, WithoutAskedAfter DEF IInv, AskedInv, ItemsOfOrder
  <2>7. \A name \in {OrdersOfUser, ItemsOfOrder, PoolOfOrder} :
           Asked(Pending, name) => Asked(q, name)
    BY <1>5, <2>1, WithoutAsked DEF OrdersOfUser, ItemsOfOrder, PoolOfOrder
  <2>8. Follows(Pending, ItemsOfOrder, PoolOfOrder) => Follows(q, ItemsOfOrder, PoolOfOrder)
    BY <1>5, <2>1, WithoutFollows DEF PoolOfOrder
  <2> HIDE DEF q
  <2>9. AskedInv' /\ Added' = Added
    BY <1>4, <1>5, <2>1, <2>4, <2>5, <2>6 DEF AskedInv, Added
  <2> QED
    BY <1>2, <2>1, <2>2, <2>3, <2>7, <2>8, <2>9, KeepPage
<1>6. CASE /\ sent[1][1] # "order_remove_item"
           /\ \E data :
                 /\ End(sent[1], data)
                 /\ data # NoAnswer =>
                       /\ sent[1][1] = ItemsOfOrder => data = ItemsOf(sent[1][2])
                       /\ sent[1][1] = PoolOfOrder => data = Available(sent[1][2])
           /\ \/ UNCHANGED store
              \/ sent[1][1] = "order_remove" /\ RemoveOrder(sent[1][2])
              \/ sent[1][1] = "order_add_item" /\ AddLine(sent[1][2], sent[1][3])
  <2>1. PICK data :
           /\ End(sent[1], data)
           /\ data # NoAnswer =>
                 /\ sent[1][1] = ItemsOfOrder => data = ItemsOf(sent[1][2])
                 /\ sent[1][1] = PoolOfOrder => data = Available(sent[1][2])
    BY <1>6
  <2>2. Pending' = Pending
    BY <1>1, <1>2, <2>1, PendingEnd
  <2>3. sent[1][1] = "order_add_item" \/ NoMoreLines
    <3>1. CASE UNCHANGED store
      BY <1>1, <3>1 DEF NoMoreLines, store, TypeOK
    <3>2. CASE sent[1][1] = "order_remove" /\ RemoveOrder(sent[1][2])
      <4>1. sent[1][2] \in AnyOrder
        BY <1>3, <3>2, RequestShape
      <4>2. \A p \in AnyOrder, i \in Items :
               lines'[p][i] = IF p = sent[1][2] THEN 0 ELSE lines[p][i]
        BY <1>1, <3>2, <4>1 DEF RemoveOrder, TypeOK
      <4> QED
        BY <1>1, <4>2 DEF NoMoreLines, TypeOK
    <3> QED
      BY <1>6, <3>1, <3>2
  <2>4. sent[1][1] \in {ItemsOfOrder, PoolOfOrder} => lines' = lines
    BY <1>6 DEF ItemsOfOrder, PoolOfOrder, store
  <2>5. AnswersInv'
    BY <1>1, <1>2, <1>3, <2>1, <2>3, <2>4, KeepAnswersEnd
  <2>6. (Added \/ sent[1][1] = "order_add_item") => Added'
    BY <1>1, <1>3, <2>1, AddedGrows
  <2>7. AskedInv'
    BY <1>4, <2>2 DEF IInv, AskedInv
  <2> QED
    BY <1>2, <2>2, <2>3, <2>5, <2>6, <2>7, KeepPage
<1> QED
  BY <1>1, <1>5, <1>6, ExecuteCases

LEMMA KeepLoseRequest ==
    ASSUME IInv, TypeInv', 1 \in DOMAIN sent, LoseRequest(1)
    PROVE  IInv'
<1>1. TypeInv /\ TypeOK /\ AnswersInv
  BY DEF IInv, TypeInv
<1>2. sent[1] \in Requests
  BY <1>1, AfterRemoval DEF TypeInv
<1>3. End(sent[1], NoAnswer)
  BY DEF LoseRequest
<1>4. Pending' = Pending
  BY <1>1, <1>3, PendingEnd DEF LoseRequest
<1>5. NoMoreLines /\ lines' = lines
  BY <1>1 DEF NoMoreLines, LoseRequest, store, TypeOK
<1>6. lines' \in [AnyOrder -> [Items -> Nat]]
  BY <1>1, <1>5 DEF TypeOK
<1>7. AnswersInv'
  BY <1>1, <1>2, <1>3, <1>5, <1>6, KeepAnswersEnd
<1>8. Added => Added'
  BY <1>1, <1>2, <1>3, AddedGrows
<1>9. AskedInv'
  BY <1>4 DEF IInv, AskedInv, LoseRequest, selection
<1> QED
  BY <1>4, <1>5, <1>7, <1>8, <1>9, KeepPage DEF LoseRequest

-----------------------------------------------------------------------------
(* The inductive invariant: the answers                                    *)

LEMMA KeepAnswersReceive ==
    ASSUME TypeInv, AnswersInv, 1 \in DOMAIN answers, Receive(1)
    PROVE  /\ AnswersInv'
           /\ Added => Added' \/ answers[1][1][1] = "order_add_item"
           /\ AddedBehind(1) => Added'
<1>1. /\ 1 \in 1..Len(answers) /\ Len(answers) \in Nat
      /\ answers' = Without(answers, 1)
      /\ DOMAIN answers' = 1..(Len(answers) - 1)
      /\ \A m \in 1..(Len(answers) - 1) :
            answers'[m] = IF m < 1 THEN answers[m] ELSE answers[m + 1]
  BY AfterReceive DEF TypeInv, Receive
<1>2. DOMAIN answers = 1..Len(answers)
  BY DEF TypeInv, MessagesInv
<1>3. \A m \in DOMAIN answers' : m + 1 \in DOMAIN answers /\ answers'[m] = answers[m + 1]
  BY <1>1, <1>2
<1>4. \A m \in DOMAIN answers :
         m > 1 => m - 1 \in DOMAIN answers' /\ answers'[m - 1] = answers[m]
  <2> TAKE m \in DOMAIN answers
  <2> HAVE m > 1
  <2>1. m - 1 \in 1..(Len(answers) - 1) /\ m - 1 + 1 = m
    BY <1>1, <1>2
  <2> QED
    BY <1>1, <2>1
<1>5. ASSUME NEW n \in DOMAIN answers', AddedBehind(n + 1)
      PROVE  AddedBehind(n)'
  <2>1. PICK m \in DOMAIN answers : m > n + 1 /\ answers[m][1][1] = "order_add_item"
    BY <1>5 DEF AddedBehind
  <2>2. m > 1 /\ m - 1 > n
    BY <1>1, <1>2, <2>1
  <2>3. m - 1 \in DOMAIN answers' /\ answers'[m - 1] = answers[m]
    BY <1>4, <2>2
  <2> QED
    BY <2>1, <2>2, <2>3 DEF AddedBehind
<1>6. lines' = lines
  BY DEF Receive, store
<1>7. AnswersInv'
  BY <1>3, <1>5, <1>6 DEF AnswersInv, NoLess, Available, ItemsOf
<1>8. Added => Added' \/ answers[1][1][1] = "order_add_item"
  <2>1. \A m \in DOMAIN answers : m = 1 \/ m > 1
    BY <1>2
  <2> QED
    BY <1>4, <2>1 DEF Added
<1>9. AddedBehind(1) => Added'
  BY <1>4 DEF Added, AddedBehind
<1> QED
  BY <1>7, <1>8, <1>9

\* What is left under way when an answer has been received.
LEMMA ReceivePending ==
    ASSUME IInv, 1 \in DOMAIN answers, Receive(1)
    PROVE  /\ 1 \in 1..Len(Pending) /\ Pending[1] = answers[1][1]
           /\ Pending \in Seq(Requests) /\ Without(Pending, 1) \in Seq(Requests)
           /\ UNCHANGED sent => Pending' = Without(Pending, 1)
           /\ \A r \in Requests :
                 SendRequests(<<r>>) => Pending' = Append(Without(Pending, 1), r)
           /\ \A r, s \in Requests :
                 SendRequests(<<r, s>>) =>
                     Pending' = Append(Append(Without(Pending, 1), r), s)
           /\ \A name : /\ Asked(Without(Pending, 1), name) => Asked(Pending, name)
                        /\ Asked(Pending, name) =>
                              \/ Asked(Without(Pending, 1), name)
                              \/ answers[1][1][1] = name
           /\ AskedAfter(Without(Pending, 1), OrdersOfUser, OrdersOfUser, user)
           /\ AskedAfter(Without(Pending, 1), ItemsOfOrder, ItemsOfOrder, order)
           /\ AskedAfter(Without(Pending, 1), PoolOfOrder, ItemsOfOrder, order)
           /\ editing => Follows(Without(Pending, 1), ItemsOfOrder, PoolOfOrder)
<1> DEFINE a == RemoveAt(answers, 1)
           q == Without(Pending, 1)
<1>1. /\ 1 \in 1..Len(Pending) /\ Pending[1] = answers[1][1]
      /\ Answers(a) /\ UnderWay(a, sent) = q /\ q \in Seq(Requests)
  BY PendingReceive DEF IInv
<1>2. Pending \in Seq(Requests) /\ sent \in Seq(Requests)
  BY PendingSeq DEF IInv
<1>3. answers' = a
  BY DEF Receive
<1> HIDE DEF a
<1>4. UNCHANGED sent => Pending' = q
  BY <1>1, <1>3 DEF Pending
<1>5. ASSUME NEW r \in Requests, SendRequests(<<r>>)
      PROVE  Pending' = Append(q, r)
  <2>1. sent' = Append(sent, r)
    BY <1>2, <1>5, AppendIsConcat DEF SendRequests
  <2> QED
    BY <1>1, <1>2, <1>3, <2>1, UnderWayAppend DEF Pending
<1>6. ASSUME NEW r \in Requests, NEW s \in Requests, SendRequests(<<r, s>>)
      PROVE  Pending' = Append(Append(q, r), s)
  <2>1. sent' = Append(Append(sent, r), s)
    <3>1. sent' = sent \o <<r, s>>
      BY <1>6 DEF SendRequests
    <3>2. <<r>> \in Seq(Requests) /\ <<s>> \in Seq(Requests) /\ <<r, s>> = <<r>> \o <<s>>
      <4>1. <<r>> \in Seq(Requests) /\ <<s>> \in Seq(Requests)
        OBVIOUS
      <4> DEFINE t == Append(<<r>>, s)
                 u == <<r, s>>
      <4>a. t \in Seq(Requests) /\ Len(t) = 2 /\ t[1] = r /\ t[2] = s
        OBVIOUS
      <4>b. u \in Seq(Requests) /\ Len(u) = 2 /\ u[1] = r /\ u[2] = s
        OBVIOUS
      <4>2. t = u
        <5> HIDE DEF t, u
        <5>1. \A n \in 1..Len(t) : t[n] = u[n]
          BY <4>a, <4>b
        <5> QED
          BY <4>a, <4>b, <5>1, SeqEqual
      <4> QED
        BY <4>1, <4>2, AppendIsConcat
    <3>3. sent \o <<r, s>> = (sent \o <<r>>) \o <<s>>
      BY <1>2, <3>2, ConcatAssociative
    <3>4. sent \o <<r>> = Append(sent, r) /\ Append(sent, r) \in Seq(Requests)
      BY <1>2, AppendIsConcat, AppendProperties
    <3>5. Append(sent, r) \o <<s>> = Append(Append(sent, r), s)
      BY <3>4, AppendIsConcat
    <3> QED
      BY <3>1, <3>3, <3>4, <3>5
  <2>2. /\ Append(sent, r) \in Seq(Requests)
        /\ UnderWay(a, Append(sent, r)) = Append(q, r)
    BY <1>1, <1>2, UnderWayAppend
  <2>3. UnderWay(a, Append(Append(sent, r), s)) = Append(UnderWay(a, Append(sent, r)), s)
    BY <1>1, <2>2, UnderWayAppend
  <2> QED
    BY <1>3, <2>1, <2>2, <2>3 DEF Pending
<1>7. \A name : /\ Asked(q, name) => Asked(Pending, name)
                /\ Asked(Pending, name) => Asked(q, name) \/ answers[1][1][1] = name
  BY <1>1, <1>2, WithoutAsked
<1>8. /\ AskedAfter(q, OrdersOfUser, OrdersOfUser, user)
      /\ AskedAfter(q, ItemsOfOrder, ItemsOfOrder, order)
      /\ AskedAfter(q, PoolOfOrder, ItemsOfOrder, order)
  BY <1>1, <1>2, WithoutAskedAfter DEF IInv, AskedInv
<1>9. editing => Follows(q, ItemsOfOrder, PoolOfOrder)
  BY <1>1, <1>2, WithoutFollows DEF IInv, EditingInv
<1> QED
  BY <1>1, <1>2, <1>4, <1>5, <1>6, <1>7, <1>8, <1>9

\* An answer that does not come leaves its tables to be stale.
LEMMA KeepFail ==
    ASSUME IInv, TypeInv', 1 \in DOMAIN answers, Receive(1), Fail(answers[1][1])
    PROVE  IInv'
<1> DEFINE q == Without(Pending, 1)
           req == answers[1][1]
<1>1. /\ AnswersInv'
      /\ Added => Added' \/ req[1] = "order_add_item"
  BY KeepAnswersReceive DEF IInv
<1>2. /\ Pending' = q
      /\ \A name : /\ Asked(q, name) => Asked(Pending, name)
                   /\ Asked(Pending, name) => Asked(q, name) \/ req[1] = name
      /\ AskedAfter(q, OrdersOfUser, OrdersOfUser, user)
      /\ AskedAfter(q, ItemsOfOrder, ItemsOfOrder, order)
      /\ AskedAfter(q, PoolOfOrder, ItemsOfOrder, order)
      /\ editing => Follows(q, ItemsOfOrder, PoolOfOrder)
  BY ReceivePending DEF Fail
<1>3. /\ UNCHANGED <<user, order, editing, tables, store>>
      /\ stale' = stale \cup Fills(req)
  BY DEF Receive, Fail, selection
<1>4. /\ req[1] = OrdersOfUser => "order" \in Fills(req)
      /\ req[1] = ItemsOfOrder => "item" \in Fills(req)
      /\ req[1] = PoolOfOrder => "pool" \in Fills(req)
      /\ req[1] = "order_add_item" => "item" \in Fills(req) /\ "pool" \in Fills(req)
  BY DEF Fills, OrdersOfUser, ItemsOfOrder, PoolOfOrder
<1> HIDE DEF q, req
<1>5. AskedInv' /\ OrderTableInv'
  BY <1>2, <1>3, <1>4 DEF IInv, AskedInv, OrderTableInv, tables
<1>6. ItemTableInv'
  BY <1>1, <1>2, <1>3, <1>4 DEF IInv, ItemTableInv, NoLess, tables, store
<1>7. PoolTableInv'
  BY <1>1, <1>2, <1>3, <1>4 DEF IInv, PoolTableInv, Available, ItemsOf, tables, store
<1>8. EditingInv' /\ HighlightedInv'
  BY <1>2, <1>3, <1>4 DEF IInv, EditingInv, HighlightedInv, tables
<1> QED
  BY <1>1, <1>5, <1>6, <1>7, <1>8 DEF IInv

LEMMA KeepSucceed ==
    ASSUME IInv, TypeInv', 1 \in DOMAIN answers, Receive(1), answers[1][2] # NoAnswer
    PROVE  IInv'
<1> DEFINE q == Without(Pending, 1)
           req == answers[1][1]
           data == answers[1][2]
<1>1. /\ AnswersInv'
      /\ Added => Added' \/ req[1] = "order_add_item"
      /\ AddedBehind(1) => Added'
  BY KeepAnswersReceive DEF IInv
<1>2. /\ q \in Seq(Requests)
      /\ UNCHANGED sent => Pending' = q
      /\ \A r \in Requests : SendRequests(<<r>>) => Pending' = Append(q, r)
      /\ \A r, s \in Requests :
            SendRequests(<<r, s>>) => Pending' = Append(Append(q, r), s)
  BY ReceivePending
<1>3. /\ \A name : /\ Asked(q, name) => Asked(Pending, name)
                   /\ Asked(Pending, name) => Asked(q, name) \/ req[1] = name
      /\ AskedAfter(q, OrdersOfUser, OrdersOfUser, user)
      /\ AskedAfter(q, ItemsOfOrder, ItemsOfOrder, order)
      /\ AskedAfter(q, PoolOfOrder, ItemsOfOrder, order)
      /\ editing => Follows(q, ItemsOfOrder, PoolOfOrder)
  BY ReceivePending
<1>4. Succeed(req, data) /\ UNCHANGED <<user, order, editing, lines>>
  BY DEF Receive, selection, store
<1>5. req \in Requests /\ Suits(req, data) /\ (user = NoUser => req[1] = "account_select_all")
  BY Received DEF IInv
<1>6. /\ req[1] = ItemsOfOrder => AddedBehind(1) \/ NoLess(req[2], data)
      /\ req[1] = PoolOfOrder => AddedBehind(1) \/ data \subseteq Available(req[2])
  BY DEF IInv, AnswersInv
<1>7. /\ req[1] = OrdersOfUser /\ ~Asked(q, OrdersOfUser) => req[2] = user
      /\ req[1] = ItemsOfOrder /\ ~Asked(q, ItemsOfOrder) => req[2] = order
      /\ req[1] = PoolOfOrder /\ ~Asked(q, ItemsOfOrder) => req[2] = order
      /\ req[1] = ItemsOfOrder /\ editing => Asked(q, PoolOfOrder)
  <2>1. Pending \in Seq(Requests) /\ 1 \in 1..Len(Pending) /\ Pending[1] = req
    BY ReceivePending
  <2>2. /\ AskedAfter(Pending, OrdersOfUser, OrdersOfUser, user)
        /\ AskedAfter(Pending, ItemsOfOrder, ItemsOfOrder, order)
        /\ AskedAfter(Pending, PoolOfOrder, ItemsOfOrder, order)
        /\ editing => Follows(Pending, ItemsOfOrder, PoolOfOrder)
    BY DEF IInv, AskedInv, EditingInv
  <2> QED
    BY <2>1, <2>2, HeadAskedAfter, HeadFollows
<1>8. TypeOK
  BY DEF IInv, TypeInv
<1> HIDE DEF q, req, data
<1>a. ASSUME req[1] = "account_select_all", UNCHANGED <<tables, sent, stale>>
      PROVE  IInv'
  <2>1. Pending' = q
    BY <1>2, <1>a
  <2>2. \A name \in {OrdersOfUser, ItemsOfOrder, PoolOfOrder} :
           Asked(Pending, name) => Asked(q, name)
    BY <1>3, <1>a DEF OrdersOfUser, ItemsOfOrder, PoolOfOrder
  <2>3. Added => Added'
    BY <1>1, <1>a
  <2>4. AskedInv' /\ OrderTableInv'
    BY <1>3, <1>4, <1>a, <2>1, <2>2 DEF IInv, AskedInv, OrderTableInv, tables
  <2>5. ItemTableInv' /\ PoolTableInv'
    BY <1>4, <1>a, <2>1, <2>2, <2>3
       DEF IInv, ItemTableInv, PoolTableInv, NoLess, Available, ItemsOf, tables
  <2>6. EditingInv' /\ HighlightedInv'
    BY <1>3, <1>4, <1>a, <2>1, <2>2 DEF IInv, EditingInv, HighlightedInv, tables
  <2> QED
    BY <1>1, <2>4, <2>5, <2>6 DEF IInv
<1>b. ASSUME req[1] = OrdersOfUser, CreateOrders(req[2], data), stale' = {}
      PROVE  IInv'
  <2>1. Pending' = q
    BY <1>2, <1>b DEF CreateOrders
  <2>2. /\ orderTable' = [of |-> req[2], rows |-> data] /\ highlighted' = NoOrder
        /\ itemTable' = NoTable /\ poolTable' = NoTable
    BY <1>b DEF CreateOrders
  <2>3. AskedInv' /\ OrderTableInv'
    BY <1>3, <1>4, <1>7, <1>b, <2>1, <2>2 DEF AskedInv, OrderTableInv
  <2>4. ItemTableInv' /\ PoolTableInv'
    BY <2>2 DEF ItemTableInv, PoolTableInv
  <2>5. EditingInv' /\ HighlightedInv'
    BY <1>3, <1>4, <2>1, <2>2 DEF EditingInv, HighlightedInv
  <2> QED
    BY <1>1, <2>3, <2>4, <2>5 DEF IInv
<1>c. ASSUME req[1] = ItemsOfOrder, CreateItems(req[2], data),
             stale' = stale \ {"item", "pool"}
      PROVE  IInv'
  <2>1. Pending' = q
    BY <1>2, <1>c DEF CreateItems
  <2>2. /\ itemTable' = [of |-> req[2], rows |-> data] /\ poolTable' = NoTable
        /\ UNCHANGED <<orderTable, highlighted>>
    BY <1>c DEF CreateItems
  <2>3. Asked(Pending, OrdersOfUser) => Asked(q, OrdersOfUser)
    BY <1>3, <1>c DEF OrdersOfUser, ItemsOfOrder
  <2>4. AskedInv' /\ OrderTableInv'
    BY <1>3, <1>4, <1>c, <2>1, <2>2, <2>3 DEF IInv, AskedInv, OrderTableInv
  <2>5. itemTable' # NoTable
    <3>1. data \in [Items -> Nat] /\ req[2] \in AnyOrder
      BY <1>5, <1>c, RequestShape DEF Suits
    <3> QED
      BY <2>2, <3>1, NoTableAssumption
  <2>6. ItemTableInv' /\ PoolTableInv'
    BY <1>1, <1>4, <1>6, <1>7, <1>c, <2>1, <2>2 DEF ItemTableInv, PoolTableInv, NoLess
  <2>7. EditingInv' /\ HighlightedInv'
    BY <1>3, <1>4, <1>7, <1>c, <2>1, <2>2, <2>5 DEF IInv, EditingInv, HighlightedInv
  <2> QED
    BY <1>1, <2>4, <2>6, <2>7 DEF IInv
<1>d. ASSUME req[1] = PoolOfOrder, CreatePool(req[2], data), stale' = stale \ {"pool"}
      PROVE  IInv'
  <2>1. Pending' = q
    BY <1>2, <1>d DEF CreatePool
  <2>2. /\ poolTable' = [of |-> req[2], rows |-> data]
        /\ UNCHANGED <<orderTable, highlighted, itemTable>>
    BY <1>d DEF CreatePool
  <2>3. \A name \in {OrdersOfUser, ItemsOfOrder} : Asked(Pending, name) => Asked(q, name)
    BY <1>3, <1>d DEF OrdersOfUser, ItemsOfOrder, PoolOfOrder
  <2>4. Added => Added'
    BY <1>1, <1>d DEF PoolOfOrder
  <2>5. AskedInv' /\ OrderTableInv'
    BY <1>3, <1>4, <1>d, <2>1, <2>2, <2>3 DEF IInv, AskedInv, OrderTableInv
  <2>6. poolTable' # NoTable
    <3>1. data \in SUBSET Items /\ req[2] \in AnyOrder
      BY <1>5, <1>d, RequestShape DEF Suits
    <3> QED
      BY <2>2, <3>1, NoTableAssumption
  <2>7. ItemTableInv'
    BY <1>4, <1>d, <2>1, <2>2, <2>3, <2>4 DEF IInv, ItemTableInv, NoLess
  <2>8. PoolTableInv'
    BY <1>1, <1>4, <1>6, <1>7, <1>d, <2>1, <2>2 DEF PoolTableInv, Available, ItemsOf
  <2>9. EditingInv' /\ HighlightedInv'
    BY <1>3, <1>4, <1>d, <2>1, <2>2, <2>3, <2>6 DEF IInv, EditingInv, HighlightedInv
  <2> QED
    BY <1>1, <2>5, <2>7, <2>8, <2>9 DEF IInv
<1>e. ASSUME req[1] = "order_remove", RefreshOrders, UNCHANGED stale
      PROVE  IInv'
  <2> DEFINE r == <<OrdersOfUser, user>>
             p == Append(q, r)
  <2>1. r \in Requests
    <3>1. user \in Users
      BY <1>5, <1>8, <1>e DEF TypeOK
    <3> QED
      BY <3>1 DEF Requests, OrdersOfUser
  <2>2. Pending' = p
    BY <1>2, <1>e, <2>1 DEF RefreshOrders, OrdersOfUser
  <2>3. \A name : Asked(p, name) <=> Asked(q, name) \/ r[1] = name
    BY <1>2, <2>1, AppendAsked
  <2>4. /\ AskedAfter(p, OrdersOfUser, OrdersOfUser, user)
        /\ AskedAfter(p, ItemsOfOrder, ItemsOfOrder, order)
        /\ AskedAfter(p, PoolOfOrder, ItemsOfOrder, order)
    BY <1>2, <1>3, <2>1, AppendLast, AppendAskedAfter
       DEF OrdersOfUser, ItemsOfOrder, PoolOfOrder
  <2>5. editing => Follows(p, ItemsOfOrder, PoolOfOrder)
    BY <1>2, <1>3, <2>1, AppendFollows DEF OrdersOfUser, ItemsOfOrder
  <2> HIDE DEF p
  <2>6. Asked(p, OrdersOfUser)
    BY <2>3
  <2>7. \A name \in {ItemsOfOrder, PoolOfOrder} : Asked(Pending, name) => Asked(p, name)
    BY <1>3, <1>e, <2>3 DEF ItemsOfOrder, PoolOfOrder
  <2>8. (Added => Added') /\ UNCHANGED tables
    BY <1>1, <1>e DEF RefreshOrders
  <2>9. AskedInv' /\ OrderTableInv'
    BY <1>4, <2>2, <2>4, <2>6 DEF AskedInv, OrderTableInv
  <2>10. ItemTableInv' /\ PoolTableInv'
    BY <1>4, <1>e, <2>2, <2>7, <2>8
       DEF IInv, ItemTableInv, PoolTableInv, NoLess, Available, ItemsOf, tables
  <2>11. EditingInv' /\ HighlightedInv'
    BY <1>4, <1>e, <2>2, <2>5, <2>7, <2>8 DEF IInv, EditingInv, HighlightedInv, tables
  <2> QED
    BY <1>1, <2>9, <2>10, <2>11 DEF IInv
<1>f. ASSUME req[1] = "order_add_item", RefreshItems, UNCHANGED stale
      PROVE  IInv'
  <2> DEFINE r == <<ItemsOfOrder, order>>
             s == <<PoolOfOrder, order>>
             o == Append(q, r)
             p == Append(o, s)
  <2>1. r \in Requests /\ s \in Requests
    BY <1>8 DEF TypeOK, Requests, ItemsOfOrder, PoolOfOrder
  <2>2. Pending' = p
    BY <1>2, <1>f, <2>1 DEF RefreshItems, ItemsOfOrder, PoolOfOrder
  <2>3. /\ o \in Seq(Requests)
        /\ \A name : Asked(o, name) <=> Asked(q, name) \/ r[1] = name
        /\ AskedAfter(o, OrdersOfUser, OrdersOfUser, user)
        /\ AskedAfter(o, ItemsOfOrder, ItemsOfOrder, order)
        /\ AskedAfter(o, PoolOfOrder, ItemsOfOrder, order)
    BY <1>2, <1>3, <2>1, AppendProperties, AppendAsked, AppendLast, AppendAskedAfter
       DEF OrdersOfUser, ItemsOfOrder, PoolOfOrder
  <2> HIDE DEF o
  <2>4. /\ \A name : Asked(p, name) <=> Asked(o, name) \/ s[1] = name
        /\ AskedAfter(p, OrdersOfUser, OrdersOfUser, user)
        /\ AskedAfter(p, ItemsOfOrder, ItemsOfOrder, order)
        /\ AskedAfter(p, PoolOfOrder, ItemsOfOrder, order)
        /\ Follows(p, ItemsOfOrder, PoolOfOrder)
    BY <2>1, <2>3, AppendAsked, AppendAskedAfter, AppendFollowed
       DEF OrdersOfUser, ItemsOfOrder, PoolOfOrder
  <2> HIDE DEF p
  <2>5. Asked(p, ItemsOfOrder) /\ Asked(p, PoolOfOrder)
    BY <2>3, <2>4
  <2>6. Asked(Pending, OrdersOfUser) => Asked(p, OrdersOfUser)
    BY <1>3, <1>f, <2>3, <2>4 DEF OrdersOfUser
  <2>7. UNCHANGED tables
    BY <1>f DEF RefreshItems
  <2>8. AskedInv' /\ OrderTableInv'
    BY <1>4, <1>f, <2>2, <2>4, <2>6, <2>7 DEF IInv, AskedInv, OrderTableInv, tables
  <2>9. ItemTableInv' /\ PoolTableInv' /\ EditingInv'
    BY <2>2, <2>4, <2>5 DEF ItemTableInv, PoolTableInv, EditingInv
  <2>10. HighlightedInv'
    BY <1>4, <2>2, <2>5, <2>7 DEF IInv, HighlightedInv, tables
  <2> QED
    BY <1>1, <2>8, <2>9, <2>10 DEF IInv
<1> QED
  BY <1>4, <1>a, <1>b, <1>c, <1>d, <1>e, <1>f
     DEF Succeed, OrdersOfUser, ItemsOfOrder, PoolOfOrder

-----------------------------------------------------------------------------
(* The theorems                                                            *)

LEMMA KeepStutter ==
    ASSUME IInv, TypeInv', UNCHANGED vars
    PROVE  IInv'
<1> USE DEF vars, selection, tables, network, store
<1>1. Pending' = Pending
  BY DEF Pending
<1>2. AnswersInv' /\ Added' = Added
  BY AnswersAlone DEF IInv, ServerUnchanged
<1> QED
  BY <1>1, <1>2
     DEF IInv, AskedInv, OrderTableInv, ItemTableInv, PoolTableInv, EditingInv,
         HighlightedInv, NoLess, Available, ItemsOf

LEMMA NextIInv ==
    ASSUME InOrder, IInv, [Next]_vars
    PROVE  IInv'
<1>1. TypeInv'
  BY TypeNext DEF IInv
<1>2. CASE Click
  BY <1>1, <1>2, KeepClick
<1>3. CASE Serve
  <2>1. 1 \in DOMAIN sent /\ (Execute(1) \/ LoseRequest(1))
    BY <1>3 DEF Serve, Due
  <2> QED
    BY <1>1, <2>1, KeepExecute, KeepLoseRequest
<1>4. CASE Answered
  <2>1. 1 \in DOMAIN answers /\ Receive(1)
    BY <1>4 DEF Answered, Due
  <2>2. CASE answers[1][2] = NoAnswer
    BY <1>1, <2>1, <2>2, KeepFail DEF Receive
  <2>3. CASE answers[1][2] # NoAnswer
    BY <1>1, <2>1, <2>3, KeepSucceed
  <2> QED
    BY <2>2, <2>3
<1>5. CASE UNCHANGED vars
  BY <1>1, <1>5, KeepStutter
<1> QED
  BY <1>2, <1>3, <1>4, <1>5 DEF Next

\* The strengthening of the four theorems below, provided that requests and
\* answers stay in order: every table agrees with what is selected, or what
\* makes it agree is under way, or its answer was lost.
THEOREM SpecIInv == InOrder => (Spec => []IInv)
<1> SUFFICES ASSUME InOrder
             PROVE  Spec => []IInv
  OBVIOUS
<1>1. Init => IInv
  BY InitIInv
<1>2. IInv /\ [Next]_vars => IInv'
  BY NextIInv
<1> QED
  BY <1>1, <1>2, PTL DEF Spec

\* When nothing is under way, no name has been asked for.
LEMMA QuietNotAsked ==
    ASSUME Quiet, NEW name
    PROVE  ~Asked(Pending, name) /\ ~Added
<1>1. DOMAIN Pending = {} /\ DOMAIN answers = {}
  BY DEF Quiet, Pending, UnderWay
<1> QED
  BY <1>1 DEF Asked, Added

\* With nothing under way the tables show what is selected, unless an answer
\* was lost (the handlers of order_table.js, item_table.js and
\* item_pool_table.js; request.js has none for a failure).
THEOREM SpecTablesAgree == InOrder => (Spec => []TablesAgree)
<1>1. IInv => TablesAgree
  BY QuietNotAsked DEF IInv, TablesAgree, OrderTableInv, ItemTableInv, PoolTableInv
<1> QED
  BY <1>1, SpecIInv, PTL

\* With nothing under way no line of the selected order is missing from its
\* table, and the pool has no item that is in the order: after an item is added
\* both tables are asked for again (select_add_item_request_success).
THEOREM SpecNothingMissing == InOrder => (Spec => []NothingMissing)
<1>1. IInv => NothingMissing
  BY QuietNotAsked DEF IInv, NothingMissing, ItemTableInv, PoolTableInv, NoLess, ItemsOf
<1> QED
  BY <1>1, SpecIInv, PTL

\* With nothing under way, the pool of an order that is being edited is there,
\* though Item_table.create clears it each time.
THEOREM SpecPoolWhileEditing == InOrder => (Spec => []PoolWhileEditing)
<1>1. IInv => PoolWhileEditing
  BY QuietNotAsked DEF IInv, PoolWhileEditing, EditingInv
<1> QED
  BY <1>1, SpecIInv, PTL

\* With nothing under way, the item table is that of the highlighted order
\* (Order_table.row_onlick_handler and the answer it waits for).
THEOREM SpecHighlightedIsShown == InOrder => (Spec => []HighlightedIsShown)
<1>1. IInv => HighlightedIsShown
  BY QuietNotAsked DEF IInv, HighlightedIsShown, HighlightedInv, ItemTableInv
<1> QED
  BY <1>1, SpecIInv, PTL

=============================================================================

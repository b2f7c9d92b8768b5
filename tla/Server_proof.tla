---------------------------- MODULE Server_proof ----------------------------
(***************************************************************************)
(* For every number of clients and every backlog: the invariants of the    *)
(* main loop, and that it implements RequestService step by step.          *)
(***************************************************************************)
EXTENDS Server, SequenceTheorems, TLAPS

\* A request has at most two segments, on their way or arrived, and a closed
\* connection holds none.
SegmentsInv ==
    \A c \in Clients :
        /\ unsent[c] + inbox[c] <= 2
        /\ link[c] \in {"none", "closed"} => inbox[c] = 0

\* The queue holds open connections only, each once, and not the one being
\* served.
QueueInv ==
    /\ \A n \in DOMAIN queue : queue[n] \in Connected /\ queue[n] # cur
    /\ \A m, n \in DOMAIN queue : queue[m] = queue[n] => m = n
    /\ cur # NoClient => cur \in Connected
    /\ pc = "down" => queue = <<>>

\* What errors, buffer and result say of the request at each call of main.
ProgressInv ==
    /\ pc \in {"down", "accept", "recv"} => buffer = "nothing"
    /\ pc \in {"parse", "dispatch", "send"} => buffer # "nothing"
    /\ pc \notin {"send", "close"} => result = "none"
    /\ pc \in {"recv", "parse"} => ~errors
    /\ pc = "dispatch" => (errors <=> Body = "malformed") /\ Body # "stop"
    /\ pc = "send" => (errors <=> result # "done")
    /\ pc = "send" /\ Body = "known" => result # "none"

\* Only a client main is through with has an answer.
AnswerInv ==
    \A c \in Clients :
        answer[c] = "result" => link[c] = "closed" \/ (c = cur /\ pc = "close")

IInv ==
    /\ TypeOK
    /\ SegmentsInv
    /\ QueueInv
    /\ ProgressInv
    /\ AnswerInv
    /\ NoLeakedConnection
    /\ OnlyWholeExecuted
    /\ WholeRequestAnswered

LEMMA InitIInv == Init => IInv
<1> SUFFICES ASSUME Init PROVE IInv
  OBVIOUS
<1>1. TypeOK
  <2>1. queue \in Seq(Clients) /\ Len(queue) <= Backlog + 1
    <3>1. <<>> \in Seq(Clients) /\ Len(<<>>) = 0
      BY EmptySeq
    <3>2. 0 <= Backlog + 1
      BY ServerAssumption
    <3>3. QED BY <3>1, <3>2 DEF Init
  <2>2. link \in [Clients -> {"none", "open", "gone", "closed"}]
    BY DEF Init
  <2>3. ask \in [Clients -> Requests]
    BY DEF Init, Requests
  <2>4. unsent \in [Clients -> 0 .. 2] /\ inbox \in [Clients -> 0 .. 2]
    BY DEF Init
  <2>5. answer \in [Clients -> {"none", "result"}]
    BY DEF Init
  <2>6. /\ pc = "down" /\ cur = NoClient /\ errors = FALSE
        /\ buffer = "nothing" /\ result = "none"
    BY DEF Init
  <2> HIDE DEF Init
  <2>7. QED BY <2>1, <2>2, <2>3, <2>4, <2>5, <2>6 DEF TypeOK
<1>2. SegmentsInv /\ QueueInv
  BY DEF Init, SegmentsInv, QueueInv
<1>3. ProgressInv /\ AnswerInv
  BY DEF Init, ProgressInv, AnswerInv
<1>4. NoLeakedConnection /\ OnlyWholeExecuted /\ WholeRequestAnswered
  BY DEF Init, NoLeakedConnection, Connected, OnlyWholeExecuted, WholeRequestAnswered
<1>5. QED BY <1>1, <1>2, <1>3, <1>4 DEF IInv

USE DEF locals, wire

\* The steps of a client that leave the queue and main's variables alone.
LEMMA DeliverKeeps == ASSUME IInv, NEW c \in Clients, Deliver(c) PROVE IInv'
<1>1. TypeOK'
  BY DEF IInv, TypeOK, SegmentsInv, Deliver
<1>2. SegmentsInv'
  BY DEF IInv, TypeOK, SegmentsInv, Deliver
<1>3. QueueInv' /\ NoLeakedConnection'
  BY DEF IInv, QueueInv, NoLeakedConnection, InQueue, Connected, Deliver
<1>4. ProgressInv' /\ AnswerInv' /\ OnlyWholeExecuted' /\ WholeRequestAnswered'
  BY DEF IInv, ProgressInv, AnswerInv, OnlyWholeExecuted, WholeRequestAnswered,
         Body, Deliver
<1>5. QED BY <1>1, <1>2, <1>3, <1>4 DEF IInv

LEMMA QuitKeeps == ASSUME IInv, NEW c \in Clients, Quit(c) PROVE IInv'
<1>1. TypeOK' /\ SegmentsInv'
  BY DEF IInv, TypeOK, SegmentsInv, Quit
<1>2. Connected' = Connected
  BY DEF IInv, TypeOK, Connected, Quit
<1>3. QueueInv' /\ NoLeakedConnection'
  BY <1>2 DEF IInv, QueueInv, NoLeakedConnection, InQueue, Quit
<1>4. ProgressInv' /\ OnlyWholeExecuted' /\ WholeRequestAnswered'
  BY DEF IInv, TypeOK, ProgressInv, OnlyWholeExecuted, WholeRequestAnswered, Body, Quit
<1>5. AnswerInv'
  BY DEF IInv, TypeOK, AnswerInv, Quit
<1>6. QED BY <1>1, <1>3, <1>4, <1>5 DEF IInv

LEMMA ComeBackKeeps == ASSUME IInv, NEW c \in Clients, ComeBack(c) PROVE IInv'
<1>1. TypeOK' /\ SegmentsInv'
  BY DEF IInv, TypeOK, SegmentsInv, ComeBack
<1>2. Connected' = Connected
  BY DEF IInv, TypeOK, Connected, ComeBack
<1>3. QueueInv' /\ NoLeakedConnection'
  BY <1>2 DEF IInv, QueueInv, NoLeakedConnection, InQueue, ComeBack
<1>4. cur # c
  BY ServerAssumption DEF IInv, QueueInv, Connected, ComeBack
<1>5. ProgressInv' /\ OnlyWholeExecuted' /\ WholeRequestAnswered'
  BY <1>4 DEF IInv, TypeOK, ProgressInv, OnlyWholeExecuted, WholeRequestAnswered, Body, ComeBack
<1>6. AnswerInv'
  BY DEF IInv, TypeOK, AnswerInv, ComeBack
<1>7. QED BY <1>1, <1>3, <1>5, <1>6 DEF IInv

\* Connect is the only step that makes the queue longer.
LEMMA ConnectKeeps == ASSUME IInv, NEW c \in Clients, Connect(c) PROVE IInv'
<1> DEFINE q == Append(queue, c)
<1>1. queue \in Seq(Clients)
  BY DEF IInv, TypeOK
<1>2. /\ q \in Seq(Clients) /\ Len(q) = Len(queue) + 1
      /\ \A n \in DOMAIN queue : n \in DOMAIN q /\ q[n] = queue[n]
      /\ \A n \in DOMAIN q : n \in DOMAIN queue \/ (n = Len(q) /\ q[n] = c)
      /\ Len(q) \in DOMAIN q /\ q[Len(q)] = c
  BY <1>1, AppendProperties, LenProperties
<1>3. queue' = q
  BY DEF Connect
<1> HIDE DEF q
<1>4. Connected' = Connected \cup {c} /\ c \notin Connected
  BY DEF IInv, TypeOK, Connect, Connected
<1>5. PICK r \in Requests, k \in Max2 :
         ask' = [ask EXCEPT ![c] = r] /\ unsent' = [unsent EXCEPT ![c] = k]
  BY DEF Connect
<1>6. TypeOK'
  BY <1>1, <1>2, <1>3, <1>5, ServerAssumption DEF IInv, TypeOK, Connect, Max2
<1>7. SegmentsInv'
  BY <1>5 DEF IInv, TypeOK, SegmentsInv, Connect, Max2
<1>8. QueueInv'
  <2>1. \A n \in DOMAIN q : q[n] \in Connected' /\ q[n] # cur
    BY <1>2, <1>4, ServerAssumption DEF IInv, QueueInv
  <2>2. \A m, n \in DOMAIN q : q[m] = q[n] => m = n
    BY <1>2, <1>4 DEF IInv, QueueInv
  <2>3. QED BY <1>3, <1>4, <2>1, <2>2 DEF IInv, QueueInv, Connect
<1>9. NoLeakedConnection'
  BY <1>2, <1>3, <1>4 DEF IInv, NoLeakedConnection, InQueue, Connect
<1>10. cur # c
  BY <1>4, ServerAssumption DEF IInv, QueueInv
<1>11. ProgressInv' /\ OnlyWholeExecuted' /\ WholeRequestAnswered'
  BY <1>5, <1>10 DEF IInv, TypeOK, ProgressInv, OnlyWholeExecuted,
                     WholeRequestAnswered, Body, Connect
<1>12. AnswerInv'
  BY DEF IInv, TypeOK, AnswerInv, Connect
<1>13. QED BY <1>6, <1>7, <1>8, <1>9, <1>11, <1>12 DEF IInv

LEMMA StartKeeps == ASSUME IInv, Start PROVE IInv'
<1>1. TypeOK' /\ SegmentsInv' /\ AnswerInv'
  BY DEF IInv, TypeOK, SegmentsInv, AnswerInv, Start
<1>2. QueueInv' /\ NoLeakedConnection'
  BY DEF IInv, QueueInv, NoLeakedConnection, InQueue, Connected, Start
<1>3. ProgressInv' /\ OnlyWholeExecuted' /\ WholeRequestAnswered'
  BY DEF IInv, ProgressInv, OnlyWholeExecuted, WholeRequestAnswered, Body, Start
<1>4. QED BY <1>1, <1>2, <1>3 DEF IInv

LEMMA AcceptFailsKeeps == ASSUME IInv, AcceptFails PROVE IInv'
<1>1. TypeOK' /\ SegmentsInv' /\ AnswerInv'
  BY DEF IInv, TypeOK, SegmentsInv, AnswerInv, AcceptFails
<1>2. QueueInv' /\ NoLeakedConnection'
  BY DEF IInv, QueueInv, NoLeakedConnection, InQueue, Connected, AcceptFails
<1>3. ProgressInv' /\ OnlyWholeExecuted' /\ WholeRequestAnswered'
  BY DEF IInv, TypeOK, ProgressInv, OnlyWholeExecuted, WholeRequestAnswered, Body, AcceptFails
<1>4. QED BY <1>1, <1>2, <1>3 DEF IInv

\* Taking the head off a queue.
LEMMA TailOfQueue ==
  ASSUME NEW S, NEW q \in Seq(S), q # <<>>
  PROVE  /\ Head(q) \in S /\ Tail(q) \in Seq(S) /\ Len(Tail(q)) = Len(q) - 1
         /\ 1 \in DOMAIN q /\ q[1] = Head(q)
         /\ \A n \in DOMAIN Tail(q) : n \in Nat /\ n + 1 \in DOMAIN q /\ Tail(q)[n] = q[n + 1]
         /\ \A n \in DOMAIN q : n = 1 \/ \E m \in DOMAIN Tail(q) : n = m + 1
<1>1. Len(q) \in Nat \ {0} /\ DOMAIN q = 1 .. Len(q)
  BY LenProperties, EmptySeq
<1>2. /\ Head(q) \in S /\ Tail(q) \in Seq(S) /\ Len(Tail(q)) = Len(q) - 1
      /\ \A n \in 1 .. Len(Tail(q)) : Tail(q)[n] = q[n + 1]
  BY HeadTailProperties
<1>3. DOMAIN Tail(q) = 1 .. (Len(q) - 1)
  BY <1>2, LenProperties
<1>4. \A n \in DOMAIN q : n = 1 \/ (n - 1 \in DOMAIN Tail(q) /\ n = (n - 1) + 1)
  BY <1>1, <1>3
<1>5. QED BY <1>1, <1>2, <1>3, <1>4

LEMMA HeadTailConcat ==
  ASSUME NEW S, NEW q \in Seq(S), q # <<>>
  PROVE  <<Head(q)>> \o Tail(q) = q
<1>1. /\ Head(q) \in S /\ Tail(q) \in Seq(S) /\ Len(Tail(q)) = Len(q) - 1
      /\ \A n \in 1 .. Len(Tail(q)) : Tail(q)[n] = q[n + 1]
  BY HeadTailProperties
<1>2. Len(q) \in Nat \ {0} /\ q[1] = Head(q)
  BY EmptySeq, LenProperties
<1>3. <<Head(q)>> \in Seq(S) /\ Len(<<Head(q)>>) = 1 /\ <<Head(q)>>[1] = q[1]
  BY <1>1, <1>2
<1> DEFINE p == <<Head(q)>> \o Tail(q)
<1>4. /\ p \in Seq(S) /\ Len(p) = Len(q)
      /\ \A n \in 1 .. Len(q) : p[n] = IF n <= 1 THEN <<Head(q)>>[n] ELSE Tail(q)[n - 1]
  BY <1>1, <1>2, <1>3, ConcatProperties
<1>5. \A n \in 1 .. Len(p) : p[n] = q[n]
  BY <1>1, <1>2, <1>3, <1>4
<1> HIDE DEF p
<1>6. p = q
  BY <1>4, <1>5, SeqEqual
<1>7. QED BY <1>6 DEF p

LEMMA AcceptKeeps == ASSUME IInv, Accept PROVE IInv'
<1> DEFINE t == Tail(queue)
<1>1. /\ cur' \in Clients /\ t \in Seq(Clients) /\ Len(t) = Len(queue) - 1
      /\ 1 \in DOMAIN queue /\ queue[1] = cur'
      /\ \A n \in DOMAIN t : n \in Nat /\ n + 1 \in DOMAIN queue /\ t[n] = queue[n + 1]
      /\ \A n \in DOMAIN queue : n = 1 \/ \E m \in DOMAIN t : n = m + 1
  BY TailOfQueue DEF IInv, TypeOK, Accept
<1>2. queue' = t /\ UNCHANGED <<link, wire, locals, answer>>
  BY DEF Accept
<1> HIDE DEF t
<1>3. TypeOK'
  <2>1. Len(t) <= Backlog + 1
    BY <1>1, ServerAssumption, LenProperties DEF IInv, TypeOK
  <2>2. QED BY <1>1, <1>2, <2>1, ServerAssumption DEF IInv, TypeOK, Accept
<1>4. SegmentsInv'
  BY <1>2 DEF IInv, SegmentsInv
<1>5. Connected' = Connected
  BY <1>2 DEF Connected
<1>6. QueueInv'
  <2>1. \A n \in DOMAIN t : t[n] \in Connected /\ t[n] # cur'
    BY <1>1 DEF IInv, QueueInv
  <2>2. \A m, n \in DOMAIN t : t[m] = t[n] => m = n
    BY <1>1 DEF IInv, QueueInv
  <2>3. cur' \in Connected /\ pc' # "down"
    BY <1>1 DEF IInv, QueueInv, Accept
  <2>4. QED BY <1>2, <1>5, <2>1, <2>2, <2>3 DEF QueueInv
<1>7. NoLeakedConnection'
  <2>1. ASSUME NEW c \in Connected
        PROVE  c = cur' \/ \E m \in DOMAIN t : t[m] = c
    <3>1. c # cur
      BY ServerAssumption DEF IInv, TypeOK, Accept, Connected
    <3>2. PICK n \in DOMAIN queue : queue[n] = c
      BY <3>1 DEF IInv, NoLeakedConnection, InQueue
    <3>3. CASE n = 1
      BY <1>1, <3>2, <3>3
    <3>4. CASE \E m \in DOMAIN t : n = m + 1
      BY <1>1, <3>2, <3>4
    <3>5. QED BY <1>1, <3>3, <3>4
  <2>2. QED BY <1>2, <1>5, <2>1 DEF NoLeakedConnection, InQueue
<1>8. ProgressInv' /\ OnlyWholeExecuted' /\ WholeRequestAnswered'
  BY <1>2 DEF IInv, TypeOK, ProgressInv, OnlyWholeExecuted, WholeRequestAnswered, Body, Accept
<1>9. AnswerInv'
  BY <1>2 DEF IInv, TypeOK, AnswerInv, Accept
<1>10. QED BY <1>3, <1>4, <1>6, <1>7, <1>8, <1>9 DEF IInv

LEMMA RecvKeeps == ASSUME IInv, Recv PROVE IInv'
<1>1. cur \in Clients
  BY DEF IInv, TypeOK, Recv
<1>2. TypeOK' /\ SegmentsInv'
  BY <1>1 DEF IInv, TypeOK, SegmentsInv, Recv
<1>3. QueueInv' /\ NoLeakedConnection'
  BY DEF IInv, QueueInv, NoLeakedConnection, InQueue, Connected, Recv
<1>4. ProgressInv' /\ OnlyWholeExecuted'
  BY <1>1 DEF IInv, TypeOK, ProgressInv, OnlyWholeExecuted, Body, Recv
<1>5. WholeRequestAnswered'
  BY <1>1 DEF IInv, TypeOK, ProgressInv, WholeRequestAnswered, Body, Recv
<1>6. AnswerInv'
  BY DEF IInv, AnswerInv, Recv
<1>7. QED BY <1>2, <1>3, <1>4, <1>5, <1>6 DEF IInv

LEMMA ParseKeeps == ASSUME IInv, Parse PROVE IInv'
<1>1. TypeOK' /\ SegmentsInv' /\ AnswerInv'
  BY DEF IInv, TypeOK, SegmentsInv, AnswerInv, Parse
<1>2. QueueInv' /\ NoLeakedConnection'
  BY DEF IInv, QueueInv, NoLeakedConnection, InQueue, Connected, Parse
<1>3. ProgressInv' /\ OnlyWholeExecuted' /\ WholeRequestAnswered'
  BY DEF IInv, TypeOK, ProgressInv, OnlyWholeExecuted, WholeRequestAnswered, Body, Parse
<1>4. QED BY <1>1, <1>2, <1>3 DEF IInv

LEMMA DispatchKeeps == ASSUME IInv, Dispatch PROVE IInv'
<1>1. TypeOK' /\ SegmentsInv' /\ AnswerInv'
  BY DEF IInv, TypeOK, SegmentsInv, AnswerInv, Dispatch, Handle
<1>2. QueueInv' /\ NoLeakedConnection'
  BY DEF IInv, QueueInv, NoLeakedConnection, InQueue, Connected, Dispatch
<1>3. ProgressInv'
  BY DEF IInv, TypeOK, ProgressInv, Body, Dispatch, Handle
<1>4. OnlyWholeExecuted' /\ WholeRequestAnswered'
  BY DEF IInv, TypeOK, ProgressInv, OnlyWholeExecuted, WholeRequestAnswered, Body,
         Dispatch, Handle
<1>5. QED BY <1>1, <1>2, <1>3, <1>4 DEF IInv

LEMMA SendKeeps == ASSUME IInv, Send PROVE IInv'
<1>1. cur \in Clients
  BY DEF IInv, TypeOK, Send
<1>2. TypeOK' /\ SegmentsInv' /\ AnswerInv'
  BY <1>1 DEF IInv, TypeOK, SegmentsInv, AnswerInv, Send, WriteSocket
<1>3. QueueInv' /\ NoLeakedConnection'
  BY DEF IInv, QueueInv, NoLeakedConnection, InQueue, Connected, Send
<1>4. ProgressInv' /\ OnlyWholeExecuted'
  BY DEF IInv, TypeOK, ProgressInv, OnlyWholeExecuted, Body, Send, WriteSocket
<1>5. WholeRequestAnswered'
  BY <1>1 DEF IInv, TypeOK, ProgressInv, WholeRequestAnswered, Body, Send, WriteSocket
<1>6. QED BY <1>2, <1>3, <1>4, <1>5 DEF IInv

\* What is left of the connections when those of S are closed.
LEMMA HangupConnected ==
  ASSUME IInv, NEW S, Hangup(S)
  PROVE  /\ Connected' = Connected \ S
         /\ SegmentsInv'
         /\ link' \in [Clients -> {"none", "open", "gone", "closed"}]
         /\ ask' \in [Clients -> Requests]
         /\ unsent' \in [Clients -> 0 .. 2] /\ inbox' \in [Clients -> 0 .. 2]
  BY DEF IInv, TypeOK, SegmentsInv, Connected, Hangup, Requests

LEMMA CloseKeeps == ASSUME IInv, Close PROVE IInv'
<1>1. /\ Connected' = Connected \ {cur}
      /\ SegmentsInv'
      /\ link' \in [Clients -> {"none", "open", "gone", "closed"}]
      /\ ask' \in [Clients -> Requests]
      /\ unsent' \in [Clients -> 0 .. 2] /\ inbox' \in [Clients -> 0 .. 2]
  BY HangupConnected DEF Close
<1>2. /\ pc = "close" /\ pc' = "accept" /\ cur' = NoClient
      /\ buffer' = "nothing" /\ result' = "none"
      /\ UNCHANGED <<errors, queue, answer>>
  BY DEF Close
<1>3. TypeOK'
  BY <1>1, <1>2 DEF IInv, TypeOK
<1>4. QueueInv'
  BY <1>1, <1>2, ServerAssumption DEF IInv, QueueInv, Connected
<1>5. NoLeakedConnection'
  BY <1>1, <1>2 DEF IInv, NoLeakedConnection, InQueue
<1>6. ProgressInv' /\ OnlyWholeExecuted' /\ WholeRequestAnswered'
  BY <1>2 DEF ProgressInv, OnlyWholeExecuted, WholeRequestAnswered
<1>7. AnswerInv'
  BY <1>2 DEF IInv, AnswerInv, Close, Hangup
<1>8. QED BY <1>1, <1>3, <1>4, <1>5, <1>6, <1>7 DEF IInv

LEMMA GoDownKeeps == ASSUME IInv, GoDown PROVE IInv'
<1>1. /\ Connected' = {}
      /\ SegmentsInv'
      /\ link' \in [Clients -> {"none", "open", "gone", "closed"}]
      /\ ask' \in [Clients -> Requests]
      /\ unsent' \in [Clients -> 0 .. 2] /\ inbox' \in [Clients -> 0 .. 2]
  BY HangupConnected DEF GoDown
<1>2. /\ pc' = "down" /\ cur' = NoClient /\ errors' = FALSE /\ queue' = <<>>
      /\ buffer' = "nothing" /\ result' = "none" /\ answer' = answer
  BY DEF GoDown
<1>3. TypeOK'
  <2>1. queue' \in Seq(Clients) /\ Len(queue') = 0
    BY <1>2, EmptySeq
  <2>2. 0 <= Backlog + 1
    BY ServerAssumption
  <2>3. QED BY <1>1, <1>2, <2>1, <2>2 DEF IInv, TypeOK
<1>4. QueueInv' /\ NoLeakedConnection'
  BY <1>1, <1>2 DEF QueueInv, NoLeakedConnection
<1>5. ProgressInv' /\ OnlyWholeExecuted' /\ WholeRequestAnswered'
  BY <1>2 DEF ProgressInv, OnlyWholeExecuted, WholeRequestAnswered
<1>6. AnswerInv'
  <2>1. ASSUME NEW c \in Clients, answer'[c] = "result" PROVE link'[c] = "closed"
    <3>1. CASE link[c] = "closed"
      BY <3>1 DEF GoDown, Hangup, Connected
    <3>2. CASE c = cur
      BY <3>2, ServerAssumption DEF IInv, QueueInv, GoDown, Hangup
    <3>3. QED BY <1>2, <2>1, <3>1, <3>2 DEF IInv, AnswerInv
  <2>2. QED BY <2>1 DEF AnswerInv
<1>7. QED BY <1>1, <1>3, <1>4, <1>5, <1>6 DEF IInv

LEMMA NextIInv == IInv /\ [Next]_vars => IInv'
<1> SUFFICES ASSUME IInv, [Next]_vars PROVE IInv'
  OBVIOUS
<1>1. CASE \E c \in Clients : Connect(c) \/ Deliver(c) \/ Quit(c) \/ ComeBack(c)
  BY <1>1, ConnectKeeps, DeliverKeeps, QuitKeeps, ComeBackKeeps
<1>2. CASE Start \/ AcceptFails
  BY <1>2, StartKeeps, AcceptFailsKeeps
<1>3. CASE Main
  BY <1>3, AcceptKeeps, RecvKeeps, GoDownKeeps, ParseKeeps, DispatchKeeps, SendKeeps,
     CloseKeeps DEF Main, Stop
<1>4. CASE Die
  BY <1>4, GoDownKeeps DEF Die
<1>5. CASE UNCHANGED vars
  <2>1. TypeOK' /\ SegmentsInv' /\ AnswerInv'
    BY <1>5 DEF IInv, TypeOK, SegmentsInv, AnswerInv, vars
  <2>2. QueueInv' /\ NoLeakedConnection'
    BY <1>5 DEF IInv, QueueInv, NoLeakedConnection, InQueue, Connected, vars
  <2>3. ProgressInv' /\ OnlyWholeExecuted' /\ WholeRequestAnswered'
    BY <1>5 DEF IInv, ProgressInv, OnlyWholeExecuted, WholeRequestAnswered, Body, vars
  <2>4. QED BY <2>1, <2>2, <2>3 DEF IInv
<1>6. QED BY <1>1, <1>2, <1>3, <1>4, <1>5 DEF Next

\* The inductive invariant holds whatever the clients, the network and the
\* kernel do; the fairness of Spec is not needed.
THEOREM SpecIInv == Spec => []IInv
  BY InitIInv, NextIInv, PTL DEF Spec

\* Every variable keeps its type, the kernel's queue its bound, and main
\* serves a client exactly between accept and close.
THEOREM SpecTypeOK == Spec => []TypeOK
<1>1. IInv => TypeOK
  BY DEF IInv
<1>2. QED BY SpecIInv, <1>1, PTL

\* The main loop never loses a connection, on any error path.
THEOREM SpecNoLeakedConnection == Spec => []NoLeakedConnection
<1>1. IInv => NoLeakedConnection
  BY DEF IInv
<1>2. QED BY SpecIInv, <1>1, PTL

\* Handlers run on whole, well-formed requests only, however the network
\* splits them.
THEOREM SpecOnlyWholeExecuted == Spec => []OnlyWholeExecuted
<1>1. IInv => OnlyWholeExecuted
  BY DEF IInv
<1>2. QED BY SpecIInv, <1>1, PTL

\* No error of an earlier client keeps a later one from its result.
THEOREM SpecWholeRequestAnswered == Spec => []WholeRequestAnswered
<1>1. IInv => WholeRequestAnswered
  BY DEF IInv
<1>2. QED BY SpecIInv, <1>1, PTL

-----------------------------------------------------------------------------
(* Server implements RequestService. *)

Serving == cur # NoClient /\ pc # "close"

InLine(c) == (Serving /\ c = cur) \/ InQueue(c)

fates == [c \in Clients |-> Fate(c)]

\* The abstract line is the client being served and the kernel's queue.
LineFact ==
    /\ ~Serving => Line = queue
    /\ Serving => Line # <<>> /\ Head(Line) = cur /\ Tail(Line) = queue

LEMMA LineIs == TypeOK => LineFact
<1> SUFFICES ASSUME TypeOK PROVE LineFact
  OBVIOUS
<1>1. queue \in Seq(Clients)
  BY DEF TypeOK
<1>2. CASE ~Serving
  BY <1>1, <1>2, ConcatEmptySeq DEF Line, Serving, LineFact
<1>3. CASE Serving
  <2>1. <<cur>> \in Seq(Clients) /\ Len(<<cur>>) = 1 /\ <<cur>>[1] = cur
    BY <1>3 DEF TypeOK, Serving
  <2>2. Line = <<cur>> \o queue
    BY <1>3 DEF Line, Serving
  <2>3. /\ Line \in Seq(Clients) /\ Len(Line) = 1 + Len(queue)
        /\ \A n \in 1 .. 1 + Len(queue) :
              Line[n] = IF n <= 1 THEN <<cur>>[n] ELSE queue[n - 1]
    BY <1>1, <2>1, <2>2, ConcatProperties
  <2>4. Len(queue) \in Nat
    BY <1>1, LenProperties
  <2>5. Line # <<>> /\ Head(Line) = cur
    BY <2>1, <2>3, <2>4
  <2>6. /\ Tail(Line) \in Seq(Clients) /\ Len(Tail(Line)) = Len(queue)
        /\ \A n \in 1 .. Len(Tail(Line)) : Tail(Line)[n] = Line[n + 1]
    BY <2>3, <2>4, <2>5, HeadTailProperties
  <2>7. \A n \in 1 .. Len(queue) : Tail(Line)[n] = queue[n]
    BY <2>3, <2>4, <2>6
  <2>8. Tail(Line) = queue
    BY <1>1, <2>6, <2>7, SeqEqual
  <2>9. QED BY <1>3, <2>5, <2>8 DEF LineFact
<1>4. QED BY <1>2, <1>3

LEMMA LineHolds ==
  ASSUME TypeOK, NEW c
  PROVE  (\E n \in DOMAIN Line : Line[n] = c) <=> InLine(c)
<1>1. queue \in Seq(Clients) /\ DOMAIN queue = 1 .. Len(queue) /\ Len(queue) \in Nat
  BY LenProperties DEF TypeOK
<1>2. CASE ~Serving
  BY <1>2, LineIs DEF LineFact, InLine, InQueue
<1>3. CASE Serving
  <2>1. <<cur>> \in Seq(Clients) /\ Len(<<cur>>) = 1 /\ <<cur>>[1] = cur
    BY <1>3 DEF TypeOK, Serving
  <2>2. Line = <<cur>> \o queue
    BY <1>3 DEF Line, Serving
  <2>3. /\ DOMAIN Line = 1 .. 1 + Len(queue)
        /\ \A n \in 1 .. 1 + Len(queue) :
              Line[n] = IF n <= 1 THEN <<cur>>[n] ELSE queue[n - 1]
    BY <1>1, <2>1, <2>2, ConcatProperties, LenProperties
  <2>4. Line[1] = cur /\ \A n \in 1 .. Len(queue) : Line[n + 1] = queue[n]
    BY <1>1, <2>1, <2>3
  <2>5. ASSUME NEW n \in DOMAIN Line, Line[n] = c PROVE InLine(c)
    <3>1. CASE n = 1
      BY <1>3, <2>4, <2>5, <3>1 DEF InLine
    <3>2. CASE n # 1
      <4>1. n - 1 \in DOMAIN queue /\ queue[n - 1] = c
        BY <1>1, <2>3, <2>5, <3>2
      <4>2. QED BY <4>1 DEF InLine, InQueue
    <3>3. QED BY <3>1, <3>2
  <2>6. ASSUME InLine(c) PROVE \E n \in DOMAIN Line : Line[n] = c
    <3>1. CASE c = cur
      <4>1. 1 \in DOMAIN Line
        BY <1>1, <2>3
      <4>2. QED BY <2>4, <3>1, <4>1
    <3>2. CASE InQueue(c)
      <4>1. PICK n \in DOMAIN queue : queue[n] = c
        BY <3>2 DEF InQueue
      <4>2. n + 1 \in DOMAIN Line /\ Line[n + 1] = c
        BY <1>1, <2>3, <2>4, <4>1
      <4>3. QED BY <4>2
    <3>3. QED BY <2>6, <3>1, <3>2 DEF InLine
  <2>7. QED BY <2>5, <2>6
<1>4. QED BY <1>2, <1>3

\* Fate, with the line spelt out.
FateFact ==
    \A c \in Clients :
        fates[c] = IF link[c] = "none" THEN "none"
                   ELSE IF answer[c] = "result" THEN "answered"
                   ELSE IF InLine(c)
                   THEN IF c # cur \/ result = "none" THEN "asked" ELSE result
                   ELSE "lost"

LEMMA FateIs == TypeOK => FateFact
  BY LineHolds DEF fates, Fate, FateFact

LEMMA FactsNext == IInv /\ IInv' => /\ LineFact /\ FateFact
                                  /\ LineFact' /\ FateFact'
<1>1. IInv => TypeOK
  BY DEF IInv
<1>2. QED BY <1>1, LineIs, FateIs, PTL

LEMMA InitService == Init => Service!Init
<1> SUFFICES ASSUME Init PROVE Service!Init
  OBVIOUS
<1>1. TypeOK
  BY InitIInv DEF IInv
<1>2. Line = <<>>
  BY <1>1, LineIs DEF Init, Serving, LineFact
<1>3. [c \in Clients |-> Fate(c)] = [c \in Clients |-> "none"]
  BY DEF Init, Fate
<1>4. QED BY <1>2, <1>3 DEF Service!Init

ServiceVars == <<Line, fates>>
ServiceStep == [Service!Next]_ServiceVars

LEMMA QuietSteps ==
  ASSUME IInv, IInv',
         \/ \E c \in Clients : Deliver(c) \/ Quit(c)
         \/ Start \/ AcceptFails \/ Parse
  PROVE  UNCHANGED ServiceVars
<1>1. /\ UNCHANGED <<cur, queue, result, answer>>
      /\ Serving' = Serving
      /\ \A c \in Clients : link'[c] = "none" <=> link[c] = "none"
  BY DEF IInv, TypeOK, Serving, Deliver, Quit, Start, AcceptFails, Parse
<1>2. Line' = Line
  BY <1>1 DEF Line, Serving
<1>3. \A c \in Clients : InLine(c)' = InLine(c)
  BY <1>1 DEF InLine, InQueue
<1>4. \A c \in Clients : fates'[c] = fates[c]
  BY <1>1, <1>3, FactsNext DEF FateFact
<1>5. fates' = fates
  BY <1>4 DEF fates
<1>6. QED BY <1>2, <1>5 DEF ServiceVars

LEMMA ConnectIsAsk ==
  ASSUME IInv, IInv', NEW c \in Clients, Connect(c)
  PROVE  Service!Ask(c)
<1>1. queue \in Seq(Clients) /\ queue' = Append(queue, c)
  BY DEF IInv, TypeOK, Connect
<1>2. Serving' = Serving /\ UNCHANGED <<cur, result, answer>>
  BY DEF Serving, Connect
<1>3. Line' = Append(Line, c)
  <2>1. CASE ~Serving
    BY <1>1, <1>2, <2>1, FactsNext DEF LineFact
  <2>2. CASE Serving
    <3>1. <<cur>> \in Seq(Clients) /\ <<c>> \in Seq(Clients)
      BY <2>2 DEF IInv, TypeOK, Serving
    <3>2. Line = <<cur>> \o queue /\ Line' = <<cur>> \o Append(queue, c)
      BY <1>1, <1>2, <2>2 DEF Line, Serving
    <3>3. Append(queue, c) = queue \o <<c>>
      BY <1>1, AppendIsConcat
    <3>4. Line \in Seq(Clients)
      BY <1>1, <3>1, <3>2, ConcatProperties
    <3>5. Append(Line, c) = Line \o <<c>>
      BY <3>4, AppendIsConcat
    <3>6. QED BY <1>1, <3>1, <3>2, <3>3, <3>5, ConcatAssociative
  <2>3. QED BY <2>1, <2>2
<1>4. link[c] = "none" /\ c \notin Connected /\ c # cur
  BY ServerAssumption DEF IInv, TypeOK, QueueInv, Connected, Connect
<1>5. \A d \in Clients : InLine(d)' <=> InLine(d) \/ d = c
  <2>1. /\ \A n \in DOMAIN queue : n \in DOMAIN queue' /\ queue'[n] = queue[n]
        /\ \A n \in DOMAIN queue' : n \in DOMAIN queue \/ queue'[n] = c
        /\ \E n \in DOMAIN queue' : queue'[n] = c
    BY <1>1, AppendProperties, LenProperties
  <2>2. QED BY <1>2, <2>1 DEF InLine, InQueue
<1>6. answer[c] # "result"
  BY <1>4 DEF IInv, AnswerInv, Connected
<1>7. \A d \in Clients : link'[d] = IF d = c THEN "open" ELSE link[d]
  BY DEF IInv, TypeOK, Connect
<1>8. fates[c] = "none"
  BY <1>4, FactsNext DEF FateFact
<1>9. \A d \in Clients : fates'[d] = IF d = c THEN "asked" ELSE fates[d]
  BY <1>2, <1>4, <1>5, <1>6, <1>7, FactsNext DEF FateFact
<1>10. fates' = [fates EXCEPT ![c] = "asked"]
  BY <1>9 DEF fates
<1>11. QED BY <1>3, <1>8, <1>10 DEF Service!Ask, fates

LEMMA ComeBackIsReturn ==
  ASSUME IInv, IInv', NEW c \in Clients, ComeBack(c)
  PROVE  Service!Return(c)
<1>1. UNCHANGED <<pc, cur, queue, result>>
  BY DEF ComeBack
<1>2. Line' = Line
  BY <1>1 DEF Line
<1>3. \A d \in Clients : InLine(d)' <=> InLine(d)
  BY <1>1 DEF InLine, InQueue, Serving
<1>4. link[c] = "closed" /\ ~InLine(c)
  BY ServerAssumption DEF IInv, QueueInv, Connected, ComeBack, InLine, InQueue, Serving
<1>5. \A d \in Clients : link'[d] = IF d = c THEN "none" ELSE link[d]
  BY DEF IInv, TypeOK, ComeBack
<1>6. \A d \in Clients : answer'[d] = IF d = c THEN "none" ELSE answer[d]
  BY DEF IInv, TypeOK, ComeBack
<1>7. fates[c] \in {"answered", "lost"}
  BY <1>4, FactsNext DEF FateFact
<1>8. \A d \in Clients : fates'[d] = IF d = c THEN "none" ELSE fates[d]
  BY <1>1, <1>3, <1>5, <1>6, FactsNext DEF FateFact
<1>9. fates' = [fates EXCEPT ![c] = "none"]
  BY <1>8 DEF fates
<1>10. QED BY <1>2, <1>7, <1>9 DEF Service!Return, fates

\* The client being served leaves the line, answered or not.
LEMMA ServedLeaves ==
  ASSUME IInv, IInv', Serving, ~Serving', UNCHANGED <<queue, link>>,
         NEW f \in {"answered", "lost"},
         result = "done" \/ f = "lost",
         \A c \in Clients :
            answer'[c] = IF c = cur /\ f = "answered" THEN "result" ELSE answer[c]
  PROVE  Service!Leave(f)
<1>1. Line # <<>> /\ Head(Line) = cur /\ Line' = Tail(Line)
  BY FactsNext DEF LineFact
<1>2. cur \in Clients /\ link[cur] # "none" /\ answer[cur] # "result" /\ ~InQueue(cur)
  BY DEF IInv, TypeOK, QueueInv, AnswerInv, Connected, InQueue, Serving
<1>3. InLine(cur)
  BY DEF InLine
<1>4. \A c \in Clients : InLine(c)' <=> InLine(c) /\ c # cur
  BY <1>2 DEF InLine, InQueue
<1>5. f = "answered" => fates[cur] = "done"
  BY <1>2, <1>3, FactsNext DEF FateFact
<1>6. \A c \in Clients : c # cur => fates'[c] = fates[c]
  <2>1. ASSUME NEW c \in Clients, c # cur PROVE fates'[c] = fates[c]
    <3>1. (InLine(c)' <=> InLine(c)) /\ answer'[c] = answer[c]
      BY <1>4, <2>1
    <3>2. CASE InLine(c)
      <4>1. c # cur' \/ result' = "none"
        BY <3>1, <3>2, <2>1, ServerAssumption DEF IInv, QueueInv, InLine, InQueue
      <4>2. QED BY <2>1, <3>1, <3>2, <4>1, FactsNext DEF FateFact
    <3>3. CASE ~InLine(c)
      BY <3>1, <3>3, FactsNext DEF FateFact
    <3>4. QED BY <3>2, <3>3
  <2>2. QED BY <2>1
<1>7. fates'[cur] = f
  BY <1>2, <1>4, FactsNext DEF FateFact
<1>8. fates' = [fates EXCEPT ![cur] = f]
  BY <1>2, <1>6, <1>7 DEF fates
<1>9. QED BY <1>1, <1>5, <1>8 DEF Service!Leave, fates

LEMMA AcceptStep == ASSUME IInv, IInv', Accept PROVE ServiceStep
<1>1. /\ queue \in Seq(Clients) /\ queue # <<>>
      /\ cur' = Head(queue) /\ queue' = Tail(queue)
      /\ UNCHANGED <<link, result, answer>>
  BY DEF IInv, TypeOK, Accept
<1>2. ~Serving /\ Line = queue
  BY FactsNext DEF IInv, TypeOK, Accept, Serving, LineFact
<1>3. cur' \in Clients /\ \A c \in Clients : InQueue(c) <=> c = cur' \/ InQueue(c)'
  <2>1. /\ cur' \in Clients /\ 1 \in DOMAIN queue /\ queue[1] = cur'
        /\ \A n \in DOMAIN queue' : n + 1 \in DOMAIN queue /\ queue'[n] = queue[n + 1]
        /\ \A n \in DOMAIN queue : n = 1 \/ \E m \in DOMAIN queue' : n = m + 1
    BY <1>1, TailOfQueue
  <2>2. QED BY <2>1 DEF InQueue
<1>4. result = "none" /\ cur' # NoClient
  BY <1>3, ServerAssumption DEF IInv, ProgressInv, Accept
<1>5. CASE pc' = "recv"
  <2>1. Serving'
    BY <1>4, <1>5 DEF Serving
  <2>2. Line' = <<Head(queue)>> \o Tail(queue)
    BY <1>1, <2>1 DEF Line, Serving
  <2>3. <<Head(queue)>> \o Tail(queue) = queue
    BY <1>1, HeadTailConcat
  <2>4. \A c \in Clients : InLine(c)' <=> InLine(c)
    BY <1>2, <1>3, <2>1 DEF InLine
  <2>5. \A c \in Clients : fates'[c] = fates[c]
    BY <1>1, <1>4, <2>4, FactsNext DEF FateFact
  <2>6. fates' = fates
    BY <2>5 DEF fates
  <2>7. QED BY <1>2, <2>2, <2>3, <2>6 DEF ServiceStep, ServiceVars
<1>6. CASE pc' = "close"
  <2>1. ~Serving' /\ link[cur'] = "gone"
    BY <1>1, <1>6 DEF Serving, Accept
  <2>2. Line' = Tail(Line)
    BY <1>1, <1>2, <2>1, FactsNext DEF LineFact
  <2>3. \A c \in Clients : InLine(c)' <=> InLine(c) /\ c # cur'
    BY <1>2, <1>3, <2>1 DEF IInv, QueueInv, InLine, InQueue
  <2>4. answer[cur'] # "result"
    BY <1>1, <1>3, <2>1, ServerAssumption DEF IInv, TypeOK, AnswerInv, Accept
  <2>5. \A c \in Clients : c # cur' => fates'[c] = fates[c]
    BY <1>1, <1>4, <2>3, FactsNext DEF FateFact
  <2>6. fates'[cur'] = "lost"
    BY <1>1, <1>3, <2>1, <2>3, <2>4, FactsNext DEF FateFact
  <2>7. fates' = [fates EXCEPT ![cur'] = "lost"]
    BY <1>3, <2>5, <2>6 DEF fates
  <2>8. Service!Leave("lost")
    BY <1>1, <1>2, <2>2, <2>7 DEF Service!Leave, fates
  <2>9. QED BY <2>8 DEF ServiceStep, Service!Next
<1>7. QED BY <1>5, <1>6 DEF Accept

LEMMA RecvStep == ASSUME IInv, IInv', Recv PROVE ServiceStep
<1>1. UNCHANGED <<cur, queue, link, result, answer>> /\ Serving
  BY DEF IInv, TypeOK, Recv, Serving
<1>2. CASE pc' = "parse"
  <2>1. Serving'
    BY <1>1, <1>2 DEF Serving
  <2>2. Line' = Line /\ \A c \in Clients : InLine(c)' <=> InLine(c)
    BY <1>1, <2>1 DEF Line, Serving, InLine, InQueue
  <2>3. \A c \in Clients : fates'[c] = fates[c]
    BY <1>1, <2>2, FactsNext DEF FateFact
  <2>4. QED BY <2>2, <2>3 DEF fates, ServiceStep, ServiceVars
<1>3. CASE pc' = "close"
  <2>1. ~Serving'
    BY <1>3 DEF Serving
  <2>2. Service!Leave("lost")
    BY <1>1, <2>1, ServedLeaves
  <2>3. QED BY <2>2 DEF ServiceStep, Service!Next
<1>4. QED BY <1>2, <1>3 DEF Recv

LEMMA DispatchStep == ASSUME IInv, IInv', Dispatch PROVE ServiceStep
<1>1. UNCHANGED <<cur, queue, link, answer>> /\ Serving /\ Serving'
  BY DEF IInv, TypeOK, Dispatch, Serving
<1>2. Line' = Line /\ \A c \in Clients : InLine(c)' <=> InLine(c)
  BY <1>1 DEF Line, Serving, InLine, InQueue
<1>3. cur \in Clients /\ link[cur] # "none" /\ answer[cur] # "result" /\ InLine(cur)
  BY <1>1 DEF IInv, TypeOK, QueueInv, AnswerInv, Connected, Serving, InLine
<1>4. result = "none"
  BY DEF IInv, ProgressInv, Dispatch
<1>5. \A c \in Clients : c # cur => fates'[c] = fates[c]
  BY <1>1, <1>2, FactsNext DEF FateFact
<1>6. CASE result' = "none"
  <2>1. fates'[cur] = fates[cur]
    BY <1>1, <1>2, <1>3, <1>4, <1>6, FactsNext DEF FateFact
  <2>2. QED BY <1>2, <1>5, <2>1 DEF fates, ServiceStep, ServiceVars
<1>7. CASE result' # "none"
  <2>1. result' \in {"done", "failed"}
    BY <1>7 DEF IInv, TypeOK
  <2>2. fates[cur] = "asked" /\ fates'[cur] = result'
    BY <1>1, <1>2, <1>3, <1>4, <1>7, FactsNext DEF FateFact
  <2>3. fates' = [fates EXCEPT ![cur] = result']
    BY <1>3, <1>5, <2>2 DEF fates
  <2>4. Line # <<>> /\ Head(Line) = cur
    BY <1>1, FactsNext DEF LineFact
  <2>5. Service!Execute
    BY <1>2, <2>1, <2>2, <2>3, <2>4 DEF Service!Execute, fates
  <2>6. QED BY <2>5 DEF ServiceStep, Service!Next
<1>8. QED BY <1>6, <1>7

LEMMA SendStep == ASSUME IInv, IInv', Send PROVE ServiceStep
<1>1. UNCHANGED <<cur, queue, link, result>> /\ Serving /\ ~Serving' /\ cur \in Clients
  BY DEF IInv, TypeOK, Send, Serving
<1>2. CASE ~errors /\ link[cur] = "open"
  <2>1. \A c \in Clients : answer'[c] = IF c = cur THEN "result" ELSE answer[c]
    BY <1>1, <1>2 DEF IInv, TypeOK, Send, WriteSocket
  <2>2. result = "done"
    BY <1>2 DEF IInv, ProgressInv, Send
  <2>3. Service!Leave("answered")
    BY <1>1, <2>1, <2>2, ServedLeaves
  <2>4. QED BY <2>3 DEF ServiceStep, Service!Next
<1>3. CASE errors \/ link[cur] # "open"
  <2>1. answer' = answer
    BY <1>3 DEF Send, WriteSocket
  <2>2. Service!Leave("lost")
    BY <1>1, <2>1, ServedLeaves
  <2>3. QED BY <2>2 DEF ServiceStep, Service!Next
<1>4. QED BY <1>2, <1>3

LEMMA CloseStep == ASSUME IInv, IInv', Close PROVE ServiceStep
<1>1. UNCHANGED <<queue, answer>> /\ ~Serving /\ ~Serving'
  BY DEF Close, Serving
<1>2. Line' = Line /\ \A c \in Clients : InLine(c)' <=> InLine(c)
  BY <1>1 DEF Line, Serving, InLine, InQueue
<1>3. \A c \in Clients : link'[c] = "none" <=> link[c] = "none"
  BY ServerAssumption DEF IInv, QueueInv, Connected, Close, Hangup
<1>4. result' = "none" /\ \A c \in Clients : InLine(c) => c # cur
  BY <1>1 DEF IInv, QueueInv, Close, InLine, InQueue
<1>5. \A c \in Clients : fates'[c] = fates[c]
  BY <1>1, <1>2, <1>3, <1>4, FactsNext DEF FateFact
<1>6. QED BY <1>2, <1>5 DEF fates, ServiceStep, ServiceVars

LEMMA GoDownStep == ASSUME IInv, IInv', GoDown PROVE ServiceStep
<1>1. queue' = <<>> /\ answer' = answer /\ ~Serving'
  BY DEF GoDown, Serving
<1>2. Line' = <<>> /\ \A c \in Clients : ~InLine(c)'
  BY <1>1, FactsNext DEF LineFact, InLine, InQueue
<1>3. \A c \in Clients : c \in Service!Waiting <=> InLine(c)
  <2>1. TypeOK
    BY DEF IInv
  <2>2. QED BY <2>1, LineHolds DEF Service!Waiting
<1>4. \A c \in Clients : link'[c] = IF c \in Connected THEN "closed" ELSE link[c]
  BY DEF GoDown, Hangup
<1>5. \A c \in Clients : InLine(c) => fates'[c] = "lost"
  <2>1. ASSUME NEW c \in Clients, InLine(c) PROVE fates'[c] = "lost"
    <3>1. c \in Connected /\ answer[c] # "result"
      BY <2>1 DEF IInv, QueueInv, AnswerInv, Connected, InLine, InQueue, Serving
    <3>2. QED BY <1>1, <1>2, <1>4, <3>1, FactsNext DEF FateFact
  <2>2. QED BY <2>1
<1>6. \A c \in Clients : ~InLine(c) => fates'[c] = fates[c]
  <2>1. ASSUME NEW c \in Clients, ~InLine(c) PROVE fates'[c] = fates[c]
    <3>1. link'[c] = "none" <=> link[c] = "none"
      BY <1>4 DEF Connected
    <3>2. QED BY <1>1, <1>2, <2>1, <3>1, FactsNext DEF FateFact
  <2>2. QED BY <2>1
<1>7. fates' = [c \in Clients |-> IF c \in Service!Waiting THEN "lost" ELSE fates[c]]
  BY <1>3, <1>5, <1>6 DEF fates
<1>8. Service!Abandon
  BY <1>2, <1>7 DEF Service!Abandon, fates
<1>9. QED BY <1>8 DEF ServiceStep, Service!Next

LEMMA NextServiceStep == IInv /\ IInv' /\ [Next]_vars => ServiceStep
<1> SUFFICES ASSUME IInv, IInv', [Next]_vars PROVE ServiceStep
  OBVIOUS
<1>1. CASE (\E c \in Clients : Deliver(c) \/ Quit(c)) \/ Start \/ AcceptFails \/ Parse
  BY <1>1, QuietSteps DEF ServiceStep
<1>2. CASE \E c \in Clients : Connect(c) \/ ComeBack(c)
  BY <1>2, ConnectIsAsk, ComeBackIsReturn DEF ServiceStep, Service!Next
<1>3. CASE Accept \/ Recv \/ Dispatch \/ Send \/ Close
  BY <1>3, AcceptStep, RecvStep, DispatchStep, SendStep, CloseStep
<1>4. CASE Stop \/ Die
  BY <1>4, GoDownStep DEF Stop, Die
<1>5. CASE UNCHANGED vars
  BY <1>5 DEF vars, ServiceStep, ServiceVars, Line, fates, Fate
<1>6. QED BY <1>1, <1>2, <1>3, <1>4, <1>5 DEF Next, Main

\* The server keeps the promise of RequestService, for any number of clients:
\* one request at a time, in the order of the connections, each executed at
\* most once, and a result only for a request that was executed.
THEOREM SpecImplementsService == Spec => ImplementsService
<1>1. ServiceStep <=> [Service!Next]_<<Line, [c \in Clients |-> Fate(c)]>>
  BY DEF ServiceStep, ServiceVars, fates
<1>2. IInv /\ IInv' /\ [Next]_vars
        => [Service!Next]_<<Line, [c \in Clients |-> Fate(c)]>>
  BY <1>1, NextServiceStep
<1>3. Spec => Service!Init
  BY InitService DEF Spec
<1>4. QED BY <1>2, <1>3, SpecIInv, PTL DEF Spec, ImplementsService, Service!Spec

=============================================================================

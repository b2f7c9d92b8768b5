------------------------------- MODULE Server -------------------------------
(***************************************************************************)
(* The main loop of dconf_app over its sockets.  One thread accepts a      *)
(* client, reads from it once, parses and dispatches the request, sends    *)
(* the response and closes the connection; every call blocks.  A request   *)
(* may reach the server in several segments, a client may fall silent or   *)
(* leave, and the process may be stopped, killed and started again.        *)
(***************************************************************************)
EXTENDS Naturals, Sequences, FiniteSets

CONSTANTS
    Clients,
    Silent,    \* clients that may never send what they announced
    Backlog,   \* connections the kernel holds for accept
    NoClient

ASSUME ServerAssumption ==
    /\ Silent \subseteq Clients
    /\ Backlog \in Nat \ {0}
    /\ NoClient \notin Clients

VARIABLES
    pc,       \* the call main is in, or "down"
    cur,      \* the client main serves
    errors,   \* errors.has()
    queue,    \* connections not yet accepted
    link,     \* each client's connection
    ask,      \* what each client's request is, when all of it is read
    unsent,   \* segments of the request the client has still to send
    inbox,    \* segments in the server's receive buffer
    buffer,   \* what the one recv returned of the request
    result,   \* what the handler did
    answer    \* what each client was sent

vars == <<pc, cur, errors, queue, link, ask, unsent, inbox, buffer, result, answer>>
wire == <<ask, unsent, inbox>>
locals == <<buffer, result>>

\* A body is STOP, a request some handler knows, a well-formed request that
\* none knows, or anything from_json refuses (a body that outgrows the 64 KB
\* buffer is cut, and refused).
Requests == {"stop", "known", "unknown", "malformed"}

Max2 == 1 .. 2   \* segments of a request: whole, or split once

TypeOK ==
    /\ pc \in {"down", "accept", "recv", "parse", "dispatch", "send", "close"}
    /\ cur \in Clients \cup {NoClient}
    /\ errors \in BOOLEAN
    /\ queue \in Seq(Clients)
    /\ link \in [Clients -> {"none", "open", "gone", "closed"}]
    /\ ask \in [Clients -> Requests]
    /\ unsent \in [Clients -> 0 .. 2]
    /\ inbox \in [Clients -> 0 .. 2]
    /\ buffer \in {"nothing", "part", "whole"}
    /\ result \in {"none", "done", "failed"}
    /\ answer \in [Clients -> {"none", "result"}]
    /\ Len(queue) <= Backlog + 1
    /\ cur = NoClient => pc \in {"down", "accept", "close"}
    /\ pc \in {"down", "accept"} => cur = NoClient

Init ==
    /\ pc = "down" /\ cur = NoClient /\ errors = FALSE /\ queue = <<>>
    /\ link = [c \in Clients |-> "none"]
    /\ ask = [c \in Clients |-> "malformed"]
    /\ unsent = [c \in Clients |-> 0] /\ inbox = [c \in Clients |-> 0]
    /\ buffer = "nothing" /\ result = "none"
    /\ answer = [c \in Clients |-> "none"]

Connected == {c \in Clients : link[c] \in {"open", "gone"}}

-----------------------------------------------------------------------------
(* The clients and the network. *)

\* The kernel completes a connection while its queue has room.
Connect(c) ==
    /\ pc # "down" /\ link[c] = "none" /\ Len(queue) <= Backlog
    /\ queue' = Append(queue, c)
    /\ link' = [link EXCEPT ![c] = "open"]
    /\ \E r \in Requests, n \in Max2 :
          /\ ask' = [ask EXCEPT ![c] = r]
          /\ unsent' = [unsent EXCEPT ![c] = n]
    /\ UNCHANGED <<pc, cur, errors, inbox, locals, answer>>

\* The next segment arrives.
Deliver(c) ==
    /\ link[c] = "open" /\ unsent[c] > 0
    /\ unsent' = [unsent EXCEPT ![c] = @ - 1]
    /\ inbox' = [inbox EXCEPT ![c] = @ + 1]
    /\ UNCHANGED <<pc, cur, errors, queue, link, ask, locals, answer>>

\* The client leaves before the server has closed the connection.
Quit(c) ==
    /\ link[c] = "open"
    /\ link' = [link EXCEPT ![c] = "gone"]
    /\ UNCHANGED <<pc, cur, errors, queue, wire, locals, answer>>

\* A client whose connection is over may come again.
ComeBack(c) ==
    /\ link[c] = "closed"
    /\ link' = [link EXCEPT ![c] = "none"]
    /\ answer' = [answer EXCEPT ![c] = "none"]
    /\ UNCHANGED <<pc, cur, errors, queue, wire, locals>>

-----------------------------------------------------------------------------
(* main *)

\* socket, bind and listen.  A failure ends main, which may be run again.
Start ==
    /\ pc = "down"
    /\ pc' = "accept" /\ errors' = FALSE
    /\ UNCHANGED <<cur, queue, link, wire, locals, answer>>

\* Mutant: the loop does not clear the errors.
AcceptKeepsErrors ==
    /\ pc = "accept" /\ queue # <<>>
    /\ cur' = Head(queue) /\ queue' = Tail(queue)
    /\ pc' = "recv"
    /\ UNCHANGED <<errors, link, wire, locals, answer>>

\* The top of the loop: errors.clear, then accept and getpeername, which
\* fails when the client has reset the connection.
Accept ==
    /\ pc = "accept" /\ queue # <<>>
    /\ cur' = Head(queue) /\ queue' = Tail(queue)
    /\ \/ pc' = "recv" /\ errors' = FALSE
       \/ link[Head(queue)] = "gone" /\ pc' = "close" /\ errors' = TRUE
    /\ UNCHANGED <<link, wire, locals, answer>>

\* accept returns -1.
AcceptFails ==
    /\ pc = "accept" /\ queue # <<>>
    /\ pc' = "close" /\ errors' = TRUE
    /\ UNCHANGED <<cur, queue, link, wire, locals, answer>>

\* Mutant: recv again and again until the request is whole, without a look at
\* a client that has left.
RecvUntilWhole ==
    /\ pc = "recv" /\ inbox[cur] > 0 /\ unsent[cur] = 0
    /\ buffer' = "whole" /\ inbox' = [inbox EXCEPT ![cur] = 0]
    /\ pc' = "parse"
    /\ UNCHANGED <<errors, cur, queue, link, ask, unsent, result, answer>>

\* Mutant: a failed recv turns the loop and the client is left as it is.
RecvContinues ==
    /\ pc = "recv"
    /\ \/ /\ inbox[cur] > 0
          /\ buffer' = IF unsent[cur] = 0 THEN "whole" ELSE "part"
          /\ inbox' = [inbox EXCEPT ![cur] = 0]
          /\ pc' = "parse"
          /\ UNCHANGED errors
       \/ /\ link[cur] = "gone"
          /\ errors' \in BOOLEAN
          /\ pc' = "accept"
          /\ UNCHANGED <<buffer, inbox>>
    /\ UNCHANGED <<cur, queue, link, ask, unsent, result, answer>>

\* The one recv takes what has arrived, and blocks while nothing has unless
\* the client is gone; then it returns 0 or -1, also with data unread.
Recv ==
    /\ pc = "recv"
    /\ \/ /\ inbox[cur] > 0
          /\ buffer' = IF unsent[cur] = 0 THEN "whole" ELSE "part"
          /\ inbox' = [inbox EXCEPT ![cur] = 0]
          /\ pc' = "parse"
          /\ UNCHANGED errors
       \/ /\ link[cur] = "gone"
          /\ errors' \in BOOLEAN
          /\ pc' = "close"
          /\ UNCHANGED <<buffer, inbox>>
    /\ UNCHANGED <<cur, queue, link, ask, unsent, result, answer>>

\* Mutant: what has arrived of the request is taken for all of it.
BodyOfPart == IF buffer = "nothing" THEN "malformed" ELSE ask[cur]

\* http_body: the part of a request is a header without a body, or a body
\* that is cut short, and no prefix of a JSON object is one.
Body == IF buffer = "whole" THEN ask[cur] ELSE "malformed"

\* The connections of S are closed and what they still held is dropped.
Hangup(S) ==
    /\ link' = [c \in Clients |-> IF c \in S THEN "closed" ELSE link[c]]
    /\ ask' = [c \in Clients |-> IF c \in S THEN "malformed" ELSE ask[c]]
    /\ unsent' = [c \in Clients |-> IF c \in S THEN 0 ELSE unsent[c]]
    /\ inbox' = [c \in Clients |-> IF c \in S THEN 0 ELSE inbox[c]]

\* The sockets are closed with the process, by STOP or by a signal.
GoDown ==
    /\ pc' = "down" /\ cur' = NoClient /\ errors' = FALSE /\ queue' = <<>>
    /\ buffer' = "nothing" /\ result' = "none"
    /\ Hangup(Connected)
    /\ UNCHANGED answer

Stop == pc = "parse" /\ Body = "stop" /\ GoDown

\* Dconf_request's constructor and from_json.
Parse ==
    /\ pc = "parse" /\ Body # "stop"
    /\ errors' = (errors \/ Body = "malformed")
    /\ pc' = "dispatch"
    /\ UNCHANGED <<cur, queue, link, wire, locals, answer>>

\* The chain of handlers: the first that knows the request does all of it.
Handle ==
    IF Body = "known"
    THEN result' \in {"done", "failed"} /\ errors' = (result' = "failed")
    ELSE errors' = TRUE /\ UNCHANGED result

Dispatch ==
    /\ pc = "dispatch"
    /\ IF errors THEN UNCHANGED <<errors, result>> ELSE Handle
    /\ pc' = "send"
    /\ UNCHANGED <<cur, queue, link, wire, buffer, answer>>

\* Mutant: write_socket sends whatever the errors are.
WriteAnyway(c) ==
    /\ answer' = IF link[c] = "open" THEN [answer EXCEPT ![c] = "result"] ELSE answer
    /\ UNCHANGED errors

\* write_socket sends only while there is no error.  A client that is gone
\* gets nothing, and send may or may not notice.
WriteSocket(c) ==
    IF errors THEN UNCHANGED <<errors, answer>>
    ELSE IF link[c] = "open"
    THEN /\ answer' = [answer EXCEPT ![c] = "result"]
         /\ UNCHANGED errors
    ELSE errors' \in BOOLEAN /\ UNCHANGED answer

Send ==
    /\ pc = "send"
    /\ WriteSocket(cur)
    /\ pc' = "close"
    /\ UNCHANGED <<cur, queue, link, wire, locals>>

\* Mutant: the connection is closed at the end of the successful path only.
CloseAfterAnswer ==
    /\ pc = "close"
    /\ Hangup(IF errors THEN {} ELSE {cur})
    /\ pc' = "accept" /\ cur' = NoClient
    /\ buffer' = "nothing" /\ result' = "none"
    /\ UNCHANGED <<errors, queue, answer>>

\* The destructor of the client socket, whatever happened before; close(-1)
\* does nothing.
Close ==
    /\ pc = "close"
    /\ Hangup({cur})
    /\ pc' = "accept" /\ cur' = NoClient
    /\ buffer' = "nothing" /\ result' = "none"
    /\ UNCHANGED <<errors, queue, answer>>

\* The process is killed, by SIGPIPE in send among others.
Die == pc # "down" /\ GoDown

Main == Accept \/ Recv \/ Stop \/ Parse \/ Dispatch \/ Send \/ Close

Next ==
    \/ \E c \in Clients : Connect(c) \/ Deliver(c) \/ Quit(c) \/ ComeBack(c)
    \/ Start \/ AcceptFails \/ Main \/ Die

\* main never pauses between calls, accept does not fail for ever, and the
\* clients that are not silent send what they have.
Fairness ==
    /\ WF_vars(Main) /\ SF_vars(Accept)
    /\ \A c \in Clients \ Silent : WF_vars(Deliver(c))

Spec == Init /\ [][Next]_vars /\ Fairness

-----------------------------------------------------------------------------
(* Properties *)

InQueue(c) == \E n \in DOMAIN queue : queue[n] = c

\* Whatever fails in whatever call, the server loses no connection: each one
\* that is open waits in the queue or is the one being served.
NoLeakedConnection == \A c \in Connected : c = cur \/ InQueue(c)

\* No handler runs on anything but a whole, well-formed request: http_body
\* and from_json stop what one recv has cut off.
OnlyWholeExecuted ==
    result # "none" => cur # NoClient /\ buffer = "whole" /\ ask[cur] = "known"

\* A client that is still there and whose request was read whole, is known and
\* did not fail has its result when the connection is closed: an error of an
\* earlier client does not silence the response, errors.clear is in time.
WholeRequestAnswered ==
    /\ pc = "close" /\ cur # NoClient
    /\ link[cur] = "open" /\ Body = "known"
    => result = "failed" \/ answer[cur] = "result"

\* The server waits in recv for a silent client that has sent nothing.
Stuck ==
    /\ pc = "recv" /\ cur \in Silent
    /\ link[cur] = "open" /\ inbox[cur] = 0

\* Every connection is closed in the end, with or without an answer, whatever
\* the other clients do and whoever dies, unless the server waits for ever for
\* one silent client: there is no timeout.
EveryClientReleased ==
    \A c \in Clients :
        [](c \in Connected => <>(c \notin Connected \/ []Stuck))

\* Requests are executed in the order of the connections, once each, and only
\* an executed request is answered.
Line == (IF cur # NoClient /\ pc # "close" THEN <<cur>> ELSE <<>>) \o queue

Fate(c) ==
    IF link[c] = "none" THEN "none"
    ELSE IF answer[c] = "result" THEN "answered"
    ELSE IF \E n \in DOMAIN Line : Line[n] = c
    THEN IF c # cur \/ result = "none" THEN "asked" ELSE result
    ELSE "lost"

Service == INSTANCE RequestService WITH
    line <- Line, fate <- [c \in Clients |-> Fate(c)]

ImplementsService == Service!Spec

\* "json formatted error messages" (bdb_errors.cpp:98) are what main takes as
\* the response when a request has failed (dconf_app.cpp:39): the client gets
\* them.  False: write_socket sends nothing while errors.has().
ErrorAnswered ==
    /\ pc = "close" /\ cur # NoClient
    /\ link[cur] = "open" /\ buffer # "nothing"
    => answer[cur] # "none"

=============================================================================

--------------------------- MODULE RequestService ---------------------------
(***************************************************************************)
(* What the server promises its clients, connections and sockets left out: *)
(* requests are executed one at a time in the order in which the clients   *)
(* came, each at most once, and only an executed one is answered.  An      *)
(* answer may be lost; a stopped server loses every waiting request.       *)
(***************************************************************************)
EXTENDS Sequences

CONSTANT Clients

VARIABLES
    line,   \* the clients waiting, the one being served first
    fate    \* what became of each client's request

Fates == {"none", "asked", "done", "failed", "answered", "lost"}

Init ==
    /\ line = <<>>
    /\ fate = [c \in Clients |-> "none"]

Waiting == {line[n] : n \in DOMAIN line}

\* A new client joins the end of the line.
Ask(c) ==
    /\ fate[c] = "none"
    /\ line' = Append(line, c)
    /\ fate' = [fate EXCEPT ![c] = "asked"]

\* The first request in line is executed.
Execute ==
    /\ line # <<>>
    /\ fate[Head(line)] = "asked"
    /\ \E r \in {"done", "failed"} : fate' = [fate EXCEPT ![Head(line)] = r]
    /\ UNCHANGED line

\* The first client in line leaves, with the result if there is one to give.
Leave(f) ==
    /\ line # <<>>
    /\ f = "answered" => fate[Head(line)] = "done"
    /\ line' = Tail(line)
    /\ fate' = [fate EXCEPT ![Head(line)] = f]

\* The server stops or dies: nobody in line gets an answer.
Abandon ==
    /\ line' = <<>>
    /\ fate' = [c \in Clients |-> IF c \in Waiting THEN "lost" ELSE fate[c]]

\* A client that is through may come again.
Return(c) ==
    /\ fate[c] \in {"answered", "lost"}
    /\ fate' = [fate EXCEPT ![c] = "none"]
    /\ UNCHANGED line

Next ==
    \/ \E c \in Clients : Ask(c) \/ Return(c)
    \/ Execute
    \/ \E f \in {"answered", "lost"} : Leave(f)
    \/ Abandon

Spec == Init /\ [][Next]_<<line, fate>>

=============================================================================

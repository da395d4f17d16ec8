---------------------------- MODULE BroadcastSpec ----------------------------
(***************************************************************************)
(* What the relay of double_server.rs promises, without registries,        *)
(* channels, buffers or the executor: connections join a pool under a name *)
(* and each line one of them says is appended at once to the inbox of     *)
(* every peer then joined to the other pool under a different address;    *)
(* an inbox reaches its socket in order, any prefix at a time, and is lost *)
(* when its connection leaves.                                              *)
(***************************************************************************)
EXTENDS Sequences, RelayData

VARIABLES
    phase,   \* "Unborn" | "AwaitingName" | "Active" | "Done"
    pool,    \* the listener a connection was accepted on
    addr,    \* its remote address
    sent,    \* lines its client has written
    eof,     \* its client has shut down its write side
    said,    \* lines of the client taken by the service (the name first)
    inbox,   \* messages routed to the connection, not yet on its socket
    out      \* messages written to its socket

vars == <<phase, pool, addr, sent, eof, said, inbox, out>>

Live == {c \in Conn : phase[c] \in {"AwaitingName", "Active"}}

(* The peers a line of c reaches: joined to the other pool, under another *)
(* address.                                                                 *)
Audience(c) ==
    {r \in Conn : /\ phase[r] = "Active" /\ pool[r] = Target(pool[c])
                  /\ addr[r] # addr[c]}

Init ==
    /\ phase = [c \in Conn |-> "Unborn"]
    /\ pool = [c \in Conn |-> None]
    /\ addr = [c \in Conn |-> None]
    /\ sent = [c \in Conn |-> 0]
    /\ eof = [c \in Conn |-> FALSE]
    /\ said = [c \in Conn |-> 0]
    /\ inbox = [c \in Conn |-> <<>>]
    /\ out = [c \in Conn |-> <<>>]

Send(c) ==
    /\ c \in Live /\ ~eof[c] /\ sent[c] < MaxLines
    /\ sent' = [sent EXCEPT ![c] = @ + 1]
    /\ UNCHANGED <<phase, pool, addr, eof, said, inbox, out>>

Close(c) ==
    /\ c \in Live /\ ~eof[c]
    /\ eof' = [eof EXCEPT ![c] = TRUE]
    /\ UNCHANGED <<phase, pool, addr, sent, said, inbox, out>>

(* A connection arrives on pool p from an address no open connection of   *)
(* p has.                                                                  *)
Connect(c, p, a) ==
    /\ phase[c] = "Unborn"
    /\ \A d \in Live : pool[d] = p => addr[d] # a
    /\ phase' = [phase EXCEPT ![c] = "AwaitingName"]
    /\ pool' = [pool EXCEPT ![c] = p]
    /\ addr' = [addr EXCEPT ![c] = a]
    /\ UNCHANGED <<sent, eof, said, inbox, out>>

(* The first line names the connection, which joins its pool.             *)
Join(c) ==
    /\ phase[c] = "AwaitingName" /\ said[c] < sent[c]
    /\ phase' = [phase EXCEPT ![c] = "Active"]
    /\ said' = [said EXCEPT ![c] = @ + 1]
    /\ UNCHANGED <<pool, addr, sent, eof, inbox, out>>

(* A connection that has not joined goes away.                             *)
Abandon(c) ==
    /\ phase[c] = "AwaitingName"
    /\ phase' = [phase EXCEPT ![c] = "Done"]
    /\ UNCHANGED <<pool, addr, sent, eof, said, inbox, out>>

(* A joined connection's next line goes to its whole audience at once.    *)
Say(c) ==
    /\ phase[c] = "Active" /\ said[c] < sent[c]
    /\ said' = [said EXCEPT ![c] = @ + 1]
    /\ inbox' = [r \in Conn |->
                   IF r \in Audience(c)
                   THEN Append(inbox[r], Format(c, said[c] + 1))
                   ELSE inbox[r]]
    /\ UNCHANGED <<phase, pool, addr, sent, eof, out>>

(* The oldest k messages of an inbox reach the socket.                     *)
Deliver(c) ==
    /\ phase[c] = "Active"
    /\ \E k \in 1 .. Len(inbox[c]) :
         /\ out' = [out EXCEPT ![c] = @ \o SubSeq(inbox[c], 1, k)]
         /\ inbox' = [inbox EXCEPT ![c] = SubSeq(@, k + 1, Len(@))]
    /\ UNCHANGED <<phase, pool, addr, sent, eof, said>>

(* A joined connection leaves; what it had not been sent is lost.          *)
Leave(c) ==
    /\ phase[c] = "Active"
    /\ phase' = [phase EXCEPT ![c] = "Done"]
    /\ inbox' = [inbox EXCEPT ![c] = <<>>]
    /\ UNCHANGED <<pool, addr, sent, eof, said, out>>

Next ==
    \/ \E c \in Conn, p \in Pools, a \in Addr : Connect(c, p, a)
    \/ \E c \in Conn :
         \/ Send(c) \/ Close(c) \/ Join(c) \/ Abandon(c)
         \/ Say(c) \/ Deliver(c) \/ Leave(c)

Spec == Init /\ [][Next]_vars

=============================================================================

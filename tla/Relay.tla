-------------------------------- MODULE Relay --------------------------------
(***************************************************************************)
(* The two-pool line relay of double_server.rs.  Each accepted socket is a *)
(* task (c_process / go_process) that reads the client's first line as its *)
(* name, registers its channel in its own pool's registry (CPeer::new /     *)
(* GOPeer::new) and is then polled as a future (Future::poll for CPeer and *)
(* GOPeer): drain at most LinesPerTick queued messages into the write      *)
(* buffer, flush it, then read every available line and broadcast it to    *)
(* every peer of the OTHER pool's registry whose address differs.  Drop    *)
(* removes the peer's address from its own registry.                        *)
(*                                                                         *)
(* The two peer types differ only in which registry is "own" and which is  *)
(* the broadcast target, so one set of actions covers both, parameterised  *)
(* by the pool a connection was accepted on (the Bridge).                  *)
(*                                                                         *)
(* Data is abstracted (RelayData): line k written by the client of c is   *)
(* the value <<c, k>>; line 1 is the name.  Bytes and partial lines are   *)
(* the concern of the line codec (Framer), not of this module.            *)
(***************************************************************************)
EXTENDS Naturals, Sequences, FiniteSets, RelayData

CONSTANTS
    LinesPerTick   \* LINES_PER_TICK, the drain budget of one poll

ASSUME ConstAssumption ==
    /\ IsFiniteSet(Conn) /\ Conn # {}
    /\ IsFiniteSet(Addr) /\ Addr # {}
    /\ None \notin Conn \cup Addr
    /\ MaxLines \in Nat \ {0}
    /\ LinesPerTick \in Nat \ {0}

VARIABLES
    phase,     \* "Unborn" | "AwaitingName" | "Active" | "Done"
    pool,      \* listener the connection was accepted on
    addr,      \* the connection's peer_addr
    sent,      \* lines the client has written to the socket
    nread,     \* lines Lines::poll has returned to the server
    eof,       \* the client has closed its write side
    writable,  \* the socket accepts writes (FALSE: poll_write NotReady)
    rx,        \* the peer's UnboundedReceiver queue
    wr,        \* Lines.wr: buffered, not yet written to the socket
    out,       \* what has been written to the socket, in order
    pc,        \* where the task's poll is: "idle" | "read"
    notified,  \* the task has been notified and will be polled
    rxParked,  \* the last rx.poll returned NotReady (task registered on rx)
    reg,       \* reg[p][a]: the connection whose Tx is peers[a] of pool p
    joinMark   \* history: joinMark[r][s] = lines s had broadcast when r joined

vars == <<phase, pool, addr, sent, nread, eof, writable, rx, wr, out,
          pc, notified, rxParked, reg, joinMark>>

Live == {c \in Conn : phase[c] \in {"AwaitingName", "Active"}}

(* Lines broadcast so far by s: every line after its name.                 *)
Bcast(s) == [i \in 1 .. (nread[s] - 1) |-> Format(s, i + 1)]

NBcast(s) == IF nread[s] = 0 THEN 0 ELSE nread[s] - 1

(* Everything handed to r's pipeline, oldest first.                       *)
Received(r) == out[r] \o wr[r] \o rx[r]

-----------------------------------------------------------------------------
(* Helpers *)

(* The executor's wakeup of the tasks in S: unbounded_send wakes a task   *)
(* parked on rx.poll, and socket readiness wakes the socket's task.      *)
Notify(S) == notified' = [x \in Conn |-> notified[x] \/ x \in S]

(* CPeer::new / GOPeer::new: peers.insert(addr, tx) into the own pool's   *)
(* registry, under its lock (an insert overwrites any entry for addr).    *)
Register(c) == reg' = [reg EXCEPT ![pool[c]][addr[c]] = c]

(* Mutant: Drop forgets to remove the entry.                               *)
DeregisterSkipped(c) == reg' = reg

(* Drop: peers.remove(&addr) from the own pool's registry, under its lock: *)
(* by key, whatever the key maps to.                                       *)
Deregister(c) == reg' = [reg EXCEPT ![pool[c]][addr[c]] = None]

(* Drop for CPeer / GOPeer: deregister, then the fields are dropped: the  *)
(* receiver and the write buffer are lost.  The task ends.                 *)
Terminate(c) ==
    /\ phase' = [phase EXCEPT ![c] = "Done"]
    /\ Deregister(c)
    /\ rx' = [rx EXCEPT ![c] = <<>>]
    /\ wr' = [wr EXCEPT ![c] = <<>>]
    /\ pc' = [pc EXCEPT ![c] = "idle"]
    /\ notified' = [notified EXCEPT ![c] = FALSE]
    /\ rxParked' = [rxParked EXCEPT ![c] = FALSE]
    /\ UNCHANGED <<pool, addr, sent, nread, eof, writable, out, joinMark>>

-----------------------------------------------------------------------------
(* Environment: the TCP clients. *)

(* A client writes one complete line.                                       *)
ClientSend(c) ==
    /\ c \in Live /\ ~eof[c]
    /\ sent[c] < MaxLines
    /\ sent' = [sent EXCEPT ![c] = @ + 1]
    /\ Notify({c})
    /\ UNCHANGED <<phase, pool, addr, nread, eof, writable, rx, wr, out,
                   pc, rxParked, reg, joinMark>>

(* A client shuts down its write side: reads then return 0 bytes.          *)
ClientClose(c) ==
    /\ c \in Live /\ ~eof[c]
    /\ eof' = [eof EXCEPT ![c] = TRUE]
    /\ Notify({c})
    /\ UNCHANGED <<phase, pool, addr, sent, nread, writable, rx, wr, out,
                   pc, rxParked, reg, joinMark>>

(* The client reads, so the socket is writable again; the task registered *)
(* for write readiness when poll_write returned NotReady and is woken.     *)
ClientRead(c) ==
    /\ phase[c] = "Active" /\ ~writable[c]
    /\ writable' = [writable EXCEPT ![c] = TRUE]
    /\ Notify({c})
    /\ UNCHANGED <<phase, pool, addr, sent, nread, eof, rx, wr, out,
                   pc, rxParked, reg, joinMark>>

-----------------------------------------------------------------------------
(* The server. *)

(* main's accept loops: a socket accepted on listener p from address a is *)
(* handed to c_process / go_process, which spawns its task.  TCP makes the *)
(* remote address unique among the open sockets of one listener.          *)
Accept(c, p, a) ==
    /\ phase[c] = "Unborn"
    /\ \A d \in Live : pool[d] = p => addr[d] # a
    /\ phase' = [phase EXCEPT ![c] = "AwaitingName"]
    /\ pool' = [pool EXCEPT ![c] = p]
    /\ addr' = [addr EXCEPT ![c] = a]
    /\ Notify({c})
    /\ UNCHANGED <<sent, nread, eof, writable, rx, wr, out, pc,
                   rxParked, reg, joinMark>>

(* The task polls lines.into_future() for the name.  A read error or a   *)
(* close before any line ends the task with no registry effect; a line    *)
(* becomes the name, CPeer::new inserts peers[addr] = tx into the own     *)
(* registry, and the peer future is polled at once: the task stays        *)
(* notified, so its first DrainFlush follows.                              *)
PollName(c) ==
    /\ phase[c] = "AwaitingName" /\ notified[c]
    /\ \/ \* the read fails (possible at any read), or the stream ended
          \* before a line (nread = sent /\ eof): the task ends
          /\ phase' = [phase EXCEPT ![c] = "Done"]
          /\ notified' = [notified EXCEPT ![c] = FALSE]
          /\ UNCHANGED <<nread, reg, pc, joinMark>>
       \/ /\ nread[c] < sent[c]
          /\ nread' = [nread EXCEPT ![c] = @ + 1]
          /\ phase' = [phase EXCEPT ![c] = "Active"]
          /\ Register(c)
          /\ UNCHANGED <<pc, notified>>
          /\ joinMark' = [joinMark EXCEPT ![c] = [s \in Conn |-> NBcast(s)]]
       \/ /\ nread[c] = sent[c] /\ ~eof[c]
          /\ notified' = [notified EXCEPT ![c] = FALSE]
          /\ UNCHANGED <<phase, nread, reg, pc, joinMark>>
    /\ UNCHANGED <<pool, addr, sent, eof, writable, rx, wr, out,
                   rxParked>>

(* How many messages one poll moves from rx to wr: `for i in             *)
(* 0..LINES_PER_TICK` stops at the budget or at the first NotReady.       *)
Drained(c) == IF Len(rx[c]) < LinesPerTick THEN Len(rx[c]) ELSE LinesPerTick

(* Mutant: the self-notification after a full budget is forgotten.        *)
SelfNotifyNever(n) == FALSE

(* `if i + 1 == LINES_PER_TICK { task::current().notify() }`: the last    *)
(* iteration of the drain loop was Ready, so the task re-schedules itself. *)
SelfNotify(n) == n = LinesPerTick

(* Mutant: split_to(k) is forgotten, so the written messages stay in the  *)
(* buffer and are written again.                                           *)
PollFlushNoSplit(c, buf) ==
    \/ /\ buf = <<>> \/ ~writable[c]
       /\ wr' = [wr EXCEPT ![c] = buf]
       /\ UNCHANGED <<out, writable>>
    \/ /\ buf # <<>> /\ writable[c]
       /\ \E k \in 1 .. Len(buf) :
             /\ out' = [out EXCEPT ![c] = @ \o SubSeq(buf, 1, k)]
             /\ wr' = [wr EXCEPT ![c] = buf]
             /\ writable' = [writable EXCEPT ![c] = (k = Len(buf))]

(* lines.poll_flush() on the buffer buf: write while it is non-empty.  A  *)
(* write accepts k >= 1 messages' worth of bytes (assert!(n > 0)) and       *)
(* split_to(k) drops them from the buffer; once the socket is full the    *)
(* write is NotReady and the rest stays buffered.  An empty buffer is      *)
(* Ready without a write.                                                  *)
PollFlush(c, buf) ==
    \/ /\ buf = <<>> \/ ~writable[c]
       /\ wr' = [wr EXCEPT ![c] = buf]
       /\ UNCHANGED <<out, writable>>
    \/ /\ buf # <<>> /\ writable[c]
       /\ \E k \in 1 .. Len(buf) :
             /\ out' = [out EXCEPT ![c] = @ \o SubSeq(buf, 1, k)]
             /\ wr' = [wr EXCEPT ![c] = SubSeq(buf, k + 1, Len(buf))]
             /\ writable' = [writable EXCEPT ![c] = (k = Len(buf))]

(* The executor polls a notified peer future.  The drain loop buffers up  *)
(* to LINES_PER_TICK messages; when the last iteration was Ready the task *)
(* notifies itself, otherwise rx.poll() returned NotReady and the task is *)
(* parked on its channel.  Pushes racing the drain loop only add a        *)
(* notification, so the loop is one step.  Then the write buffer is       *)
(* flushed (NotReady is ignored by the caller); a write error ends the    *)
(* task (the `?`).                                                         *)
DrainFlush(c) ==
    /\ phase[c] = "Active" /\ pc[c] = "idle" /\ notified[c]
    /\ LET n == Drained(c)
           buf == wr[c] \o SubSeq(rx[c], 1, n)
       IN \/ \* a write fails
             /\ buf # <<>>
             /\ Terminate(c)
          \/ /\ rx' = [rx EXCEPT ![c] = SubSeq(@, n + 1, Len(@))]
             /\ notified' = [notified EXCEPT ![c] = SelfNotify(n)]
             /\ rxParked' = [rxParked EXCEPT ![c] = (n < LinesPerTick)]
             /\ pc' = [pc EXCEPT ![c] = "read"]
             /\ PollFlush(c, buf)
             /\ UNCHANGED <<phase, reg>>
    /\ UNCHANGED <<pool, addr, sent, nread, eof, joinMark>>

(* Mutant: the fan-out iterates over the sender's own registry (the        *)
(* copy-paste slip the two peer types invite).                             *)
RecipientsOwnPool(c) ==
    {reg[pool[c]][a] : a \in Addr \ {addr[c]}} \ {None}

Recipients(c) ==
    {reg[Target(pool[c])][a] : a \in Addr \ {addr[c]}} \ {None}

(* Mutant: the message is pushed at the head of the queue (a LIFO channel). *)
BroadcastFront(c, m) ==
    LET R == Recipients(c) IN
    /\ rx' = [t \in Conn |-> IF t \in R THEN <<m>> \o rx[t] ELSE rx[t]]
    /\ Notify({t \in R : rxParked[t]})
    /\ rxParked' = [t \in Conn |-> rxParked[t] /\ t \notin R]

Broadcast(c, m) ==
    LET R == Recipients(c) IN
    /\ rx' = [t \in Conn |-> IF t \in R THEN Append(rx[t], m) ELSE rx[t]]
    /\ Notify({t \in R : rxParked[t]})
    /\ rxParked' = [t \in Conn |-> rxParked[t] /\ t \notin R]

(* Mutant: the `else` branch for Ready(None) is lost, so end of stream is  *)
(* taken like NotReady and the poll returns with the task still alive.    *)
ReadEofIgnored(c) ==
    /\ phase[c] = "Active" /\ pc[c] = "read"
    /\ \/ /\ Terminate(c)
       \/ /\ nread[c] < sent[c]
          /\ nread' = [nread EXCEPT ![c] = @ + 1]
          /\ Broadcast(c, Format(c, nread[c] + 1))
          /\ UNCHANGED <<phase, pool, addr, sent, eof, writable, wr, out,
                         pc, reg, joinMark>>
       \/ /\ nread[c] = sent[c]
          /\ pc' = [pc EXCEPT ![c] = "idle"]
          /\ UNCHANGED <<phase, pool, addr, sent, nread, eof, writable, rx,
                         wr, out, notified, rxParked, reg, joinMark>>

(* One turn of `while let Async::Ready(line) = self.lines.poll()?`.  A    *)
(* read error ends the task; a line is broadcast; end of stream with no   *)
(* buffered line ends the task; otherwise NotReady ends this poll.        *)
Read(c) ==
    /\ phase[c] = "Active" /\ pc[c] = "read"
    /\ \/ \* the read fails
          /\ Terminate(c)
       \/ /\ nread[c] < sent[c]
          /\ nread' = [nread EXCEPT ![c] = @ + 1]
          /\ Broadcast(c, Format(c, nread[c] + 1))
          /\ UNCHANGED <<phase, pool, addr, sent, eof, writable, wr, out,
                         pc, reg, joinMark>>
       \/ /\ nread[c] = sent[c] /\ eof[c]
          /\ Terminate(c)
       \/ /\ nread[c] = sent[c] /\ ~eof[c]
          /\ pc' = [pc EXCEPT ![c] = "idle"]
          /\ UNCHANGED <<phase, pool, addr, sent, nread, eof, writable, rx,
                         wr, out, notified, rxParked, reg, joinMark>>

-----------------------------------------------------------------------------

Init ==
    /\ phase = [c \in Conn |-> "Unborn"]
    /\ pool = [c \in Conn |-> None]
    /\ addr = [c \in Conn |-> None]
    /\ sent = [c \in Conn |-> 0]
    /\ nread = [c \in Conn |-> 0]
    /\ eof = [c \in Conn |-> FALSE]
    /\ writable = [c \in Conn |-> TRUE]
    /\ rx = [c \in Conn |-> <<>>]
    /\ wr = [c \in Conn |-> <<>>]
    /\ out = [c \in Conn |-> <<>>]
    /\ pc = [c \in Conn |-> "idle"]
    /\ notified = [c \in Conn |-> FALSE]
    /\ rxParked = [c \in Conn |-> FALSE]
    /\ reg = [p \in Pools |-> [a \in Addr |-> None]]
    /\ joinMark = [r \in Conn |-> [s \in Conn |-> 0]]

Client(c) ==
    \/ ClientSend(c) \/ ClientClose(c) \/ ClientRead(c)

Server(c) ==
    \/ PollName(c) \/ DrainFlush(c) \/ Read(c)

Next ==
    \/ \E c \in Conn, p \in Pools, a \in Addr : Accept(c, p, a)
    \/ \E c \in Conn : Client(c) \/ Server(c)

(* The executor polls every notified task and runs a started poll to its  *)
(* end; clients keep reading what they are sent.  Nothing obliges a client *)
(* to connect, write or close.                                             *)
Fairness ==
    \A c \in Conn : WF_vars(Server(c)) /\ WF_vars(ClientRead(c))

Spec == Init /\ [][Next]_vars

FairSpec == Spec /\ Fairness

-----------------------------------------------------------------------------
(* Properties *)

TypeOK ==
    /\ phase \in [Conn -> {"Unborn", "AwaitingName", "Active", "Done"}]
    /\ pool \in [Conn -> Pools \cup {None}]
    /\ addr \in [Conn -> Addr \cup {None}]
    /\ sent \in [Conn -> 0 .. MaxLines]
    /\ nread \in [Conn -> 0 .. MaxLines]
    /\ eof \in [Conn -> BOOLEAN]
    /\ writable \in [Conn -> BOOLEAN]
    /\ rx \in [Conn -> Seq(Msg)]
    /\ wr \in [Conn -> Seq(Msg)]
    /\ out \in [Conn -> Seq(Msg)]
    /\ pc \in [Conn -> {"idle", "read"}]
    /\ notified \in [Conn -> BOOLEAN]
    /\ rxParked \in [Conn -> BOOLEAN]
    /\ reg \in [Pools -> [Addr -> Conn \cup {None}]]
    /\ joinMark \in [Conn -> [Conn -> 0 .. MaxLines]]

(* The registry of each pool holds exactly the joined, not yet dropped    *)
(* peers of that pool, each under its own address (the invariant the      *)
(* spec states for the registry).  In particular every Tx in a registry  *)
(* has a live receiver, so `tx.unbounded_send(..).unwrap()` in the fan-out *)
(* never panics, and Drop's remove-by-address never removes another       *)
(* peer's entry.                                                           *)
RegistryMatchesLive ==
    /\ \A p \in Pools, a \in Addr :
          reg[p][a] # None =>
             /\ phase[reg[p][a]] = "Active"
             /\ pool[reg[p][a]] = p
             /\ addr[reg[p][a]] = a
    /\ \A c \in Conn : phase[c] = "Active" => reg[pool[c]][addr[c]] = c

(* What peer s's lines reached r's pipeline (socket, write buffer, queue). *)
FromSender(r, s) == SelectSeq(Received(r), LAMBDA m : Sender(m) = s)

(* Whether the code routes s's broadcasts to r: r is in the pool s        *)
(* broadcasts into and the fan-out's address comparison lets it through.  *)
Routed(s, r) ==
    /\ phase[s] # "Unborn"
    /\ pool[r] = Target(pool[s])
    /\ addr[s] # addr[r]

(* For every joined peer r: what r has been handed (socket, write buffer, *)
(* queue) is, from each connection s, in order and without loss or       *)
(* duplicates, exactly the lines s broadcast after r joined when the      *)
(* fan-out routes s to r, and nothing otherwise (no echo, no same-pool    *)
(* delivery).  Stated per position: every message is a line of a routed   *)
(* sender broadcast since r joined; the lines of one sender appear in     *)
(* increasing order; every such line appears.  Covers the per-receiver    *)
(* FIFO of the channel, the drain loop, the partial flush and the timing  *)
(* of registration against concurrent broadcasts.                         *)
DeliveredExactly ==
    \A r \in Conn : phase[r] = "Active" =>
       LET R == Received(r) IN
       /\ \A i \in 1 .. Len(R) :
             /\ R[i] = Format(Sender(R[i]), LineNo(R[i]))
             /\ Routed(Sender(R[i]), r)
             /\ LineNo(R[i]) \in joinMark[r][Sender(R[i])] + 2
                                  .. NBcast(Sender(R[i])) + 1
       /\ \A i, j \in 1 .. Len(R) :
             i < j /\ Sender(R[i]) = Sender(R[j]) => LineNo(R[i]) < LineNo(R[j])
       /\ \A s \in Conn : Routed(s, r) =>
             \A k \in joinMark[r][s] + 2 .. NBcast(s) + 1 :
                \E i \in 1 .. Len(R) : R[i] = Format(s, k)

(* The spec's delivery promise (section 8): every peer registered in the  *)
(* pool a sender broadcasts into is handed every line the sender broadcast *)
(* after it joined.  The code's fan-out also skips a receiver whose        *)
(* address equals the sender's, although the two sockets belong to         *)
(* different listeners and are different connections.                      *)
SpecDeliveredToPool ==
    \A r \in Conn : phase[r] = "Active" =>
       \A s \in Conn :
          (phase[s] # "Unborn" /\ pool[r] = Target(pool[s])) =>
             FromSender(r, s) = SubSeq(Bcast(s), joinMark[r][s] + 1, NBcast(s))

(* A peer is handed at most the messages of every other connection.      *)
MaxRecv == (Cardinality(Conn) - 1) * (MaxLines - 1)

(* The tick budget never strands a message: whatever is handed to a peer  *)
(* that stays connected is eventually written to its socket, however many *)
(* messages are queued beyond LINES_PER_TICK.                              *)
EventualDelivery ==
    \A r \in Conn, k \in 1 .. MaxRecv :
       (phase[r] = "Active" /\ Len(Received(r)) >= k)
          ~> (Len(out[r]) >= k \/ phase[r] = "Done")

(* Cleanup: once a connected client has shut down its write side, its task *)
(* eventually ends and Drop runs, so its entry leaves the registry.  This  *)
(* needs ClientClose's wakeup, a poll that reaches the read loop, every    *)
(* queued line read and broadcast, and the Ready(None) branch returning    *)
(* Ready(()) (CPeer::poll, line 274) rather than NotReady.                 *)
CleanupOnClose ==
    \A c \in Conn : eof[c] ~> phase[c] = "Done"

=============================================================================

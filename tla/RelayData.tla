------------------------------ MODULE RelayData ------------------------------
(***************************************************************************)
(* The data of double_server.rs shared by the relay (Relay) and its        *)
(* abstract specification (BroadcastSpec): the connections, addresses and  *)
(* pools, the bridge between the pools, and the messages.  Line k written  *)
(* by the client of connection c is the value <<c, k>>; line 1 is the     *)
(* name.                                                                   *)
(***************************************************************************)
EXTENDS Naturals

CONSTANTS
    Conn,          \* connection slots: every socket ever accepted
    Addr,          \* remote socket addresses (registry keys)
    MaxLines,      \* bound on the lines one client writes (name included)
    None           \* an empty registry slot / an unset field

(* The two listeners: "C" (c_server) and "GO" (go_server).                 *)
Pools == {"C", "GO"}

(* Bridge wiring: a CPeer registers in c_state and broadcasts into         *)
(* go_state; a GOPeer registers in go_state and broadcasts into c_state.   *)
Target(p) == IF p = "C" THEN "GO" ELSE "C"

Line(c, k) == <<c, k>>

(* `name: line\r\n`: the broadcast value pairs the sender's name (its      *)
(* first line) with the line.                                               *)
Format(c, k) == [name |-> Line(c, 1), line |-> Line(c, k)]

Msg == [name : Conn \X (1..MaxLines), line : Conn \X (1..MaxLines)]

Sender(m) == m.line[1]

LineNo(m) == m.line[2]

=============================================================================

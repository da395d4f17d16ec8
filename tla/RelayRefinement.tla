--------------------------- MODULE RelayRefinement ---------------------------
(***************************************************************************)
(* Relay implements BroadcastSpec.  A peer's inbox is what its pipeline   *)
(* holds and its socket has not yet taken: the write buffer (older), then *)
(* the channel; the lines the service has taken from a client are the     *)
(* lines its Lines::poll has returned.  Registries, the executor's flags   *)
(* and the read/idle position of a poll are hidden.                        *)
(***************************************************************************)
EXTENDS Relay

(* A peer's inbox: its write buffer, then its channel.                    *)
Inbox == [c \in Conn |-> wr[c] \o rx[c]]

Abs == INSTANCE BroadcastSpec WITH said <- nread, inbox <- Inbox

(* Every behaviour of the relay, seen through the mapping, is a behaviour *)
(* of BroadcastSpec: a line read by a peer is handed at once to exactly   *)
(* the peers then joined to the other pool under another address (so the *)
(* registry lookup in the fan-out agrees with the joins and Drops), the   *)
(* drain loop and poll_flush only move a prefix of the inbox to the       *)
(* socket, and nothing enters an inbox by any other step.                 *)
Refines == Abs!Spec

=============================================================================

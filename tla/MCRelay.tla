------------------------------- MODULE MCRelay -------------------------------
(* Instantiates Relay for TLC.  Safety (MCRelay.cfg): three sockets, two  *)
(* remote addresses (so a socket of each listener can share an address),  *)
(* two lines per client (a name and a message), a drain budget of two.    *)
(* Order (MCRelayFifo.cfg): two sockets, four lines per client, so one   *)
(* sender has three messages in flight to one receiver.                   *)
(* Liveness (MCRelayLive.cfg): two sockets, three lines per client, a      *)
(* drain budget of one, so the queue outgrows the budget.                  *)
EXTENDS Relay, TLC

CONSTANTS c1, c2, c3, a1, a2

MCConn == {c1, c2, c3}
MCConn2 == {c1, c2}
MCAddr == {a1, a2}

(* Connections and addresses are interchangeable: safety runs only.        *)
MCSymmetry == Permutations(MCConn) \cup Permutations(MCAddr)

MCSymmetry2 == Permutations(MCConn2) \cup Permutations(MCAddr)
=============================================================================

-------------------------- MODULE MCRelayRefinement --------------------------
(***************************************************************************)
(* The refinement of BroadcastSpec by Relay, on MCRelay's instance.        *)
(***************************************************************************)
EXTENDS MCRelay, RelayRefinement

=============================================================================

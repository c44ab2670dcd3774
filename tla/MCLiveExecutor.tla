--------------------------- MODULE MCLiveExecutor ---------------------------
(***************************************************************************)
(* A small instance of LiveExecutor: an account that already holds one     *)
(* contract, a protective stop, a reduce-only limit that may fill in two   *)
(* parts or expire after one, market actions either way, orders that are   *)
(* tried twice, and one failure: a restart, a lost user socket or a        *)
(* request that times out.                                                 *)
(***************************************************************************)
EXTENDS LiveExecutor

MCQuantities == {-1, 1}
MCResting == {[id |-> "sl", kind |-> "stop", quantity |-> -1, reduce |-> TRUE],
              [id |-> "tp", kind |-> "limit", quantity |-> -2, reduce |-> TRUE]}
MCMarketIds == <<"st-1", "st-2">>

=============================================================================

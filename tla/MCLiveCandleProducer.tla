------------------------ MODULE MCLiveCandleProducer ------------------------
(***************************************************************************)
(* Small instances of LiveCandleProducer: two multiplexed symbols, a       *)
(* deadline of two ticks, two reconnection attempts in a row, and a socket *)
(* that counts as stable again after one tick.                             *)
(***************************************************************************)
EXTENDS LiveCandleProducer

CONSTANTS a, b

MCSymbols == {a, b}

=============================================================================

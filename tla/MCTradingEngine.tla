--------------------------- MODULE MCTradingEngine --------------------------
(***************************************************************************)
(* A small instance of TradingEngine: two symbols with different windows,  *)
(* events of one or two candles, an interval of two so that a start can be *)
(* off the grid, and a stream long enough for a warm-up, a gap that may be *)
(* repaired, one that may not, and redeliveries of both.                   *)
(***************************************************************************)
EXTENDS TradingEngine

CONSTANTS a, b

MCSymbols == {a, b}
MCWindows == [s \in {a, b} |-> IF s = a THEN 1 ELSE 2]

=============================================================================

-------------------------- MODULE MCFillAccounting --------------------------
(***************************************************************************)
(* A small instance of FillAccounting: two symbols that share the margin,  *)
(* prices with many divisors, and enough fills for a position to grow, be  *)
(* closed in part, reversed and closed.                                    *)
(***************************************************************************)
EXTENDS FillAccounting

CONSTANTS a, b

MCSymbols == {a, b}
MCPrices == {120, 480, 600}
MCQuantities == {-3, -1, 1, 2}

=============================================================================

---------------------------- MODULE MCSimExecutor ---------------------------
(***************************************************************************)
(* Small instances of SimExecutor: two symbols, candles that rise, drop or *)
(* do both, and actions that open, protect and close positions: market     *)
(* orders of either direction, a protective stop and a limit on the same   *)
(* candle, an order that expires, and a cancel.  Prices are multiples of 8 *)
(* so that half of slippage and a quarter of fees stay exact.              *)
(***************************************************************************)
EXTENDS SimExecutor

CONSTANTS a, b

MCSymbols == {a, b}

Bar(open, high, low, close) == [open |-> open, high |-> high, low |-> low, close |-> close]
MCCandles == {Bar(16, 24, 16, 24), Bar(16, 24, 8, 8)}

MarketOrder(s, q) ==
  [kind |-> "market", symbol |-> s, qty |-> q, type |-> "limit", level |-> 0,
   above |-> FALSE, reduceOnly |-> FALSE, id |-> NoId, expire |-> GTC]
LimitOrder(s, q, price, reduce, id, n) ==
  [MarketOrder(s, q) EXCEPT !.kind = "rest", !.level = price, !.reduceOnly = reduce,
                       !.id = id, !.expire = n]
StopOrder(s, q, price, up, id, n) ==
  [LimitOrder(s, q, price, TRUE, id, n) EXCEPT !.type = "stop", !.above = up]
CancelOf(s, id) == [MarketOrder(s, 0) EXCEPT !.kind = "cancel", !.id = id]

MCActions ==
  {MarketOrder(a, 2), MarketOrder(b, -1),
   StopOrder(a, -2, 8, FALSE, "x", GTC), LimitOrder(a, -1, 24, FALSE, NoId, GTC),
   LimitOrder(a, -1, 24, TRUE, "x", 1), LimitOrder(b, 2, 8, TRUE, NoId, 2),
   CancelOf(a, "x"), CancelOf(b, NoId)}

=============================================================================

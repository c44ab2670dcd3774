---------------------------- MODULE MCEventLoops ----------------------------
(***************************************************************************)
(* Small instances of EventLoops: b and a are traded, in that order, and c *)
(* is only in the candles.  The candles of a are any three or four bars,   *)
(* b is listed later or has a hole, c is short.  Two values stay readable, *)
(* so that the strategy reads up to and past what is kept.                 *)
(***************************************************************************)
EXTENDS EventLoops

Bar(t, open, high, low, close, volume, taker) ==
  [start |-> t - 1, end |-> t, open |-> open, high |-> high, low |-> low,
   close |-> close, volume |-> volume, taker |-> taker]
\* A rise, a crash, a gap up and a candle of an old cache, without taker volume.
Shape(k, t) ==
  CASE k = 1 -> Bar(t, 3, 5, 3, 4, 2, 2)
    [] k = 2 -> Bar(t, 4, 4, 1, 1, 3, 0)
    [] k = 3 -> Bar(t, 6, 6, 5, 5, 1, None)
Bars(shapes, times) == [i \in DOMAIN times |-> Shape(shapes[i], times[i])]

MCListed == <<"a", "b", "c">>
MCStreamed == <<"b", "a">>
Spec2(kind, w) == [kind |-> kind, window |-> w]
MCPlan ==
  [s \in {"a", "b"} |->
     IF s = "a"
     THEN <<Spec2("ma", 2), Spec2("max", 2), Spec2("min", 3), Spec2("atr", 2),
            Spec2("std", 2), Spec2("volstd", 2), Spec2("supertrend", 1), Spec2("adx", 2),
            Spec2("taker", 2), Spec2("pivot", 1), Spec2("age", 1)>>
     ELSE <<Spec2("volume", 2), Spec2("max", 3), Spec2("taker", 1)>>]

MCMarkets ==
  {[s \in {"a", "b", "c"} |->
      CASE s = "a" -> Bars(shapes, <<1, 2, 3, 4>>)
        [] s = "b" -> Bars(<<2, 1, 3>>, times)
        [] s = "c" -> Bars(<<1>>, <<3>>)]
     : <<shapes, times>> \in ([1..4 -> 1..3] \X {<<1, 2, 4>>})
                             \cup ({f \in [1..4 -> 1..3] : f[1] = 1} \X {<<3, 4, 5>>})}
  \cup {[s \in {"a", "b", "c"} |-> IF s = "c" THEN <<>> ELSE
            IF s = "a" THEN Bars(<<1, 2>>, <<1, 2>>)
            ELSE [i \in 1..2 |-> [Shape(1, 2 * i) EXCEPT !.start = 2 * i - 2]]]}

MarketOrder(s, q) == [kind |-> "market", symbol |-> s, qty |-> q, level |-> 0]
StopOrder(s, level) == [kind |-> "stop", symbol |-> s, qty |-> -1, level |-> level]
MCActionLists ==
  {<<>>, <<MarketOrder("a", 1), StopOrder("a", 3)>>, <<MarketOrder("b", -1), MarketOrder("a", 2)>>}
MCLateLists ==
  {<<MarketOrder("a", 1), MarketOrder("b", 1)>>,
   <<MarketOrder("a", -1), MarketOrder("a", -2), MarketOrder("b", 2), StopOrder("a", 1)>>,
   <<MarketOrder("b", 1), MarketOrder("a", -3), MarketOrder("a", -1), MarketOrder("b", 1)>>}

\* Both symbols are asked for their age, b first; a hole after the first candle.
MCAgePlan == [s \in {"a", "b"} |-> <<Spec2("age", 1)>>]
MCADXPlan == [s \in {"a", "b"} |-> <<Spec2("adx", 2)>>]
MCGapMarkets ==
  {[s \in {"a", "b", "c"} |->
      CASE s = "a" -> Bars(<<1, 2, 3>>, <<1, 2, 3>>)
        [] s = "b" -> Bars(<<2, 1>>, <<1, 3>>)
        [] s = "c" -> <<>>]}

=============================================================================

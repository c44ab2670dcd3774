----------------------------- MODULE Indicators -----------------------------
(***************************************************************************)
(* The indicators of core/streamer/indicator: what one candle does to each *)
(* (update), what a whole series comes to for those that can be computed   *)
(* in advance (compute), and how a strategy reads them (read).             *)
(*                                                                         *)
(* Prices are integers.  A value is kept undivided, so that it stays one:  *)
(* a mean as its sum, a variance as w * sum of squares - square of sum, a  *)
(* Supertrend line as 2 * w times the price, a taker imbalance and a       *)
(* trendline as a pair <<numerator, denominator>>, and an ADX as the       *)
(* number of candles it was drawn from.  Rounding is left out: the code    *)
(* makes compute repeat update's additions one by one, and so do these.    *)
(***************************************************************************)
EXTENDS Integers, Sequences, FiniteSets, FiniteSetsExt

CONSTANTS
  History,      \* history_size: how many values stay readable
  Multiplier,   \* Supertrend's
  None,         \* a value that is not there
  NaN,          \* what compute puts where there is none
  Refused       \* a read outside the kept history: IndexError, AssertionError

ASSUME HistoryAssumption == History \in Nat \ {0} /\ Multiplier \in Int

\* The three are not values, and each is itself only.
Pair == Int \X Int
ASSUME SentinelAssumption ==
  /\ {None, NaN, Refused} \cap (Int \cup Pair) = {}
  /\ Cardinality({None, NaN, Refused}) = 3

Rolling == {"ma", "volume", "atr"}
Spread == {"std", "volstd"}
Extreme == {"max", "min"}
Vectorizable == Rolling \cup Spread \cup Extreme
LoopOnly == {"supertrend", "adx", "taker", "pivot", "age"}

\* An absolute value, and a deque(maxlen=n).
Abs(x) == IF x < 0 THEN -x ELSE x
Push(d, x, n) == LET e == Append(d, x) IN IF Len(e) > n THEN Tail(e) ELSE e

SumOf(xs) == MapThenSumSet(LAMBDA i : xs[i], DOMAIN xs)
Largest(xs) == CHOOSE x \in {xs[i] : i \in DOMAIN xs} : \A i \in DOMAIN xs : xs[i] <= x
Smallest(xs) == CHOOSE x \in {xs[i] : i \in DOMAIN xs} : \A i \in DOMAIN xs : xs[i] >= x

\* w * w * variance: the root and the divisions change nothing a comparison sees.
Variance(xs) == Len(xs) * SumOf([i \in DOMAIN xs |-> xs[i] * xs[i]]) - SumOf(xs) * SumOf(xs)

\* The true range of a candle after a candle that closed at prev.
TrueRange(c, prev) ==
  IF prev = None THEN c.high - c.low
  ELSE Largest(<<c.high - c.low, Abs(c.high - prev), Abs(c.low - prev)>>)

\* What of a candle an indicator looks at.
Input(kind, c, prev) ==
  CASE kind \in {"ma", "std"} -> c.close
    [] kind \in {"volume", "volstd"} -> c.volume
    [] kind \in {"atr", "supertrend"} -> TrueRange(c, prev)
    [] kind \in {"max", "pivot"} -> c.high
    [] kind = "min" -> c.low

\* An indicator that has seen nothing: [kind, window], its output and its work.
Fresh(spec) ==
  [kind |-> spec.kind, window |-> spec.window, out |-> <<>>, seen |-> 0,
   vals |-> <<>>, sum |-> 0, prev |-> None,
   upper |-> None, lower |-> None, trend |-> 1, buys |-> 0, missing |-> 0,
   p1 |-> 0, y1 |-> 0, p2 |-> 0, y2 |-> 0, pairs |-> 0]

\* The age keeps two values, a trendline the last.
Kept(kind) == CASE kind = "age" -> 2 [] kind = "pivot" -> 1 [] OTHER -> History
Emit(ind, v) == [ind EXCEPT !.out = Push(@, v, Kept(ind.kind))]

-----------------------------------------------------------------------------
(* update: one candle.                                                     *)

Warm(ind) == Len(ind.vals) = ind.window

\* Mutant: the sum keeps the value that left the window.
SlideKeepsOldest(ind, x) ==
  [ind EXCEPT !.sum = @ + x, !.vals = Push(@, x, ind.window)]

\* The window and its running sum, the oldest value out first.
Slide(ind, x) ==
  [ind EXCEPT !.sum = @ - (IF Len(ind.vals) = ind.window THEN Head(ind.vals) ELSE 0) + x,
              !.vals = Push(@, x, ind.window)]

UpdateRolling(ind, c) ==
  LET next == [Slide(ind, Input(ind.kind, c, ind.prev)) EXCEPT !.prev = c.close] IN
  IF Warm(next) THEN Emit(next, next.sum) ELSE next

UpdateSpread(ind, c) ==
  LET next == [ind EXCEPT !.vals = Push(@, Input(ind.kind, c, None), ind.window)] IN
  IF Warm(next) THEN Emit(next, Variance(next.vals)) ELSE next

Beats(kind, x, y) == IF kind = "max" THEN y < x ELSE y > x

\* The last entry of the deque that a new price does not beat, or 0.
LastUnbeaten(ind, x) ==
  Max({0} \cup {i \in DOMAIN ind.vals : ~Beats(ind.kind, x, ind.vals[i][1])})

\* Mutant: the front leaves the window one candle late.
UpdateExtremeLate(ind, c) ==
  LET x == Input(ind.kind, c, None)
      idx == ind.seen + 1
      kept == SubSeq(ind.vals, 1, LastUnbeaten(ind, x))
      all == Append(kept, <<x, idx>>)
      mono == IF all[1][2] < idx - ind.window THEN Tail(all) ELSE all
  IN Emit([ind EXCEPT !.seen = idx, !.vals = mono],
          IF ind.window <= idx THEN mono[1][1] ELSE None)

(***************************************************************************)
(* The monotonic deque of <<price, index>>: entries go from the back until *)
(* one is not beaten by the new price, and what left the window goes from  *)
(* the front.                                                              *)
(***************************************************************************)
UpdateExtreme(ind, c) ==
  LET x == Input(ind.kind, c, None)
      idx == ind.seen + 1
      kept == SubSeq(ind.vals, 1, LastUnbeaten(ind, x))
      all == Push(kept, <<x, idx>>, ind.window)
      mono == IF all[1][2] <= idx - ind.window THEN Tail(all) ELSE all
  IN Emit([ind EXCEPT !.seen = idx, !.vals = mono],
          IF ind.window <= idx THEN mono[1][1] ELSE None)

\* The bands only move towards the price while it stays on their side.
UpdateSupertrend(ind, c) ==
  LET w == ind.window
      next == [Slide(ind, Input(ind.kind, c, ind.prev)) EXCEPT !.prev = c.close]
      mid == (c.high + c.low) * w
      close == 2 * w * c.close
      prev == 2 * w * ind.prev
      basicUp == mid + 2 * Multiplier * next.sum
      basicLow == mid - 2 * Multiplier * next.sum
      first == ind.upper = None
      up == IF first \/ basicUp < ind.upper \/ prev > ind.upper THEN basicUp ELSE ind.upper
      low == IF first \/ ind.lower < basicLow \/ prev < ind.lower THEN basicLow ELSE ind.lower
      trend == IF first THEN (IF close > mid THEN 1 ELSE -1)
               ELSE IF ind.trend = 1 /\ close < low THEN -1
               ELSE IF ind.trend = -1 /\ up < close THEN 1
               ELSE ind.trend
  IN IF ~Warm(next) THEN next
     ELSE Emit([next EXCEPT !.upper = up, !.lower = low, !.trend = trend],
               <<IF trend = 1 THEN low ELSE up, trend>>)

\* Wilder's seeds: the first candle gives no range, w ranges give the first
\* direction index, and w of those the first ADX.
UpdateADX(ind, c) ==
  LET next == [ind EXCEPT !.seen = @ + 1]
      ranges == next.seen - 1
      indices == ranges - ind.window + 1
  IN IF ranges < 1 \/ indices < ind.window THEN next ELSE Emit(next, next.seen)

\* A candle without the field counts as missing while it is in the window.
UpdateTaker(ind, c) ==
  LET gone == IF Len(ind.vals) = ind.window THEN Head(ind.vals) ELSE [buy |-> 0, volume |-> 0, missing |-> 0]
      came == [buy |-> IF c.taker = None THEN 0 ELSE c.taker, volume |-> c.volume,
               missing |-> IF c.taker = None THEN 1 ELSE 0]
      next == [ind EXCEPT !.vals = Push(@, came, ind.window),
                          !.sum = @ - gone.volume + came.volume,
                          !.buys = @ - gone.buy + came.buy,
                          !.missing = @ - gone.missing + came.missing]
  IN IF ~Warm(next) THEN next
     ELSE Emit(next, IF next.missing > 0 \/ next.sum <= 0 THEN None
                     ELSE <<2 * next.buys - next.sum, next.sum>>)

\* A high is a pivot once k lower candles follow k lower ones.
UpdatePivot(ind, c) ==
  LET k == ind.window
      vals == Append(ind.vals, Input(ind.kind, c, None))
      i == Len(vals)
      m == i - k
      confirmed == /\ i > 2 * k
                   /\ \A j \in m - k..m - 1 : vals[m] > vals[j]
                   /\ \A j \in m + 1..i : vals[m] >= vals[j]
      next == IF confirmed
              THEN [ind EXCEPT !.vals = vals, !.p1 = ind.p2, !.y1 = ind.y2,
                               !.p2 = m, !.y2 = vals[m], !.pairs = @ + 1]
              ELSE [ind EXCEPT !.vals = vals]
      run == next.p2 - next.p1
  IN IF next.pairs < 2 THEN next
     ELSE Emit(next, <<next.y2 * run + (next.y2 - next.y1) * (i - next.p2), run>>)

\* Candles in a row with a position, by the account before this event's trades;
\* no account is shown during warm-up.
UpdateAge(ind, position) ==
  LET age == IF position # None /\ position # 0 THEN ind.sum + 1 ELSE 0 IN
  Emit([ind EXCEPT !.sum = age], age)

Update(ind, c, position) ==
  CASE ind.kind \in Rolling -> UpdateRolling(ind, c)
    [] ind.kind \in Spread -> UpdateSpread(ind, c)
    [] ind.kind \in Extreme -> UpdateExtreme(ind, c)
    [] ind.kind = "supertrend" -> UpdateSupertrend(ind, c)
    [] ind.kind = "adx" -> UpdateADX(ind, c)
    [] ind.kind = "taker" -> UpdateTaker(ind, c)
    [] ind.kind = "pivot" -> UpdatePivot(ind, c)
    [] ind.kind = "age" -> UpdateAge(ind, position)

-----------------------------------------------------------------------------
(* compute: the whole series, one value per candle.                        *)

Inputs(kind, candles) ==
  [i \in DOMAIN candles |->
     Input(kind, candles[i], IF i = 1 THEN None ELSE candles[i - 1].close)]

\* rolling_mean_exact: the running sums of -x[i - w], x[i], -x[i - w + 1], ...
RollingSums(xs, w) ==
  LET y == [j \in 1..2 * Len(xs) |->
              IF j % 2 = 0 THEN xs[j \div 2]
              ELSE LET i == (j + 1) \div 2 IN IF i > w THEN -xs[i - w] ELSE 0]
      sums[j \in 0..2 * Len(xs)] == IF j = 0 THEN 0 ELSE sums[j - 1] + y[j]
  IN [i \in DOMAIN xs |-> IF i < w THEN NaN ELSE sums[2 * i]]

\* rolling_std_exact and pandas' rolling min and max: every window afresh.
OfWindow(kind, ys) ==
  CASE kind \in Spread -> Variance(ys)
    [] kind = "max" -> Largest(ys)
    [] kind = "min" -> Smallest(ys)
Windowed(kind, xs, w) ==
  [i \in DOMAIN xs |-> IF i < w THEN NaN ELSE OfWindow(kind, SubSeq(xs, i - w + 1, i))]

Compute(kind, w, candles) ==
  LET xs == Inputs(kind, candles) IN
  IF kind \in Rolling THEN RollingSums(xs, w) ELSE Windowed(kind, xs, w)

\* sink(): the computed value goes where update's would.
Sink(ind, v) == Emit(ind, v)

\* read: from the end, None where there is nothing yet.
Read(ind, idx) ==
  IF idx >= 0 \/ idx < -Kept(ind.kind) THEN Refused
  ELSE IF Len(ind.out) + idx + 1 < 1 THEN None
  ELSE LET v == ind.out[Len(ind.out) + idx + 1] IN IF v = NaN THEN None ELSE v

=============================================================================

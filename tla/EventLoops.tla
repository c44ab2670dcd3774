----------------------------- MODULE EventLoops -----------------------------
(***************************************************************************)
(* The two event loops over the same candles: TradingEngine.process_event  *)
(* (core/engine/trading.py) fed by an InMemoryCandleProducer, and the loop *)
(* of core/engine/backtest.py, which computes the indicators that allow it *)
(* in advance.  The code keeps the order of the steps in both by hand.     *)
(*                                                                         *)
(* The strategy is any: what it returns for an event is chosen when the    *)
(* first loop asks, and the second loop is given the same answer, to which *)
(* a strategy is bound as long as it sees the same (view).  The executor   *)
(* is SimulatedExecutor without fees, slippage and order types that say    *)
(* nothing about the loops (see SimExecutor): market orders and one        *)
(* protective stop per symbol.  The live loop goes first, event by event;  *)
(* the two share nothing.                                                  *)
(*                                                                         *)
(* An event the live loop takes up after its deadline is a late decision:  *)
(* its actions lose what would add exposure and the rest is sent, and the  *)
(* exchange may refuse any of it.  The model ends there.                   *)
(***************************************************************************)
EXTENDS Indicators, SequencesExt

CONSTANTS
  Streamed,     \* streamer.symbols, in their order
  Listed,       \* the keys of candles_by_symbol, in the order of their names
  Plan,         \* streamer.indicators: [symbol -> sequence of [kind, window]]
  Markets,      \* the candles_by_symbol to consider
  ActionLists,  \* what decide_action may return
  LateLists,    \* what it may return on a late event
  InitMargin,
  Vectorize     \* BacktestEngine(vectorize=...)

Names == ToSet(Listed)
Traded == ToSet(Streamed)

\* A candle of either source, an action for the executor, and a configured indicator.
Candle == [start : Nat, end : Nat, open : Int, high : Int, low : Int, close : Int,
           volume : Int, taker : Int \cup {None}]
Action == [kind : {"market", "stop"}, symbol : Names, qty : Int, level : Int]
Configured == [kind : Vectorizable \cup LoopOnly, window : Nat \ {0}]

ASSUME LoopAssumption ==
  /\ Listed \in Seq(Names) /\ Streamed \in Seq(Names)
  /\ DOMAIN Plan = Traded /\ \A s \in Traded : Plan[s] \in Seq(Configured)
  /\ Markets \subseteq [Names -> Seq(Candle)]
  /\ ActionLists \cup LateLists \subseteq Seq(Action)
  /\ InitMargin \in Int /\ Vectorize \in BOOLEAN

VARIABLES
  market,   \* candles_by_symbol
  live,     \* the live loop: cursors of the merge, indicators, account, what was seen
  back,     \* the backtest: the same, the computed series and their cursors
  acts,     \* what the strategy returned for the event being compared
  phase     \* "new", "refused", "running" or "late"

loopVars == <<market, live, back, acts, phase>>

-----------------------------------------------------------------------------
(* merge_by_end_time: all candles that close next, by name.                *)

Waiting(head) == {s \in Names : head[s] <= Len(market[s])}
NextTime(head) ==
  CHOOSE t \in {market[s][head[s]].end : s \in Waiting(head)} :
    \A s \in Waiting(head) : t <= market[s][head[s]].end

Batch(head) == {s \in Waiting(head) : market[s][head[s]].end = NextTime(head)}
Event(head) == [s \in Batch(head) |-> market[s][head[s]]]
Advanced(head) == [s \in Names |-> IF s \in Batch(head) THEN head[s] + 1 ELSE head[s]]

\* _check_one_interval and _measure_interval_ms: by the first two candles.
Measured == {market[s][2].start - market[s][1].start : s \in {n \in Names : Len(market[n]) > 1}}

-----------------------------------------------------------------------------
(* The executor, as far as the loops can tell.  keys is the order of       *)
(* status.positions, a dict: position_for adds a symbol it does not know.  *)

NewAccount ==
  [cash |-> InitMargin, keys |-> <<>>, pos |-> [s \in Names |-> 0],
   stop |-> [s \in Names |-> 0], last |-> [s \in Names |-> 0],
   dead |-> FALSE, trades |-> <<>>]

PositionFor(acct, s) ==
  IF Contains(acct.keys, s) THEN acct ELSE [acct EXCEPT !.keys = Append(@, s)]
Equity(acct) == acct.cash + MapThenSumSet(LAMBDA s : acct.pos[s] * acct.last[s], Names)

Fill(acct, t, s, q, price) ==
  [PositionFor(acct, s) EXCEPT
     !.cash = @ - q * price, !.pos[s] = @ + q,
     !.trades = Append(@, [time |-> t, symbol |-> s, qty |-> q, price |-> price,
                           pre |-> acct.pos[s]])]

\* A stop sells one, unless nothing is left to protect.
MatchStop(acct, t, s, c) ==
  LET left == [acct EXCEPT !.stop[s] = 0] IN
  IF acct.stop[s] = 0 \/ c.low > acct.stop[s] THEN acct
  ELSE IF acct.pos[s] <= 0 THEN PositionFor(left, s)
  ELSE Fill(left, t, s, -1, IF c.open <= acct.stop[s] THEN c.open ELSE acct.stop[s])

Flatten(acct, t, s) ==
  IF acct.pos[s] = 0 THEN acct ELSE Fill(acct, t, s, -acct.pos[s], acct.last[s])
FlattenAll(acct, t, keys) == FoldLeft(LAMBDA x, s : Flatten(x, t, s), acct, keys)
Liquidate(acct, t) ==
  FlattenAll([acct EXCEPT !.dead = TRUE, !.stop = [s \in Names |-> 0]], t, acct.keys)

\* The stops of an event are matched in the order of the names.
MatchOne(acct, t, s, event) ==
  IF s \in DOMAIN event THEN MatchStop([acct EXCEPT !.last[s] = event[s].close], t, s, event[s])
  ELSE acct

MatchAll(acct, t, event) == FoldLeft(LAMBDA x, s : MatchOne(x, t, s, event), acct, Listed)

BeginEvent(acct, t, event) ==
  LET matched == MatchAll(acct, t, event) IN
  IF ~matched.dead /\ Equity(matched) <= 0 THEN Liquidate(matched, t) ELSE matched

Submit(acct, t, a) ==
  IF acct.dead THEN acct
  ELSE IF a.kind = "stop" THEN [acct EXCEPT !.stop[a.symbol] = a.level]
  ELSE IF a.qty = 0 \/ acct.last[a.symbol] = 0 THEN acct
  ELSE Fill(acct, t, a.symbol, a.qty, acct.last[a.symbol])

SubmitAll(acct, t, actions) == FoldLeft(LAMBDA x, a : Submit(x, t, a), acct, actions)

-----------------------------------------------------------------------------
(* What decide_action can see: every read of every indicator, one deeper   *)
(* than is kept, and the account.                                          *)

View(ind, acct, t) ==
  [time |-> t,
   reads |-> [s \in Traded |-> [j \in DOMAIN ind[s] |->
                [d \in 1..History + 1 |-> Read(ind[s][j], -d)]]],
   pos |-> acct.pos, stop |-> acct.stop, equity |-> Equity(acct)]

FreshIndicators == [s \in Traded |-> [j \in DOMAIN Plan[s] |-> Fresh(Plan[s][j])]]
NoView == View(FreshIndicators, NewAccount, 0)

NewLoop ==
  [head |-> [s \in Names |-> 1], ind |-> FreshIndicators, acct |-> NewAccount, view |-> NoView]

NewBack ==
  [head |-> [s \in Names |-> 1], ind |-> FreshIndicators, acct |-> NewAccount, view |-> NoView,
   drawn |-> [s \in Traded |-> 0], series |-> <<>>]

\* The age of a symbol in the event asks for its position, and so makes it known.
Asked(event) ==
  {s \in DOMAIN event \cap Traded : \E j \in DOMAIN Plan[s] : Plan[s][j].kind = "age"}
Touch(acct, asked, s) == IF s \in asked THEN PositionFor(acct, s) ELSE acct
TouchedBy(acct, asked, order) == FoldLeft(LAMBDA x, s : Touch(x, asked, s), acct, order)

Begun(loop) == BeginEvent(loop.acct, NextTime(loop.head), Event(loop.head))

\* process_event: begin_event, the indicators in the order of streamer.symbols,
\* the decision (view), record_event, and the actions that are sent.
LiveLoop(loop, actions) ==
  LET event == Event(loop.head)
      t == NextTime(loop.head)
      begun == Begun(loop)
      ind == [s \in Traded |-> IF s \notin DOMAIN event THEN loop.ind[s]
                ELSE [j \in DOMAIN loop.ind[s] |->
                        Update(loop.ind[s][j], event[s], begun.pos[s])]]
      shown == TouchedBy(begun, Asked(event), Streamed)
  IN [head |-> Advanced(loop.head), ind |-> ind,
      acct |-> SubmitAll(shown, t, actions), view |-> View(ind, shown, t)]

\* _precompute, for symbols that have candles.
Precomputed(s, j) == Vectorize /\ Len(market[s]) > 0 /\ Plan[s][j].kind \in Vectorizable
Series ==
  [s \in Traded |-> [j \in DOMAIN Plan[s] |->
     IF Precomputed(s, j) THEN Compute(Plan[s][j].kind, Plan[s][j].window, market[s]) ELSE <<>>]]

\* Mutant: the values are drawn once per event, whoever is in it.
DrawnPerEvent(drawn, event) == [s \in Traded |-> drawn[s] + 1]

\* next(values), once per candle of the symbol.
Drawn(drawn, event) ==
  [s \in Traded |-> IF s \in DOMAIN event THEN drawn[s] + 1 ELSE drawn[s]]

\* _loop: the same steps, the indicators in the order of the batch, and a
\* computed value in the place of an update.
BackLoop(loop, actions) ==
  LET event == Event(loop.head)
      t == NextTime(loop.head)
      begun == Begun(loop)
      drawn == Drawn(loop.drawn, event)
      ind == [s \in Traded |-> IF s \notin DOMAIN event THEN loop.ind[s]
                ELSE [j \in DOMAIN loop.ind[s] |->
                        IF Precomputed(s, j)
                        THEN Sink(loop.ind[s][j], loop.series[s][j][drawn[s]])
                        ELSE Update(loop.ind[s][j], event[s], begun.pos[s])]]
      shown == TouchedBy(begun, Asked(event), Listed)
  IN [loop EXCEPT !.head = Advanced(loop.head), !.ind = ind, !.drawn = drawn,
                  !.acct = SubmitAll(shown, t, actions), !.view = View(ind, shown, t)]

-----------------------------------------------------------------------------
(* _drop_exposure_increase: the market orders of a late event, against the *)
(* position as the earlier ones will have left it.                         *)

SameSide(p, q) == (p > 0) = (q > 0)
\* Mutant: every order is judged by the position the decision saw.
LateStepForgets(acc, a) ==
  LET pos == acc.tracked[a.symbol]
      cut == [a EXCEPT !.qty = IF Abs(@) > Abs(pos) THEN -pos ELSE @]
  IN IF a.kind # "market" \/ a.qty = 0 THEN [acc EXCEPT !.kept = Append(@, a)]
     ELSE IF pos = 0 \/ SameSide(pos, a.qty) THEN acc
     ELSE [acc EXCEPT !.kept = Append(@, cut)]

LateStep(acc, a) ==
  LET pos == acc.tracked[a.symbol]
      cut == [a EXCEPT !.qty = IF Abs(@) > Abs(pos) THEN -pos ELSE @]
  IN IF a.kind # "market" \/ a.qty = 0 THEN [acc EXCEPT !.kept = Append(@, a)]
     ELSE IF pos = 0 \/ SameSide(pos, a.qty) THEN acc
     ELSE [kept |-> Append(acc.kept, cut),
           tracked |-> [acc.tracked EXCEPT ![a.symbol] = pos + cut.qty]]

DropExposureIncrease(actions, acct) ==
  FoldLeft(LateStep, [kept |-> <<>>, tracked |-> acct.pos], actions).kept

\* The exchange refuses some, each for itself: those move nothing.
Sent(kept, refused) ==
  [i \in DOMAIN kept |-> IF i \in refused THEN [kept[i] EXCEPT !.kind = "market", !.qty = 0]
                         ELSE kept[i]]

-----------------------------------------------------------------------------
InitLoops ==
  /\ market \in Markets
  /\ live = NewLoop
  /\ back = NewBack
  /\ acts = <<>>
  /\ phase = "new"

\* Both refuse symbols of different intervals; the backtest computes its series.
Start ==
  /\ phase = "new"
  /\ IF Cardinality(Measured) > 1
     THEN phase' = "refused" /\ UNCHANGED back
     ELSE phase' = "running" /\ back' = [back EXCEPT !.series = Series]
  /\ UNCHANGED <<market, live, acts>>

InStep == live.head = back.head

LiveEvent(actions) ==
  /\ phase = "running"
  /\ InStep
  /\ Waiting(live.head) # {}
  /\ acts' = actions
  /\ live' = LiveLoop(live, actions)
  /\ UNCHANGED <<market, back, phase>>

BacktestEvent ==
  /\ phase = "running"
  /\ ~InStep
  /\ back' = BackLoop(back, acts)
  /\ UNCHANGED <<market, live, acts, phase>>

(***************************************************************************)
(* process_event with late = TRUE, on a live executor: of the actions that *)
(* are kept the exchange refuses some, each for itself.  The model follows *)
(* the loops no further.                                                   *)
(***************************************************************************)
LateEvent(actions, refused) ==
  LET kept == DropExposureIncrease(actions, Begun(live)) IN
  /\ phase = "running"
  /\ InStep
  /\ Waiting(live.head) # {}
  /\ refused \subseteq DOMAIN kept
  /\ acts' = Sent(kept, refused)
  /\ live' = LiveLoop(live, acts')
  /\ phase' = "late"
  /\ UNCHANGED <<market, back>>

NextLoops ==
  \/ Start
  \/ \E actions \in ActionLists : LiveEvent(actions)
  \/ BacktestEvent
  \/ \E actions \in LateLists : \E refused \in SUBSET (DOMAIN actions) :
       LateEvent(actions, refused)

SpecLoops == InitLoops /\ [][NextLoops]_loopVars

-----------------------------------------------------------------------------
(***************************************************************************)
(* The docstring of BacktestEngine, and what the checks of the repository  *)
(* compare on five strategies: on the same candles both loops show the     *)
(* strategy the same indicator values at every depth, down to the reads    *)
(* that raise, the same account and the same equity, and both fill the     *)
(* same orders at the same prices.  They feed the indicators in different  *)
(* orders, one of them from series computed in advance.                    *)
(***************************************************************************)
BacktestIsLive ==
  InStep => /\ back.view = live.view
            /\ back.acct.trades = live.acct.trades

(***************************************************************************)
(* A late decision may close a position or shrink it, and neither turn it  *)
(* nor add to it, whatever the exchange refuses of the orders it kept: the *)
(* filter of process_event counts on orders that may never be filled.      *)
(***************************************************************************)
Between(x, y) == (0 <= x /\ x <= y) \/ (y <= x /\ x <= 0)
LateNeverGrows ==
  [][phase = "running" /\ phase' = "late" =>
       \A s \in Names : Between(live'.acct.pos[s], Begun(live).pos[s])]_loopVars

-----------------------------------------------------------------------------
(* What an indicator means, over all the candles of its symbol so far.     *)

Past(s) == SubSeq(market[s], 1, live.head[s] - 1)
LastOf(xs, n) == SubSeq(xs, Len(xs) - n + 1, Len(xs))

\* The highs that k candles on either side stand below, the later side not strictly.
Pivots(xs, k) ==
  {m \in k + 1..Len(xs) - k : /\ \A j \in 1..k : xs[m] > xs[m - j]
                             /\ \A j \in 1..k : xs[m] >= xs[m + j]}
LineThrough(xs, k) ==
  LET later == Max(Pivots(xs, k))
      earlier == Max(Pivots(xs, k) \ {later})
      run == later - earlier
  IN <<xs[later] * run + (xs[later] - xs[earlier]) * (Len(xs) - later), run>>

TakerOf(candles) ==
  LET volume == SumOf([i \in DOMAIN candles |-> candles[i].volume]) IN
  IF volume <= 0 \/ \E i \in DOMAIN candles : candles[i].taker = None THEN None
  ELSE <<2 * SumOf([i \in DOMAIN candles |-> candles[i].taker]) - volume, volume>>

Meaning(kind, w, candles) ==
  LET xs == IF kind \in {"taker", "adx"} THEN <<>> ELSE Inputs(kind, candles) IN
  IF kind = "pivot" THEN (IF Cardinality(Pivots(xs, w)) < 2 THEN None ELSE LineThrough(xs, w))
  ELSE IF kind = "adx" THEN (IF Len(candles) < 2 * w THEN None ELSE Len(candles))
  ELSE IF Len(candles) < w THEN None
  ELSE CASE kind = "taker" -> TakerOf(LastOf(candles, w))
         [] kind \in Rolling -> SumOf(LastOf(xs, w))
         [] kind \in Spread -> Variance(LastOf(xs, w))
         [] kind = "max" -> Largest(LastOf(xs, w))
         [] kind = "min" -> Smallest(LastOf(xs, w))

(***************************************************************************)
(* Candle by candle an indicator keeps a running sum, a monotonic deque, a *)
(* count of missing fields or the last two pivots; what it returns is what *)
(* the same window, or the whole past of its symbol, comes to when it is   *)
(* looked at afresh, with nothing of the future in it.                     *)
(***************************************************************************)
ReadsMatchMeaning ==
  \A s \in Traded : \A j \in DOMAIN Plan[s] :
    Plan[s][j].kind \notin {"age", "supertrend"} =>
      Read(live.ind[s][j], -1) = Meaning(Plan[s][j].kind, Plan[s][j].window, Past(s))

(***************************************************************************)
(* TradingEngine.warmup feeds only the largest window of candles.  From    *)
(* the first live candle on, the latest value of an indicator over a       *)
(* window is the one a run over the whole past has: the first range of an  *)
(* ATR, which has no close before it, is out of the window by then.        *)
(***************************************************************************)
WarmupSuffices ==
  \A s \in Traded : \A j \in DOMAIN Plan[s] :
    LET w == Plan[s][j].window IN
    (Plan[s][j].kind \in Vectorizable \cup {"taker"} /\ Len(Past(s)) > w) =>
      Read(FoldLeft(LAMBDA ind, c : Update(ind, c, None), Fresh(Plan[s][j]),
                    LastOf(Past(s), w + 1)), -1)
        = Read(live.ind[s][j], -1)

(***************************************************************************)
(* TradingEngine.warmup asks for as many candles as the largest window and *)
(* rather fails than trades on indicators that are not warm: a symbol with *)
(* that many candles behind it has a value for every indicator.            *)
(***************************************************************************)
WindowWarms ==
  \A s \in Traded : \A j \in DOMAIN Plan[s] :
    Len(Past(s)) >= Plan[s][j].window => Read(live.ind[s][j], -1) # None

(***************************************************************************)
(* merge_by_end_time promises that candles with holes are no problem; a    *)
(* run is refused only when its symbols have different intervals.          *)
(***************************************************************************)
OnlyIntervalsRefused ==
  phase = "refused" =>
    \E s, r \in Names : \E i \in DOMAIN market[s], k \in DOMAIN market[r] :
      market[s][i].end - market[s][i].start # market[r][k].end - market[r][k].start

=============================================================================

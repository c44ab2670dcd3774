----------------------------- MODULE SimExecutor ----------------------------
(***************************************************************************)
(* The executor of a backtest or a dry run: core/executor/simulated.py,    *)
(* SimulatedExecutor, with the account of core/account/status.py it owns   *)
(* and the restart of a dry run (core/trader/trader.py).                   *)
(*                                                                         *)
(* An event brings candles.  Symbol by symbol the executor matches the     *)
(* resting orders against the candle and lets them age, then it marks the  *)
(* open positions to the last closes and liquidates an account without     *)
(* equity.  The strategy then submits actions.  Every fill ends in         *)
(* on_trade, the recorder, which writes to disk and may raise: the rest of *)
(* the event is then skipped and the engine goes on with the next one.     *)
(*                                                                         *)
(* Money.  With fills at integer prices the code's margin and unrealised   *)
(* profits are kept as cash, which each fill changes by what it costs, and *)
(* mark, the price a position was last marked to:                          *)
(* total_margin = cash + sum of position * mark (see FillAccounting).      *)
(***************************************************************************)
EXTENDS OrderBook, FiniteSetsExt

CONSTANTS
  NoSymbol,
  Candles,        \* the candles an event may bring: [open, high, low, close]
  Actions,        \* the actions a strategy may return
  InitMargin,
  FeePercent,     \* fee_ratio
  TradesMayFail,  \* on_trade may raise
  MaxEvents, MaxActions, MaxRestarts   \* bounds on the behaviours

ASSUME ExecutorAssumption ==
  /\ NoSymbol \notin Symbols
  /\ Candles \subseteq [open : Nat, high : Nat, low : Nat, close : Nat]
  /\ Actions \subseteq
       [kind : {"market", "rest", "cancel"}, symbol : Symbols, qty : Int,
        type : {"limit", "stop"}, level : Nat, above : BOOLEAN,
        reduceOnly : BOOLEAN, id : STRING, expire : {GTC} \cup (Nat \ {0})]
  /\ NoId \in STRING
  /\ InitMargin \in Int /\ FeePercent \in Nat
  /\ TradesMayFail \in BOOLEAN
  /\ MaxEvents \in Nat /\ MaxActions \in Nat /\ MaxRestarts \in Nat

Unknown == -1     \* the symbol is not a key of last_close

VARIABLES
  position, mark, cash,   \* the account
  book,                   \* status.open_orders
  last,                   \* last_close
  seq,                    \* _order_seq
  bankrupt,               \* _bankrupt
  phase,                  \* where the event is
  candles,                \* the event's candles still to be taken up
  current,                \* the symbol being matched
  queue,                  \* its triggered orders still to be filled
  flatten,                \* the symbols still to be liquidated
  seen,                   \* history: how many candles of a symbol began
  acted, events, restarts \* history: how many actions, events, restarts

account == <<position, mark, cash>>
executor == <<last, seq, bankrupt>>
control == <<candles, current, queue, flatten>>
counters == <<seen, acted, events, restarts>>
vars == <<position, mark, cash, book, last, seq, bankrupt, phase, candles,
          current, queue, flatten, seen, acted, events, restarts>>

NoCandles == [s \in {} |-> Unknown]

Init ==
  /\ position = [s \in Symbols |-> 0]
  /\ mark = [s \in Symbols |-> 0]
  /\ cash = InitMargin
  /\ book = [s \in Symbols |-> {}]
  /\ last = [s \in Symbols |-> Unknown]
  /\ seq = 0
  /\ bankrupt = FALSE
  /\ phase = "idle"
  /\ candles = NoCandles
  /\ current = NoSymbol
  /\ queue = {}
  /\ flatten = {}
  /\ seen = [s \in Symbols |-> 0]
  /\ acted = 0
  /\ events = 0
  /\ restarts = 0

\* total_margin, with the positions marked to the prices in marks.
Total(worth) == MapThenSumSet(LAMBDA s : worth[s], Symbols)
EquityAt(positions, marks) ==
  cash + Total([s \in Symbols |-> positions[s] * marks[s]])

Fee(q, price) == (Size(q) * price * FeePercent) \div 100

\* _fill and apply_fill.
Fill(s, q, price) ==
  /\ position' = [position EXCEPT ![s] = @ + q]
  /\ mark' = [mark EXCEPT ![s] = IF position[s] + q = 0 THEN 0 ELSE price]
  /\ cash' = cash - q * price - Fee(q, price)

\* The next statement, or on_trade raised and the event is over.
Proceed(raised) ==
  /\ raised => TradesMayFail
  /\ IF raised
     THEN /\ phase' = "idle"
          /\ candles' = NoCandles
          /\ current' = NoSymbol
          /\ queue' = {}
          /\ flatten' = {}
     ELSE UNCHANGED <<phase, candles, current>>

-----------------------------------------------------------------------------
(* begin_event.                                                            *)

BeginEvent(cs) ==
  /\ phase = "idle"
  /\ events < MaxEvents
  /\ DOMAIN cs # {}
  /\ phase' = "matching"
  /\ candles' = cs
  /\ seen' = [s \in Symbols |-> IF s \in DOMAIN cs THEN seen[s] + 1 ELSE seen[s]]
  /\ events' = events + 1
  /\ UNCHANGED <<account, book, executor, current, queue, flatten, acted, restarts>>

\* The next symbol of the event: its close, and a snapshot of what it triggers.
TakeCandle(s) ==
  /\ phase = "matching"
  /\ current = NoSymbol
  /\ s \in DOMAIN candles
  /\ last' = [last EXCEPT ![s] = candles[s].close]
  /\ current' = s
  /\ queue' = {o \in book[s] : Triggered(o, candles[s])}
  /\ UNCHANGED <<account, book, seq, bankrupt, phase, candles, flatten, counters>>

\* The first triggered order leaves the book and fills against the position it finds.
Match(o, raised) ==
  LET q == FillQty(o, position[current]) IN
  /\ phase = "matching"
  /\ o \in queue
  /\ \A p \in queue \ {o} : Earlier(o, p)
  /\ book' = [book EXCEPT ![current] = @ \ {o}]
  /\ Proceed(raised)
  /\ IF q = 0
     THEN ~raised /\ UNCHANGED account
     ELSE Fill(current, q, FillPrice(o, candles[current]))
  /\ ~raised => queue' = queue \ {o} /\ UNCHANGED flatten
  /\ UNCHANGED <<executor, counters>>

\* tick_expiry, after the matching.
Expire ==
  /\ phase = "matching"
  /\ current # NoSymbol
  /\ queue = {}
  /\ book' = [book EXCEPT ![current] = Ticked(@)]
  /\ candles' = [s \in DOMAIN candles \ {current} |-> candles[s]]
  /\ current' = NoSymbol
  /\ UNCHANGED <<account, executor, phase, queue, flatten, counters>>

Open(s) == position[s] # 0

\* Mutant: the verdict is passed on the marks the fills left.
MarkedByFills == mark

\* Every open position whose close is known, of this event or not.
Marked == [s \in Symbols |-> IF Open(s) /\ last[s] # Unknown THEN last[s] ELSE mark[s]]

\* Mutant: the book outlives the account.
LiquidateKeepsBook ==
  /\ bankrupt' = TRUE
  /\ UNCHANGED book
  /\ phase' = "liquidating"
  /\ flatten' = {s \in Symbols : Open(s) /\ last[s] # Unknown}

\* _liquidate up to its first fill.
StartLiquidation ==
  /\ bankrupt' = TRUE
  /\ book' = [s \in Symbols |-> {}]
  /\ phase' = "liquidating"
  /\ flatten' = {s \in Symbols : Open(s) /\ last[s] # Unknown}

\* The second loop, and the verdict.
MarkToMarket ==
  /\ phase = "matching"
  /\ current = NoSymbol
  /\ DOMAIN candles = {}
  /\ mark' = Marked
  /\ IF ~bankrupt /\ EquityAt(position, Marked) <= 0
     THEN StartLiquidation
     ELSE phase' = "deciding" /\ UNCHANGED <<bankrupt, book, flatten>>
  /\ UNCHANGED <<position, cash, last, seq, candles, current, queue, counters>>

Liquidate(s, raised) ==
  /\ phase = "liquidating"
  /\ s \in flatten
  /\ Fill(s, -position[s], last[s])
  /\ Proceed(raised)
  /\ ~raised => flatten' = flatten \ {s} /\ UNCHANGED queue
  /\ UNCHANGED <<book, executor, counters>>

EndLiquidation ==
  /\ phase = "liquidating"
  /\ flatten = {}
  /\ phase' = "deciding"
  /\ UNCHANGED <<account, book, executor, control, counters>>

-----------------------------------------------------------------------------
(* submit, once per action the strategy returned.                          *)

\* Mutant: a dead account goes on trading.
EvenDead == acted < MaxActions /\ phase = "deciding"

MayAct == acted < MaxActions /\ phase = "deciding" /\ ~bankrupt

Cancel(a) ==
  /\ MayAct
  /\ a.kind = "cancel"
  /\ book' = [book EXCEPT ![a.symbol] = @ \ Cancelled(@, a.id)]
  /\ acted' = acted + 1
  /\ UNCHANGED <<account, executor, phase, control, seen, events, restarts>>

\* The number is used up even when the book refuses the order.
Rest(a) ==
  /\ MayAct
  /\ a.kind = "rest"
  /\ ~BreaksRules(a, position[a.symbol], a.level)
  /\ seq' = seq + 1
  /\ book' = IF Registers(book[a.symbol], a)
             THEN [book EXCEPT ![a.symbol] =
                     @ \cup {OrderOf(a, seq + 1, acted + 1, seen[a.symbol])}]
             ELSE book
  /\ acted' = acted + 1
  /\ UNCHANGED <<account, last, bankrupt, phase, control, seen, events, restarts>>

\* At the last close of the action's own symbol; without one the action is skipped.
Market(a, raised) ==
  /\ MayAct
  /\ a.kind = "market"
  /\ a.qty # 0
  /\ last[a.symbol] # Unknown
  /\ ~BreaksRules(a, position[a.symbol], last[a.symbol])
  /\ Fill(a.symbol, a.qty, Slipped(last[a.symbol], a.qty))
  /\ Proceed(raised)
  /\ ~raised => UNCHANGED <<queue, flatten>>
  /\ acted' = acted + 1
  /\ UNCHANGED <<book, executor, seen, events, restarts>>

\* No action left, or something raised before the next one.
EndEvent ==
  /\ phase = "deciding"
  /\ phase' = "idle"
  /\ UNCHANGED <<account, book, executor, control, counters>>

(***************************************************************************)
(* A dry run is stopped between two events and started again: the recorder *)
(* restores the account with its open orders, the executor's own fields    *)
(* start afresh.                                                           *)
(***************************************************************************)
Restart ==
  /\ phase = "idle"
  /\ restarts < MaxRestarts
  /\ restarts' = restarts + 1
  /\ seq' = 0
  /\ bankrupt' = FALSE
  /\ last' = [s \in Symbols |-> Unknown]
  /\ UNCHANGED <<account, book, phase, control, seen, acted, events>>

-----------------------------------------------------------------------------
EventsOf(S) == [S -> Candles]

Submit(a) ==
  \/ Cancel(a)
  \/ Rest(a)
  \/ \E raised \in BOOLEAN : Market(a, raised)

Next ==
  \/ phase = "idle" /\ \E S \in SUBSET Symbols : \E cs \in EventsOf(S) : BeginEvent(cs)
  \/ \E s \in Symbols : TakeCandle(s)
  \/ \E o \in queue, raised \in BOOLEAN : Match(o, raised)
  \/ Expire
  \/ MarkToMarket
  \/ \E s \in Symbols, raised \in BOOLEAN : Liquidate(s, raised)
  \/ EndLiquidation
  \/ phase = "deciding" /\ \E a \in Actions : Submit(a)
  \/ EndEvent
  \/ Restart

Spec == Init /\ [][Next]_vars

-----------------------------------------------------------------------------
(* Properties.                                                             *)

Orders ==
  [qty : Int, type : {"limit", "stop"}, level : Nat, above : BOOLEAN,
   reduceOnly : BOOLEAN, id : STRING, left : Int, life : Int,
   seq : Nat, born : Nat, since : Nat]

(***************************************************************************)
(* Types, and what the control variables of an event say of each other.    *)
(***************************************************************************)
TypeOK ==
  /\ position \in [Symbols -> Int]
  /\ mark \in [Symbols -> Int]
  /\ cash \in Int
  /\ book \in [Symbols -> SUBSET Orders]
  /\ last \in [Symbols -> Nat \cup {Unknown}]
  /\ seq \in Nat
  /\ bankrupt \in BOOLEAN
  /\ phase \in {"idle", "matching", "liquidating", "deciding"}
  /\ DOMAIN candles \subseteq Symbols
  /\ \A s \in DOMAIN candles : candles[s] \in Candles
  /\ phase # "matching" => DOMAIN candles = {}
  /\ current \in DOMAIN candles \cup {NoSymbol}
  /\ IF current = NoSymbol THEN queue = {} ELSE queue \subseteq book[current]
  /\ flatten \in SUBSET Symbols
  /\ seen \in [Symbols -> Nat]
  /\ acted \in Nat /\ events \in Nat /\ restarts \in Nat

(***************************************************************************)
(* However orders are registered, cancelled, filled and restored, two      *)
(* resting orders of a symbol never answer to the same client id, so that  *)
(* a cancel reaches one order, and the book stays within its limit.        *)
(***************************************************************************)
BookSound ==
  \A s \in Symbols :
    /\ Cardinality(book[s]) <= MaxOpenOrders
    /\ \A o, p \in book[s] : o.id = p.id /\ o.id # NoId => o = p

(***************************************************************************)
(* An order with a life of N candles rests through exactly N candles of    *)
(* its symbol: when a candle is done with, the orders still in the book    *)
(* are those whose Nth it was not yet, and no order leaves the book        *)
(* otherwise than by being triggered, cancelled or liquidated.  So it gets *)
(* neither a chance too many nor one too few, over fills of its neighbours *)
(* and events that bring no candle of its symbol (tick_expiry).            *)
(***************************************************************************)
ExpiryExact ==
  [][\A s \in Symbols : \A o \in book[s] :
       LET lived == seen[s] - o.since
           rests == \E p \in book'[s] : p.born = o.born
       IN IF s \in DOMAIN candles \ DOMAIN candles'
          THEN rests <=> o.life = GTC \/ lived < o.life
          ELSE rests \/ o \in queue \/ acted' # acted \/ bankrupt' # bankrupt]_vars

(***************************************************************************)
(* A reduce-only order that leaves the book, whatever filled before it on  *)
(* the same candle, leaves the position no larger and on the same side.    *)
(***************************************************************************)
Shrinks(p, q) == Size(q) <= Size(p) /\ (q # 0 => SameSide(p, q))
ReduceOnlyShrinks ==
  [][\A s \in Symbols : \A o \in book[s] :
       o.reduceOnly /\ o \notin book'[s] /\ position'[s] # position[s] =>
         Shrinks(position[s], position'[s])]_vars

(***************************************************************************)
(* Of the orders that one candle fills, stops go before limits, and of     *)
(* either kind the order that was submitted first goes first.              *)
(***************************************************************************)
FillsInSubmissionOrder ==
  [][\A o \in queue : \A p \in queue' :
       o \notin queue' =>
         \/ o.type = "stop" /\ p.type = "limit"
         \/ o.type = p.type /\ o.born < p.born]_vars

(***************************************************************************)
(* Once liquidated, an account is dead while the process lives: no order   *)
(* rests, and a position changes only by being closed.                     *)
(***************************************************************************)
DeadStaysDead ==
  [][bankrupt => \A s \in Symbols : /\ book'[s] = {}
                                    /\ position'[s] \in {position[s], 0}]_vars

(***************************************************************************)
(* What the liquidation promises: a bankrupt account is flat in every      *)
(* symbol, its book empty, by the time the strategy sees it, and stays so. *)
(***************************************************************************)
BankruptIsFlat ==
  bankrupt /\ phase \in {"deciding", "idle"} =>
    \A s \in Symbols : ~Open(s) /\ book[s] = {}

(***************************************************************************)
(* The strategy of a live account is only asked when the equity at the     *)
(* last closes is positive, with whatever the fills of this event, the     *)
(* slippage of earlier market orders and symbols without a candle did.     *)
(***************************************************************************)
DecidesSolvent ==
  [][/\ phase # "deciding" /\ phase' = "deciding" /\ ~bankrupt'
     /\ \A s \in Symbols : Open(s) => last[s] # Unknown
     => ~(EquityAt(position, [s \in Symbols |-> last[s]]) <= 0)]_vars

=============================================================================

------------------------------ MODULE OrderBook -----------------------------
(***************************************************************************)
(* The rules of the simulated order book: core/order/order_book.py, and    *)
(* the checks of core/order/symbol_rules.py that refuse an order.          *)
(*                                                                         *)
(* A book is the set of the resting orders of one symbol.  The code keeps  *)
(* a list, and the sort is stable: the field born, the number of the       *)
(* submission, stands for the place in the list.  Prices and quantities    *)
(* are integers, on the exchange's grid, and a ratio is a percentage.      *)
(***************************************************************************)
EXTENDS Integers, FiniteSets

CONSTANTS
  Symbols,
  NoId,           \* client_id = None
  MaxOpenOrders,  \* MAX_OPEN_ORDERS_PER_SYMBOL
  SlipPercent,    \* slippage_ratio
  MinNotional     \* SymbolRules.min_notional; the minimal quantity is 1

ASSUME BookAssumption ==
  MaxOpenOrders \in Nat /\ SlipPercent \in Nat /\ MinNotional \in Nat

GTC == -1         \* expire_after_candles = None

Size(q) == IF q < 0 THEN -q ELSE q
SameSide(p, q) == (p > 0 /\ q > 0) \/ (p < 0 /\ q < 0)

(***************************************************************************)
(* A sell limit and a stop with trigger_above wait for the price to rise   *)
(* to their level, the other two for it to fall.  A candle that opens      *)
(* beyond the level fills at the open.                                     *)
(***************************************************************************)
WaitsForRise(o) == IF o.type = "limit" THEN o.qty < 0 ELSE o.above
Triggered(o, candle) ==
  IF WaitsForRise(o) THEN candle.high >= o.level ELSE candle.low <= o.level
RawPrice(o, candle) ==
  IF (candle.open >= o.level) = WaitsForRise(o) THEN candle.open ELSE o.level

\* slip_price: against the order.
Slipped(price, q) ==
  (price * (IF q > 0 THEN 100 + SlipPercent ELSE 100 - SlipPercent)) \div 100
FillPrice(o, candle) ==
  IF o.type = "stop" THEN Slipped(RawPrice(o, candle), o.qty) ELSE RawPrice(o, candle)

\* Mutant: one queue by submission, limits and stops alike.
EarlierBySeq(o, p) == o.seq < p.seq \/ (o.seq = p.seq /\ o.born < p.born)

\* _sort_key: stops before limits, then seq, then the place in the list.
Earlier(o, p) ==
  IF o.type # p.type THEN o.type = "stop"
  ELSE o.seq < p.seq \/ (o.seq = p.seq /\ o.born < p.born)

\* Mutant: an order is cut to the position, but may add to it.
CutToSize(o, position) ==
  IF o.reduceOnly /\ Size(o.qty) > Size(position) THEN -position ELSE o.qty

\* What a triggered order fills, given the position it finds; 0: it just leaves.
FillQty(o, position) ==
  IF ~o.reduceOnly THEN o.qty
  ELSE IF position = 0 \/ SameSide(position, o.qty) THEN 0
  ELSE IF Size(o.qty) > Size(position) THEN -position
  ELSE o.qty

\* Mutant: an id is only compared with the ids of like orders.
RegistersLike(book, a) ==
  /\ a.id = NoId \/ \A o \in book : o.id # a.id \/ o.type # a.type
  /\ Cardinality(book) < MaxOpenOrders

\* register_order accepts the order.
Registers(book, a) ==
  /\ a.id = NoId \/ \A o \in book : o.id # a.id
  /\ Cardinality(book) < MaxOpenOrders
OrderOf(a, seq, born, since) ==
  [qty |-> a.qty, type |-> a.type, level |-> a.level, above |-> a.above,
   reduceOnly |-> a.reduceOnly, id |-> a.id, left |-> a.expire, life |-> a.expire,
   seq |-> seq, born |-> born, since |-> since]

\* cancel_orders: one client_id, or the whole book.
Cancelled(book, id) == IF id = NoId THEN book ELSE {o \in book : o.id = id}

Tick(o) == [o EXCEPT !.left = IF @ = GTC THEN GTC ELSE @ - 1]

\* Mutant: the order expires one candle late.
TickedLate(book) == {Tick(o) : o \in {p \in book : p.left # 0}}

\* tick_expiry: one candle less to live, and out with those that have none left.
Ticked(book) == {Tick(o) : o \in {p \in book : p.left = GTC \/ p.left > 1}}

\* is_pure_reduction, and SymbolRules.check for quantities and prices on the grid.
PureReduction(q, position) ==
  position # 0 /\ ~SameSide(position, q) /\ Size(q) <= Size(position)
BreaksRules(a, position, price) ==
  \/ Size(a.qty) < 1
  \/ /\ ~a.reduceOnly
     /\ ~PureReduction(a.qty, position)
     /\ Size(a.qty) * price < MinNotional

=============================================================================

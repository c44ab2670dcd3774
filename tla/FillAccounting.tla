--------------------------- MODULE FillAccounting ---------------------------
(***************************************************************************)
(* The accounting of a simulated fill: apply_fill of                       *)
(* core/executor/simulated.py on the account of core/account/status.py.    *)
(*                                                                         *)
(* A position carries its average price and its unrealised profit; margin  *)
(* is one pool for all symbols.  Fills come at any price, between marks to *)
(* the close of any subset of the symbols.  Prices are integers fine       *)
(* enough for the averages: a fill whose average would fall between two    *)
(* of them is left out (OnGrid), so that no rounding blurs the sums.       *)
(***************************************************************************)
EXTENDS Integers, FiniteSetsExt

CONSTANTS
  Symbols,
  Prices, Quantities,  \* bounds on the inputs
  InitMargin,
  FeePercent,          \* fee_ratio
  MaxPosition,         \* bound on the size of a position
  MaxFills             \* bound on the behaviours

ASSUME AccountAssumption ==
  /\ IsFiniteSet(Symbols)
  /\ Prices \subseteq Nat \ {0}
  /\ Quantities \subseteq Int \ {0}
  /\ InitMargin \in Int /\ FeePercent \in Nat
  /\ MaxPosition \in Nat /\ MaxFills \in Nat

VARIABLES
  position, avg, unrealised,  \* PositionState of each symbol
  margin,
  paid,    \* history: what the fills of a symbol cost, price times quantity
  wnl,     \* history: what the trades of a symbol reported as realised
  fees,    \* history: the fees the trades reported
  price,   \* history: what a symbol was last marked to
  fills    \* history: how many fills
vars == <<position, avg, unrealised, margin, paid, wnl, fees, price, fills>>

Size(q) == IF q < 0 THEN -q ELSE q
SameSide(p, q) == (p > 0 /\ q > 0) \/ (p < 0 /\ q < 0)

Init ==
  /\ position = [s \in Symbols |-> 0]
  /\ avg = [s \in Symbols |-> 0]
  /\ unrealised = [s \in Symbols |-> 0]
  /\ margin = InitMargin
  /\ paid = [s \in Symbols |-> 0]
  /\ wnl = [s \in Symbols |-> 0]
  /\ fees = 0
  /\ price = [s \in Symbols |-> 0]
  /\ fills = 0

\* Mutant: profits are realised as of the last mark, not of the fill.
StaleProfit(s, p) == unrealised[s]

\* update_unrealised_pnl, which a fill calls first.
Profit(s, p) == position[s] * (p - avg[s])

\* The quotient of a division that leaves no remainder.
Quotient(n, d) == IF d > 0 THEN n \div d ELSE (-n) \div (-d)

\* The average of what is held and what is added.
Cost(s, q, p) == Size(avg[s] * position[s]) + Size(p * q)
OnGrid(s, q, p) ==
  SameSide(position[s], q) => Cost(s, q, p) % Size(position[s] + q) = 0
Average(s, q, p) == Cost(s, q, p) \div Size(position[s] + q)

\* Book the outcome of a fill: the position, its average and profit, and what is realised.
Settle(s, q, p, average, profit, realised) ==
  LET fee == (p * Size(q) * FeePercent) \div 100 IN
  /\ position' = [position EXCEPT ![s] = @ + q]
  /\ avg' = [avg EXCEPT ![s] = IF position[s] + q = 0 THEN 0 ELSE average]
  /\ unrealised' = [unrealised EXCEPT ![s] = profit]
  /\ margin' = margin + realised - fee
  /\ paid' = [paid EXCEPT ![s] = @ + q * p]
  /\ wnl' = [wnl EXCEPT ![s] = @ + realised]
  /\ fees' = fees + fee
  /\ price' = [price EXCEPT ![s] = p]
  /\ fills' = fills + 1

Opens(s, q, p) ==
  /\ position[s] = 0
  /\ Settle(s, q, p, p, Profit(s, p), 0)

\* Mutant: a position that grows keeps its average.
AddsAtOldAverage(s, q, p) ==
  /\ SameSide(position[s], q)
  /\ Settle(s, q, p, avg[s], Profit(s, p), 0)

Adds(s, q, p) ==
  /\ SameSide(position[s], q)
  /\ Settle(s, q, p, Average(s, q, p), Profit(s, p), 0)

\* Mutant: what is left after a reversal keeps the average of what was closed.
FlipsAtOldAverage(s, q, p) ==
  /\ SameSide(position[s], -q)
  /\ Size(q) > Size(position[s])
  /\ Settle(s, q, p, avg[s], 0, Profit(s, p))

\* More than is held: everything is realised, the rest opens the other side.
Flips(s, q, p) ==
  /\ SameSide(position[s], -q)
  /\ Size(q) > Size(position[s])
  /\ Settle(s, q, p, p, 0, Profit(s, p))

\* A part, or all, of what is held: its share of the profit is realised.
Closes(s, q, p) ==
  LET realised == Quotient(Profit(s, p) * (-q), position[s]) IN
  /\ SameSide(position[s], -q)
  /\ Size(q) <= Size(position[s])
  /\ Settle(s, q, p, avg[s], Profit(s, p) - realised, realised)

Fill(s, q, p) ==
  /\ fills < MaxFills
  /\ Size(position[s] + q) <= MaxPosition
  /\ OnGrid(s, q, p)
  /\ \/ Opens(s, q, p)
     \/ Adds(s, q, p)
     \/ Flips(s, q, p)
     \/ Closes(s, q, p)

\* The marking loop of begin_event, for one symbol.
Mark(s, p) ==
  /\ position[s] # 0
  /\ unrealised' = [unrealised EXCEPT ![s] = Profit(s, p)]
  /\ price' = [price EXCEPT ![s] = p]
  /\ UNCHANGED <<position, avg, margin, paid, wnl, fees, fills>>

Next == \E s \in Symbols, p \in Prices :
          \/ \E q \in Quantities : Fill(s, q, p)
          \/ Mark(s, p)

Spec == Init /\ [][Next]_vars

-----------------------------------------------------------------------------
(* Properties.                                                             *)

TypeOK ==
  /\ position \in [Symbols -> Int]
  /\ avg \in [Symbols -> Nat]
  /\ unrealised \in [Symbols -> Int]
  /\ margin \in Int
  /\ paid \in [Symbols -> Int]
  /\ wnl \in [Symbols -> Int]
  /\ fees \in Int
  /\ price \in [Symbols -> Int]
  /\ fills \in Nat

(***************************************************************************)
(* What a symbol's trades report as won or lost is the cash they moved:    *)
(* over any sequence of openings, additions, partial closes and reversals, *)
(* the profits reported are the proceeds less the costs, plus the cost of  *)
(* what is still held.  Nothing is realised twice or forgotten.            *)
(***************************************************************************)
ReportedIsCashFlow ==
  \A s \in Symbols : wnl[s] = avg[s] * position[s] - paid[s]

(***************************************************************************)
(* The open profit of a symbol is that of its position at the price it was *)
(* last marked to or filled at, and a flat symbol carries neither profit   *)
(* nor average.                                                            *)
(***************************************************************************)
MarkedToPrice ==
  \A s \in Symbols : /\ unrealised[s] = position[s] * (price[s] - avg[s])
                     /\ position[s] = 0 => avg[s] = 0

(***************************************************************************)
(* The account adds up: margin and open profits are the initial margin,    *)
(* less the fees and the cash the fills cost, plus the worth of what is    *)
(* held.  SimExecutor keeps its money in this form.                        *)
(***************************************************************************)
TotalMargin == margin + MapThenSumSet(LAMBDA s : unrealised[s], Symbols)
AccountAddsUp ==
  TotalMargin = InitMargin - fees
                + MapThenSumSet(LAMBDA s : position[s] * price[s] - paid[s], Symbols)

=============================================================================

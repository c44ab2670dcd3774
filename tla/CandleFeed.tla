----------------------------- MODULE CandleFeed -----------------------------
(***************************************************************************)
(* What the continuity handling of the live engine promises, without its   *)
(* mechanism.  Every symbol has one cursor.  A candle is consumed at most  *)
(* once, in the order of its start time; once a cursor is set it moves by  *)
(* exactly one interval when the run has a history to back-fill from, and  *)
(* only forwards otherwise.  A consumed candle reached the indicators      *)
(* ("used") or its processing raised an exception first.                   *)
(*                                                                         *)
(* This is the specification TradingEngine implements: its events, skips,  *)
(* fetches and replays are invisible here, only the consumption shows.     *)
(***************************************************************************)
EXTENDS Integers

CONSTANTS Symbols, Interval, MaxStart, HasHistory

VARIABLES cursor, \* the start of the last candle consumed of each symbol
          used    \* the <<symbol, start>> pairs the indicators have seen

vars == <<cursor, used>>

Starts == 0..MaxStart
None == -1

\* The candle that starts at c may be consumed next for a symbol.
MayFollow(s, c) ==
  /\ cursor[s] < c
  /\ (HasHistory /\ cursor[s] # None) => c = cursor[s] + Interval

Init ==
  /\ cursor = [s \in Symbols |-> None]
  /\ used = {}

(***************************************************************************)
(* Indicators are fed a stretch of history before the stream starts: the   *)
(* candles of a symbol that were fed end at its cursor and leave no hole.  *)
(***************************************************************************)
Prefeed ==
  /\ used = {}
  /\ cursor = [s \in Symbols |-> None]
  /\ cursor' \in [Symbols -> Starts \cup {None}]
  /\ used' \in SUBSET (Symbols \X Starts)
  /\ \A s \in Symbols, c \in Starts : <<s, c>> \in used' =>
       /\ c <= cursor'[s]
       /\ c < cursor'[s] => <<s, c + Interval>> \in used'

\* One event consumes the candles with start c of a set of symbols.
Consume(ss, c) ==
  /\ \A s \in ss : MayFollow(s, c)
  /\ cursor' = [s \in Symbols |-> IF s \in ss THEN c ELSE cursor[s]]
  /\ used \subseteq used'
  /\ used' \subseteq used \cup (ss \X {c})

Next ==
  \/ Prefeed
  \/ \E ss \in SUBSET Symbols, c \in Starts : Consume(ss, c)

Spec == Init /\ [][Next]_vars

=============================================================================

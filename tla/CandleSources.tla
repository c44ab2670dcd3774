--------------------------- MODULE CandleSources ---------------------------
(***************************************************************************)
(* What the candle fetchers of core/fetcher/ can be given by their source, *)
(* as a function of the time they ask at: Binance's REST interface         *)
(* (rest_fetcher.py), its published dump files with REST for what they     *)
(* lack (vision_fetcher.py), and US stocks (massive_fetcher.py), which are *)
(* known session by session, have no candle where nothing traded, and      *)
(* change backwards when a stock splits.                                   *)
(*                                                                         *)
(* A candle is its slot; slot k lasts from 2k to 2k+2, so that at an odd   *)
(* time one candle is in progress.  Days and months are runs of slots.  A  *)
(* trading session is a run of slots too, of any length: it may run into   *)
(* the next day (the post-market closes at 01:00 UTC in winter), be short  *)
(* (an early close), and a day may have none (a holiday).                  *)
(***************************************************************************)
EXTENDS Integers, Sequences, FiniteSets, FiniteSetsExt

CONSTANTS
  Months,        \* bound: months of history
  DaysPerMonth,
  SlotsPerDay,
  Sources,       \* the fetchers an instance considers
  Listings,      \* first slots the symbol may have been traded in
  LateDays,      \* the days, and the months, whose file may appear late
  LateMonths,
  Opens,         \* the first slots of the trading sessions
  Closes,        \* the slots after the last ones of the sessions
  Quiet,         \* slots in which a stock does not trade
  MaxSplits      \* bound: splits of a stock

ASSUME CalendarAssumption ==
  /\ Months \in Nat \ {0} /\ DaysPerMonth \in Nat \ {0} /\ SlotsPerDay \in Nat \ {0}
  /\ Listings \subseteq Nat
  /\ LateDays \subseteq Nat /\ LateMonths \subseteq Nat

(* The session of o lasts from the slot o to the next close.               *)
InSession(o, k) == o <= k /\ \A c \in Closes : c <= o \/ k < c

(* Sessions do not overlap, and every close is the close of one.            *)
ASSUME SessionsAssumption ==
  /\ Opens \subseteq Nat /\ Closes \subseteq Nat
  /\ \A o, p \in Opens : o < p => \E c \in Closes : o < c /\ c <= p
  /\ \A c \in Closes : \E o \in Opens : InSession(o, c - 1)

VARIABLES
  now,       \* the clock
  source,    \* the fetcher in use
  listing,   \* the first slot the symbol was traded in
  late,      \* the late files that have appeared
  splits     \* splits of the stock so far

world == <<now, source, listing, late, splits>>

MonthNumbers == 0..(Months - 1)
Days == 0..(Months * DaysPerMonth - 1)
NumSlots == Months * DaysPerMonth * SlotsPerDay
Slots == 0..(NumSlots - 1)

StartOf(k) == 2 * k
EndOf(k) == 2 * k + 2
DayStart(d) == 2 * SlotsPerDay * d
MonthStart(m) == DayStart(DaysPerMonth * m)
DayOf(k) == k \div SlotsPerDay
MonthOf(k) == DayOf(k) \div DaysPerMonth
SlotsOf(m) == {k \in Slots : MonthOf(k) = m}
Horizon == MonthStart(Months)

Within(from, to) == {k \in Slots : k >= listing /\ from <= StartOf(k) /\ StartOf(k) < to}

(* The dump files of the source, and those that can be downloaded now: a    *)
(* late file once it has appeared.                                         *)
Files == [kind : {"day"}, n : Days] \cup [kind : {"month"}, n : MonthNumbers]
MayBeLate(f) == f.n \in (IF f.kind = "day" THEN LateDays ELSE LateMonths)
FileEnd(f) == IF f.kind = "day" THEN DayStart(f.n + 1) ELSE MonthStart(f.n + 1)
Published(f) ==
  /\ FileEnd(f) <= now
  /\ StartOf(listing) < FileEnd(f)
  /\ ~MayBeLate(f) \/ f \in late

(* The days of month m that [from, to) asks for, and whether no file is     *)
(* there of them: the month is over, its file is not there, and neither is *)
(* any daily file of those days.                                           *)
DaysAsked(m, from, to) ==
  {d \in Days : d \div DaysPerMonth = m /\ DayStart(d) < to /\ from < DayStart(d + 1)}
NoFile(m, from, to) ==
  /\ MonthStart(m + 1) <= now
  /\ ~Published([kind |-> "month", n |-> m])
  /\ \A d \in DaysAsked(m, from, to) : ~Published([kind |-> "day", n |-> d])

(* The months of [from, to) the vision fetcher leaves out.                 *)
Skipped(from, to) ==
  {m \in MonthNumbers :
     MonthStart(m) < to /\ from < MonthStart(m + 1) /\ NoFile(m, from, to)}

(* The vision fetcher: months from their file, or else from their daily     *)
(* files, and by REST every day no file was found for.                     *)
VisionSlots(from, to) ==
  {k \in Within(from, to) : MonthOf(k) \notin Skipped(from, to)}

(* The session grid: the sessions are looked up by the date they open on,   *)
(* from the date of "from" on, and cut to [from, to).                      *)
DateOf(t) == t \div (2 * SlotsPerDay)
Grid(from, to) ==
  {k \in Within(from, to) : \E o \in Opens : InSession(o, k) /\ DateOf(from) <= DayOf(o)}

(* The stock fetcher: what traded in the sessions of the grid that are      *)
(* over, and after the first trade of the answer every slot of the grid.   *)
Traded(from, to) ==
  {k \in Grid(from, to) : /\ k \notin Quiet
                          /\ \E c \in Closes : k < c /\ StartOf(c) <= now}
StockSlots(from, to) == {k \in Grid(from, to) : \E j \in Traded(from, to) : j <= k}

SlotsGiven(from, to) ==
  CASE source = "rest" -> Within(from, to)
    [] source = "vision" -> VisionSlots(from, to)
    [] source = "stock" -> StockSlots(from, to)

(* A candle as it is received now: whether its slot is over, and the       *)
(* splits its prices are adjusted for.                                     *)
Received(k) == [slot |-> k, final |-> EndOf(k) <= now, adjusted |-> splits]

(* The numbers of S from the least on, and what a sequence holds at the     *)
(* places S.                                                               *)
UpTo(S, k) == {j \in S : j <= k}
Ascending(S) ==
  [i \in 1..Cardinality(S) |-> CHOOSE k \in S : Cardinality(UpTo(S, k)) = i]
At(s, S) == [i \in 1..Cardinality(S) |-> s[Ascending(S)[i]]]

(* get_candles(start, end): ascending, without repetition.                 *)
GetCandles(from, to) ==
  LET slots == Ascending(SlotsGiven(from, to))
  IN [i \in DOMAIN slots |-> Received(slots[i])]

(* Until when data exists: now, or the end of the last session that is      *)
(* over (0: it was over before the history begins).                        *)
DataAvailableUntil ==
  IF source = "stock"
  THEN Max({0} \cup {StartOf(c) : c \in {d \in Closes : StartOf(d) <= now}})
  ELSE now

(* The files of a cache, by month, after one of them is written.            *)
Written(files, m, content) ==
  [k \in DOMAIN files \cup {m} |-> IF k = m THEN content ELSE files[k]]

InitWorld ==
  /\ now = 0
  /\ source \in Sources
  /\ listing \in Listings
  /\ late = {}
  /\ splits = 0

(* The world outside the program: time, late files, splits.                *)
Tick == now < Horizon /\ now' = now + 1 /\ UNCHANGED <<source, listing, late, splits>>

Appear(f) ==
  /\ source # "stock" /\ source # "rest"
  /\ MayBeLate(f) /\ f \notin late /\ FileEnd(f) <= now
  /\ StartOf(listing) < FileEnd(f)
  /\ late' = late \cup {f}
  /\ UNCHANGED <<now, source, listing, splits>>

Split ==
  /\ source = "stock" /\ splits < MaxSplits
  /\ splits' = splits + 1
  /\ UNCHANGED <<now, source, listing, late>>
============================================================================

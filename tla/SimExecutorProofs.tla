------------------------- MODULE SimExecutorProofs --------------------------
(***************************************************************************)
(* Proofs about SimExecutor for any symbols, candles, actions, ratios and  *)
(* bounds.  Three promises hold only of a process that never restarts, or  *)
(* whose recorder never raises; the theorems say which.                    *)
(***************************************************************************)
EXTENDS SimExecutor, FiniteSetTheorems, TLAPS

(***************************************************************************)
(* The strengthening, in parts that each theorem below needs.              *)
(***************************************************************************)
FiniteBooks == \A s \in Symbols : IsFiniteSet(book[s])

\* A dead account has no order, and only a dead one is being liquidated.
DeadBooks ==
  /\ bankrupt => \A s \in Symbols : book[s] = {}
  /\ phase = "liquidating" => bankrupt

\* Without restarts a held symbol has a close; without failures a liquidation covers all.
Reliable == ~TradesMayFail /\ MaxRestarts = 0
Covered ==
  /\ \A s \in Symbols : Open(s) => last[s] # Unknown
  /\ current # NoSymbol => last[current] # Unknown
  /\ bankrupt => \A s \in Symbols : Open(s) => phase = "liquidating" /\ s \in flatten

\* The candles of a symbol that the orders in its book have been charged for.
Charged(s) == IF s \in DOMAIN candles THEN seen[s] - 1 ELSE seen[s]
Aged ==
  \A s \in Symbols : \A o \in book[s] :
    /\ o.life = GTC => o.left = GTC
    /\ o.life # GTC => o.left = o.life - (Charged(s) - o.since) /\ o.left > 0

\* Within one life of the process the numbers follow the submissions.
Numbered ==
  \A s \in Symbols : \A o \in book[s] :
    /\ o.seq <= seq /\ o.born <= acted
    /\ \A p \in book[s] : (o.seq < p.seq) <=> (o.born < p.born)

IInv ==
  /\ TypeOK
  /\ FiniteBooks
  /\ BookSound
  /\ DeadBooks
  /\ Reliable => Covered
  /\ ~TradesMayFail => Aged
  /\ MaxRestarts = 0 => Numbered

-----------------------------------------------------------------------------
(***************************************************************************)
(* Ageing a book leaves it finite and no larger, and changes of an order   *)
(* only what it has left to live.                                          *)
(***************************************************************************)
LEMMA TickedBook ==
  ASSUME NEW B, IsFiniteSet(B), \A o \in B : o \in Orders
  PROVE  /\ IsFiniteSet(Ticked(B))
         /\ Cardinality(Ticked(B)) <= Cardinality(B)
         /\ \A o \in Ticked(B) : o \in Orders
         /\ \A o \in Ticked(B) : \E p \in B :
              /\ p.left = GTC \/ p.left > 1
              /\ o = Tick(p)
              /\ o.left = IF p.left = GTC THEN GTC ELSE p.left - 1
              /\ o.life = p.life /\ o.since = p.since /\ o.id = p.id
              /\ o.seq = p.seq /\ o.born = p.born
<1> DEFINE A == {p \in B : p.left = GTC \/ p.left > 1}
           f == [p \in A |-> Tick(p)]
<1>1. IsFiniteSet(A) /\ Cardinality(A) <= Cardinality(B)
  BY FS_Subset, A \in SUBSET B
<1>2. f \in Surjection(A, Ticked(B))
  BY DEF Surjection, Ticked
<1>3. IsFiniteSet(Ticked(B)) /\ Cardinality(Ticked(B)) <= Cardinality(A)
  <2> HIDE DEF A, f
  <2> QED BY <1>1, <1>2, FS_Surjection
<1>4. Cardinality(Ticked(B)) <= Cardinality(B)
  <2> HIDE DEF A
  <2>1. Cardinality(A) \in Nat /\ Cardinality(B) \in Nat /\ Cardinality(Ticked(B)) \in Nat
    BY <1>1, <1>3, FS_CardinalityType
  <2> QED BY <1>1, <1>3, <2>1
<1>5. \A p \in B : /\ Tick(p) \in Orders
                   /\ Tick(p).left = IF p.left = GTC THEN GTC ELSE p.left - 1
                   /\ Tick(p).life = p.life /\ Tick(p).since = p.since
                   /\ Tick(p).id = p.id
                   /\ Tick(p).seq = p.seq /\ Tick(p).born = p.born
  BY DEF Tick, Orders, GTC
<1> QED
  BY <1>3, <1>4, <1>5 DEF Ticked

(***************************************************************************)
(* Taking orders out of a book leaves it sound.                            *)
(***************************************************************************)
LEMMA SmallerBooks ==
  ASSUME FiniteBooks, BookSound,
         \A s \in Symbols : book'[s] \subseteq book[s]
  PROVE  FiniteBooks' /\ BookSound'
<1> SUFFICES ASSUME NEW s \in Symbols
             PROVE  /\ IsFiniteSet(book'[s])
                    /\ Cardinality(book'[s]) <= MaxOpenOrders
                    /\ \A o, p \in book'[s] : o.id = p.id /\ o.id # NoId => o = p
  BY DEF FiniteBooks, BookSound
<1>1. IsFiniteSet(book[s]) /\ book'[s] \in SUBSET book[s]
  BY DEF FiniteBooks
<1>2. IsFiniteSet(book'[s]) /\ Cardinality(book'[s]) <= Cardinality(book[s])
  BY <1>1, FS_Subset
<1>3. Cardinality(book[s]) \in Nat /\ Cardinality(book'[s]) \in Nat /\ MaxOpenOrders \in Nat
  BY <1>1, <1>2, FS_CardinalityType, BookAssumption
<1>4. Cardinality(book[s]) <= MaxOpenOrders
  BY DEF BookSound
<1> QED
  BY <1>1, <1>2, <1>3, <1>4 DEF BookSound

(***************************************************************************)
(* A fill keeps the account well-typed.                                    *)
(***************************************************************************)
LEMMA FillTypes ==
  ASSUME TypeOK, NEW s \in Symbols, NEW q \in Int, NEW p \in Int, Fill(s, q, p)
  PROVE  /\ position' \in [Symbols -> Int]
         /\ mark' \in [Symbols -> Int]
         /\ cash' \in Int
         /\ position' = [position EXCEPT ![s] = position[s] + q]
<1>1. Fee(q, p) \in Int
  BY ExecutorAssumption DEF Fee, Size
<1>2. q * p \in Int
  OBVIOUS
<1> QED
  BY <1>1, <1>2 DEF Fill, TypeOK

\* What a candle or a slipped close fills at is an integer.
LEMMA PricesAreIntegers ==
  ASSUME NEW o \in Orders, NEW c \in Candles
  PROVE  RawPrice(o, c) \in Int /\ FillPrice(o, c) \in Int
<1>1. RawPrice(o, c) \in Int
  BY ExecutorAssumption DEF RawPrice, Orders
<1>2. \A x, q \in Int : Slipped(x, q) \in Int
  BY BookAssumption DEF Slipped
<1> QED
  BY <1>1, <1>2 DEF FillPrice, Orders

(***************************************************************************)
(* What a reduce-only order fills never takes the position further, nor    *)
(* through zero.                                                           *)
(***************************************************************************)
LEMMA FillQtyReduces ==
  ASSUME NEW o \in Orders, NEW p \in Int
  PROVE  /\ FillQty(o, p) \in Int
         /\ o.reduceOnly /\ FillQty(o, p) # 0 => Shrinks(p, p + FillQty(o, p))
BY DEF FillQty, Orders, Shrinks, SameSide, Size

-----------------------------------------------------------------------------
\* An empty book of a live account satisfies the invariant.
LEMMA InitIInv == Init => IInv
<1> SUFFICES ASSUME Init PROVE IInv
  OBVIOUS
<1>1. TypeOK
  <2>1. DOMAIN candles = {} /\ current = NoSymbol /\ queue = {} /\ phase = "idle"
    BY DEF Init, NoCandles
  <2>2. /\ position \in [Symbols -> Int] /\ mark \in [Symbols -> Int] /\ cash \in Int
        /\ book \in [Symbols -> SUBSET Orders]
        /\ last \in [Symbols -> Nat \cup {Unknown}]
        /\ seen \in [Symbols -> Nat]
    BY ExecutorAssumption DEF Init
  <2>3. /\ seq \in Nat /\ bankrupt \in BOOLEAN /\ flatten \in SUBSET Symbols
        /\ acted \in Nat /\ events \in Nat /\ restarts \in Nat
    BY DEF Init
  <2> QED
    BY <2>1, <2>2, <2>3 DEF TypeOK
<1>2. FiniteBooks /\ BookSound
  BY FS_EmptySet, BookAssumption DEF Init, FiniteBooks, BookSound
<1>3. DeadBooks /\ Covered /\ Aged /\ Numbered
  BY DEF Init, DeadBooks, Covered, Aged, Numbered, Open
<1> QED
  BY <1>1, <1>2, <1>3 DEF IInv

\* An event counts one candle more for the symbols it brings.
LEMMA BeginEventKeeps ==
  ASSUME IInv, NEW S \in SUBSET Symbols, NEW cs \in EventsOf(S), BeginEvent(cs)
  PROVE  IInv'
<1>0. DOMAIN candles = {} /\ current = NoSymbol /\ DOMAIN cs = S
  BY DEF IInv, TypeOK, BeginEvent, EventsOf
<1>1. TypeOK'
  BY <1>0 DEF IInv, TypeOK, BeginEvent, EventsOf, account, executor
<1>2. FiniteBooks' /\ BookSound' /\ DeadBooks'
  BY DEF IInv, FiniteBooks, BookSound, DeadBooks, BeginEvent, executor
<1>3. Reliable => Covered'
  BY <1>0 DEF IInv, Covered, Open, BeginEvent, account, executor
<1>4. ~TradesMayFail => Aged'
  <2>1. \A s \in Symbols : Charged(s)' = Charged(s)
    BY <1>0 DEF IInv, TypeOK, BeginEvent, Charged
  <2> QED
    BY <2>1 DEF IInv, Aged, BeginEvent
<1>5. MaxRestarts = 0 => Numbered'
  BY DEF IInv, Numbered, BeginEvent, executor
<1> QED
  BY <1>1, <1>2, <1>3, <1>4, <1>5 DEF IInv, Reliable

\* The snapshot of triggered orders is a part of the book.
LEMMA TakeCandleKeeps ==
  ASSUME IInv, NEW s \in Symbols, TakeCandle(s)
  PROVE  IInv'
<1>0. candles[s].close \in Nat /\ s # NoSymbol
  BY ExecutorAssumption DEF IInv, TypeOK, TakeCandle
<1>1. TypeOK'
  BY <1>0 DEF IInv, TypeOK, TakeCandle, account, counters
<1>2. FiniteBooks' /\ BookSound' /\ DeadBooks'
  BY DEF IInv, FiniteBooks, BookSound, DeadBooks, TakeCandle
<1>3. Reliable => Covered'
  BY <1>0 DEF IInv, TypeOK, Covered, Open, TakeCandle, account, Unknown
<1>4. ~TradesMayFail => Aged'
  BY DEF IInv, Aged, Charged, TakeCandle, counters
<1>5. MaxRestarts = 0 => Numbered'
  BY DEF IInv, Numbered, TakeCandle, counters
<1> QED
  BY <1>1, <1>2, <1>3, <1>4, <1>5 DEF IInv, Reliable

\* A filled order leaves the book and the queue; nothing else in them moves.
LEMMA MatchKeeps ==
  ASSUME IInv, NEW o \in queue, NEW raised \in BOOLEAN, Match(o, raised)
  PROVE  IInv'
<1> DEFINE q == FillQty(o, position[current])
<1>0. /\ current \in Symbols /\ current \in DOMAIN candles /\ current # NoSymbol
      /\ o \in book[current] /\ o \in Orders
      /\ candles[current] \in Candles /\ position[current] \in Int
  BY ExecutorAssumption DEF IInv, TypeOK
<1>1. q \in Int /\ FillPrice(o, candles[current]) \in Int
  BY <1>0, FillQtyReduces, PricesAreIntegers
<1>2. /\ position' \in [Symbols -> Int] /\ mark' \in [Symbols -> Int] /\ cash' \in Int
      /\ \A s \in Symbols \ {current} : position'[s] = position[s]
  <2>1. CASE q = 0
    BY <2>1 DEF Match, account, IInv, TypeOK
  <2>2. CASE q # 0
    <3>1. Fill(current, q, FillPrice(o, candles[current]))
      BY <2>2 DEF Match
    <3> HIDE DEF q
    <3>2. TypeOK
      BY DEF IInv
    <3>3. /\ position' \in [Symbols -> Int] /\ mark' \in [Symbols -> Int] /\ cash' \in Int
          /\ position' = [position EXCEPT ![current] = position[current] + q]
      BY <1>0, <1>1, <3>1, <3>2, FillTypes
    <3> QED
      BY <3>2, <3>3 DEF TypeOK
  <2> QED
    BY <2>1, <2>2
<1>3. \A s \in Symbols : book'[s] \subseteq book[s]
  BY DEF Match, IInv, TypeOK
<1>4. ~bankrupt /\ bankrupt' = bankrupt /\ last' = last /\ seq' = seq
      /\ seen' = seen /\ acted' = acted /\ events' = events /\ restarts' = restarts
  BY <1>0 DEF Match, IInv, DeadBooks, executor, counters
<1>5. \/ /\ raised /\ TradesMayFail
         /\ phase' = "idle" /\ candles' = NoCandles
         /\ current' = NoSymbol /\ queue' = {} /\ flatten' = {}
      \/ /\ ~raised
         /\ phase' = phase /\ candles' = candles /\ current' = current
         /\ queue' = queue \ {o} /\ flatten' = flatten
  BY DEF Match, Proceed
<1>6. TypeOK'
  <2>1. book' \in [Symbols -> SUBSET Orders]
    BY <1>0 DEF Match, IInv, TypeOK
  <2>2. /\ DOMAIN candles' \subseteq Symbols
        /\ \A s \in DOMAIN candles' : candles'[s] \in Candles
        /\ phase' # "matching" => DOMAIN candles' = {}
        /\ current' \in DOMAIN candles' \cup {NoSymbol}
        /\ phase' \in {"idle", "matching", "liquidating", "deciding"}
        /\ flatten' \in SUBSET Symbols
    BY <1>5 DEF NoCandles, IInv, TypeOK
  <2>3. IF current' = NoSymbol THEN queue' = {} ELSE queue' \subseteq book'[current']
    <3>1. CASE raised
      BY <1>5, <3>1
    <3>2. CASE ~raised
      <4>1. book'[current] = book[current] \ {o}
        BY <1>0 DEF Match, IInv, TypeOK
      <4>2. queue \subseteq book[current]
        BY <1>0 DEF IInv, TypeOK
      <4>3. current' = current /\ queue' = queue \ {o}
        BY <1>5, <3>2
      <4> QED
        BY <1>0, <4>1, <4>2, <4>3
    <3> QED
      BY <3>1, <3>2
  <2> QED
    BY <1>2, <1>4, <2>1, <2>2, <2>3 DEF IInv, TypeOK
<1>7. FiniteBooks' /\ BookSound'
  BY <1>3, SmallerBooks DEF IInv
<1>8. DeadBooks'
  BY <1>4, <1>5 DEF DeadBooks, Match
<1>9. Reliable => Covered'
  BY <1>0, <1>2, <1>4, <1>5 DEF Reliable, IInv, Covered, Open
<1>10. ~TradesMayFail => Aged'
  <2> SUFFICES ASSUME ~TradesMayFail PROVE Aged'
    OBVIOUS
  <2>1. \A s \in Symbols : Charged(s)' = Charged(s)
    BY <1>4, <1>5 DEF Charged
  <2> QED
    BY <1>3, <2>1 DEF IInv, Aged
<1>11. MaxRestarts = 0 => Numbered'
  BY <1>3, <1>4 DEF IInv, Numbered
<1> QED
  BY <1>6, <1>7, <1>8, <1>9, <1>10, <1>11 DEF IInv, Reliable

\* Each order of the symbol ages by the candle that was counted for it.
LEMMA ExpireKeeps ==
  ASSUME IInv, Expire
  PROVE  IInv'
<1>0. /\ current \in Symbols /\ current \in DOMAIN candles
      /\ IsFiniteSet(book[current]) /\ \A o \in book[current] : o \in Orders
  BY DEF IInv, TypeOK, FiniteBooks, Expire
<1>1. /\ book' = [book EXCEPT ![current] = Ticked(book[current])]
      /\ DOMAIN candles' = DOMAIN candles \ {current}
      /\ \A s \in DOMAIN candles' : candles'[s] = candles[s]
      /\ current' = NoSymbol /\ queue' = {} /\ phase' = phase /\ flatten' = flatten
      /\ UNCHANGED <<position, mark, cash, last, seq, bankrupt, seen, acted, events, restarts>>
  BY DEF Expire, account, executor, counters
<1> DEFINE B == book[current]
<1>2. \A s \in Symbols : s # current => book'[s] = book[s]
  BY <1>1 DEF IInv, TypeOK
<1>3. book'[current] = Ticked(B)
  BY <1>0, <1>1 DEF IInv, TypeOK
<1>4. /\ IsFiniteSet(Ticked(B))
      /\ Cardinality(Ticked(B)) <= Cardinality(B)
      /\ \A o \in Ticked(B) : o \in Orders
      /\ \A o \in Ticked(B) : \E p \in B :
           /\ p.left = GTC \/ p.left > 1
           /\ o = Tick(p)
           /\ o.left = IF p.left = GTC THEN GTC ELSE p.left - 1
           /\ o.life = p.life /\ o.since = p.since /\ o.id = p.id
           /\ o.seq = p.seq /\ o.born = p.born
  BY <1>0, TickedBook
<1>5. TypeOK'
  <2>1. book' \in [Symbols -> SUBSET Orders]
    <3>1. Ticked(B) \in SUBSET Orders
      BY <1>4
    <3> QED
      BY <1>1, <3>1 DEF IInv, TypeOK
  <2>2. phase = "matching"
    BY DEF Expire
  <2> QED
    BY <1>1, <2>1, <2>2 DEF IInv, TypeOK
<1>6. FiniteBooks'
  BY <1>2, <1>3, <1>4 DEF IInv, FiniteBooks
<1>7. BookSound'
  <2> SUFFICES ASSUME NEW s \in Symbols
               PROVE  /\ Cardinality(book'[s]) <= MaxOpenOrders
                      /\ \A o, p \in book'[s] : o.id = p.id /\ o.id # NoId => o = p
    BY DEF BookSound
  <2>1. CASE book'[s] = book[s]
    BY <2>1 DEF IInv, BookSound
  <2>2. CASE s = current /\ book'[s] = Ticked(B)
    <3>1. /\ Cardinality(B) <= MaxOpenOrders
          /\ \A o, p \in B : o.id = p.id /\ o.id # NoId => o = p
      BY <1>0 DEF IInv, BookSound
    <3>2. Cardinality(B) \in Nat /\ Cardinality(Ticked(B)) \in Nat /\ MaxOpenOrders \in Nat
      BY <1>0, <1>4, FS_CardinalityType, BookAssumption
    <3> HIDE DEF B
    <3>3. Cardinality(Ticked(B)) <= MaxOpenOrders
      BY <1>4, <3>1, <3>2
    <3>4. \A o, p \in Ticked(B) : o.id = p.id /\ o.id # NoId => o = p
      BY <1>4, <3>1
    <3> QED
      BY <2>2, <3>3, <3>4
  <2> QED
    BY <1>2, <1>3, <2>1, <2>2
<1>8. DeadBooks'
  <2>1. B = {} => Ticked(B) = {}
    BY <1>4
  <2> QED
    BY <1>0, <1>1, <1>2, <1>3, <2>1 DEF IInv, DeadBooks
<1>9. Reliable => Covered'
  BY <1>1 DEF IInv, Covered, Open
<1>10. ~TradesMayFail => Aged'
  <2> SUFFICES ASSUME ~TradesMayFail, NEW s \in Symbols, NEW o \in book'[s]
               PROVE  /\ o.life = GTC => o.left = GTC
                      /\ o.life # GTC => o.left = o.life - (Charged(s)' - o.since)
                                         /\ o.left > 0
    BY DEF Aged
  <2>1. CASE s # current
    <3>1. Charged(s)' = Charged(s)
      BY <1>1, <2>1 DEF Charged
    <3> QED
      BY <1>2, <2>1, <3>1 DEF IInv, Aged
  <2>2. CASE s = current
    <3>1. Charged(s)' = seen[s] /\ Charged(s) = seen[s] - 1 /\ seen[s] \in Nat
      BY <1>0, <1>1, <2>2 DEF Charged, IInv, TypeOK
    <3>2. o \in Ticked(B)
      BY <1>3, <2>2
    <3>3. PICK p \in B : /\ p.left = GTC \/ p.left > 1
                         /\ o.left = IF p.left = GTC THEN GTC ELSE p.left - 1
                         /\ o.life = p.life /\ o.since = p.since
      BY <1>4, <3>2
    <3>4. /\ p.life = GTC => p.left = GTC
          /\ p.life # GTC => p.left = p.life - (Charged(s) - p.since) /\ p.left > 0
      BY <2>2 DEF IInv, Aged
    <3>5. p.life \in Int /\ p.left \in Int /\ p.since \in Nat
      BY <1>0 DEF Orders
    <3> QED
      BY <3>1, <3>3, <3>4, <3>5 DEF GTC
  <2> QED
    BY <2>1, <2>2
<1>11. MaxRestarts = 0 => Numbered'
  <2> SUFFICES ASSUME MaxRestarts = 0, NEW s \in Symbols, NEW o \in book'[s]
               PROVE  /\ o.seq <= seq /\ o.born <= acted
                      /\ \A p \in book'[s] : (o.seq < p.seq) <=> (o.born < p.born)
    BY <1>1 DEF Numbered
  <2>1. CASE book'[s] = book[s]
    BY <2>1 DEF IInv, Numbered
  <2>2. CASE s = current /\ book'[s] = Ticked(B)
    <3>1. \A p \in Ticked(B) : \E r \in B : p.seq = r.seq /\ p.born = r.born
      BY <1>4
    <3>2. \A r \in B : /\ r.seq <= seq /\ r.born <= acted
                       /\ \A p \in B : (r.seq < p.seq) <=> (r.born < p.born)
      BY <1>0 DEF IInv, Numbered
    <3> HIDE DEF B
    <3> QED
      BY <2>2, <3>1, <3>2
  <2> QED
    BY <1>2, <1>3, <2>1, <2>2
<1> QED
  BY <1>5, <1>6, <1>7, <1>8, <1>9, <1>10, <1>11 DEF IInv, Reliable

\* A liquidation starts with every open position in flatten, if its close is known.
LEMMA MarkToMarketKeeps ==
  ASSUME IInv, MarkToMarket
  PROVE  IInv'
<1> DEFINE broke == ~bankrupt /\ EquityAt(position, Marked) <= 0
<1>0. DOMAIN candles = {} /\ current = NoSymbol /\ queue = {}
  BY DEF IInv, TypeOK, MarkToMarket
<1>1. /\ mark' = Marked /\ Marked \in [Symbols -> Int]
      /\ UNCHANGED <<position, cash, last, seq, candles, current, queue,
                     seen, acted, events, restarts>>
  BY DEF MarkToMarket, Marked, IInv, TypeOK, counters
<1>2. CASE broke
  <2>1. /\ bankrupt' = TRUE /\ book' = [s \in Symbols |-> {}] /\ phase' = "liquidating"
        /\ flatten' = {s \in Symbols : Open(s) /\ last[s] # Unknown}
    BY <1>2 DEF MarkToMarket, StartLiquidation
  <2>2. TypeOK'
    BY <1>0, <1>1, <2>1 DEF IInv, TypeOK
  <2>3. FiniteBooks' /\ BookSound'
    <3>1. \A s \in Symbols : book'[s] \subseteq book[s]
      BY <2>1
    <3> QED
      BY <3>1, SmallerBooks DEF IInv
  <2>4. DeadBooks' /\ Aged' /\ Numbered'
    BY <2>1 DEF DeadBooks, Aged, Numbered
  <2>5. Reliable => Covered'
    BY <1>1, <2>1 DEF IInv, Covered, Open
  <2> QED
    BY <2>2, <2>3, <2>4, <2>5 DEF IInv, Reliable
<1>3. CASE ~broke
  <2>1. phase' = "deciding" /\ bankrupt' = bankrupt /\ book' = book /\ flatten' = flatten
    BY <1>3 DEF MarkToMarket
  <2>2. TypeOK'
    BY <1>0, <1>1, <2>1 DEF IInv, TypeOK
  <2>3. FiniteBooks' /\ BookSound' /\ DeadBooks'
    BY <2>1 DEF IInv, FiniteBooks, BookSound, DeadBooks
  <2>4. Reliable => Covered'
    <3>1. phase = "matching"
      BY DEF MarkToMarket
    <3> QED
      BY <1>1, <2>1, <3>1 DEF IInv, Covered, Open
  <2>5. /\ ~TradesMayFail => Aged'
        /\ MaxRestarts = 0 => Numbered'
    BY <1>1, <2>1 DEF IInv, Aged, Charged, Numbered
  <2> QED
    BY <2>2, <2>3, <2>4, <2>5 DEF IInv, Reliable
<1> QED
  BY <1>2, <1>3

\* A liquidated symbol is flat and leaves flatten.
LEMMA LiquidateKeeps ==
  ASSUME IInv, NEW s \in Symbols, NEW raised \in BOOLEAN, Liquidate(s, raised)
  PROVE  IInv'
<1>0. /\ DOMAIN candles = {} /\ current = NoSymbol /\ queue = {}
      /\ position[s] \in Int /\ last[s] \in Int
  BY DEF IInv, TypeOK, Liquidate, Unknown
<1>1. /\ position' \in [Symbols -> Int] /\ mark' \in [Symbols -> Int] /\ cash' \in Int
      /\ position' = [position EXCEPT ![s] = 0]
  <2>1. Fill(s, -position[s], last[s]) /\ TypeOK /\ -position[s] \in Int
    BY <1>0 DEF Liquidate, IInv
  <2>2. /\ position' \in [Symbols -> Int] /\ mark' \in [Symbols -> Int] /\ cash' \in Int
        /\ position' = [position EXCEPT ![s] = position[s] + (-position[s])]
    BY <1>0, <2>1, FillTypes
  <2>3. position[s] + (-position[s]) = 0
    BY <1>0
  <2> QED
    BY <2>2, <2>3
<1>2. UNCHANGED <<book, last, seq, bankrupt, seen, acted, events, restarts>>
  BY DEF Liquidate, executor, counters
<1>3. \/ /\ raised /\ TradesMayFail
         /\ phase' = "idle" /\ candles' = NoCandles
         /\ current' = NoSymbol /\ queue' = {} /\ flatten' = {}
      \/ /\ ~raised
         /\ phase' = phase /\ candles' = candles /\ current' = current
         /\ queue' = queue /\ flatten' = flatten \ {s}
  BY DEF Liquidate, Proceed
<1>4. DOMAIN candles' = {} /\ current' = NoSymbol /\ queue' = {}
      /\ phase' \in {"idle", "matching", "liquidating", "deciding"}
      /\ flatten' \in SUBSET Symbols
  BY <1>0, <1>3 DEF NoCandles, IInv, TypeOK
<1>5. TypeOK'
  BY <1>1, <1>2, <1>4 DEF IInv, TypeOK
<1>6. FiniteBooks' /\ BookSound'
  BY <1>2 DEF IInv, FiniteBooks, BookSound
<1>7. DeadBooks'
  BY <1>2, <1>3 DEF IInv, DeadBooks
<1>8. Reliable => Covered'
  <2> SUFFICES ASSUME Reliable PROVE Covered'
    OBVIOUS
  <2>1. phase' = phase /\ flatten' = flatten \ {s} /\ current' = current
    BY <1>3 DEF Reliable
  <2>2. \A t \in Symbols : position'[t] # 0 => position[t] # 0 /\ t # s
    BY <1>1 DEF IInv, TypeOK
  <2> QED
    BY <1>2, <2>1, <2>2 DEF IInv, Covered, Open
<1>9. ~TradesMayFail => Aged'
  <2>1. \A t \in Symbols : Charged(t)' = Charged(t)
    BY <1>0, <1>2, <1>4 DEF Charged
  <2> QED
    BY <1>2, <2>1 DEF IInv, Aged
<1>10. MaxRestarts = 0 => Numbered'
  BY <1>2 DEF IInv, Numbered
<1> QED
  BY <1>5, <1>6, <1>7, <1>8, <1>9, <1>10 DEF IInv, Reliable

\* EndLiquidation and EndEvent only move on.
LEMMA EndKeeps ==
  ASSUME IInv, EndLiquidation \/ EndEvent
  PROVE  IInv'
<1>0. /\ phase \in {"liquidating", "deciding"} /\ phase' \in {"deciding", "idle"}
      /\ phase = "liquidating" => flatten = {}
      /\ UNCHANGED <<position, mark, cash, book, last, seq, bankrupt, candles, current,
                     queue, flatten, seen, acted, events, restarts>>
  BY DEF EndLiquidation, EndEvent, account, executor, control, counters
<1>1. TypeOK'
  BY <1>0 DEF IInv, TypeOK
<1>2. FiniteBooks' /\ BookSound' /\ DeadBooks'
  BY <1>0 DEF IInv, FiniteBooks, BookSound, DeadBooks
<1>3. Reliable => Covered'
  BY <1>0 DEF IInv, Covered, Open
<1>4. /\ ~TradesMayFail => Aged'
      /\ MaxRestarts = 0 => Numbered'
  BY <1>0 DEF IInv, Aged, Charged, Numbered
<1> QED
  BY <1>1, <1>2, <1>3, <1>4 DEF IInv, Reliable

\* A cancel only takes orders away.
LEMMA CancelKeeps ==
  ASSUME IInv, NEW a \in Actions, Cancel(a)
  PROVE  IInv'
<1>0. /\ DOMAIN candles = {} /\ current = NoSymbol /\ acted' = acted + 1
      /\ acted \in Nat /\ ~bankrupt /\ phase = "deciding"
      /\ UNCHANGED <<position, mark, cash, last, seq, bankrupt, phase, candles, current,
                     queue, flatten, seen, events, restarts>>
  BY DEF IInv, TypeOK, Cancel, MayAct, account, executor, control
<1>1. /\ \A s \in Symbols : book'[s] \subseteq book[s]
      /\ book' \in [Symbols -> SUBSET Orders]
  BY ExecutorAssumption DEF Cancel, IInv, TypeOK
<1>2. TypeOK'
  BY <1>0, <1>1 DEF IInv, TypeOK
<1>3. FiniteBooks' /\ BookSound'
  BY <1>1, SmallerBooks DEF IInv
<1>4. DeadBooks'
  BY <1>0 DEF DeadBooks
<1>5. Reliable => Covered'
  BY <1>0 DEF IInv, Covered, Open
<1>6. ~TradesMayFail => Aged'
  BY <1>0, <1>1 DEF IInv, Aged, Charged
<1>7. MaxRestarts = 0 => Numbered'
  <2> SUFFICES ASSUME MaxRestarts = 0, NEW s \in Symbols, NEW o \in book'[s]
               PROVE  /\ o.seq <= seq' /\ o.born <= acted'
                      /\ \A p \in book'[s] : (o.seq < p.seq) <=> (o.born < p.born)
    BY DEF Numbered
  <2>1. /\ o.seq <= seq /\ o.born <= acted /\ o \in Orders
        /\ \A p \in book[s] : (o.seq < p.seq) <=> (o.born < p.born)
    BY <1>1 DEF IInv, Numbered
  <2>2. o.born \in Nat
    BY <2>1 DEF Orders
  <2> QED
    BY <1>0, <1>1, <2>1, <2>2
<1> QED
  BY <1>2, <1>3, <1>4, <1>5, <1>6, <1>7 DEF IInv, Reliable

\* A registered order replaces its namesake, within the capacity, and starts its life now.
LEMMA RestKeeps ==
  ASSUME IInv, NEW a \in Actions, Rest(a)
  PROVE  IInv'
<1> DEFINE s == a.symbol
           n == OrderOf(a, seq + 1, acted + 1, seen[s])
<1>0. /\ DOMAIN candles = {} /\ current = NoSymbol /\ queue = {}
      /\ acted' = acted + 1 /\ seq' = seq + 1 /\ acted \in Nat /\ seq \in Nat
      /\ ~bankrupt /\ phase = "deciding" /\ s \in Symbols /\ seen[s] \in Nat
      /\ UNCHANGED <<position, mark, cash, last, bankrupt, phase, candles, current,
                     queue, flatten, seen, events, restarts>>
  BY ExecutorAssumption DEF IInv, TypeOK, Rest, MayAct, account, control
<1>1. /\ n \in Orders /\ n.id = a.id /\ n.seq = seq + 1 /\ n.born = acted + 1
      /\ n.since = seen[s] /\ n.left = a.expire /\ n.life = a.expire
      /\ a.expire \in Int /\ (a.expire # GTC => a.expire > 0)
  BY <1>0, ExecutorAssumption DEF OrderOf, Orders, GTC
<1> HIDE DEF n
<1>2. CASE ~Registers(book[s], a)
  <2>1. book' = book
    BY <1>2 DEF Rest
  <2>2. TypeOK' /\ FiniteBooks' /\ BookSound' /\ DeadBooks'
    BY <1>0, <2>1 DEF IInv, TypeOK, FiniteBooks, BookSound, DeadBooks
  <2>3. Reliable => Covered'
    BY <1>0 DEF IInv, Covered, Open
  <2>4. ~TradesMayFail => Aged'
    BY <1>0, <2>1 DEF IInv, Aged, Charged
  <2>5. MaxRestarts = 0 => Numbered'
    <3> SUFFICES ASSUME MaxRestarts = 0, NEW t \in Symbols, NEW o \in book[t]
                 PROVE  /\ o.seq <= seq' /\ o.born <= acted'
                        /\ \A p \in book[t] : (o.seq < p.seq) <=> (o.born < p.born)
      BY <2>1 DEF Numbered
    <3>1. /\ o.seq <= seq /\ o.born <= acted /\ o \in Orders
          /\ \A p \in book[t] : (o.seq < p.seq) <=> (o.born < p.born)
      BY DEF IInv, TypeOK, Numbered
    <3>2. o.seq \in Nat /\ o.born \in Nat
      BY <3>1 DEF Orders
    <3> QED
      BY <1>0, <3>1, <3>2
  <2> QED
    BY <2>2, <2>3, <2>4, <2>5 DEF IInv, Reliable
<1>3. CASE Registers(book[s], a)
  <2>1. book' = [book EXCEPT ![s] = book[s] \cup {n}]
    BY <1>3 DEF Rest, n
  <2>2. /\ book'[s] = book[s] \cup {n}
        /\ \A t \in Symbols : t # s => book'[t] = book[t]
        /\ book' \in [Symbols -> SUBSET Orders]
    BY <1>0, <1>1, <2>1 DEF IInv, TypeOK
  <2>3. TypeOK'
    BY <1>0, <2>2 DEF IInv, TypeOK
  <2>4. FiniteBooks' /\ Cardinality(book'[s]) <= MaxOpenOrders
    <3>1. IsFiniteSet(book[s]) /\ Cardinality(book[s]) < MaxOpenOrders
      BY <1>0, <1>3 DEF IInv, FiniteBooks, Registers
    <3>2. /\ IsFiniteSet(book[s] \cup {n})
          /\ Cardinality(book[s] \cup {n}) =
               IF n \in book[s] THEN Cardinality(book[s]) ELSE Cardinality(book[s]) + 1
      BY <3>1, FS_AddElement
    <3>3. Cardinality(book[s]) \in Nat /\ MaxOpenOrders \in Nat
      BY <3>1, FS_CardinalityType, BookAssumption
    <3>4. Cardinality(book[s] \cup {n}) <= MaxOpenOrders
      BY <3>1, <3>2, <3>3
    <3> QED
      BY <2>2, <3>2, <3>4 DEF IInv, FiniteBooks
  <2>5. BookSound'
    <3> SUFFICES ASSUME NEW t \in Symbols
                 PROVE  /\ Cardinality(book'[t]) <= MaxOpenOrders
                        /\ \A o, p \in book'[t] : o.id = p.id /\ o.id # NoId => o = p
      BY DEF BookSound
    <3>1. CASE t # s
      BY <2>2, <3>1 DEF IInv, BookSound
    <3>2. CASE t = s
      <4>1. \A o, p \in book[s] : o.id = p.id /\ o.id # NoId => o = p
        BY <1>0 DEF IInv, BookSound
      <4>2. a.id = NoId \/ \A o \in book[s] : o.id # a.id
        BY <1>3 DEF Registers
      <4> QED
        BY <1>1, <2>2, <2>4, <3>2, <4>1, <4>2
    <3> QED
      BY <3>1, <3>2
  <2>6. DeadBooks'
    BY <1>0 DEF DeadBooks
  <2>7. Reliable => Covered'
    BY <1>0 DEF IInv, Covered, Open
  <2>8. ~TradesMayFail => Aged'
    <3> SUFFICES ASSUME ~TradesMayFail, NEW t \in Symbols, NEW o \in book'[t]
                 PROVE  /\ o.life = GTC => o.left = GTC
                        /\ o.life # GTC => o.left = o.life - (Charged(t)' - o.since)
                                           /\ o.left > 0
      BY DEF Aged
    <3>1. Charged(t)' = seen[t] /\ Charged(t) = seen[t]
      BY <1>0 DEF Charged
    <3>2. CASE o \in book[t]
      BY <3>1, <3>2 DEF IInv, Aged
    <3>3. CASE t = s /\ o = n
      BY <1>0, <1>1, <3>1, <3>3
    <3> QED
      BY <2>2, <3>2, <3>3
  <2>9. MaxRestarts = 0 => Numbered'
    <3> SUFFICES ASSUME MaxRestarts = 0, NEW t \in Symbols, NEW o \in book'[t]
                 PROVE  /\ o.seq <= seq' /\ o.born <= acted'
                        /\ \A p \in book'[t] : (o.seq < p.seq) <=> (o.born < p.born)
      BY DEF Numbered
    <3>1. \A r \in book[t] : /\ r.seq \in Nat /\ r.born \in Nat
                             /\ r.seq <= seq /\ r.born <= acted
                             /\ \A p \in book[t] : (r.seq < p.seq) <=> (r.born < p.born)
      BY DEF IInv, Numbered, TypeOK, Orders
    <3>2. CASE t # s
      BY <1>0, <2>2, <3>1, <3>2
    <3>3. CASE t = s
      <4>1. book'[t] = book[t] \cup {n}
        BY <2>2, <3>3
      <4>2. \A r \in book[t] : /\ r.seq < n.seq /\ r.born < n.born
                               /\ ~(n.seq < r.seq) /\ ~(n.born < r.born)
        BY <1>0, <1>1, <3>1
      <4> QED
        BY <1>0, <1>1, <3>1, <4>1, <4>2
    <3> QED
      BY <3>2, <3>3
  <2> QED
    BY <2>3, <2>4, <2>5, <2>6, <2>7, <2>8, <2>9 DEF IInv, Reliable
<1> QED
  BY <1>2, <1>3

\* A market order of a live account touches no book.
LEMMA MarketKeeps ==
  ASSUME IInv, NEW a \in Actions, NEW raised \in BOOLEAN, Market(a, raised)
  PROVE  IInv'
<1> DEFINE s == a.symbol
<1>0. /\ DOMAIN candles = {} /\ current = NoSymbol /\ queue = {}
      /\ acted' = acted + 1 /\ acted \in Nat /\ s \in Symbols /\ a.qty \in Int
      /\ last[s] \in Int /\ last[s] # Unknown /\ ~bankrupt /\ phase = "deciding"
      /\ UNCHANGED <<book, last, seq, bankrupt, seen, events, restarts>>
  BY ExecutorAssumption DEF IInv, TypeOK, Market, MayAct, executor, Unknown
<1>1. /\ position' \in [Symbols -> Int] /\ mark' \in [Symbols -> Int] /\ cash' \in Int
      /\ \A t \in Symbols \ {s} : position'[t] = position[t]
  <2>1. Slipped(last[s], a.qty) \in Int
    BY <1>0, BookAssumption DEF Slipped
  <2>2. Fill(s, a.qty, Slipped(last[s], a.qty)) /\ TypeOK
    BY DEF Market, IInv
  <2>3. /\ position' \in [Symbols -> Int] /\ mark' \in [Symbols -> Int] /\ cash' \in Int
        /\ position' = [position EXCEPT ![s] = position[s] + a.qty]
    BY <1>0, <2>1, <2>2, FillTypes
  <2> QED
    BY <2>2, <2>3 DEF TypeOK
<1>2. \/ /\ raised /\ TradesMayFail
         /\ phase' = "idle" /\ candles' = NoCandles
         /\ current' = NoSymbol /\ queue' = {} /\ flatten' = {}
      \/ /\ ~raised
         /\ phase' = phase /\ candles' = candles /\ current' = current
         /\ queue' = queue /\ flatten' = flatten
  BY DEF Market, Proceed
<1>3. DOMAIN candles' = {} /\ current' = NoSymbol /\ queue' = {}
      /\ phase' \in {"idle", "deciding"} /\ flatten' \in SUBSET Symbols
  BY <1>0, <1>2 DEF NoCandles, IInv, TypeOK
<1>4. TypeOK'
  BY <1>0, <1>1, <1>3 DEF IInv, TypeOK
<1>5. FiniteBooks' /\ BookSound' /\ DeadBooks'
  BY <1>0, <1>3 DEF IInv, FiniteBooks, BookSound, DeadBooks
<1>6. Reliable => Covered'
  <2>1. \A t \in Symbols : position'[t] # 0 => position[t] # 0 \/ t = s
    BY <1>1
  <2> QED
    BY <1>0, <1>3, <2>1 DEF IInv, Covered, Open
<1>7. ~TradesMayFail => Aged'
  <2>1. \A t \in Symbols : Charged(t)' = Charged(t)
    BY <1>0, <1>3 DEF Charged
  <2> QED
    BY <1>0, <2>1 DEF IInv, Aged
<1>8. MaxRestarts = 0 => Numbered'
  <2> SUFFICES ASSUME MaxRestarts = 0, NEW t \in Symbols, NEW o \in book[t]
               PROVE  /\ o.seq <= seq /\ o.born <= acted'
                      /\ \A p \in book[t] : (o.seq < p.seq) <=> (o.born < p.born)
    BY <1>0 DEF Numbered
  <2>1. /\ o.seq <= seq /\ o.born <= acted /\ o.born \in Nat
        /\ \A p \in book[t] : (o.seq < p.seq) <=> (o.born < p.born)
    BY DEF IInv, TypeOK, Numbered, Orders
  <2> QED
    BY <1>0, <2>1
<1> QED
  BY <1>4, <1>5, <1>6, <1>7, <1>8 DEF IInv, Reliable

\* A restart keeps the books; without one allowed it never happens.
LEMMA RestartKeeps ==
  ASSUME IInv, Restart
  PROVE  IInv'
<1>0. /\ phase = "idle" /\ MaxRestarts # 0 /\ restarts' = restarts + 1
      /\ seq' = 0 /\ bankrupt' = FALSE /\ last' = [s \in Symbols |-> Unknown]
      /\ UNCHANGED <<position, mark, cash, book, phase, candles, current, queue, flatten,
                     seen, acted, events>>
  BY ExecutorAssumption DEF Restart, IInv, TypeOK, account, control
<1>1. TypeOK'
  <2>1. last' \in [Symbols -> Nat \cup {Unknown}]
    BY <1>0
  <2>2. seq' \in Nat /\ restarts' \in Nat
    BY <1>0 DEF IInv, TypeOK
  <2>3. bankrupt' \in BOOLEAN
    BY <1>0
  <2> QED
    BY <1>0, <2>1, <2>2, <2>3 DEF IInv, TypeOK
<1>2. FiniteBooks' /\ BookSound' /\ DeadBooks'
  BY <1>0 DEF IInv, FiniteBooks, BookSound, DeadBooks
<1>3. ~TradesMayFail => Aged'
  BY <1>0 DEF IInv, Aged, Charged
<1> QED
  BY <1>0, <1>1, <1>2, <1>3 DEF IInv, Reliable

-----------------------------------------------------------------------------
\* The invariant is inductive: one case per action.
LEMMA StepKeeps == IInv /\ [Next]_vars => IInv'
<1> SUFFICES ASSUME IInv, [Next]_vars PROVE IInv'
  OBVIOUS
<1>1. ASSUME NEW S \in SUBSET Symbols, NEW cs \in EventsOf(S), BeginEvent(cs) PROVE IInv'
  BY <1>1, BeginEventKeeps
<1>2. ASSUME NEW s \in Symbols, TakeCandle(s) PROVE IInv'
  BY <1>2, TakeCandleKeeps
<1>3. ASSUME NEW o \in queue, NEW raised \in BOOLEAN, Match(o, raised) PROVE IInv'
  BY <1>3, MatchKeeps
<1>4. ASSUME NEW s \in Symbols, NEW raised \in BOOLEAN, Liquidate(s, raised) PROVE IInv'
  BY <1>4, LiquidateKeeps
<1>5. ASSUME NEW a \in Actions, Submit(a) PROVE IInv'
  BY <1>5, CancelKeeps, RestKeeps, MarketKeeps DEF Submit
<1>6. CASE UNCHANGED vars
  BY <1>6 DEF vars, IInv, TypeOK, FiniteBooks, BookSound, DeadBooks, Covered, Open,
              Aged, Charged, Numbered
<1> QED
  BY <1>1, <1>2, <1>3, <1>4, <1>5, <1>6, ExpireKeeps, MarkToMarketKeeps, EndKeeps,
     RestartKeeps DEF Next

(***************************************************************************)
(* The strengthened invariant holds of every executor.                     *)
(***************************************************************************)
THEOREM ExecutorInvariant == Spec => []IInv
BY InitIInv, StepKeeps, PTL DEF Spec

(***************************************************************************)
(* Types, and the control variables of an event fit together.              *)
(***************************************************************************)
THEOREM ExecutorTypes == Spec => []TypeOK
BY ExecutorInvariant, PTL DEF IInv

(***************************************************************************)
(* Ids stay unique and books bounded, over failures and restarts alike.    *)
(***************************************************************************)
THEOREM BooksStaySound == Spec => []BookSound
BY ExecutorInvariant, PTL DEF IInv

(***************************************************************************)
(* Each order of a book is the order of one submission: what Born adds to  *)
(* the invariant, so that an order is known again after a candle.          *)
(***************************************************************************)
Born ==
  \A s \in Symbols : \A o \in book[s] :
    /\ o.born <= acted
    /\ \A p \in book[s] : o.born = p.born => o = p

(***************************************************************************)
(* What a step may do to a book: take orders out, age it by the candle     *)
(* that is done with, or rest the order of a new submission in it.         *)
(***************************************************************************)
Dwindles(s) == book'[s] \subseteq book[s] /\ acted' \in Nat /\ acted <= acted'
Ages(s) == Expire /\ s = current
Takes(s) ==
  /\ acted' = acted + 1
  /\ \E n \in Orders : n.born = acted + 1 /\ book'[s] \subseteq book[s] \cup {n}

LEMMA StepBooks ==
  ASSUME IInv, Next, NEW s \in Symbols
  PROVE  Dwindles(s) \/ Ages(s) \/ Takes(s)
<1>0. /\ book \in [Symbols -> SUBSET Orders] /\ acted \in Nat
      /\ seq \in Nat /\ seen \in [Symbols -> Nat]
  BY DEF IInv, TypeOK
<1>1. ASSUME book' = book, acted' = acted PROVE Dwindles(s)
  BY <1>0, <1>1 DEF Dwindles
<1>2. ASSUME NEW S \in SUBSET Symbols, NEW cs \in EventsOf(S), BeginEvent(cs)
      PROVE  Dwindles(s)
  BY <1>1, <1>2 DEF BeginEvent
<1>3. ASSUME NEW t \in Symbols, TakeCandle(t) PROVE Dwindles(s)
  BY <1>1, <1>3 DEF TakeCandle, counters
<1>4. ASSUME NEW o \in queue, NEW raised \in BOOLEAN, Match(o, raised) PROVE Dwindles(s)
  BY <1>0, <1>4 DEF Match, counters, Dwindles
<1>5. CASE Expire
  <2>1. CASE s = current
    BY <1>5, <2>1 DEF Ages
  <2>2. CASE s # current
    BY <1>0, <1>5, <2>2 DEF Expire, counters, Dwindles
  <2> QED
    BY <2>1, <2>2
<1>6. CASE MarkToMarket
  BY <1>0, <1>6 DEF MarkToMarket, StartLiquidation, counters, Dwindles
<1>7. ASSUME NEW t \in Symbols, NEW raised \in BOOLEAN, Liquidate(t, raised)
      PROVE  Dwindles(s)
  BY <1>1, <1>7 DEF Liquidate, counters
<1>8. CASE EndLiquidation \/ EndEvent \/ Restart
  BY <1>1, <1>8 DEF EndLiquidation, EndEvent, Restart, counters
<1>9. ASSUME NEW a \in Actions, Cancel(a) PROVE Dwindles(s)
  BY <1>0, <1>9 DEF Cancel, Dwindles
<1>10. ASSUME NEW a \in Actions, NEW raised \in BOOLEAN, Market(a, raised)
       PROVE  Dwindles(s)
  BY <1>0, <1>10 DEF Market, Dwindles
<1>11. ASSUME NEW a \in Actions, Rest(a) PROVE Dwindles(s) \/ Takes(s)
  <2>1. acted' = acted + 1 /\ a.symbol \in Symbols
    BY <1>11, ExecutorAssumption DEF Rest
  <2>2. CASE ~Registers(book[a.symbol], a)
    BY <1>0, <1>11, <2>1, <2>2 DEF Rest, Dwindles
  <2>3. CASE Registers(book[a.symbol], a)
    <3> DEFINE n == OrderOf(a, seq + 1, acted + 1, seen[a.symbol])
    <3>1. n \in Orders /\ n.born = acted + 1
      BY <1>0, <2>1, ExecutorAssumption DEF OrderOf, Orders, GTC
    <3>2. book' = [book EXCEPT ![a.symbol] = @ \cup {n}]
      BY <1>11, <2>3 DEF Rest
    <3> HIDE DEF n
    <3>3. book'[s] \subseteq book[s] \cup {n}
      BY <1>0, <2>1, <3>2
    <3> QED
      BY <2>1, <3>1, <3>3 DEF Takes
  <2> QED
    BY <2>2, <2>3
<1>12. ASSUME NEW a \in Actions, Submit(a) PROVE Dwindles(s) \/ Takes(s)
  BY <1>9, <1>10, <1>11, <1>12 DEF Submit
<1> QED
  BY <1>2, <1>3, <1>4, <1>5, <1>6, <1>7, <1>8, <1>12 DEF Next

\* A candle leaves of a book the orders that had more than it to live, each itself.
LEMMA AgedBook ==
  ASSUME IInv, Expire
  PROVE  /\ current \in Symbols /\ book'[current] = Ticked(book[current])
         /\ \A o \in book[current] : Tick(o).born = o.born
         /\ \A p \in book'[current] : \E o \in book[current] :
              /\ o.left = GTC \/ o.left > 1
              /\ p = Tick(o) /\ p.born = o.born
<1>1. /\ current \in Symbols /\ IsFiniteSet(book[current])
      /\ \A o \in book[current] : o \in Orders
  BY DEF IInv, TypeOK, FiniteBooks, Expire
<1>2. book'[current] = Ticked(book[current])
  BY <1>1 DEF Expire, IInv, TypeOK
<1>3. \A o \in book[current] : Tick(o).born = o.born
  BY <1>1 DEF Tick, Orders
<1> QED
  BY <1>1, <1>2, <1>3, TickedBook

LEMMA BornKeeps == IInv /\ Born /\ [Next]_vars => Born'
<1> SUFFICES ASSUME IInv, Born, [Next]_vars, NEW s \in Symbols
             PROVE  \A o \in book'[s] : /\ o.born <= acted'
                                        /\ \A p \in book'[s] : o.born = p.born => o = p
  BY DEF Born
<1>0. /\ acted \in Nat
      /\ \A o \in book[s] : o.born \in Nat /\ o.born <= acted
      /\ \A o, p \in book[s] : o.born = p.born => o = p
  BY DEF IInv, TypeOK, Orders, Born
<1>1. CASE UNCHANGED vars
  BY <1>0, <1>1 DEF vars
<1>2. CASE Next
  <2>1. CASE Dwindles(s)
    BY <1>0, <2>1 DEF Dwindles
  <2>2. CASE Ages(s)
    <3>1. acted' = acted
      BY <2>2 DEF Ages, Expire, counters
    <3> QED
      BY <1>0, <2>2, <3>1, AgedBook DEF Ages
  <2>3. CASE Takes(s)
    <3>1. PICK n \in Orders : n.born = acted + 1 /\ book'[s] \subseteq book[s] \cup {n}
      BY <2>3 DEF Takes
    <3>2. acted' = acted + 1
      BY <2>3 DEF Takes
    <3> QED
      BY <1>0, <3>1, <3>2
  <2> QED
    BY <1>2, <2>1, <2>2, <2>3, StepBooks
<1> QED
  BY <1>1, <1>2

(***************************************************************************)
(* As long as the recorder takes every trade, restarts included, an order  *)
(* rests through the candles of its life and no more, and leaves before    *)
(* only by being triggered, cancelled or liquidated.                       *)
(***************************************************************************)
THEOREM OrdersExpireExactly == ASSUME ~TradesMayFail PROVE Spec => ExpiryExact
<1> DEFINE lived(s, o) == seen[s] - o.since
           rests(s, o) == \E p \in book'[s] : p.born = o.born
           A == \A s \in Symbols : \A o \in book[s] :
                  IF s \in DOMAIN candles \ DOMAIN candles'
                  THEN rests(s, o) <=> o.life = GTC \/ lived(s, o) < o.life
                  ELSE rests(s, o) \/ o \in queue \/ acted' # acted \/ bankrupt' # bankrupt
<1>1. IInv /\ Born /\ [Next]_vars => [A]_vars
  <2> SUFFICES ASSUME IInv, Born, Next, NEW s \in Symbols, NEW o \in book[s]
               PROVE  IF s \in DOMAIN candles \ DOMAIN candles'
                      THEN rests(s, o) <=> o.life = GTC \/ lived(s, o) < o.life
                      ELSE rests(s, o) \/ o \in queue \/ acted' # acted
                                       \/ bankrupt' # bankrupt
    OBVIOUS
  <2>0. /\ book \in [Symbols -> SUBSET Orders] /\ acted \in Nat
        /\ phase # "matching" => DOMAIN candles = {}
    BY DEF IInv, TypeOK
  <2>1. ASSUME book' = book PROVE rests(s, o)
    BY <2>1
  <2>2. ASSUME NEW S \in SUBSET Symbols, NEW cs \in EventsOf(S), BeginEvent(cs)
        PROVE  DOMAIN candles = {} /\ book' = book
    BY <2>0, <2>2 DEF BeginEvent
  <2>3. ASSUME NEW t \in Symbols, TakeCandle(t) PROVE candles' = candles /\ book' = book
    BY <2>3 DEF TakeCandle
  <2>4. ASSUME NEW m \in queue, NEW raised \in BOOLEAN, Match(m, raised)
        PROVE  candles' = candles /\ (rests(s, o) \/ o \in queue)
    <3>1. candles' = candles
      BY <2>4 DEF Match, Proceed
    <3>2. o \in book'[s] \/ o = m
      BY <2>0, <2>4 DEF Match
    <3> QED
      BY <3>1, <3>2
  <2>5. CASE Expire
    <3>1. CASE s = current
      <4>1. s \in DOMAIN candles \ DOMAIN candles'
        BY <2>5, <3>1 DEF Expire, IInv, TypeOK
      <4>2. rests(s, o) <=> o.left = GTC \/ o.left > 1
        <5>1. ASSUME rests(s, o) PROVE o.left = GTC \/ o.left > 1
          BY <2>5, <3>1, <5>1, AgedBook DEF Born
        <5>2. ASSUME o.left = GTC \/ o.left > 1 PROVE rests(s, o)
          <6>1. Tick(o) \in Ticked(book[s])
            BY <5>2 DEF Ticked
          <6>2. Tick(o) \in book'[s] /\ Tick(o).born = o.born
            BY <2>5, <3>1, <6>1, AgedBook
          <6> QED
            BY <6>2
        <5> QED
          BY <5>1, <5>2
      <4>3. /\ o.life = GTC => o.left = GTC
            /\ o.life # GTC => o.left = o.life - (seen[s] - 1 - o.since) /\ o.left > 0
        BY <4>1 DEF IInv, Aged, Charged
      <4>4. o.life \in Int /\ o.left \in Int /\ o.since \in Nat /\ seen[s] \in Nat
        BY <2>0 DEF Orders, IInv, TypeOK
      <4>5. (o.left = GTC \/ o.left > 1) <=> o.life = GTC \/ lived(s, o) < o.life
        BY <4>3, <4>4 DEF GTC
      <4> QED
        BY <4>1, <4>2, <4>5
    <3>2. CASE s # current
      <4>1. s \notin DOMAIN candles \ DOMAIN candles'
        BY <2>5, <3>2 DEF Expire
      <4>2. book'[s] = book[s]
        BY <2>0, <2>5, <3>2 DEF Expire
      <4> QED
        BY <4>1, <4>2
    <3> QED
      BY <3>1, <3>2
  <2>6. CASE MarkToMarket
    <3>1. candles' = candles
      BY <2>6 DEF MarkToMarket
    <3>2. book' = book \/ bankrupt' # bankrupt
      BY <2>6 DEF MarkToMarket, StartLiquidation
    <3> QED
      BY <2>1, <3>1, <3>2
  <2>7. ASSUME NEW t \in Symbols, NEW raised \in BOOLEAN, Liquidate(t, raised)
        PROVE  DOMAIN candles = {} /\ book' = book
    BY <2>0, <2>7 DEF Liquidate
  <2>8. CASE EndLiquidation \/ EndEvent \/ Restart
    BY <2>1, <2>8 DEF EndLiquidation, EndEvent, Restart, control
  <2>9. ASSUME NEW a \in Actions, Submit(a) PROVE acted' # acted /\ DOMAIN candles = {}
    BY <2>0, <2>9 DEF Submit, Cancel, Rest, Market, MayAct
  <2> HIDE DEF rests, lived
  <2> QED
    BY <2>1, <2>2, <2>3, <2>4, <2>5, <2>6, <2>7, <2>8, <2>9 DEF Next
<1>2. Init => Born
  BY DEF Init, Born
<1>3. Spec => []Born
  BY <1>2, BornKeeps, ExecutorInvariant, PTL DEF Spec
<1> QED
  BY <1>1, <1>3, ExecutorInvariant, PTL DEF Spec, ExpiryExact

(***************************************************************************)
(* In a process that never restarts and whose recorder never raises, the   *)
(* liquidation leaves nothing open and no order: the two ways to break the *)
(* promise are the only ones.                                              *)
(***************************************************************************)
THEOREM LiquidationIsComplete == ASSUME Reliable PROVE Spec => []BankruptIsFlat
<1>1. IInv => BankruptIsFlat
  BY DEF IInv, Covered, DeadBooks, BankruptIsFlat
<1> QED
  BY <1>1, ExecutorInvariant, PTL

(***************************************************************************)
(* A liquidated account only ever closes positions, and rests no order.    *)
(***************************************************************************)
THEOREM TheDeadDoNotTrade == Spec => DeadStaysDead
<1> DEFINE A == bankrupt => \A s \in Symbols : /\ book'[s] = {}
                                               /\ position'[s] \in {position[s], 0}
<1>1. IInv /\ [Next]_vars => [A]_vars
  <2> SUFFICES ASSUME IInv, Next, bankrupt, NEW s \in Symbols
               PROVE  book'[s] = {} /\ position'[s] \in {position[s], 0}
    OBVIOUS
  <2>1. book[s] = {} /\ \A t \in Symbols : book[t] = {}
    BY DEF IInv, DeadBooks
  <2>2. position \in [Symbols -> Int] /\ book \in [Symbols -> SUBSET Orders]
    BY DEF IInv, TypeOK
  <2>3. queue = {}
    BY <2>1 DEF IInv, TypeOK
  <2>4. ASSUME NEW S \in SUBSET Symbols, NEW cs \in EventsOf(S), BeginEvent(cs)
        PROVE  book' = book /\ position' = position
    BY <2>4 DEF BeginEvent, account
  <2>5. ASSUME NEW t \in Symbols, TakeCandle(t) PROVE book' = book /\ position' = position
    BY <2>5 DEF TakeCandle, account
  <2>6. CASE Expire
    <3>1. position' = position /\ book' = [book EXCEPT ![current] = Ticked(book[current])]
      BY <2>6 DEF Expire, account
    <3>2. current \in Symbols /\ Ticked(book[current]) = {}
      BY <2>1, <2>6 DEF Expire, IInv, TypeOK, Ticked
    <3>3. book'[s] = {}
      <4>1. CASE s = current
        BY <2>2, <3>1, <3>2, <4>1
      <4>2. CASE s # current
        BY <2>1, <2>2, <3>1, <4>2
      <4> QED
        BY <4>1, <4>2
    <3> QED
      BY <3>1, <3>3
  <2>7. CASE MarkToMarket
    <3>1. book' = book /\ position' = position
      BY <2>7 DEF MarkToMarket
    <3> QED
      BY <2>1, <3>1
  <2>8. ASSUME NEW t \in Symbols, NEW raised \in BOOLEAN, Liquidate(t, raised)
        PROVE  book' = book /\ position'[s] \in {position[s], 0}
    <3>1. book' = book /\ position' = [position EXCEPT ![t] = position[t] + (-position[t])]
      BY <2>8 DEF Liquidate, Fill
    <3>2. position[t] + (-position[t]) = 0
      BY <2>2
    <3>3. position' = [position EXCEPT ![t] = 0]
      BY <3>1, <3>2
    <3> QED
      BY <2>2, <3>1, <3>3
  <2>9. CASE EndLiquidation \/ EndEvent
    BY <2>1, <2>9 DEF EndLiquidation, EndEvent, account
  <2>10. CASE Restart
    BY <2>1, <2>10 DEF Restart, account
  <2>11. ASSUME NEW a \in Actions PROVE ~Submit(a)
    BY DEF Submit, Cancel, Rest, Market, MayAct
  <2> QED
    BY <2>1, <2>3, <2>4, <2>5, <2>6, <2>7, <2>8, <2>9, <2>10, <2>11 DEF Next
<1> QED
  BY <1>1, ExecutorInvariant, PTL DEF Spec, DeadStaysDead

(***************************************************************************)
(* A reduce-only order never enlarges or turns a position.                 *)
(***************************************************************************)
THEOREM ReduceOnlyNeverOpens == Spec => ReduceOnlyShrinks
<1> DEFINE A == \A s \in Symbols : \A o \in book[s] :
                  o.reduceOnly /\ o \notin book'[s] /\ position'[s] # position[s] =>
                    Shrinks(position[s], position'[s])
<1>1. IInv /\ [Next]_vars => [A]_vars
  <2> SUFFICES ASSUME IInv, Next, NEW s \in Symbols, NEW o \in book[s],
                      o.reduceOnly, o \notin book'[s], position'[s] # position[s]
               PROVE  Shrinks(position[s], position'[s])
    OBVIOUS
  <2>1. position \in [Symbols -> Int] /\ book \in [Symbols -> SUBSET Orders]
    BY DEF IInv, TypeOK
  <2>2. ASSUME NEW p \in queue, NEW raised \in BOOLEAN, Match(p, raised)
        PROVE  Shrinks(position[s], position'[s])
    <3> DEFINE q == FillQty(p, position[current])
    <3>1. current \in Symbols
      BY <2>2 DEF IInv, TypeOK
    <3>2. q # 0 /\ position' = [position EXCEPT ![current] = position[current] + q]
      BY <2>2 DEF Match, Fill, account
    <3>3. s = current /\ p = o
      BY <2>1, <2>2, <3>1, <3>2 DEF Match
    <3>4. Shrinks(position[s], position[s] + q)
      BY <2>1, <3>2, <3>3, FillQtyReduces
    <3> QED
      BY <2>1, <3>2, <3>3, <3>4
  <2>3. ASSUME NEW t \in Symbols, NEW raised \in BOOLEAN PROVE ~Liquidate(t, raised)
    BY DEF Liquidate
  <2>4. ASSUME NEW a \in Actions PROVE ~Submit(a)
    BY DEF Submit, Cancel, Rest, Market, account
  <2>5. ~Expire /\ ~MarkToMarket /\ ~EndLiquidation /\ ~EndEvent /\ ~Restart
    BY DEF Expire, MarkToMarket, EndLiquidation, EndEvent, Restart, account
  <2>6. /\ \A S \in SUBSET Symbols : \A cs \in EventsOf(S) : ~BeginEvent(cs)
        /\ \A t \in Symbols : ~TakeCandle(t)
    BY DEF BeginEvent, TakeCandle, account
  <2> QED
    BY <2>2, <2>3, <2>4, <2>5, <2>6 DEF Next
<1> QED
  BY <1>1, ExecutorInvariant, PTL DEF Spec, ReduceOnlyShrinks

(***************************************************************************)
(* In a process that never restarts, orders of a kind that one candle      *)
(* fills go in the order they were submitted, stops before limits.         *)
(***************************************************************************)
THEOREM OrdersFillInTurn == ASSUME MaxRestarts = 0 PROVE Spec => FillsInSubmissionOrder
<1> DEFINE A == \A o \in queue : \A p \in queue' :
                  o \notin queue' =>
                    \/ o.type = "stop" /\ p.type = "limit"
                    \/ o.type = p.type /\ o.born < p.born
<1>1. IInv /\ [Next]_vars => [A]_vars
  <2> SUFFICES ASSUME IInv, Next, NEW o \in queue, NEW p \in queue', o \notin queue'
               PROVE  \/ o.type = "stop" /\ p.type = "limit"
                      \/ o.type = p.type /\ o.born < p.born
    OBVIOUS
  <2>1. current \in Symbols /\ queue \subseteq book[current] /\ current # NoSymbol
        /\ phase = "matching"
    BY ExecutorAssumption DEF IInv, TypeOK
  <2>2. ASSUME NEW r \in queue, NEW raised \in BOOLEAN, Match(r, raised)
        PROVE  \/ o.type = "stop" /\ p.type = "limit"
               \/ o.type = p.type /\ o.born < p.born
    <3>1. queue' = queue \ {r}
      BY <2>2 DEF Match, Proceed
    <3>2. r = o /\ p \in queue \ {o} /\ Earlier(o, p)
      BY <2>2, <3>1 DEF Match
    <3>3. o \in Orders /\ p \in Orders
          /\ ((o.seq < p.seq) <=> (o.born < p.born))
          /\ ((p.seq < o.seq) <=> (p.born < o.born))
      BY <2>1, <3>2 DEF IInv, TypeOK, Numbered
    <3> QED
      BY <3>2, <3>3 DEF Earlier, Orders
  <2>3. \A s \in Symbols : ~TakeCandle(s)
    BY <2>1 DEF TakeCandle
  <2>4. ~Expire /\ ~MarkToMarket /\ ~EndLiquidation /\ ~EndEvent /\ ~Restart
    BY <2>1 DEF Expire, MarkToMarket, EndLiquidation, EndEvent, Restart
  <2>5. /\ \A S \in SUBSET Symbols : \A cs \in EventsOf(S) : ~BeginEvent(cs)
        /\ \A s \in Symbols, raised \in BOOLEAN : ~Liquidate(s, raised)
        /\ \A a \in Actions : ~Submit(a)
    BY <2>1 DEF BeginEvent, Liquidate, Submit, Cancel, Rest, Market, MayAct
  <2> QED
    BY <2>2, <2>3, <2>4, <2>5 DEF Next
<1> QED
  BY <1>1, ExecutorInvariant, PTL DEF Spec, FillsInSubmissionOrder

(***************************************************************************)
(* The strategy of a live account is only asked when its positions, worth  *)
(* what they were last known to close at, leave it some equity.  The sum   *)
(* over the symbols is never expanded: both sides sum the same worths.     *)
(***************************************************************************)
THEOREM DecisionsAreSolvent == Spec => DecidesSolvent
<1> DEFINE closes == [s \in Symbols |-> last[s]]
           A == /\ phase # "deciding" /\ phase' = "deciding" /\ ~bankrupt'
                /\ \A s \in Symbols : Open(s) => last[s] # Unknown
                => ~(EquityAt(position, closes) <= 0)
<1>1. IInv /\ [Next]_vars => [A]_vars
  <2> SUFFICES ASSUME IInv, Next, phase # "deciding", phase' = "deciding", ~bankrupt',
                      \A s \in Symbols : Open(s) => last[s] # Unknown
               PROVE  ~(EquityAt(position, closes) <= 0)
    OBVIOUS
  <2>1. MarkToMarket
    <3>1. ASSUME NEW S \in SUBSET Symbols, NEW cs \in EventsOf(S) PROVE ~BeginEvent(cs)
      BY DEF BeginEvent
    <3>2. ASSUME NEW s \in Symbols PROVE ~TakeCandle(s)
      BY DEF TakeCandle
    <3>3. ASSUME NEW o \in queue, NEW raised \in BOOLEAN PROVE ~Match(o, raised)
      BY DEF Match, Proceed
    <3>4. ASSUME NEW s \in Symbols, NEW raised \in BOOLEAN PROVE ~Liquidate(s, raised)
      BY DEF Liquidate, Proceed
    <3>5. ~Expire /\ ~EndEvent /\ ~Restart
      BY DEF Expire, EndEvent, Restart
    <3>6. ~EndLiquidation
      BY DEF EndLiquidation, executor, IInv, DeadBooks
    <3>7. ASSUME NEW a \in Actions PROVE ~Submit(a)
      BY DEF Submit, Cancel, Rest, Market, MayAct
    <3> QED
      BY <3>1, <3>2, <3>3, <3>4, <3>5, <3>6, <3>7 DEF Next
  <2>2. ~(EquityAt(position, Marked) <= 0)
    BY <2>1 DEF MarkToMarket, StartLiquidation
  <2>3. ASSUME NEW s \in Symbols
        PROVE  position[s] * Marked[s] = position[s] * closes[s]
    <3>1. position[s] \in Int /\ Marked[s] \in Int /\ closes[s] \in Int
      BY DEF IInv, TypeOK, Marked, Unknown
    <3>2. CASE Open(s)
      BY <3>2 DEF Marked
    <3>3. CASE ~Open(s)
      BY <3>1, <3>3 DEF Open
    <3> QED
      BY <3>2, <3>3
  <2>4. [s \in Symbols |-> position[s] * Marked[s]]
        = [s \in Symbols |-> position[s] * closes[s]]
    BY <2>3
  <2> QED
    BY <2>2, <2>4 DEF EquityAt
<1> QED
  BY <1>1, ExecutorInvariant, PTL DEF Spec, DecidesSolvent

=============================================================================

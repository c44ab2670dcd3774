------------------------ MODULE TradingEngineProofs ------------------------
(***************************************************************************)
(* Proofs about TradingEngine, for every set of symbols, interval, window, *)
(* back-fill limit and bound on the starts.                                *)
(***************************************************************************)
EXTENDS TradingEngine, TLAPS

-----------------------------------------------------------------------------
(* Arithmetic of the candle grid.                                          *)

\* A remainder does not change when a whole interval is taken away.
LEMMA StepKeepsGrid ==
  ASSUME NEW x \in Int
  PROVE  (x - Interval) % Interval = x % Interval
<1>1. Interval \in Nat /\ Interval > 0
  BY IntervalAssumption
<1>2. PICK q \in Int, r \in 0..(Interval - 1) : x = Interval * q + r
  <2>1. x = Interval * (x \div Interval) + (x % Interval)
    BY <1>1, SMT
  <2>2. x \div Interval \in Int /\ x % Interval \in 0..(Interval - 1)
    BY <1>1, SMT
  <2> QED BY <2>1, <2>2
<1>3. x - Interval = Interval * (q - 1) + r
  BY <1>1, <1>2, SMT
<1>4. x % Interval = r
  BY <1>1, <1>2, SMT
<1>5. (x - Interval) % Interval = r
  BY <1>1, <1>2, <1>3, SMT
<1> QED BY <1>4, <1>5

\* On the grid, the next candle after a is at least one interval away.
LEMMA GridGap ==
  ASSUME NEW a \in Int, NEW e \in Int, a < e, (e - a) % Interval = 0
  PROVE  a + Interval <= e
<1>1. Interval \in Nat /\ Interval > 0
  BY IntervalAssumption
<1>2. CASE e - a < Interval
  <2>1. (e - a) % Interval = e - a
    BY <1>1, <1>2, SMT
  <2> QED BY <2>1
<1>3. CASE e - a >= Interval
  BY <1>1, <1>3, SMT
<1> QED BY <1>1, <1>2, <1>3, SMT

-----------------------------------------------------------------------------
(* The inductive invariant.                                                *)

\* Nothing beyond the anchor has been consumed or decided on.
Fresh ==
  \A s \in Symbols, c \in Starts :
    anchor[s] < c => fed[s][c] = 0 /\ decided[s][c] = 0 /\ <<s, c>> \notin lost

\* The candle of s in the event in hand is the one after the anchor.
NextInLine(s) ==
  /\ anchor[s] < event.start
  /\ HasHistory /\ anchor[s] # None => event.start = anchor[s] + Interval

\* The symbols already judged have nothing missing.
Judged ==
  phase \in {"checking", "fetching", "replaying"} =>
    /\ event \in Events
    /\ \A s \in event.symbols \ todo : NextInLine(s)

\* A back-fill is under way for a symbol on the grid, behind the event, or for none.
Filling ==
  IF phase \in {"fetching", "replaying"}
  THEN /\ current \in todo
       /\ HasHistory
       /\ anchor[current] # None
       /\ anchor[current] < event.start
       /\ Aligned(current)
  ELSE current = NoSymbol

\* What is left to replay is what is left of the gap.
Replaying == phase = "replaying" => batch = Missing(current)

WarmingUp == phase = "warmup" => \A s \in Symbols : anchor[s] = None

IInv ==
  /\ TypeOK
  /\ AtMostOnce
  /\ NoHole
  /\ Fresh
  /\ Judged
  /\ Filling
  /\ Replaying
  /\ WarmingUp

\* The invariant holds before the warm-up.
THEOREM InitIInv == Init => IInv
<1> SUFFICES ASSUME Init PROVE IInv
  OBVIOUS
<1>1. TypeOK
  BY SymbolAssumption DEF Init, TypeOK, Phases, Starts, None, NoEvent, Events
<1>2. AtMostOnce /\ Fresh /\ NoHole
  BY DEF Init, AtMostOnce, Fresh, NoHole, Consumed
<1>3. Judged /\ Filling /\ Replaying /\ WarmingUp
  BY DEF Init, Judged, Filling, Replaying, WarmingUp
<1> QED BY <1>1, <1>2, <1>3 DEF IInv

-----------------------------------------------------------------------------
(* The candles of a gap.                                                   *)

\* The earliest candle of a gap is the one after the anchor.
LEMMA FirstMissing ==
  ASSUME TypeOK, Filling, phase \in {"fetching", "replaying"},
         NEW c \in Missing(current), \A d \in Missing(current) : c <= d
  PROVE  /\ c = anchor[current] + Interval
         /\ c \in Starts
<1> DEFINE a == anchor[current]
<1>1. /\ current \in Symbols /\ a \in Starts
      /\ event.start \in Starts /\ a < event.start
      /\ Interval \in Nat /\ Interval > 0 /\ MaxStart \in Nat
  BY IntervalAssumption, BoundAssumption, SymbolAssumption
     DEF TypeOK, Filling, Events, NoEvent, None, Starts
<1>2. c \in Starts /\ a < c /\ c < event.start /\ (c - a) % Interval = 0
  BY DEF Missing
<1>3. a + Interval <= c
  BY <1>1, <1>2, GridGap DEF Starts
<1>4. a + Interval \in Missing(current)
  <2>1. a + Interval \in Starts /\ a < a + Interval /\ a + Interval < event.start
    BY <1>1, <1>2, <1>3 DEF Starts
  <2>2. ((a + Interval) - a) % Interval = 0
    <3>1. (a + Interval) - a = Interval
      BY <1>1 DEF Starts
    <3>2. Interval % Interval = 0
      BY <1>1, SMT
    <3> QED BY <3>1, <3>2
  <2> QED BY <2>1, <2>2 DEF Missing
<1>5. c <= a + Interval
  BY <1>4
<1> QED BY <1>1, <1>2, <1>3, <1>5 DEF Starts

\* Once it is taken, what is left of the gap is the gap behind the new anchor.
LEMMA RestOfGap ==
  ASSUME TypeOK, Filling, phase \in {"fetching", "replaying"},
         NEW c \in Missing(current), c = anchor[current] + Interval
  PROVE  Missing(current) \ {c}
           = {d \in Starts : c < d /\ d < event.start /\ (d - c) % Interval = 0}
<1> DEFINE a == anchor[current]
           rest == {d \in Starts : c < d /\ d < event.start /\ (d - c) % Interval = 0}
<1>1. /\ a \in Starts /\ Interval \in Nat /\ Interval > 0 /\ c \in Starts
  BY IntervalAssumption, SymbolAssumption DEF TypeOK, Filling, Events, NoEvent, Missing
<1>2. ASSUME NEW d \in Starts
      PROVE  (d - a) % Interval = (d - c) % Interval
  <2>1. d - c = (d - a) - Interval /\ d - a \in Int
    BY <1>1 DEF Starts
  <2> QED BY <2>1, StepKeepsGrid
<1>3. ASSUME NEW d \in Missing(current), d # c
      PROVE  d \in rest
  <2>1. d \in Starts /\ a < d /\ d < event.start /\ (d - a) % Interval = 0
    BY DEF Missing
  <2>2. a + Interval <= d
    BY <1>1, <2>1, GridGap DEF Starts
  <2> QED BY <1>1, <1>2, <1>3, <2>1, <2>2 DEF Starts
<1>4. ASSUME NEW d \in rest
      PROVE  d \in Missing(current) \ {c}
  BY <1>1, <1>2 DEF Missing, Starts
<1> QED BY <1>3, <1>4

\* The event is still on the grid seen from the next candle of the gap.
LEMMA StaysAligned ==
  ASSUME TypeOK, Filling, phase \in {"fetching", "replaying"},
         NEW c \in Starts, c = anchor[current] + Interval
  PROVE  (event.start - c) % Interval = 0
<1>1. /\ anchor[current] \in Starts /\ event.start \in Starts
      /\ (event.start - anchor[current]) % Interval = 0
      /\ Interval \in Nat
  BY IntervalAssumption, SymbolAssumption
     DEF TypeOK, Filling, Aligned, Elapsed, Events, NoEvent, None, Starts
<1>2. /\ event.start - c = (event.start - anchor[current]) - Interval
      /\ event.start - anchor[current] \in Int
  BY <1>1 DEF Starts
<1> QED BY <1>1, <1>2, StepKeepsGrid

\* With nothing left to replay the event is the next candle.
LEMMA GapClosed ==
  ASSUME TypeOK, Filling, phase \in {"fetching", "replaying"}, Missing(current) = {}
  PROVE  event.start = anchor[current] + Interval
<1> DEFINE a == anchor[current]
           e == event.start
<1>1. /\ current \in Symbols /\ a \in Starts
      /\ e \in Starts /\ a < e /\ (e - a) % Interval = 0
      /\ Interval \in Nat /\ Interval > 0 /\ MaxStart \in Nat
  BY IntervalAssumption, BoundAssumption, SymbolAssumption
     DEF TypeOK, Filling, Aligned, Elapsed, Events, NoEvent, None, Starts
<1>2. a + Interval <= e
  BY <1>1, GridGap DEF Starts
<1>3. CASE a + Interval < e
  <2>1. a + Interval \in Starts /\ a < a + Interval
    BY <1>1, <1>3 DEF Starts
  <2>2. ((a + Interval) - a) % Interval = 0
    <3>1. (a + Interval) - a = Interval
      BY <1>1 DEF Starts
    <3>2. Interval % Interval = 0
      BY <1>1, SMT
    <3> QED BY <3>1, <3>2
  <2>3. a + Interval \in Missing(current)
    BY <1>3, <2>1, <2>2 DEF Missing
  <2> QED BY <2>3
<1> QED BY <1>1, <1>2, <1>3 DEF Starts

-----------------------------------------------------------------------------
(* Consuming the next candle of some symbols, live or replayed.            *)

\* Taking the next candle of some symbols leaves no hole and feeds nothing twice.
LEMMA Consuming ==
  ASSUME TypeOK, AtMostOnce, NoHole, Fresh,
         NEW ss \in SUBSET Symbols, NEW c \in Starts, NEW ok \in SUBSET ss,
         NEW decide \in BOOLEAN, NEW raised \in BOOLEAN,
         ProcessEvent(ss, c, decide, ok, raised),
         \A s \in ss : /\ anchor[s] < c
                       /\ HasHistory /\ anchor[s] # None => c = anchor[s] + Interval,
         anchor' = [s \in Symbols |-> IF s \in ss THEN c ELSE anchor[s]]
  PROVE  /\ anchor' \in [Symbols -> Starts \cup {None}]
         /\ fed' \in [Symbols -> [Starts -> Nat]]
         /\ decided' \in [Symbols -> [Starts -> Nat]]
         /\ lost' \in SUBSET (Symbols \X Starts)
         /\ AtMostOnce'
         /\ NoHole'
         /\ Fresh'
<1>1. /\ anchor' \in [Symbols -> Starts \cup {None}]
      /\ fed' \in [Symbols -> [Starts -> Nat]]
      /\ decided' \in [Symbols -> [Starts -> Nat]]
      /\ lost' \in SUBSET (Symbols \X Starts)
  BY DEF TypeOK, ProcessEvent
<1>2. /\ \A s \in Symbols \ ss, d \in Starts :
           /\ fed'[s][d] = fed[s][d] /\ decided'[s][d] = decided[s][d]
           /\ <<s, d>> \in lost' <=> <<s, d>> \in lost
      /\ \A s \in ss, d \in Starts \ {c} :
           /\ fed'[s][d] = fed[s][d] /\ decided'[s][d] = decided[s][d]
           /\ <<s, d>> \in lost' <=> <<s, d>> \in lost
      /\ \A s \in ss : /\ fed'[s][c] \in {fed[s][c], fed[s][c] + 1}
                       /\ decided'[s][c] \in {decided[s][c], decided[s][c] + 1}
                       /\ fed'[s][c] = fed[s][c] + 1 \/ <<s, c>> \in lost'
  BY DEF TypeOK, ProcessEvent
<1>3. \A s \in ss : fed[s][c] = 0 /\ decided[s][c] = 0 /\ <<s, c>> \notin lost
  BY DEF Fresh
<1>4. AtMostOnce'
  <2> SUFFICES ASSUME NEW s \in Symbols, NEW d \in Starts
               PROVE  fed'[s][d] <= 1 /\ decided'[s][d] <= 1
    BY DEF AtMostOnce
  <2>1. fed[s][d] <= 1 /\ decided[s][d] <= 1
    BY DEF AtMostOnce
  <2>2. CASE s \in ss /\ d = c
    <3>1. /\ fed'[s][c] \in {fed[s][c], fed[s][c] + 1}
          /\ decided'[s][c] \in {decided[s][c], decided[s][c] + 1}
      BY <1>2, <2>2
    <3>2. fed[s][c] = 0 /\ decided[s][c] = 0
      BY <1>3, <2>2
    <3>3. fed'[s][c] \in {0, 1} /\ decided'[s][c] \in {0, 1}
      BY <3>1, <3>2
    <3> QED BY <2>2, <3>3
  <2>3. CASE ~(s \in ss /\ d = c)
    BY <1>2, <2>1, <2>3
  <2> QED BY <2>2, <2>3
<1>5. Fresh'
  <2> SUFFICES ASSUME NEW s \in Symbols, NEW d \in Starts, anchor'[s] < d
               PROVE  fed'[s][d] = 0 /\ decided'[s][d] = 0 /\ <<s, d>> \notin lost'
    BY DEF Fresh
  <2>1. CASE s \in ss
    <3>1. c < d /\ anchor[s] < c
      BY <2>1
    <3>2. anchor[s] \in Int /\ c \in Int /\ d \in Int
      BY DEF TypeOK, Starts, None
    <3>3. anchor[s] < d /\ d # c
      BY <3>1, <3>2
    <3>4. fed[s][d] = 0 /\ decided[s][d] = 0 /\ <<s, d>> \notin lost
      BY <3>3 DEF Fresh
    <3> QED BY <1>2, <2>1, <3>3, <3>4
  <2>2. CASE s \notin ss
    <3>1. anchor[s] < d
      BY <2>2
    <3>2. fed[s][d] = 0 /\ decided[s][d] = 0 /\ <<s, d>> \notin lost
      BY <3>1 DEF Fresh
    <3> QED BY <1>2, <2>2, <3>2
  <2> QED BY <2>1, <2>2
<1>6. NoHole'
  <2> SUFFICES ASSUME HasHistory,
                      NEW s \in Symbols, NEW d \in Starts,
                      Consumed(s, d)', d < anchor'[s]
               PROVE  /\ d + Interval \in Starts
                      /\ Consumed(s, d + Interval)'
    BY DEF NoHole
  <2>1. CASE s \notin ss
    <3>1. anchor'[s] = anchor[s]
      BY <2>1
    <3>2. \A e \in Starts : Consumed(s, e)' <=> Consumed(s, e)
      BY <1>2, <2>1 DEF Consumed
    <3>3. d + Interval \in Starts /\ Consumed(s, d + Interval)
      BY <3>1, <3>2 DEF NoHole
    <3> QED BY <3>2, <3>3
  <2>2. CASE s \in ss
    <3>0. anchor'[s] = c /\ c \in Int /\ d \in Int
      BY <2>2 DEF Starts
    <3>a. d # c
      BY <3>0
    <3>b. fed'[s][c] = 1 \/ <<s, c>> \in lost'
      <4>1. fed'[s][c] = fed[s][c] + 1 \/ <<s, c>> \in lost'
        BY <1>2, <2>2
      <4>2. fed[s][c] = 0
        BY <1>3, <2>2
      <4> QED BY <4>1, <4>2
    <3>1. Consumed(s, c)' /\ anchor'[s] = c /\ d # c
      BY <3>0, <3>a, <3>b DEF Consumed
    <3>2. Consumed(s, d)
      BY <1>2, <2>2, <3>1 DEF Consumed
    <3>3. d <= anchor[s]
      BY <3>2 DEF Fresh, Consumed, TypeOK, Starts, None
    <3>4. anchor[s] # None
      BY <3>3 DEF Starts, None
    <3>5. c = anchor[s] + Interval
      BY <2>2, <3>4
    <3>6. CASE d = anchor[s]
      BY <3>1, <3>5, <3>6
    <3>7. CASE d < anchor[s]
      <4>1. d + Interval \in Starts /\ Consumed(s, d + Interval)
        BY <3>2, <3>7 DEF NoHole
      <4>2. d + Interval # c
        BY <3>5, <3>7, IntervalAssumption DEF TypeOK, Starts, None
      <4> QED BY <1>2, <2>2, <4>1, <4>2 DEF Consumed
    <3>8. d = anchor[s] \/ d < anchor[s]
      BY <3>3 DEF TypeOK, Starts, None
    <3> QED BY <3>6, <3>7, <3>8
  <2> QED BY <2>1, <2>2
<1> QED BY <1>1, <1>4, <1>5, <1>6

-----------------------------------------------------------------------------
(* Warm-up.                                                                *)

\* The candles of a run end at its last one and leave no hole before it.
LEMMA RunIsGapless ==
  ASSUME NEW run \in Runs, NEW c \in CandlesOf(run)
  PROVE  /\ run.count > 0
         /\ c \in Int
         /\ LastOf(run) \in CandlesOf(run)
         /\ c <= LastOf(run)
         /\ c < LastOf(run) => c + Interval \in CandlesOf(run)
<1> DEFINE f == run.first
           n == run.count
<1>1. f \in Nat /\ n \in Nat /\ Interval \in Nat /\ Interval > 0
  BY IntervalAssumption, BoundAssumption DEF Runs, Starts
<1>2. PICK i \in 0..(n - 1) : c = f + i * Interval
  BY DEF CandlesOf
<1>3. n > 0 /\ i <= n - 1 /\ i \in Nat
  BY <1>1, <1>2
<1>4. LastOf(run) = f + (n - 1) * Interval
  BY <1>1, <1>3 DEF LastOf
<1>5. LastOf(run) \in CandlesOf(run)
  BY <1>1, <1>3, <1>4 DEF CandlesOf
<1>6. i * Interval <= (n - 1) * Interval
  BY <1>1, <1>3, SMT
<1>7. i * Interval \in Int /\ (n - 1) * Interval \in Int
  BY <1>1, <1>3, SMT
<1>8. c <= LastOf(run) /\ c \in Int
  BY <1>1, <1>2, <1>4, <1>6, <1>7
<1>9. ASSUME c < LastOf(run)
      PROVE  c + Interval \in CandlesOf(run)
  <2>1. i # n - 1
    BY <1>1, <1>2, <1>4, <1>7, <1>9
  <2>2. i + 1 \in 0..(n - 1)
    BY <1>1, <1>3, <2>1
  <2>3. c + Interval = f + (i + 1) * Interval
    BY <1>1, <1>2, <1>3, SMT
  <2> QED BY <2>2, <2>3 DEF CandlesOf
<1> QED BY <1>3, <1>5, <1>8, <1>9

\* A reply that was accepted establishes the invariant.
LEMMA WarmupFeeds ==
  ASSUME IInv,
         NEW now \in Starts, NEW runs \in [Symbols -> Runs], NEW n \in WindowLengths,
         WarmupReply(now, runs, n), phase' = "waiting"
  PROVE  /\ anchor' \in [Symbols -> Starts \cup {None}]
         /\ fed' \in [Symbols -> [Starts -> Nat]]
         /\ AtMostOnce'
         /\ NoHole'
         /\ Fresh'
         /\ \A s \in Symbols, c \in Starts :
              fed'[s][c] > 0 => /\ c <= anchor'[s]
                                /\ c < anchor'[s] => /\ c + Interval \in Starts
                                                     /\ fed'[s][c + Interval] > 0
<1>1. /\ \A s \in Symbols : CandlesOf(runs[s]) \subseteq Starts
      /\ fed' = [s \in Symbols |-> [c \in Starts |->
                   IF c \in CandlesOf(runs[s]) THEN fed[s][c] + 1 ELSE fed[s][c]]]
      /\ anchor' = [s \in Symbols |->
                     IF runs[s].count = 0 THEN anchor[s] ELSE LastOf(runs[s])]
      /\ UNCHANGED <<decided, lost>>
  BY DEF WarmupReply
<1>2. /\ \A s \in Symbols : anchor[s] = None
      /\ \A s \in Symbols, c \in Starts :
           fed[s][c] = 0 /\ decided[s][c] = 0 /\ <<s, c>> \notin lost
  <2>1. \A s \in Symbols : anchor[s] = None
    BY DEF IInv, WarmingUp, WarmupReply
  <2> QED BY <2>1 DEF IInv, Fresh, Starts, None
<1>3. ASSUME NEW s \in Symbols, NEW c \in Starts
      PROVE  /\ c \in CandlesOf(runs[s]) => fed'[s][c] = 1
             /\ c \notin CandlesOf(runs[s]) => fed'[s][c] = 0
             /\ decided'[s][c] = 0
             /\ <<s, c>> \notin lost'
  <2>1. /\ c \in CandlesOf(runs[s]) => fed'[s][c] = fed[s][c] + 1
        /\ c \notin CandlesOf(runs[s]) => fed'[s][c] = fed[s][c]
    BY <1>1
  <2>2. fed[s][c] = 0 /\ decided[s][c] = 0 /\ <<s, c>> \notin lost
    BY <1>2
  <2> QED BY <1>1, <2>1, <2>2
<1>4. ASSUME NEW s \in Symbols, NEW c \in Starts, c \in CandlesOf(runs[s])
      PROVE  /\ anchor'[s] = LastOf(runs[s])
             /\ c <= anchor'[s]
             /\ c < anchor'[s] => c + Interval \in CandlesOf(runs[s])
  <2>1. runs[s] \in Runs
    OBVIOUS
  <2>2. runs[s].count > 0
    BY <2>1, <1>4, RunIsGapless
  <2>3. anchor'[s] = LastOf(runs[s])
    BY <1>1, <2>2
  <2> QED BY <2>1, <2>3, <1>4, RunIsGapless
<1>5. anchor' \in [Symbols -> Starts \cup {None}]
  <2> SUFFICES ASSUME NEW s \in Symbols
               PROVE  anchor'[s] \in Starts \cup {None}
    BY <1>1
  <2>1. CASE runs[s].count = 0
    BY <1>1, <1>2, <2>1
  <2>2. CASE runs[s].count # 0
    <3>1. runs[s] \in Runs /\ runs[s].first \in CandlesOf(runs[s])
      <4>1. runs[s] \in Runs
        OBVIOUS
      <4>2. 0 \in 0..(runs[s].count - 1)
        BY <4>1, <2>2, BoundAssumption DEF Runs
      <4>3. runs[s].first + 0 * Interval = runs[s].first
        BY <4>1, IntervalAssumption, SMT DEF Runs, Starts
      <4> QED BY <4>1, <4>2, <4>3 DEF CandlesOf
    <3>2. LastOf(runs[s]) \in Starts
      BY <3>1, <1>1, RunIsGapless
    <3> QED BY <1>1, <2>2, <3>2
  <2> QED BY <2>1, <2>2
<1>6. fed' \in [Symbols -> [Starts -> Nat]]
  BY <1>1 DEF IInv, TypeOK
<1>7. AtMostOnce'
  <2> SUFFICES ASSUME NEW s \in Symbols, NEW c \in Starts
               PROVE  fed'[s][c] <= 1 /\ decided'[s][c] <= 1
    BY DEF AtMostOnce
  <2>1. fed'[s][c] = 1 \/ fed'[s][c] = 0
    BY <1>3
  <2>2. decided'[s][c] = 0
    BY <1>3
  <2> QED BY <2>1, <2>2
<1>8. Fresh'
  <2> SUFFICES ASSUME NEW s \in Symbols, NEW c \in Starts, anchor'[s] < c
               PROVE  fed'[s][c] = 0
    BY <1>3 DEF Fresh
  <2>1. c \notin CandlesOf(runs[s])
    BY <1>4, <1>5 DEF Starts, None
  <2> QED BY <1>3, <2>1
<1>9. \A s \in Symbols, c \in Starts :
        fed'[s][c] > 0 => /\ c <= anchor'[s]
                          /\ c < anchor'[s] => /\ c + Interval \in Starts
                                               /\ fed'[s][c + Interval] > 0
  <2> SUFFICES ASSUME NEW s \in Symbols, NEW c \in Starts, fed'[s][c] > 0
               PROVE  /\ c <= anchor'[s]
                      /\ c < anchor'[s] => /\ c + Interval \in Starts
                                           /\ fed'[s][c + Interval] > 0
    OBVIOUS
  <2>1. c \in CandlesOf(runs[s])
    <3>1. c \notin CandlesOf(runs[s]) => fed'[s][c] = 0
      BY <1>3
    <3> QED BY <3>1
  <2>2. c <= anchor'[s] /\ (c < anchor'[s] => c + Interval \in CandlesOf(runs[s]))
    BY <1>4, <2>1
  <2>3. ASSUME c < anchor'[s]
        PROVE  c + Interval \in Starts /\ fed'[s][c + Interval] > 0
    <3>1. c + Interval \in CandlesOf(runs[s]) /\ c + Interval \in Starts
      BY <1>1, <2>2, <2>3
    <3>2. fed'[s][c + Interval] = 1
      BY <1>3, <3>1
    <3> QED BY <3>1, <3>2
  <2> QED BY <2>2, <2>3
<1>10. NoHole'
  BY <1>3, <1>9 DEF NoHole, Consumed
<1> QED BY <1>5, <1>6, <1>7, <1>8, <1>9, <1>10

-----------------------------------------------------------------------------
(* Every step preserves the invariant.                                     *)

\* A step that takes no candle.
LEMMA TakesNothing ==
  ASSUME IInv, UNCHANGED <<anchor, fed, decided, lost>>
  PROVE  /\ anchor' \in [Symbols -> Starts \cup {None}]
         /\ fed' \in [Symbols -> [Starts -> Nat]]
         /\ decided' \in [Symbols -> [Starts -> Nat]]
         /\ lost' \in SUBSET (Symbols \X Starts)
         /\ AtMostOnce' /\ NoHole' /\ Fresh'
  BY DEF IInv, TypeOK, AtMostOnce, NoHole, Consumed, Fresh

\* A step after which no event is in hand.
LEMMA EventForgotten ==
  ASSUME ForgetEvent, phase' \in {"waiting", "closed", "crashed", "failed"}
  PROVE  /\ phase' \in Phases
         /\ event' \in Events \cup {NoEvent}
         /\ todo' \in SUBSET event'.symbols
         /\ current' \in todo' \cup {NoSymbol}
         /\ batch' \in SUBSET Starts
         /\ Judged' /\ Filling' /\ Replaying' /\ WarmingUp'
  BY DEF ForgetEvent, Phases, NoEvent, Judged, Filling, Replaying, WarmingUp

\* A warm-up feeds a stretch of history or nothing.
LEMMA WarmupStep ==
  ASSUME IInv, Warmup
  PROVE  IInv'
<1>1. CASE WarmupError
  BY <1>1, TakesNothing
     DEF WarmupError, engine, seen, IInv, TypeOK, Phases, Judged, Filling, Replaying, WarmingUp
<1>2. ASSUME NEW now \in Starts, NEW runs \in [Symbols -> Runs], NEW n \in WindowLengths,
             WarmupReply(now, runs, n)
      PROVE  IInv'
  <2>1. CASE phase' = "waiting"
    <3>1. /\ anchor' \in [Symbols -> Starts \cup {None}]
          /\ fed' \in [Symbols -> [Starts -> Nat]]
          /\ AtMostOnce' /\ NoHole' /\ Fresh'
      BY <1>2, <2>1, WarmupFeeds
    <3>2. UNCHANGED <<event, todo, current, batch, fatal, decided, lost>> /\ phase = "warmup"
      BY <1>2 DEF WarmupReply
    <3> QED BY <2>1, <3>1, <3>2
            DEF IInv, TypeOK, Phases, Judged, Filling, Replaying, WarmingUp
  <2>2. CASE phase' = "failed"
    <3>1. /\ UNCHANGED <<anchor, event, todo, current, batch, fatal, fed, decided, lost>>
          /\ phase = "warmup"
      BY <1>2, <2>2 DEF WarmupReply
    <3> QED BY <2>2, <3>1, TakesNothing
            DEF IInv, TypeOK, Phases, Judged, Filling, Replaying, WarmingUp
  <2>3. phase' = "waiting" \/ phase' = "failed"
    BY <1>2 DEF WarmupReply
  <2> QED BY <2>1, <2>2, <2>3
<1> QED BY <1>1, <1>2 DEF Warmup

\* A received event takes no candle.
LEMMA ReceiveStep ==
  ASSUME IInv, NEW e \in Events, Receive(e)
  PROVE  IInv'
<1>1. UNCHANGED <<anchor, fed, decided, lost>>
  BY DEF Receive, seen
<1>2. TypeOK'
  BY <1>1, TakesNothing DEF Receive, IInv, TypeOK, Phases, Events, Filling
<1>3. Judged' /\ Filling' /\ Replaying' /\ WarmingUp'
  BY DEF Receive, IInv, Judged, Filling, Replaying, WarmingUp
<1> QED BY <1>1, <1>2, <1>3, TakesNothing DEF IInv

\* The end of the stream takes no candle.
LEMMA StreamEndsStep ==
  ASSUME IInv, StreamEnds
  PROVE  IInv'
  BY TakesNothing
     DEF StreamEnds, engine, seen, IInv, TypeOK, Phases, Judged, Filling, Replaying, WarmingUp

\* The stream is ended for an event that cannot be made continuous.
LEMMA StopStep ==
  ASSUME IInv, StopFatally
  PROVE  IInv'
<1>1. UNCHANGED <<anchor, fed, decided, lost>> /\ phase' = "closed" /\ fatal' \in BOOLEAN
  BY DEF StopFatally, seen
<1>2. ForgetEvent
  BY DEF StopFatally
<1> QED BY <1>1, <1>2, TakesNothing, EventForgotten DEF IInv, TypeOK

\* Judging a symbol of the event takes no candle.
LEMMA CheckStep ==
  ASSUME IInv, NEW s \in Symbols, Check(s)
  PROVE  IInv'
<1>1. CASE DropSeen(s)
  <2>1. /\ UNCHANGED <<anchor, fed, decided, lost, fatal>>
        /\ ForgetEvent /\ phase' = "waiting"
    BY <1>1 DEF DropSeen, seen
  <2> QED BY <2>1, TakesNothing, EventForgotten DEF IInv, TypeOK
<1>2. CASE PassContinuous(s)
  <2>1. /\ UNCHANGED <<phase, anchor, event, current, batch, fatal, fed, decided, lost>>
        /\ phase = "checking" /\ s \in todo /\ todo' = todo \ {s}
    BY <1>2 DEF PassContinuous, seen
  <2>2. NextInLine(s)
    BY <1>2 DEF PassContinuous, Continuous, NextInLine, Elapsed, IInv, TypeOK, Events, NoEvent,
                Starts, None
  <2>3. current' \in todo' \cup {NoSymbol}
    BY <2>1 DEF IInv, Filling
  <2> QED BY <2>1, <2>2, TakesNothing
          DEF IInv, TypeOK, Judged, Filling, Replaying, WarmingUp, NextInLine
<1>3. CASE JudgeGap(s) /\ StopFatally
  BY <1>3, StopStep
<1>4. CASE JudgeGap(s) /\ ~StopFatally
  <2>1. /\ UNCHANGED <<anchor, event, todo, batch, fatal, fed, decided, lost>>
        /\ phase = "checking" /\ s \in todo /\ phase' = "fetching" /\ current' = s
        /\ IsGap(s) /\ Aligned(s)
    BY <1>4 DEF JudgeGap, seen
  <2>2. HasHistory /\ anchor[s] # None /\ anchor[s] < event.start
    BY <2>1, ModeAssumption DEF IsGap, Continuous
  <2>3. Filling'
    BY <2>1, <2>2 DEF Filling, Aligned, Elapsed
  <2>4. Judged'
    BY <2>1 DEF IInv, Judged, NextInLine
  <2> QED BY <2>1, <2>3, <2>4, TakesNothing
          DEF IInv, TypeOK, Phases, Replaying, WarmingUp
<1> QED BY <1>1, <1>2, <1>3, <1>4 DEF Check

\* A reply of history is replayed only when it is exactly the gap.
LEMMA HistoryStep ==
  ASSUME IInv, HistoryReplies
  PROVE  IInv'
<1>1. CASE StopFatally
  BY <1>1, StopStep
<1>2. ASSUME NEW got \in SUBSET Starts, BackfillReply(got), ~StopFatally
      PROVE  IInv'
  <2>1. /\ UNCHANGED <<anchor, event, todo, current, fatal, fed, decided, lost>>
        /\ phase = "fetching" /\ phase' = "replaying"
        /\ batch' = Missing(current)
    BY <1>2 DEF BackfillReply, seen
  <2>2. batch' \in SUBSET Starts
    BY <2>1 DEF Missing
  <2>3. Replaying'
    BY <2>1 DEF Replaying, Missing
  <2>4. Judged' /\ Filling'
    BY <2>1 DEF IInv, Judged, NextInLine, Filling, Aligned, Elapsed
  <2> QED BY <2>1, <2>2, <2>3, <2>4, TakesNothing
          DEF IInv, TypeOK, Phases, WarmingUp
<1> QED BY <1>1, <1>2 DEF HistoryReplies, BackfillError

\* The earliest candle of the gap is the next candle of its symbol.
LEMMA ReplayStep ==
  ASSUME IInv, NEW c \in batch, NEW ok \in SUBSET {current}, NEW raised \in BOOLEAN,
         Replay(c, ok, raised)
  PROVE  IInv'
<1> DEFINE ss == {current}
<1>1. phase = "replaying" /\ batch = Missing(current) /\ TypeOK /\ Filling
  BY DEF Replay, IInv, Replaying
<1>2. current \in Symbols /\ anchor[current] \in Starts /\ event.start \in Starts
  BY <1>1, SymbolAssumption DEF TypeOK, Filling, Events, NoEvent, None, Starts
<1>3. c = anchor[current] + Interval /\ c \in Starts
  BY <1>1, FirstMissing DEF Replay
<1>4. anchor' = [s \in Symbols |-> IF s \in ss THEN c ELSE anchor[s]]
  BY <1>1, <1>2 DEF Replay, TypeOK
<1>5. ProcessEvent(ss, c, FALSE, ok, raised)
  BY DEF Replay
<1>6. /\ anchor' \in [Symbols -> Starts \cup {None}]
      /\ fed' \in [Symbols -> [Starts -> Nat]]
      /\ decided' \in [Symbols -> [Starts -> Nat]]
      /\ lost' \in SUBSET (Symbols \X Starts)
      /\ AtMostOnce' /\ NoHole' /\ Fresh'
  <2>1. \A s \in ss : /\ anchor[s] < c
                      /\ HasHistory /\ anchor[s] # None => c = anchor[s] + Interval
    BY <1>2, <1>3, IntervalAssumption DEF Starts
  <2>2. ss \in SUBSET Symbols
    BY <1>2
  <2> HIDE DEF ss
  <2>3. ok \in SUBSET ss
    BY DEF ss
  <2>4. FALSE \in BOOLEAN /\ TypeOK /\ AtMostOnce /\ NoHole /\ Fresh /\ c \in Starts
    BY <1>3 DEF IInv
  <2> QED BY <1>4, <1>5, <2>1, <2>2, <2>3, <2>4, Consuming
<1>7. CASE raised
  <2>1. ForgetEvent /\ fatal' = fatal /\ phase' \in {"waiting", "crashed"}
    BY <1>7 DEF Replay, AfterRaise
  <2> QED BY <1>6, <2>1, EventForgotten DEF IInv, TypeOK
<1>8. CASE ~raised
  <2>1. batch' = batch \ {c} /\ UNCHANGED <<phase, event, todo, current, fatal>>
    BY <1>8 DEF Replay
  <2>2. anchor'[current] = c /\ c < event.start
    BY <1>1, <1>2, <1>4 DEF Missing
  <2>3. Filling'
    <3>1. (event.start - c) % Interval = 0
      BY <1>1, <1>3, StaysAligned
    <3> QED BY <1>1, <1>3, <2>1, <2>2, <3>1 DEF Filling, Aligned, Elapsed, Starts, None
  <2>4. Replaying'
    <3>1. batch \ {c} = {d \in Starts : c < d /\ d < event.start /\ (d - c) % Interval = 0}
      BY <1>1, <1>3, RestOfGap
    <3> QED BY <2>1, <2>2, <3>1 DEF Replaying, Missing
  <2>5. Judged'
    <3>1. \A s \in event.symbols \ todo : anchor'[s] = anchor[s]
      BY <1>1, <1>4 DEF Filling, TypeOK, Events, NoEvent
    <3> QED BY <1>1, <2>1, <3>1 DEF IInv, Judged, NextInLine
  <2>6. WarmingUp'
    BY <1>1, <2>1 DEF WarmingUp
  <2>7. TypeOK'
    BY <1>1, <1>6, <2>1 DEF TypeOK
  <2> QED BY <1>6, <2>3, <2>4, <2>5, <2>6, <2>7 DEF IInv
<1> QED BY <1>7, <1>8

\* After the last candle of the gap the event is continuous for the symbol.
LEMMA EndReplayStep ==
  ASSUME IInv, EndReplay
  PROVE  IInv'
<1>1. /\ phase = "replaying" /\ phase' = "checking" /\ Missing(current) = {}
      /\ todo' = todo \ {current} /\ current' = NoSymbol
      /\ UNCHANGED <<anchor, event, batch, fatal, fed, decided, lost>>
      /\ TypeOK /\ Filling
  BY DEF EndReplay, seen, IInv, Replaying
<1>2. event.start = anchor[current] + Interval
  BY <1>1, GapClosed
<1>3. NextInLine(current)
  BY <1>1, <1>2 DEF NextInLine, Filling
<1>4. Judged'
  BY <1>1, <1>3 DEF IInv, Judged, NextInLine
<1>5. Filling' /\ Replaying' /\ WarmingUp'
  BY <1>1 DEF Filling, Replaying, WarmingUp
<1>6. TypeOK'
  BY <1>1, TakesNothing DEF TypeOK, Phases
<1> QED BY <1>1, <1>4, <1>5, <1>6, TakesNothing DEF IInv

\* Every symbol of the event is continuous, so its candle is the next one.
LEMMA ProcessLiveStep ==
  ASSUME IInv, NEW ok \in SUBSET event.symbols, NEW raised \in BOOLEAN,
         ProcessLive(ok, raised)
  PROVE  IInv'
<1> DEFINE ss == event.symbols
           c == event.start
<1>1. /\ phase = "checking" /\ todo = {} /\ ForgetEvent /\ fatal' = fatal
      /\ phase' \in {"waiting", "crashed"}
      /\ anchor' = [s \in Symbols |-> IF s \in ss THEN c ELSE anchor[s]]
      /\ ProcessEvent(ss, c, TRUE, ok, raised)
  BY DEF ProcessLive, AfterRaise
<1>2. event \in Events /\ \A s \in ss : NextInLine(s)
  BY <1>1 DEF IInv, Judged
<1>3. /\ ss \in SUBSET Symbols /\ c \in Starts
      /\ \A s \in ss : /\ anchor[s] < c
                       /\ HasHistory /\ anchor[s] # None => c = anchor[s] + Interval
  BY <1>2 DEF Events, NextInLine
<1>4. /\ anchor' \in [Symbols -> Starts \cup {None}]
      /\ fed' \in [Symbols -> [Starts -> Nat]]
      /\ decided' \in [Symbols -> [Starts -> Nat]]
      /\ lost' \in SUBSET (Symbols \X Starts)
      /\ AtMostOnce' /\ NoHole' /\ Fresh'
  <2> HIDE DEF ss, c
  <2>1. ok \in SUBSET ss
    BY DEF ss
  <2> QED BY <1>1, <1>3, <2>1, Consuming DEF IInv
<1> QED BY <1>1, <1>4, EventForgotten DEF IInv, TypeOK

\* The invariant is inductive: one case per action.
THEOREM StepIInv == IInv /\ [Next]_vars => IInv'
<1> SUFFICES ASSUME IInv, [Next]_vars PROVE IInv'
  OBVIOUS
<1>1. CASE Warmup
  BY <1>1, WarmupStep
<1>2. ASSUME NEW e \in Events, Receive(e) PROVE IInv'
  BY <1>2, ReceiveStep
<1>3. CASE StreamEnds
  BY <1>3, StreamEndsStep
<1>4. ASSUME NEW s \in Symbols, Check(s) PROVE IInv'
  BY <1>4, CheckStep
<1>5. CASE HistoryReplies
  BY <1>5, HistoryStep
<1>6. CASE Process
  BY <1>6, ReplayStep, EndReplayStep, ProcessLiveStep DEF Process
<1>7. CASE UNCHANGED vars
  BY <1>7, TakesNothing
     DEF vars, IInv, TypeOK, Judged, NextInLine, Filling, Aligned, Elapsed, Replaying, Missing,
         WarmingUp
<1> QED BY <1>1, <1>2, <1>3, <1>4, <1>5, <1>6, <1>7 DEF Next

-----------------------------------------------------------------------------
(* The theorems.                                                           *)

\* The inductive invariant holds in every reachable state.
THEOREM Invariance == Spec => []IInv
<1>1. Init => IInv
  BY InitIInv
<1>2. IInv /\ [Next]_vars => IInv'
  BY StepIInv
<1> QED BY <1>1, <1>2, PTL DEF Spec

(***************************************************************************)
(* Type correctness: of the driver's state in run_async, the event in hand *)
(* and the back-fill of _backfill_gap.                                     *)
(***************************************************************************)
THEOREM TypeCorrectness == Spec => []TypeOK
<1>1. IInv => TypeOK
  BY DEF IInv
<1> QED BY <1>1, Invariance, PTL

(***************************************************************************)
(* No candle is fed or decided on twice, whatever the stream redelivers    *)
(* and wherever process_event raises.                                      *)
(***************************************************************************)
THEOREM NothingTwice == Spec => []AtMostOnce
<1>1. IInv => AtMostOnce
  BY DEF IInv
<1> QED BY <1>1, Invariance, PTL

(***************************************************************************)
(* The candles consumed by run_async and _backfill_gap leave no hole.      *)
(***************************************************************************)
THEOREM NoCandleSkipped == Spec => []NoHole
<1>1. IInv => NoHole
  BY DEF IInv
<1> QED BY <1>1, Invariance, PTL

\* Only the processing of a live event decides.
LEMMA OnlyLiveDecides ==
  ASSUME IInv, Next, NEW s \in Symbols, NEW c \in Starts, decided'[s][c] # decided[s][c]
  PROVE  \E ok \in SUBSET event.symbols, raised \in BOOLEAN : ProcessLive(ok, raised)
<1>1. ASSUME NEW d \in batch, NEW ok \in SUBSET {current}, NEW raised \in BOOLEAN,
             Replay(d, ok, raised)
      PROVE  FALSE
  <2>1. decided' = [x \in Symbols |-> decided[x]]
    BY <1>1 DEF Replay, ProcessEvent
  <2> QED BY <2>1
<1>2. ~(Warmup \/ (\E e \in Events : Receive(e)) \/ StreamEnds \/ (\E x \in Symbols : Check(x))
        \/ HistoryReplies \/ EndReplay)
  BY DEF Warmup, WarmupReply, WarmupError, Receive, StreamEnds, Check, DropSeen,
         PassContinuous, JudgeGap, HistoryReplies, BackfillError, BackfillReply, StopFatally,
         EndReplay, seen
<1> QED BY <1>1, <1>2 DEF Next, Process

(***************************************************************************)
(* A decision is made on the candle right after the last one the           *)
(* indicators hold, and feeds it to them in the same step.                 *)
(***************************************************************************)
THEOREM DecisionsAreCurrent == Spec => DecidesOnNewest
<1>1. ASSUME IInv, [Next]_vars,
             NEW s \in Symbols, NEW c \in Starts, decided'[s][c] # decided[s][c]
      PROVE  /\ s \in event.symbols /\ c = event.start
             /\ anchor[s] < c
             /\ (HasHistory /\ anchor[s] # None) => c = anchor[s] + Interval
             /\ fed'[s][c] = fed[s][c] + 1
  <2>1. Next
    BY <1>1 DEF vars
  <2>2. PICK ok \in SUBSET event.symbols, raised \in BOOLEAN : ProcessLive(ok, raised)
    BY <1>1, <2>1, OnlyLiveDecides
  <2>3. /\ phase = "checking" /\ todo = {}
        /\ ProcessEvent(event.symbols, event.start, TRUE, ok, raised)
    BY <2>2 DEF ProcessLive
  <2>4. event.start \in Starts /\ \A x \in event.symbols : NextInLine(x)
    BY <1>1, <2>3 DEF IInv, Judged, Events
  <2>5. s \in event.symbols /\ c = event.start /\ ok = event.symbols
    BY <1>1, <2>3, <2>4 DEF ProcessEvent, IInv, TypeOK
  <2>6. fed'[s][c] = fed[s][c] + 1
    BY <1>1, <2>3, <2>5 DEF ProcessEvent, IInv, TypeOK
  <2> QED BY <2>4, <2>5, <2>6 DEF NextInLine
<1>2. IInv /\ [Next]_vars =>
        [\A s \in Symbols, c \in Starts :
           decided'[s][c] # decided[s][c] =>
             /\ s \in event.symbols /\ c = event.start
             /\ anchor[s] < c
             /\ (HasHistory /\ anchor[s] # None) => c = anchor[s] + Interval
             /\ fed'[s][c] = fed[s][c] + 1]_vars
  BY <1>1
<1> QED BY <1>2, Invariance, PTL DEF Spec, DecidesOnNewest

-----------------------------------------------------------------------------
(* Refinement.                                                             *)

\* A step that takes no candle is a stutter of the feed.
LEMMA StuttersFeed ==
  ASSUME UNCHANGED <<anchor, fed>>
  PROVE  UNCHANGED Feed!vars
  BY DEF Feed!vars

\* A step that takes the candle c of symbols ss is a step of the feed.
LEMMA ConsumesFromFeed ==
  ASSUME TypeOK,
         NEW ss \in SUBSET Symbols, NEW c \in Starts, NEW ok \in SUBSET ss,
         NEW decide \in BOOLEAN, NEW raised \in BOOLEAN,
         ProcessEvent(ss, c, decide, ok, raised),
         \A s \in ss : /\ anchor[s] < c
                       /\ HasHistory /\ anchor[s] # None => c = anchor[s] + Interval,
         anchor' = [s \in Symbols |-> IF s \in ss THEN c ELSE anchor[s]]
  PROVE  Feed!Next
<1> DEFINE before == {p \in Symbols \X Starts : fed[p[1]][p[2]] > 0}
           after == {p \in Symbols \X Starts : fed'[p[1]][p[2]] > 0}
<1>1. ASSUME NEW s \in Symbols, NEW d \in Starts
      PROVE  /\ s \in ok /\ d = c => fed'[s][d] = fed[s][d] + 1
             /\ ~(s \in ok /\ d = c) => fed'[s][d] = fed[s][d]
             /\ fed[s][d] \in Nat
  BY DEF ProcessEvent, TypeOK
<1>2. before \subseteq after
  <2> SUFFICES ASSUME NEW s \in Symbols, NEW d \in Starts, fed[s][d] > 0
               PROVE  fed'[s][d] > 0
    OBVIOUS
  <2> QED BY <1>1
<1>3. after \subseteq before \cup (ss \X {c})
  <2> SUFFICES ASSUME NEW s \in Symbols, NEW d \in Starts, fed'[s][d] > 0
               PROVE  fed[s][d] > 0 \/ (s \in ss /\ d = c)
    OBVIOUS
  <2> QED BY <1>1
<1>4. Feed!Consume(ss, c)
  BY <1>2, <1>3 DEF Feed!Consume, Feed!MayFollow, Feed!None, None
<1> QED BY <1>4 DEF Feed!Next, Feed!Starts, Starts

\* An accepted warm-up is the feed's stretch of history.
LEMMA PrefeedsFeed ==
  ASSUME IInv, NEW now \in Starts, NEW runs \in [Symbols -> Runs], NEW n \in WindowLengths,
         WarmupReply(now, runs, n), phase' = "waiting"
  PROVE  Feed!Next
<1> DEFINE before == {p \in Symbols \X Starts : fed[p[1]][p[2]] > 0}
           after == {p \in Symbols \X Starts : fed'[p[1]][p[2]] > 0}
<1>1. \A s \in Symbols : anchor[s] = None
  BY DEF WarmupReply, IInv, WarmingUp
<1>2. anchor = [s \in Symbols |-> None]
  BY <1>1 DEF IInv, TypeOK
<1>3. before = {}
  <2> SUFFICES ASSUME NEW s \in Symbols, NEW d \in Starts, fed[s][d] > 0
               PROVE  FALSE
    OBVIOUS
  <2>1. anchor[s] < d
    BY <1>1 DEF Starts, None
  <2>2. fed[s][d] = 0
    BY <2>1 DEF IInv, Fresh
  <2> QED BY <2>2
<1>4. /\ anchor' \in [Symbols -> Starts \cup {None}]
      /\ \A s \in Symbols, c \in Starts :
           fed'[s][c] > 0 => /\ c <= anchor'[s]
                             /\ c < anchor'[s] => /\ c + Interval \in Starts
                                                  /\ fed'[s][c + Interval] > 0
  BY WarmupFeeds
<1>5. \A s \in Symbols, c \in Starts : <<s, c>> \in after =>
        /\ c <= anchor'[s]
        /\ c < anchor'[s] => <<s, c + Interval>> \in after
  BY <1>4
<1>6. after \in SUBSET (Symbols \X Starts)
  OBVIOUS
<1>7. Feed!Prefeed
  BY <1>2, <1>3, <1>4, <1>5, <1>6 DEF Feed!Prefeed, Feed!Starts, Feed!None, Starts, None
<1> QED BY <1>7 DEF Feed!Next

\* Every step of the engine is a step of the feed or a stutter.
LEMMA StepFeed ==
  ASSUME IInv, [Next]_vars
  PROVE  [Feed!Next]_(Feed!vars)
<1>1. CASE Warmup
  <2>1. ASSUME NEW now \in Starts, NEW runs \in [Symbols -> Runs], NEW n \in WindowLengths,
               WarmupReply(now, runs, n)
        PROVE  [Feed!Next]_(Feed!vars)
    <3>1. CASE phase' = "waiting"
      BY <2>1, <3>1, PrefeedsFeed
    <3>2. CASE phase' # "waiting"
      <4>1. UNCHANGED <<anchor, fed>>
        BY <2>1, <3>2 DEF WarmupReply
      <4> QED BY <4>1, StuttersFeed
    <3> QED BY <3>1, <3>2
  <2>2. CASE WarmupError
    BY <2>2, StuttersFeed DEF WarmupError, engine, seen
  <2> QED BY <1>1, <2>1, <2>2 DEF Warmup
<1>2. ASSUME \/ \E e \in Events : Receive(e)
             \/ StreamEnds
             \/ \E s \in Symbols : Check(s)
             \/ HistoryReplies
             \/ EndReplay
      PROVE  [Feed!Next]_(Feed!vars)
  <2>1. UNCHANGED <<anchor, fed>>
    BY <1>2 DEF Receive, StreamEnds, Check, DropSeen, PassContinuous, JudgeGap, HistoryReplies,
                BackfillError, BackfillReply, StopFatally, EndReplay, engine, seen
  <2> QED BY <2>1, StuttersFeed
<1>3. ASSUME NEW c \in batch, NEW ok \in SUBSET {current}, NEW raised \in BOOLEAN,
             Replay(c, ok, raised)
      PROVE  Feed!Next
  <2> DEFINE ss == {current}
  <2>1. phase = "replaying" /\ batch = Missing(current) /\ TypeOK /\ Filling
    BY <1>3 DEF Replay, IInv, Replaying
  <2>2. current \in Symbols /\ anchor[current] \in Starts
    BY <2>1, SymbolAssumption DEF TypeOK, Filling, Events, NoEvent, None, Starts
  <2>3. c = anchor[current] + Interval /\ c \in Starts
    BY <1>3, <2>1, FirstMissing DEF Replay
  <2>4. anchor' = [s \in Symbols |-> IF s \in ss THEN c ELSE anchor[s]]
    BY <1>3, <2>1, <2>2 DEF Replay, TypeOK
  <2>5. ProcessEvent(ss, c, FALSE, ok, raised)
    BY <1>3 DEF Replay
  <2>6. \A s \in ss : /\ anchor[s] < c
                      /\ HasHistory /\ anchor[s] # None => c = anchor[s] + Interval
    BY <2>2, <2>3, IntervalAssumption DEF Starts
  <2>7. ss \in SUBSET Symbols /\ ok \in SUBSET ss
    BY <2>2
  <2> HIDE DEF ss
  <2>8. FALSE \in BOOLEAN /\ TypeOK /\ c \in Starts
    BY <2>1, <2>3
  <2> QED BY <2>4, <2>5, <2>6, <2>7, <2>8, ConsumesFromFeed
<1>4. ASSUME NEW ok \in SUBSET event.symbols, NEW raised \in BOOLEAN, ProcessLive(ok, raised)
      PROVE  Feed!Next
  <2> DEFINE ss == event.symbols
             c == event.start
  <2>1. /\ phase = "checking" /\ todo = {}
        /\ anchor' = [s \in Symbols |-> IF s \in ss THEN c ELSE anchor[s]]
        /\ ProcessEvent(ss, c, TRUE, ok, raised)
    BY <1>4 DEF ProcessLive
  <2>2. event \in Events /\ \A s \in ss : NextInLine(s)
    BY <2>1 DEF IInv, Judged
  <2>3. /\ ss \in SUBSET Symbols /\ c \in Starts /\ ok \in SUBSET ss
        /\ \A s \in ss : /\ anchor[s] < c
                         /\ HasHistory /\ anchor[s] # None => c = anchor[s] + Interval
    BY <2>2 DEF Events, NextInLine
  <2> HIDE DEF ss, c
  <2>4. TypeOK /\ TRUE \in BOOLEAN
    BY DEF IInv
  <2> QED BY <2>1, <2>3, <2>4, ConsumesFromFeed
<1>5. CASE UNCHANGED vars
  BY <1>5, StuttersFeed DEF vars
<1> QED BY <1>1, <1>2, <1>3, <1>4, <1>5 DEF Next, Process

(***************************************************************************)
(* The engine implements the abstract feed: what run_async, _backfill_gap, *)
(* warmup and process_event do to the indicators is one pass over each     *)
(* symbol's candles.                                                       *)
(***************************************************************************)
THEOREM EngineImplementsFeed == Spec => ImplementsFeed
<1>1. Init => Feed!Init
  BY DEF Init, Feed!Init, Feed!None, None
<1>2. IInv /\ [Next]_vars => [Feed!Next]_(Feed!vars)
  BY StepFeed
<1> QED BY <1>1, <1>2, Invariance, PTL DEF Spec, ImplementsFeed, Feed!Spec

=============================================================================
